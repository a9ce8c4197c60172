------------------------------ MODULE Ordering ------------------------------
(***************************************************************************)
(* Numbered rows in the order of their numbers: ORDER BY of a statement,   *)
(* and the filter of an array, which keeps the order of its positions.     *)
(***************************************************************************)
EXTENDS Integers, FiniteSets

\* The numbers of S in ascending order.
InOrder(S) ==
    [i \in 1..Cardinality(S) |-> CHOOSE q \in S : Cardinality({p \in S : p <= q}) = i]

\* The values of f at the numbers in S, in the order of these.
Picked(f, S) == LET at == InOrder(S) IN [i \in DOMAIN at |-> f[at[i]]]
=============================================================================
