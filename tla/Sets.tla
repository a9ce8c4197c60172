--------------------------------- MODULE Sets ---------------------------------
(***************************************************************************)
(* Set storage (storage/sqlite/sets.js) as operators: the members in       *)
(* redis_sets with the counter set_count of their key.                     *)
(***************************************************************************)
EXTENDS Integers, FiniteSetsExt

CONSTANT Null    \* set_count of a row from before the column existed

NoSet == [members |-> {}, count |-> 0]

\* set_count, or the rows when it is NULL; storing that is the caller's part.
Count(s) == IF s.count = Null THEN Cardinality(s.members) ELSE s.count
Hydrated(s) == [s EXCEPT !.count = Count(s)]

Add(s, members) ==
    LET added == Cardinality(members \ s.members)
    IN  [set |-> [members |-> s.members \cup members, count |-> Count(s) + added], reply |-> added]

\* What is left is the counter less the rows deleted, or counted when that was NULL.
RemoveMembers(s, members) ==
    LET n == Cardinality(members \cap s.members)
        left == s.members \ members
        count == IF s.count = Null THEN Cardinality(left) ELSE Max({0, s.count - n})
    IN  [set |-> IF count = 0 THEN NoSet
                 ELSE IF n = 0 THEN s ELSE [members |-> left, count |-> count],
         reply |-> n]

\* What SPOP and SRANDMEMBER may draw: that many members at most, or with repetition when the
\* count is negative.
Draws(members, count) ==
    IF count > 0
      THEN LET n == Min({count, Cardinality(members)})
           IN  {drawn \in [1..n -> members] : \A i, j \in 1..n : drawn[i] = drawn[j] => i = j}
      ELSE [1..(-count) -> members]

\* SPOP: what is left is the members less the draws.
PopRandom(s, drawn) ==
    LET count == Cardinality(s.members) - Cardinality(DOMAIN drawn)
    IN  IF count = 0 THEN NoSet
        ELSE [members |-> s.members \ {drawn[i] : i \in DOMAIN drawn}, count |-> count]
=============================================================================
