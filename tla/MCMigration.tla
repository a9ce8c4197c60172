------------------------------ MODULE MCMigration -----------------------------
EXTENDS Migration, TLC

CONSTANTS a, b, c

Str(x) == [type |-> "string", data |-> SetToBag({x})]
Members(s) == [type |-> "set", data |-> SetToBag(s)]
Elements(n) == [type |-> "list", data |-> (1 :> n)]

MCValues == {Str(2), Members({1, 2})}
MCPageOf == (a :> 1) @@ (b :> 1) @@ (c :> 2)
MCSources == {(a :> Str(1)) @@ (b :> Members({1})) @@ (c :> Str(1))}

\* A source that holds lists.
ListValues == {Elements(1), Elements(2)}
ListSources == {(a :> Elements(1)) @@ (b :> None) @@ (c :> None)}
=============================================================================
