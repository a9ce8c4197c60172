------------------------------- MODULE MCSearch -------------------------------
(* One index; two keys, one of them under two prefixes; texts of two tokens. *)
(* Of the attributes one has no text, two want the same field, and two name  *)
(* the same field of a hash.                                                 *)
EXTENDS SearchMigration

CONSTANTS payload, title, tags, body, other, a, b, k1, k2

MCTexts == SUBSET {a, b}
MCDocuments == {payload :> {a}, title :> {b}}
MCAttributes == <<[identifier |-> body, name |-> title, text |-> TRUE],
                  [identifier |-> body, name |-> payload, text |-> FALSE],
                  [identifier |-> other, name |-> title, text |-> TRUE],
                  [identifier |-> body, name |-> tags, text |-> TRUE],
                  [identifier |-> other, name |-> payload, text |-> TRUE]>>
MCSourceHashes == {body :> {a, b}, other :> {a}}
MCPrefixes == <<{k1, k2}, {k2}>>
MCSourceSugs == a :> 1
===============================================================================
