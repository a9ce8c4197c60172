------------------------------ MODULE MCHashes ------------------------------
(* Two interchangeable keys, and interchangeable fields.                   *)
EXTENDS Hashes, TLC

Symmetry == Permutations(Keys) \cup Permutations(Fields)
=============================================================================
