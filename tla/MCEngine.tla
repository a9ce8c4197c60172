------------------------------ MODULE MCEngine ------------------------------
(* Two keys, one collection type; keys are interchangeable.                *)
EXTENDS Engine, TLC

Symmetry == Permutations(Keys)
=============================================================================
