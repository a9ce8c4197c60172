------------------------------ MODULE MCBlocking ------------------------------
(* Two blocking clients: one waits for one key, or for both, that key last.*)
EXTENDS Blocking, TLC

CONSTANTS a, b

MCKeys == {a, b}
MCKeyLists == {<<a>>, <<b, a>>}
=============================================================================
