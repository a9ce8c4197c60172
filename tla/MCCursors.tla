------------------------------ MODULE MCCursors ------------------------------
(* Five names in pages of two; HSCAN may ask for one more.                  *)
EXTENDS Cursors
==============================================================================
