------------------------------ MODULE MCJournal ------------------------------
(* Journal with a few writers and a reader of one file: lines of up to two *)
(* units.                                                                  *)
EXTENDS Journal

CONSTANTS w1, w2, w3, r1
=============================================================================
