--------------------------- MODULE MCHookAnswer ---------------------------
(* HookAnswer with a clock of five ticks: the deadline at 2, the answer due *)
(* at 3, the client's kill at 5.                                            *)
EXTENDS HookAnswer
=============================================================================
