--------------------------- MODULE MCSettingsFile ---------------------------
(* SettingsFile with a few commands, a hook and an editor. *)
EXTENDS SettingsFile, TLC

CONSTANTS c1, c2, h1

(* No command is treated differently from another. *)
Symmetry == Permutations(Commands)
=============================================================================
