----------------------------- MODULE MCToolEvent -----------------------------
(* ToolEvent with two placeholders, payloads of two leaves, and settings    *)
(* that may name a mode for the tool and a default.                         *)
EXTENDS ToolEvent

CONSTANTS n1, n2
=============================================================================
