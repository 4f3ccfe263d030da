----------------------------- MODULE MCDutLink -----------------------------
(* DutLink, for TLC: its constants are numbers and need no definitions. *)
EXTENDS DutLink
=============================================================================
