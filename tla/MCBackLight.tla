---------------------------- MODULE MCBackLight ----------------------------
(* BackLight, for TLC: its constants are numbers and need no definitions. *)
EXTENDS BackLight
=============================================================================
