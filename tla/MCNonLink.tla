----------------------------- MODULE MCNonLink -----------------------------
(* NonLink, for TLC: its constants are numbers. *)
EXTENDS NonLink
=============================================================================
