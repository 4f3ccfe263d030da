----------------------------- MODULE MCFixture -----------------------------
(* Fixture, for TLC: its constants are strings and numbers of the cfg. *)
EXTENDS Fixture
=============================================================================
