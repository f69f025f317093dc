---------------------------- MODULE MCGoClient ----------------------------
(* A small instance of the thin screen: two sessions, a turn, a dialog. *)
EXTENDS GoClient
=============================================================================
