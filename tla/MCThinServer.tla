--------------------------- MODULE MCThinServer ---------------------------
(* A small server for TLC.  Its turns, its tasks and its streams are       *)
(* symmetric.                                                              *)
EXTENDS ThinServer, TLC

MCSymmetry ==
    Permutations(UserTurns) \cup Permutations(Tasks) \cup Permutations(Conns)
===========================================================================
