----------------------------- MODULE MCRotation -----------------------------
(* A small catalog for TLC: a model that three providers serve, one that   *)
(* two serve, one that only the first serves, and a paid one.              *)
EXTENDS Rotation, TLC

CONSTANTS m1, m2, m3, m4, p1, p2, p3

MCServes ==
    (m1 :> {p1, p2, p3}) @@ (m2 :> {p1}) @@ (m3 :> {p2}) @@ (m4 :> {p1, p2})
MCFreeAt ==
    (m1 :> {p1, p2}) @@ (m2 :> {p1}) @@ (m3 :> {}) @@ (m4 :> {p1, p2})
MCPolicy == [r \in Roles |-> IF r = "orchestrator" THEN {m1} ELSE Models]
=============================================================================
