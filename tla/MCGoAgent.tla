----------------------------- MODULE MCGoAgent -----------------------------
(***************************************************************************)
(* A small instance of GoAgent. Two requests run at once with OpenAI's     *)
(* client, in one session or in two, and every answer then has one tool    *)
(* call; with the other clients one request runs, with two calls where the *)
(* client tells calls one by one. Sessions are interchangeable, so the     *)
(* first request is always in the first.                                   *)
(***************************************************************************)
EXTENDS GoAgent

CONSTANTS s1, s2, r1, r2

MCCallsOf == [k \in Kinds |-> IF k \in {"openai", "gemini"} THEN 1 ELSE MaxCalls]
MCPlacements == {p \in [Runs -> Sessions] : p[r1] = s1}

=============================================================================
