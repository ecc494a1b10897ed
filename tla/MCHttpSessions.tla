---------------------------- MODULE MCHttpSessions ----------------------------
(* Small instance of HttpSessions. *)
EXTENDS HttpSessions

CONSTANTS r1, r2, r3

MCReqs == {r1, r2, r3}
=============================================================================
