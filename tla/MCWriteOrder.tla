----------------------------- MODULE MCWriteOrder -----------------------------
(* Small instance of WriteOrder. *)
EXTENDS WriteOrder

CONSTANTS c1, c2, c3, c4, ws1, ws2

MCCalls2  == {c1, c2}
MCCalls4  == {c1, c2, c3, c4}
MCScopes1 == {ws1}
MCScopes2 == {ws1, ws2}
=============================================================================
