----------------------------- MODULE MCDocPatches -----------------------------
(* Small instance of DocPatches: patches of two workspaces compete for the *)
(* one place of the store.                                                 *)
EXTENDS DocPatches, TLC

CONSTANTS c1, c2, p1, p2, k1, k2, ws1, ws2

MCCalls   == {c1, c2}
MCPatches == {p1, p2}
MCCreds   == {k1, k2}
MCScopes  == {ws1, ws2}
MCHomeOf  == [p \in MCPatches |-> IF p = p1 THEN ws1 ELSE ws2]

Symmetry == Permutations(MCCalls) \cup Permutations(MCCreds)
=============================================================================
