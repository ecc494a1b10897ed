-------------------------- MODULE MCToolCoordination --------------------------
(* Small instance of ToolCoordination. *)
EXTENDS ToolCoordination, TLC

CONSTANTS c1, c2, c3, d1, ws1, e1

MCCalls  == {c1, c2, c3}
MCDocs   == {d1}
MCScopes == {ws1}
MCEdits  == {e1}
MCHomeOf == [d \in MCDocs |-> ws1]

Symmetry == Permutations(MCCalls)
=============================================================================
