----------------------------- MODULE MCStdioProxy -----------------------------
(* Small instance of StdioProxy. *)
EXTENDS StdioProxy
=============================================================================
