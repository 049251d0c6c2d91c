--------------------------- MODULE MCHookPipeline ---------------------------
(***************************************************************************)
(* A tool call that changes a file, two parsers and two faults.             *)
(***************************************************************************)
EXTENDS HookPipeline

CONSTANTS t1, p1, p2
=============================================================================
