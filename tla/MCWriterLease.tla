--------------------------- MODULE MCWriterLease ---------------------------
(***************************************************************************)
(* Two syncs of one Core process and one sync of a second process on the   *)
(* same data directory.                                                    *)
(***************************************************************************)
EXTENDS WriterLease

CONSTANTS core, other

TheTasks == {"manual", "refresh", "second"}
TheProcs == {core, other}
TheProcOf == [t \in TheTasks |-> IF t = "second" THEN other ELSE core]
=============================================================================
