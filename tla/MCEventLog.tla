----------------------------- MODULE MCEventLog -----------------------------
(***************************************************************************)
(* Three records: an old one, one longer than a read, and an ordinary one. *)
(***************************************************************************)
EXTENDS EventLog

CONSTANTS old, huge, one
=============================================================================
