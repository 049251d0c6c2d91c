------------------------ MODULE MCRuntimeSupervisor ------------------------
(***************************************************************************)
(* One helper stands for the watcher and the parser, which the supervisor  *)
(* treats alike.                                                           *)
(***************************************************************************)
EXTENDS RuntimeSupervisor

CONSTANTS parser, core
=============================================================================
