---------------------------- MODULE MCCodexSync ----------------------------
(***************************************************************************)
(* A rollout of two lines that counts as recent, and one of a single line   *)
(* that does not.                                                          *)
(***************************************************************************)
EXTENDS CodexSync

CONSTANTS fresh, aged, r1

TheLines == [s \in {fresh, aged} |-> IF s = fresh THEN 2 ELSE 1]
=============================================================================
