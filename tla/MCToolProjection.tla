--------------------------- MODULE MCToolProjection ---------------------------
(***************************************************************************)
(* Two uses of one tool in a Claude session, two seconds apart, which hooks *)
(* and transcript see under the same native ids.                            *)
(***************************************************************************)
EXTENDS ToolProjection

Sighting(id, use, from, type, at) ==
  [id |-> id, session |-> "s", call |-> use, use |-> use, name |-> "Read",
   from |-> from, type |-> type, at |-> at]

TheSightings ==
  { Sighting(1, "a", "transcript", "called", 10), Sighting(2, "a", "transcript", "failed", 11),
    Sighting(3, "b", "transcript", "called", 12), Sighting(4, "b", "transcript", "succeeded", 13),
    Sighting(5, "a", "hook", "called", 10), Sighting(6, "b", "hook", "called", 12) }
=============================================================================
