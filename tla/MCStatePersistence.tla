------------------------- MODULE MCStatePersistence -------------------------
(***************************************************************************)
(* Small instances of StatePersistence: one timezone, or two of which the  *)
(* eastern one is half a day ahead, so that a change of timezone may keep  *)
(* the local date or move it in either direction.                          *)
(***************************************************************************)
EXTENDS StatePersistence

CONSTANTS west, east

OneZone == {west}
TwoZones == {west, east}
Offsets == [z \in Timezones |-> IF z = west THEN 0 ELSE 1]
=============================================================================
