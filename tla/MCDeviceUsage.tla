--------------------------- MODULE MCDeviceUsage ----------------------------
(***************************************************************************)
(* Small instances of DeviceUsage.  A poll is one second, so one tick may  *)
(* charge up to two; allowances and breaks are a few seconds, as far above *)
(* a poll as the program's minutes are above its largest poll.             *)
(***************************************************************************)
EXTENDS DeviceUsage

CONSTANTS game

OneApp == {game}

AllDay(device, continuous, break, app) ==
  [allDay |-> TRUE, from |-> 0, until |-> 1, device |-> device,
   continuous |-> continuous, break |-> break, apps |-> [a \in Apps |-> app],
   poll |-> 1]

Hours(from, until, device, continuous, break, app) ==
  [AllDay(device, continuous, break, app) EXCEPT
     !.allDay = FALSE, !.from = from, !.until = until]

NoSteps == {}
ByOne == {1}
ByOneOrMore == {1, 3}

\* Allowances and windows an administrator switches between; the continuous
\* allowance stays.
LimitConfigs == {AllDay(3, 2, 1, 1), AllDay(2, 2, 2, 2)}

\* One window of allowed hours, seven seconds long; it may close in a break.
WindowConfigs == {Hours(1, 15, 5, 3, 1, 9)}

\* The continuous allowance is lowered.
LoweredConfigs == {AllDay(9, 6, 1, 9), AllDay(9, 1, 1, 9)}

\* The wall clock is set back.
BackByTwo == {-2}
=============================================================================
