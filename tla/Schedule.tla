------------------------------- MODULE Schedule -------------------------------
(***************************************************************************)
(* The allowed hours of a user on days of any length.  Two pieces of code  *)
(* read the same window: AllowedAt (internal/config) looks at the hands of *)
(* the local clock and decides whether a session may be used, while        *)
(* accountingInterval (internal/daemon) adds the window's minutes to local *)
(* midnight and decides which part of a tick is charged.  The local clock  *)
(* is the machine's clock plus an offset that a transition to or from      *)
(* daylight-saving time changes once.                                      *)
(***************************************************************************)
EXTENDS Integers

CONSTANTS
  Day,        \* units of the local clock in a day
  Shift,      \* how far the transition moves the local clock: 0, forward, back
  ShiftAt,    \* the instant of the transition
  Lengths,    \* the lengths a tick may have
  Last        \* bound on the clock

ASSUME DayAssumption == Day \in Nat \ {0} /\ Last \in Nat /\ Lengths \subseteq Nat \ {0}

\* The transition neither skips nor repeats a local midnight.
ASSUME ShiftAssumption == /\ Shift \in Int /\ ShiftAt \in Nat
                          /\ ShiftAt \div Day = (ShiftAt + Shift) \div Day
                          /\ (ShiftAt - 1) \div Day = ShiftAt \div Day

VARIABLES
  window,     \* [allDay, from, until]: the schedule of the user
  previous,   \* the instant of the previous tick
  clock       \* the instant of this one

vars == <<window, previous, clock>>

Windows == {w \in [allDay : BOOLEAN, from : 0..Day-1, until : 0..Day-1] :
              IF w.allDay THEN w.from = 0 /\ w.until = 0 ELSE w.from < w.until}

Local(t) == IF t < ShiftAt THEN t ELSE t + Shift
LocalDay(t) == Local(t) \div Day

\* time.Date(year, month, day, 0, 0, 0): the instant of a local midnight.
MidnightOf(d) == IF d * Day < ShiftAt THEN d * Day ELSE d * Day - Shift

\* UserConfig.AllowedAt
AllowedAt(t) ==
  window.allDay \/ (Local(t) % Day >= window.from /\ Local(t) % Day < window.until)

Later(x, y) == IF x < y THEN y ELSE x
Earlier(x, y) == IF x < y THEN x ELSE y

\* The interval tick passes on: a new day starts at its midnight.  (Ticks are no
\* longer than the cap of two polls here; DeviceUsage has the cap.)
Sampled == [from |-> IF LocalDay(previous) < LocalDay(clock)
                     THEN Later(previous, MidnightOf(LocalDay(clock))) ELSE previous,
            upto |-> clock]

\* Mistake: the end of the window is not looked at.
AccountingInterval_OpenEnded(from, upto) ==
  [from |-> IF window.allDay THEN from
            ELSE Later(from, MidnightOf(LocalDay(upto)) + window.from),
   upto |-> upto]

\* accountingInterval: what is charged of [from, upto).
AccountingInterval(from, upto) ==
  LET dayStart == MidnightOf(LocalDay(upto))
  IN  IF window.allDay THEN [from |-> from, upto |-> upto]
      ELSE [from |-> Later(from, dayStart + window.from),
            upto |-> Earlier(upto, dayStart + window.until)]

Charged == LET i == AccountingInterval(Sampled.from, Sampled.upto) IN i.from .. i.upto - 1

-----------------------------------------------------------------------------
Init == window \in Windows /\ previous = 0 /\ clock = 0

Tick == /\ \E d \in Lengths : clock + d <= Last /\ clock' = clock + d
        /\ previous' = clock
        /\ UNCHANGED window

Next == Tick

Spec == Init /\ [][Next]_vars

-----------------------------------------------------------------------------
\* Every variable has its type.
TypeOK == window \in Windows /\ previous \in 0..Last /\ clock \in previous..Last

\* The instants since the last tick that belong to the new tick's local day and
\* at which the schedule lets the user in.
Allowed == {t \in previous..(clock - 1) : LocalDay(t) = LocalDay(clock) /\ AllowedAt(t)}

\* Accounting is clipped exactly at midnight and at the allowed hours: a tick
\* charges the instants the schedule lets the user in, neither more nor fewer.
\* This covers all-day users throughout, and the others on every day whose clock
\* has not been moved, whatever moved it on earlier days.
ChargedOnOrdinaryDays ==
  (window.allDay \/ LocalDay(clock) # LocalDay(ShiftAt) \/ clock <= ShiftAt)
    => Charged = Allowed
=============================================================================
