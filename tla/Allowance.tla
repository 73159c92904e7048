------------------------------ MODULE Allowance ------------------------------
(***************************************************************************)
(* What the accounting of internal/daemon promises about the daily device  *)
(* allowance of one user, without saying how ticks, intervals, breaks and  *)
(* files bring it about: a counter that only time can raise and never past *)
(* the allowance, that only a later day or an administrator sets to zero,  *)
(* that a restart brings back as it was kept, and a user who is locked     *)
(* whenever the daemon looks and finds the allowance used up.              *)
(***************************************************************************)
EXTENDS Integers

CONSTANTS
  Limits    \* the daily allowances an administrator may install, in seconds

VARIABLES
  phase,    \* "off", "counting", or nobody is let in: "retrying" to keep what was
            \* counted, or "refusing" until an administrator recovers
  day,      \* the local day that is counted
  used,     \* what was charged to it
  kept,     \* what the disk holds: [present, day, used]
  limit,    \* the allowance in force
  locked    \* did the daemon ask to lock the session when it last looked?

vars == <<phase, day, used, kept, limit, locked>>

Current == [present |-> TRUE, day |-> day, used |-> used]

Init ==
  /\ phase = "off" /\ day = 0 /\ used = 0 /\ ~locked
  /\ kept.present = FALSE
  /\ limit \in Limits

\* Time in use is charged, up to the allowance.
Charge ==
  /\ phase = "counting"
  /\ \E seconds \in 1 .. (limit - used) : used' = used + seconds
  /\ UNCHANGED <<phase, day, kept, limit, locked>>

\* A later day begins; nothing was charged to it.
NewDay ==
  /\ phase = "counting"
  /\ day' \in Int /\ day' > day /\ used' = 0
  /\ UNCHANGED <<phase, kept, limit, locked>>

\* Keeping what was counted works, or is tried again while nobody is let in.
KeepOrRetry ==
  \/ phase' = phase /\ kept' = Current'
  \/ phase' = "retrying" /\ kept' \in {kept, Current'}

\* The daemon looks at the user: a used-up allowance locks.
Look ==
  /\ phase = "counting"
  /\ locked' \in BOOLEAN /\ (used >= limit => locked')
  /\ KeepOrRetry
  /\ UNCHANGED <<day, used, limit>>

\* While nobody is let in, the daemon locks and counts nothing; it begins to
\* when the clock went back to an earlier day.
Refuse ==
  /\ phase # "off"
  /\ phase' = IF phase = "counting" THEN "refusing" ELSE phase
  /\ kept' = kept \/ (phase = "retrying" /\ kept' = Current)
  /\ locked'
  /\ UNCHANGED <<day, used, limit>>

\* It counts again by itself only when what it counted is kept.
Resume ==
  /\ phase = "retrying" /\ phase' = "counting"
  /\ kept' = Current
  /\ locked' \in BOOLEAN
  /\ UNCHANGED <<day, used, limit>>

\* An administrator changes the allowance.
SetLimit ==
  /\ phase # "off"
  /\ limit' \in Limits
  /\ UNCHANGED <<phase, day, used, kept, locked>>

\* An administrator gives the allowance back, or something of an application.
Reset ==
  /\ phase = "counting"
  /\ used' \in {0, used}
  /\ KeepOrRetry
  /\ UNCHANGED <<day, limit, locked>>

\* An administrator recovers, or fails to.  What was counted stays when only
\* keeping it had failed, and is else given up for a fresh day, before or after
\* what was kept is; to count again, the result must be kept.
Recover ==
  /\ phase \in {"retrying", "refusing"} /\ phase' \in {"counting", phase}
  /\ \/ day' = day /\ used' = used /\ (phase = "refusing" => phase' = phase)
     \/ phase = "refusing" /\ day' \in Int /\ used' = 0
  /\ \/ kept' = Current'
     \/ phase' = phase /\ kept' = kept
     \/ phase' = "refusing" /\ ~kept'.present
  /\ UNCHANGED <<limit, locked>>

\* The daemon goes away; it may keep what it counted before it does.
Off ==
  /\ phase # "off" /\ phase' = "off"
  /\ day' = 0 /\ used' = 0 /\ ~locked'
  /\ kept' = kept \/ (phase = "counting" /\ kept' = Current)
  /\ UNCHANGED limit

\* The daemon starts: a day of which something was kept goes on where it was,
\* only a later day is fresh; another allowance may have been installed.
On ==
  /\ phase = "off" /\ phase' \in {"counting", "retrying", "refusing"}
  /\ \/ kept.present /\ day' = kept.day /\ used' = kept.used
     \/ day' \in Int /\ (kept.present => day' > kept.day) /\ used' = 0
  /\ limit' \in Limits
  /\ ~locked'
  /\ UNCHANGED kept

Next == Charge \/ NewDay \/ Look \/ Refuse \/ Resume \/ SetLimit \/ Reset \/ Recover
        \/ Off \/ On

Spec == Init /\ [][Next]_vars
=============================================================================
