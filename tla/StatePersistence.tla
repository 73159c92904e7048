-------------------------- MODULE StatePersistence --------------------------
(***************************************************************************)
(* How internal/daemon keeps usage.json across failing writes, crashes,    *)
(* power losses, damaged files, clock rollbacks and timezone changes       *)
(* (state.go, New and the prologue of tick in daemon.go).  What is counted *)
(* is abstracted to one number per local day; the file operations of every *)
(* handler are single steps, each of which may fail or be the last one     *)
(* before the machine dies.                                                *)
(*                                                                         *)
(* The directory is modelled in two layers: "dir" is what the running      *)
(* kernel shows, "survivors" is the set of directories that a power loss   *)
(* may leave, one for every rename or removal since the directory was last *)
(* synced.  A temporary file is synced before it is renamed, so a renamed  *)
(* file is never torn.                                                     *)
(***************************************************************************)
EXTENDS Integers, FiniteSets

CONSTANTS
  Timezones,     \* timezones the configuration may name
  Offset,        \* Offset[z]: distance of z's local time from the clock
  Day,           \* units of the clock in a local day
  MaxClock,      \* bound on the clock
  ClockBack,     \* may the clock be set back?
  Retimed,       \* may the timezone of the configuration change?
  MaxUsage,      \* bound on the usage of a day
  MaxFaults,     \* bound on failing file operations and damage to files
  MaxCrashes,    \* bound on crashes and power losses
  Missing, Corrupt, NoZone    \* a file that is absent, or that does not load;
                              \* the timezone of a state that has none yet

ASSUME ZoneAssumption == Offset \in [Timezones -> Nat] /\ Timezones # {} /\ NoZone \notin Timezones
ASSUME BoundAssumption == /\ Day \in Nat \ {0} /\ MaxClock \in Nat /\ MaxUsage \in Nat
                          /\ MaxFaults \in Nat /\ MaxCrashes \in Nat
                          /\ ClockBack \in BOOLEAN /\ Retimed \in BOOLEAN

UsageState == [date : Nat, zone : Timezones \cup {NoZone}, usage : Nat]

ASSUME FileAssumption == Missing \notin UsageState /\ Corrupt \notin UsageState /\ Missing # Corrupt

VARIABLES
  clock,       \* the wall clock
  zone,        \* cfg.Timezone
  state,       \* Service.state
  recovery,    \* Service.recovery: "none", "retry" or "reset"
  op,          \* the handler that holds the mutex, or "none"
  step,        \* its next file operation; "idle" and "down" when there is none
  dir,         \* usage.json, the recovery marker and the quarantined files
  survivors,   \* what a power loss may leave of dir
  faults, crashes,
  floor,       \* history: the usage the daemon has made durable, lowered only by
               \* an administrator's reset or recover-state
  evidence,    \* history: the durable files recover-state found and has to keep
  sealed       \* history: is a reset-required marker durable?

disk == <<dir, survivors>>
history == <<floor, evidence, sealed>>
vars == <<clock, zone, state, recovery, op, step, disk, faults, crashes, history>>

Markers == {"none", "retry", "reset", "bad"}
Directory == [file : UsageState \cup {Missing, Corrupt}, marker : Markers,
              kept : SUBSET (UsageState \cup {Corrupt})]

-----------------------------------------------------------------------------
LocalDate(z) == (clock + Offset[z]) \div Day
NewState(d, z) == [date |-> d, zone |-> z, usage |-> 0]

Succeeds == UNCHANGED faults
Fails == faults < MaxFaults /\ faults' = faults + 1

\* A rename or a removal: visible at once, durable at the next sync.
Change(d) == dir' = d /\ survivors' = survivors \cup {d}

\* Mistake: the directory is not synced.
Sync_Skipped == UNCHANGED <<dir, survivors>>

\* syncDirectory
Sync == survivors' = {dir} /\ UNCHANGED dir

\* An administrator lets the durable usage fall to that of s.
Authorise(s) == floor' = IF s.date > floor.date THEN floor ELSE s

\* Mistake: the retry does not release the mutex.
Return_Locked == IF op = "retry" THEN UNCHANGED <<op, step>>
                 ELSE op' = "none" /\ step' = IF op = "stop" THEN "down" ELSE "idle"

\* The handler returns; Run itself ends when it was the final save.
Return == op' = "none" /\ step' = IF op = "stop" THEN "down" ELSE "idle"

-----------------------------------------------------------------------------
(* saveState *)

\* A handler that counts or resets enters recovery when its save fails; a retry
\* and recover-state leave the recovery they are in pending.
SaveFailed ==
  IF op \in {"tick", "reset", "stop"}
  THEN recovery' = "retry" /\ step' = "mark" /\ UNCHANGED op
  ELSE Return /\ UNCHANGED recovery

\* MkdirAll, CreateTemp, Chmod, Write, Sync and Close of the temporary file.
SavePrepare ==
  /\ step = "save"
  /\ \/ Succeeds /\ step' = "rename" /\ UNCHANGED <<op, recovery>>
     \/ Fails /\ SaveFailed
  /\ UNCHANGED <<clock, zone, state, disk, crashes, history>>

SaveRename ==
  /\ step = "rename"
  /\ \/ /\ Succeeds
        /\ Change([dir EXCEPT !.file = state])
        /\ step' = "sync"
        /\ UNCHANGED <<op, recovery>>
     \/ Fails /\ SaveFailed /\ UNCHANGED disk
  /\ UNCHANGED <<clock, zone, state, crashes, history>>

SaveSync ==
  /\ step = "sync"
  /\ \/ /\ Succeeds
        /\ Sync
        /\ floor' = state
        /\ IF op \in {"retry", "recover"}
           THEN step' = "unmark" /\ UNCHANGED op
           ELSE Return
        /\ UNCHANGED recovery
     \/ Fails /\ SaveFailed /\ UNCHANGED <<disk, floor>>
  /\ UNCHANGED <<clock, zone, state, crashes, evidence, sealed>>

\* os.Remove of the marker, then syncDirectory; only then is recovery over.
Unmark ==
  /\ step = "unmark"
  /\ \/ /\ Succeeds
        /\ Change([dir EXCEPT !.marker = "none"])
        /\ step' = "unmarksync"
        /\ sealed' = FALSE
        /\ UNCHANGED op
     \/ Fails /\ Return /\ UNCHANGED <<disk, sealed>>
  /\ UNCHANGED <<clock, zone, state, recovery, crashes, floor, evidence>>

\* Mistake: recovery is not lifted.
UnmarkSync_Pending ==
  /\ step = "unmarksync"
  /\ (Succeeds /\ Sync) \/ (Fails /\ UNCHANGED disk)
  /\ Return
  /\ UNCHANGED <<clock, zone, state, recovery, crashes, history>>

UnmarkSync ==
  /\ step = "unmarksync"
  /\ \/ Succeeds /\ Sync /\ recovery' = "none"
     \/ Fails /\ UNCHANGED <<disk, recovery>>
  /\ Return
  /\ UNCHANGED <<clock, zone, state, crashes, history>>

-----------------------------------------------------------------------------
(* writeRecoveryMarker *)

\* Once it is written (or not: enterStateRecovery only logs that), the handler
\* returns, and recover-state goes on or gives up.
Marked == IF op = "recover"
          THEN /\ step' = IF recovery = "reset" THEN "quarantine" ELSE "save"
               /\ UNCHANGED op
          ELSE Return

\* A marker that already says as much is left alone.
MarkPrepare ==
  /\ step = "mark"
  /\ IF dir.marker = "reset" \/ (dir.marker = "retry" /\ recovery = "retry")
     THEN \/ Succeeds /\ Marked
          \/ Fails /\ Return
     ELSE \/ Succeeds /\ step' = "markrename" /\ UNCHANGED op
          \/ Fails /\ Return
  /\ UNCHANGED <<clock, zone, state, recovery, disk, crashes, history>>

MarkRename ==
  /\ step = "markrename"
  /\ \/ /\ Succeeds
        /\ Change([dir EXCEPT !.marker = recovery])
        /\ step' = "marksync"
        /\ UNCHANGED op
     \/ Fails /\ Return /\ UNCHANGED disk
  /\ UNCHANGED <<clock, zone, state, recovery, crashes, history>>

MarkSync ==
  /\ step = "marksync"
  /\ \/ Succeeds /\ Sync /\ Marked /\ sealed' = (recovery = "reset")
     \/ Fails /\ Return /\ UNCHANGED <<disk, sealed>>
  /\ UNCHANGED <<clock, zone, state, recovery, crashes, floor, evidence>>

-----------------------------------------------------------------------------
(* quarantineState, the reset-required part of recover-state *)

FreshState == /\ state' = NewState(LocalDate(zone), zone)
              /\ Authorise(state')

\* Mistake: the file is removed.
SetAside_Removed == [dir EXCEPT !.file = Missing]

\* The file is renamed to a name of its own.
SetAside == [dir EXCEPT !.file = Missing, !.kept = @ \cup {dir.file}]

Quarantine ==
  /\ step = "quarantine"
  /\ \/ \* no file to preserve
        /\ Succeeds /\ dir.file = Missing
        /\ FreshState
        /\ step' = "save"
        /\ UNCHANGED <<op, disk, evidence>>
     \/ /\ Succeeds /\ dir.file # Missing
        /\ Change(SetAside)
        /\ evidence' = evidence \cup
             {f \in {dir.file} : \A d \in survivors : d.file = f}
        /\ step' = "quarantinesync"
        /\ UNCHANGED <<op, state, floor>>
     \/ Fails /\ Return /\ UNCHANGED <<state, disk, floor, evidence>>
  /\ UNCHANGED <<clock, zone, recovery, crashes, sealed>>

QuarantineSync ==
  /\ step = "quarantinesync"
  /\ \/ /\ Succeeds
        /\ Sync
        /\ FreshState
        /\ step' = "save"
        /\ UNCHANGED op
     \/ Fails /\ Return /\ UNCHANGED <<state, disk, floor>>
  /\ UNCHANGED <<clock, zone, recovery, crashes, evidence, sealed>>

-----------------------------------------------------------------------------
(* Handlers *)

EnterRecovery(mode) == recovery' = mode /\ op' = "enter" /\ step' = "mark"

\* Mistake: a later date begins a day before the timezones are compared.
Tick_RollsFirst ==
  /\ step = "idle" /\ recovery = "none"
  /\ LET today == LocalDate(zone)
         s == IF today > state.date THEN NewState(today, zone) ELSE state
     IN  \/ /\ s.zone \notin {NoZone, zone} \/ today < s.date
            /\ EnterRecovery("reset")
            /\ UNCHANGED state
         \/ /\ s.zone \in {NoZone, zone} /\ today >= s.date
            /\ \E used \in {0, 1} :
                 /\ s.usage + used <= MaxUsage
                 /\ state' = [s EXCEPT !.zone = zone, !.usage = @ + used]
            /\ op' = "tick" /\ step' = "save"
            /\ UNCHANGED recovery
  /\ UNCHANGED <<clock, zone, disk, faults, crashes, history>>

\* The prologue of tick, whatever it counts, and the save at its end.
Tick ==
  /\ step = "idle" /\ recovery = "none"
  /\ LET today == LocalDate(zone)
     IN  \/ /\ state.zone \notin {NoZone, zone} \/ today < state.date
            /\ EnterRecovery("reset")
            /\ UNCHANGED state
         \/ /\ state.zone \in {NoZone, zone} /\ today >= state.date
            /\ \E used \in {0, 1} :
                 LET s == IF today > state.date THEN NewState(today, zone)
                          ELSE [state EXCEPT !.zone = zone]
                 IN  /\ s.usage + used <= MaxUsage
                     /\ state' = [s EXCEPT !.usage = @ + used]
            /\ op' = "tick" /\ step' = "save"
            /\ UNCHANGED recovery
  /\ UNCHANGED <<clock, zone, disk, faults, crashes, history>>

\* tick while only writing had failed: retryStatePersistence.  (While a reset
\* is required a tick only locks the sessions and changes nothing here.)
TickRetry ==
  /\ step = "idle" /\ recovery = "retry"
  /\ op' = "retry" /\ step' = "save"
  /\ UNCHANGED <<clock, zone, state, recovery, disk, faults, crashes, history>>

\* lpctl recover-state
Recover ==
  /\ step = "idle" /\ recovery # "none"
  /\ op' = "recover" /\ step' = "mark"
  /\ UNCHANGED <<clock, zone, state, recovery, disk, faults, crashes, history>>

\* lpctl reset
Reset ==
  /\ step = "idle" /\ recovery = "none"
  /\ state' = [state EXCEPT !.usage = 0]
  /\ Authorise(state')
  /\ op' = "reset" /\ step' = "save"
  /\ UNCHANGED <<clock, zone, recovery, disk, faults, crashes, evidence, sealed>>

\* lpctl reload with another timezone
Reload ==
  /\ Retimed
  /\ step = "idle"
  /\ zone' \in Timezones \ {zone}
  /\ UNCHANGED <<clock, state, recovery, op, step, disk, faults, crashes, history>>

\* Run is cancelled: the state is saved unless recovery is pending.
Stop ==
  /\ step = "idle"
  /\ IF recovery = "none" THEN op' = "stop" /\ step' = "save"
     ELSE op' = "none" /\ step' = "down"
  /\ UNCHANGED <<clock, zone, state, recovery, disk, faults, crashes, history>>

-----------------------------------------------------------------------------
(* Start *)

\* Mistake: a damaged file is as good as none.
Loaded_Damaged(d) ==
  IF dir.file \in {Missing, Corrupt} THEN [state |-> NewState(d, NoZone), error |-> "none"]
  ELSE [state |-> IF dir.file.date < d THEN NewState(d, NoZone) ELSE dir.file,
        error |-> IF dir.file.date > d THEN "rollback" ELSE "none"]

\* loadState for the local date d: the state and what is wrong with it.
Loaded(d) ==
  IF dir.file = Missing THEN [state |-> NewState(d, NoZone), error |-> "none"]
  ELSE IF dir.file = Corrupt THEN [state |-> NewState(d, NoZone), error |-> "invalid"]
  ELSE [state |-> IF dir.file.date < d THEN NewState(d, NoZone) ELSE dir.file,
        error |-> IF dir.file.date > d THEN "rollback" ELSE "none"]

\* Mistake: a file that loads makes the marker irrelevant.
LoadedService_Unmarked(d) ==
  [state |-> Loaded(d).state, recovery |-> IF Loaded(d).error # "none" THEN "reset" ELSE "none"]

\* Mistake: whatever the marker says is taken over.
LoadedService_AnyMarker(d) ==
  [state |-> Loaded(d).state, recovery |-> IF Loaded(d).error # "none" THEN "reset" ELSE dir.marker]

\* loadServiceState: a marker that cannot be read discards the file as well.
LoadedService(d) ==
  LET file == Loaded(d)
  IN  IF dir.marker = "bad"
      THEN [state |-> NewState(d, NoZone), recovery |-> "reset"]
      ELSE [state |-> file.state,
            recovery |-> IF file.error # "none" THEN "reset" ELSE dir.marker]

\* New, with the timezone of the configuration it reads.
Start ==
  /\ step = "down"
  /\ zone' \in IF Retimed THEN Timezones ELSE {zone}
  /\ LET s == LoadedService(LocalDate(zone'))
     IN  /\ recovery' = IF s.recovery = "none" /\ s.state.zone \notin {NoZone, zone'}
                        THEN "reset" ELSE s.recovery
         /\ state' = IF s.recovery = "none" /\ s.state.zone = NoZone
                     THEN [s.state EXCEPT !.zone = zone'] ELSE s.state
  /\ op' = "none" /\ step' = "idle"
  /\ UNCHANGED <<clock, disk, faults, crashes, history>>

-----------------------------------------------------------------------------
(* The environment *)

\* The daemon is killed: the kernel keeps the directory.
Crash ==
  /\ step # "down" /\ crashes < MaxCrashes
  /\ crashes' = crashes + 1
  /\ op' = "none" /\ step' = "down"
  /\ UNCHANGED <<clock, zone, state, recovery, disk, faults, history>>

\* The machine loses power: one of the surviving directories comes back.
PowerLoss ==
  /\ crashes < MaxCrashes
  /\ crashes' = crashes + 1
  /\ op' = "none" /\ step' = "down"
  /\ dir' \in survivors
  /\ survivors' = {dir'}
  /\ evidence' = evidence \cap dir'.kept
  /\ UNCHANGED <<clock, zone, state, recovery, faults, floor, sealed>>

\* A file is damaged while the daemon is down.
Damage ==
  /\ step = "down" /\ Fails
  /\ \/ dir.file # Missing /\ dir' = [dir EXCEPT !.file = Corrupt]
     \/ dir.marker # "none" /\ dir' = [dir EXCEPT !.marker = "bad"]
  /\ survivors' = {dir'}
  /\ evidence' = evidence \ {dir.file}
  /\ UNCHANGED <<clock, zone, state, recovery, op, step, crashes, floor, sealed>>

MoveClock ==
  /\ step \in {"idle", "down"}
  /\ \/ clock < MaxClock /\ clock' = clock + 1
     \/ ClockBack /\ clock > 0 /\ clock' = clock - 1
  /\ UNCHANGED <<zone, state, recovery, op, step, disk, faults, crashes, history>>

-----------------------------------------------------------------------------
Init ==
  /\ clock = 0
  /\ zone \in Timezones
  /\ state = NewState(0, NoZone)
  /\ recovery = "none"
  /\ op = "none" /\ step = "down"
  /\ dir = [file |-> Missing, marker |-> "none", kept |-> {}]
  /\ survivors = {dir}
  /\ faults = 0 /\ crashes = 0
  /\ floor = NewState(0, NoZone)
  /\ evidence = {} /\ sealed = FALSE

FileStep == \/ SavePrepare \/ SaveRename \/ SaveSync \/ Unmark \/ UnmarkSync
            \/ MarkPrepare \/ MarkRename \/ MarkSync \/ Quarantine \/ QuarantineSync

Daemon == FileStep \/ Tick \/ TickRetry \/ Start
Command == Recover \/ Reset \/ Reload \/ Stop
Next == Daemon \/ Command \/ Crash \/ PowerLoss \/ Damage \/ MoveClock

Spec == Init /\ [][Next]_vars

\* A handler runs to its end, and the timer of Run fires although commands may
\* take the mutex first.
FairSpec == Spec /\ WF_vars(FileStep) /\ SF_vars(TickRetry)

-----------------------------------------------------------------------------
(* What is promised *)

\* Every variable has its type, and survivors holds what the kernel shows.
TypeOK ==
  /\ clock \in 0..MaxClock /\ zone \in Timezones
  /\ state \in UsageState
  /\ recovery \in {"none", "retry", "reset"}
  /\ op \in {"none", "tick", "reset", "stop", "enter", "retry", "recover"}
  /\ step \in {"idle", "down", "save", "rename", "sync", "unmark", "unmarksync",
               "mark", "markrename", "marksync", "quarantine", "quarantinesync"}
  /\ dir \in Directory /\ survivors \subseteq Directory /\ dir \in survivors
  /\ faults \in 0..MaxFaults /\ crashes \in 0..MaxCrashes
  /\ floor \in UsageState
  /\ evidence \subseteq UsageState \cup {Corrupt}
  /\ sealed \in BOOLEAN

Covers(s) == s.date >= floor.date /\ (s.date = floor.date => s.usage >= floor.usage)

\* A daemon that counts never shows a day less usage than it once made durable,
\* nor an earlier day: no failing write, crash, power loss, damaged file or
\* clock rollback gives usage back without recover-state or reset.
NoSilentReset == (step = "idle" /\ recovery = "none") => Covers(state)

\* recover-state destroys nothing: the durable file it replaced is still there,
\* in the quarantine or in its place, in every directory a power loss may leave.
EvidencePreserved ==
  \A d \in survivors : evidence \subseteq d.kept \cup {d.file}

\* Once a reset-required recovery is marked on the disk, neither a restart nor
\* a power loss nor the return of the right clock or timezone lifts it: only a
\* recover-state that has saved the fresh state does.
RecoveryIsSticky == (sealed /\ step = "idle") => recovery = "reset"

\* What the daemon relies on after a restart is on the disk whenever it counts:
\* every directory a power loss may leave loads to at least the durable usage.
CountedIsDurable ==
  (step = "idle" /\ recovery = "none" /\ floor.usage > 0) =>
     \A d \in survivors : d.file \notin {Missing, Corrupt} /\ Covers(d.file)

\* The usage a daemon has made durable is let go only when its date is over in the
\* timezone it was counted in: neither a reload to a timezone in which it is
\* tomorrow already nor a restart lets the next tick start from nothing.  (A
\* restart that itself finds another timezone does: see StartGrantsNoDay.)
DayEndsInItsTimezone ==
  [][(/\ \/ step = "idle" /\ op' = "tick" /\ state.zone = floor.zone
         \/ step = "down" /\ step' = "idle" /\ recovery' = "none" /\ zone' = floor.zone
      /\ floor.zone # NoZone /\ LocalDate(floor.zone) <= floor.date)
     => state'.usage >= floor.usage]_vars

\* Starting the daemon begins a fresh day only when the local date has moved on
\* in the timezone the recorded usage belongs to.
StartGrantsNoDay ==
  [][(step = "down" /\ step' = "idle" /\ recovery' = "none" /\ floor.zone # NoZone
      /\ LocalDate(floor.zone) = floor.date) => state'.usage >= floor.usage]_vars

\* Once the file operations stop failing, a daemon that could not write leaves
\* recovery by itself (or finds that an administrator has to decide), unless it
\* is stopped.
RetrySucceeds == recovery = "retry" /\ step = "idle" ~> recovery # "retry" \/ step = "down"

\* No handler keeps the mutex: every command and tick comes to its end.
HandlersReturn == step \notin {"idle", "down"} ~> step \in {"idle", "down"}
=============================================================================
