----------------------- MODULE StatePersistence_proofs -----------------------
(***************************************************************************)
(* For any days, timezones, clock movements and usage, any number of       *)
(* failing file operations, damaged files, crashes and power losses, and   *)
(* wherever in a handler they strike: usage that was once durable is never *)
(* given back without an administrator, what recover-state sets aside      *)
(* survives, and a recovery that was marked on the disk is not forgotten.  *)
(***************************************************************************)
EXTENDS StatePersistence, TLAPS

-----------------------------------------------------------------------------
(* Data *)

LEMMA DateIsNat ==
  ASSUME TypeOK, NEW z \in Timezones
  PROVE  LocalDate(z) \in Nat /\ NewState(LocalDate(z), z) \in UsageState
         /\ NewState(LocalDate(z), NoZone) \in UsageState
<1>1. clock \in Nat /\ Offset[z] \in Nat /\ Day \in Nat \ {0}
  BY ZoneAssumption, BoundAssumption DEF TypeOK
<1>2. \A n \in Nat, k \in Nat \ {0} : n \div k \in Nat
  BY Z3
<1>3. LocalDate(z) \in Nat
  BY <1>1, <1>2 DEF LocalDate
<1> QED
  BY <1>3 DEF NewState, UsageState

\* A directory with another usage.json, with another marker, and with its file set
\* aside.
LEMMA OtherFile ==
  ASSUME NEW d \in Directory, NEW f \in UsageState \cup {Missing, Corrupt}, NEW e, e = [d EXCEPT !.file = f]
  PROVE  e \in Directory /\ e.file = f /\ e.marker = d.marker /\ e.kept = d.kept
  BY DEF Directory

LEMMA OtherMarker ==
  ASSUME NEW d \in Directory, NEW m \in Markers, NEW e, e = [d EXCEPT !.marker = m]
  PROVE  e \in Directory /\ e.file = d.file /\ e.marker = m /\ e.kept = d.kept
  BY DEF Directory

LEMMA SetAsideIs ==
  ASSUME dir \in Directory, dir.file # Missing, NEW e, e = SetAside
  PROVE  e \in Directory /\ e.file = Missing /\ e.marker = dir.marker /\ e.kept = dir.kept \cup {dir.file}
<1>1. e = [dir EXCEPT !.file = Missing, !.kept = dir.kept \cup {dir.file}]
  BY DEF SetAside
<1> QED
  BY <1>1 DEF Directory

LEMMA OtherUsage ==
  ASSUME NEW s \in UsageState, NEW u \in Nat, NEW t, t = [s EXCEPT !.usage = u]
  PROVE  t \in UsageState /\ t.date = s.date /\ t.zone = s.zone /\ t.usage = u
  BY DEF UsageState

LEMMA OtherZone ==
  ASSUME NEW s \in UsageState, NEW z \in Timezones \cup {NoZone}, NEW t, t = [s EXCEPT !.zone = z]
  PROVE  t \in UsageState /\ t.date = s.date /\ t.zone = z /\ t.usage = s.usage
  BY DEF UsageState

\* What the new process takes over.
LEMMA LoadedIs ==
  ASSUME TypeOK, NEW z \in Timezones, NEW d, d = LocalDate(z)
  PROVE  /\ Loaded(d).state \in UsageState /\ Loaded(d).error \in {"none", "invalid", "rollback"}
         /\ LoadedService(d).state \in UsageState
         /\ LoadedService(d).recovery \in {"none", "retry", "reset"}
<1>1. NewState(d, NoZone) \in UsageState
  BY DateIsNat
<1>2. dir.file \in UsageState \cup {Missing, Corrupt} /\ dir.marker \in Markers
  BY DEF TypeOK, Directory
<1>3. Loaded(d).state \in UsageState /\ Loaded(d).error \in {"none", "invalid", "rollback"}
  BY <1>1, <1>2 DEF Loaded
<1>4. LoadedService(d) = IF dir.marker = "bad"
        THEN [state |-> NewState(d, NoZone), recovery |-> "reset"]
        ELSE [state |-> Loaded(d).state,
              recovery |-> IF Loaded(d).error # "none" THEN "reset" ELSE dir.marker]
  BY DEF LoadedService
<1>5. dir.marker # "bad" => dir.marker \in {"none", "retry", "reset"}
  BY <1>2 DEF Markers
<1> QED
  BY <1>1, <1>3, <1>4, <1>5

-----------------------------------------------------------------------------
(* Types *)

Steps == {"idle", "down", "save", "rename", "sync", "unmark", "unmarksync",
          "mark", "markrename", "marksync", "quarantine", "quarantinesync"}
Ops == {"none", "tick", "reset", "stop", "enter", "retry", "recover"}

\* Where a handler goes next and what it leaves of the recovery.
LEMMA FlowType ==
  ASSUME TypeOK, FileStep
  PROVE  /\ step' \in Steps /\ op' \in Ops /\ recovery' \in {"none", "retry", "reset"}
         /\ UNCHANGED <<clock, zone, crashes>> /\ faults' \in 0..MaxFaults
<1>1. /\ UNCHANGED <<clock, zone, crashes>> /\ (Succeeds \/ Fails)
      /\ recovery' \in {recovery, "none", "retry"}
  BY DEF FileStep, SavePrepare, SaveRename, SaveSync, SaveFailed, Unmark, UnmarkSync,
         MarkPrepare, MarkRename, MarkSync, Quarantine, QuarantineSync
<1>2. faults' \in 0..MaxFaults
  BY <1>1, BoundAssumption DEF TypeOK, Succeeds, Fails
<1>3. op' \in {op, "none"} /\ step' \in Steps
  BY DEF FileStep, SavePrepare, SaveRename, SaveSync, SaveFailed, Unmark, UnmarkSync,
         MarkPrepare, MarkRename, MarkSync, Marked, Return, Quarantine, QuarantineSync, Steps
<1> QED
  BY <1>1, <1>2, <1>3 DEF TypeOK, Ops

\* The directory after a rename or a removal.
Changed(file, marker, kept) ==
  /\ dir' \in Directory /\ survivors' = survivors \cup {dir'}
  /\ dir'.file = file /\ dir'.marker = marker /\ dir'.kept = kept

LEMMA ChangeIs ==
  ASSUME TypeOK
  PROVE  /\ Change([dir EXCEPT !.file = state]) => Changed(state, dir.marker, dir.kept)
         /\ Change([dir EXCEPT !.marker = "none"]) => Changed(dir.file, "none", dir.kept)
         /\ Change([dir EXCEPT !.marker = recovery]) => Changed(dir.file, recovery, dir.kept)
         /\ Change(SetAside) /\ dir.file # Missing => Changed(Missing, dir.marker, dir.kept \cup {dir.file})
<1>1. dir \in Directory /\ state \in UsageState /\ recovery \in Markers /\ "none" \in Markers
  BY DEF TypeOK, Markers
<1> QED
  BY <1>1, OtherFile, OtherMarker, SetAsideIs DEF Change, Changed

\* What a file operation makes of the directory.
LEMMA DiskAfter ==
  ASSUME TypeOK, FileStep
  PROVE  \/ UNCHANGED disk
         \/ Sync
         \/ step = "rename" /\ Changed(state, dir.marker, dir.kept)
         \/ step = "unmark" /\ Changed(dir.file, "none", dir.kept)
         \/ step = "markrename" /\ Changed(dir.file, recovery, dir.kept)
         \/ /\ step = "quarantine" /\ dir.file # Missing
            /\ Changed(Missing, dir.marker, dir.kept \cup {dir.file})
  BY ChangeIs DEF FileStep, SavePrepare, SaveRename, SaveSync, Unmark, UnmarkSync,
         MarkPrepare, MarkRename, MarkSync, Quarantine, QuarantineSync

LEMMA DiskType ==
  ASSUME TypeOK, FileStep
  PROVE  dir' \in Directory /\ survivors' \subseteq Directory /\ dir' \in survivors'
<1>1. dir \in Directory /\ survivors \subseteq Directory /\ dir \in survivors
  BY DEF TypeOK
<1> QED
  BY <1>1, DiskAfter DEF disk, Sync, Changed

\* A file operation leaves the state, unless recover-state begins afresh.
LEMMA StateAfter ==
  ASSUME TypeOK, FileStep
  PROVE  \/ UNCHANGED <<state, floor>>
         \/ step = "sync" /\ state' = state /\ floor' = state
         \/ /\ step \in {"quarantine", "quarantinesync"} /\ state' \in UsageState /\ state'.usage = 0
            /\ floor' = IF state'.date > floor.date THEN floor ELSE state'
<1>1. CASE SavePrepare \/ SaveRename \/ SaveSync \/ Unmark \/ UnmarkSync \/ MarkPrepare \/ MarkRename \/ MarkSync
  BY <1>1 DEF SavePrepare, SaveRename, SaveSync, Unmark, UnmarkSync, MarkPrepare, MarkRename, MarkSync, history
<1>2. CASE Quarantine \/ QuarantineSync
  <2>1. UNCHANGED <<state, floor>> \/ FreshState
    BY <1>2 DEF Quarantine, QuarantineSync
  <2>2. FreshState => /\ state' \in UsageState /\ state'.usage = 0
                      /\ floor' = IF state'.date > floor.date THEN floor ELSE state'
    <3>1. NewState(LocalDate(zone), zone) \in UsageState /\ NewState(LocalDate(zone), zone).usage = 0
      <4>1. NewState(LocalDate(zone), zone) \in UsageState
        BY DateIsNat DEF TypeOK
      <4> QED
        BY <4>1 DEF NewState
    <3> QED
      BY <3>1 DEF FreshState, Authorise
  <2> QED
    BY <1>2, <2>1, <2>2 DEF Quarantine, QuarantineSync
<1> QED
  BY <1>1, <1>2 DEF FileStep

LEMMA FileStepKeepsType ==
  ASSUME TypeOK, FileStep
  PROVE  TypeOK'
<1>1. evidence' \subseteq UsageState \cup {Corrupt} /\ sealed' \in BOOLEAN
  <2>1. dir.file \in UsageState \cup {Missing, Corrupt}
    BY DEF TypeOK, Directory
  <2>2. evidence' = evidence \/ (dir.file # Missing /\ evidence' \subseteq evidence \cup {dir.file})
    BY DEF FileStep, SavePrepare, SaveRename, SaveSync, Unmark, UnmarkSync,
         MarkPrepare, MarkRename, MarkSync, Quarantine, QuarantineSync, history
  <2>3. sealed' = sealed \/ sealed' = FALSE \/ sealed' = (recovery = "reset")
    BY DEF FileStep, SavePrepare, SaveRename, SaveSync, Unmark, UnmarkSync,
         MarkPrepare, MarkRename, MarkSync, Quarantine, QuarantineSync, history
  <2> QED
    BY <2>1, <2>2, <2>3 DEF TypeOK
<1>2. state' \in UsageState /\ floor' \in UsageState
  BY StateAfter DEF TypeOK
<1> QED
  BY <1>1, <1>2, FlowType, DiskType DEF TypeOK, Steps, Ops

\* The state of a tick: today's, with what the tick counts.
LEMMA TickState ==
  ASSUME TypeOK, Tick, op' = "tick"
  PROVE  /\ state' \in UsageState /\ recovery' = "none" /\ step' = "save"
         /\ state'.date >= state.date /\ (state'.date = state.date => state'.usage >= state.usage)
         /\ state'.date \in {state.date, LocalDate(zone)} /\ LocalDate(zone) >= state.date
         /\ state.zone \in {NoZone, zone}
<1> DEFINE today == LocalDate(zone)
           s == IF today > state.date THEN NewState(today, zone) ELSE [state EXCEPT !.zone = zone]
<1>1. PICK used \in {0, 1} : /\ state' = [s EXCEPT !.usage = @ + used] /\ today >= state.date
                             /\ state.zone \in {NoZone, zone}
  BY DEF Tick, EnterRecovery
<1>2. state \in UsageState /\ zone \in Timezones
  BY DEF TypeOK
<1>3. /\ s \in UsageState /\ s.date >= state.date /\ s.date \in {state.date, today}
      /\ s.date = state.date => s.usage = state.usage
  <2>1. today \in Nat /\ NewState(today, zone) \in UsageState /\ NewState(today, zone).date = today
    <3>1. today \in Nat /\ NewState(today, zone) \in UsageState
      BY <1>2, DateIsNat
    <3> QED
      BY <3>1 DEF NewState
  <2>2. state.date \in Nat
    BY <1>2 DEF UsageState
  <2> DEFINE t == [state EXCEPT !.zone = zone]
  <2>3. t \in UsageState /\ t.date = state.date /\ t.usage = state.usage
    BY <1>2, OtherZone
  <2> HIDE DEF today, t
  <2> QED
    BY <2>1, <2>2, <2>3 DEF t
<1> HIDE DEF s
<1>4. s.usage + used \in Nat /\ state'.usage = s.usage + used /\ state'.date = s.date /\ state' \in UsageState
  BY <1>1, <1>3 DEF UsageState
<1> QED
  BY <1>2, <1>3, <1>4 DEF Tick, EnterRecovery, UsageState

\* A reset keeps the day and lowers what counts as durable with the usage.
LEMMA ResetState ==
  ASSUME TypeOK, Reset
  PROVE  /\ state' \in UsageState /\ state'.date = state.date /\ state'.usage = 0
         /\ floor' = IF state'.date > floor.date THEN floor ELSE state'
<1>1. state \in UsageState /\ state' = [state EXCEPT !.usage = 0] /\ Authorise(state')
  BY DEF TypeOK, Reset
<1> QED
  BY <1>1, OtherUsage DEF Authorise

\* The state and the recovery of a new process.
LEMMA StartState ==
  ASSUME TypeOK, Start
  PROVE  /\ zone' \in Timezones /\ step' = "idle" /\ op' = "none"
         /\ state' \in UsageState /\ recovery' \in {"none", "retry", "reset"}
         /\ UNCHANGED <<clock, disk, faults, crashes, history>>
         /\ state'.date = LoadedService(LocalDate(zone')).state.date
         /\ state'.usage = LoadedService(LocalDate(zone')).state.usage
         /\ recovery' \in {LoadedService(LocalDate(zone')).recovery, "reset"}
<1> DEFINE s == LoadedService(LocalDate(zone'))
<1>1. /\ zone' \in IF Retimed THEN Timezones ELSE {zone}
      /\ recovery' = IF s.recovery = "none" /\ s.state.zone \notin {NoZone, zone'}
                     THEN "reset" ELSE s.recovery
      /\ state' = IF s.recovery = "none" /\ s.state.zone = NoZone
                  THEN [s.state EXCEPT !.zone = zone'] ELSE s.state
      /\ step' = "idle" /\ op' = "none" /\ UNCHANGED <<clock, disk, faults, crashes, history>>
  BY DEF Start
<1>2. zone' \in Timezones
  BY <1>1 DEF TypeOK
<1>3. s.state \in UsageState /\ s.recovery \in {"none", "retry", "reset"}
  BY <1>2, LoadedIs
<1> HIDE DEF s
<1>4. state' \in UsageState /\ state'.date = s.state.date /\ state'.usage = s.state.usage
  BY <1>1, <1>2, <1>3, OtherZone
<1> QED
  BY <1>1, <1>2, <1>3, <1>4 DEF s

LEMMA DamageDone ==
  ASSUME TypeOK, Damage
  PROVE  /\ dir' \in Directory /\ survivors' = {dir'} /\ dir'.kept = dir.kept
         /\ \/ dir'.file = Corrupt /\ dir'.marker = dir.marker
            \/ dir.marker # "none" /\ dir'.file = dir.file /\ dir'.marker = "bad"
<1>1. dir \in Directory /\ "bad" \in Markers
  BY DEF TypeOK, Markers
<1> QED
  BY <1>1, OtherFile, OtherMarker DEF Damage

LEMMA TypeKept == TypeOK /\ [Next]_vars => TypeOK'
<1> SUFFICES ASSUME TypeOK, [Next]_vars PROVE TypeOK'
  OBVIOUS
<1>1. CASE Tick
  <2>1. state' \in UsageState
    BY <1>1, TickState DEF Tick, EnterRecovery, TypeOK
  <2> QED
    BY <1>1, <2>1 DEF Tick, EnterRecovery, TypeOK, disk, history
<1>2. CASE TickRetry \/ Recover \/ Stop
  BY <1>2 DEF TickRetry, Recover, Stop, TypeOK, disk, history
<1>3. CASE Reset
  <2>1. state' \in UsageState /\ floor' \in UsageState
    BY <1>3, ResetState DEF TypeOK
  <2> QED
    BY <1>3, <2>1 DEF Reset, TypeOK, disk
<1>4. CASE Reload
  BY <1>4 DEF Reload, TypeOK, disk, history
<1>5. CASE Start
  BY <1>5, StartState DEF TypeOK, disk, history
<1>6. CASE Crash \/ PowerLoss
  <2>1. crashes' \in 0..MaxCrashes
    BY <1>6, BoundAssumption DEF Crash, PowerLoss, TypeOK
  <2> QED
    BY <1>6, <2>1 DEF Crash, PowerLoss, TypeOK, disk, history
<1>7. CASE Damage
  <2>1. faults' \in 0..MaxFaults
    BY <1>7, BoundAssumption DEF Damage, Fails, TypeOK
  <2>2. dir' \in Directory /\ survivors' = {dir'}
    BY <1>7, DamageDone
  <2> QED
    BY <1>7, <2>1, <2>2 DEF Damage, TypeOK
<1>8. CASE MoveClock
  <2>1. clock' \in 0..MaxClock
    BY <1>8, BoundAssumption DEF MoveClock, TypeOK
  <2> QED
    BY <1>8, <2>1 DEF MoveClock, TypeOK, disk, history
<1>9. CASE UNCHANGED vars
  BY <1>9 DEF vars, TypeOK, disk, history
<1> QED
  BY <1>1, <1>2, <1>3, <1>4, <1>5, <1>6, <1>7, <1>8, <1>9, FileStepKeepsType DEF Next, Daemon, Command

LEMMA TypeAtFirst == Init => TypeOK
<1> SUFFICES ASSUME Init PROVE TypeOK
  OBVIOUS
<1>1. clock \in 0..MaxClock /\ faults \in 0..MaxFaults /\ crashes \in 0..MaxCrashes
  BY BoundAssumption DEF Init
<1>2. state \in UsageState /\ floor \in UsageState
  BY DEF Init, NewState, UsageState
<1>3. dir \in Directory /\ survivors = {dir}
  BY DEF Init, Directory, Markers
<1> QED
  BY <1>1, <1>2, <1>3 DEF Init, TypeOK

\* Every variable keeps its type.
THEOREM TypeCorrect == Spec => []TypeOK
  BY TypeAtFirst, TypeKept, PTL DEF Spec

-----------------------------------------------------------------------------
(* Where a handler is *)

Saving == step \in {"save", "rename", "sync"}
Marking == step \in {"mark", "markrename", "marksync"}
SettingAside == step \in {"quarantine", "quarantinesync"}
Unmarking == step \in {"unmark", "unmarksync"}

\* A file is set aside, and a fresh state saved, only under a reset-required marker;
\* the marker is removed only when the state is the durable file.
StepInv ==
  /\ Saving => /\ op \in {"tick", "reset", "stop"} => recovery = "none"
               /\ op \in {"retry", "recover"} => recovery # "none"
               /\ recovery = "reset" => dir.marker = "reset"
  /\ step = "sync" => dir.file = state
  /\ Marking => recovery # "none"
  /\ step = "marksync" => dir.marker = recovery
  /\ SettingAside => recovery = "reset" /\ dir.marker = "reset" /\ op = "recover"
  /\ Unmarking => /\ op \in {"retry", "recover"} /\ floor = state
                  /\ \A d \in survivors : d.file = state
  /\ step = "unmarksync" => dir.marker = "none" /\ ~sealed
  /\ op = "recover" => recovery # "none"
  /\ step \in {"idle", "down"} => op = "none"

LEMMA StepKept ==
  ASSUME TypeOK, StepInv, [Next]_vars
  PROVE  StepInv'
<1>0. dir \in survivors
  BY DEF TypeOK
<1>1. CASE SavePrepare
  BY <1>1 DEF SavePrepare, SaveFailed, Return, StepInv, Saving, Marking, SettingAside, Unmarking, TypeOK, disk, history
<1>2. CASE SaveRename
  <2>1. Change([dir EXCEPT !.file = state]) => Changed(state, dir.marker, dir.kept)
    BY ChangeIs
  <2> QED
    BY <1>2, <2>1 DEF SaveRename, SaveFailed, Return, Changed, StepInv, Saving, Marking, SettingAside, Unmarking,
                        TypeOK, disk, history
<1>3. CASE SaveSync
  BY <1>3 DEF SaveSync, Sync, SaveFailed, Return, StepInv, Saving, Marking, SettingAside, Unmarking, TypeOK, disk, history
<1>4. CASE Unmark
  <2>1. Change([dir EXCEPT !.marker = "none"]) => Changed(dir.file, "none", dir.kept)
    BY ChangeIs
  <2> QED
    BY <1>4, <2>1 DEF Unmark, Return, Changed, StepInv, Saving, Marking, SettingAside, Unmarking,
                        TypeOK, disk, history
<1>5. CASE UnmarkSync
  BY <1>5 DEF UnmarkSync, Sync, Return, StepInv, Saving, Marking, SettingAside, Unmarking, TypeOK, disk, history
<1>6. CASE MarkPrepare
  BY <1>6 DEF MarkPrepare, Marked, Return, StepInv, Saving, Marking, SettingAside, Unmarking, TypeOK, disk, history
<1>7. CASE MarkRename
  <2>1. Change([dir EXCEPT !.marker = recovery]) => Changed(dir.file, recovery, dir.kept)
    BY ChangeIs
  <2> QED
    BY <1>7, <2>1 DEF MarkRename, Return, Changed, StepInv, Saving, Marking, SettingAside, Unmarking,
                        TypeOK, disk, history
<1>8. CASE MarkSync
  BY <1>8 DEF MarkSync, Sync, Marked, Return, StepInv, Saving, Marking, SettingAside, Unmarking, TypeOK, disk, history
<1>9. CASE Quarantine
  <2>1. Change(SetAside) /\ dir.file # Missing => Changed(Missing, dir.marker, dir.kept \cup {dir.file})
    BY ChangeIs
  <2> QED
    BY <1>9, <2>1 DEF Quarantine, Return, Changed, StepInv, Saving, Marking, SettingAside, Unmarking,
                        TypeOK, disk, history
<1>10. CASE QuarantineSync
  BY <1>10 DEF QuarantineSync, Sync, Return, StepInv, Saving, Marking, SettingAside, Unmarking, TypeOK, disk, history
<1>11. CASE Tick \/ TickRetry \/ Recover \/ Reset \/ Stop
  BY <1>11 DEF Tick, EnterRecovery, TickRetry, Recover, Reset, Stop, StepInv, Saving, Marking, SettingAside, Unmarking, disk, history
<1>12. CASE Reload \/ MoveClock
  BY <1>12 DEF Reload, MoveClock, StepInv, Saving, Marking, SettingAside, Unmarking, disk, history
<1>13. CASE Start \/ Crash \/ PowerLoss \/ Damage
  BY <1>13 DEF Start, Crash, PowerLoss, Damage, StepInv, Saving, Marking, SettingAside, Unmarking, disk, history
<1>14. CASE UNCHANGED vars
  BY <1>14 DEF vars, StepInv, Saving, Marking, SettingAside, Unmarking, disk, history
<1> QED
  BY <1>1, <1>2, <1>3, <1>4, <1>5, <1>6, <1>7, <1>8, <1>9, <1>10, <1>11, <1>12, <1>13, <1>14
     DEF Next, Daemon, Command, FileStep

-----------------------------------------------------------------------------
(* What the disk holds *)

\* A directory from which a daemon would go on counting.
LooksFine(d) == d.marker \in {"none", "retry"} /\ d.file # Corrupt

\* A directory that gives no durable usage back.
Keeps(d) == /\ d.file # Corrupt
            /\ d.file = Missing => floor.date = 0 /\ floor.usage = 0
            /\ d.file # Missing => Covers(d.file)

\* Whatever comes back after a power loss keeps the durable usage if a daemon would go
\* on counting from it; if the kernel's directory looks fine, so do they all.
DiskInv ==
  /\ \A d \in survivors : LooksFine(d) => Keeps(d)
  /\ LooksFine(dir) => \A d \in survivors : Keeps(d)

\* A daemon that counts, or only retries a write, has a fine directory and counts at
\* least the durable usage.
CountInv == step # "down" /\ recovery # "reset" => LooksFine(dir) /\ Covers(state)

\* What an administrator's fresh state or reset makes of the durable usage.
Lowered == \/ floor' = floor
           \/ \E s \in UsageState :
                s.usage = 0 /\ floor' = IF s.date > floor.date THEN floor ELSE s

LEMMA LoweredCovers ==
  ASSUME TypeOK, Lowered, NEW s \in UsageState, Covers(s)
  PROVE  s.date >= floor'.date /\ (s.date = floor'.date => s.usage >= floor'.usage)
<1>1. floor \in UsageState /\ s.usage \in Nat /\ s.date \in Nat
  BY DEF TypeOK, UsageState
<1>2. CASE floor' = floor
  BY <1>2 DEF Covers
<1>3. ASSUME NEW t \in UsageState, t.usage = 0, t.date <= floor.date, floor' = t
      PROVE  s.date >= floor'.date /\ (s.date = floor'.date => s.usage >= floor'.usage)
  <2>1. t.date \in Nat /\ floor.date \in Nat
    BY <1>1, <1>3 DEF UsageState
  <2> QED
    BY <1>1, <1>3, <2>1 DEF Covers
<1>4. ASSUME NEW t \in UsageState PROVE t.date > floor.date \/ t.date <= floor.date
  BY <1>1, <1>4 DEF UsageState
<1> QED
  BY <1>2, <1>3, <1>4 DEF Lowered

\* Lowering the durable usage leaves every directory good that was good.
LEMMA LoweredKeeps ==
  ASSUME TypeOK, Lowered, NEW d \in Directory, Keeps(d)
  PROVE  /\ d.file # Corrupt
         /\ d.file = Missing => floor'.date = 0 /\ floor'.usage = 0
         /\ d.file # Missing => d.file.date >= floor'.date
                                /\ (d.file.date = floor'.date => d.file.usage >= floor'.usage)
<1>1. CASE d.file = Missing
  <2>1. floor.date = 0 /\ floor.usage = 0 /\ d.file # Corrupt
    BY <1>1 DEF Keeps
  <2>2. \A t \in UsageState : t.date \in Nat
    BY DEF UsageState
  <2>3. \A t \in UsageState : t.date > floor.date \/ t.date = 0
    BY <2>1, <2>2
  <2> QED
    BY <1>1, <2>1, <2>3 DEF Lowered
<1>2. CASE d.file # Missing
  <2>1. d.file \in UsageState /\ Covers(d.file) /\ d.file # Corrupt
    BY <1>2 DEF Keeps, Directory
  <2> QED
    BY <1>2, <2>1, LoweredCovers
<1> QED
  BY <1>1, <1>2

\* A step of the disk that neither makes a directory nor raises what is durable.
LEMMA DiskLowered ==
  ASSUME TypeOK, TypeOK', DiskInv, Lowered, dir' = dir, survivors' \subseteq survivors
  PROVE  DiskInv'
<1>1. \A d \in survivors' : d \in survivors /\ d \in Directory
  BY DEF TypeOK
<1>2. ASSUME NEW d \in survivors', Keeps(d) PROVE Keeps(d)'
  BY <1>1, <1>2, LoweredKeeps DEF Keeps, Covers
<1>3. \A d \in survivors' : LooksFine(d) => Keeps(d)'
  BY <1>1, <1>2 DEF DiskInv
<1>4. LooksFine(dir) => \A d \in survivors' : Keeps(d)'
  BY <1>1, <1>2 DEF DiskInv
<1> QED
  BY <1>3, <1>4 DEF DiskInv, LooksFine

LEMMA DiskStays ==
  ASSUME TypeOK, TypeOK', DiskInv, CountInv, UNCHANGED <<disk, floor>>
  PROVE  /\ DiskInv'
         /\ UNCHANGED <<state, recovery>> /\ step # "down" => CountInv'
<1>1. DiskInv'
  BY DiskLowered DEF disk, Lowered
<1> QED
  BY <1>1 DEF CountInv, LooksFine, Covers, disk

\* Saving: the temporary file, its rename, the sync.
LEMMA SaveKeepsDurable ==
  ASSUME TypeOK, TypeOK', StepInv, DiskInv, CountInv, SavePrepare \/ SaveRename \/ SaveSync
  PROVE  DiskInv' /\ CountInv'
<1>1. /\ state \in UsageState /\ Missing \notin UsageState /\ Corrupt \notin UsageState
      /\ dir \in survivors
  BY FileAssumption DEF TypeOK
<1>2. /\ Saving /\ step # "down" /\ state' = state
      /\ recovery' # "reset" => recovery # "reset"
  BY DEF SavePrepare, SaveRename, SaveSync, SaveFailed, Saving, StepInv
<1>3. CASE UNCHANGED <<disk, floor>>
  <2>1. DiskInv'
    BY <1>3, DiskStays
  <2> QED
    BY <1>2, <1>3, <2>1 DEF CountInv, LooksFine, Covers, disk
<1>4. CASE SaveRename /\ ~ UNCHANGED disk
  <2>1. Changed(state, dir.marker, dir.kept) /\ floor' = floor
    BY <1>4, ChangeIs DEF SaveRename, history
  <2>2. CASE LooksFine(dir) /\ recovery # "reset"
    <3>1. Covers(state) /\ \A d \in survivors : Keeps(d)
      BY <1>2, <2>2 DEF CountInv, DiskInv
    <3>2. \A d \in survivors' : Keeps(d)'
      BY <1>1, <2>1, <3>1 DEF Changed, Keeps, Covers
    <3>3. LooksFine(dir)' /\ Covers(state)'
      BY <1>1, <1>2, <2>1, <2>2, <3>1 DEF Changed, LooksFine, Covers
    <3> QED
      BY <3>2, <3>3 DEF DiskInv, CountInv
  <2>3. CASE recovery = "reset"
    <3>1. ~ LooksFine(dir)' /\ ~ LooksFine(dir')
      BY <1>2, <2>1, <2>3 DEF StepInv, LooksFine, Changed
    <3>2. \A d \in survivors' : LooksFine(d) => Keeps(d)'
      BY <2>1, <3>1 DEF Changed, DiskInv, Keeps, Covers
    <3>3. recovery' = "reset"
      BY <1>2, <2>3 DEF TypeOK, SavePrepare, SaveRename, SaveSync, SaveFailed, StepInv
    <3> QED
      BY <3>1, <3>2, <3>3 DEF DiskInv, CountInv, LooksFine
  <2> QED
    BY <1>2, <2>2, <2>3 DEF CountInv
<1>5. CASE SaveSync /\ ~ UNCHANGED <<disk, floor>>
  <2>1. survivors' = {dir} /\ dir' = dir /\ floor' = state /\ recovery' = recovery /\ dir.file = state
    BY <1>5 DEF SaveSync, Sync, StepInv, disk
  <2>2. Keeps(dir)' /\ Covers(state)'
    <3>1. state.date \in Nat /\ state.usage \in Nat
      BY <1>1 DEF UsageState
    <3> QED
      BY <1>1, <1>2, <2>1, <3>1 DEF Keeps, Covers
  <2>3. \A d \in survivors' : Keeps(d)'
    BY <2>1, <2>2 DEF Keeps
  <2> QED
    BY <1>2, <2>1, <2>2, <2>3 DEF DiskInv, CountInv, LooksFine
<1> QED
  BY <1>3, <1>4, <1>5 DEF SavePrepare, SaveRename, SaveSync, Sync, disk, history

\* Marking and unmarking.
LEMMA MarkKeepsDurable ==
  ASSUME TypeOK, TypeOK', StepInv, DiskInv, CountInv,
         Unmark \/ UnmarkSync \/ MarkPrepare \/ MarkRename \/ MarkSync
  PROVE  DiskInv' /\ CountInv'
<1>1. /\ state \in UsageState /\ Missing \notin UsageState /\ Corrupt \notin UsageState
      /\ state.date \in Nat /\ state.usage \in Nat /\ dir \in survivors
      /\ recovery \in {"none", "retry", "reset"}
  BY FileAssumption DEF TypeOK, UsageState
<1>2. state' = state /\ floor' = floor /\ step # "down"
  BY DEF Unmark, UnmarkSync, MarkPrepare, MarkRename, MarkSync, history
<1>3. CASE Unmark /\ ~ UNCHANGED disk
  <2>1. Changed(dir.file, "none", dir.kept) /\ floor = state /\ \A d \in survivors : d.file = state
    BY <1>3, ChangeIs DEF Unmark, StepInv, Unmarking
  <2>2. \A d \in survivors' : d.file = state
    BY <1>1, <2>1 DEF Changed
  <2>3. \A d \in survivors' : Keeps(d)'
    BY <1>1, <1>2, <2>1, <2>2 DEF Keeps, Covers
  <2>4. LooksFine(dir)' /\ Covers(state)'
    BY <1>1, <1>2, <2>1 DEF LooksFine, Covers, Changed
  <2> QED
    BY <2>3, <2>4 DEF DiskInv, CountInv
<1>4. CASE MarkRename /\ ~ UNCHANGED disk
  <2>1. Changed(dir.file, recovery, dir.kept) /\ recovery' = recovery /\ recovery \in {"retry", "reset"}
    BY <1>1, <1>4, ChangeIs DEF MarkRename, StepInv, Marking
  <2>2. CASE recovery = "retry"
    <3>1. LooksFine(dir) /\ Covers(state) /\ \A d \in survivors : Keeps(d)
      BY <1>2, <2>2 DEF CountInv, DiskInv
    <3>2. \A d \in survivors' : Keeps(d)'
      BY <1>1, <1>2, <2>1, <3>1 DEF Changed, Keeps, Covers
    <3>3. LooksFine(dir)' /\ Covers(state)'
      BY <1>2, <2>1, <2>2, <3>1 DEF Changed, LooksFine, Covers
    <3> QED
      BY <3>2, <3>3 DEF DiskInv, CountInv
  <2>3. CASE recovery = "reset"
    <3>1. ~ LooksFine(dir)' /\ ~ LooksFine(dir')
      BY <2>1, <2>3 DEF LooksFine, Changed
    <3>2. \A d \in survivors' : LooksFine(d) => Keeps(d)'
      BY <1>2, <2>1, <3>1 DEF Changed, DiskInv, Keeps, Covers
    <3> QED
      BY <2>1, <2>3, <3>1, <3>2 DEF DiskInv, CountInv, LooksFine
  <2> QED
    BY <2>1, <2>2, <2>3
<1>5. CASE dir' = dir /\ survivors' \subseteq survivors
  <2>1. DiskInv'
    BY <1>2, <1>5, DiskLowered DEF Lowered
  <2>2. CASE recovery' = recovery
    BY <1>2, <1>5, <2>1, <2>2 DEF CountInv, LooksFine, Covers
  <2>3. CASE step = "unmarksync"
    <3>1. dir.marker = "none" /\ dir.file = state /\ floor = state
      BY <1>1, <2>3 DEF StepInv, Unmarking
    <3> QED
      BY <1>1, <1>2, <1>5, <2>1, <3>1 DEF CountInv, LooksFine, Covers
  <2> QED
    BY <2>2, <2>3 DEF Unmark, UnmarkSync, MarkPrepare, MarkRename, MarkSync
<1> QED
  BY <1>1, <1>3, <1>4, <1>5 DEF Unmark, UnmarkSync, MarkPrepare, MarkRename, MarkSync, Sync, disk

\* Setting the file aside.
LEMMA SetAsideKeepsDurable ==
  ASSUME TypeOK, TypeOK', StepInv, DiskInv, CountInv, Quarantine \/ QuarantineSync
  PROVE  DiskInv' /\ CountInv'
<1>1. /\ recovery' = "reset" /\ dir.marker = "reset" /\ dir \in survivors
      /\ SettingAside
  BY DEF Quarantine, QuarantineSync, StepInv, SettingAside, TypeOK
<1>2. Lowered
  BY <1>1, StateAfter DEF FileStep, Lowered, SettingAside
<1>3. CountInv'
  BY <1>1 DEF CountInv
<1>4. CASE Changed(Missing, dir.marker, dir.kept \cup {dir.file})
  <2>1. ~ LooksFine(dir)' /\ ~ LooksFine(dir')
    BY <1>1, <1>4 DEF LooksFine, Changed
  <2>2. \A d \in survivors : LooksFine(d) => Keeps(d)'
    <3>1. ASSUME NEW d \in survivors, LooksFine(d) PROVE Keeps(d)'
      <4>1. d \in Directory /\ Keeps(d)
        BY <3>1 DEF TypeOK, DiskInv
      <4> QED
        BY <1>2, <4>1, LoweredKeeps DEF Keeps, Covers
    <3> QED
      BY <3>1
  <2>3. \A d \in survivors' : LooksFine(d) => Keeps(d)'
    BY <1>4, <2>1, <2>2 DEF Changed
  <2> QED
    BY <1>3, <2>1, <2>3 DEF DiskInv, LooksFine
<1>5. CASE dir' = dir /\ survivors' \subseteq survivors
  BY <1>2, <1>3, <1>5, DiskLowered
<1>6. \/ dir' = dir /\ survivors' \subseteq survivors
      \/ Changed(Missing, dir.marker, dir.kept \cup {dir.file})
  BY <1>1, ChangeIs DEF Quarantine, QuarantineSync, Sync, disk
<1> QED
  BY <1>4, <1>5, <1>6

\* Starting: what looks fine is loaded, and holds what is durable.
LEMMA StartKeepsDurable ==
  ASSUME TypeOK, TypeOK', DiskInv, Start
  PROVE  DiskInv' /\ CountInv'
<1> DEFINE d == LocalDate(zone')
<1>1. /\ UNCHANGED <<disk, floor>> /\ dir \in survivors /\ dir.file \in UsageState \cup {Missing, Corrupt}
      /\ Missing \notin UsageState /\ Corrupt \notin UsageState /\ floor \in UsageState
  BY StartState, FileAssumption DEF TypeOK, Directory, history
<1>2. DiskInv'
  BY <1>1, DiskLowered DEF disk, Lowered
<1>3. d \in Nat /\ NewState(d, NoZone).date = d /\ NewState(d, NoZone).usage = 0
  <2>1. zone' \in Timezones
    BY StartState
  <2>2. d \in Nat
    BY <2>1, DateIsNat
  <2> HIDE DEF d
  <2> QED
    BY <2>2 DEF NewState
<1>4. ASSUME recovery' # "reset" PROVE LooksFine(dir) /\ Covers(state)'
  <2>1. LoadedService(d).recovery # "reset"
    BY <1>4, StartState
  <2> HIDE DEF d
  <2>2. dir.marker \notin {"bad", "reset"} /\ Loaded(d).error = "none" /\ LoadedService(d).state = Loaded(d).state
    BY <2>1 DEF LoadedService
  <2>3. dir.file # Corrupt
    BY <2>2, FileAssumption DEF Loaded
  <2>4. LooksFine(dir) /\ Keeps(dir)
    BY <1>1, <2>2, <2>3 DEF LooksFine, DiskInv, TypeOK, Directory, Markers
  <2>5. Covers(Loaded(d).state)
    <3>1. CASE dir.file = Missing
      BY <1>3, <2>4, <3>1 DEF Loaded, Keeps, Covers
    <3>2. CASE dir.file # Missing
      <4>1. dir.file \in UsageState /\ Covers(dir.file)
        BY <1>1, <2>3, <2>4, <3>2 DEF Keeps
      <4>2. /\ dir.file.date \in Nat /\ floor.date \in Nat /\ dir.file.usage \in Nat /\ floor.usage \in Nat
        BY <1>1, <4>1 DEF UsageState
      <4>3. ~ (dir.file.date > d) /\ Loaded(d).state = IF dir.file.date < d THEN NewState(d, NoZone) ELSE dir.file
        BY <2>2, <2>3, <3>2 DEF Loaded
      <4> QED
        BY <1>3, <4>1, <4>2, <4>3 DEF Covers
    <3> QED
      BY <3>1, <3>2
  <2>6. state'.date = Loaded(d).state.date /\ state'.usage = Loaded(d).state.usage
    BY <2>2, StartState DEF d
  <2> QED
    BY <1>1, <2>4, <2>5, <2>6 DEF Covers
<1> QED
  BY <1>1, <1>2, <1>4 DEF CountInv, LooksFine, disk

LEMMA DurableKept ==
  ASSUME TypeOK, StepInv, DiskInv, CountInv, [Next]_vars
  PROVE  DiskInv' /\ CountInv'
<1>0. TypeOK'
  BY TypeKept
<1>1. CASE FileStep
  BY <1>0, <1>1, SaveKeepsDurable, MarkKeepsDurable, SetAsideKeepsDurable DEF FileStep
<1>2. CASE Tick
  <2>1. UNCHANGED <<disk, floor>> /\ step # "down" /\ recovery = "none"
    BY <1>2 DEF Tick, history
  <2>2. DiskInv'
    BY <1>0, <2>1, DiskStays
  <2>3. CASE op' = "tick"
    <3>1. /\ state' \in UsageState
          /\ state'.date >= state.date /\ (state'.date = state.date => state'.usage >= state.usage)
      BY <1>2, <2>3, TickState
    <3>2. LooksFine(dir) /\ Covers(state)
      BY <2>1 DEF CountInv
    <3>3. Covers(state)'
      <4>1. state \in UsageState /\ floor \in UsageState /\ floor' = floor
        BY <2>1 DEF TypeOK
      <4> QED
        BY <3>1, <3>2, <4>1 DEF Covers, UsageState
    <3> QED
      BY <2>1, <2>2, <3>2, <3>3 DEF CountInv, LooksFine, disk
  <2>4. CASE recovery' = "reset"
    BY <2>2, <2>4 DEF CountInv
  <2> QED
    BY <1>2, <2>3, <2>4 DEF Tick, EnterRecovery
<1>3. CASE TickRetry \/ Recover \/ Reload \/ UNCHANGED vars
  <2>1. UNCHANGED <<disk, floor, state, recovery>> /\ (step = "down" => step' = "down")
    BY <1>3 DEF TickRetry, Recover, Reload, vars, history
  <2> QED
    BY <1>0, <2>1, DiskStays DEF CountInv
<1>4. CASE Stop \/ MoveClock
  <2>1. UNCHANGED <<disk, floor, state, recovery>> /\ (step = "down" => step' = "down")
    BY <1>4 DEF Stop, MoveClock, history
  <2> QED
    BY <1>0, <2>1, DiskStays DEF CountInv
<1>5. CASE Reset
  <2>1. UNCHANGED <<disk, recovery>> /\ step # "down" /\ recovery = "none"
    BY <1>5 DEF Reset
  <2>2. /\ state' \in UsageState /\ state'.date = state.date /\ state'.usage = 0
        /\ floor' = IF state'.date > floor.date THEN floor ELSE state'
    BY <1>5, ResetState
  <2>3. DiskInv'
    <3>1. Lowered
      BY <2>2 DEF Lowered
    <3> QED
      BY <1>0, <2>1, <3>1, DiskLowered DEF disk
  <2>4. LooksFine(dir) /\ Covers(state)
    BY <2>1 DEF CountInv
  <2>5. Covers(state)'
    <3>1. state.date \in Nat /\ floor.date \in Nat
      BY DEF TypeOK, UsageState
    <3> QED
      BY <2>2, <2>4, <3>1 DEF Covers
  <2> QED
    BY <2>1, <2>3, <2>4, <2>5 DEF CountInv, LooksFine, disk
<1>6. CASE Start
  BY <1>0, <1>6, StartKeepsDurable
<1>7. CASE Crash
  <2>1. UNCHANGED <<disk, floor>> /\ step' = "down"
    BY <1>7 DEF Crash, history
  <2> QED
    BY <1>0, <2>1, DiskStays DEF CountInv
<1>8. CASE PowerLoss
  <2>1. dir' \in survivors /\ survivors' = {dir'} /\ floor' = floor /\ step' = "down"
    BY <1>8 DEF PowerLoss
  <2>2. LooksFine(dir') => Keeps(dir')
    BY <2>1 DEF DiskInv
  <2> QED
    BY <2>1, <2>2 DEF DiskInv, CountInv, Keeps, Covers, LooksFine
<1>9. CASE Damage
  <2>1. survivors' = {dir'} /\ step' = "down" /\ ~ LooksFine(dir')
    BY <1>9, DamageDone DEF Damage, LooksFine
  <2> QED
    BY <2>1 DEF DiskInv, CountInv, LooksFine
<1> QED
  BY <1>1, <1>2, <1>3, <1>4, <1>5, <1>6, <1>7, <1>8, <1>9 DEF Next, Daemon, Command

-----------------------------------------------------------------------------
(* What a power loss or a restart must not undo *)

SealInv == /\ sealed => \A d \in survivors : d.marker \in {"reset", "bad"}
           /\ sealed /\ step # "down" => recovery = "reset"

LEMMA SealKept ==
  ASSUME TypeOK, StepInv, SealInv, [Next]_vars
  PROVE  SealInv'
<1>0. dir \in survivors /\ survivors \subseteq Directory /\ sealed \in BOOLEAN
  BY DEF TypeOK
<1>1. CASE SavePrepare \/ SaveRename \/ SaveSync
  <2>1. sealed' = sealed /\ step # "down" /\ (recovery = "reset" => recovery' = "reset")
    BY <1>1 DEF SavePrepare, SaveRename, SaveSync, SaveFailed, StepInv, Saving, history
  <2>2. \A d \in survivors' : d \in survivors \/ d.marker = dir.marker
    BY <1>0, <1>1, ChangeIs DEF SavePrepare, SaveRename, SaveSync, Sync, Changed, disk
  <2> QED
    BY <1>0, <2>1, <2>2 DEF SealInv
<1>2. CASE Unmark
  BY <1>0, <1>2 DEF Unmark, SealInv, disk
<1>3. CASE UnmarkSync
  BY <1>0, <1>3 DEF UnmarkSync, StepInv, SealInv, history
<1>4. CASE MarkPrepare
  BY <1>0, <1>4 DEF MarkPrepare, SealInv, disk, history
<1>5. CASE MarkRename
  <2>1. sealed' = sealed /\ step # "down" /\ recovery' = recovery
    BY <1>5 DEF MarkRename, history
  <2>2. \A d \in survivors' : d \in survivors \/ d.marker = recovery
    BY <1>0, <1>5, ChangeIs DEF MarkRename, Changed, disk
  <2> QED
    BY <1>0, <2>1, <2>2 DEF SealInv
<1>6. CASE MarkSync
  BY <1>0, <1>6 DEF MarkSync, Sync, SealInv, StepInv, disk
<1>7. CASE Quarantine \/ QuarantineSync
  <2>1. sealed' = sealed /\ step # "down" /\ recovery' = recovery
    BY <1>7 DEF Quarantine, QuarantineSync
  <2>2. \A d \in survivors' : d \in survivors \/ d.marker = dir.marker
    BY <1>0, <1>7, ChangeIs DEF Quarantine, QuarantineSync, Sync, Changed, disk
  <2> QED
    BY <1>0, <2>1, <2>2 DEF SealInv
<1>8. CASE Tick \/ TickRetry \/ Recover \/ Reset \/ Reload \/ Stop \/ MoveClock
  BY <1>0, <1>8 DEF Tick, EnterRecovery, TickRetry, Recover, Reset, Reload, Stop, MoveClock, SealInv, disk, history
<1>9. CASE Start
  <2>1. UNCHANGED <<disk, sealed>>
    BY <1>9, StartState DEF history
  <2>2. dir.marker \in {"reset", "bad"} => recovery' = "reset"
    <3>1. dir.marker \in {"reset", "bad"} => LoadedService(LocalDate(zone')).recovery = "reset"
      BY DEF LoadedService
    <3> QED
      BY <1>9, <3>1, StartState
  <2> QED
    BY <1>0, <2>1, <2>2 DEF SealInv, disk
<1>10. CASE Crash \/ PowerLoss
  BY <1>0, <1>10 DEF Crash, PowerLoss, SealInv, disk, history
<1>11. CASE Damage
  <2>1. survivors' = {dir'} /\ step' = "down" /\ sealed' = sealed /\ dir'.marker \in {dir.marker, "bad"}
    BY <1>11, DamageDone DEF Damage
  <2> QED
    BY <1>0, <2>1 DEF SealInv
<1>12. CASE UNCHANGED vars
  BY <1>12 DEF vars, SealInv, disk, history
<1> QED
  BY <1>1, <1>2, <1>3, <1>4, <1>5, <1>6, <1>7, <1>8, <1>9, <1>10, <1>11, <1>12
     DEF Next, Daemon, Command, FileStep

\* What recover-state has to keep is among the kernel's quarantined files, so that the
\* file that is saved next does not replace it.
EvidenceInv == EvidencePreserved /\ evidence \subseteq dir.kept

LEMMA EvidenceKept ==
  ASSUME TypeOK, EvidenceInv, [Next]_vars
  PROVE  EvidenceInv'
<1>0. dir \in survivors
  BY DEF TypeOK
<1>1. ASSUME evidence' = evidence, dir'.kept = dir.kept,
             \A d \in survivors' : d \in survivors \/ d.kept = dir.kept
      PROVE  EvidenceInv'
  BY <1>1 DEF EvidenceInv, EvidencePreserved
<1>2. CASE FileStep /\ ~ Quarantine
  <2>1. evidence' = evidence
    BY <1>2 DEF FileStep, SavePrepare, SaveRename, SaveSync, Unmark, UnmarkSync,
                MarkPrepare, MarkRename, MarkSync, QuarantineSync, history
  <2>2. dir'.kept = dir.kept /\ \A d \in survivors' : d \in survivors \/ d.kept = dir.kept
    BY <1>0, <1>2, ChangeIs DEF FileStep, SavePrepare, SaveRename, SaveSync, Unmark, UnmarkSync,
                MarkPrepare, MarkRename, MarkSync, QuarantineSync, Sync, Changed, disk
  <2> QED
    BY <1>1, <2>1, <2>2
<1>3. CASE Quarantine
  <2>1. CASE UNCHANGED <<disk, evidence>>
    BY <1>0, <1>1, <2>1 DEF disk
  <2>2. CASE /\ Changed(Missing, dir.marker, dir.kept \cup {dir.file})
             /\ evidence' = evidence \cup {f \in {dir.file} : \A d \in survivors : d.file = f}
    <3>1. evidence' \subseteq dir'.kept
      BY <2>2 DEF Changed, EvidenceInv
    <3>2. \A d \in survivors : evidence' \subseteq d.kept \cup {d.file}
      BY <2>2 DEF EvidenceInv, EvidencePreserved
    <3> QED
      BY <2>2, <3>1, <3>2 DEF Changed, EvidenceInv, EvidencePreserved
  <2> QED
    BY <1>3, <2>1, <2>2, ChangeIs DEF Quarantine
<1>4. CASE Tick \/ TickRetry \/ Recover \/ Reset \/ Reload \/ Stop \/ MoveClock
  <2>1. UNCHANGED <<disk, evidence>>
    BY <1>4 DEF Tick, TickRetry, Recover, Reset, Reload, Stop, MoveClock, history
  <2> QED
    BY <1>1, <2>1 DEF disk
<1>5. CASE Start \/ Crash \/ UNCHANGED vars
  <2>1. UNCHANGED <<disk, evidence>>
    BY <1>5 DEF Start, Crash, vars, history
  <2> QED
    BY <1>1, <2>1 DEF disk
<1>6. CASE PowerLoss
  BY <1>6 DEF PowerLoss, EvidenceInv, EvidencePreserved
<1>7. CASE Damage
  <2>1. survivors' = {dir'} /\ dir'.kept = dir.kept /\ evidence' \subseteq evidence
    BY <1>7, DamageDone DEF Damage
  <2> QED
    BY <2>1 DEF EvidenceInv, EvidencePreserved
<1> QED
  BY <1>2, <1>3, <1>4, <1>5, <1>6, <1>7 DEF Next, Daemon, Command

-----------------------------------------------------------------------------
(* What is promised *)

PersistenceInv == TypeOK /\ StepInv /\ DiskInv /\ CountInv /\ SealInv /\ EvidenceInv

LEMMA InvAtFirst == Init => PersistenceInv
<1> SUFFICES ASSUME Init PROVE PersistenceInv
  OBVIOUS
<1>1. /\ step = "down" /\ op = "none" /\ sealed = FALSE /\ evidence = {}
      /\ floor.date = 0 /\ floor.usage = 0
      /\ survivors = {dir} /\ dir.file = Missing /\ Missing # Corrupt
  BY FileAssumption DEF Init, NewState
<1>2. StepInv /\ CountInv
  BY <1>1 DEF StepInv, CountInv, Saving, Marking, SettingAside, Unmarking
<1>3. DiskInv /\ SealInv /\ EvidenceInv
  BY <1>1 DEF DiskInv, Keeps, SealInv, EvidenceInv, EvidencePreserved
<1> QED
  BY <1>2, <1>3, TypeAtFirst DEF PersistenceInv

LEMMA InvKept == PersistenceInv /\ [Next]_vars => PersistenceInv'
  BY TypeKept, StepKept, DurableKept, SealKept, EvidenceKept DEF PersistenceInv

LEMMA InvHolds == Spec => []PersistenceInv
  BY InvAtFirst, InvKept, PTL DEF Spec

\* No failing write, crash, power loss, damaged file or clock rollback lets a daemon
\* count with less usage, or an earlier day, than it once made durable.
THEOREM NoUsageGivenBack == Spec => []NoSilentReset
<1>1. PersistenceInv => NoSilentReset
  BY DEF PersistenceInv, CountInv, NoSilentReset
<1> QED
  BY <1>1, InvHolds, PTL

\* Whatever a power loss leaves while a daemon counts, it loads to the durable usage.
THEOREM DurableUsage == Spec => []CountedIsDurable
<1>1. PersistenceInv => CountedIsDurable
  <2> SUFFICES ASSUME PersistenceInv, step = "idle", recovery = "none", floor.usage > 0, NEW d \in survivors
               PROVE  d.file \notin {Missing, Corrupt} /\ Covers(d.file)
    BY DEF CountedIsDurable
  <2>1. Keeps(d)
    BY DEF PersistenceInv, CountInv, DiskInv
  <2> QED
    BY <2>1 DEF Keeps
<1> QED
  BY <1>1, InvHolds, PTL

\* A reset-required recovery that was marked on the disk lasts until a recover-state
\* has saved the fresh state.
THEOREM RecoveryLasts == Spec => []RecoveryIsSticky
<1>1. PersistenceInv => RecoveryIsSticky
  BY DEF PersistenceInv, SealInv, RecoveryIsSticky
<1> QED
  BY <1>1, InvHolds, PTL

\* The durable file that recover-state replaced survives in whatever directory a power
\* loss leaves.
THEOREM EvidenceSurvives == Spec => []EvidencePreserved
<1>1. PersistenceInv => EvidencePreserved
  BY DEF PersistenceInv, EvidenceInv
<1> QED
  BY <1>1, InvHolds, PTL

-----------------------------------------------------------------------------
(* The end of a day *)

\* A tick that finds the day of the durable usage not yet over adds to it.
LEMMA TickStaysInDay ==
  ASSUME PersistenceInv, Tick, op' = "tick", state.zone = floor.zone,
         floor.zone # NoZone, LocalDate(floor.zone) <= floor.date
  PROVE  state'.usage >= floor.usage
<1>1. /\ state'.date \in {state.date, LocalDate(zone)} /\ LocalDate(zone) >= state.date
      /\ state'.date = state.date => state'.usage >= state.usage
      /\ zone = floor.zone /\ state' \in UsageState
  BY TickState DEF PersistenceInv
<1>2. state \in UsageState /\ floor \in UsageState /\ Covers(state)
  BY DEF PersistenceInv, TypeOK, CountInv, Tick
<1>3. LocalDate(zone) \in Nat
  BY DateIsNat DEF PersistenceInv, TypeOK
<1> QED
  BY <1>1, <1>2, <1>3 DEF Covers, UsageState

\* So does a daemon that starts again in the timezone of the durable usage.
LEMMA StartStaysInDay ==
  ASSUME PersistenceInv, PersistenceInv', Start, recovery' = "none", zone' = floor.zone,
         LocalDate(floor.zone) <= floor.date
  PROVE  state'.usage >= floor.usage
<1> DEFINE d == LocalDate(zone')
<1>1. /\ state'.date = LoadedService(d).state.date /\ LoadedService(d).recovery # "reset"
      /\ zone' \in Timezones /\ floor' = floor /\ state' \in UsageState /\ step' = "idle"
  BY StartState DEF PersistenceInv, history
<1>2. d \in Nat /\ NewState(d, NoZone).date = d
  <2>1. d \in Nat
    BY <1>1, DateIsNat DEF PersistenceInv
  <2> HIDE DEF d
  <2> QED
    BY <2>1 DEF NewState
<1>3. Covers(state)'
  BY <1>1 DEF PersistenceInv, CountInv
<1>4. floor \in UsageState /\ dir.file \in UsageState \cup {Missing, Corrupt}
  BY DEF PersistenceInv, TypeOK, Directory
<1>5. d <= floor.date
  OBVIOUS
<1> HIDE DEF d
<1>6. Loaded(d).error = "none" /\ LoadedService(d).state = Loaded(d).state
  BY <1>1 DEF LoadedService
<1>7. Loaded(d).state.date <= d
  BY <1>2, <1>4, <1>6 DEF Loaded, UsageState
<1> QED
  BY <1>1, <1>2, <1>3, <1>4, <1>5, <1>6, <1>7 DEF Covers, UsageState

\* Neither a tick after a reload nor a daemon that starts again lets durable usage go
\* before its date is over in the timezone it was counted in.
THEOREM UsageLastsItsDay == Spec => DayEndsInItsTimezone
<1> DEFINE Stays == (/\ \/ step = "idle" /\ op' = "tick" /\ state.zone = floor.zone
                        \/ step = "down" /\ step' = "idle" /\ recovery' = "none" /\ zone' = floor.zone
                     /\ floor.zone # NoZone /\ LocalDate(floor.zone) <= floor.date)
                    => state'.usage >= floor.usage
<1>1. PersistenceInv /\ PersistenceInv' /\ [Next]_vars => Stays
  <2> SUFFICES ASSUME PersistenceInv, PersistenceInv', [Next]_vars,
                      floor.zone # NoZone, LocalDate(floor.zone) <= floor.date,
                      \/ step = "idle" /\ op' = "tick" /\ state.zone = floor.zone
                      \/ step = "down" /\ step' = "idle" /\ recovery' = "none" /\ zone' = floor.zone
               PROVE  state'.usage >= floor.usage
    OBVIOUS
  <2>1. CASE step = "idle"
    <3>1. op = "none" /\ op' = "tick"
      BY <2>1 DEF PersistenceInv, StepInv
    <3>2. Tick
      BY <2>1, <3>1 DEF Next, Daemon, Command, FileStep, SavePrepare, SaveRename, SaveSync, Unmark,
            UnmarkSync, MarkPrepare, MarkRename, MarkSync, Quarantine, QuarantineSync, TickRetry, Start,
            Recover, Reset, Reload, Stop, Crash, PowerLoss, Damage, MoveClock, vars
    <3> QED
      BY <2>1, <3>1, <3>2, TickStaysInDay
  <2>2. CASE step = "down"
    <3>1. Start
      BY <2>2 DEF Next, Daemon, Command, FileStep, SavePrepare, SaveRename, SaveSync, Unmark,
            UnmarkSync, MarkPrepare, MarkRename, MarkSync, Quarantine, QuarantineSync, Tick, TickRetry,
            Recover, Reset, Reload, Stop, Crash, PowerLoss, Damage, MoveClock, vars
    <3> QED
      BY <2>2, <3>1, StartStaysInDay
  <2> QED
    BY <2>1, <2>2
<1>2. Spec => [][Stays]_vars
  BY <1>1, InvHolds, PTL DEF Spec
<1> QED
  BY <1>2 DEF DayEndsInItsTimezone

=============================================================================
