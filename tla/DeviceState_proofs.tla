-------------------------- MODULE DeviceState_proofs --------------------------
(***************************************************************************)
(* What usage.json and memory agree on.  Between ticks and outside         *)
(* recovery the file is the state (for every set of configurations); when  *)
(* all configurations have one continuous allowance, every counter stays   *)
(* in its range, so that the file always loads, and no application gets    *)
(* ahead of the device.  When the wall clock does not jump ahead of the    *)
(* monotonic one, a tick charges at most two polling intervals, and a      *)
(* crash forgets no more.                                                  *)
(*                                                                         *)
(* DeviceUsage implements Allowance, for every set of applications and     *)
(* configurations with one continuous allowance, every behaviour of the    *)
(* clocks and every fault: what the counters, files and locks of a user do *)
(* is a behaviour of the abstract specification.                           *)
(***************************************************************************)
EXTENDS DeviceUsage_proofs

\* How the handlers' parts combine the fields of a state.
LEMMA StateFields ==
  ASSUME NEW s \in UsageState
  PROVE  /\ EndBreak(s).apps = s.apps /\ EndBreak(s).continuous = 0
         /\ FileOf(s).state.apps = s.apps /\ FileOf(s).state.continuous = s.continuous
         /\ WithApps(s).continuous = s.continuous
         /\ \A a \in Apps : WithApps(s).apps[a] = s.apps[a] +
              (IF a \in tick.apps \cap prevApps THEN tick.counted ELSE 0)
  BY DEF UsageState, EndBreak, WithApps, FileOf

-----------------------------------------------------------------------------
(* The file between ticks *)

\* What Save writes holds instants as JSON keeps them, and is what Save would
\* write of it again.
LEMMA FileIsStored ==
  /\ \A s \in UsageState : FileOf(FileOf(s).state) = FileOf(s)
  /\ \A s \in UsageState : FileOf(s).state \in UsageState
<1>1. ASSUME NEW s \in UsageState PROVE FileOf(FileOf(s).state) = FileOf(s)
  <2>1. FileOf(s).state = [s EXCEPT !.until = Stored(s.until)]
    BY DEF FileOf
  <2>2. FileOf(s).state.until = Stored(s.until)
    BY <2>1 DEF UsageState
  <2>3. Stored(Stored(s.until)) = Stored(s.until)
    BY DEF Stored, WallOnly
  <2>4. [FileOf(s).state EXCEPT !.until = Stored(s.until)] = FileOf(s).state
    BY <2>1 DEF UsageState
  <2> QED
    BY <2>2, <2>3, <2>4 DEF FileOf
<1> QED
  BY <1>1, FileType DEF UsageFile

\* The file was written by saveState, and a daemon that counts and holds no
\* tick has it in memory.
FileInv == /\ disk.present => disk = FileOf(disk.state)
           /\ SavedBeforeRelease

\* Outside a tick and outside recovery the file of the current day is the state
\* in memory, whatever was saved, reset, recovered or reloaded before, whichever
\* writes failed, and wherever the daemon crashed.
THEOREM FileIsStateBetweenTicks == Spec => []SavedBeforeRelease
<1>1. Init => FileInv
  BY DEF Init, FileInv, SavedBeforeRelease, NoFile
<1>2. TypeOK /\ TypeOK' /\ FileInv /\ [Next]_vars => FileInv'
  <2> SUFFICES ASSUME TypeOK, TypeOK', FileInv, [Next]_vars PROVE FileInv'
    OBVIOUS
  <2> USE DEF FileInv, SavedBeforeRelease
  <2>a. state \in UsageState /\ state' \in UsageState /\ disk.state \in UsageState
    BY DEF TypeOK, UsageFile
  <2>b. ASSUME NEW s \in UsageState, disk' = FileOf(s)
        PROVE  disk'.present => disk' = FileOf(disk'.state)
    BY <2>b, FileIsStored
  <2>c. ASSUME Save(state') PROVE FileInv'
    <3>1. disk' = disk \/ disk' = FileOf(state')
      BY <2>c DEF Save
    <3>2. disk'.present => disk' = FileOf(disk'.state)
      BY <2>a, <2>b, <3>1
    <3>3. recovery' = "none" /\ pc' = "idle" => disk' = FileOf(state')
                                               \/ disk' = disk
      BY <3>1
    <3>4. disk' = FileOf(state') \/ recovery' = "retry"
      BY <2>c DEF Save, EnterRecovery
    <3> QED
      BY <3>2, <3>4
  <2>1. CASE Start
    <3>1. disk' = disk /\ state' = LoadedState /\ recovery' = LoadedRecovery
      BY <2>1 DEF Start, storage
    <3>2. ASSUME recovery' = "none", disk.present, disk.state.date = state'.date
          PROVE  disk = FileOf(state')
      <4>1. Loadable(disk.state) /\ ~(disk.state.date > Today)
        BY <3>1, <3>2 DEF LoadedRecovery
      <4>2. NewState(Today).date = Today /\ Today \in Nat /\ disk.state.date \in Nat
        BY ClockType, NewStateFields, <2>a DEF UsageState
      <4>3. state' = disk.state
        BY <3>1, <3>2, <4>1, <4>2 DEF LoadedState
      <4> QED
        BY <3>2, <4>3
    <3> QED
      BY <3>1, <3>2
  <2>2. CASE Stop
    <3>1. disk' = disk \/ disk' = FileOf(state)
      BY <2>2 DEF Stop, Save, storage
    <3> QED
      BY <2>2, <2>a, <2>b, <3>1 DEF Stop
  <2>3. CASE Crash
    BY <2>3 DEF Crash, storage
  <2>4. CASE TickInRecovery
    <3>1. disk' = disk \/ disk' = FileOf(state)
      BY <2>4 DEF TickInRecovery
    <3>2. recovery' = "none" => disk' = FileOf(state)
      BY <2>4 DEF TickInRecovery
    <3> QED
      BY <2>4, <2>a, <2>b, <3>1, <3>2 DEF TickInRecovery
  <2>5. CASE TickRollback
    BY <2>5 DEF TickRollback, EnterRecovery
  <2>6. ASSUME NEW using \in BOOLEAN, NEW running \in SUBSET Apps, BeginTick(using, running)
        PROVE  FileInv'
    BY <2>6 DEF BeginTick, storage
  <2>7. CASE AccountBreak
    BY <2>7 DEF AccountBreak, storage
  <2>8. CASE AccountCharge
    BY <2>8 DEF AccountCharge, storage
  <2>9. CASE AccountDone
    BY <2>9 DEF AccountDone, storage
  <2>10. CASE FinishTick
    BY <2>10, <2>c DEF FinishTick
  <2>11. CASE Reload
    BY <2>11 DEF Reload, storage
  <2>12. CASE ResetUser
    <3>1. state' = NewState(state.date) /\ Save(state')
      BY <2>12 DEF ResetUser
    <3> QED
      BY <2>c, <3>1
  <2>13. ASSUME NEW a \in Apps, ResetApp(a) PROVE FileInv'
    <3>1. Save(state')
      BY <2>13 DEF ResetApp
    <3> QED
      BY <2>c, <3>1
  <2>14. CASE RecoverState
    BY <2>14, <2>a, <2>b DEF RecoverState
  <2>15. CASE RecoverStateFails
    <3>1. disk' = disk \/ disk' = NoFile \/ disk' = FileOf(Recovered)
      BY <2>15 DEF RecoverStateFails
    <3>2. recovery' # "none"
      BY <2>15 DEF RecoverStateFails
    <3> QED
      BY <2>b, <3>1, <3>2, LoadType DEF NoFile
  <2>16. CASE Advance
    BY <2>16 DEF Advance, memory, storage
  <2>17. CASE StepClock
    BY <2>17 DEF StepClock, memory, storage
  <2>18. CASE UNCHANGED vars
    BY <2>18 DEF vars, memory, storage
  <2> QED
    BY <2>1, <2>2, <2>3, <2>4, <2>5, <2>6, <2>7, <2>8, <2>9, <2>10, <2>11,
       <2>12, <2>13, <2>14, <2>15, <2>16, <2>17, <2>18
    DEF Next, TickStep, Command
<1>3. FileInv => SavedBeforeRelease
  BY DEF FileInv
<1> QED
  BY <1>1, <1>2, <1>3, TypeCorrect, PTL DEF Spec

-----------------------------------------------------------------------------
(* The range of the counters *)

\* The continuous allowance of the configurations, when they have but one.
Continuous == (CHOOSE c \in Configs : TRUE).continuous
OneContinuous == \A c \in Configs : c.continuous = Continuous

\* Every counter of a state is in its range.
InRange(s) == /\ 0 <= s.device /\ s.device <= MaxSeconds
              /\ 0 <= s.continuous /\ s.continuous < Continuous
              /\ \A a \in Apps : 0 <= s.apps[a] /\ s.apps[a] <= s.device

\* What the running tick has counted may still be added to every application.
RangeInv ==
  /\ InRange(state) /\ InRange(disk.state)
  /\ tick.counted >= 0
  /\ pc \in {"idle", "down"} => tick = NoTick
  /\ \A a \in Apps : state.apps[a] + tick.counted <= state.device

\* The configuration in force, and its bounds.
LEMMA ConfigRange ==
  ASSUME TypeOK, OneContinuous
  PROVE  /\ cfg \in Configs /\ cfg.continuous \in Nat \ {0} /\ cfg.device \in Nat \ {0}
         /\ cfg.continuous = Continuous
         /\ cfg.device <= MaxSeconds /\ cfg.continuous <= MaxSeconds /\ MaxSeconds \in Nat
  BY ConfigAssumption, UnitsAssumption DEF TypeOK, Config, OneContinuous

\* The fields of a state are numbers.
LEMMA StateNumbers ==
  ASSUME NEW s \in UsageState
  PROVE  /\ s.device \in Int /\ s.continuous \in Int
         /\ \A a \in Apps : s.apps[a] \in Int
  BY DEF UsageState

\* A fresh state is in range, with nothing an application could be ahead of.
LEMMA NewStateRange ==
  ASSUME TypeOK, OneContinuous
  PROVE  \A d \in Nat : /\ InRange(NewState(d))
                        /\ \A a \in Apps : NewState(d).apps[a] = 0
                        /\ NewState(d).device = 0
  BY ConfigRange DEF InRange, NewState

\* Ending a break, and writing a state, keep it in range.
LEMMA SameRange ==
  ASSUME TypeOK, OneContinuous, NEW s \in UsageState, InRange(s)
  PROVE  InRange(EndBreak(s)) /\ InRange(FileOf(s).state)
  BY SameCounter, StateFields, ConfigRange DEF InRange

\* A state in range loads.
LEMMA RangeLoads ==
  ASSUME TypeOK, OneContinuous, NEW s \in UsageState, InRange(s)
  PROVE  Loadable(s)
  BY StateNumbers, ConfigRange DEF InRange, Loadable

\* A step of the loop charges at least a second, and no more than is left of
\* the continuous allowance.
LEMMA ChargePositive ==
  ASSUME TypeOK, OneContinuous, InRange(state), AccountCharge
  PROVE  /\ Charge >= 1
         /\ state.continuous + Charge <= cfg.continuous
         /\ state.device + Charge <= cfg.device
<1>1. Whole > 0 /\ state.device < cfg.device
  BY DEF AccountCharge, Chargeable
<1>2. state.device \in Int /\ state.continuous \in Int
  BY StateNumbers DEF TypeOK
<1> QED
  BY <1>1, <1>2, ChargeType, ConfigRange DEF InRange, Charge, Least

\* The invariant of the loop: what is charged to the device can be added to the
\* applications later.
LEMMA ChargeKeepsRange ==
  ASSUME TypeOK, OneContinuous, RangeInv, AccountCharge
  PROVE  /\ InRange(state') /\ tick'.counted >= 0
         /\ \A a \in Apps : state'.apps[a] + tick'.counted <= state'.device
<1>1. /\ Charge >= 1 /\ Charge \in Int
      /\ state.continuous + Charge <= cfg.continuous
      /\ state.device + Charge <= cfg.device
  BY ChargePositive, ChargeType DEF RangeInv
<1>2. tick'.counted = tick.counted + Charge /\ tick.counted \in Int
  BY DEF AccountCharge, TypeOK, TickLocals
<1>3. state \in UsageState /\ Charged \in UsageState
  BY ChargedType DEF TypeOK
<1>4. /\ Charged.device = state.device + Charge
      /\ Charged.continuous = state.continuous + Charge
      /\ Charged.apps = state.apps
  BY <1>3 DEF UsageState, Charged
<1>5. /\ WithBreak.device = Charged.device /\ WithBreak.continuous = 0
      /\ WithBreak.apps = Charged.apps
  BY <1>3 DEF UsageState, WithBreak
<1>6. /\ state'.device = state.device + Charge /\ state'.apps = state.apps
      /\ 0 <= state'.continuous /\ state'.continuous < Continuous
  <2>1. state' = IF Charged.continuous >= cfg.continuous THEN WithBreak ELSE Charged
    BY DEF AccountCharge, Charged, WithBreak
  <2>2. state.continuous \in Int /\ 0 <= state.continuous
    BY <1>3, StateNumbers DEF RangeInv, InRange
  <2> QED
    BY <1>1, <1>4, <1>5, <2>1, <2>2, ConfigRange
<1>7. state.device \in Int /\ \A a \in Apps : state.apps[a] \in Int
  BY <1>3, StateNumbers
<1> QED
  BY <1>1, <1>2, <1>6, <1>7, ConfigRange DEF RangeInv, InRange

\* So do the applications' shares at the end of the tick.
LEMMA FinishKeepsRange ==
  ASSUME TypeOK, OneContinuous, RangeInv, FinishTick
  PROVE  InRange(state')
<1>1. AfterAccess \in UsageState /\ InRange(AfterAccess)
      /\ AfterAccess.apps = state.apps /\ AfterAccess.device = state.device
  BY EndBreakType, SameRange, SameCounter, StateFields DEF AfterAccess, TypeOK, RangeInv
<1>2. state' = WithApps(AfterAccess)
  BY DEF FinishTick
<1>3. /\ state'.device = state.device /\ state'.continuous = AfterAccess.continuous
      /\ \A a \in Apps : state'.apps[a] = state.apps[a] +
           (IF a \in tick.apps \cap prevApps THEN tick.counted ELSE 0)
  BY <1>1, <1>2, SameCounter, StateFields
<1>4. /\ tick.counted \in Int /\ state.device \in Int
      /\ \A a \in Apps : state.apps[a] \in Int
  BY StateNumbers DEF TypeOK, TickLocals
<1> QED
  BY <1>1, <1>3, <1>4 DEF RangeInv, InRange

\* After a save the file is in range, whether it failed or not.
LEMMA FileRange ==
  ASSUME TypeOK, OneContinuous, NEW s \in UsageState, InRange(s), InRange(disk.state),
         disk' \in {disk, NoFile, FileOf(s)}
  PROVE  InRange(disk'.state)
<1>1. InRange(NoFile.state)
  BY NewStateRange DEF NoFile
<1> QED
  BY <1>1, SameRange

\* Every counter stays in its range.
LEMMA RangeHolds == ASSUME OneContinuous PROVE Spec => []RangeInv
<1>1. Init => RangeInv
  <2> SUFFICES ASSUME Init PROVE RangeInv
    OBVIOUS
  <2>1. TypeOK
    BY TypeCorrectInit
  <2> QED
    BY <2>1, NewStateRange DEF Init, RangeInv, NoFile, NoTick
<1>2. TypeOK /\ TypeOK' /\ RangeInv /\ [Next]_vars => RangeInv'
  <2> SUFFICES ASSUME TypeOK, TypeOK', RangeInv, [Next]_vars PROVE RangeInv'
    OBVIOUS
  <2> USE OneContinuous
  <2>a. state \in UsageState /\ state' \in UsageState /\ disk.state \in UsageState
    BY DEF TypeOK, UsageFile
  <2>b. InRange(state) /\ InRange(disk.state) /\ NoTick.counted = 0
    BY DEF RangeInv, NoTick
  \* Enough for the steps that hold no tick.
  <2>c. ASSUME InRange(state'), disk' \in {disk, NoFile, FileOf(state), FileOf(state')},
               tick' = NoTick
        PROVE  RangeInv'
    <3>1. InRange(disk'.state)
      BY <2>a, <2>b, <2>c, FileRange
    <3>2. \A a \in Apps : state'.apps[a] + 0 <= state'.device
      BY <2>a, <2>c, StateNumbers DEF InRange
    <3> QED
      BY <2>b, <2>c, <3>1, <3>2 DEF RangeInv
  <2>d. InRange(NewState(0)) /\ InRange(NewState(Today)) /\ InRange(LoadedState)
        /\ InRange(Recovered)
    BY <2>b, NewStateRange, ClockType DEF LoadedState, Recovered
  <2>e. pc \in {"idle", "down"} => tick = NoTick
    BY DEF RangeInv
  <2>1. CASE Start
    BY <2>1, <2>c, <2>d, <2>e DEF Start, storage
  <2>2. CASE Stop
    BY <2>2, <2>c, <2>d DEF Stop, Save, Forget, storage
  <2>3. CASE Crash
    BY <2>3, <2>c, <2>d DEF Crash, Forget, storage
  <2>4. CASE TickInRecovery
    BY <2>4, <2>b, <2>c, <2>e DEF TickInRecovery
  <2>5. CASE TickRollback
    BY <2>5, <2>b, <2>c, <2>e DEF TickRollback
  <2>6. ASSUME NEW using \in BOOLEAN, NEW running \in SUBSET Apps, BeginTick(using, running)
        PROVE  RangeInv'
    <3>1. InRange(state') /\ disk' = disk /\ tick'.counted = 0
      BY <2>6, <2>b, <2>d DEF BeginTick, storage
    <3>2. \A a \in Apps : state'.apps[a] + 0 <= state'.device
      BY <2>a, <3>1, StateNumbers DEF InRange
    <3>3. pc' \notin {"idle", "down"}
      BY <2>6 DEF BeginTick
    <3> QED
      BY <2>b, <3>1, <3>2, <3>3 DEF RangeInv
  <2>7. CASE AccountBreak
    <3>1. state' \in {state, EndBreak(state)} /\ disk' = disk
      BY <2>7 DEF AccountBreak, storage
    <3>2. InRange(state') /\ state'.apps = state.apps /\ state'.device = state.device
      BY <2>a, <2>b, <3>1, SameRange, SameCounter, StateFields
    <3>3. tick'.counted = tick.counted /\ pc' \notin {"idle", "down"}
      BY <2>7 DEF AccountBreak, TypeOK, TickLocals
    <3> QED
      BY <2>b, <3>1, <3>2, <3>3 DEF RangeInv
  <2>8. CASE AccountCharge
    <3>1. disk' = disk /\ pc' \notin {"idle", "down"}
      BY <2>8 DEF AccountCharge, storage
    <3> QED
      BY <2>8, <2>b, <3>1, ChargeKeepsRange DEF RangeInv
  <2>9. CASE AccountDone
    BY <2>9 DEF AccountDone, memory, storage, RangeInv
  <2>10. CASE FinishTick
    <3>1. Save(state') /\ tick' = NoTick
      BY <2>10 DEF FinishTick
    <3> QED
      BY <2>10, <2>c, <3>1, FinishKeepsRange DEF Save
  <2>11. CASE Reload
    BY <2>11, <2>b, <2>c, <2>e DEF Reload, storage
  <2>12. CASE ResetUser
    <3>1. state' = NewState(state.date) /\ Save(state') /\ tick' = tick /\ pc = "idle"
      BY <2>12 DEF ResetUser
    <3>2. InRange(state')
      BY <2>a, <3>1, NewStateRange DEF UsageState
    <3> QED
      BY <2>c, <2>e, <3>1, <3>2 DEF Save
  <2>13. ASSUME NEW a \in Apps, ResetApp(a) PROVE RangeInv'
    <3>1. state' = [state EXCEPT !.apps[a] = 0] /\ Save(state') /\ tick' = tick /\ pc = "idle"
      BY <2>13 DEF ResetApp
    <3>2. /\ state'.device = state.device /\ state'.continuous = state.continuous
          /\ \A b \in Apps : state'.apps[b] = IF b = a THEN 0 ELSE state.apps[b]
      BY <2>a, <3>1 DEF UsageState
    <3>3. InRange(state')
      BY <2>a, <2>b, <3>2, StateNumbers DEF InRange
    <3> QED
      BY <2>c, <2>e, <3>1, <3>3 DEF Save
  <2>14. CASE RecoverState
    BY <2>14, <2>c, <2>d, <2>e DEF RecoverState
  <2>15. CASE RecoverStateFails
    <3>1. /\ state' \in {state, Recovered} /\ pc = "idle" /\ tick' = tick
          /\ disk' \in {disk, NoFile, FileOf(Recovered)}
      BY <2>15 DEF RecoverStateFails
    <3>2. InRange(disk'.state)
      BY <2>a, <2>b, <2>d, <3>1, LoadType, FileRange
    <3>3. \A a \in Apps : state'.apps[a] + 0 <= state'.device
      BY <2>a, <2>b, <2>d, <3>1, StateNumbers DEF InRange
    <3> QED
      BY <2>b, <2>d, <2>e, <3>1, <3>2, <3>3 DEF RangeInv
  <2>16. CASE Advance
    BY <2>16 DEF Advance, memory, storage, RangeInv
  <2>17. CASE StepClock
    BY <2>17 DEF StepClock, memory, storage, RangeInv
  <2>18. CASE UNCHANGED vars
    BY <2>18 DEF vars, memory, storage, RangeInv
  <2> QED
    BY <2>1, <2>2, <2>3, <2>4, <2>5, <2>6, <2>7, <2>8, <2>9, <2>10, <2>11,
       <2>12, <2>13, <2>14, <2>15, <2>16, <2>17, <2>18
    DEF Next, TickStep, Command
<1> QED
  BY <1>1, <1>2, TypeCorrect, PTL DEF Spec

\* While reloads leave the continuous allowance alone, every usage.json the
\* daemon writes loads again.
THEOREM EveryFileLoads == ASSUME OneContinuous PROVE Spec => []SavedStateLoads
<1>1. TypeOK /\ RangeInv => SavedStateLoads
  <2> SUFFICES ASSUME TypeOK, RangeInv PROVE Loadable(disk.state)
    BY DEF SavedStateLoads
  <2>1. disk.state \in UsageState
    BY DEF TypeOK, UsageFile
  <2> QED
    BY <2>1, OneContinuous, RangeLoads DEF RangeInv
<1> QED
  BY <1>1, OneContinuous, RangeHolds, TypeCorrect, PTL

\* Then no application is ever ahead of the device, in memory, in the middle of
\* a tick, or in the file that a crash leaves behind.
THEOREM NoApplicationAhead == ASSUME OneContinuous PROVE Spec => []AppsWithinDevice
<1>1. RangeInv => AppsWithinDevice
  BY DEF RangeInv, InRange, AppsWithinDevice
<1> QED
  BY <1>1, OneContinuous, RangeHolds, PTL

-----------------------------------------------------------------------------
(* What a crash forgets *)

\* No suspension and no adjustment of the wall clock makes the daemon see time
\* that its monotonic clock did not: the clocks run together, or the wall clock
\* is only ever set back and no window of allowed hours is compared with it.
AllDayOnly == \A c \in Configs : c.allDay
NoTimeSkipped == \/ ClockSteps = {}
                 \/ AllDayOnly /\ \A d \in ClockSteps : d <= 0

\* An instant that was read before the wall clock was last set back is as far,
\* or farther, ahead of the monotonic clock than one that is read now.
Old(t) == t.hasMono => /\ t.wall - t.mono >= wall - mono
                       /\ ClockSteps = {} => t.wall - t.mono = wall - mono

\* The instants the daemon remembers.  A break that starts at the end of a
\* charge has a monotonic reading only if the instant of the charge has one.
OldInv == /\ Old(lastTick) /\ Old(state.until) /\ Old(tick.from)
          /\ pc # "down" => lastTick.hasMono
          /\ ~disk.state.until.hasMono
          /\ pc = "account" =>
               /\ tick.upto.hasMono => tick.upto.wall - tick.upto.mono = wall - mono
               /\ AllDayOnly => /\ tick.upto.hasMono
                                /\ state.onBreak /\ state.until.hasMono => tick.from.hasMono

\* What a tick has charged and what it may still charge are within the cap.
CapInv == /\ pc = "account" => /\ tick.counted * Second + Sub(tick.upto, tick.from) <= Longest
                               /\ Sub(tick.upto, tick.from) >= 0
          /\ pc = "finish" => tick.counted * Second <= Longest

\* The file of the day lacks what the running tick counted and, outside a tick,
\* what one tick counted before recovery stopped the accounting.
LossInv ==
  /\ pc # "down" /\ recovery = "none" /\ disk.present => disk.state.date <= state.date
  /\ pc \in {"account", "finish"} =>
       /\ recovery = "none"
       /\ disk.present /\ disk.state.date = state.date
            => state.device - disk.state.device <= tick.counted
  /\ pc = "idle" /\ disk.present /\ disk.state.date = state.date
       => \E c \in Configs : state.device - disk.state.device <= 2 * c.poll

\* Moving an instant keeps its distance to the monotonic clock.
LEMMA OldPlus ==
  ASSUME NEW t \in Instant, NEW d \in Int
  PROVE  /\ Old(t) => Old(Plus(t, d))
         /\ Plus(t, d).hasMono = t.hasMono
         /\ Plus(t, d) \in Instant
         /\ \A u \in Instant : Sub(u, Plus(t, d)) = Sub(u, t) - d
<1> DEFINE p == Plus(t, d)
<1>1. /\ p.hasMono = t.hasMono /\ p.wall = t.wall + d
      /\ p.mono = IF t.hasMono THEN t.mono + d ELSE t.mono
      /\ p \in Instant
  BY DEF Instant, Plus
<1>2. t.wall \in Int /\ t.mono \in Int
  BY DEF Instant
<1>3. ASSUME Old(t) PROVE Old(p)
  <2> HIDE DEF p
  <2>1. t.hasMono => p.wall - p.mono = t.wall - t.mono
    BY <1>1, <1>2
  <2> QED
    BY <1>1, <1>3, <2>1 DEF Old
<1>4. ASSUME NEW u \in Instant PROVE Sub(u, p) = Sub(u, t) - d
  <2> HIDE DEF p
  <2> QED
    BY <1>1, <1>2 DEF Sub, Instant
<1> QED
  BY <1>1, <1>3, <1>4

\* An instant of the present, and one without a monotonic reading.
LEMMA OldNow ==
  ASSUME TypeOK
  PROVE  /\ Old(now) /\ now.hasMono /\ now.wall - now.mono = wall - mono
         /\ \A w \in Int : Old(WallOnly(w)) /\ ~WallOnly(w).hasMono
         /\ Old(NoInstant) /\ ~NoInstant.hasMono
<1>1. now.wall = wall /\ now.mono = mono /\ now.hasMono
  BY DEF now, Reading
<1>2. wall \in Int /\ mono \in Int
  BY DEF TypeOK
<1>3. Old(now)
  BY <1>1, <1>2 DEF Old
<1> QED
  BY <1>1, <1>3 DEF Old, WallOnly, NoInstant

\* Skipping a break leaves no more to charge: the wall clock shows no time
\* between two instants that the monotonic clock does not show.
LEMMA BreakShortens ==
  ASSUME TypeOK, NoTimeSkipped,
         NEW from \in Instant, NEW until \in Instant, NEW upto \in Instant,
         Old(from), Old(until),
         upto.hasMono => upto.wall - upto.mono = wall - mono,
         AllDayOnly => upto.hasMono /\ (until.hasMono => from.hasMono),
         Before(from, until), Before(until, upto)
  PROVE  Sub(upto, until) <= Sub(upto, from) /\ Sub(upto, until) >= 0
<1>1. wall \in Int /\ mono \in Int
  BY DEF TypeOK
<1>2. CASE ClockSteps = {}
  BY <1>1, <1>2 DEF Old, Before, Sub, Instant
<1>3. CASE AllDayOnly
  BY <1>1, <1>3 DEF Old, Before, Sub, Instant
<1> QED
  BY <1>2, <1>3 DEF NoTimeSkipped

\* The cap of tick.
LEMMA ChargeFromCapped ==
  ASSUME TypeOK, OldInv, pc = "idle"
  PROVE  /\ ChargeFrom \in Instant /\ Old(ChargeFrom)
         /\ Sub(now, ChargeFrom) <= Longest
         /\ ~ChargeFrom.hasMono => state.date < Today
<1> DEFINE today == IF state.date < Today /\ Before(lastTick, Midnight)
                    THEN Midnight ELSE lastTick
           notNew == IF Before(now, today) THEN now ELSE today
<1>1. /\ now \in Instant /\ Midnight \in Instant /\ lastTick \in Instant
      /\ Longest \in Int
  BY ClockType, UnitsAssumption, ConfigAssumption DEF TypeOK, Longest, Config
<1>2. /\ Old(now) /\ now.hasMono /\ Old(Midnight) /\ ~Midnight.hasMono
      /\ Old(lastTick) /\ lastTick.hasMono
  <2>1. Today * Day \in Int
    BY ClockType, UnitsAssumption
  <2> QED
    BY <2>1, OldNow DEF Midnight, OldInv
<1>3. /\ notNew \in Instant /\ Old(notNew)
      /\ ~notNew.hasMono => state.date < Today
  <2>1. /\ today \in Instant /\ Old(today)
        /\ ~today.hasMono => state.date < Today
    BY <1>1, <1>2
  <2> HIDE DEF today
  <2> QED
    BY <1>1, <1>2, <2>1
<1>4. /\ Plus(now, -Longest) \in Instant /\ Old(Plus(now, -Longest))
      /\ Plus(now, -Longest).hasMono
      /\ Sub(now, Plus(now, -Longest)) = Longest
  <2> DEFINE back == -Longest
  <2>1. back \in Int
    BY <1>1
  <2>2. Sub(now, now) = 0
    BY <1>1 DEF Sub, Instant
  <2>3. /\ Plus(now, back) \in Instant /\ Old(Plus(now, back))
        /\ Plus(now, back).hasMono
        /\ Sub(now, Plus(now, back)) = Sub(now, now) - back
    <3> HIDE DEF back
    <3> QED
      BY <1>1, <1>2, <2>1, OldPlus
  <2>4. Sub(now, now) - back = Longest
    BY <1>1, <2>2
  <2> QED
    BY <2>3, <2>4
<1>5. Sub(now, notNew) \in Int
  BY <1>1, <1>3, InstantType
<1>6. ChargeFrom = IF Sub(now, notNew) > Longest THEN Plus(now, -Longest) ELSE notNew
  BY DEF ChargeFrom
<1> HIDE DEF notNew
<1> QED
  BY <1>1, <1>3, <1>4, <1>5, <1>6

\* The part of the interval inside the allowed hours is no longer than the
\* interval.
LEMMA IntervalCapped ==
  ASSUME TypeOK, NoTimeSkipped, NEW from \in Instant, Old(from)
  PROVE  LET i == AccountingInterval(from, now, cfg)
         IN  /\ Old(i.from) /\ i.from \in Instant /\ i.upto \in Instant
             /\ i.upto.hasMono => i.upto.wall - i.upto.mono = wall - mono
             /\ AllDayOnly => i.from = from /\ i.upto = now
             /\ i.eligible => /\ Sub(i.upto, i.from) <= Sub(now, from)
                              /\ Sub(i.upto, i.from) >= 0
<1> DEFINE dayStart == (now.wall \div Day) * Day
           opens == WallOnly(dayStart + cfg.from)
           closes == WallOnly(dayStart + cfg.until)
           first == IF ~cfg.allDay /\ Before(from, opens) THEN opens ELSE from
           last == IF ~cfg.allDay /\ Before(closes, now) THEN closes ELSE now
<1>1. /\ now \in Instant /\ cfg \in Config /\ cfg \in Configs
      /\ wall \in Int /\ mono \in Int
  BY ClockType, ConfigAssumption DEF TypeOK
<1>2. dayStart + cfg.from \in Int /\ dayStart + cfg.until \in Int
  <2>1. dayStart \in Int
    BY <1>1, DivLower, UnitsAssumption DEF Instant
  <2>2. cfg.from \in Int /\ cfg.until \in Int
    BY <1>1 DEF Config
  <2> HIDE DEF dayStart
  <2> QED
    BY <2>1, <2>2
<1>3. /\ opens \in Instant /\ Old(opens) /\ ~opens.hasMono
      /\ closes \in Instant /\ ~closes.hasMono
      /\ Old(now) /\ now.hasMono /\ now.wall - now.mono = wall - mono
  <2> HIDE DEF dayStart
  <2> QED
    BY <1>2, InstantType, OldNow
<1>4. /\ first \in Instant /\ Old(first) /\ last \in Instant
      /\ last.hasMono => last.wall - last.mono = wall - mono
  <2> HIDE DEF opens, closes
  <2> QED
    BY <1>1, <1>3
<1>5. AllDayOnly => first = from /\ last = now
  BY <1>1 DEF AllDayOnly
<1>6. Before(first, last) => /\ Sub(last, first) <= Sub(now, from)
                             /\ Sub(last, first) >= 0
  <2> HIDE DEF opens, closes
  <2>1. ASSUME Before(first, last) PROVE Sub(last, first) >= 0
    <3> HIDE DEF first, last
    <3> QED
      BY <1>4, <2>1 DEF Before, Sub, Instant
  <2>2. CASE ClockSteps = {}
    <3>1. first.wall >= from.wall /\ last.wall <= now.wall
      BY <1>1, <1>3, <2>2 DEF Before, Sub, Instant, Old
    <3>2. Sub(last, first) = last.wall - first.wall /\ Sub(now, from) = now.wall - from.wall
      <4> HIDE DEF first, last
      <4> QED
        BY <1>1, <1>3, <1>4, <2>2 DEF Sub, Instant, Old
    <3>3. first.wall \in Int /\ last.wall \in Int /\ from.wall \in Int /\ now.wall \in Int
      <4> HIDE DEF first, last
      <4> QED
        BY <1>1, <1>4 DEF Instant
    <3> HIDE DEF first, last
    <3> QED
      BY <2>1, <3>1, <3>2, <3>3
  <2>3. CASE AllDayOnly
    <3>1. Sub(last, first) = Sub(now, from) /\ Sub(now, from) \in Int
      BY <1>1, <1>5, <2>3, InstantType
    <3> HIDE DEF first, last
    <3> QED
      BY <2>1, <3>1
  <2> QED
    BY <2>2, <2>3 DEF NoTimeSkipped
<1>7. /\ AccountingInterval(from, now, cfg).from = first
      /\ AccountingInterval(from, now, cfg).upto = last
      /\ AccountingInterval(from, now, cfg).eligible => Before(first, last)
  BY DEF AccountingInterval
<1> HIDE DEF first, last
<1> QED
  BY <1>4, <1>5, <1>6, <1>7

\* The types of what the loop computes with.
LEMMA LoopTypes ==
  ASSUME TypeOK
  PROVE  /\ tick.from \in Instant /\ tick.upto \in Instant /\ tick.counted \in Int
         /\ state.until \in Instant /\ state \in UsageState
         /\ Charge \in Int /\ Charge * Second \in Int
         /\ tick.counted * Second \in Int
         /\ Sub(tick.upto, tick.from) \in Int
         /\ Longest \in Int /\ Longest >= 0
<1>1. /\ tick.from \in Instant /\ tick.upto \in Instant /\ tick.counted \in Int
      /\ state.until \in Instant /\ state \in UsageState
  BY DEF TypeOK, TickLocals, UsageState
<1>2. cfg.poll \in Nat
  BY ConfigAssumption DEF TypeOK, Config
<1>3. Longest \in Int /\ Longest >= 0
  BY <1>2, UnitsAssumption DEF Longest
<1>4. Charge * Second \in Int /\ tick.counted * Second \in Int
  BY <1>1, ChargeType, UnitsAssumption
<1> QED
  BY <1>1, <1>3, <1>4, ChargeType, InstantType

\* The invariant of the loop is kept by a charge,
LEMMA ChargeKeepsCap ==
  ASSUME TypeOK, OldInv, CapInv, AccountCharge
  PROVE  OldInv' /\ CapInv'
<1> DEFINE from == Plus(tick.from, Charge * Second)
<1>1. /\ tick.from \in Instant /\ tick.upto \in Instant /\ tick.counted \in Int
      /\ state.until \in Instant
      /\ Charge \in Int /\ Charge * Second \in Int
      /\ Old(tick.from) /\ Sub(tick.upto, tick.from) \in Int
      /\ tick.counted * Second \in Int
  BY LoopTypes DEF OldInv
<1>2. /\ pc = "account" /\ pc' = "account"
      /\ UNCHANGED <<wall, mono, cfg, lastTick, disk>>
      /\ state' \in {Charged, WithBreak}
  BY DEF AccountCharge, Charged, WithBreak, clock, storage
<1>3. /\ tick'.from = from /\ tick'.upto = tick.upto
      /\ tick'.counted = tick.counted + Charge
  BY DEF AccountCharge, TypeOK, TickLocals
<1>4. /\ from \in Instant /\ Old(from) /\ from.hasMono = tick.from.hasMono
      /\ Sub(tick.upto, from) = Sub(tick.upto, tick.from) - Charge * Second
  BY <1>1, OldPlus
<1>5. cfg.break * Second \in Int
  BY UnitsAssumption, ConfigAssumption DEF TypeOK, Config
<1>6. /\ Charged.until = state.until /\ Charged.onBreak = state.onBreak
      /\ WithBreak.until = Plus(from, cfg.break * Second)
  BY ChargedType DEF Charged, WithBreak, TypeOK, UsageState
<1>7. /\ Old(Plus(from, cfg.break * Second))
      /\ Plus(from, cfg.break * Second).hasMono = from.hasMono
  <2> HIDE DEF from
  <2> QED
    BY <1>4, <1>5, OldPlus
<1> HIDE DEF from
<1>8. /\ Old(state'.until)
      /\ AllDayOnly => (state'.onBreak /\ state'.until.hasMono => from.hasMono)
  BY <1>2, <1>4, <1>6, <1>7 DEF OldInv
<1>9. OldInv'
  BY <1>2, <1>3, <1>4, <1>8 DEF OldInv, Old, AllDayOnly
<1>10. tick'.counted * Second = tick.counted * Second + Charge * Second
  BY <1>1, <1>3, MulPlus, UnitsAssumption
<1>11. Charge * Second <= Sub(tick.upto, tick.from)
  <2>1. Charge <= Whole /\ Whole \in Int /\ Whole * Second <= Sub(tick.upto, tick.from)
    BY <1>1, ChargeType, ChargedFields, DivLower, UnitsAssumption DEF Whole
  <2>2. Charge * Second <= Whole * Second /\ Whole * Second \in Int
    BY <1>1, <2>1, MulMonotone, UnitsAssumption
  <2> QED
    BY <1>1, <2>1, <2>2
<1>12. Longest \in Int /\ Longest' = Longest
  BY <1>2, UnitsAssumption, ConfigAssumption DEF TypeOK, Longest, Config
<1>13. CapInv'
  BY <1>1, <1>2, <1>3, <1>4, <1>10, <1>11, <1>12 DEF CapInv
<1> QED
  BY <1>9, <1>13

\* and by a break that is skipped.
LEMMA BreakKeepsCap ==
  ASSUME TypeOK, NoTimeSkipped, OldInv, CapInv, AccountBreak
  PROVE  OldInv' /\ CapInv'
<1>1. /\ tick.from \in Instant /\ tick.upto \in Instant /\ tick.counted \in Int
      /\ state.until \in Instant /\ state \in UsageState
      /\ tick.counted * Second \in Int /\ Sub(tick.upto, tick.from) \in Int
      /\ Longest \in Int
  BY LoopTypes
<1>2. /\ pc = "account" /\ state.onBreak
      /\ UNCHANGED <<wall, mono, cfg, lastTick, disk>>
  BY DEF AccountBreak, clock, storage
<1>3. Longest' = Longest
  BY <1>2 DEF Longest
<1>4. CASE UNCHANGED <<state, tick>> /\ pc' = "finish"
  <2>1. tick.counted * Second <= Longest
    BY <1>1, <1>2 DEF CapInv
  <2> QED
    BY <1>2, <1>3, <1>4, <2>1 DEF OldInv, CapInv, Old
<1>5. CASE /\ state' = EndBreak(state) /\ pc' = pc
           /\ tick' = [tick EXCEPT !.from =
                          IF Before(tick.from, state.until) THEN state.until ELSE @]
           /\ Before(tick.from, state.until) => Before(state.until, tick.upto)
  <2>1. /\ tick'.upto = tick.upto /\ tick'.counted = tick.counted
        /\ tick'.from = IF Before(tick.from, state.until) THEN state.until ELSE tick.from
    BY <1>5 DEF TypeOK, TickLocals
  <2>2. state'.until = NoInstant /\ ~state'.onBreak
    BY <1>1, <1>5 DEF UsageState, EndBreak
  <2>3. /\ Old(tick'.from)
        /\ Sub(tick.upto, tick'.from) <= Sub(tick.upto, tick.from)
        /\ Sub(tick.upto, tick'.from) >= 0
    <3>1. CASE Before(tick.from, state.until)
      BY <1>1, <1>2, <1>5, <2>1, <3>1, BreakShortens DEF OldInv
    <3>2. CASE ~Before(tick.from, state.until)
      BY <1>1, <1>2, <2>1, <3>2 DEF OldInv, CapInv
    <3> QED
      BY <3>1, <3>2
  <2>4. Sub(tick.upto, tick'.from) \in Int
    BY <1>1, <2>1, InstantType
  <2>5. Old(NoInstant)
    BY OldNow
  <2>6. OldInv'
    BY <1>2, <1>5, <2>1, <2>2, <2>3, <2>5 DEF OldInv, Old, AllDayOnly
  <2>7. CapInv'
    BY <1>1, <1>2, <1>3, <1>5, <2>1, <2>3, <2>4 DEF CapInv
  <2> QED
    BY <2>6, <2>7
<1> QED
  BY <1>4, <1>5 DEF AccountBreak

\* A tick begins within the cap.
LEMMA BeginIsCapped ==
  ASSUME TypeOK, TypeOK', NoTimeSkipped, OldInv, CapInv,
         NEW using \in BOOLEAN, NEW running \in SUBSET Apps, BeginTick(using, running)
  PROVE  OldInv' /\ CapInv'
<1> DEFINE i == AccountingInterval(ChargeFrom, now, cfg)
<1>1. pc = "idle" /\ UNCHANGED <<wall, mono, cfg, disk>> /\ lastTick' = now
  BY DEF BeginTick, clock, storage
<1>2. /\ ChargeFrom \in Instant /\ Old(ChargeFrom) /\ Sub(now, ChargeFrom) <= Longest
      /\ ~ChargeFrom.hasMono => state.date < Today
  BY <1>1, ChargeFromCapped
<1>3. /\ Old(i.from) /\ i.from \in Instant /\ i.upto \in Instant
      /\ i.upto.hasMono => i.upto.wall - i.upto.mono = wall - mono
      /\ AllDayOnly => i.from = ChargeFrom /\ i.upto = now
      /\ i.eligible => /\ Sub(i.upto, i.from) <= Sub(now, ChargeFrom)
                       /\ Sub(i.upto, i.from) >= 0
  BY <1>2, IntervalCapped
<1>4. /\ tick'.from = i.from /\ tick'.upto = i.upto /\ tick'.counted = 0
      /\ state' = IF state.date < Today THEN NewState(Today) ELSE state
      /\ pc' \in {"account", "finish"}
      /\ pc' = "account" => i.eligible
  <2> HIDE DEF i
  <2> QED
    BY DEF BeginTick, i
<1> HIDE DEF i
<1>5. /\ NewState(Today).until = NoInstant /\ ~NewState(Today).onBreak
      /\ Old(NoInstant) /\ Old(now) /\ now.hasMono
  BY OldNow DEF NewState
<1>6. Old(state'.until)
  BY <1>4, <1>5 DEF OldInv
<1>7. AllDayOnly => (state'.onBreak => i.from.hasMono)
  BY <1>2, <1>3, <1>4, <1>5
<1>8. OldInv'
  BY <1>1, <1>3, <1>4, <1>5, <1>6, <1>7 DEF OldInv, Old, AllDayOnly
<1>9. /\ Longest \in Int /\ Longest >= 0 /\ Longest' = Longest
      /\ Sub(i.upto, i.from) \in Int /\ Sub(now, ChargeFrom) \in Int
  <2>1. Longest \in Int /\ Longest >= 0 /\ Longest' = Longest
    BY <1>1, UnitsAssumption, ConfigAssumption DEF TypeOK, Longest, Config
  <2> QED
    BY <1>2, <1>3, <2>1, InstantType, ClockType
<1>10. tick'.counted * Second = 0
  BY <1>4, UnitsAssumption
<1>11. CapInv'
  BY <1>2, <1>3, <1>4, <1>9, <1>10 DEF CapInv
<1> QED
  BY <1>8, <1>11

\* The cap holds in every tick.
LEMMA CapHolds == ASSUME NoTimeSkipped PROVE Spec => [](OldInv /\ CapInv)
<1>1. Init => OldInv /\ CapInv
  <2> SUFFICES ASSUME Init PROVE OldInv /\ CapInv
    OBVIOUS
  <2>1. Old(NoInstant) /\ ~NoInstant.hasMono
    BY TypeCorrectInit, OldNow
  <2>2. /\ NewState(0).until = NoInstant /\ NoFile.state.until = NoInstant
        /\ NoTick.from = NoInstant
    BY DEF NewState, NoFile, NoTick
  <2> QED
    BY <2>1, <2>2 DEF Init, OldInv, CapInv
<1>2. TypeOK /\ TypeOK' /\ OldInv /\ CapInv /\ [Next]_vars => OldInv' /\ CapInv'
  <2> SUFFICES ASSUME TypeOK, TypeOK', OldInv, CapInv, [Next]_vars PROVE OldInv' /\ CapInv'
    OBVIOUS
  <2> USE NoTimeSkipped
  <2>a. /\ state \in UsageState /\ state' \in UsageState /\ disk.state \in UsageState
        /\ wall \in Int /\ mono \in Int /\ wall' \in Int /\ mono' \in Int
    BY DEF TypeOK, UsageFile
  <2>b. /\ NewState(0).until = NoInstant /\ NewState(Today).until = NoInstant
        /\ NewState(state.date).until = NoInstant
        /\ NoFile.state.until = NoInstant /\ NoTick.from = NoInstant
        /\ Old(now) /\ now.hasMono /\ Old(NoInstant) /\ ~NoInstant.hasMono
    BY OldNow DEF NewState, NoFile, NoTick
  <2>c. \A s \in UsageState : /\ ~FileOf(s).state.until.hasMono
                              /\ EndBreak(s).until = NoInstant
                              /\ WithApps(s).until = s.until
    BY DEF UsageState, FileOf, Stored, WallOnly, EndBreak, WithApps
  <2>d. Old(LoadedState.until) /\ Old(Recovered.until)
    BY <2>b DEF LoadedState, Recovered, OldInv, Old
  \* Enough for the steps outside the loop that leave the clocks alone.
  <2>e. ASSUME wall' = wall, mono' = mono, Old(state'.until), Old(lastTick'),
               pc' = "down" \/ (pc' = "idle" /\ lastTick'.hasMono),
               tick' = tick \/ tick' = NoTick,
               disk' \in {disk, NoFile, FileOf(state), FileOf(state')}
        PROVE  OldInv' /\ CapInv'
    <3>1. ~disk'.state.until.hasMono
      BY <2>a, <2>b, <2>c, <2>e DEF OldInv
    <3>2. Old(tick'.from)
      BY <2>b, <2>e DEF OldInv
    <3> QED
      BY <2>e, <3>1, <3>2 DEF OldInv, CapInv, Old
  <2>f. Old(state.until) /\ Old(lastTick) /\ (pc = "idle" => lastTick.hasMono)
    BY DEF OldInv
  <2>g. pc # "down" => lastTick.hasMono
    BY DEF OldInv
  <2>1. CASE Start
    BY <2>1, <2>b, <2>d, <2>e DEF Start, storage, clock
  <2>2. CASE Stop
    BY <2>2, <2>b, <2>e DEF Stop, Save, Forget, storage, clock
  <2>3. CASE Crash
    BY <2>3, <2>b, <2>e DEF Crash, Forget, storage, clock
  <2>4. CASE TickInRecovery
    BY <2>4, <2>b, <2>e, <2>f DEF TickInRecovery, clock
  <2>5. CASE TickRollback
    BY <2>5, <2>e, <2>f DEF TickRollback, clock
  <2>6. ASSUME NEW using \in BOOLEAN, NEW running \in SUBSET Apps, BeginTick(using, running)
        PROVE  OldInv' /\ CapInv'
    BY <2>6, BeginIsCapped
  <2>7. CASE AccountBreak
    BY <2>7, BreakKeepsCap
  <2>8. CASE AccountCharge
    BY <2>8, ChargeKeepsCap
  <2>9. CASE AccountDone
    <3>1. /\ pc = "account" /\ pc' = "finish"
          /\ UNCHANGED <<wall, mono, cfg, state, lastTick, disk, tick>>
      BY <2>9 DEF AccountDone, memory, storage, clock
    <3>2. Longest' = Longest
      BY <3>1 DEF Longest
    <3>3. tick.counted * Second <= Longest
      BY <3>1, LoopTypes DEF CapInv
    <3> QED
      BY <3>1, <3>2, <3>3 DEF OldInv, CapInv, Old
  <2>10. CASE FinishTick
    <3>1. /\ AfterAccess \in UsageState /\ Old(AfterAccess.until)
      BY <2>a, <2>b, <2>c, <2>f, EndBreakType DEF AfterAccess
    <3>2. /\ state' = WithApps(AfterAccess) /\ disk' \in {disk, FileOf(state')}
          /\ pc = "finish" /\ pc' = "idle" /\ tick' = NoTick
          /\ UNCHANGED <<wall, mono, lastTick>>
      BY <2>10 DEF FinishTick, Save, clock
    <3>3. Old(state'.until)
      BY <2>c, <3>1, <3>2
    <3> QED
      BY <2>e, <2>f, <2>g, <3>2, <3>3
  <2>11. CASE Reload
    BY <2>11, <2>e, <2>f DEF Reload, storage, clock
  <2>12. CASE ResetUser
    BY <2>12, <2>b, <2>e, <2>f DEF ResetUser, Save, clock
  <2>13. ASSUME NEW a \in Apps, ResetApp(a) PROVE OldInv' /\ CapInv'
    <3>1. state'.until = state.until
      BY <2>13, <2>a DEF ResetApp, UsageState
    <3> QED
      BY <2>13, <2>e, <2>f, <3>1 DEF ResetApp, Save, clock
  <2>14. CASE RecoverState
    BY <2>14, <2>b, <2>d, <2>e DEF RecoverState, clock
  <2>15. CASE RecoverStateFails
    <3>1. state' \in {state, Recovered} /\ disk' \in {disk, NoFile, FileOf(Recovered)}
      BY <2>15 DEF RecoverStateFails
    <3>2. ~disk'.state.until.hasMono
      BY <2>b, <2>c, <3>1, LoadType DEF OldInv
    <3>3. /\ pc = "idle" /\ pc' = "idle" /\ UNCHANGED <<wall, mono, lastTick, tick>>
      BY <2>15 DEF RecoverStateFails, clock
    <3> QED
      BY <2>d, <2>f, <3>1, <3>2, <3>3 DEF OldInv, CapInv, Old
  <2>16. CASE Advance
    <3>1. /\ wall' - mono' = wall - mono /\ pc \notin {"account", "finish"}
          /\ UNCHANGED <<pc, state, lastTick, disk, tick>>
      BY <2>16, <2>a, ClockAssumption DEF Advance, memory, storage
    <3> QED
      BY <3>1 DEF OldInv, CapInv, Old
  <2>17. CASE StepClock
    <3>1. /\ wall' - mono' <= wall - mono /\ pc \notin {"account", "finish"}
          /\ ClockSteps # {}
          /\ UNCHANGED <<pc, state, lastTick, disk, tick>>
      BY <2>17, <2>a, ClockAssumption DEF StepClock, memory, storage, NoTimeSkipped
    <3>2. ASSUME NEW t \in Instant, Old(t), t.hasMono
          PROVE  t.wall - t.mono >= wall' - mono'
      <4>1. t.wall \in Int /\ t.mono \in Int
        BY DEF Instant
      <4>2. t.wall - t.mono >= wall - mono
        BY <3>2 DEF Old
      <4>3. wall' - mono' <= wall - mono
        BY <3>1
      <4>4. wall \in Int /\ mono \in Int /\ wall' \in Int /\ mono' \in Int
        BY <2>a
      <4>5. \A a, b, c, d, e, f \in Int : a - b >= c - d /\ e - f <= c - d => a - b >= e - f
        OBVIOUS
      <4> QED
        BY <4>1, <4>2, <4>3, <4>4, <4>5
    <3>3. lastTick \in Instant /\ state.until \in Instant /\ tick.from \in Instant
      BY LoopTypes DEF TypeOK
    <3> QED
      BY <3>1, <3>2, <3>3 DEF OldInv, CapInv, Old
  <2>18. CASE UNCHANGED vars
    BY <2>18 DEF vars, clock, memory, storage, OldInv, CapInv, Old, Longest
  <2> QED
    BY <2>1, <2>2, <2>3, <2>4, <2>5, <2>6, <2>7, <2>8, <2>9, <2>10, <2>11,
       <2>12, <2>13, <2>14, <2>15, <2>16, <2>17, <2>18
    DEF Next, TickStep, Command
<1> QED
  BY <1>1, <1>2, TypeCorrect, PTL DEF Spec

-----------------------------------------------------------------------------
\* A running tick has counted at most two polls.
LEMMA CountedSoFar ==
  ASSUME TypeOK, CapInv, pc \in {"account", "finish"}
  PROVE  tick.counted <= 2 * cfg.poll
<1>1. tick.counted \in Int /\ cfg.poll \in Int
  BY LoopTypes, ConfigAssumption DEF TypeOK, Config
<1>2. tick.counted * Second <= (2 * cfg.poll) * Second
  BY LoopTypes DEF CapInv, Longest
<1>3. ASSUME tick.counted > 2 * cfg.poll PROVE FALSE
  <2> DEFINE n == 2 * cfg.poll
  <2>1. n \in Int /\ n + 1 \in Int /\ n + 1 <= tick.counted /\ n * Second \in Int
    BY <1>1, <1>3, UnitsAssumption
  <2> HIDE DEF n
  <2>2. (n + 1) * Second = n * Second + 1 * Second
    BY <2>1, MulPlus, UnitsAssumption
  <2>3. (n + 1) * Second <= tick.counted * Second /\ tick.counted * Second \in Int
    BY <1>1, <2>1, MulMonotone, UnitsAssumption
  <2>4. tick.counted * Second <= n * Second
    BY <1>2 DEF n
  <2> QED
    BY <2>1, <2>2, <2>3, <2>4, UnitsAssumption
<1> QED
  BY <1>1, <1>3

\* What a crash may forget.
Forgettable(n) == \E c \in Configs : n <= 2 * c.poll

\* Nothing may always be forgotten.
LEMMA NothingForgettable == \A n \in Int : n <= 0 => Forgettable(n)
  BY ConfigAssumption DEF Forgettable, Config

\* The file of the day, and what it lacks.
OfToday == disk.present /\ disk.state.date = state.date
Lacking == state.device - disk.state.device

\* Between ticks the file of the day lacks nothing while the daemon counts.
LEMMA IdleLacksNothing ==
  ASSUME TypeOK, SavedBeforeRelease, pc = "idle", recovery = "none", OfToday
  PROVE  Lacking = 0 /\ disk.state = FileOf(state).state
<1>1. state \in UsageState /\ disk = FileOf(state)
  BY DEF TypeOK, SavedBeforeRelease, OfToday
<1>2. FileOf(state).state.device = state.device /\ state.device \in Int
  BY <1>1, SameCounter DEF UsageState
<1> QED
  BY <1>1, <1>2 DEF Lacking

\* What a crash would forget is bounded in every state.
LEMMA LossHolds ==
  ASSUME OneContinuous, NoTimeSkipped PROVE Spec => []LossInv
<1>1. Init => LossInv
  BY DEF Init, LossInv
<1>2. TypeOK /\ TypeOK' /\ RangeInv /\ SavedBeforeRelease /\ OldInv /\ CapInv /\ LossInv
        /\ [Next]_vars => LossInv'
  <2> SUFFICES ASSUME TypeOK, TypeOK', RangeInv, SavedBeforeRelease, OldInv, CapInv,
                      LossInv, [Next]_vars
               PROVE  LossInv'
    OBVIOUS
  <2> USE OneContinuous
  <2>a. /\ state \in UsageState /\ state' \in UsageState /\ disk.state \in UsageState
        /\ disk'.state \in UsageState
        /\ state.device \in Int /\ state'.device \in Int
        /\ disk.state.device \in Int /\ disk'.state.device \in Int
        /\ state.date \in Nat /\ disk.state.date \in Nat /\ Today \in Nat
    BY ClockType DEF TypeOK, UsageFile, UsageState
  <2>b. state.device >= 0 /\ disk.state.device >= 0
    BY DEF RangeInv, InRange
  <2>c. \A s \in UsageState : /\ FileOf(s).state.device = s.device
                              /\ FileOf(s).state.date = s.date
    BY SameCounter
  \* Enough when the tick has ended or there is none.
  <2>d. ASSUME pc' = "idle", disk'.present /\ disk'.state.date = state'.date
                               => Forgettable(state'.device - disk'.state.device),
               recovery' = "none" /\ disk'.present => disk'.state.date <= state'.date
        PROVE  LossInv'
    BY <2>d DEF LossInv, Forgettable
  \* A file that holds the state lacks nothing.
  <2>e. ASSUME pc' = "idle", disk' = FileOf(state') PROVE LossInv'
    <3>1. disk'.state.device = state'.device /\ disk'.state.date = state'.date
      BY <2>a, <2>c, <2>e
    <3>2. state'.device - state'.device = 0 /\ state'.date <= state'.date
      BY <2>a DEF UsageState
    <3> QED
      BY <2>d, <2>e, <3>1, <3>2, NothingForgettable
  <2>f. pc = "idle" /\ OfToday => Forgettable(Lacking)
    BY DEF LossInv, OfToday, Lacking, Forgettable
  <2>1. CASE Start
    <3>1. /\ pc' = "idle" /\ disk' = disk /\ state' = LoadedState
          /\ recovery' = LoadedRecovery
      BY <2>1 DEF Start, storage
    <3>2. disk.present => Loadable(disk.state)
      BY <2>a, RangeLoads DEF RangeInv
    <3>3. ASSUME disk.present, disk.state.date = state'.date
          PROVE  state'.device = disk.state.device
      BY <2>a, <3>1, <3>2, <3>3, NewStateFields DEF LoadedState
    <3>4. ASSUME recovery' = "none", disk.present PROVE disk.state.date <= state'.date
      BY <2>a, <3>1, <3>2, <3>4, NewStateFields DEF LoadedState, LoadedRecovery
    <3> QED
      BY <2>a, <2>d, <3>1, <3>3, <3>4, NothingForgettable
  <2>2. CASE Stop
    BY <2>2 DEF Stop, LossInv
  <2>3. CASE Crash
    BY <2>3 DEF Crash, LossInv
  <2>4. CASE TickInRecovery
    <3>1. /\ pc = "idle" /\ pc' = "idle" /\ state' = state
          /\ disk' = FileOf(state) \/ (disk' = disk /\ recovery' = recovery)
          /\ recovery # "none"
      BY <2>4 DEF TickInRecovery
    <3>2. CASE disk' = FileOf(state)
      BY <2>e, <3>1, <3>2
    <3>3. CASE disk' = disk /\ recovery' = recovery
      BY <2>d, <2>f, <3>1, <3>3 DEF OfToday, Lacking
    <3> QED
      BY <3>1, <3>2, <3>3
  <2>5. CASE TickRollback
    <3>1. /\ pc = "idle" /\ pc' = "idle" /\ UNCHANGED <<state, disk>>
          /\ recovery' = "reset"
      BY <2>5 DEF TickRollback, EnterRecovery
    <3> QED
      BY <2>d, <2>f, <3>1 DEF OfToday, Lacking
  <2>6. ASSUME NEW using \in BOOLEAN, NEW running \in SUBSET Apps, BeginTick(using, running)
        PROVE  LossInv'
    <3>1. /\ pc = "idle" /\ recovery = "none" /\ recovery' = "none" /\ disk' = disk
          /\ state.date <= Today /\ tick'.counted = 0
          /\ pc' \in {"account", "finish"}
          /\ state' = IF state.date < Today THEN NewState(Today) ELSE state
      BY <2>6 DEF BeginTick, storage
    <3>2. disk.present => disk.state.date <= state.date
      BY <3>1 DEF LossInv
    <3>3. CASE state.date < Today
      <4>1. state'.date = Today /\ state'.device = 0
        BY <2>a, <3>1, <3>3, NewStateFields
      <4> QED
        BY <2>a, <2>b, <3>1, <3>2, <3>3, <4>1 DEF LossInv
    <3>4. CASE ~(state.date < Today)
      <4>1. state' = state
        BY <3>1, <3>4
      <4>2. OfToday => state.device - disk.state.device = 0
        BY <3>1, IdleLacksNothing DEF Lacking
      <4> QED
        BY <3>1, <3>2, <4>1, <4>2 DEF LossInv, OfToday
    <3> QED
      BY <3>3, <3>4
  <2>7. CASE AccountBreak
    <3>1. /\ pc = "account" /\ pc' \in {"account", "finish"} /\ recovery' = recovery
          /\ disk' = disk /\ state' \in {state, EndBreak(state)}
      BY <2>7 DEF AccountBreak, storage
    <3>2. state'.device = state.device /\ state'.date = state.date
      BY <2>a, <3>1, SameCounter
    <3>3. tick'.counted = tick.counted
      BY <2>7 DEF AccountBreak, TypeOK, TickLocals
    <3> QED
      BY <3>1, <3>2, <3>3 DEF LossInv
  <2>8. CASE AccountCharge
    <3>1. /\ pc = "account" /\ pc' = "account" /\ recovery' = recovery /\ disk' = disk
          /\ state' \in {Charged, WithBreak}
      BY <2>8 DEF AccountCharge, Charged, WithBreak, storage
    <3>2. state'.device = state.device + Charge /\ state'.date = state.date
      BY <3>1, ChargedFields
    <3>3. tick'.counted = tick.counted + Charge /\ tick.counted \in Int /\ Charge \in Int
      BY <2>8, LoopTypes DEF AccountCharge, TypeOK, TickLocals
    <3> QED
      BY <2>a, <3>1, <3>2, <3>3 DEF LossInv
  <2>9. CASE AccountDone
    BY <2>9 DEF AccountDone, LossInv, memory, storage
  <2>10. CASE FinishTick
    <3>1. /\ pc = "finish" /\ pc' = "idle" /\ state' = WithApps(AfterAccess)
          /\ disk' = FileOf(state') \/ (disk' = disk /\ recovery' = "retry")
      BY <2>10 DEF FinishTick, Save, EnterRecovery
    <3>2. CASE disk' = FileOf(state')
      BY <2>e, <3>1, <3>2
    <3>3. CASE disk' = disk /\ recovery' = "retry"
      <4>1. state'.device = state.device /\ state'.date = state.date
        BY <2>a, <3>1, EndBreakType, SameCounter DEF AfterAccess
      <4>2. tick.counted <= 2 * cfg.poll /\ tick.counted \in Int /\ cfg.poll \in Int
        BY <3>1, CountedSoFar, LoopTypes, ConfigAssumption DEF TypeOK, Config
      <4>3. OfToday => state.device - disk.state.device <= tick.counted
        BY <3>1 DEF LossInv, OfToday
      <4>4. OfToday => Forgettable(state.device - disk.state.device)
        BY <2>a, <4>2, <4>3 DEF Forgettable, TypeOK
      <4> QED
        BY <2>d, <3>1, <3>3, <4>1, <4>4 DEF OfToday
    <3> QED
      BY <3>1, <3>2, <3>3
  <2>11. CASE Reload
    <3>1. /\ pc = "idle" /\ pc' = "idle" /\ UNCHANGED <<state, recovery, disk>>
      BY <2>11 DEF Reload, storage
    <3> QED
      BY <3>1 DEF LossInv
  <2>12. CASE ResetUser
    <3>1. /\ pc = "idle" /\ pc' = "idle" /\ recovery = "none"
          /\ state' = NewState(state.date)
          /\ disk' = FileOf(state') \/ (disk' = disk /\ recovery' = "retry")
      BY <2>12 DEF ResetUser, Save, EnterRecovery
    <3>2. CASE disk' = FileOf(state')
      BY <2>e, <3>1, <3>2
    <3>3. CASE disk' = disk /\ recovery' = "retry"
      <4>1. state'.device = 0
        BY <3>1, <2>a, NewStateFields
      <4>2. Forgettable(0 - disk.state.device)
        BY <2>a, <2>b, NothingForgettable
      <4> QED
        BY <2>d, <3>1, <3>3, <4>1, <4>2
    <3> QED
      BY <3>1, <3>2, <3>3
  <2>13. ASSUME NEW a \in Apps, ResetApp(a) PROVE LossInv'
    <3>1. /\ pc = "idle" /\ pc' = "idle" /\ recovery = "none"
          /\ state'.device = state.device /\ state'.date = state.date
          /\ disk' = FileOf(state') \/ (disk' = disk /\ recovery' = "retry")
      BY <2>13, <2>a DEF ResetApp, Save, EnterRecovery, UsageState
    <3>2. CASE disk' = FileOf(state')
      BY <2>e, <3>1, <3>2
    <3>3. CASE disk' = disk /\ recovery' = "retry"
      BY <2>d, <2>f, <3>1, <3>3 DEF OfToday, Lacking
    <3> QED
      BY <3>1, <3>2, <3>3
  <2>14. CASE RecoverState
    <3>1. pc' = "idle" /\ state' = Recovered /\ disk' = FileOf(Recovered)
      BY <2>14 DEF RecoverState
    <3> QED
      BY <2>e, <3>1
  <2>15. CASE RecoverStateFails
    <3>1. /\ pc = "idle" /\ pc' = "idle" /\ recovery # "none" /\ recovery' = recovery
          /\ \/ state' = state /\ disk' \in {disk, NoFile}
             \/ state' = Recovered /\ recovery = "reset" /\ disk' \in {NoFile, FileOf(Recovered)}
             \/ state' = Recovered /\ recovery # "reset" /\ disk' \in {disk, FileOf(Recovered)}
      BY <2>15 DEF RecoverStateFails
    <3>2. CASE disk' = FileOf(state')
      BY <2>e, <3>1, <3>2
    <3>3. CASE disk' = NoFile
      BY <2>d, <3>1, <3>3 DEF NoFile
    <3>4. CASE disk' = disk /\ state' = state
      BY <2>d, <2>f, <3>1, <3>4 DEF OfToday, Lacking
    <3> QED
      BY <3>1, <3>2, <3>3, <3>4 DEF Recovered
  <2>16. CASE Advance
    BY <2>16 DEF Advance, memory, storage, LossInv
  <2>17. CASE StepClock
    BY <2>17 DEF StepClock, memory, storage, LossInv
  <2>18. CASE UNCHANGED vars
    BY <2>18 DEF vars, memory, storage, LossInv
  <2> QED
    BY <2>1, <2>2, <2>3, <2>4, <2>5, <2>6, <2>7, <2>8, <2>9, <2>10, <2>11,
       <2>12, <2>13, <2>14, <2>15, <2>16, <2>17, <2>18
    DEF Next, TickStep, Command
<1> QED
  BY <1>1, <1>2, OneContinuous, NoTimeSkipped, TypeCorrect, RangeHolds, CapHolds,
     FileIsStateBetweenTicks, PTL DEF Spec

\* Wherever the daemon crashes, and however many saves failed before, the file
\* of the day lacks at most two polling intervals of use.  A wall clock that
\* jumps ahead of the monotonic one is excluded: with one the cap is exceeded.
THEOREM CrashForgetsOneTick ==
  ASSUME OneContinuous, NoTimeSkipped PROVE Spec => []CrashLosesOneTick
<1>1. ASSUME TypeOK, OldInv, CapInv, LossInv, pc # "down", OfToday
      PROVE  Forgettable(Lacking)
  <2>1. CASE pc = "idle"
    BY <1>1, <2>1 DEF LossInv, Forgettable, OfToday, Lacking
  <2>2. CASE pc \in {"account", "finish"}
    <3>1. tick.counted <= 2 * cfg.poll
      BY <1>1, <2>2, CountedSoFar
    <3>2. Lacking <= tick.counted /\ Lacking \in Int /\ tick.counted \in Int
          /\ cfg.poll \in Int /\ cfg \in Configs
      BY <1>1, <2>2, LoopTypes, ConfigAssumption
      DEF LossInv, OfToday, Lacking, TypeOK, UsageFile, UsageState, Config
    <3> QED
      BY <3>1, <3>2 DEF Forgettable
  <2> QED
    BY <1>1, <2>1, <2>2 DEF TypeOK
<1>2. TypeOK /\ OldInv /\ CapInv /\ LossInv => CrashLosesOneTick
  BY <1>1 DEF CrashLosesOneTick, Forgettable, OfToday, Lacking
<1> QED
  BY <1>2, OneContinuous, NoTimeSkipped, TypeCorrect, CapHolds, LossHolds, PTL

-----------------------------------------------------------------------------
(* The counter a user is promised *)

\* A tick that is running is not in recovery.
TickInv == pc \in {"account", "finish"} => recovery = "none"

\* Recovery begins at the end of a tick or outside of one.
LEMMA TickCounts == Spec => []TickInv
<1>1. Init => TickInv
  BY DEF Init, TickInv
<1>2. TickInv /\ [Next]_vars => TickInv'
  BY DEF TickInv, Next, TickStep, Command, Start, Stop, Crash, TickInRecovery,
     TickRollback, BeginTick, AccountBreak, AccountCharge, AccountDone, FinishTick,
     Reload, ResetUser, ResetApp, RecoverState, RecoverStateFails, Advance, StepClock,
     memory, vars
<1> QED
  BY <1>1, <1>2, PTL DEF Spec

-----------------------------------------------------------------------------
(* The mapping of the variables *)

\* The phase, the kept day and the lock of Allowance.
Phase == IF pc = "down" THEN "off"
         ELSE [none |-> "counting", retry |-> "retrying", reset |-> "refusing"][recovery]
Kept == [present |-> disk.present, day |-> disk.state.date, used |-> disk.state.device]

\* The phase, case by case, before and after a step.
LEMMA Phases ==
  /\ pc = "down" => Phase = "off"
  /\ pc # "down" /\ recovery = "none" => Phase = "counting"
  /\ pc # "down" /\ recovery = "retry" => Phase = "retrying"
  /\ pc # "down" /\ recovery = "reset" => Phase = "refusing"
  BY DEF Phase

\* The same after the step.
LEMMA PhasesAfter ==
  /\ pc' = "down" => Phase' = "off"
  /\ pc' # "down" /\ recovery' = "none" => Phase' = "counting"
  /\ pc' # "down" /\ recovery' = "retry" => Phase' = "retrying"
  /\ pc' # "down" /\ recovery' = "reset" => Phase' = "refusing"
  BY DEF Phase

\* The fields of a state that Allowance sees, as the handlers leave them.
LEMMA Seen ==
  ASSUME TypeOK
  PROVE  /\ \A d \in Nat : NewState(d).device = 0 /\ NewState(d).date = d
         /\ NoFile.present = FALSE
         /\ \A s \in UsageState : /\ FileOf(s).present
                                 /\ FileOf(s).state.date = s.date
                                 /\ FileOf(s).state.device = s.device
         /\ state \in UsageState /\ disk.state \in UsageState
         /\ cfg.device \in {c.device : c \in Configs}
  BY NewStateFields, SameCounter DEF TypeOK, UsageFile, NoFile

\* Saving is what Allowance calls keeping, or trying again.
LEMMA SaveKeepsOrRetries ==
  ASSUME TypeOK, TypeOK', recovery = "none", pc # "down", pc' # "down", Save(state')
  PROVE  Promised!KeepOrRetry
<1>1. state' \in UsageState
  BY DEF TypeOK
<1>2. /\ FileOf(state').present /\ FileOf(state').state.date = state'.date
      /\ FileOf(state').state.device = state'.device
  BY <1>1, SameCounter
<1>3. CASE disk' = FileOf(state') /\ UNCHANGED <<recovery, marker>>
  BY <1>2, <1>3, Phases, PhasesAfter DEF Promised!KeepOrRetry, Promised!Current, Phase
<1>4. CASE disk' \in {disk, FileOf(state')} /\ EnterRecovery("retry")
  BY <1>2, <1>4, Phases, PhasesAfter
  DEF Promised!KeepOrRetry, Promised!Current, Phase, EnterRecovery
<1> QED
  BY <1>3, <1>4 DEF Save

-----------------------------------------------------------------------------
(* Every step is a step of Allowance or is invisible to it *)

\* What every step is checked from.
SimInv == TypeOK /\ RangeInv /\ TickInv

\* A daemon that starts goes on with the day it kept, or begins a later one.
LEMMA StartIsOn == ASSUME OneContinuous, SimInv, TypeOK', Start PROVE Promised!On
<1>1. Loadable(disk.state)
  BY RangeLoads, Seen DEF SimInv, RangeInv
<1>2. /\ pc = "down" /\ pc' # "down" /\ state' = LoadedState /\ disk' = disk
      /\ lock' = "none"
  BY DEF Start, storage
<1>3. Today \in Nat /\ disk.state.date \in Int
  BY Seen, ClockType DEF SimInv, UsageState
<1>4. \/ disk.present /\ state'.date = disk.state.date /\ state'.device = disk.state.device
      \/ state'.date \in Int /\ (disk.present => state'.date > disk.state.date)
         /\ state'.device = 0
  <2>1. CASE state' = disk.state /\ disk.present
    BY <2>1
  <2>2. CASE state' = NewState(Today) /\ (disk.present => disk.state.date < Today)
    BY <1>3, <2>2, NewStateFields
  <2> QED
    BY <1>1, <1>2, <2>1, <2>2 DEF LoadedState
<1>5. Phase = "off" /\ Phase' \in {"counting", "retrying", "refusing"}
  BY <1>2, Phases, PhasesAfter DEF TypeOK
<1>6. cfg'.device \in {c.device : c \in Configs}
  BY DEF Start
<1> QED
  BY <1>2, <1>4, <1>5, <1>6 DEF Promised!On, Phase

\* A process that goes away forgets, and has at most saved once more.
LEMMA EndIsOff ==
  ASSUME SimInv, TypeOK', Stop \/ Crash
  PROVE  Promised!Off
<1>1. /\ pc # "down" /\ pc' = "down" /\ state' = NewState(0) /\ lock' = "none" /\ cfg' = cfg
      /\ disk' = disk \/ (recovery = "none" /\ disk' = FileOf(state))
  BY DEF Stop, Crash, Forget, Save, storage
<1>2. Phase # "off" /\ Phase' = "off" /\ (recovery = "none" => Phase = "counting")
  BY <1>1, Phases, PhasesAfter DEF SimInv, TypeOK
<1>3. state'.date = 0 /\ state'.device = 0
  BY <1>1, NewStateFields
<1>4. \/ Kept' = Kept
      \/ Phase = "counting" /\ Kept' = Promised!Current
  BY <1>1, <1>2, Seen DEF SimInv, Kept, Promised!Current
<1> QED
  BY <1>1, <1>2, <1>3, <1>4 DEF Promised!Off, Phase, Kept

\* While recovery is pending a tick locks, or counts again what it has kept.
LEMMA RecoveryTicks ==
  ASSUME SimInv, TypeOK', TickInRecovery
  PROVE  Promised!Resume \/ Promised!Refuse
<1>1. state' = state /\ cfg' = cfg /\ pc = "idle" /\ pc' = "idle"
  BY DEF TickInRecovery
<1>2. ASSUME recovery = "retry", recovery' = "none", disk' = FileOf(state), lock' = "none"
      PROVE  Promised!Resume
  <2>1. Phase = "retrying" /\ Phase' = "counting"
    BY <1>1, <1>2, Phases, PhasesAfter
  <2>2. Kept' = Promised!Current
    BY <1>1, <1>2, Seen DEF SimInv, Kept, Promised!Current
  <2> QED
    BY <1>1, <1>2, <2>1, <2>2 DEF Promised!Resume, Phase, Kept
<1>3. ASSUME recovery # "none", lock' = "recovery", recovery' = recovery,
             disk' \in {disk} \cup (IF recovery = "retry" THEN {FileOf(state)} ELSE {})
      PROVE  Promised!Refuse
  <2>1. Phase \in {"retrying", "refusing"} /\ Phase' = Phase
        /\ (recovery = "retry" => Phase = "retrying")
    BY <1>1, <1>3, Phases, PhasesAfter DEF SimInv, TypeOK
  <2>2. Kept' = Kept \/ (Phase = "retrying" /\ Kept' = Promised!Current)
    BY <1>1, <1>3, <2>1, Seen DEF SimInv, Kept, Promised!Current
  <2> QED
    BY <1>1, <1>3, <2>1, <2>2 DEF Promised!Refuse, Phase, Kept
<1> QED
  BY <1>2, <1>3 DEF TickInRecovery

\* A clock that went back to an earlier day is refused.
LEMMA RollbackIsRefusal ==
  ASSUME SimInv, TypeOK', TickRollback
  PROVE  Promised!Refuse
<1>1. /\ pc = "idle" /\ pc' = "idle" /\ recovery = "none" /\ recovery' = "reset"
      /\ state' = state /\ disk' = disk /\ cfg' = cfg /\ lock' = "recovery"
  BY DEF TickRollback, EnterRecovery
<1>2. Phase = "counting" /\ Phase' = "refusing"
  BY <1>1, Phases, PhasesAfter
<1> QED
  BY <1>1, <1>2 DEF Promised!Refuse, Phase

\* A charge of the loop is a charge of Allowance.
LEMMA ChargeIsCharge ==
  ASSUME OneContinuous, SimInv, TypeOK', AccountCharge
  PROVE  Promised!Charge
<1>1. /\ pc = "account" /\ pc' = "account" /\ recovery' = recovery /\ recovery = "none"
      /\ disk' = disk /\ cfg' = cfg /\ lock' = lock
  BY DEF AccountCharge, storage, SimInv, TickInv
<1>2. state' \in {Charged, WithBreak}
  BY DEF AccountCharge, Charged, WithBreak
<1>3. state'.device = state.device + Charge /\ state'.date = state.date
  BY <1>2, ChargedFields DEF SimInv
<1>4. Charge \in 1 .. (cfg.device - state.device)
  <2>1. Charge >= 1 /\ state.device + Charge <= cfg.device /\ Charge \in Int
    BY ChargePositive, ChargeType DEF SimInv, RangeInv
  <2>2. state.device \in Int /\ cfg.device \in Int
    BY StateNumbers, ConfigRange DEF SimInv, TypeOK
  <2> QED
    BY <2>1, <2>2
<1>5. Phase = "counting" /\ Phase' = "counting"
  BY <1>1, Phases, PhasesAfter
<1> QED
  BY <1>1, <1>3, <1>4, <1>5 DEF Promised!Charge, Phase

\* The end of a tick looks at the user and keeps what was counted.
LEMMA FinishIsLook ==
  ASSUME SimInv, TypeOK', FinishTick
  PROVE  Promised!Look
<1>1. /\ pc = "finish" /\ pc' = "idle" /\ recovery = "none" /\ cfg' = cfg
      /\ Save(state') /\ lock' = LockReason /\ state' = WithApps(AfterAccess)
  BY DEF FinishTick, SimInv, TickInv
<1>2. state'.device = state.device /\ state'.date = state.date
  <2>1. AfterAccess \in UsageState
        /\ AfterAccess.device = state.device /\ AfterAccess.date = state.date
    BY EndBreakType, SameCounter, Seen DEF AfterAccess, SimInv
  <2> QED
    BY <1>1, <2>1, SameCounter
<1>3. state.device >= cfg.device => lock' # "none"
  BY <1>1 DEF LockReason, Blocked
<1>4. Phase = "counting" /\ Promised!KeepOrRetry
  BY <1>1, Phases, SaveKeepsOrRetries DEF SimInv
<1> QED
  BY <1>1, <1>2, <1>3, <1>4 DEF Promised!Look, Phase

\* Both resets leave the day alone and keep what they did.
LEMMA ResetIsReset ==
  ASSUME SimInv, TypeOK', ResetUser \/ \E a \in Apps : ResetApp(a)
  PROVE  Promised!Reset
<1>1. /\ pc = "idle" /\ pc' = "idle" /\ recovery = "none" /\ cfg' = cfg /\ lock' = lock
      /\ Save(state')
  BY DEF ResetUser, ResetApp
<1>2. state'.date = state.date /\ state'.device \in {0, state.device}
  <2>1. CASE ResetUser
    BY <2>1, NewStateFields, Seen DEF ResetUser, SimInv, UsageState
  <2>2. ASSUME NEW a \in Apps, ResetApp(a)
        PROVE  state'.date = state.date /\ state'.device = state.device
    BY <2>2, Seen DEF ResetApp, SimInv, UsageState
  <2> QED
    BY <2>1, <2>2
<1>3. Phase = "counting" /\ Promised!KeepOrRetry
  BY <1>1, Phases, SaveKeepsOrRetries DEF SimInv
<1> QED
  BY <1>1, <1>2, <1>3 DEF Promised!Reset, Phase

\* recover-state, whether it succeeds or gives up at one of its steps.
LEMMA RecoverIsRecover ==
  ASSUME SimInv, TypeOK', RecoverState \/ RecoverStateFails
  PROVE  Promised!Recover
<1>1. /\ pc = "idle" /\ pc' = "idle" /\ recovery \in {"retry", "reset"} /\ cfg' = cfg
      /\ lock' = lock /\ state' \in {state, Recovered}
  BY DEF RecoverState, RecoverStateFails, SimInv, TypeOK
<1>2. Phase = IF recovery = "retry" THEN "retrying" ELSE "refusing"
  BY <1>1, Phases
<1>3. Today \in Nat /\ Recovered \in UsageState
  BY ClockType, LoadType DEF SimInv
<1>4. \/ state'.date = state.date /\ state'.device = state.device
      \/ recovery = "reset" /\ state'.date \in Int /\ state'.device = 0
  BY <1>1, <1>3, NewStateFields DEF Recovered
<1>5. CASE RecoverState
  <2>1. Phase' = "counting" /\ state' = Recovered
    BY <1>5, <1>1, PhasesAfter DEF RecoverState
  <2>2. \/ state'.date = state.date /\ state'.device = state.device /\ Phase = "retrying"
        \/ Phase = "refusing" /\ state'.date \in Int /\ state'.device = 0
    BY <1>1, <1>2, <1>3, <2>1, NewStateFields DEF Recovered
  <2>3. Kept' = Promised!Current'
    BY <1>5, <1>3, <2>1, SameCounter DEF RecoverState, Kept, Promised!Current
  <2> QED
    BY <1>1, <1>2, <2>1, <2>2, <2>3 DEF Promised!Recover, Phase, Kept
<1>6. CASE RecoverStateFails
  <2>1. Phase' = Phase
    BY <1>6, <1>1, <1>2, PhasesAfter DEF RecoverStateFails
  <2>2. \/ Kept' = Kept
        \/ Kept' = Promised!Current'
        \/ Phase' = "refusing" /\ ~Kept'.present
    <3>1. CASE disk' = disk
      BY <3>1 DEF Kept
    <3>2. CASE disk' = NoFile /\ recovery = "reset"
      BY <3>2, <1>2, <2>1, Seen DEF Kept, SimInv
    <3>3. CASE disk' = FileOf(Recovered) /\ state' = Recovered
      BY <3>3, <1>3, SameCounter DEF Kept, Promised!Current
    <3> QED
      BY <1>6, <1>1, <3>1, <3>2, <3>3 DEF RecoverStateFails
  <2> QED
    BY <1>1, <1>2, <1>4, <2>1, <2>2 DEF Promised!Recover, Phase, Kept
<1> QED
  BY <1>5, <1>6

\* DeviceUsage implements Allowance: seen through the mapping, ticks with their
\* intervals and breaks, failing saves, recovery, crashes and commands only charge
\* within the allowance, begin later days, keep what was counted, lock, or do what
\* an administrator asked for.
THEOREM CodeImplementsAllowance ==
  ASSUME OneContinuous PROVE Spec => ImplementsAllowance
<1>1. Init => Promised!Init
  <2> SUFFICES ASSUME Init PROVE Promised!Init
    OBVIOUS
  <2>1. Phase = "off" /\ state.date = 0 /\ state.device = 0
    BY Phases, NewStateFields DEF Init
  <2>2. cfg.device \in {c.device : c \in Configs}
    BY DEF Init
  <2> QED
    BY <2>1, <2>2 DEF Init, NoFile, Promised!Init, Phase
<1>2. SimInv /\ TypeOK' /\ [Next]_vars => [Promised!Next]_Promised!vars
  <2> SUFFICES ASSUME SimInv, TypeOK', [Next]_vars
               PROVE  Promised!Next \/ UNCHANGED Promised!vars
    OBVIOUS
  <2> USE OneContinuous
  \* Enough for the steps Allowance does not see.
  <2>a. ASSUME state'.date = state.date, state'.device = state.device, disk' = disk,
               cfg'.device = cfg.device, lock' = lock, Phase' = Phase
        PROVE  UNCHANGED Promised!vars
    BY <2>a DEF Promised!vars, Phase
  <2>b. ASSUME pc # "down", pc' # "down", recovery' = recovery PROVE Phase' = Phase
    BY <2>b, Phases, PhasesAfter DEF SimInv, TypeOK
  <2>1. CASE Start
    BY <2>1, StartIsOn DEF Promised!Next
  <2>2. CASE Stop \/ Crash
    BY <2>2, EndIsOff DEF Promised!Next
  <2>3. CASE TickInRecovery
    BY <2>3, RecoveryTicks DEF Promised!Next
  <2>4. CASE TickRollback
    BY <2>4, RollbackIsRefusal DEF Promised!Next
  <2>5. ASSUME NEW using \in BOOLEAN, NEW running \in SUBSET Apps, BeginTick(using, running)
        PROVE  Promised!NewDay \/ UNCHANGED Promised!vars
    <3>1. /\ pc = "idle" /\ pc' # "down" /\ recovery = "none" /\ recovery' = recovery
          /\ disk' = disk /\ cfg' = cfg /\ lock' = lock
          /\ state' = IF state.date < Today THEN NewState(Today) ELSE state
      BY <2>5 DEF BeginTick, storage
    <3>2. CASE state.date < Today
      <4>1. state'.date = Today /\ state'.device = 0 /\ Today \in Int
        BY <3>1, <3>2, ClockType, NewStateFields DEF SimInv
      <4>2. Phase = "counting" /\ Phase' = "counting"
        BY <3>1, Phases, PhasesAfter
      <4> QED
        BY <3>1, <3>2, <4>1, <4>2 DEF Promised!NewDay, Phase
    <3>3. CASE ~(state.date < Today)
      BY <2>a, <2>b, <3>1, <3>3
    <3> QED
      BY <3>2, <3>3
  <2>6. CASE AccountBreak
    <3>1. state'.date = state.date /\ state'.device = state.device
      BY <2>6, SameCounter, Seen DEF AccountBreak, SimInv
    <3> QED
      BY <2>6, <2>a, <2>b, <3>1 DEF AccountBreak, storage
  <2>7. CASE AccountCharge
    BY <2>7, ChargeIsCharge DEF Promised!Next
  <2>8. CASE AccountDone
    BY <2>8, <2>a, <2>b DEF AccountDone, memory, storage
  <2>9. CASE FinishTick
    BY <2>9, FinishIsLook DEF Promised!Next
  <2>10. CASE Reload
    <3>1. Phase' = Phase /\ Phase # "off"
      BY <2>10, <2>b, Phases DEF Reload, SimInv, TypeOK
    <3>2. cfg'.device \in {c.device : c \in Configs} /\ disk' = disk
      BY <2>10 DEF Reload, storage
    <3> QED
      BY <2>10, <3>1, <3>2 DEF Reload, Promised!Next, Promised!SetLimit, Phase
  <2>11. CASE ResetUser \/ \E a \in Apps : ResetApp(a)
    BY <2>11, ResetIsReset DEF Promised!Next
  <2>12. CASE RecoverState \/ RecoverStateFails
    BY <2>12, RecoverIsRecover DEF Promised!Next
  <2>13. CASE Advance \/ StepClock
    <3>1. UNCHANGED <<pc, memory, storage>>
      BY <2>13 DEF Advance, StepClock
    <3> QED
      BY <2>a, <3>1 DEF memory, storage, Phase
  <2>14. CASE UNCHANGED vars
    BY <2>14, <2>a DEF vars, memory, storage, Phase
  <2> QED
    BY <2>1, <2>2, <2>3, <2>4, <2>5, <2>6, <2>7, <2>8, <2>9, <2>10, <2>11,
       <2>12, <2>13, <2>14
    DEF Next, TickStep, Command, Promised!Next
<1>3. Spec => []SimInv
  BY OneContinuous, TypeCorrect, RangeHolds, TickCounts, PTL DEF SimInv
<1>4. SimInv => TypeOK
  BY DEF SimInv
<1> QED
  BY <1>1, <1>2, <1>3, <1>4, PTL DEF Spec, ImplementsAllowance, Promised!Spec
=============================================================================
