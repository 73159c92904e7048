------------------------- MODULE DeviceUsage_proofs -------------------------
(***************************************************************************)
(* For every set of configurations, every amount of time and every fault:  *)
(* DeviceUsage is type correct, and the device counter never passes an     *)
(* installed allowance, in memory or on the disk.                          *)
(***************************************************************************)
EXTENDS DeviceUsage, TLAPS

\* Integer division rounds down.
LEMMA DivLower == ASSUME NEW x \in Int, NEW s \in Nat \ {0}
                  PROVE  (x \div s) \in Int /\ (x \div s) * s <= x
  BY SMT

\* Dividing a natural number gives one.
LEMMA DivNat == ASSUME NEW x \in Nat, NEW s \in Nat \ {0}
                  PROVE  (x \div s) \in Nat
  BY SMT

\* Multiplication distributes over a sum.
LEMMA MulPlus == ASSUME NEW x \in Int, NEW y \in Int, NEW s \in Int
                 PROVE  (x + y) * s = x * s + y * s
  BY SMT

\* Multiplying by a natural number keeps the order.
LEMMA MulMonotone == ASSUME NEW x \in Int, NEW y \in Int, NEW s \in Nat, x <= y
                 PROVE  x * s <= y * s
  BY SMT

\* The operations on instants return instants and integers.
LEMMA InstantType ==
  /\ \A w, m \in Int : Reading(w, m) \in Instant
  /\ \A w \in Int : WallOnly(w) \in Instant
  /\ \A t \in Instant : Stored(t) \in Instant
  /\ \A t \in Instant, d \in Int : Plus(t, d) \in Instant
  /\ \A s, t \in Instant : Sub(s, t) \in Int
  BY DEF Instant, Reading, WallOnly, Stored, Plus, Sub

\* The interval a tick may charge is made of instants.
LEMMA IntervalType ==
  ASSUME NEW from \in Instant, NEW upto \in Instant, NEW c \in Config
  PROVE  /\ AccountingInterval(from, upto, c).from \in Instant
         /\ AccountingInterval(from, upto, c).upto \in Instant
<1> DEFINE dayStart == (upto.wall \div Day) * Day
<1>1. dayStart \in Int
  BY DivLower, UnitsAssumption DEF Instant
<1>2. c.from \in Int /\ c.until \in Int
  BY DEF Config
<1>3. WallOnly(dayStart + c.from) \in Instant /\ WallOnly(dayStart + c.until) \in Instant
  <2> HIDE DEF dayStart
  <2>1. dayStart + c.from \in Int /\ dayStart + c.until \in Int
    BY <1>1, <1>2
  <2> QED
    BY <2>1, InstantType
<1> QED
  BY <1>3 DEF AccountingInterval

\* Assigning one field of a state.
LEMMA UpdateType ==
  ASSUME NEW s \in UsageState
  PROVE  /\ \A x \in Int : [s EXCEPT !.device = x] \in UsageState
         /\ \A x \in Int : [s EXCEPT !.continuous = x] \in UsageState
         /\ \A x \in BOOLEAN : [s EXCEPT !.onBreak = x] \in UsageState
         /\ \A x \in Instant : [s EXCEPT !.until = x] \in UsageState
         /\ \A x \in [Apps -> Int] : [s EXCEPT !.apps = x] \in UsageState
         /\ \A a \in Apps : [s EXCEPT !.apps[a] = 0] \in UsageState
  BY DEF UsageState

\* The states the handlers build are states, and so is what a file holds.
LEMMA NewStateType ==
  /\ NoInstant \in Instant
  /\ \A d \in Nat : NewState(d) \in UsageState
<1>1. NoInstant \in Instant
  BY InstantType DEF NoInstant
<1> QED
  BY <1>1 DEF NewState, UsageState

\* Ending a break returns a state.
LEMMA EndBreakType == ASSUME NEW s \in UsageState
                      PROVE  EndBreak(s) \in UsageState
<1> DEFINE t == [s EXCEPT !.continuous = 0]
           u == [t EXCEPT !.onBreak = FALSE]
<1>1. t \in UsageState
  BY UpdateType
<1>2. u \in UsageState
  <2> HIDE DEF t
  <2> QED
    BY <1>1, UpdateType
<1>3. [u EXCEPT !.until = NoInstant] \in UsageState
  <2> HIDE DEF u
  <2> QED
    BY <1>2, UpdateType, NewStateType
<1> QED
  BY <1>3 DEF EndBreak

\* What Save writes, and a missing file, are files.
LEMMA FileType == /\ NoFile \in UsageFile
                  /\ \A s \in UsageState : FileOf(s) \in UsageFile
<1>1. NoFile \in UsageFile
  BY NewStateType DEF NoFile, UsageFile
<1>2. ASSUME NEW s \in UsageState PROVE FileOf(s) \in UsageFile
  <2>1. s.until \in Instant
    BY DEF UsageState
  <2>2. [s EXCEPT !.until = Stored(s.until)] \in UsageState
    BY <2>1, UpdateType, InstantType
  <2> QED
    BY <2>2 DEF FileOf, UsageFile
<1> QED
  BY <1>1, <1>2

\* Saving keeps the types of the disk, the marker and the recovery.
LEMMA SaveType ==
  ASSUME TypeOK, NEW s \in UsageState, Save(s)
  PROVE  /\ disk' \in UsageFile
         /\ recovery' \in {"none", "retry", "reset"}
         /\ marker' \in {"none", "retry", "reset"}
  BY FileType DEF TypeOK, UsageFile, Save, EnterRecovery, Marked

-----------------------------------------------------------------------------
(* Type correctness *)

\* The readings a tick takes are instants and days.
LEMMA ClockType == TypeOK => /\ now \in Instant
                             /\ Today \in Nat
                             /\ Midnight \in Instant
<1> SUFFICES ASSUME TypeOK PROVE now \in Instant /\ Today \in Nat /\ Midnight \in Instant
  OBVIOUS
<1>1. now \in Instant
  BY InstantType DEF TypeOK, now
<1>2. Today \in Nat
  BY DivNat, UnitsAssumption DEF TypeOK, Today
<1>3. Today * Day \in Int
  BY <1>2, UnitsAssumption
<1>4. Midnight \in Instant
  BY <1>3, InstantType DEF Midnight
<1> QED
  BY <1>1, <1>2, <1>4

\* What the daemon loads or recovers is a state.
LEMMA LoadType == ASSUME TypeOK
                  PROVE  /\ LoadedState \in UsageState
                         /\ LoadedRecovery \in {"none", "retry", "reset"}
                         /\ Recovered \in UsageState
  BY ClockType, NewStateType DEF TypeOK, UsageFile, LoadedState, LoadedRecovery, Recovered

\* The interval BeginTick hands to the accounting loop.
LEMMA ChargeFromType == ASSUME TypeOK PROVE ChargeFrom \in Instant
<1>1. -Longest \in Int
  BY UnitsAssumption, ConfigAssumption DEF TypeOK, Config, Longest
<1> QED
  BY <1>1, ClockType, InstantType DEF TypeOK, ChargeFrom

\* What one iteration charges is an integer, which may be negative.
LEMMA ChargeType == ASSUME TypeOK
                    PROVE  Whole \in Int /\ Charge \in Int
<1>1. Whole \in Int
  BY InstantType, DivLower, UnitsAssumption DEF TypeOK, TickLocals, Whole
<1>2. cfg.device \in Int /\ cfg.continuous \in Int
  BY ConfigAssumption DEF TypeOK, Config
<1> QED
  BY <1>1, <1>2 DEF TypeOK, UsageState, Charge, Least

\* The state after one iteration of the loop.
Charged == [state EXCEPT !.device = @ + Charge, !.continuous = @ + Charge]
WithBreak == [Charged EXCEPT !.continuous = 0, !.onBreak = TRUE,
                !.until = Plus(Plus(tick.from, Charge * Second), cfg.break * Second)]

\* A charge returns a state and locals of a tick.
LEMMA ChargedType ==
  ASSUME TypeOK
  PROVE  /\ Plus(tick.from, Charge * Second) \in Instant
         /\ Charged \in UsageState
         /\ WithBreak \in UsageState
<1>1. Plus(tick.from, Charge * Second) \in Instant
  <2>1. Charge * Second \in Int
    BY ChargeType, UnitsAssumption
  <2> QED
    BY <2>1, InstantType DEF TypeOK, TickLocals
<1>2. Charged \in UsageState
  <2> DEFINE t == [state EXCEPT !.device = @ + Charge]
  <2>1. t \in UsageState /\ t.continuous + Charge \in Int
    BY ChargeType, UpdateType DEF TypeOK, UsageState
  <2>2. [t EXCEPT !.continuous = @ + Charge] \in UsageState
    <3> HIDE DEF t
    <3> QED
      BY <2>1, UpdateType
  <2> QED
    BY <2>2 DEF Charged
<1>3. WithBreak \in UsageState
  <2> DEFINE end == Plus(Plus(tick.from, Charge * Second), cfg.break * Second)
             t == [Charged EXCEPT !.continuous = 0]
             u == [t EXCEPT !.onBreak = TRUE]
  <2>1. end \in Instant
    <3>1. cfg.break * Second \in Int
      BY UnitsAssumption, ConfigAssumption DEF TypeOK, Config
    <3> QED
      BY <1>1, <3>1, InstantType
  <2>2. t \in UsageState
    BY <1>2, UpdateType
  <2>3. u \in UsageState
    <3> HIDE DEF t
    <3> QED
      BY <2>2, UpdateType
  <2>4. [u EXCEPT !.until = end] \in UsageState
    <3> HIDE DEF u, end
    <3> QED
      BY <2>1, <2>3, UpdateType
  <2> QED
    BY <2>4 DEF WithBreak
<1> QED
  BY <1>1, <1>2, <1>3

\* The locals of no tick are locals.
LEMMA NoTickType == NoTick \in TickLocals
  BY NewStateType DEF NoTick, TickLocals

\* The initial states have their types.
LEMMA TypeCorrectInit == Init => TypeOK
<1> SUFFICES ASSUME Init PROVE TypeOK
  OBVIOUS
<1>1. wall \in Nat /\ mono \in Nat /\ now \in Instant
  BY UnitsAssumption, InstantType DEF Init, now
<1>2. disk \in UsageFile /\ tick \in TickLocals
  BY FileType, NoTickType DEF Init
<1> QED
  BY <1>1, <1>2, NewStateType DEF Init, TypeOK

\* Every variable has its type, whatever the configurations and the faults.
THEOREM TypeCorrect == Spec => []TypeOK
<1>1. Init => TypeOK
  BY TypeCorrectInit
<1>2. TypeOK /\ [Next]_vars => TypeOK'
  <2> SUFFICES ASSUME TypeOK, [Next]_vars PROVE TypeOK'
    OBVIOUS
  <2> USE NewStateType, FileType, NoTickType, ClockType
  <2>1. CASE Start
    BY <2>1, LoadType DEF Start, ForgetSamples, TypeOK, clock, storage
  <2>2. CASE Stop
    <3>1. recovery' \in {"none", "retry", "reset"} /\ marker' \in {"none", "retry", "reset"}
          /\ disk' \in UsageFile
      BY <2>2, SaveType DEF Stop, TypeOK, storage
    <3> QED
      BY <2>2, <3>1 DEF Stop, Forget, ForgetSamples, TypeOK, clock
  <2>3. CASE Crash
    BY <2>3 DEF Crash, Forget, ForgetSamples, TypeOK, clock, storage
  <2>4. CASE TickInRecovery
    BY <2>4 DEF TickInRecovery, ForgetSamples, TypeOK, clock
  <2>5. CASE TickRollback
    BY <2>5 DEF TickRollback, EnterRecovery, Marked, TypeOK, clock
  <2>6. ASSUME NEW using \in BOOLEAN, NEW running \in SUBSET Apps, BeginTick(using, running)
        PROVE  TypeOK'
    <3>1. state' \in UsageState
      BY <2>6 DEF BeginTick, TypeOK
    <3>2. tick' \in TickLocals
      <4>1. cfg \in Config
        BY ConfigAssumption DEF TypeOK
      <4>2. /\ AccountingInterval(ChargeFrom, now, cfg).from \in Instant
            /\ AccountingInterval(ChargeFrom, now, cfg).upto \in Instant
        BY <4>1, ChargeFromType, IntervalType
      <4> QED
        BY <2>6, <4>2 DEF BeginTick, TickLocals
    <3>3. pc' \in {"account", "finish"} /\ lastTick' \in Instant
      BY <2>6 DEF BeginTick
    <3> QED
      BY <2>6, <3>1, <3>2, <3>3 DEF BeginTick, TypeOK, clock, storage
  <2>7. CASE AccountBreak
    <3>1. state' \in UsageState
      BY <2>7, EndBreakType DEF AccountBreak, TypeOK
    <3>2. tick' \in TickLocals
      BY <2>7 DEF AccountBreak, TypeOK, TickLocals, UsageState
    <3> QED
      BY <2>7, <3>1, <3>2 DEF AccountBreak, TypeOK, clock, storage
  <2>8. CASE AccountCharge
    <3>1. state' \in {Charged, WithBreak}
      BY <2>8 DEF AccountCharge, Charged, WithBreak
    <3>2. tick' = [tick EXCEPT !.from = Plus(tick.from, Charge * Second),
                               !.counted = @ + Charge]
      BY <2>8 DEF AccountCharge
    <3>3. tick' \in TickLocals
      <4> DEFINE t == [tick EXCEPT !.from = Plus(tick.from, Charge * Second)]
      <4>1. t \in TickLocals /\ t.counted + Charge \in Int
        BY ChargedType, ChargeType DEF TypeOK, TickLocals
      <4>2. [t EXCEPT !.counted = @ + Charge] \in TickLocals
        <5> HIDE DEF t
        <5> QED
          BY <4>1 DEF TickLocals
      <4> QED
        BY <3>2, <4>2
    <3> QED
      BY <2>8, <3>1, <3>3, ChargedType DEF AccountCharge, TypeOK, clock, storage
  <2>9. CASE AccountDone
    BY <2>9 DEF AccountDone, TypeOK, clock, memory, storage
  <2>10. CASE FinishTick
    <3>1. AfterAccess \in UsageState
      BY EndBreakType DEF AfterAccess, TypeOK
    <3>2. state' \in UsageState
      <4> DEFINE s == AfterAccess
      <4> HIDE DEF s
      <4>1. [a \in Apps |-> s.apps[a] +
               (IF a \in tick.apps \cap prevApps THEN tick.counted ELSE 0)]
              \in [Apps -> Int]
        BY <3>1 DEF s, TypeOK, UsageState, TickLocals
      <4>2. WithApps(s) \in UsageState
        BY <3>1, <4>1, UpdateType DEF WithApps, s
      <4> QED
        BY <2>10, <4>2 DEF FinishTick, s
    <3>3. Save(state')
      BY <2>10 DEF FinishTick
    <3>4. /\ disk' \in UsageFile
          /\ recovery' \in {"none", "retry", "reset"}
          /\ marker' \in {"none", "retry", "reset"}
      BY <3>2, <3>3 DEF Save, TypeOK, EnterRecovery, Marked
    <3> QED
      BY <2>10, <3>2, <3>4 DEF FinishTick, LockReason, TypeOK, TickLocals, clock
  <2>11. CASE Reload
    BY <2>11 DEF Reload, ForgetSamples, TypeOK, clock, storage
  <2>12. CASE ResetUser
    <3>1. state' \in UsageState
      BY <2>12 DEF ResetUser, TypeOK, UsageState
    <3> QED
      BY <2>12, <3>1 DEF ResetUser, Save, EnterRecovery, Marked, TypeOK, clock
  <2>13. ASSUME NEW a \in Apps, ResetApp(a) PROVE TypeOK'
    <3>1. state' \in UsageState
      BY <2>13, UpdateType DEF ResetApp, TypeOK
    <3> QED
      BY <2>13, <3>1 DEF ResetApp, Save, EnterRecovery, Marked, TypeOK, clock
  <2>14. CASE RecoverState
    BY <2>14, LoadType DEF RecoverState, ForgetSamples, TypeOK, clock
  <2>15. CASE RecoverStateFails
    BY <2>15, LoadType DEF RecoverStateFails, Marked, TypeOK, clock
  <2>16. CASE Advance
    BY <2>16, ClockAssumption DEF Advance, TypeOK, memory, storage
  <2>17. CASE StepClock
    BY <2>17 DEF StepClock, TypeOK, memory, storage
  <2>18. CASE UNCHANGED vars
    BY <2>18 DEF TypeOK, vars, clock, memory, storage
  <2> QED
    BY <2>1, <2>2, <2>3, <2>4, <2>5, <2>6, <2>7, <2>8, <2>9, <2>10, <2>11,
       <2>12, <2>13, <2>14, <2>15, <2>16, <2>17, <2>18
    DEF Next, TickStep, Command
<1> QED
  BY <1>1, <1>2, PTL DEF Spec

-----------------------------------------------------------------------------
(* The device counter stays within an installed allowance *)

Bounded(s) == \E c \in Configs : s.device <= c.device

\* The handlers that build a state leave the device counter and the date alone.
LEMMA SameCounter ==
  ASSUME NEW s \in UsageState
  PROVE  /\ EndBreak(s).device = s.device /\ EndBreak(s).date = s.date
         /\ WithApps(s).device = s.device /\ WithApps(s).date = s.date
         /\ FileOf(s).state.device = s.device /\ FileOf(s).state.date = s.date
         /\ FileOf(s).present
  BY DEF UsageState, EndBreak, WithApps, FileOf

\* A new state has counted nothing.
LEMMA NewStateFields ==
  \A d \in Nat : NewState(d).device = 0 /\ NewState(d).date = d
  BY DEF NewState

\* A charge raises the device counter to at most the allowance in force.
LEMMA ChargedFields ==
  ASSUME TypeOK
  PROVE  /\ Charged.device = state.device + Charge /\ Charged.date = state.date
         /\ WithBreak.device = state.device + Charge /\ WithBreak.date = state.date
         /\ state.device + Charge <= cfg.device
         /\ Charge <= Whole
<1>1. Charged.device = state.device + Charge /\ Charged.date = state.date
  BY DEF TypeOK, UsageState, Charged
<1>2. WithBreak.device = Charged.device /\ WithBreak.date = Charged.date
  BY ChargedType DEF UsageState, WithBreak
<1>3. cfg.device \in Int /\ cfg.continuous \in Int
  BY ConfigAssumption DEF TypeOK, Config
<1>4. state.device + Charge <= cfg.device /\ Charge <= Whole
  BY <1>3, ChargeType DEF TypeOK, UsageState, Charge, Least
<1> QED
  BY <1>1, <1>2, <1>4

\* A new state is within every allowance.
LEMMA NewStateBounded == \A d \in Nat : Bounded(NewState(d))
<1>1. PICK c \in Configs : c \in Config
  BY ConfigAssumption
<1>2. 0 <= c.device
  BY <1>1 DEF Config
<1> QED
  BY <1>2, NewStateFields DEF Bounded

\* Writing a state keeps it within the allowance.
LEMMA SavedBounded == ASSUME NEW s \in UsageState, Bounded(s)
                      PROVE  Bounded(FileOf(s).state)
  BY SameCounter DEF Bounded

\* After a save the file is within an allowance, whether it failed or not.
LEMMA FileBounded ==
  ASSUME NEW s \in UsageState, Bounded(s), Bounded(disk.state),
         disk' = disk \/ disk' = FileOf(s)
  PROVE  Bounded(disk'.state)
  BY SavedBounded

\* What is loaded or recovered is within an allowance.
LEMMA LoadBounded == ASSUME TypeOK, Bounded(state), Bounded(disk.state)
                     PROVE  Bounded(LoadedState) /\ Bounded(Recovered)
  BY NewStateBounded, ClockType DEF LoadedState, Recovered

LimitInv == Bounded(state) /\ Bounded(disk.state)

\* For every set of configurations, every interleaving of ticks, commands,
\* crashes and failed writes, and every behaviour of the clocks, the device
\* counter is at most an allowance that was installed.
THEOREM DeviceNeverPastLimit == Spec => []DeviceWithinLimit
<1>1. Init => LimitInv
  <2>1. NoFile.state = NewState(0)
    BY DEF NoFile
  <2> QED
    BY <2>1, NewStateBounded DEF Init, LimitInv
<1>2. TypeOK /\ TypeOK' /\ LimitInv /\ [Next]_vars => LimitInv'
  <2> SUFFICES ASSUME TypeOK, TypeOK', Bounded(state), Bounded(disk.state), [Next]_vars
               PROVE  Bounded(state') /\ Bounded(disk'.state)
    BY DEF LimitInv, Bounded
  <2> USE NewStateBounded, ClockType
  <2>a. state \in UsageState /\ state' \in UsageState /\ disk.state \in UsageState
    BY DEF TypeOK, UsageFile
  <2>1. CASE Start
    BY <2>1, LoadBounded DEF Start, storage
  <2>2. CASE Stop
    <3>1. disk' = disk \/ disk' = FileOf(state)
      BY <2>2 DEF Stop, Save, storage
    <3> QED
      BY <2>2, <2>a, <3>1, FileBounded DEF Stop, Forget
  <2>3. CASE Crash
    BY <2>3 DEF Crash, Forget, storage
  <2>4. CASE TickInRecovery
    <3>1. disk' = disk \/ disk' = FileOf(state)
      BY <2>4 DEF TickInRecovery
    <3> QED
      BY <2>4, <2>a, <3>1, FileBounded DEF TickInRecovery
  <2>5. CASE TickRollback
    BY <2>5 DEF TickRollback
  <2>6. ASSUME NEW using \in BOOLEAN, NEW running \in SUBSET Apps, BeginTick(using, running)
        PROVE  Bounded(state') /\ Bounded(disk'.state)
    BY <2>6 DEF BeginTick, storage
  <2>7. CASE AccountBreak
    BY <2>7, <2>a, SameCounter DEF AccountBreak, storage, Bounded
  <2>8. CASE AccountCharge
    <3>1. state' \in {Charged, WithBreak}
      BY <2>8 DEF AccountCharge, Charged, WithBreak
    <3>2. Bounded(state')
      BY <3>1, ChargedFields DEF TypeOK, Bounded
    <3> QED
      BY <2>8, <3>2 DEF AccountCharge, storage
  <2>9. CASE AccountDone
    BY <2>9 DEF AccountDone, memory, storage
  <2>10. CASE FinishTick
    <3>1. AfterAccess \in UsageState /\ Bounded(AfterAccess)
      BY <2>a, EndBreakType, SameCounter DEF AfterAccess, Bounded
    <3>2. Bounded(state')
      BY <2>10, <3>1, SameCounter DEF FinishTick, Bounded
    <3>3. disk' = disk \/ disk' = FileOf(state')
      <4>1. Save(state')
        BY <2>10 DEF FinishTick
      <4> QED
        BY <4>1 DEF Save
    <3> QED
      BY <2>a, <3>2, <3>3, FileBounded
  <2>11. CASE Reload
    BY <2>11 DEF Reload, storage
  <2>12. CASE ResetUser
    <3>1. Bounded(state')
      BY <2>12, <2>a DEF ResetUser, UsageState
    <3>2. disk' = disk \/ disk' = FileOf(state')
      BY <2>12 DEF ResetUser, Save
    <3> QED
      BY <2>a, <3>1, <3>2, FileBounded
  <2>13. ASSUME NEW a \in Apps, ResetApp(a)
         PROVE  Bounded(state') /\ Bounded(disk'.state)
    <3>1. Bounded(state')
      BY <2>13, <2>a DEF ResetApp, UsageState, Bounded
    <3>2. disk' = disk \/ disk' = FileOf(state')
      BY <2>13 DEF ResetApp, Save
    <3> QED
      BY <2>a, <3>1, <3>2, FileBounded
  <2>14. CASE RecoverState
    BY <2>14, <2>a, LoadBounded, LoadType, SavedBounded DEF RecoverState
  <2>15. CASE RecoverStateFails
    <3>1. state' = state \/ state' = Recovered
      BY <2>15 DEF RecoverStateFails
    <3>2. disk' = disk \/ disk' = NoFile \/ disk' = FileOf(Recovered)
      BY <2>15 DEF RecoverStateFails
    <3>3. Bounded(NoFile.state)
      BY DEF NoFile
    <3> QED
      BY <3>1, <3>2, <3>3, LoadBounded, LoadType, SavedBounded
  <2>16. CASE Advance
    BY <2>16 DEF Advance, memory, storage
  <2>17. CASE StepClock
    BY <2>17 DEF StepClock, memory, storage
  <2>18. CASE UNCHANGED vars
    BY <2>18 DEF vars, memory, storage
  <2> QED
    BY <2>1, <2>2, <2>3, <2>4, <2>5, <2>6, <2>7, <2>8, <2>9, <2>10, <2>11,
       <2>12, <2>13, <2>14, <2>15, <2>16, <2>17, <2>18
    DEF Next, TickStep, Command
<1>3. LimitInv => DeviceWithinLimit
  BY DEF LimitInv, Bounded, DeviceWithinLimit
<1> QED
  BY <1>1, <1>2, <1>3, TypeCorrect, PTL DEF Spec

-----------------------------------------------------------------------------
(* The accounting loop ends *)

\* What the loop may still do: charge what is left of the daily allowance, take
\* back what exceeds a continuous allowance that was lowered, and begin or end a
\* break.
Excess == IF state.continuous > cfg.continuous THEN state.continuous - cfg.continuous ELSE 0

LeftToDo ==
  2 * ((cfg.device - state.device) + Excess)
  + (IF state.continuous >= cfg.continuous THEN 2 ELSE 0)
  + (IF state.onBreak THEN 1 ELSE 0)

\* An iteration is the last one or leaves less to do.
LoopAdvances ==
  pc = "account" => pc' # "account" \/ (LeftToDo' \in Nat /\ LeftToDo' < LeftToDo)

LEMMA ChargeAdvances ==
  ASSUME TypeOK, TypeOK', AccountCharge
  PROVE  LeftToDo' \in Nat /\ LeftToDo' < LeftToDo
<1>1. /\ state.device \in Int /\ state.continuous \in Int /\ ~state.onBreak
      /\ state'.device \in Int /\ state'.continuous \in Int
      /\ cfg.device \in Int /\ cfg.continuous \in Int /\ cfg.continuous >= 1
      /\ cfg' = cfg /\ Whole > 0 /\ state.device < cfg.device
      /\ Whole \in Int /\ Charge \in Int
  BY ConfigAssumption, ChargeType DEF TypeOK, UsageState, Config, AccountCharge, Chargeable
<1>2. /\ Charge <= cfg.device - state.device
      /\ Charge <= cfg.continuous - state.continuous
      /\ Charge >= 1 \/ Charge = cfg.continuous - state.continuous
  BY <1>1 DEF Charge, Least
<1>3. /\ Charged.device = state.device + Charge
      /\ Charged.continuous = state.continuous + Charge
      /\ ~Charged.onBreak
  BY <1>1 DEF TypeOK, UsageState, Charged
<1>4. WithBreak.device = Charged.device /\ WithBreak.continuous = 0
  BY ChargedType DEF UsageState, WithBreak
<1>5. state' = IF Charged.continuous >= cfg.continuous THEN WithBreak ELSE Charged
  BY DEF AccountCharge, Charged, WithBreak
<1>6. /\ state'.device = state.device + Charge
      /\ state'.continuous < cfg.continuous
      /\ state'.onBreak => state.continuous + Charge >= cfg.continuous
  <2>1. CASE Charged.continuous >= cfg.continuous
    BY <1>1, <1>3, <1>4, <1>5, <2>1
  <2>2. CASE ~(Charged.continuous >= cfg.continuous)
    BY <1>1, <1>3, <1>5, <2>2
  <2> QED
    BY <2>1, <2>2
<1>7. LeftToDo' = 2 * (cfg.device - state'.device) + (IF state'.onBreak THEN 1 ELSE 0)
  BY <1>1, <1>6 DEF LeftToDo, Excess
<1>8. CASE state.continuous < cfg.continuous
  <2>1. LeftToDo = 2 * (cfg.device - state.device)
    BY <1>1, <1>8 DEF LeftToDo, Excess
  <2>2. Charge >= 1
    BY <1>1, <1>2, <1>8
  <2> QED
    BY <1>1, <1>2, <1>6, <1>7, <2>1, <2>2
<1>9. CASE ~(state.continuous < cfg.continuous)
  <2>1. LeftToDo = 2 * ((cfg.device - state.device) + (state.continuous - cfg.continuous)) + 2
    BY <1>1, <1>9 DEF LeftToDo, Excess
  <2>2. Charge = cfg.continuous - state.continuous
    BY <1>1, <1>2, <1>9
  <2> QED
    BY <1>1, <1>2, <1>6, <1>7, <2>1, <2>2
<1> QED
  BY <1>8, <1>9

LEMMA BreakAdvances ==
  ASSUME TypeOK, AccountBreak, pc' = pc
  PROVE  LeftToDo' \in Nat /\ LeftToDo' < LeftToDo
<1>1. /\ state.device \in Int /\ state.continuous \in Int /\ state.onBreak
      /\ cfg.device \in Int /\ cfg.continuous \in Int /\ cfg.continuous >= 1
      /\ cfg' = cfg /\ state.device < cfg.device
  BY ConfigAssumption DEF TypeOK, UsageState, Config, AccountBreak, Chargeable
<1>2. state' = EndBreak(state)
  BY DEF AccountBreak
<1>3. state'.device = state.device /\ state'.continuous = 0 /\ ~state'.onBreak
  BY <1>2 DEF TypeOK, UsageState, EndBreak
<1>4. LeftToDo' = 2 * (cfg.device - state.device)
  BY <1>1, <1>3 DEF LeftToDo, Excess
<1>5. Excess \in Nat
  BY <1>1 DEF Excess
<1>6. LeftToDo \in Int /\ LeftToDo >= 2 * (cfg.device - state.device) + 1
  <2> DEFINE late == IF state.continuous >= cfg.continuous THEN 2 ELSE 0
  <2>1. late \in Nat
    OBVIOUS
  <2>2. LeftToDo = 2 * ((cfg.device - state.device) + Excess) + late + 1
    BY <1>1 DEF LeftToDo
  <2> HIDE DEF late
  <2> QED
    BY <1>1, <1>5, <2>1, <2>2
<1> QED
  BY <1>1, <1>4, <1>6

\* The loop of accountUserInterval, which runs under the mutex, cannot go round
\* forever: for every interval, every break that is over, still runs or begins,
\* and also when a reload has lowered the continuous allowance below what was used
\* of it, where one iteration charges a negative number of seconds.
THEOREM LoopAlwaysAdvances == Spec => [][LoopAdvances]_vars
<1>1. TypeOK /\ TypeOK' /\ [Next]_vars => [LoopAdvances]_vars
  <2> SUFFICES ASSUME TypeOK, TypeOK', Next, pc = "account", pc' = "account"
               PROVE  LeftToDo' \in Nat /\ LeftToDo' < LeftToDo
    BY DEF LoopAdvances
  <2>1. AccountBreak \/ AccountCharge
    BY DEF Next, TickStep, Command, TickInRecovery, TickRollback, BeginTick, AccountDone, FinishTick,
           Reload, ResetUser, ResetApp, RecoverState, RecoverStateFails, Start, Stop, Crash,
           Advance, StepClock
  <2> QED
    BY <2>1, ChargeAdvances, BreakAdvances
<1> QED
  BY <1>1, TypeCorrect, PTL DEF Spec
=============================================================================
