------------------------ MODULE DeviceElapsed_proofs ------------------------
(***************************************************************************)
(* When the clocks run together, what a day was charged fits between its   *)
(* midnight and the last sample.  The invariant adds to the promise that   *)
(* every instant the daemon remembers was read from the clocks, and that   *)
(* the accounting loop has only charged what lies before tick.from.  When  *)
(* the allowed hours stay, the charge lies inside them as well, and when   *)
(* the whole configuration stays, every continuous allowance of a day is   *)
(* followed by its break.                                                  *)
(***************************************************************************)
EXTENDS DeviceUsage_proofs

\* Neither a suspension nor an adjustment separates the two clocks.
ClocksRunTogether == ClockSteps = {}

\* An instant that has both readings has them from the same moment.
Synced(t) == t.hasMono => t.wall = t.mono + StartWall

\* Between synced instants Go's comparison is that of the wall readings.
LEMMA SyncedOrder ==
  ASSUME NEW s \in Instant, NEW t \in Instant, Synced(s), Synced(t)
  PROVE  /\ Sub(s, t) = s.wall - t.wall
         /\ Before(s, t) <=> s.wall < t.wall
  BY UnitsAssumption DEF Instant, Synced, Sub, Before

\* Moving a synced instant moves its wall reading.
LEMMA SyncedPlus ==
  ASSUME NEW t \in Instant, NEW d \in Int, Synced(t)
  PROVE  Synced(Plus(t, d)) /\ Plus(t, d).wall = t.wall + d
  BY UnitsAssumption DEF Instant, Synced, Plus

\* An instant without a monotonic reading is synced.
LEMMA SyncedWall ==
  \A w \in Int : Synced(WallOnly(w)) /\ WallOnly(w).wall = w
  BY DEF Synced, WallOnly

\* What a state was charged fits between the midnight of its date and w.
Fits(s, w) == /\ s.device * Second <= w - s.date * Day
              /\ s.date * Day <= w

ClocksInv == /\ wall = mono + StartWall
             /\ Synced(lastTick) /\ Synced(state.until) /\ Synced(disk.state.until)
             /\ Synced(tick.from) /\ Synced(tick.upto)

DaemonInv == pc # "down" => /\ Fits(state, wall)
                            /\ recovery = "none" => Fits(state, lastTick.wall)
                            /\ lastTick.wall <= wall

FileInv == disk.present => Fits(disk.state, wall)

LoopInv == pc = "account" =>
             /\ state.device * Second <= tick.from.wall - state.date * Day
             /\ tick.from.wall <= tick.upto.wall
             /\ tick.upto.wall <= lastTick.wall

TickInv == pc \in {"account", "finish"} => recovery = "none"

ElapsedInv == ClocksInv /\ DaemonInv /\ FileInv /\ LoopInv /\ TickInv

-----------------------------------------------------------------------------
\* The instants a tick starts from are synced.
LEMMA NowSynced ==
  ASSUME TypeOK, wall = mono + StartWall
  PROVE  /\ Synced(now) /\ now.wall = wall
         /\ Synced(Midnight) /\ Midnight.wall = Today * Day
         /\ Today * Day <= wall
         /\ Synced(NoInstant)
<1>1. Today \in Nat /\ Today * Day \in Int
  BY ClockType, UnitsAssumption
<1>2. Today * Day <= wall
  BY DivLower, UnitsAssumption DEF TypeOK, Today
<1>3. Synced(now) /\ now.wall = wall
  BY DEF Synced, now, Reading
<1> QED
  BY <1>1, <1>2, <1>3, SyncedWall DEF Midnight, NoInstant

\* A fresh state of a day fits at any later instant of that day.
LEMMA NewStateFits ==
  ASSUME NEW d \in Nat, NEW w \in Int, d * Day <= w
  PROVE  Fits(NewState(d), w)
  BY NewStateFields, UnitsAssumption DEF Fits

\* What fits at an instant fits at every later one.
LEMMA FitsLater ==
  ASSUME NEW s \in UsageState, NEW v \in Int, NEW w \in Int, v <= w, Fits(s, v)
  PROVE  Fits(s, w)
<1>1. s.device * Second \in Int /\ s.date * Day \in Int
  BY UnitsAssumption DEF UsageState
<1> QED
  BY <1>1 DEF Fits

\* A tick charges nothing before the previous tick nor, on a new day, before
\* its midnight.
LEMMA ChargeFromLater ==
  ASSUME TypeOK, ClocksInv, lastTick.wall <= wall
  PROVE  /\ Synced(ChargeFrom)
         /\ lastTick.wall <= ChargeFrom.wall
         /\ state.date < Today => Today * Day <= ChargeFrom.wall
<1> DEFINE today == IF state.date < Today /\ Before(lastTick, Midnight)
                    THEN Midnight ELSE lastTick
           notNew == IF Before(now, today) THEN now ELSE today
<1>1. /\ Synced(now) /\ now.wall = wall /\ now \in Instant
      /\ Synced(Midnight) /\ Midnight.wall = Today * Day /\ Midnight \in Instant
      /\ Today * Day <= wall /\ Today * Day \in Int /\ wall \in Int
      /\ Synced(lastTick) /\ lastTick \in Instant /\ lastTick.wall \in Int
      /\ Longest \in Int
  BY NowSynced, ClockType, UnitsAssumption, ConfigAssumption
  DEF ClocksInv, TypeOK, Instant, Longest, Config
<1>2. Before(lastTick, Midnight) <=> lastTick.wall < Midnight.wall
  BY <1>1, SyncedOrder
<1>3. /\ Synced(today) /\ today \in Instant /\ today.wall <= wall
      /\ lastTick.wall <= today.wall
      /\ state.date < Today => Today * Day <= today.wall
  BY <1>1, <1>2
<1>4. ~Before(now, today)
  <2> HIDE DEF today
  <2> QED
    BY <1>1, <1>3, SyncedOrder DEF Instant
<1>5. notNew = today
  BY <1>4
<1>6. ChargeFrom = IF Sub(now, today) > Longest THEN Plus(now, -Longest) ELSE today
  BY <1>5 DEF ChargeFrom
<1>7. Sub(now, today) = wall - today.wall
  <2> HIDE DEF today
  <2> QED
    BY <1>1, <1>3, SyncedOrder
<1>8. Synced(Plus(now, -Longest)) /\ Plus(now, -Longest).wall = wall - Longest
  BY <1>1, SyncedPlus
<1> QED
  <2> HIDE DEF today
  <2> QED
    BY <1>1, <1>3, <1>6, <1>7, <1>8 DEF Instant

\* Clipping to the window only shortens an interval.
LEMMA IntervalInside ==
  ASSUME NEW from \in Instant, NEW upto \in Instant, NEW c \in Config,
         Synced(from), Synced(upto)
  PROVE  LET i == AccountingInterval(from, upto, c)
         IN  /\ Synced(i.from) /\ Synced(i.upto)
             /\ from.wall <= i.from.wall /\ i.upto.wall <= upto.wall
             /\ i.eligible => i.from.wall < i.upto.wall
<1> DEFINE dayStart == (upto.wall \div Day) * Day
           opens == WallOnly(dayStart + c.from)
           closes == WallOnly(dayStart + c.until)
           first == IF ~c.allDay /\ Before(from, opens) THEN opens ELSE from
           last == IF ~c.allDay /\ Before(closes, upto) THEN closes ELSE upto
<1>1. dayStart \in Int
  BY DivLower, UnitsAssumption DEF Instant
<1>2. dayStart + c.from \in Int /\ dayStart + c.until \in Int
  <2>1. c.from \in Int /\ c.until \in Int
    BY DEF Config
  <2> QED
    BY <1>1, <2>1
<1>3. opens \in Instant /\ closes \in Instant /\ Synced(opens) /\ Synced(closes)
  <2> HIDE DEF dayStart
  <2> QED
    BY <1>2, InstantType, SyncedWall
<1>4. /\ first \in Instant /\ Synced(first) /\ from.wall <= first.wall
      /\ last \in Instant /\ Synced(last) /\ last.wall <= upto.wall
  <2> HIDE DEF opens, closes
  <2> QED
    BY <1>3, SyncedOrder DEF Instant
<1>5. Before(first, last) => first.wall < last.wall
  <2> HIDE DEF first, last
  <2> QED
    BY <1>4, SyncedOrder DEF Instant
<1>6. /\ AccountingInterval(from, upto, c).from = first
      /\ AccountingInterval(from, upto, c).upto = last
  BY DEF AccountingInterval
<1>7. AccountingInterval(from, upto, c).eligible => Before(first, last)
  BY DEF AccountingInterval
<1> QED
  <2> HIDE DEF first, last
  <2> QED
    BY <1>4, <1>5, <1>6, <1>7

-----------------------------------------------------------------------------
\* A charge moves the counter and the instant it starts from together.
LEMMA ChargeFits ==
  ASSUME TypeOK, ElapsedInv, pc = "account",
         NEW s \in {Charged, WithBreak}
  PROVE  LET from == Plus(tick.from, Charge * Second)
         IN  /\ Synced(from)
             /\ s.device * Second <= from.wall - s.date * Day
             /\ from.wall <= tick.upto.wall
<1>1. /\ tick.from \in Instant /\ tick.upto \in Instant
      /\ Synced(tick.from) /\ Synced(tick.upto)
      /\ state.device \in Int /\ state.date \in Nat
  BY DEF TypeOK, TickLocals, UsageState, ElapsedInv, ClocksInv
<1>2. /\ Charge \in Int /\ Whole \in Int /\ Charge <= Whole
      /\ s.device = state.device + Charge /\ s.date = state.date
  BY ChargedFields, ChargeType
<1>3. Charge * Second \in Int /\ state.device * Second \in Int /\ state.date * Day \in Int
      /\ Whole * Second \in Int
  BY <1>1, <1>2, UnitsAssumption
<1>4. s.device * Second = state.device * Second + Charge * Second
  BY <1>1, <1>2, MulPlus, UnitsAssumption
<1>5. Charge * Second <= Whole * Second
  BY <1>2, MulMonotone, UnitsAssumption
<1>6. Whole * Second <= tick.upto.wall - tick.from.wall
  <2>1. Sub(tick.upto, tick.from) = tick.upto.wall - tick.from.wall
    BY <1>1, SyncedOrder
  <2>2. tick.upto.wall - tick.from.wall \in Int
    BY <1>1 DEF Instant
  <2> QED
    BY <2>1, <2>2, DivLower, UnitsAssumption DEF Whole
<1>7. /\ Synced(Plus(tick.from, Charge * Second))
      /\ Plus(tick.from, Charge * Second).wall = tick.from.wall + Charge * Second
  BY <1>1, <1>3, SyncedPlus
<1>8. /\ state.device * Second <= tick.from.wall - state.date * Day
      /\ tick.from.wall \in Int /\ tick.upto.wall \in Int
  BY <1>1 DEF ElapsedInv, LoopInv, Instant
<1> QED
  BY <1>2, <1>3, <1>4, <1>5, <1>6, <1>7, <1>8

\* The break a charge starts ends at a synced instant.
LEMMA ChargedSynced ==
  ASSUME TypeOK, ElapsedInv, pc = "account"
  PROVE  Synced(Charged.until) /\ Synced(WithBreak.until)
<1>1. Synced(Charged.until)
  BY DEF Charged, TypeOK, UsageState, ElapsedInv, ClocksInv
<1>2. cfg.break * Second \in Int
  BY UnitsAssumption, ConfigAssumption DEF TypeOK, Config
<1>3. Synced(Plus(Plus(tick.from, Charge * Second), cfg.break * Second))
  BY <1>2, ChargedType, ChargeFits, SyncedPlus
<1>4. WithBreak.until = Plus(Plus(tick.from, Charge * Second), cfg.break * Second)
  BY ChargedType DEF WithBreak, UsageState
<1> QED
  BY <1>1, <1>3, <1>4

\* What the handlers keep of a state keeps it fitting and synced.
LEMMA KeptState ==
  ASSUME NEW s \in UsageState, NEW w \in Int, wall = mono + StartWall, TypeOK
  PROVE  /\ Fits(s, w) => /\ Fits(EndBreak(s), w) /\ Fits(WithApps(s), w)
                          /\ Fits(FileOf(s).state, w)
         /\ Synced(EndBreak(s).until)
         /\ Synced(s.until) => Synced(WithApps(s).until)
         /\ Synced(FileOf(s).state.until)
<1>1. EndBreak(s).until = NoInstant /\ WithApps(s).until = s.until
  BY DEF UsageState, EndBreak, WithApps
<1>2. FileOf(s).state.until = Stored(s.until)
  BY DEF UsageState, FileOf
<1>3. Synced(Stored(s.until))
  BY SyncedWall DEF Stored, UsageState, Instant
<1> QED
  BY <1>1, <1>2, <1>3, NowSynced, SameCounter DEF Fits

\* What Start and recover-state make of the disk.
LEMMA LoadFits ==
  ASSUME TypeOK, ClocksInv, FileInv
  PROVE  /\ Fits(LoadedState, wall) /\ Synced(LoadedState.until)
         /\ Fits(NewState(Today), wall) /\ Synced(NewState(Today).until)
<1>1. Today \in Nat /\ Today * Day <= wall /\ wall \in Int /\ Synced(NoInstant)
  BY NowSynced, ClockType DEF ClocksInv, TypeOK
<1>2. Fits(NewState(Today), wall)
  BY <1>1, NewStateFits
<1>3. Synced(NewState(Today).until)
  BY <1>1 DEF NewState
<1> QED
  BY <1>2, <1>3 DEF LoadedState, FileInv, ClocksInv

\* The files a handler may leave behind still fit.
LEMMA SaveFits ==
  ASSUME TypeOK, ClocksInv, FileInv, NEW s \in UsageState, Fits(s, wall),
         disk' = disk \/ disk' = FileOf(s)
  PROVE  /\ Synced(disk'.state.until)
         /\ disk'.present => Fits(disk'.state, wall)
<1>1. wall \in Int /\ wall = mono + StartWall
  BY DEF TypeOK, ClocksInv
<1> QED
  BY <1>1, KeptState DEF ClocksInv, FileInv

\* The invariant holds while the clocks run together.
LEMMA ElapsedHolds == ASSUME ClocksRunTogether PROVE Spec => []ElapsedInv
<1>1. Init => ElapsedInv
  <2> SUFFICES ASSUME Init PROVE ElapsedInv
    OBVIOUS
  <2>1. wall = mono + StartWall
    BY UnitsAssumption DEF Init
  <2>2. /\ Synced(NoInstant) /\ Synced(NewState(0).until) /\ Synced(NoFile.state.until)
        /\ Synced(NoTick.from) /\ Synced(NoTick.upto) /\ ~NoFile.present
    BY SyncedWall DEF NewState, NoFile, NoTick, NoInstant
  <2> QED
    BY <2>1, <2>2 DEF Init, ElapsedInv, ClocksInv, DaemonInv, FileInv, LoopInv, TickInv
<1>2. TypeOK /\ TypeOK' /\ ElapsedInv /\ [Next]_vars => ElapsedInv'
  <2> SUFFICES ASSUME TypeOK, TypeOK', ElapsedInv, [Next]_vars PROVE ElapsedInv'
    OBVIOUS
  <2> USE DEF ElapsedInv, ClocksInv, DaemonInv, FileInv, LoopInv, TickInv
  <2>a. /\ state \in UsageState /\ state' \in UsageState /\ disk.state \in UsageState
        /\ wall \in Int /\ lastTick.wall \in Int /\ lastTick'.wall \in Int
    BY DEF TypeOK, UsageFile, Instant
  <2>b. /\ Synced(now) /\ now.wall = wall /\ Synced(NoInstant)
        /\ Synced(NewState(0).until) /\ Synced(NoTick.from) /\ Synced(NoTick.upto)
    BY NowSynced DEF NewState, NoTick
  <2>c. pc # "down" => Fits(state, wall)
    BY <2>a, FitsLater
  <2>1. CASE Start
    BY <2>1, <2>a, <2>b, LoadFits DEF Start, storage, clock
  <2>2. CASE Stop
    <3>1. disk' = disk \/ disk' = FileOf(state)
      BY <2>2 DEF Stop, Save, storage
    <3>2. Fits(state, wall)
      BY <2>2, <2>c DEF Stop
    <3> QED
      BY <2>2, <2>a, <2>b, <3>1, <3>2, SaveFits DEF Stop, Forget, clock
  <2>3. CASE Crash
    BY <2>3, <2>b DEF Crash, Forget, clock, storage
  <2>4. CASE TickInRecovery
    <3>1. (disk' = disk \/ disk' = FileOf(state)) /\ Fits(state, wall)
      BY <2>4, <2>c DEF TickInRecovery
    <3>2. lastTick' = now \/ lastTick' = lastTick
      BY <2>4 DEF TickInRecovery
    <3> QED
      BY <2>4, <2>a, <2>b, <3>1, <3>2, SaveFits DEF TickInRecovery, clock
  <2>5. CASE TickRollback
    BY <2>5 DEF TickRollback, clock
  <2>6. ASSUME NEW using \in BOOLEAN, NEW running \in SUBSET Apps, BeginTick(using, running)
        PROVE  ElapsedInv'
    <3> DEFINE i == AccountingInterval(ChargeFrom, now, cfg)
    <3>1. /\ pc = "idle" /\ recovery = "none" /\ recovery' = "none"
          /\ state.date <= Today /\ lastTick.wall <= wall
      BY <2>6 DEF BeginTick
    <3>2. /\ Synced(ChargeFrom) /\ ChargeFrom \in Instant
          /\ lastTick.wall <= ChargeFrom.wall
          /\ state.date < Today => Today * Day <= ChargeFrom.wall
      BY <3>1, ChargeFromLater, ChargeFromType
    <3>3. /\ Synced(i.from) /\ Synced(i.upto) /\ i.from \in Instant
          /\ ChargeFrom.wall <= i.from.wall /\ i.upto.wall <= wall
          /\ i.eligible => i.from.wall <= i.upto.wall
      <4>1. Synced(now) /\ now \in Instant /\ now.wall = wall /\ cfg \in Config
        BY <2>b, ClockType, ConfigAssumption DEF TypeOK
      <4>2. i.from \in Instant /\ i.upto \in Instant
        BY <3>2, <4>1, IntervalType
      <4>3. i.from.wall \in Int /\ i.upto.wall \in Int
        BY <4>2 DEF Instant
      <4>4. /\ Synced(i.from) /\ Synced(i.upto)
            /\ ChargeFrom.wall <= i.from.wall /\ i.upto.wall <= wall
            /\ i.eligible => i.from.wall < i.upto.wall
        BY <3>2, <4>1, IntervalInside
      <4> HIDE DEF i
      <4> QED
        BY <4>2, <4>3, <4>4
    <3>4. /\ tick'.from = i.from /\ tick'.upto = i.upto /\ lastTick' = now
          /\ state' = IF state.date < Today THEN NewState(Today) ELSE state
          /\ pc' = "account" => i.eligible
      <4> HIDE DEF i
      <4> QED
        BY <2>6 DEF BeginTick, i
    <3>5. Today \in Nat /\ Today * Day \in Int /\ Today * Day <= wall
      BY NowSynced, ClockType, UnitsAssumption
    <3>6. Fits(state', wall) /\ Synced(state'.until)
      <4>1. CASE state.date < Today
        BY <4>1, <3>4, <3>5, <2>a, <2>b, NewStateFits DEF NewState
      <4>2. CASE ~(state.date < Today)
        BY <4>2, <3>1, <3>4, <2>c
      <4> QED
        BY <4>1, <4>2
    <3>7. state'.device * Second <= ChargeFrom.wall - state'.date * Day
      <4>1. CASE state.date < Today
        <5>1. state'.device = 0 /\ state'.date = Today
          BY <4>1, <3>4, <3>5, NewStateFields
        <5> QED
          BY <5>1, <4>1, <3>2, <3>5, UnitsAssumption DEF Instant
      <4>2. CASE ~(state.date < Today)
        <5>1. state' = state /\ Fits(state, lastTick.wall)
          BY <4>2, <3>1, <3>4
        <5>2. state.device * Second \in Int /\ state.date * Day \in Int
          BY <2>a, UnitsAssumption DEF UsageState
        <5> QED
          BY <5>1, <5>2, <3>2, <2>a DEF Fits, Instant
      <4> QED
        BY <4>1, <4>2
    <3>8. state'.device * Second <= i.from.wall - state'.date * Day
      <4>1. state'.device * Second \in Int /\ state'.date * Day \in Int
        BY <2>a, UnitsAssumption DEF UsageState
      <4> HIDE DEF i
      <4> QED
        BY <3>2, <3>3, <3>7, <4>1 DEF Instant
    <3> HIDE DEF i
    <3> QED
      BY <2>6, <2>a, <2>b, <3>3, <3>4, <3>6, <3>8 DEF BeginTick, clock, storage
  <2>7. CASE AccountBreak
    <3>1. pc = "account" /\ state.onBreak /\ UNCHANGED <<wall, mono, lastTick, recovery, disk>>
      BY <2>7 DEF AccountBreak, clock, storage
    <3>2. CASE UNCHANGED <<state, tick>> /\ pc' = "finish"
      BY <3>1, <3>2
    <3>3. CASE /\ state' = EndBreak(state) /\ pc' = pc
               /\ tick' = [tick EXCEPT !.from =
                              IF Before(tick.from, state.until) THEN state.until ELSE @]
               /\ Before(tick.from, state.until) => Before(state.until, tick.upto)
      <4>1. /\ tick'.upto = tick.upto
            /\ tick'.from = IF Before(tick.from, state.until) THEN state.until ELSE tick.from
        BY <3>3 DEF TypeOK, TickLocals
      <4>2. /\ tick.from \in Instant /\ tick.upto \in Instant /\ state.until \in Instant
        BY DEF TypeOK, TickLocals, UsageState
      <4>3. /\ Synced(tick'.from) /\ tick.from.wall <= tick'.from.wall
            /\ tick'.from.wall <= tick.upto.wall
        BY <3>1, <3>3, <4>1, <4>2, SyncedOrder DEF Instant
      <4>4. state'.device = state.device /\ state'.date = state.date /\ Synced(state'.until)
        BY <3>3, <2>a, KeptState, SameCounter
      <4>5. state.device * Second \in Int /\ state.date * Day \in Int
        BY <2>a, UnitsAssumption DEF UsageState
      <4>6. state'.device * Second <= tick'.from.wall - state'.date * Day
        BY <3>1, <4>1, <4>2, <4>3, <4>4, <4>5 DEF Instant
      <4> QED
        BY <3>1, <3>3, <4>1, <4>3, <4>4, <4>6 DEF Fits
    <3> QED
      BY <2>7, <3>2, <3>3 DEF AccountBreak
  <2>8. CASE AccountCharge
    <3>1. /\ state' \in {Charged, WithBreak} /\ pc = "account" /\ pc' = "account"
          /\ UNCHANGED <<wall, mono, lastTick, recovery, disk>>
      BY <2>8 DEF AccountCharge, Charged, WithBreak, clock, storage
    <3>2. tick'.from = Plus(tick.from, Charge * Second) /\ tick'.upto = tick.upto
      BY <2>8 DEF AccountCharge, TypeOK, TickLocals
    <3>3. /\ Synced(tick'.from)
          /\ state'.device * Second <= tick'.from.wall - state'.date * Day
          /\ tick'.from.wall <= tick.upto.wall
      BY <3>1, <3>2, ChargeFits
    <3>4. state'.date = state.date /\ Synced(state'.until)
      BY <3>1, ChargedFields, ChargedSynced
    <3>5. Fits(state', lastTick.wall) /\ Fits(state', wall)
      <4>1. /\ state'.device * Second \in Int /\ state'.date * Day \in Int
            /\ tick'.from.wall \in Int /\ tick.upto.wall \in Int
        BY <2>a, UnitsAssumption DEF UsageState, TypeOK, TickLocals, Instant
      <4> QED
        BY <3>1, <3>3, <3>4, <4>1, <2>a DEF Fits
    <3> QED
      BY <3>1, <3>2, <3>3, <3>4, <3>5
  <2>9. CASE AccountDone
    BY <2>9 DEF AccountDone, memory, storage, clock
  <2>10. CASE FinishTick
    <3>1. /\ AfterAccess \in UsageState /\ Synced(AfterAccess.until)
          /\ Fits(AfterAccess, lastTick.wall)
      BY <2>10, <2>a, EndBreakType, KeptState DEF AfterAccess, FinishTick
    <3>2. state' = WithApps(AfterAccess) /\ lastTick' = lastTick /\ Save(state')
          /\ tick' = NoTick /\ UNCHANGED <<wall, mono>> /\ pc' = "idle"
      BY <2>10 DEF FinishTick, clock
    <3>3. Fits(state', lastTick.wall) /\ Synced(state'.until)
      BY <2>a, <3>1, <3>2, KeptState
    <3>4. lastTick.wall <= wall
      BY <2>10 DEF FinishTick
    <3>5. Fits(state', wall)
      BY <2>a, <3>3, <3>4, FitsLater
    <3>6. disk' = disk \/ disk' = FileOf(state')
      BY <3>2 DEF Save
    <3> QED
      BY <2>a, <2>b, <3>2, <3>3, <3>4, <3>5, <3>6, SaveFits
  <2>11. CASE Reload
    BY <2>11 DEF Reload, storage, clock
  <2>12. CASE ResetUser
    <3>1. /\ Fits(state', lastTick.wall) /\ Synced(state'.until)
          /\ lastTick.wall <= wall
      BY <2>12, <2>a, <2>b, NewStateFits DEF ResetUser, Fits, UsageState, NewState
    <3>2. disk' = disk \/ disk' = FileOf(state')
      BY <2>12 DEF ResetUser, Save
    <3>3. Fits(state', wall)
      BY <2>a, <3>1, FitsLater
    <3> QED
      BY <2>12, <2>a, <3>1, <3>2, <3>3, SaveFits DEF ResetUser, clock
  <2>13. ASSUME NEW a \in Apps, ResetApp(a) PROVE ElapsedInv'
    <3>1. /\ state'.device = state.device /\ state'.date = state.date
          /\ state'.until = state.until
      BY <2>13, <2>a DEF ResetApp, UsageState
    <3>2. disk' = disk \/ disk' = FileOf(state')
      BY <2>13 DEF ResetApp, Save
    <3>3. Fits(state', lastTick.wall) /\ Fits(state', wall)
      BY <2>13, <2>c, <3>1 DEF Fits, ResetApp
    <3> QED
      BY <2>13, <2>a, <3>1, <3>2, <3>3, SaveFits DEF ResetApp, clock
  <2>14. CASE RecoverState
    <3>1. Recovered \in UsageState /\ Fits(Recovered, wall) /\ Synced(Recovered.until)
      BY <2>14, <2>c, LoadFits, LoadType DEF Recovered, RecoverState
    <3> QED
      BY <2>14, <2>a, <2>b, <3>1, KeptState DEF RecoverState, clock
  <2>15. CASE RecoverStateFails
    <3>1. Recovered \in UsageState /\ Fits(Recovered, wall) /\ Synced(Recovered.until)
      BY <2>15, <2>c, LoadFits, LoadType DEF Recovered, RecoverStateFails
    <3>2. state' = state \/ state' = Recovered
      BY <2>15 DEF RecoverStateFails
    <3>3. disk' = disk \/ disk' = NoFile \/ disk' = FileOf(Recovered)
      BY <2>15 DEF RecoverStateFails
    <3>4. ~NoFile.present /\ Synced(NoFile.state.until)
      BY <2>b DEF NoFile
    <3>5. /\ pc = "idle" /\ pc' = "idle"
          /\ UNCHANGED <<wall, mono, lastTick, tick>>
      BY <2>15 DEF RecoverStateFails, clock
    <3>6. recovery' = recovery /\ recovery # "none"
      BY <2>15 DEF RecoverStateFails
    <3>7. Fits(state', wall) /\ Synced(state'.until)
      BY <2>c, <3>1, <3>2, <3>5
    <3>8. /\ Synced(disk'.state.until)
          /\ disk'.present => Fits(disk'.state, wall)
      BY <2>a, <3>1, <3>3, <3>4, SaveFits
    <3> QED
      BY <2>a, <3>5, <3>6, <3>7, <3>8
  <2>16. CASE Advance
    <3>1. /\ wall \in Int /\ wall' \in Int /\ wall <= wall' /\ wall' = mono' + StartWall
          /\ UNCHANGED <<pc, state, lastTick, recovery, disk, tick>>
      BY <2>16, ClockAssumption, UnitsAssumption DEF Advance, memory, storage, TypeOK
    <3>2. /\ disk.present => Fits(disk.state, wall')
          /\ pc # "down" => Fits(state, wall')
      BY <3>1, <2>a, <2>c, FitsLater
    <3> QED
      BY <3>1, <3>2, <2>a
  <2>17. CASE StepClock
    BY <2>17 DEF StepClock, ClocksRunTogether
  <2>18. CASE UNCHANGED vars
    BY <2>18 DEF vars, clock, memory, storage
  <2> QED
    BY <2>1, <2>2, <2>3, <2>4, <2>5, <2>6, <2>7, <2>8, <2>9, <2>10, <2>11,
       <2>12, <2>13, <2>14, <2>15, <2>16, <2>17, <2>18
    DEF Next, TickStep, Command
<1> QED
  BY <1>1, <1>2, TypeCorrect, PTL DEF Spec

\* While the clocks run together, for every length of a day, every polling
\* interval and every sequence of ticks, commands, crashes and failed writes,
\* a day's charge fits between its midnight and the last sample.
THEOREM NothingChargedTwice ==
  ASSUME ClocksRunTogether PROVE Spec => []UsageWithinElapsed
<1>1. ElapsedInv => UsageWithinElapsed
  BY DEF ElapsedInv, DaemonInv, Fits, UsageWithinElapsed, Sampled
<1> QED
  BY <1>1, ClocksRunTogether, ElapsedHolds, PTL

-----------------------------------------------------------------------------
(* The allowed hours *)

\* Reloads leave the allowed hours alone.
OneWindow == \A c, d \in Configs : c.allDay = d.allDay /\ c.from = d.from /\ c.until = d.until

\* How much of the hours of a state's day has passed at w.
Passed(s, w, c) == LET passed == Least(w - s.date * Day, c.until) - c.from
                   IN  IF passed < 0 THEN 0 ELSE passed

\* What a state was charged lies inside the allowed hours that have passed at w.
InHours(s, w) == \A c \in Configs : ~c.allDay => s.device * Second <= Passed(s, w, c)

\* The state, at the last sample or, in recovery, now; the file; and the loop,
\* which runs inside the hours of the day.
HoursInv ==
  /\ pc # "down" => InHours(state, wall)
  /\ pc # "down" /\ recovery = "none" => InHours(state, lastTick.wall)
  /\ disk.present => InHours(disk.state, wall)
  /\ pc = "account" => \A c \in Configs : ~c.allDay =>
       /\ state.device * Second <= tick.from.wall - (state.date * Day + c.from)
       /\ tick.upto.wall <= state.date * Day + c.until

\* The types of what these statements compute with.
LEMMA HoursTypes ==
  ASSUME NEW s \in UsageState, NEW c \in Configs
  PROVE  /\ s.device * Second \in Int /\ s.date * Day \in Int
         /\ c.from \in Nat /\ c.until \in Nat
  BY UnitsAssumption, ConfigAssumption DEF UsageState, Config

\* The hours that have passed only grow.
LEMMA HoursLater ==
  ASSUME NEW s \in UsageState, NEW v \in Int, NEW w \in Int, v <= w, InHours(s, v)
  PROVE  InHours(s, w)
<1> SUFFICES ASSUME NEW c \in Configs, ~c.allDay PROVE s.device * Second <= Passed(s, w, c)
  BY DEF InHours
<1>1. s.device * Second <= Passed(s, v, c)
  BY DEF InHours
<1> QED
  BY <1>1, HoursTypes DEF Passed, Least

\* A state that was charged nothing is inside any hours.
LEMMA NothingInHours ==
  ASSUME NEW s \in UsageState, s.device = 0, NEW w \in Int
  PROVE  InHours(s, w)
<1> SUFFICES ASSUME NEW c \in Configs, ~c.allDay PROVE s.device * Second <= Passed(s, w, c)
  BY DEF InHours
<1>1. s.device * Second = 0
  BY UnitsAssumption
<1> QED
  BY <1>1, HoursTypes DEF Passed, Least

\* What was charged up to an instant inside the hours is inside them.
LEMMA ChargedInHours ==
  ASSUME NEW s \in UsageState, NEW w \in Int, NEW t \in Int, t <= w,
         \A c \in Configs : ~c.allDay =>
           /\ s.device * Second <= t - (s.date * Day + c.from)
           /\ t <= s.date * Day + c.until
  PROVE  InHours(s, w)
<1> SUFFICES ASSUME NEW c \in Configs, ~c.allDay PROVE s.device * Second <= Passed(s, w, c)
  BY DEF InHours
<1> QED
  BY HoursTypes DEF Passed, Least

\* The clipped interval is inside the hours of the day it ends in.
LEMMA IntervalInHours ==
  ASSUME TypeOK, NEW from \in Instant, Synced(from), wall = mono + StartWall, ~cfg.allDay
  PROVE  LET i == AccountingInterval(from, now, cfg)
         IN  /\ Today * Day + cfg.from <= i.from.wall
             /\ i.upto.wall <= Today * Day + cfg.until
<1> DEFINE opens == WallOnly(Today * Day + cfg.from)
           closes == WallOnly(Today * Day + cfg.until)
           first == IF Before(from, opens) THEN opens ELSE from
           last == IF Before(closes, now) THEN closes ELSE now
<1>1. now.wall = wall /\ Synced(now) /\ now \in Instant
  BY NowSynced, ClockType
<1>2. Today * Day + cfg.from \in Int /\ Today * Day + cfg.until \in Int
  BY ClockType, UnitsAssumption, ConfigAssumption DEF TypeOK, Config
<1>3. /\ opens \in Instant /\ Synced(opens) /\ opens.wall = Today * Day + cfg.from
      /\ closes \in Instant /\ Synced(closes) /\ closes.wall = Today * Day + cfg.until
  BY <1>2, InstantType, SyncedWall
<1>4. /\ AccountingInterval(from, now, cfg).from = first
      /\ AccountingInterval(from, now, cfg).upto = last
  BY <1>1 DEF AccountingInterval, Today
<1> HIDE DEF opens, closes
<1>5. first.wall >= opens.wall /\ last.wall <= closes.wall
  BY <1>1, <1>3, SyncedOrder DEF Instant
<1> HIDE DEF first, last
<1> QED
  BY <1>3, <1>4, <1>5

\* The parts of the handlers keep a state inside its hours.
LEMMA KeptInHours ==
  ASSUME NEW s \in UsageState, NEW w \in Int, InHours(s, w)
  PROVE  InHours(EndBreak(s), w) /\ InHours(WithApps(s), w) /\ InHours(FileOf(s).state, w)
  BY SameCounter DEF InHours, Passed

\* What a restart loads, and recover-state restores, is inside its hours.
LEMMA LoadInHours ==
  ASSUME TypeOK, disk.present => InHours(disk.state, wall)
  PROVE  InHours(LoadedState, wall) /\ InHours(NewState(Today), wall)
<1>1. Today \in Nat /\ wall \in Int
  BY ClockType DEF TypeOK
<1>2. NewState(Today) \in UsageState /\ NewState(Today).device = 0
  BY <1>1, NewStateType, NewStateFields
<1> QED
  BY <1>1, <1>2, NothingInHours DEF LoadedState

\* A charge stays inside the hours.
LEMMA ChargeInHours ==
  ASSUME TypeOK, TypeOK', ElapsedInv, HoursInv, AccountCharge
  PROVE  HoursInv'
<1>1. /\ pc = "account" /\ pc' = "account" /\ state' \in {Charged, WithBreak}
      /\ UNCHANGED <<wall, mono, lastTick, recovery, disk>>
  BY DEF AccountCharge, Charged, WithBreak, clock, storage
<1>2. tick'.from = Plus(tick.from, Charge * Second) /\ tick'.upto = tick.upto
  BY DEF AccountCharge, TypeOK, TickLocals
<1>3. /\ tick.from \in Instant /\ tick.upto \in Instant /\ tick.from.wall \in Int
      /\ tick.upto.wall \in Int /\ state \in UsageState /\ state' \in UsageState
      /\ Charge \in Int /\ Charge * Second \in Int /\ wall \in Int /\ lastTick.wall \in Int
  BY ChargeType, UnitsAssumption DEF TypeOK, TickLocals, Instant
<1>4. state'.device = state.device + Charge /\ state'.date = state.date
  BY <1>1, ChargedFields
<1>5. tick'.from.wall = tick.from.wall + Charge * Second
  BY <1>2, <1>3, SyncedPlus DEF ElapsedInv, ClocksInv
<1>6. state'.device * Second = state.device * Second + Charge * Second
  <2>1. state.device \in Int
    BY <1>3 DEF UsageState
  <2> QED
    BY <1>3, <1>4, <2>1, MulPlus, UnitsAssumption
<1>7. tick'.from.wall <= tick.upto.wall /\ tick.upto.wall <= lastTick.wall /\ lastTick.wall <= wall
  <2>1. tick'.from.wall <= tick.upto.wall
    BY <1>1, <1>2, ChargeFits
  <2> QED
    BY <1>1, <2>1 DEF ElapsedInv, LoopInv, DaemonInv
<1>8. ASSUME NEW c \in Configs, ~c.allDay
      PROVE  /\ state'.device * Second <= tick'.from.wall - (state'.date * Day + c.from)
             /\ tick'.upto.wall <= state'.date * Day + c.until
  <2>1. /\ state.device * Second <= tick.from.wall - (state.date * Day + c.from)
        /\ tick.upto.wall <= state.date * Day + c.until
    BY <1>1, <1>8 DEF HoursInv
  <2>2. /\ state.device * Second \in Int /\ state.date * Day \in Int
        /\ c.from \in Int /\ c.until \in Int
    BY <1>3, HoursTypes
  <2> QED
    BY <1>2, <1>3, <1>4, <1>5, <1>6, <2>1, <2>2
<1>9. tick'.from.wall \in Int
  BY <1>3, <1>5
<1>10. InHours(state', lastTick.wall) /\ InHours(state', wall)
  <2>1. \A c \in Configs : ~c.allDay =>
          /\ state'.device * Second <= tick'.from.wall - (state'.date * Day + c.from)
          /\ tick'.from.wall <= state'.date * Day + c.until
    <3> SUFFICES ASSUME NEW c \in Configs, ~c.allDay
                 PROVE  /\ state'.device * Second <= tick'.from.wall - (state'.date * Day + c.from)
                        /\ tick'.from.wall <= state'.date * Day + c.until
      OBVIOUS
    <3>1. state'.date * Day + c.until \in Int
      BY <1>3, HoursTypes
    <3> QED
      BY <1>2, <1>3, <1>7, <1>8, <1>9, <3>1
  <2>2. tick'.from.wall <= lastTick.wall /\ tick'.from.wall <= wall
    BY <1>3, <1>7, <1>9
  <2> QED
    BY <1>3, <1>9, <2>1, <2>2, ChargedInHours
<1> QED
  BY <1>1, <1>8, <1>10 DEF HoursInv, InHours, Passed

\* A tick begins inside the hours of its day.
LEMMA BeginInHours ==
  ASSUME TypeOK, TypeOK', ElapsedInv, HoursInv, OneWindow,
         NEW using \in BOOLEAN, NEW running \in SUBSET Apps, BeginTick(using, running)
  PROVE  HoursInv'
<1> DEFINE i == AccountingInterval(ChargeFrom, now, cfg)
<1>1. /\ pc = "idle" /\ recovery = "none" /\ recovery' = "none"
      /\ state.date <= Today /\ lastTick' = now
      /\ UNCHANGED <<wall, disk>>
      /\ state' = IF state.date < Today THEN NewState(Today) ELSE state
      /\ pc' \in {"account", "finish"}
  BY DEF BeginTick, clock, storage
<1>2. tick'.from = i.from /\ tick'.upto = i.upto /\ (pc' = "account" => i.eligible)
  <2> HIDE DEF i
  <2> QED
    BY DEF BeginTick, i
<1>3. /\ now.wall = wall /\ wall \in Int /\ lastTick.wall \in Int /\ lastTick.wall <= wall
      /\ Today \in Nat /\ wall = mono + StartWall
      /\ state \in UsageState /\ state' \in UsageState /\ state.date \in Nat
  BY <1>1, NowSynced, ClockType
  DEF ElapsedInv, ClocksInv, DaemonInv, TypeOK, Instant, UsageState
<1>4. /\ Synced(ChargeFrom) /\ ChargeFrom \in Instant /\ lastTick.wall <= ChargeFrom.wall
  BY <1>1, ChargeFromLater, ChargeFromType DEF ElapsedInv, DaemonInv
<1>5. ChargeFrom.wall <= i.from.wall /\ i.from \in Instant /\ i.upto \in Instant
  <2>1. Synced(now) /\ now \in Instant /\ cfg \in Config
    BY <1>3, NowSynced, ClockType, ConfigAssumption DEF TypeOK
  <2> QED
    BY <1>4, <2>1, IntervalInside, IntervalType
<1>6. state'.date = Today
  BY <1>1, <1>3, NewStateFields
<1>7. InHours(state', lastTick.wall)
  <2>1. CASE state.date < Today
    BY <1>1, <1>3, <2>1, NewStateFields, NothingInHours
  <2>2. CASE ~(state.date < Today)
    BY <1>1, <2>2 DEF HoursInv
  <2> QED
    BY <2>1, <2>2
<1>8. InHours(state', wall)
  BY <1>3, <1>7, HoursLater
<1>9. ASSUME NEW c \in Configs, ~c.allDay
      PROVE  /\ state'.device * Second <= i.from.wall - (state'.date * Day + c.from)
             /\ i.upto.wall <= state'.date * Day + c.until
  <2>1. cfg \in Configs /\ ~cfg.allDay /\ c.from = cfg.from /\ c.until = cfg.until
    BY <1>9 DEF OneWindow, TypeOK
  <2>2. Today * Day + cfg.from <= i.from.wall /\ i.upto.wall <= Today * Day + cfg.until
    BY <1>3, <1>4, <2>1, IntervalInHours
  <2>3. state'.device * Second <= Passed(state', lastTick.wall, c)
    BY <1>7, <1>9 DEF InHours
  <2>4. /\ state'.device * Second \in Int /\ state'.date * Day \in Int
        /\ c.from \in Int /\ c.until \in Int
    BY <1>3, HoursTypes
  <2>5. i.from.wall \in Int /\ i.upto.wall \in Int /\ ChargeFrom.wall \in Int
    BY <1>4, <1>5 DEF Instant
  <2>6. state'.date * Day + c.from <= i.from.wall /\ i.upto.wall <= state'.date * Day + c.until
    BY <1>6, <2>1, <2>2
  <2> HIDE DEF i
  <2>7. lastTick.wall <= i.from.wall
    BY <1>3, <1>4, <1>5, <2>5
  <2> QED
    BY <1>3, <2>3, <2>4, <2>5, <2>6, <2>7 DEF Passed, Least
<1> HIDE DEF i
<1>10. InHours(state', lastTick'.wall)
  BY <1>1, <1>3, <1>8
<1> QED
  BY <1>1, <1>2, <1>8, <1>9, <1>10 DEF HoursInv, InHours, Passed

\* What a handler that only saves leaves behind is inside the hours.
LEMMA SavedInHours ==
  ASSUME TypeOK, TypeOK', HoursInv, wall' = wall, pc' \in {"idle", "down"},
         NEW s \in UsageState, InHours(s, wall), disk' \in {disk, NoFile, FileOf(s)},
         pc' # "down" => InHours(state', wall),
         pc' # "down" /\ recovery' = "none" => InHours(state', lastTick'.wall)
  PROVE  HoursInv'
<1>1. disk'.present => InHours(disk'.state, wall)
  <2>1. wall \in Int
    BY DEF TypeOK
  <2> QED
    BY <2>1, KeptInHours DEF HoursInv, NoFile
<1> QED
  BY <1>1 DEF HoursInv, InHours, Passed

\* The invariant of the allowed hours holds while the clocks run together and the
\* hours stay.
LEMMA HoursHolds ==
  ASSUME ClocksRunTogether, OneWindow PROVE Spec => []HoursInv
<1>1. Init => HoursInv
  BY DEF Init, HoursInv, NoFile
<1>2. TypeOK /\ TypeOK' /\ ElapsedInv /\ HoursInv /\ [Next]_vars => HoursInv'
  <2> SUFFICES ASSUME TypeOK, TypeOK', ElapsedInv, HoursInv, [Next]_vars PROVE HoursInv'
    OBVIOUS
  <2> USE OneWindow
  <2>a. /\ state \in UsageState /\ state' \in UsageState /\ disk.state \in UsageState
        /\ wall \in Int /\ lastTick.wall \in Int /\ now.wall = wall /\ Today \in Nat
        /\ wall = mono + StartWall
    BY NowSynced, ClockType DEF TypeOK, UsageFile, Instant, ElapsedInv, ClocksInv
  <2>b. pc # "down" => InHours(state, wall)
    BY DEF HoursInv
  <2>c. pc # "down" /\ recovery = "none" => InHours(state, lastTick.wall)
    BY DEF HoursInv
  <2>d. /\ InHours(LoadedState, wall) /\ LoadedState \in UsageState
        /\ pc # "down" => InHours(Recovered, wall) /\ Recovered \in UsageState
    BY <2>b, LoadInHours, LoadType DEF HoursInv, Recovered
  <2>1. CASE Start
    BY <2>1, <2>a, <2>d, SavedInHours DEF Start, storage, clock
  <2>2. CASE Stop
    BY <2>2, <2>a, <2>b, SavedInHours DEF Stop, Save, storage, clock
  <2>3. CASE Crash
    BY <2>3, <2>a, <2>b, SavedInHours DEF Crash, storage, clock
  <2>4. CASE TickInRecovery
    BY <2>4, <2>a, <2>b, SavedInHours DEF TickInRecovery, clock
  <2>5. CASE TickRollback
    BY <2>5, <2>a, <2>b, SavedInHours DEF TickRollback, EnterRecovery, clock
  <2>6. ASSUME NEW using \in BOOLEAN, NEW running \in SUBSET Apps, BeginTick(using, running)
        PROVE  HoursInv'
    BY <2>6, BeginInHours
  <2>7. CASE AccountBreak
    <3>1. /\ pc = "account" /\ UNCHANGED <<wall, lastTick, recovery, disk>>
          /\ state' \in {state, EndBreak(state)} /\ pc' \in {"account", "finish"}
      BY <2>7 DEF AccountBreak, storage, clock
    <3>2. state'.device = state.device /\ state'.date = state.date
      BY <2>a, <3>1, SameCounter
    <3>3. tick'.upto = tick.upto /\ tick'.from \in {tick.from, state.until}
      BY <2>7 DEF AccountBreak, TypeOK, TickLocals
    <3>4. tick.from.wall <= tick'.from.wall
      <4>1. tick.from \in Instant /\ state.until \in Instant
        BY DEF TypeOK, TickLocals, UsageState
      <4>2. tick'.from = tick.from \/ Before(tick.from, state.until)
        BY <2>7 DEF AccountBreak, TypeOK, TickLocals
      <4> QED
        BY <3>3, <4>1, <4>2, SyncedOrder DEF ElapsedInv, ClocksInv, Instant
    <3>5. ASSUME NEW c \in Configs, ~c.allDay
          PROVE  /\ state'.device * Second <= tick'.from.wall - (state'.date * Day + c.from)
                 /\ tick'.upto.wall <= state'.date * Day + c.until
      <4>1. /\ state.device * Second <= tick.from.wall - (state.date * Day + c.from)
            /\ tick.upto.wall <= state.date * Day + c.until
        BY <3>1, <3>5 DEF HoursInv
      <4>2. /\ state.device * Second \in Int /\ state.date * Day + c.from \in Int
            /\ tick.from.wall \in Int /\ tick'.from.wall \in Int
        BY <2>a, HoursTypes DEF TypeOK, TickLocals, Instant
      <4> QED
        BY <3>2, <3>3, <3>4, <4>1, <4>2
    <3>6. InHours(state', wall) /\ (recovery = "none" => InHours(state', lastTick.wall))
      BY <2>b, <2>c, <3>1, <3>2 DEF InHours, Passed
    <3> QED
      BY <3>1, <3>5, <3>6 DEF HoursInv, InHours, Passed
  <2>8. CASE AccountCharge
    BY <2>8, ChargeInHours
  <2>9. CASE AccountDone
    BY <2>9 DEF AccountDone, memory, storage, clock, HoursInv, InHours, Passed
  <2>10. CASE FinishTick
    <3>1. /\ state' = WithApps(AfterAccess) /\ disk' \in {disk, FileOf(state')}
          /\ pc = "finish" /\ pc' = "idle" /\ lastTick' = lastTick /\ wall' = wall
      BY <2>10 DEF FinishTick, Save, clock
    <3>2. recovery = "none"
      BY <3>1 DEF ElapsedInv, TickInv
    <3>3. /\ AfterAccess \in UsageState /\ InHours(AfterAccess, wall)
          /\ InHours(AfterAccess, lastTick.wall)
      BY <2>a, <2>b, <2>c, <3>1, <3>2, EndBreakType, KeptInHours DEF AfterAccess
    <3>4. InHours(state', wall) /\ InHours(state', lastTick.wall)
      BY <2>a, <3>1, <3>3, KeptInHours
    <3> QED
      BY <2>a, <3>1, <3>4, SavedInHours
  <2>11. CASE Reload
    <3>1. /\ pc = "idle" /\ UNCHANGED <<wall, pc, state, lastTick, recovery, disk>>
      BY <2>11 DEF Reload, storage, clock
    <3> QED
      BY <2>a, <2>b, <2>c, <3>1, SavedInHours
  <2>12. CASE ResetUser
    <3>1. state' = NewState(state.date) /\ state'.device = 0
      BY <2>12, <2>a, NewStateFields DEF ResetUser, UsageState
    <3>2. InHours(state', wall) /\ InHours(state', lastTick.wall)
      BY <2>a, <3>1, NothingInHours
    <3> QED
      BY <2>12, <2>a, <3>2, SavedInHours DEF ResetUser, Save, clock
  <2>13. ASSUME NEW a \in Apps, ResetApp(a) PROVE HoursInv'
    <3>1. state'.device = state.device /\ state'.date = state.date
      BY <2>13, <2>a DEF ResetApp, UsageState
    <3>2. pc = "idle" /\ recovery = "none"
      BY <2>13 DEF ResetApp
    <3>3. InHours(state', wall) /\ InHours(state', lastTick.wall)
      BY <2>b, <2>c, <3>1, <3>2 DEF InHours, Passed
    <3> QED
      BY <2>13, <2>a, <3>3, SavedInHours DEF ResetApp, Save, clock
  <2>14. CASE RecoverState
    BY <2>14, <2>a, <2>d, SavedInHours DEF RecoverState, clock
  <2>15. CASE RecoverStateFails
    <3>1. /\ state' \in {state, Recovered} /\ disk' \in {disk, NoFile, FileOf(Recovered)}
          /\ pc = "idle" /\ pc' = "idle" /\ recovery # "none" /\ recovery' = recovery
          /\ wall' = wall
      BY <2>15 DEF RecoverStateFails, clock
    <3> QED
      BY <2>a, <2>b, <2>d, <3>1, SavedInHours
  <2>16. CASE Advance
    <3>1. /\ wall' \in Int /\ wall <= wall' /\ pc \in {"idle", "down"}
          /\ UNCHANGED <<pc, state, lastTick, recovery, disk>>
      BY <2>16, ClockAssumption DEF Advance, memory, storage, TypeOK
    <3>2. /\ disk.present => InHours(disk.state, wall')
          /\ pc # "down" => InHours(state, wall')
      BY <2>a, <2>b, <3>1, HoursLater DEF HoursInv
    <3> QED
      BY <2>c, <3>1, <3>2 DEF HoursInv, InHours, Passed
  <2>17. CASE StepClock
    BY <2>17, ClocksRunTogether DEF StepClock, ClocksRunTogether
  <2>18. CASE UNCHANGED vars
    BY <2>18 DEF vars, clock, memory, storage, HoursInv, InHours, Passed
  <2> QED
    BY <2>1, <2>2, <2>3, <2>4, <2>5, <2>6, <2>7, <2>8, <2>9, <2>10, <2>11,
       <2>12, <2>13, <2>14, <2>15, <2>16, <2>17, <2>18
    DEF Next, TickStep, Command
<1> QED
  BY <1>1, <1>2, ClocksRunTogether, OneWindow, ElapsedHolds, TypeCorrect, PTL DEF Spec

\* While the clocks run together and the hours stay, what a day was charged
\* lies inside the part of its allowed hours that has passed: no session in use
\* outside them is ever charged, whatever was reset, reloaded or restarted.
THEOREM ChargedInAllowedHours ==
  ASSUME ClocksRunTogether, OneWindow PROVE Spec => []UsageWithinWindow
<1>1. TypeOK /\ HoursInv => UsageWithinWindow
  <2> SUFFICES ASSUME TypeOK, HoursInv, pc # "down", ~cfg.allDay
               PROVE  state.device * Second <= Passed(state, Sampled, cfg)
    BY DEF UsageWithinWindow, Passed
  <2>1. InHours(state, Sampled)
    BY DEF HoursInv, Sampled
  <2> QED
    BY <2>1 DEF InHours, TypeOK
<1> QED
  BY <1>1, ClocksRunTogether, OneWindow, HoursHolds, TypeCorrect, PTL

-----------------------------------------------------------------------------
(* Mandatory breaks *)

\* Reloads leave the hours, the allowances of the device and the breaks alone.
AlikePaced(c, d) == /\ c.allDay = d.allDay /\ c.from = d.from /\ c.until = d.until
                    /\ c.device = d.device /\ c.continuous = d.continuous /\ c.break = d.break

OnePace == \A c, d \in Configs : AlikePaced(c, d)

\* When the accounting of a state's day may begin.
Opened(s, c) == s.date * Day + (IF c.allDay THEN 0 ELSE c.from)

\* What k continuous allowances and the use since the last of them have taken at
\* least, with the breaks between them.
Taken(s, k, c) == (s.device + k * c.break) * Second

\* A break followed each continuous allowance, and the last of them is over at w or
\* still runs.
Paced(s, w, c) ==
  \E k \in Nat :
    /\ s.device = k * c.continuous + s.continuous
    /\ s.continuous \in 0..c.continuous - 1
    /\ s.onBreak => s.device > 0 /\ s.continuous = 0
    /\ s.device > 0 => Taken(s, k, c) <= (IF s.onBreak THEN s.until.wall ELSE w) - Opened(s, c)

\* Breaks end with the daily allowance and with the allowed hours.
Over(s, w, c) == s.device >= c.device \/ (~c.allDay /\ w >= s.date * Day + c.until)

Served(s, w, c) == Paced(s, w, c) \/ Over(s, w, c)

PaceInv ==
  /\ pc \in {"idle", "finish"} => Served(state, lastTick.wall, cfg)
  /\ pc = "account" => Paced(state, tick.from.wall, cfg) \/ state.device >= cfg.device
  /\ pc \in {"account", "finish"} => tick.now = lastTick /\ lastTick.wall \div Day = state.date
  /\ disk.present => Served(disk.state, wall, cfg)

\* The types of what these statements compute with.
LEMMA PaceTypes ==
  ASSUME NEW s \in UsageState, NEW c \in Configs
  PROVE  /\ s.device \in Int /\ s.continuous \in Int /\ s.onBreak \in BOOLEAN
         /\ s.until.wall \in Int /\ s.date * Day \in Int /\ Opened(s, c) \in Int
         /\ c.continuous \in Nat /\ c.continuous > 0 /\ c.device \in Nat /\ c.device > 0
         /\ c.break \in Nat /\ c.break > 0 /\ c.from \in Nat /\ c.until \in Nat
         /\ \A k \in Nat : k * c.continuous \in Int /\ Taken(s, k, c) \in Int
<1>1. c \in Config
  BY ConfigAssumption
<1>2. /\ s.device \in Int /\ s.continuous \in Int /\ s.onBreak \in BOOLEAN
      /\ s.until.wall \in Int /\ s.date * Day \in Int
  BY UnitsAssumption DEF UsageState, Instant
<1>3. /\ c.continuous \in Nat /\ c.continuous > 0 /\ c.device \in Nat /\ c.device > 0
      /\ c.break \in Nat /\ c.break > 0 /\ c.from \in Nat /\ c.until \in Nat
  BY <1>1 DEF Config
<1>4. ASSUME NEW k \in Nat PROVE k * c.continuous \in Int /\ Taken(s, k, c) \in Int
  <2>1. k * c.break \in Int /\ Second \in Int
    BY <1>3, UnitsAssumption
  <2> QED
    BY <1>2, <1>3, <2>1 DEF Taken
<1>5. Opened(s, c) \in Int
  BY <1>2, <1>3 DEF Opened
<1> QED
  BY <1>2, <1>3, <1>4, <1>5

\* Time only adds to it.
LEMMA PacedLater ==
  ASSUME NEW s \in UsageState, NEW c \in Configs, NEW v \in Int, NEW w \in Int, v <= w
  PROVE  /\ Paced(s, v, c) => Paced(s, w, c)
         /\ Over(s, v, c) => Over(s, w, c)
<1>1. ASSUME Paced(s, v, c) PROVE Paced(s, w, c)
  <2>1. PICK k \in Nat :
          /\ s.device = k * c.continuous + s.continuous
          /\ s.continuous \in 0..c.continuous - 1
          /\ s.onBreak => s.device > 0 /\ s.continuous = 0
          /\ s.device > 0 => Taken(s, k, c) <= (IF s.onBreak THEN s.until.wall ELSE v) - Opened(s, c)
    BY <1>1 DEF Paced
  <2>2. s.device > 0 => Taken(s, k, c) <= (IF s.onBreak THEN s.until.wall ELSE w) - Opened(s, c)
    BY <2>1, PaceTypes
  <2> QED
    BY <2>1, <2>2 DEF Paced
<1>2. ASSUME Over(s, v, c) PROVE Over(s, w, c)
  BY <1>2, PaceTypes DEF Over
<1> QED
  BY <1>1, <1>2

\* Only these fields matter.
LEMMA PacedAlike ==
  ASSUME NEW s, NEW t, NEW w, NEW c,
         t.device = s.device, t.date = s.date, t.continuous = s.continuous,
         t.onBreak = s.onBreak, t.until.wall = s.until.wall
  PROVE  /\ Paced(s, w, c) => Paced(t, w, c)
         /\ Over(s, w, c) => Over(t, w, c)
<1>1. \A k \in Nat : Taken(t, k, c) = Taken(s, k, c)
  BY DEF Taken
<1>2. Opened(t, c) = Opened(s, c)
  BY DEF Opened
<1> QED
  BY <1>1, <1>2 DEF Paced, Over

\* Nothing was charged.
LEMMA PacedNew ==
  ASSUME NEW s \in UsageState, NEW c \in Configs, NEW w \in Int,
         s.device = 0, s.continuous = 0, ~s.onBreak
  PROVE  Paced(s, w, c)
<1>1. 0 = 0 * c.continuous + 0 /\ 0 \in 0..c.continuous - 1 /\ 0 \in Nat
  BY PaceTypes
<1> QED
  BY <1>1 DEF Paced

\* A break that is over by w may be ended.
LEMMA PacedEnded ==
  ASSUME NEW s \in UsageState, NEW c \in Configs, NEW w \in Int, Paced(s, w, c),
         s.onBreak, s.until.wall <= w
  PROVE  Paced(EndBreak(s), w, c)
<1> DEFINE t == EndBreak(s)
<1>1. PICK k \in Nat :
        /\ s.device = k * c.continuous + s.continuous
        /\ s.continuous \in 0..c.continuous - 1
        /\ s.onBreak => s.device > 0 /\ s.continuous = 0
        /\ s.device > 0 => Taken(s, k, c) <= (IF s.onBreak THEN s.until.wall ELSE w) - Opened(s, c)
  BY DEF Paced
<1>2. /\ t.device = s.device /\ t.date = s.date /\ t.continuous = 0 /\ t.onBreak = FALSE
  BY DEF EndBreak, UsageState
<1>3. Taken(t, k, c) = Taken(s, k, c) /\ Opened(t, c) = Opened(s, c)
  BY <1>2 DEF Taken, Opened
<1> HIDE DEF t
<1>4. t.device > 0 => Taken(t, k, c) <= w - Opened(t, c)
  BY <1>1, <1>2, <1>3, PaceTypes
<1>5. t.device = k * c.continuous + t.continuous /\ t.continuous \in 0..c.continuous - 1
  BY <1>1, <1>2
<1> QED
  BY <1>2, <1>4, <1>5 DEF Paced, t

\* A paced counter is not negative.
LEMMA PacedDevice ==
  ASSUME NEW s \in UsageState, NEW c \in Configs, NEW w, Paced(s, w, c)
  PROVE  s.device >= 0
<1>1. PICK k \in Nat : s.device = k * c.continuous + s.continuous /\ s.continuous \in 0..c.continuous - 1
  BY DEF Paced
<1>2. 0 * c.continuous <= k * c.continuous /\ k * c.continuous \in Int
  BY PaceTypes, MulMonotone
<1> QED
  BY <1>1, <1>2, PaceTypes

\* An instant is the midnight of its day and what the clock shows.
LEMMA DayParts ==
  ASSUME NEW w \in Int, NEW d \in Nat \ {0}
  PROVE  w = (w \div d) * d + (w % d)
  BY SMT

\* A quotient is determined by a remainder below the divisor.
LEMMA DivUnique ==
  ASSUME NEW x \in Int, NEW k \in Nat, NEW d \in Nat \ {0}, NEW r \in 0..d - 1, x = k * d + r
  PROVE  x \div d = k
  BY SMT

\* The loop charges nothing before the day's hours.
LEMMA OpenedInLoop ==
  ASSUME TypeOK, ElapsedInv, HoursInv, pc = "account"
  PROVE  state.device * Second <= tick.from.wall - Opened(state, cfg)
<1>1. state.device * Second <= tick.from.wall - state.date * Day
  BY DEF ElapsedInv, LoopInv
<1>2. cfg \in Configs /\ state \in UsageState
  BY DEF TypeOK
<1>3. ~cfg.allDay => state.device * Second <= tick.from.wall - (state.date * Day + cfg.from)
  BY <1>2 DEF HoursInv
<1>4. state.date * Day \in Int
  BY <1>2, PaceTypes
<1> QED
  BY <1>1, <1>3, <1>4 DEF Opened

\* What a further charge, and a break after it, take.
LEMMA TakenGrows ==
  ASSUME NEW s \in UsageState, NEW t, NEW c \in Configs, NEW d \in Int, NEW k \in Nat,
         t.device = s.device + d
  PROVE  /\ Taken(t, k, c) = Taken(s, k, c) + d * Second
         /\ Taken(t, k + 1, c) = Taken(s, k, c) + d * Second + c.break * Second
<1> DEFINE n == s.device
           b == c.break
<1>1. n \in Int /\ b \in Int
  BY PaceTypes
<1>2. /\ Taken(t, k, c) = (n + d + k * b) * Second
      /\ Taken(t, k + 1, c) = (n + d + (k + 1) * b) * Second
      /\ Taken(s, k, c) = (n + k * b) * Second
  BY Zenon DEF Taken
<1> HIDE DEF n, b
<1>3. /\ (n + d + k * b) * Second = (n + k * b) * Second + d * Second
      /\ (n + d + (k + 1) * b) * Second = (n + k * b) * Second + d * Second + b * Second
  <2>1. k * b \in Int /\ (k + 1) * b = k * b + b /\ (k + 1) * b \in Int
    BY <1>1, MulPlus
  <2>2. (n + k * b) \in Int /\ (n + d + k * b) = (n + k * b) + d
        /\ (n + d + (k + 1) * b) = (n + k * b) + (d + b)
    BY <1>1, <2>1
  <2>3. Second \in Int
    BY UnitsAssumption
  <2>4. /\ ((n + k * b) + d) * Second = (n + k * b) * Second + d * Second
        /\ ((n + k * b) + (d + b)) * Second = (n + k * b) * Second + (d + b) * Second
        /\ (d + b) * Second = d * Second + b * Second
    BY <1>1, <2>2, <2>3, MulPlus
  <2>5. (n + k * b) * Second \in Int /\ d * Second \in Int /\ b * Second \in Int
    BY <1>1, <2>2, <2>3
  <2> QED
    BY <2>2, <2>4, <2>5
<1> QED
  BY <1>2, <1>3, Zenon DEF b

\* A charge is followed by a break when it uses up the continuous allowance.
LEMMA ChargePaced ==
  ASSUME TypeOK, TypeOK', ElapsedInv, HoursInv, AccountCharge, Paced(state, tick.from.wall, cfg)
  PROVE  Paced(state', tick'.from.wall, cfg)
<1>1. PICK k \in Nat :
        /\ state.device = k * cfg.continuous + state.continuous
        /\ state.continuous \in 0..cfg.continuous - 1
        /\ state.device > 0 => Taken(state, k, cfg) <= tick.from.wall - Opened(state, cfg)
  BY DEF Paced, AccountCharge
<1>2. /\ pc = "account" /\ ~state.onBreak /\ Whole > 0 /\ state.device < cfg.device
      /\ state' = IF Charged.continuous >= cfg.continuous THEN WithBreak ELSE Charged
  BY DEF AccountCharge, Chargeable, Charged, WithBreak
<1>3. tick'.from = Plus(tick.from, Charge * Second)
  BY DEF AccountCharge, TypeOK, TickLocals
<1>4. /\ cfg \in Configs /\ state \in UsageState /\ tick.from \in Instant
      /\ tick.from.wall \in Int /\ Synced(tick.from)
      /\ Charge \in Int /\ Whole \in Int /\ Charge * Second \in Int /\ cfg.break * Second \in Int
  BY ChargeType, UnitsAssumption, PaceTypes DEF TypeOK, TickLocals, Instant, ElapsedInv, ClocksInv
<1>5. Charge > 0 /\ Charge <= cfg.continuous - state.continuous
  BY <1>1, <1>2, <1>4, PaceTypes DEF Charge, Least
<1>6. /\ tick'.from.wall = tick.from.wall + Charge * Second
      /\ Synced(tick'.from) /\ tick'.from \in Instant
  BY <1>3, <1>4, SyncedPlus, ChargedType
<1>7. Taken(state, k, cfg) <= tick.from.wall - Opened(state, cfg)
  <2>1. CASE state.device > 0
    BY <1>1, <2>1
  <2>2. CASE ~(state.device > 0)
    <3>1. k = 0 /\ state.device = 0
      <4>1. k >= 1 => 1 * cfg.continuous <= k * cfg.continuous
        BY <1>4, PaceTypes, MulMonotone
      <4> QED
        BY <1>1, <1>4, <2>2, <4>1, PaceTypes
    <3>2. Taken(state, k, cfg) = 0 /\ state.device * Second = 0
      BY <1>4, <3>1, PaceTypes, UnitsAssumption DEF Taken
    <3> QED
      BY <1>2, <3>2, OpenedInLoop
  <2> QED
    BY <2>1, <2>2
<1>8. /\ state'.device = state.device + Charge /\ state'.date = state.date
      /\ Opened(state', cfg) = Opened(state, cfg)
  BY <1>2, ChargedFields DEF Opened
<1>9. Taken(state', k, cfg) = Taken(state, k, cfg) + Charge * Second
      /\ Taken(state', k + 1, cfg) = Taken(state, k, cfg) + Charge * Second + cfg.break * Second
  BY <1>4, <1>8, TakenGrows
<1>10. state.continuous + Charge = Charged.continuous /\ Charged.onBreak = FALSE
  BY <1>2 DEF Charged, TypeOK, UsageState
<1>11. /\ Taken(state, k, cfg) \in Int /\ Opened(state, cfg) \in Int /\ k * cfg.continuous \in Int
       /\ (k + 1) * cfg.continuous = k * cfg.continuous + cfg.continuous
       /\ cfg.continuous \in Int /\ state.device \in Int /\ state.continuous \in Int
       /\ state.device >= 0
  <2>1. (k + 1) * cfg.continuous = k * cfg.continuous + cfg.continuous
    <3>1. cfg.continuous \in Int /\ k \in Int
      BY <1>4, PaceTypes
    <3>2. (k + 1) * cfg.continuous = k * cfg.continuous + 1 * cfg.continuous
      BY <3>1, MulPlus
    <3> QED
      BY <3>1, <3>2
  <2>2. 0 * cfg.continuous <= k * cfg.continuous
    BY <1>4, PaceTypes, MulMonotone
  <2> QED
    BY <1>1, <1>4, <2>1, <2>2, PaceTypes
<1>12. CASE Charged.continuous >= cfg.continuous
  <2>1. state' = WithBreak /\ state.continuous + Charge = cfg.continuous
    BY <1>2, <1>4, <1>5, <1>10, <1>11, <1>12
  <2>2. /\ state'.continuous = 0 /\ state'.onBreak = TRUE
        /\ state'.until = Plus(tick'.from, cfg.break * Second)
    BY <1>3, <2>1, ChargedType DEF WithBreak, UsageState
  <2>3. state'.until.wall = tick'.from.wall + cfg.break * Second
    BY <1>4, <1>6, <2>2, SyncedPlus
  <2>4. state'.device = (k + 1) * cfg.continuous + 0 /\ state'.device > 0
    BY <1>1, <1>4, <1>5, <1>8, <1>11, <2>1
  <2>5. Taken(state', k + 1, cfg) <= state'.until.wall - Opened(state', cfg)
    BY <1>4, <1>6, <1>7, <1>8, <1>9, <1>11, <2>3
  <2>6. k + 1 \in Nat /\ 0 \in 0..cfg.continuous - 1
    BY <1>4, PaceTypes
  <2> QED
    BY <2>2, <2>4, <2>5, <2>6 DEF Paced
<1>13. CASE ~(Charged.continuous >= cfg.continuous)
  <2>1. state' = Charged /\ state.continuous + Charge < cfg.continuous
    BY <1>2, <1>4, <1>10, <1>11, <1>13
  <2>2. /\ state'.continuous = state.continuous + Charge /\ state'.onBreak = FALSE
    BY <1>10, <2>1
  <2>3. /\ state'.device = k * cfg.continuous + state'.continuous
        /\ state'.continuous \in 0..cfg.continuous - 1
    BY <1>1, <1>4, <1>5, <1>8, <1>11, <2>1, <2>2
  <2>4. Taken(state', k, cfg) <= tick'.from.wall - Opened(state', cfg)
    BY <1>4, <1>6, <1>7, <1>8, <1>9, <1>11
  <2> QED
    BY <2>2, <2>3, <2>4 DEF Paced
<1> QED
  BY <1>12, <1>13

\* The loop skips what a break covers, and ends it.
LEMMA BreakPaced ==
  ASSUME TypeOK, TypeOK', ElapsedInv, AccountBreak, Paced(state, tick.from.wall, cfg)
  PROVE  /\ pc' = "account" => Paced(state', tick'.from.wall, cfg)
         /\ pc' = "finish" => Paced(state', lastTick.wall, cfg)
<1>1. /\ cfg \in Configs /\ state \in UsageState /\ state.until \in Instant /\ tick.from \in Instant
      /\ tick.from.wall \in Int /\ tick.upto.wall \in Int /\ lastTick.wall \in Int
      /\ state.until.wall \in Int /\ Synced(tick.from) /\ Synced(state.until)
      /\ pc = "account" /\ state.onBreak
  BY DEF TypeOK, TickLocals, UsageState, Instant, ElapsedInv, ClocksInv, AccountBreak
<1>2. Before(tick.from, state.until) <=> tick.from.wall < state.until.wall
  BY <1>1, SyncedOrder
<1>3. tick.from.wall <= lastTick.wall
  BY <1>1 DEF ElapsedInv, LoopInv
<1>4. CASE pc' = "finish" /\ state' = state
  BY <1>1, <1>3, <1>4, PacedLater
<1>5. CASE /\ pc' = "account" /\ state' = EndBreak(state)
           /\ tick' = [tick EXCEPT !.from = IF Before(tick.from, state.until) THEN state.until ELSE @]
  <2>1. tick'.from = IF Before(tick.from, state.until) THEN state.until ELSE tick.from
    BY <1>5 DEF TypeOK, TickLocals
  <2>2. /\ tick'.from.wall \in Int /\ tick.from.wall <= tick'.from.wall
        /\ state.until.wall <= tick'.from.wall
    BY <1>1, <1>2, <2>1
  <2>3. Paced(state, tick'.from.wall, cfg)
    BY <1>1, <2>2, PacedLater
  <2> QED
    BY <1>1, <1>5, <2>2, <2>3, PacedEnded
<1> QED
  BY <1>1, <1>4, <1>5 DEF AccountBreak

\* A tick begins with the accounting of its day where it was, or with none.
LEMMA BeginPaced ==
  ASSUME TypeOK, TypeOK', ElapsedInv, PaceInv,
         NEW using \in BOOLEAN, NEW running \in SUBSET Apps, BeginTick(using, running)
  PROVE  PaceInv'
<1> DEFINE i == AccountingInterval(ChargeFrom, now, cfg)
<1>1. /\ pc = "idle" /\ recovery = "none" /\ state.date <= Today /\ lastTick' = now
      /\ UNCHANGED <<wall, cfg, disk>> /\ pc' \in {"account", "finish"}
      /\ state' = IF state.date < Today THEN NewState(Today) ELSE state
  BY DEF BeginTick, clock, storage
<1>2. tick'.from = i.from /\ tick'.upto = i.upto /\ tick'.now = now /\ (pc' = "account" => i.eligible)
  <2> HIDE DEF i
  <2> QED
    BY DEF BeginTick, i
<1>3. /\ now.wall = wall /\ wall \in Int /\ lastTick.wall \in Int /\ lastTick.wall <= wall
      /\ Today \in Nat /\ wall = mono + StartWall /\ cfg \in Configs /\ cfg \in Config
      /\ state \in UsageState /\ state' \in UsageState /\ state.date \in Nat
  BY <1>1, NowSynced, ClockType, ConfigAssumption
  DEF ElapsedInv, ClocksInv, DaemonInv, TypeOK, Instant, UsageState
<1>4. /\ Synced(ChargeFrom) /\ ChargeFrom \in Instant /\ lastTick.wall <= ChargeFrom.wall
  BY <1>1, ChargeFromLater, ChargeFromType DEF ElapsedInv, DaemonInv
<1>5. /\ ChargeFrom.wall <= i.from.wall /\ i.from \in Instant /\ i.upto \in Instant
      /\ i.upto.wall <= wall /\ (i.eligible => i.from.wall < i.upto.wall)
  <2>1. Synced(now) /\ now \in Instant
    BY <1>3, NowSynced, ClockType
  <2> QED
    BY <1>3, <1>4, <2>1, IntervalInside, IntervalType
<1>6. state'.date = Today /\ wall \div Day = Today
  BY <1>1, <1>3, NewStateFields DEF Today
<1>7. lastTick.wall <= i.from.wall /\ i.from.wall \in Int /\ i.upto.wall \in Int
  <2>1. i.from.wall \in Int /\ ChargeFrom.wall \in Int /\ i.upto.wall \in Int
    BY <1>4, <1>5 DEF Instant
  <2> HIDE DEF i
  <2> QED
    BY <1>3, <1>4, <1>5, <2>1
<1>8. \/ \A w \in Int : Paced(state', w, cfg)
      \/ state' = state /\ (Paced(state, lastTick.wall, cfg) \/ Over(state, lastTick.wall, cfg))
  <2>1. CASE state.date < Today
    <3>1. state' = NewState(Today)
      BY <1>1, <2>1
    <3>2. state'.device = 0 /\ state'.continuous = 0 /\ ~state'.onBreak
      BY <3>1 DEF NewState
    <3> QED
      BY <1>3, <3>2, PacedNew
  <2>2. CASE ~(state.date < Today)
    BY <1>1, <2>2 DEF PaceInv, Served
  <2> QED
    BY <2>1, <2>2
<1>9. Served(state', wall, cfg)
  BY <1>3, <1>8, PacedLater DEF Served
<1>10. ASSUME i.eligible
       PROVE  Paced(state', i.from.wall, cfg) \/ state'.device >= cfg.device
  <2>1. CASE \A w \in Int : Paced(state', w, cfg)
    BY <1>7, <2>1
  <2>2. CASE state' = state /\ Paced(state, lastTick.wall, cfg)
    BY <1>3, <1>7, <2>2, PacedLater
  <2>3. CASE state' = state /\ Over(state, lastTick.wall, cfg)
    <3>1. SUFFICES ASSUME ~cfg.allDay, lastTick.wall >= state.date * Day + cfg.until
                   PROVE  FALSE
      BY <2>3 DEF Over
    <3>2. i.upto.wall <= Today * Day + cfg.until /\ i.eligible
      BY <1>3, <1>4, <1>10, <3>1, IntervalInHours
    <3>3. /\ Today * Day + cfg.until <= lastTick.wall /\ Today * Day + cfg.until \in Int
      BY <1>3, <1>6, <2>3, <3>1, PaceTypes
    <3>4. i.from.wall < i.upto.wall
      BY <1>5, <1>10
    <3> HIDE DEF i
    <3> QED
      BY <1>3, <1>7, <3>2, <3>3, <3>4
  <2> QED
    BY <1>8, <2>1, <2>2, <2>3
<1> HIDE DEF i
<1>11. disk'.present => Served(disk'.state, wall', cfg')
  BY <1>1 DEF PaceInv
<1> QED
  BY <1>1, <1>2, <1>3, <1>6, <1>9, <1>10, <1>11 DEF PaceInv, Served, Paced, Over, Taken, Opened

\* Access control ends breaks that are over, and all of them when it blocks.
LEMMA AccessPaced ==
  ASSUME TypeOK, ElapsedInv, HoursInv, PaceInv, pc = "finish"
  PROVE  Served(AfterAccess, lastTick.wall, cfg)
<1> DEFINE w == lastTick.wall
           s == EndBreak(state)
<1>1. /\ cfg \in Configs /\ state \in UsageState /\ s \in UsageState /\ lastTick \in Instant
      /\ w \in Int /\ state.until \in Instant /\ state.until.wall \in Int /\ recovery = "none"
      /\ tick.now = lastTick /\ w \div Day = state.date /\ Served(state, w, cfg)
      /\ Synced(lastTick) /\ Synced(state.until)
  BY EndBreakType DEF TypeOK, UsageState, Instant, ElapsedInv, ClocksInv, TickInv, PaceInv
<1>2. s.device = state.device /\ s.date = state.date /\ s.continuous = 0 /\ s.onBreak = FALSE
  BY <1>1 DEF EndBreak, UsageState
<1>3. AfterAccess \in {state, s}
  BY DEF AfterAccess
<1> HIDE DEF s
<1>4. CASE Over(state, w, cfg)
  <2>1. Over(s, w, cfg)
    BY <1>2, <1>4 DEF Over
  <2> QED
    BY <1>3, <1>4, <2>1 DEF Served
<1>5. CASE Paced(state, w, cfg)
  <2>1. CASE state.device >= cfg.device
    <3>1. Over(state, w, cfg)
      BY <2>1 DEF Over
    <3> QED
      BY <1>4, <3>1
  <2>2. CASE ~AllowedAt(lastTick, cfg)
    <3>1. ~cfg.allDay /\ (w % Day < cfg.from \/ w % Day >= cfg.until)
      <4>1. w % Day \in Int /\ cfg.from \in Int /\ cfg.until \in Int
        BY <1>1, HoursTypes, UnitsAssumption
      <4> QED
        BY <2>2, <4>1 DEF AllowedAt
    <3>2. w = state.date * Day + (w % Day)
      BY <1>1, DayParts, UnitsAssumption
    <3>3. CASE w % Day >= cfg.until
      <4>1. w % Day \in Int /\ cfg.until \in Int /\ state.date * Day \in Int
        BY <1>1, PaceTypes, UnitsAssumption
      <4>2. Over(state, w, cfg)
        BY <3>1, <3>2, <3>3, <4>1 DEF Over
      <4> QED
        BY <1>4, <4>2
    <3>4. CASE w % Day < cfg.from
      <4>1. w % Day \in Int /\ cfg.from \in Int /\ cfg.until \in Int /\ state.date * Day \in Int
        BY <1>1, PaceTypes, UnitsAssumption
      <4>2. w - state.date * Day < cfg.from
        BY <3>2, <3>4, <4>1
      <4>3. Passed(state, w, cfg) = 0
        BY <1>1, <4>1, <4>2 DEF Passed, Least
      <4>4. state.device * Second <= 0
        BY <1>1, <3>1, <4>3 DEF HoursInv, InHours
      <4>5. state.device >= 0
        BY <1>1, <1>5, PacedDevice
      <4>6. state.device = 0
        <5>1. state.device \in Int /\ Second \in Nat /\ Second > 0
          BY <1>1, PaceTypes, UnitsAssumption
        <5>2. state.device >= 1 => 1 * Second <= state.device * Second
          BY <5>1, MulMonotone
        <5>3. state.device * Second \in Int
          BY <5>1
        <5> QED
          BY <4>4, <4>5, <5>1, <5>2, <5>3
      <4>7. Paced(s, w, cfg)
        BY <1>1, <1>2, <4>6, PacedNew
      <4> QED
        BY <1>3, <1>5, <4>7 DEF Served
    <3> QED
      BY <3>1, <3>3, <3>4
  <2>3. CASE ~Blocked(state, lastTick, cfg) /\ state.onBreak /\ ~Before(lastTick, state.until)
    <3>1. state.until.wall <= w
      BY <1>1, <2>3, SyncedOrder
    <3>2. Paced(s, w, cfg)
      BY <1>1, <1>5, <2>3, <3>1, PacedEnded DEF s
    <3> QED
      BY <1>3, <1>5, <3>2 DEF Served
  <2>4. CASE ~Blocked(state, lastTick, cfg) /\ ~(state.onBreak /\ ~Before(lastTick, state.until))
    BY <1>1, <2>4 DEF AfterAccess
  <2> QED
    BY <2>1, <2>2, <2>3, <2>4 DEF Blocked
<1> QED
  BY <1>1, <1>4, <1>5 DEF Served

\* The parts of the handlers keep a state paced.
LEMMA KeptServed ==
  ASSUME NEW s \in UsageState, NEW w, NEW c, Served(s, w, c)
  PROVE  /\ Served(WithApps(s), w, c)
         /\ Served(FileOf(s).state, w, c)
         /\ \A a \in Apps : Served([s EXCEPT !.apps[a] = 0], w, c)
<1>1. /\ WithApps(s).device = s.device /\ WithApps(s).date = s.date
      /\ WithApps(s).continuous = s.continuous /\ WithApps(s).onBreak = s.onBreak
      /\ WithApps(s).until.wall = s.until.wall
  BY DEF WithApps, UsageState
<1>2. /\ FileOf(s).state.device = s.device /\ FileOf(s).state.date = s.date
      /\ FileOf(s).state.continuous = s.continuous /\ FileOf(s).state.onBreak = s.onBreak
      /\ FileOf(s).state.until.wall = s.until.wall
  BY DEF FileOf, UsageState, Stored, WallOnly
<1>3. ASSUME NEW a \in Apps PROVE Served([s EXCEPT !.apps[a] = 0], w, c)
  <2> DEFINE t == [s EXCEPT !.apps[a] = 0]
  <2>1. /\ t.device = s.device /\ t.date = s.date /\ t.continuous = s.continuous
        /\ t.onBreak = s.onBreak /\ t.until.wall = s.until.wall
    BY DEF UsageState
  <2> HIDE DEF t
  <2> QED
    BY <2>1, PacedAlike DEF Served, t
<1> QED
  BY <1>1, <1>2, <1>3, PacedAlike DEF Served

\* Every configuration says the same of a state.
LEMMA ServedAlike ==
  ASSUME NEW s, NEW w, NEW c, NEW d, AlikePaced(c, d)
  PROVE  Served(s, w, c) => Served(s, w, d)
<1>1. Opened(s, c) = Opened(s, d)
  BY DEF Opened, AlikePaced
<1>2. \A k \in Nat : Taken(s, k, c) = Taken(s, k, d)
  BY DEF Taken, AlikePaced
<1>3. Paced(s, w, c) => Paced(s, w, d)
  BY <1>1, <1>2 DEF Paced, AlikePaced
<1>4. Over(s, w, c) => Over(s, w, d)
  BY DEF Over, AlikePaced
<1> QED
  BY <1>3, <1>4 DEF Served

\* What a handler that only saves leaves behind.
LEMMA SavedServed ==
  ASSUME TypeOK, TypeOK', PaceInv, wall' = wall, OnePace, pc' \in {"idle", "down"},
         NEW s \in UsageState, Served(s, wall, cfg), disk' \in {disk, NoFile, FileOf(s)},
         pc' = "idle" => Served(state', lastTick'.wall, cfg)
  PROVE  PaceInv'
<1>1. disk'.present => Served(disk'.state, wall, cfg)
  BY KeptServed DEF PaceInv, NoFile
<1>2. AlikePaced(cfg, cfg')
  BY DEF OnePace, TypeOK
<1>3. /\ disk'.present => Served(disk'.state, wall, cfg')
      /\ pc' = "idle" => Served(state', lastTick'.wall, cfg')
  BY <1>1, <1>2, ServedAlike
<1> QED
  BY <1>3 DEF PaceInv, Served, Paced, Over, Taken, Opened

\* What a restart loads, and recover-state restores.
LEMMA LoadServed ==
  ASSUME TypeOK, PaceInv
  PROVE  /\ Served(LoadedState, wall, cfg)
         /\ \A w \in Int, d \in Nat : Served(NewState(d), w, cfg)
<1>1. Today \in Nat /\ wall \in Int /\ cfg \in Configs
  BY ClockType DEF TypeOK
<1>2. ASSUME NEW w \in Int, NEW d \in Nat PROVE Served(NewState(d), w, cfg)
  <2>1. NewState(d) \in UsageState
    BY NewStateType
  <2>2. NewState(d).device = 0 /\ NewState(d).continuous = 0 /\ ~NewState(d).onBreak
    BY DEF NewState
  <2> QED
    BY <1>1, <2>1, <2>2, PacedNew DEF Served
<1>3. LoadedState = NewState(Today) \/ (disk.present /\ LoadedState = disk.state)
  BY DEF LoadedState
<1> QED
  BY <1>1, <1>2, <1>3 DEF PaceInv

\* A mandatory break is served before the day is charged again, whatever was
\* reset, recovered or restarted in between, while the clocks run together and the
\* hours, the allowances of the device and the breaks stay.
THEOREM BreaksServed ==
  ASSUME ClocksRunTogether, OnePace PROVE Spec => []BreaksAreServed
<1>1. Init => PaceInv
  BY DEF Init, PaceInv, NoFile
<1>2. TypeOK /\ TypeOK' /\ ElapsedInv /\ HoursInv /\ PaceInv /\ [Next]_vars => PaceInv'
  <2> SUFFICES ASSUME TypeOK, TypeOK', ElapsedInv, HoursInv, PaceInv, [Next]_vars PROVE PaceInv'
    OBVIOUS
  <2> USE OnePace
  <2>a. /\ state \in UsageState /\ state' \in UsageState /\ disk.state \in UsageState
        /\ wall \in Int /\ lastTick.wall \in Int /\ now.wall = wall /\ Today \in Nat
        /\ cfg \in Configs /\ state.date \in Nat
    BY NowSynced, ClockType
    DEF TypeOK, UsageFile, UsageState, Instant, ElapsedInv, ClocksInv
  <2>b. pc \in {"idle", "finish"} => Served(state, lastTick.wall, cfg) /\ Served(state, wall, cfg)
    <3>1. pc \in {"idle", "finish"} => lastTick.wall <= wall
      BY DEF ElapsedInv, DaemonInv
    <3> QED
      BY <2>a, <3>1, PacedLater DEF PaceInv, Served
  <2>d. /\ Served(LoadedState, wall, cfg) /\ LoadedState \in UsageState
        /\ \A w \in Int, d \in Nat : Served(NewState(d), w, cfg) /\ NewState(d) \in UsageState
    BY LoadServed, LoadType, NewStateType
  <2>e. /\ Recovered \in UsageState
        /\ pc = "idle" => Served(Recovered, wall, cfg) /\ Served(Recovered, lastTick.wall, cfg)
    BY <2>a, <2>b, <2>d, LoadType DEF Recovered
  <2>1. CASE Start
    BY <2>1, <2>a, <2>d, SavedServed DEF Start, storage, clock
  <2>2. CASE Stop
    BY <2>2, <2>a, <2>b, SavedServed DEF Stop, Save, storage, clock
  <2>3. CASE Crash
    BY <2>3, <2>a, <2>d, SavedServed DEF Crash, storage, clock
  <2>4. CASE TickInRecovery
    BY <2>4, <2>a, <2>b, SavedServed DEF TickInRecovery, clock
  <2>5. CASE TickRollback
    BY <2>5, <2>a, <2>b, SavedServed DEF TickRollback, EnterRecovery, clock
  <2>6. ASSUME NEW using \in BOOLEAN, NEW running \in SUBSET Apps, BeginTick(using, running)
        PROVE  PaceInv'
    BY <2>6, BeginPaced
  <2>7. CASE AccountBreak
    <3>1. /\ pc = "account" /\ UNCHANGED <<wall, lastTick, disk>>
          /\ state' \in {state, EndBreak(state)} /\ pc' \in {"account", "finish"}
          /\ state.device < cfg.device /\ tick'.now = tick.now /\ cfg' = cfg
      BY <2>7 DEF AccountBreak, Chargeable, storage, clock, TypeOK, TickLocals
    <3>2. state'.date = state.date
      BY <2>a, <3>1, SameCounter
    <3>3. Paced(state, tick.from.wall, cfg)
      BY <2>a, <3>1, PaceTypes DEF PaceInv
    <3>4. /\ pc' = "account" => Paced(state', tick'.from.wall, cfg)
          /\ pc' = "finish" => Paced(state', lastTick.wall, cfg)
      BY <2>7, <3>3, BreakPaced
    <3> QED
      BY <2>a, <3>1, <3>2, <3>4 DEF PaceInv, Served, Paced, Over, Taken, Opened
  <2>8. CASE AccountCharge
    <3>1. /\ pc = "account" /\ pc' = "account" /\ UNCHANGED <<wall, lastTick, disk>>
          /\ state' \in {Charged, WithBreak} /\ state.device < cfg.device /\ tick'.now = tick.now
          /\ cfg' = cfg
      BY <2>8 DEF AccountCharge, Chargeable, Charged, WithBreak, storage, clock, TypeOK, TickLocals
    <3>2. state'.date = state.date
      BY <3>1, ChargedFields
    <3>3. Paced(state, tick.from.wall, cfg)
      BY <2>a, <3>1, PaceTypes DEF PaceInv
    <3>4. Paced(state', tick'.from.wall, cfg)
      BY <2>8, <3>3, ChargePaced
    <3> QED
      BY <2>a, <3>1, <3>2, <3>4 DEF PaceInv, Served, Paced, Over, Taken, Opened
  <2>9. CASE AccountDone
    <3>1. /\ pc = "account" /\ pc' = "finish" /\ UNCHANGED <<wall, cfg, state, lastTick, disk, tick>>
      BY <2>9 DEF AccountDone, memory, storage, clock
    <3>2. tick.from.wall \in Int /\ tick.from.wall <= lastTick.wall
      BY <2>a, <3>1 DEF ElapsedInv, LoopInv, TypeOK, TickLocals, Instant
    <3>3. Served(state, lastTick.wall, cfg)
      BY <2>a, <3>1, <3>2, PacedLater DEF PaceInv, Served, Over
    <3> QED
      BY <3>1, <3>3 DEF PaceInv, Served, Paced, Over, Taken, Opened
  <2>10. CASE FinishTick
    <3>1. /\ state' = WithApps(AfterAccess) /\ disk' \in {disk, FileOf(state')}
          /\ pc = "finish" /\ pc' = "idle" /\ lastTick' = lastTick /\ wall' = wall
      BY <2>10 DEF FinishTick, Save, clock
    <3>2. AfterAccess \in UsageState
      BY <2>a, EndBreakType DEF AfterAccess
    <3>3. Served(AfterAccess, lastTick.wall, cfg)
      BY <3>1, AccessPaced
    <3>4. Served(state', lastTick.wall, cfg)
      BY <3>1, <3>2, <3>3, KeptServed
    <3>5. lastTick.wall <= wall
      BY <3>1 DEF ElapsedInv, DaemonInv
    <3>6. Served(state', wall, cfg)
      BY <2>a, <3>4, <3>5, PacedLater DEF Served
    <3> QED
      BY <2>a, <3>1, <3>4, <3>6, SavedServed
  <2>11. CASE Reload
    <3>1. /\ pc = "idle" /\ UNCHANGED <<wall, pc, state, lastTick, disk>>
      BY <2>11 DEF Reload, storage, clock
    <3> QED
      BY <2>a, <2>b, <3>1, SavedServed
  <2>12. CASE ResetUser
    BY <2>12, <2>a, <2>d, SavedServed DEF ResetUser, Save, clock
  <2>13. ASSUME NEW a \in Apps, ResetApp(a) PROVE PaceInv'
    <3>1. /\ pc = "idle" /\ pc' = "idle" /\ state' = [state EXCEPT !.apps[a] = 0]
          /\ disk' \in {disk, FileOf(state')} /\ wall' = wall /\ lastTick' = lastTick
      BY <2>13 DEF ResetApp, Save, clock
    <3>2. Served(state', lastTick.wall, cfg) /\ Served(state', wall, cfg)
      BY <2>a, <2>b, <3>1, KeptServed
    <3> QED
      BY <2>a, <3>1, <3>2, SavedServed
  <2>14. CASE RecoverState
    BY <2>14, <2>a, <2>e, SavedServed DEF RecoverState, clock
  <2>15. CASE RecoverStateFails
    <3>1. /\ state' \in {state, Recovered} /\ disk' \in {disk, NoFile, FileOf(Recovered)}
          /\ pc = "idle" /\ pc' = "idle" /\ wall' = wall /\ lastTick' = lastTick
      BY <2>15 DEF RecoverStateFails, clock
    <3>2. Served(state', lastTick'.wall, cfg)
      BY <2>b, <2>e, <3>1
    <3>3. Recovered \in UsageState /\ Served(Recovered, wall, cfg)
      BY <2>e, <3>1
    <3> QED
      BY <2>a, <3>1, <3>2, <3>3, SavedServed
  <2>16. CASE Advance
    <3>1. /\ wall' \in Int /\ wall <= wall' /\ pc \in {"idle", "down"}
          /\ UNCHANGED <<pc, state, lastTick, disk, cfg>>
      BY <2>16, ClockAssumption DEF Advance, memory, storage, TypeOK
    <3>2. disk.present => Served(disk.state, wall', cfg)
      BY <2>a, <3>1, PacedLater DEF PaceInv, Served
    <3> QED
      BY <2>b, <3>1, <3>2 DEF PaceInv, Served, Paced, Over, Taken, Opened
  <2>17. CASE StepClock
    BY <2>17, ClocksRunTogether DEF StepClock, ClocksRunTogether
  <2>18. CASE UNCHANGED vars
    BY <2>18 DEF vars, clock, memory, storage, PaceInv, Served, Paced, Over, Taken, Opened
  <2> QED
    BY <2>1, <2>2, <2>3, <2>4, <2>5, <2>6, <2>7, <2>8, <2>9, <2>10, <2>11,
       <2>12, <2>13, <2>14, <2>15, <2>16, <2>17, <2>18
    DEF Next, TickStep, Command
<1>3. TypeOK /\ ElapsedInv /\ PaceInv => BreaksAreServed
  <2> DEFINE breaks == state.device \div cfg.continuous
             served == IF state.onBreak THEN state.until.wall ELSE Sampled
  <2> SUFFICES ASSUME TypeOK, ElapsedInv, PaceInv, pc # "down", state.device \in 1..cfg.device - 1,
                      pc # "account" => lastTick.wall \div Day = state.date /\ AllowedAt(lastTick, cfg)
               PROVE  Taken(state, breaks, cfg) <= served - Opened(state, cfg)
    BY DEF BreaksAreServed, Taken, Opened
  <2>1. /\ state \in UsageState /\ cfg \in Configs /\ lastTick.wall \in Int /\ wall \in Int
        /\ lastTick.wall <= wall /\ Sampled \in {lastTick.wall, wall}
    BY DEF TypeOK, Instant, ElapsedInv, DaemonInv, Sampled
  <2>2. PICK w \in Int : Paced(state, w, cfg) /\ w <= lastTick.wall
    <3>1. CASE pc = "account"
      <4>1. tick.from.wall \in Int /\ tick.from.wall <= lastTick.wall
        BY <2>1, <3>1 DEF ElapsedInv, LoopInv, TypeOK, TickLocals, Instant
      <4>2. ~(state.device >= cfg.device)
        BY <2>1, PaceTypes
      <4> QED
        BY <3>1, <4>1, <4>2 DEF PaceInv
    <3>2. CASE pc # "account"
      <4>1. Served(state, lastTick.wall, cfg)
        BY <3>2 DEF PaceInv, TypeOK
      <4>2. ~Over(state, lastTick.wall, cfg)
        <5>1. lastTick.wall = state.date * Day + (lastTick.wall % Day)
          BY <2>1, <3>2, DayParts, UnitsAssumption
        <5>2. /\ lastTick.wall % Day \in Int /\ cfg.until \in Int /\ state.date * Day \in Int
              /\ state.device \in Int /\ cfg.device \in Int
          BY <2>1, PaceTypes, UnitsAssumption
        <5>3. cfg.allDay \/ lastTick.wall % Day < cfg.until
          BY <3>2 DEF AllowedAt
        <5> QED
          BY <5>1, <5>2, <5>3 DEF Over
      <4> QED
        BY <2>1, <4>1, <4>2 DEF Served
    <3> QED
      BY <3>1, <3>2
  <2>3. PICK k \in Nat :
          /\ state.device = k * cfg.continuous + state.continuous
          /\ state.continuous \in 0..cfg.continuous - 1
          /\ Taken(state, k, cfg) <= (IF state.onBreak THEN state.until.wall ELSE w) - Opened(state, cfg)
    BY <2>2 DEF Paced
  <2>4. breaks = k
    <3>1. cfg.continuous \in Nat \ {0} /\ state.device \in Int
      BY <2>1, PaceTypes
    <3> DEFINE x == state.device
               d == cfg.continuous
               r == state.continuous
    <3>2. x \in Int /\ d \in Nat \ {0} /\ r \in 0..d - 1 /\ x = k * d + r
      BY <2>3, <3>1
    <3> HIDE DEF x, d, r
    <3>3. x \div d = k
      BY <3>2, DivUnique
    <3> QED
      BY <3>3 DEF x, d
  <2> HIDE DEF breaks
  <2> QED
    BY <2>1, <2>2, <2>3, <2>4, PaceTypes
<1>4. OneWindow
  BY OnePace DEF OnePace, AlikePaced, OneWindow
<1> QED
  BY <1>1, <1>2, <1>3, <1>4, ClocksRunTogether, ElapsedHolds, HoursHolds, TypeCorrect, PTL DEF Spec
=============================================================================
