---------------------------- MODULE DeviceUsage -----------------------------
(***************************************************************************)
(* The usage accounting of internal/daemon for one controlled user: the    *)
(* daily device counter, the continuous-use counter with its mandatory     *)
(* break, and the counters of the configured applications.  A monitoring   *)
(* tick is not atomic here: it samples the processes and the session,      *)
(* walks the interval since the previous tick charge by charge, and only   *)
(* then decides about access and writes usage.json.  The daemon may crash  *)
(* at any of those points.  Ticks and commands exclude each other through  *)
(* Service.mu, so a command runs only between ticks.                       *)
(*                                                                         *)
(* Users do not share counters, so the module follows one of them.  The    *)
(* timezone is fixed (see StatePersistence for its changes) and every local *)
(* day has Day units (see Schedule for the days of a DST change).          *)
(***************************************************************************)
EXTENDS GoTime, FiniteSets

CONSTANTS
  Apps,         \* the applications configured for the user
  Configs,      \* the configurations an administrator may install
  Second,       \* units of the clock in a second
  Day,          \* units of the clock in a local day
  StartWall,    \* wall clock when the machine is first switched on
  Elapsed,      \* the amounts by which both clocks move in one step
  ClockSteps,   \* suspensions (> 0) and adjustments of the wall clock alone
  MaxMono,      \* bound on the monotonic clock
  MaxSeconds,   \* the 86400 of loadState: the largest counter a file may hold
  Faults        \* may writing usage.json or the recovery marker fail?

\* What config.Load accepts: minutes are positive (here: seconds), a clock
\* window is not empty, and the daily allowances fit a day.
Config == [allDay : BOOLEAN, from : Nat, until : Nat, device : Nat \ {0},
           continuous : Nat \ {0}, break : Nat \ {0},
           apps : [Apps -> Nat \ {0}], poll : Nat \ {0}]

ASSUME UnitsAssumption == /\ Second \in Nat \ {0}
                          /\ Day \in Nat \ {0}
                          /\ StartWall \in Nat
                          /\ MaxMono \in Nat
                          /\ MaxSeconds \in Nat

ASSUME ClockAssumption == /\ Elapsed \subseteq Nat \ {0}
                          /\ ClockSteps \subseteq Int
                          /\ Faults \in BOOLEAN

ASSUME ConfigAssumption ==
  /\ Configs \subseteq Config
  /\ Configs # {}
  /\ \A c \in Configs : /\ c.from < c.until /\ c.until <= Day
                        /\ c.device <= MaxSeconds
                        /\ c.continuous <= MaxSeconds

VARIABLES
  wall, mono,   \* the two clocks of the machine
  pc,           \* "down", "idle" (mutex free), "account" or "finish" (in a tick)
  cfg,          \* the configuration in force
  state,        \* usageState of the user
  lastTick,     \* instant of the previous tick
  prevUser,     \* previousUsers: was the session in use at the previous sample?
  prevApps,     \* previousApps: the applications of the previous sample
  recovery,     \* "none", "retry" or "reset": Service.recovery
  disk,         \* usage.json
  marker,       \* usage.json.recovery
  tick,         \* the locals of the tick that is running
  lock          \* why the last tick asked logind to lock the session, or "none"

memory == <<cfg, state, lastTick, prevUser, prevApps, recovery, tick, lock>>
storage == <<disk, marker>>
clock == <<wall, mono>>
vars == <<clock, pc, memory, storage>>

-----------------------------------------------------------------------------
now == Reading(wall, mono)
Today == wall \div Day
Midnight == WallOnly(Today * Day)
NoInstant == WallOnly(0)

\* Mistake: the day before.
NewState_Yesterday(d) ==
  [date |-> d - 1, device |-> 0, continuous |-> 0, onBreak |-> FALSE,
   until |-> NoInstant, apps |-> [a \in Apps |-> 0]]

NewState(d) == [date |-> d, device |-> 0, continuous |-> 0, onBreak |-> FALSE,
                until |-> NoInstant, apps |-> [a \in Apps |-> 0]]

\* delete(BreakUntil, user); ContinuousSeconds[user] = 0
EndBreak(s) == [s EXCEPT !.continuous = 0, !.onBreak = FALSE, !.until = NoInstant]

\* usage.json holds the counters and the wall reading of the break deadline.
NoFile == [present |-> FALSE, state |-> NewState(0)]
FileOf(s) == [present |-> TRUE, state |-> [s EXCEPT !.until = Stored(@)]]

\* The range checks of loadState.
Loadable(s) == /\ s.device \in 0..MaxSeconds
               /\ s.continuous \in 0..MaxSeconds
               /\ \A a \in Apps : s.apps[a] \in 0..MaxSeconds

NoTick == [now |-> NoInstant, from |-> NoInstant, upto |-> NoInstant,
           counted |-> 0, using |-> FALSE, apps |-> {}]

\* AllowedAt: the half-open window of the local wall clock.
AllowedAt(t, c) == c.allDay \/ (t.wall % Day >= c.from /\ t.wall % Day < c.until)

\* Mistake: the opening of the window is not looked at.
AccountingInterval_Early(from, upto, c) ==
  LET closes == WallOnly((upto.wall \div Day) * Day + c.until)
      last   == IF ~c.allDay /\ Before(closes, upto) THEN closes ELSE upto
  IN  [from |-> from, upto |-> last, eligible |-> Before(from, last)]

\* accountingInterval: the part of [from, upto) inside the window of upto's day.
AccountingInterval(from, upto, c) ==
  LET dayStart == (upto.wall \div Day) * Day
      opens    == WallOnly(dayStart + c.from)
      closes   == WallOnly(dayStart + c.until)
      first    == IF ~c.allDay /\ Before(from, opens) THEN opens ELSE from
      last     == IF ~c.allDay /\ Before(closes, upto) THEN closes ELSE upto
  IN  [from |-> first, upto |-> last,
       eligible |-> Before(from, upto) /\ Before(first, last)]

-----------------------------------------------------------------------------
\* writeRecoveryMarker: "reset" is never downgraded to "retry".
Marked(mode) == IF marker = "reset" THEN "reset" ELSE mode

\* enterStateRecovery: writing the marker may itself fail, which is only logged.
EnterRecovery(mode) ==
  /\ recovery' = mode
  /\ marker' \in {Marked(mode)} \cup (IF Faults THEN {marker} ELSE {})

\* Mistake: a failed save is only logged.
Save_Logged(s) ==
  \/ disk' = FileOf(s) /\ UNCHANGED <<recovery, marker>>
  \/ Faults /\ disk' \in {disk, FileOf(s)} /\ UNCHANGED <<recovery, marker>>

\* saveState, and the recovery it starts when it fails: before the rename the
\* old file stays, after it (the directory cannot be synced) the new one does.
Save(s) ==
  \/ disk' = FileOf(s) /\ UNCHANGED <<recovery, marker>>
  \/ Faults /\ disk' \in {disk, FileOf(s)} /\ EnterRecovery("retry")

ForgetSamples == prevUser' = FALSE /\ prevApps' = {}

-----------------------------------------------------------------------------
\* Mistake: a new day keeps the counters of the applications.
LoadedState_KeepsApps ==
  IF ~disk.present \/ ~Loadable(disk.state) \/ disk.state.date < Today
  THEN [NewState(Today) EXCEPT !.apps = disk.state.apps] ELSE disk.state

\* loadServiceState: what usage.json and the marker say of the day that starts.
LoadedState ==
  IF ~disk.present \/ ~Loadable(disk.state) \/ disk.state.date < Today
  THEN NewState(Today) ELSE disk.state

LoadedRecovery ==
  LET broken == disk.present /\ (~Loadable(disk.state) \/ disk.state.date > Today)
  IN  IF broken \/ marker = "reset" THEN "reset"
      ELSE IF marker = "retry" THEN "retry" ELSE "none"

\* What is left of the daemon's memory when its process is gone.
Forget == /\ state' = NewState(0)
          /\ lastTick' = NoInstant
          /\ ForgetSamples
          /\ tick' = NoTick
          /\ lock' = "none"

\* New and the start of Run: memory is rebuilt from the disk; the
\* configuration file may have been edited while the daemon was down.
Start ==
  /\ pc = "down"
  /\ pc' = "idle"
  /\ cfg' \in Configs
  /\ state' = LoadedState
  /\ recovery' = LoadedRecovery
  /\ lastTick' = now
  /\ ForgetSamples
  /\ lock' = "none"
  /\ UNCHANGED <<clock, tick, storage>>

\* Run returns: the last state is saved unless recovery is pending.
Stop ==
  /\ pc = "idle"
  /\ pc' = "down"
  /\ IF recovery = "none" THEN Save(state) ELSE UNCHANGED <<recovery, storage>>
  /\ Forget
  /\ UNCHANGED <<clock, cfg>>

\* The process dies wherever it is.
Crash ==
  /\ pc # "down"
  /\ pc' = "down"
  /\ Forget
  /\ UNCHANGED <<clock, cfg, recovery, storage>>

-----------------------------------------------------------------------------
(* The monitoring tick *)

\* tick while recovery is pending: a retry may succeed, otherwise sessions are
\* locked and nothing is counted.
TickInRecovery ==
  /\ pc = "idle" /\ recovery # "none"
  /\ \/ /\ recovery = "retry"
        /\ recovery' = "none" /\ marker' = "none" /\ disk' = FileOf(state)
        /\ lastTick' = now
        /\ ForgetSamples
        /\ lock' = "none"
     \/ /\ recovery = "reset" \/ Faults
        /\ disk' \in {disk} \cup (IF recovery = "retry" THEN {FileOf(state)} ELSE {})
        /\ marker' \in {marker} \cup
                       (IF recovery = "retry" /\ disk' = FileOf(state)
                        THEN {"none"} ELSE {})
        /\ lock' = "recovery"
        /\ UNCHANGED <<recovery, lastTick, prevUser, prevApps>>
  /\ UNCHANGED <<clock, pc, cfg, state, tick>>

\* Mistake: any change of the local date begins a fresh day.
TickRollback_Resets ==
  /\ pc = "idle" /\ recovery = "none"
  /\ Today < state.date
  /\ state' = NewState(Today)
  /\ Save(state')
  /\ UNCHANGED <<clock, pc, cfg, lastTick, prevUser, prevApps, tick, lock>>

\* The local date precedes the recorded one.
TickRollback ==
  /\ pc = "idle" /\ recovery = "none"
  /\ Today < state.date
  /\ EnterRecovery("reset")
  /\ lock' = "recovery"
  /\ UNCHANGED <<clock, pc, cfg, state, lastTick, prevUser, prevApps, tick, disk>>

\* maxDelta
Longest == 2 * cfg.poll * Second

\* Mistake: a long gap is charged in full.
ChargeFrom_Uncapped ==
  LET today == IF state.date < Today /\ Before(lastTick, Midnight)
               THEN Midnight ELSE lastTick
  IN  IF Before(now, today) THEN now ELSE today

\* The instant from which the tick may charge: the previous tick, midnight if
\* that is later and the day is new, and never more than two polls ago.
ChargeFrom ==
  LET today  == IF state.date < Today /\ Before(lastTick, Midnight)
                THEN Midnight ELSE lastTick
      notNew == IF Before(now, today) THEN now ELSE today
  IN  IF Sub(now, notNew) > Longest THEN Plus(now, -Longest) ELSE notNew

\* The first part of tick: roll the day over, take the samples and compute the
\* interval.  "using" says that the user has processes and an unlocked session
\* (a failed scan or session query counts as not using), "running" which
\* applications the scan found.
BeginTick(using, running) ==
  /\ pc = "idle" /\ recovery = "none"
  /\ state.date <= Today
  /\ LET today    == IF state.date < Today THEN NewState(Today) ELSE state
         interval == AccountingInterval(ChargeFrom, now, cfg)
     IN  /\ state' = today
         /\ tick' = [now |-> now, from |-> interval.from, upto |-> interval.upto,
                     counted |-> 0, using |-> using,
                     apps |-> {a \in running : today.apps[a] < cfg.apps[a]}]
         /\ pc' = IF prevUser /\ using /\ interval.eligible
                  THEN "account" ELSE "finish"
  /\ lastTick' = now
  /\ UNCHANGED <<clock, cfg, prevUser, prevApps, recovery, lock, storage>>

\* Mistake: the loop does not stop at the allowance.
Chargeable_Always == Before(tick.from, tick.upto)

\* The condition of the loop of accountUserInterval.
Chargeable == Before(tick.from, tick.upto) /\ state.device < cfg.device

\* Mistake: fractions of a second are rounded up.
Whole_Up == (Sub(tick.upto, tick.from) + Second - 1) \div Second

Whole == Sub(tick.upto, tick.from) \div Second

\* Mistake: a break that ends in the interval is charged as well.
AccountBreak_Charged ==
  /\ pc = "account" /\ Chargeable /\ state.onBreak
  /\ IF Before(tick.from, state.until) /\ ~Before(state.until, tick.upto)
     THEN pc' = "finish" /\ UNCHANGED state
     ELSE state' = EndBreak(state) /\ UNCHANGED pc
  /\ UNCHANGED <<clock, cfg, lastTick, prevUser, prevApps, recovery, tick, lock, storage>>

\* The loop meets a break: it skips what the break covers.
AccountBreak ==
  /\ pc = "account" /\ Chargeable /\ state.onBreak
  /\ LET inside == Before(tick.from, state.until)
     IN  IF inside /\ ~Before(state.until, tick.upto)
         THEN pc' = "finish" /\ UNCHANGED <<state, tick>>
         ELSE /\ tick' = [tick EXCEPT !.from = IF inside THEN state.until ELSE @]
              /\ state' = EndBreak(state)
              /\ UNCHANGED pc
  /\ UNCHANGED <<clock, cfg, lastTick, prevUser, prevApps, recovery, lock, storage>>

Least(x, y) == IF y < x THEN y ELSE x

\* Mistake: the rest of the daily allowance does not cap a charge.
Charge_Overshoots == Least(Whole, cfg.continuous - state.continuous)

\* The seconds one iteration charges: whole seconds, within both allowances.
Charge == Least(Least(Whole, cfg.device - state.device),
                cfg.continuous - state.continuous)

\* One charge; when it exhausts the continuous allowance a break begins where
\* the charge ended.
AccountCharge ==
  /\ pc = "account" /\ Chargeable /\ ~state.onBreak /\ Whole > 0
  /\ LET upto    == Plus(tick.from, Charge * Second)
         charged == [state EXCEPT !.device = @ + Charge, !.continuous = @ + Charge]
     IN  /\ tick' = [tick EXCEPT !.from = upto, !.counted = @ + Charge]
         /\ state' = IF charged.continuous >= cfg.continuous
                     THEN [charged EXCEPT !.continuous = 0, !.onBreak = TRUE,
                                          !.until = Plus(upto, cfg.break * Second)]
                     ELSE charged
  /\ UNCHANGED <<clock, pc, cfg, lastTick, prevUser, prevApps, recovery, lock, storage>>

\* The loop ends: nothing left, the allowance is used up, or a fraction of a
\* second remains.
AccountDone ==
  /\ pc = "account"
  /\ ~Chargeable \/ (~state.onBreak /\ Whole <= 0)
  /\ pc' = "finish"
  /\ UNCHANGED <<clock, memory, storage>>

\* Mistake: only the allowed hours block.
Blocked_HoursOnly(s, t, c) == ~AllowedAt(t, c)

Blocked(s, t, c) == ~AllowedAt(t, c) \/ s.device >= c.device

\* Access control of the tick: what it asks of logind and what it clears.
LockReason ==
  IF Blocked(state, tick.now, cfg) THEN "limit"
  ELSE IF state.onBreak /\ Before(tick.now, state.until) THEN "break" ELSE "none"

AfterAccess ==
  IF Blocked(state, tick.now, cfg) \/ (state.onBreak /\ ~Before(tick.now, state.until))
  THEN EndBreak(state) ELSE state

\* The applications seen at both ends of the interval get what was counted.
WithApps(s) ==
  [s EXCEPT !.apps = [a \in Apps |-> s.apps[a] +
                        (IF a \in tick.apps \cap prevApps THEN tick.counted ELSE 0)]]

\* The rest of tick.
FinishTick ==
  /\ pc = "finish"
  /\ pc' = "idle"
  /\ lock' = LockReason
  /\ state' = WithApps(AfterAccess)
  /\ prevUser' = tick.using
  /\ prevApps' = tick.apps
  /\ Save(state')
  /\ tick' = NoTick
  /\ UNCHANGED <<clock, cfg, lastTick>>

-----------------------------------------------------------------------------
(* Administrative commands *)

\* lpctl reload: any other configuration that loads; one that fails to load or
\* to apply changes nothing.
Reload ==
  /\ pc = "idle"
  /\ cfg' \in Configs
  /\ ForgetSamples
  /\ UNCHANGED <<clock, pc, state, lastTick, recovery, tick, lock, storage>>

\* Mistake: the reset is not saved.
ResetUser_Unsaved ==
  /\ pc = "idle" /\ recovery = "none"
  /\ state' = NewState(state.date)
  /\ UNCHANGED <<clock, pc, cfg, lastTick, prevUser, prevApps, recovery, tick, lock, storage>>

\* lpctl reset USER
ResetUser ==
  /\ pc = "idle" /\ recovery = "none"
  /\ state' = NewState(state.date)
  /\ Save(state')
  /\ UNCHANGED <<clock, pc, cfg, lastTick, prevUser, prevApps, tick, lock>>

\* lpctl reset USER APP
ResetApp(a) ==
  /\ pc = "idle" /\ recovery = "none"
  /\ state' = [state EXCEPT !.apps[a] = 0]
  /\ Save(state')
  /\ UNCHANGED <<clock, pc, cfg, lastTick, prevUser, prevApps, tick, lock>>

\* The state recover-state writes: a fresh day when the old file cannot be
\* trusted, the state in memory when only writing it had failed.
Recovered == IF recovery = "reset" THEN NewState(Today) ELSE state

\* lpctl recover-state: mark, quarantine (reset only), save, unmark.
RecoverState ==
  /\ pc = "idle" /\ recovery # "none"
  /\ state' = Recovered
  /\ disk' = FileOf(Recovered)
  /\ marker' = "none"
  /\ recovery' = "none"
  /\ lastTick' = now
  /\ ForgetSamples
  /\ UNCHANGED <<clock, pc, cfg, tick, lock>>

\* recover-state gives up at one of its steps and stays in recovery.
RecoverStateFails ==
  /\ Faults
  /\ pc = "idle" /\ recovery # "none"
  /\ LET quarantined == IF recovery = "reset" THEN NoFile ELSE disk
     IN  \/ \* the marker or the quarantine fails
            /\ marker' \in {marker, Marked(recovery)}
            /\ disk' \in IF marker' = Marked(recovery) THEN {disk, quarantined} ELSE {disk}
            /\ UNCHANGED state
         \/ \* saving the recovered state fails
            /\ marker' = Marked(recovery)
            /\ disk' \in {quarantined, FileOf(Recovered)}
            /\ state' = Recovered
         \/ \* removing the marker, or syncing its removal, fails
            /\ marker' \in {"none", Marked(recovery)}
            /\ disk' = FileOf(Recovered)
            /\ state' = Recovered
  /\ UNCHANGED <<clock, pc, cfg, lastTick, prevUser, prevApps, recovery, tick, lock>>

-----------------------------------------------------------------------------
(* The clocks move between the steps of the daemon. A tick reads them once,  *)
(* so moving them while it runs is the same as moving them after it.         *)

Advance ==
  /\ pc \in {"idle", "down"}
  /\ \E d \in Elapsed : /\ mono + d <= MaxMono
                        /\ mono' = mono + d
                        /\ wall' = wall + d
  /\ UNCHANGED <<pc, memory, storage>>

\* Suspend and resume, or a wall clock that is set.
StepClock ==
  /\ pc \in {"idle", "down"}
  /\ \E d \in ClockSteps : /\ wall + d \in Nat
                           /\ wall + d <= StartWall + MaxMono
                           /\ wall' = wall + d
  /\ UNCHANGED <<mono, pc, memory, storage>>

-----------------------------------------------------------------------------
Init ==
  /\ wall = StartWall /\ mono = 0
  /\ pc = "down"
  /\ cfg \in Configs
  /\ state = NewState(0)
  /\ lastTick = NoInstant
  /\ prevUser = FALSE /\ prevApps = {}
  /\ recovery = "none"
  /\ disk = NoFile /\ marker = "none"
  /\ tick = NoTick
  /\ lock = "none"

TickStep ==
  \/ TickInRecovery
  \/ TickRollback
  \/ \E using \in BOOLEAN, running \in SUBSET Apps : BeginTick(using, running)
  \/ AccountBreak
  \/ AccountCharge
  \/ AccountDone
  \/ FinishTick

Command == Reload \/ ResetUser \/ RecoverState \/ RecoverStateFails
           \/ \E a \in Apps : ResetApp(a)

Next == TickStep \/ Command \/ Start \/ Stop \/ Crash \/ Advance \/ StepClock

Spec == Init /\ [][Next]_vars

\* The timer of Run fires again after every tick, and a tick that holds the
\* mutex runs to its end.
FairSpec == Spec /\ WF_vars(TickStep)

-----------------------------------------------------------------------------
(* What is promised *)

UsageState == [date : Nat, device : Int, continuous : Int, onBreak : BOOLEAN,
               until : Instant, apps : [Apps -> Int]]
UsageFile == [present : BOOLEAN, state : UsageState]
TickLocals == [now : Instant, from : Instant, upto : Instant, counted : Int,
               using : BOOLEAN, apps : SUBSET Apps]

\* Every variable has its type; state, disk and the locals of the tick are
\* those of usageState and of tick.
TypeOK ==
  /\ wall \in Nat /\ mono \in Nat
  /\ pc \in {"down", "idle", "account", "finish"}
  /\ cfg \in Configs
  /\ state \in UsageState
  /\ lastTick \in Instant
  /\ prevUser \in BOOLEAN /\ prevApps \subseteq Apps
  /\ recovery \in {"none", "retry", "reset"}
  /\ disk \in UsageFile
  /\ marker \in {"none", "retry", "reset"}
  /\ tick \in TickLocals
  /\ lock \in {"none", "limit", "break", "recovery"}

\* However ticks, reloads, resets, crashes and failed saves interleave, the
\* device counter, in memory and on disk, never passes the largest allowance an
\* administrator ever installed: a tick cannot overshoot the allowance.
DeviceWithinLimit ==
  /\ \E c \in Configs : state.device <= c.device
  /\ \E c \in Configs : disk.state.device <= c.device

\* The moment up to which usage has been accounted for; while recovery is
\* pending nothing is counted and lastTick may be stale.
Sampled == IF recovery = "none" THEN lastTick.wall ELSE wall

\* While both clocks run together, the seconds charged to a day fit into the
\* time between its local midnight and the last sample: no instant is charged
\* twice, no time of the day before is carried over midnight, and neither a
\* crash, a recovery nor a restart makes the daemon charge its own downtime.
UsageWithinElapsed ==
  pc # "down" => state.device * Second <= Sampled - state.date * Day

\* The same for the window: what a day was charged lies inside the part of its
\* allowed hours that has passed (all configurations have one window).
UsageWithinWindow ==
  pc # "down" /\ ~cfg.allDay =>
    LET passed == Least(Sampled - state.date * Day, cfg.until) - cfg.from
    IN  state.device * Second <= IF passed < 0 THEN 0 ELSE passed

\* A mandatory break is served in time that is not charged: when the day was
\* charged k times the continuous allowance, k breaks lie between its midnight,
\* or the opening of its allowed hours, and now, or the end of the break that is
\* running.  A crash or a restart neither shortens nor cancels one.  (All
\* configurations have the same hours, allowances and breaks; the breaks of a day
\* end with its allowance or its hours.)
BreaksAreServed ==
  /\ pc # "down" /\ state.device \in 1..cfg.device - 1
  /\ pc # "account" => lastTick.wall \div Day = state.date /\ AllowedAt(lastTick, cfg)
  => LET breaks == state.device \div cfg.continuous
         served == IF state.onBreak THEN state.until.wall ELSE Sampled
         opened == state.date * Day + (IF cfg.allDay THEN 0 ELSE cfg.from)
     IN  (state.device + breaks * cfg.break) * Second <= served - opened

\* An application is charged only for seconds its user was charged for, so its
\* counter never passes the device counter, not even in the middle of a tick or
\* in the file a crash leaves behind.
AppsWithinDevice ==
  \A a \in Apps : /\ state.apps[a] <= state.device
                 /\ disk.state.apps[a] <= disk.state.device

\* What the daemon writes it can read: every usage.json it ever leaves behind
\* passes the range checks of loadState, so a restart never turns its own file
\* into a "usage state recovery required" lockout.
SavedStateLoads == disk.present => Loadable(disk.state)

\* Outside a tick and outside recovery the file of the current day is the state
\* in memory: whatever status or a command's reply showed survives a crash.
SavedBeforeRelease ==
  (pc = "idle" /\ recovery = "none" /\ disk.present /\ disk.state.date = state.date)
    => disk = FileOf(state)

\* A crash forgets at most what one tick can charge, however many saves failed
\* before it, for the daemon stops counting while saving fails, and however long
\* it was since the tick before: two polling intervals.  (No suspension, whose
\* time the wall clock alone shows, spans the opening of the allowed hours or the
\* end of a break that was read back from the file.)
CrashLosesOneTick ==
  (pc # "down" /\ disk.present /\ disk.state.date = state.date)
    => \E c \in Configs : state.device - disk.state.device <= 2 * c.poll

\* A user whose daily allowance is used up is asked to lock again and again,
\* until the allowance changes, writing usage.json fails (a tick whose retry of
\* that succeeds locks nobody) or the daemon goes away.
ExhaustedGetsLocked ==
  (pc # "down" /\ state.device >= cfg.device)
    ~> (pc = "down" \/ state.device < cfg.device \/ lock # "none" \/ recovery # "none")

\* The accounting loop ends and the mutex is released, whatever the state it
\* started from.
TickEnds == pc \in {"account", "finish"} ~> pc \in {"idle", "down"}

\* Every step is one that Allowance permits, or is invisible to it: whatever
\* ticks, intervals, breaks, failing saves, crashes and commands do inside, the
\* day's counter is raised only by charges within the allowance, is lowered only
\* by a later day or an administrator, and a tick that ends with the allowance
\* used up has locked the user.  (All configurations have one continuous
\* allowance.)
Promised == INSTANCE Allowance WITH
  Limits <- {c.device : c \in Configs},
  phase  <- IF pc = "down" THEN "off"
            ELSE [none |-> "counting", retry |-> "retrying", reset |-> "refusing"][recovery],
  day    <- state.date,
  used   <- state.device,
  kept   <- [present |-> disk.present, day |-> disk.state.date, used |-> disk.state.device],
  limit  <- cfg.device,
  locked <- lock # "none"

ImplementsAllowance == Promised!Spec
=============================================================================
