----------------------------- MODULE Enforcement -----------------------------
(***************************************************************************)
(* How the daemon ends the applications whose allowance is used up:        *)
(* ProcScanner.Scan of internal/process reads /proc entry by entry while   *)
(* processes fork, exec, exit and reuse each other's PIDs, and tick of     *)
(* internal/daemon sends SIGTERM through the pidfds of the scan, remembers *)
(* a deadline per PID, and sends SIGKILL at a later tick.                  *)
(*                                                                         *)
(* Counters are abstracted to the set "spent" of exhausted allowances (see *)
(* DeviceUsage for the counting and its saving).  Time only passes between *)
(* ticks, because a tick reads the clock once; deadlines are kept as the   *)
(* time that is left, so that no bound on the clock is needed.             *)
(***************************************************************************)
EXTENDS Integers, FiniteSets

CONSTANTS
  Pids,        \* numeric process identifiers, reused after an exit
  Users,       \* the controlled users; nobody else's processes are monitored
  Apps,        \* configured applications, one executable each
  Unlisted,    \* the executables that no rule names
  Programs,    \* the executables a process may run
  Grace,       \* termination_grace_seconds, in units of the clock
  MaxFds,      \* pidfds the daemon may hold before pidfd_open fails
  MaxBorn,     \* bound on the processes that are ever started
  MaxEvents,   \* bound on execs, failing system calls, crashes and commands
  None         \* no process, no pending termination, no warning

ASSUME PidsAssumption == Pids \subseteq Nat /\ IsFiniteSet(Pids)
ASSUME ProgramsAssumption == Unlisted \notin Apps /\ Programs \subseteq Apps \cup {Unlisted}
ASSUME BoundsAssumption == /\ Grace \in Nat \ {0} /\ MaxFds \in Nat
                           /\ MaxBorn \in Nat /\ MaxEvents \in Nat

VARIABLES
  table,       \* the process table of the kernel
  born,        \* processes started so far; a process' start time is its number
  pc,          \* "idle" (mutex free), "user", "open", "link" or "act" in a tick
  scan,        \* the locals of Scan
  scanError,   \* applicationMonitoringError
  held,        \* pidfds the daemon holds open
  spent,       \* <<user, application>> pairs whose daily allowance is used up
  seen,        \* previousApps
  pending,     \* pendingKill
  recovery,    \* Service.recovery: "none", "retry" (saving failed) or "reset"
  warned,      \* history: per process, the last SIGTERM of this daemon that no
               \* administrator has revoked: for whom, for what, how long ago
  killed,      \* history: the processes SIGKILL was delivered to
  events

machine == <<table, born>>
memory == <<spent, seen, pending, recovery>>
history == <<warned, killed>>
vars == <<machine, pc, scan, scanError, held, memory, history, events>>

Process == [born : 1..MaxBorn, user : Users, app : Programs]
Info == [pid : Pids, born : 1..MaxBorn, user : Users, app : Programs]
Pending == [left : 0..Grace, process : Info]
Warning == [user : Users, app : Apps, age : 0..Grace]
Rules == Users \X Apps
Recoveries == {"none", "retry", "reset"}

ASSUME NoneAssumption == None \notin Process \cup Pending \cup Warning

NoScan == [todo |-> {}, user |-> None, born |-> 0, found |-> {}]

Counted == events < MaxEvents /\ events' = events + 1

-----------------------------------------------------------------------------
(* ProcScanner.Scan *)

\* os.ReadDir returns the entries in order.
Entry == CHOOSE p \in scan.todo : \A q \in scan.todo : p <= q

\* Mistake: the error of an earlier scan is never cleared.
ScanOn_Sticky(s) == /\ scan' = s
                    /\ pc' = IF s.todo = {} THEN "act" ELSE "user"
                    /\ UNCHANGED scanError

\* On to the next entry; after the last one Scan returns without an error.
ScanOn(s) == /\ scan' = s
             /\ IF s.todo = {} THEN pc' = "act" /\ scanError' = FALSE
                ELSE pc' = "user" /\ UNCHANGED scanError

NextEntry(s) == ScanOn([todo |-> s.todo \ {Entry}, user |-> None, born |-> 0, found |-> s.found])

\* Scan returns an error; what it had opened is not closed.
ScanFails == /\ scanError' = TRUE
             /\ scan' = NoScan
             /\ pc' = "act"

\* /proc/PID/status: the owner, unless the process is gone.
ReadUser ==
  /\ pc = "user"
  /\ IF table[Entry] = None THEN NextEntry(scan)
     ELSE /\ scan' = [scan EXCEPT !.user = table[Entry].user]
          /\ pc' = "open"
          /\ UNCHANGED scanError
  /\ UNCHANGED <<machine, held, memory, history, events>>

\* The start time, the pidfd and the start time again: a PID that was reused in
\* between is skipped, so the pidfd belongs to the start time.
OpenProcess ==
  /\ pc = "open"
  /\ IF table[Entry] = None THEN NextEntry(scan) /\ UNCHANGED <<held, events>>
     ELSE \/ /\ held < MaxFds
             /\ held' = held + 1
             /\ scan' = [scan EXCEPT !.born = table[Entry].born]
             /\ pc' = "link"
             /\ UNCHANGED <<scanError, events>>
          \/ /\ (held = MaxFds /\ UNCHANGED events) \/ Counted
             /\ ScanFails
             /\ UNCHANGED held
  /\ UNCHANGED <<machine, memory, history>>

\* Mistake: the pidfd is closed before it is handed on, and again by tick.
ReadLink_Closes ==
  /\ pc = "link"
  /\ held' = held - 1
  /\ NextEntry([scan EXCEPT !.found = @ \cup
       IF table[Entry] = None THEN {}
       ELSE {[pid |-> Entry, born |-> scan.born, user |-> scan.user, app |-> table[Entry].app]}])
  /\ UNCHANGED <<machine, memory, history, events>>

\* /proc/PID/exe: the executable of whatever process has the PID by now.
ReadLink ==
  /\ pc = "link"
  /\ IF table[Entry] = None
     THEN NextEntry(scan) /\ held' = held - 1
     ELSE /\ NextEntry([scan EXCEPT !.found = @ \cup
               {[pid |-> Entry, born |-> scan.born, user |-> scan.user,
                 app |-> table[Entry].app]}])
          /\ UNCHANGED held
  /\ UNCHANGED <<machine, memory, history, events>>

-----------------------------------------------------------------------------
(* tick *)

\* The prologue: roll the day over, and read the directory of /proc.
BeginTick ==
  /\ pc = "idle" /\ recovery = "none"
  /\ spent' \in {spent, {}}
  /\ \/ /\ ScanOn([NoScan EXCEPT !.todo = {p \in Pids : table[p] # None}])
        /\ UNCHANGED events
     \/ Counted /\ ScanFails
  /\ UNCHANGED <<machine, held, seen, pending, recovery, history>>

\* The timezone was changed by a reload, or the local date is earlier than the
\* recorded one: the tick ends before its scan, and a reset is required.
RefuseTick ==
  /\ pc = "idle" /\ recovery = "none" /\ Counted
  /\ recovery' = "reset"
  /\ UNCHANGED <<machine, pc, scan, scanError, held, spent, seen, pending, history>>

\* While recovery is pending a tick neither scans nor signals.  It retries what
\* failed to be saved; when that fails again, or a reset is required, nothing is
\* changed.
TickInRecovery ==
  /\ pc = "idle" /\ recovery # "none"
  /\ \/ recovery = "retry" /\ recovery' = "none" /\ seen' = {}
     \/ UNCHANGED <<recovery, seen>>
  /\ UNCHANGED <<machine, pc, scan, scanError, held, spent, pending, history, events>>

\* findApplication, for a process of a controlled user
Rule(i) == <<i.user, i.app>>

Alive(i) == table[i.pid] # None /\ table[i.pid].born = i.born

\* Mistake: a PID identifies a process.
SameIdentity_Pid(i, j) == i.pid = j.pid

SameIdentity(i, j) == i.pid = j.pid /\ i.user = j.user /\ i.born = j.born /\ i.app = j.app

\* terminate: a PID whose termination is pending is left alone.
ToTerminate(exhausted) ==
  {i \in scan.found : Rule(i) \in exhausted /\ pending[i.pid] = None}

\* A SIGTERM to a process that is gone is not an error.
Scheduled(sent) ==
  [p \in Pids |-> IF \E i \in sent : i.pid = p
                  THEN [left |-> Grace, process |-> CHOOSE i \in sent : i.pid = p]
                  ELSE pending[p]]

\* A scan that failed keeps every deadline, also those that have passed.
Due == {p \in Pids : ~scanError /\ pending[p] # None /\ pending[p].left = 0}

\* Those SIGKILL is sent to: the same process is still in the scan.
ToKill == {i \in scan.found : i.pid \in Due /\ SameIdentity(i, pending[i.pid].process)}

\* The rest of tick: terminate, count what was seen twice (which may exhaust
\* an allowance), terminate again, send SIGKILL at the deadlines, close the
\* pidfds and save.  "refused" are signals that fail for another reason than
\* that the process is gone, "unsaved" says that saving fails.
Act(refused, unsaved) ==
  /\ pc = "act"
  /\ (refused # {} \/ unsaved) => events < MaxEvents
  /\ events' = IF refused # {} \/ unsaved THEN events + 1 ELSE events
  /\ LET active == {Rule(i) : i \in scan.found} \cap (Rules \ spent)
     IN  /\ \E exhausted \in SUBSET (active \cap seen) : spent' = spent \cup exhausted
         /\ seen' = active
  /\ LET sent  == ToTerminate(spent') \ refused
         kills == {i \in ToKill \ refused : Alive(i)}
     IN  /\ pending' = [p \in Pids |-> IF p \in Due THEN None ELSE Scheduled(sent)[p]]
         /\ table' = [p \in Pids |-> IF \E i \in kills : i.pid = p THEN None ELSE table[p]]
         /\ killed' = killed \cup {i.born : i \in kills}
         /\ warned' = [b \in 1..MaxBorn |->
                        IF \E i \in sent : i.born = b
                        THEN LET i == CHOOSE i \in sent : i.born = b
                             IN  [user |-> i.user, app |-> i.app, age |-> 0]
                        ELSE warned[b]]
  /\ held' = held - Cardinality(scan.found)
  /\ recovery' = IF unsaved THEN "retry" ELSE "none"
  /\ scan' = NoScan
  /\ pc' = "idle"
  /\ UNCHANGED <<born, scanError>>

-----------------------------------------------------------------------------
(* Commands *)

Revoke(of(_)) == warned' = [b \in 1..MaxBorn |->
                              IF warned[b] # None /\ of(warned[b]) THEN None ELSE warned[b]]

\* Mistake: a reset cancels every pending termination.
Cancel_All(user, apps) == pending' = [p \in Pids |-> None]

\* cancelPendingTerminations
Cancel(user, apps) ==
  pending' = [p \in Pids |->
    IF pending[p] # None /\ pending[p].process.user = user /\ pending[p].process.app \in apps
    THEN None ELSE pending[p]]

\* lpctl reload: other rules and limits, under which other allowances are used up.
Reload ==
  /\ pc = "idle" /\ Counted
  /\ spent' \in SUBSET Rules
  /\ pending' = [p \in Pids |-> None]
  /\ seen' = {}
  /\ Revoke(LAMBDA w : TRUE)
  /\ UNCHANGED <<machine, pc, scan, scanError, held, recovery, killed>>

\* lpctl reset USER [APP]: one rule of the user, or all of them; saving may fail.
Reset(user, apps) ==
  /\ pc = "idle" /\ recovery = "none" /\ Counted
  /\ spent' = spent \ ({user} \X apps)
  /\ Cancel(user, apps)
  /\ recovery' \in {"none", "retry"}
  /\ Revoke(LAMBDA w : w.user = user /\ w.app \in apps)
  /\ UNCHANGED <<machine, pc, scan, scanError, held, seen, killed>>

\* lpctl recover-state: the counters are kept, or a fresh day begins when a reset
\* is required, and that also if saving it fails; pending terminations stay.
RecoverState ==
  /\ pc = "idle" /\ recovery # "none"
  /\ spent' = IF recovery = "reset" THEN {} ELSE spent
  /\ \/ recovery' = "none" /\ seen' = {}
     \/ UNCHANGED <<recovery, seen>>
  /\ UNCHANGED <<machine, pc, scan, scanError, held, pending, history, events>>

\* The daemon is stopped or dies, and a new one starts without memory, with the
\* configuration, the counters and the recovery it finds on the disk.
Restart ==
  /\ Counted
  /\ pc' = "idle" /\ scan' = NoScan /\ scanError' = FALSE /\ held' = 0
  /\ seen' = {}
  /\ pending' = [p \in Pids |-> None]
  /\ spent' \in SUBSET Rules /\ recovery' \in Recoveries
  /\ Revoke(LAMBDA w : TRUE)
  /\ UNCHANGED <<machine, killed>>

-----------------------------------------------------------------------------
(* The machine: at any moment, also between the reads of a scan. *)

Spawn(p, user, app) ==
  /\ table[p] = None /\ born < MaxBorn
  /\ born' = born + 1
  /\ table' = [table EXCEPT ![p] = [born |-> born', user |-> user, app |-> app]]
  /\ UNCHANGED <<pc, scan, scanError, held, memory, history, events>>

Exec(p, app) ==
  /\ table[p] # None /\ table[p].app # app /\ Counted
  /\ table' = [table EXCEPT ![p].app = app]
  /\ UNCHANGED <<born, pc, scan, scanError, held, memory, history>>

Exit(p) ==
  /\ table[p] # None
  /\ table' = [table EXCEPT ![p] = None]
  /\ UNCHANGED <<born, pc, scan, scanError, held, memory, history, events>>

\* A unit of time passes between two ticks.
Advance ==
  /\ pc = "idle"
  /\ \/ \E p \in Pids : pending[p] # None /\ pending[p].left > 0
     \/ \E b \in 1..MaxBorn : warned[b] # None /\ warned[b].age < Grace
  /\ pending' = [p \in Pids |-> IF pending[p] = None \/ pending[p].left = 0 THEN pending[p]
                                ELSE [pending[p] EXCEPT !.left = @ - 1]]
  /\ warned' = [b \in 1..MaxBorn |-> IF warned[b] = None \/ warned[b].age = Grace THEN warned[b]
                                     ELSE [warned[b] EXCEPT !.age = @ + 1]]
  /\ UNCHANGED <<machine, pc, scan, scanError, held, spent, seen, recovery, killed, events>>

-----------------------------------------------------------------------------
Init ==
  /\ table = [p \in Pids |-> None] /\ born = 0
  /\ pc = "idle" /\ scan = NoScan /\ scanError = FALSE /\ held = 0
  /\ spent \in SUBSET Rules
  /\ seen = {}
  /\ pending = [p \in Pids |-> None]
  /\ recovery \in Recoveries
  /\ warned = [b \in 1..MaxBorn |-> None] /\ killed = {}
  /\ events = 0

Scan == ReadUser \/ OpenProcess \/ ReadLink
Tick == \/ BeginTick \/ RefuseTick \/ TickInRecovery \/ Scan
        \/ \E refused \in SUBSET scan.found, unsaved \in BOOLEAN : Act(refused, unsaved)
Command == \/ Reload \/ RecoverState \/ Restart
           \/ \E user \in Users : Reset(user, Apps) \/ \E a \in Apps : Reset(user, {a})
Machine == \E p \in Pids : \/ \E user \in Users, app \in Programs : Spawn(p, user, app)
                           \/ \E app \in Programs : Exec(p, app)
                           \/ Exit(p)

Next == Tick \/ Command \/ Machine \/ Advance

Spec == Init /\ [][Next]_vars

\* Time passes and the timer of Run fires; a tick runs to its end.  Nothing says
\* that a recovery ends.
FairSpec == Spec /\ SF_vars(Advance) /\ SF_vars(BeginTick) /\ WF_vars(Scan)
                 /\ WF_vars(\E refused \in SUBSET scan.found, unsaved \in BOOLEAN :
                              Act(refused, unsaved))

-----------------------------------------------------------------------------
(* What is promised *)

\* Every variable has its type; scan holds the locals of Scan.
TypeOK ==
  /\ table \in [Pids -> Process \cup {None}] /\ born \in 0..MaxBorn
  /\ pc \in {"idle", "user", "open", "link", "act"}
  /\ scan.todo \subseteq Pids /\ scan.found \subseteq Info
  /\ scanError \in BOOLEAN /\ held \in 0..MaxFds
  /\ spent \subseteq Rules /\ seen \subseteq Rules
  /\ pending \in [Pids -> Pending \cup {None}]
  /\ recovery \in Recoveries
  /\ warned \in [1..MaxBorn -> Warning \cup {None}] /\ killed \subseteq 1..MaxBorn
  /\ events \in 0..MaxEvents

\* SIGKILL reaches only a process that this daemon has sent a SIGTERM, at least
\* the grace period before, that no reload and no reset of its application or
\* user has revoked since: not one that reuses its PID, not one whose warning
\* was for somebody else, not one an administrator has let off.
KillsAreWarned ==
  [][\A b \in killed' \ killed : warned[b] # None /\ warned[b].age = Grace]_vars

\* A reset is scoped: a process that was sent SIGTERM keeps its own pending
\* termination and its original deadline, whatever is reset for other users and
\* applications and whatever else reuses PIDs.
WarnedStayPending ==
  \A p \in Pids :
    table[p] # None /\ warned[table[p].born] # None /\ warned[table[p].born].age < Grace
      => /\ pending[p] # None
         /\ pending[p].process.born = table[p].born
         /\ pending[p].left = Grace - warned[table[p].born].age

OverLimit(b) == \E p \in Pids : table[p] # None /\ table[p].born = b /\ Rule(table[p]) \in spent

\* A process that ignores SIGTERM and whose allowance stays used up is gone in
\* the end, for it cannot hide behind a PID that was pending for another process,
\* unless the daemon stays in recovery for good: a reset that only an
\* administrator can authorise, or a disk that is never written again.
OverLimitEnds == \A b \in 1..MaxBorn : OverLimit(b) ~> (~OverLimit(b) \/ [](recovery # "none"))

\* The signals an exhausted allowance causes go to its own user's processes.
OnlyOwnersPay ==
  \A p \in Pids : table[p] # None /\ warned[table[p].born] # None
                    => warned[table[p].born].user = table[p].user

\* Monitoring that failed once recovers when the failure is over, unless the
\* daemon stays in recovery for good.
ScanRecovers == scanError ~> (~scanError \/ [](recovery # "none"))
=============================================================================
