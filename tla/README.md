# local-parental-control in TLA+

`local-parental-control` is a root daemon that limits how long the users of a Linux
desktop may use the device and single applications. It polls `/proc` and logind, counts
seconds per user and application, locks sessions and terminates processes at the limits,
keeps the counters in `usage.json`, and redirects DNS for blocked domains. This directory
models it in TLA+: TLC checks the modules on small instances, TLAPS proves the
theorems for every value of the constants.

Paths below are relative to the repository's source, `src/`.

## 1. Inventory

| Component | State it keeps | Operations |
|---|---|---|
| Usage accounting, `internal/daemon/daemon.go` | `state` (per user: device seconds, continuous seconds, break deadline, seconds per application), `lastTick`, `previousUsers`, `previousApps`, `cfg`, `uidUsers` | `tick` (poll timer of `Run`), `accountingInterval`, `accountUserInterval`, access decision, `execute` (reload, reset, recover-state, status), final save |
| State persistence and recovery, `internal/daemon/state.go` | `usage.json`, the marker `usage.json.recovery`, quarantined files, `Service.recovery` | `saveState`, `loadState`, `loadServiceState`, `writeRecoveryMarker`, `recoverState`, `quarantineState`, `retryStatePersistence`, `enterStateRecovery` |
| Process scanning and termination, `internal/process`, `daemon.go` | pidfds of the running scan, `pendingKill`, `applicationMonitoringError` | `Scan`, `Signal`, `terminate`, the deadline loop of `tick`, `cancelPendingTerminations` |
| Schedule, `internal/config/config.go`, `daemon.go` | none | `AllowedAt`, `accountingInterval` |
| Session control, `internal/daemon/session.go` | none | `Unlocked`, `Lock` through loginctl, 5 s timeouts |
| Configuration, `internal/config` | the loaded `Config` | `LoadSecure`, `Validate`, Snap-aware executable matching, domain normalisation |
| Sockets and API, `daemon.go`, `internal/api` | at most 16 handlers per socket, `Service.mu` | `serve`, `serveStatus`, `handle`, `handleStatus`, `Run`, peer credentials, 5 s deadlines |
| Web filter, `internal/webfilter/filter.go` | DNS servers, generation, nftables table; per server 128 slots and a UDP buffer | `Apply`, `Close`, `serveUDP`, `serveTCP`, `handleTCP` |
| DNS codec, `internal/webfilter/dns.go` | none | `questionName`, `decodeName`, `blockedResponse`, `matchesDomain` |
| Indicator, `lpctl`, discovery, entry point | none that outlives a call | read-only clients, formatting, flags |
| Packaging and scripts | none | installation, sandbox, release |

**How they interact.** One mutex, `Service.mu`, is held by the whole of `tick` and of every
command; status requests take it for reading. `tick` calls the scanner, loginctl, and
`saveState`; a save that fails turns into recovery, which stops all counting and locks
every controlled session. Commands call the same `saveState`. `reload` exchanges the
configuration, the user table and the DNS filter, and clears what `tick` remembers of its
previous sample and every pending SIGKILL. The disk is the only state that survives a
restart, the clocks and the process table the only things that change under a tick.

**What is hard.** Usage is charged for intervals between two samples, so day rollover,
allowed hours, breaks, late ticks, restarts, and a wall clock that is set all cut the same
interval. Instants carry a wall reading and sometimes a monotonic one, and Go compares them
differently. A save fails before or after its rename; a power loss undoes renames. PIDs are
reused between two reads of one scan and between SIGTERM and SIGKILL. Commands arrive in
every pause. `PROJECT.json` lists each hazard at its line with the properties that cover it.

**What makes each component correct.** *Accounting*: no second is charged twice or outside
the allowed hours or in a break; the allowance is never overshot; a used-up allowance ends in a lock;
what was counted survives. *Persistence*: nothing gives usage back without an
administrator; recovery is neither lifted by accident nor stuck; nothing quarantined is lost.
*Termination*: SIGKILL reaches only a process that was warned, a grace period ago, and not let
off since; a warned process cannot escape; the owner of a process pays for it alone.
*Schedule*: charged time is allowed time. *Configuration*: a process is found under the rule that names its
program, and under no other. *Web filter*: rules never point to a server
that is gone; a failed reload leaves the old filter; a blocked name is refused, and only that.
*Sockets*: a reload answered OK is in force; whatever clients do, handlers, ticks and the shutdown go on.

## 2. Modules

| Module | Models | Runs |
|---|---|---|
| `GoTime` | `time.Time`: wall reading, optional monotonic reading, `Sub`, `Before`, `Add`, what JSON keeps | through `DeviceUsage` |
| `DeviceUsage` | accounting for one user, with its own view of save and recovery | `DeviceUsage*` |
| `Allowance` | abstract specification: what the accounting promises about a day's allowance | `DeviceUsageLimits`, as a property |
| `StatePersistence` | `usage.json` and the marker, one step per file operation | `Persistence*` |
| `Enforcement` | the scan against a changing process table, SIGTERM, SIGKILL | `Enforcement*` |
| `WebFilter` | the DNS servers, the nftables table, and the transaction of `reload` around them | through `ControlSocket` |
| `ControlSocket` | `Run`, the handlers of both sockets, the mutex and the shutdown, around `WebFilter` | `WebFilterReload` |
| `DnsServer` | the handlers of one DNS server, and the decoder of the name asked for | `DnsServer` |
| `Schedule` | the two readings of the allowed hours, with a change of the local clock | through `Configuration` |
| `Configuration` | what `LoadSecure` accepts and stores, and matching processes across Snap refreshes, around `Schedule` | `Configuration` |
| `MC...` | the instances for TLC | |
| `DeviceUsage_proofs`, `DeviceElapsed_proofs`, `DeviceState_proofs` | theorems about `DeviceUsage`: types and the limit; what time is charged; what file and memory agree on, and the refinement | |
| `StatePersistence_proofs`, `Enforcement_proofs`, `DnsServer_proofs` | theorems about the module of that name | |
| `ControlSocket_proofs` | theorems about `WebFilter` and its composition | |
| `Configuration_proofs` | theorems about `Configuration` and the `Schedule` in it | |

`ControlSocket` EXTENDS `WebFilter` and composes their actions, as `Configuration` does with `Schedule`.
`DeviceUsage`, `StatePersistence` and `Enforcement` look at the same ticks and commands from three sides; each
has its own abstraction of the other two (a save with three outcomes, a counter per date, the set of exhausted rules).

### DeviceUsage

Users share no counters, so one user is followed. `state` is that user's part of
`usageState`; `tick` holds the locals of a running tick; `pc` says where it is. The tick is
cut at every point where the code has changed memory but not the disk: `BeginTick` rolls the
day over, samples, and computes the interval; `AccountBreak`, `AccountCharge` and
`AccountDone` are the iterations of the loop in `accountUserInterval`; `FinishTick` decides
about access, charges applications, and saves. `Crash` may strike at each point. Commands run
only when the mutex is free (`pc = "idle"`). `Save(s)` has the three outcomes of
`saveState`: done, failed before the rename, failed after it, the last two of which enter
recovery with a marker that may fail too. Minutes of the configuration are seconds here, a
second is `Second` units of the clock, a day `Day` units. What the scan and logind answer is
any input of `BeginTick`.

### Allowance

`Allowance` knows neither ticks, intervals, breaks, applications nor files. A user's daemon is off, counting,
retrying to keep what it counted, or refusing; the counter is raised by charges that stay within the allowance,
lowered only by a later day or an administrator, restored at a restart as it was kept; whenever the daemon looks and finds
the allowance used up, it locks; it never leaves "retrying" or "refusing" without having kept what it goes on with.
`DeviceUsage` instantiates it with the mapping at its end (`Promised`): `phase` from `pc` and `recovery`, `kept` from
`usage.json`, `locked` from `lock`. `ImplementsAllowance` is its specification; breaks, the rest of the tick, clocks and the
marker are steps it does not see.

### StatePersistence

What is counted is one number per local date. Every handler (`op`) is a sequence of file
operations (`step`): `SavePrepare`, `SaveRename`, `SaveSync`, `Unmark`, `UnmarkSync`,
`MarkPrepare`, `MarkRename`, `MarkSync`, `Quarantine`, `QuarantineSync`; each succeeds or,
`MaxFaults` times, fails. `dir` is what the kernel shows, `survivors` the directories a power
loss may leave: a sync reduces it to `dir`. `Crash` loses memory only, `PowerLoss` also the
renames since the last sync, `Damage` makes a file unreadable while the daemon is down.
`floor`, `evidence` and `sealed` are history variables: the durable usage that may not
shrink, the files that must be kept, and whether a reset-required marker is durable.

### Enforcement

`table` is the kernel's process table: a PID maps to a process with a unique start time.
`Spawn`, `Exec` and `Exit` interleave with the reads of `Scan` (`ReadUser`, `OpenProcess`, `ReadLink`,
one entry of `/proc` after the other); `Act` is the rest of `tick`, which works on what the
scan found and signals through its pidfds. Counters are abstracted to the set `spent` of
exhausted rules, which a tick may enlarge by rules seen twice; `DeviceUsage` counts them. `recovery` is the one of the daemon, "none",
"retry" or "reset": a save that fails enters the second (`Act`, `Reset`), a changed timezone or a rollback the third (`RefuseTick`); a tick in
recovery (`TickInRecovery`) can only end the second, `RecoverState` either, and a restart finds any.
`pending` is `pendingKill`, with the time left until the deadline. `warned` and `killed` are
history variables.

### Schedule and Configuration

In `Schedule` the clock is an integer, the local clock that integer plus an offset that changes once.
`AllowedAt` reads the hands of the local clock; `AccountingInterval` adds minutes to
the instant of local midnight. Each step is a tick. `Configuration` adds where the window comes from (`Load` takes
any file `Validate` and `validateExecutablesAt` accept) and the application rules: `Resolved` is
`filepath.EvalSymlinks` for any symbolic links (`Link`), `Stored` what the daemon keeps of a path, `Found` the rules `findApplication` chooses from for the running
`process`. `Refresh` moves a Snap's `current`; processes of the old revision run on. A path is a Snap, a
revision and a file.

### WebFilter and ControlSocket

`servers`, `generation` are the filter's fields, `cfg` and `uidUsers` those of the service, `listening` the
sockets that are open and `rules` the kernel's table, both keyed as the code keys them (port, UID).
`Start` and `Reload` enter `Apply`, which is cut where users can send queries: after each server it starts
(`StartServer`), after nft (`InstallRules`), after the old servers are closed (`CloseOld`).
`ServersFail` and `InstallFails` are its error returns, each with the rollback of `execute`; a failing nft
may leave the old or the new table, because its context can kill it after the kernel's commit. `trusted` is
a history variable: FALSE from a failed call that took effect, or a start that finds a dead
daemon's table, until the next successful call. `Close` is that of the shutdown, which a reload that waited may overtake (`Reload` from "closed"). Ports count from 0 (`firstPort` left out), and the generation is kept modulo 2.

`ControlSocket` has the goroutines. `run` is where `Run` is: applying the first filter, in its `select`, waiting for the
mutex in `tick` or in the last save, returning, closed. `conn` is the handler of each connection: `read` the request, `wait` for the
mutex, `busy` with a reload's `Apply`, `reply`; an indicator's waits for the read lock (`rwait`) and holds it while it
replies. `MayLock` and `MayRLock` are `sync.RWMutex`: a waiting writer keeps new readers out, and a writer that leaves lets the waiting ones in
(`Release`). A deadline, a peer that hangs up and an answer that was read are one step (`Expire`); `tick` is one step here. `acked` is a
history variable: what the last reload answered OK has installed.

### DnsServer

One server with its two loops, its slots and its handlers (`handler`: `read`, `decode`, `refuse`, `dial`, `upstream`). `buffer` is the one
buffer of `serveUDP`. The decoder runs on real octets, one step per label or pointer, so that datagrams may arrive between them;
it keeps the text read so far, where `decodeName` keeps the labels and joins them at the end (`Join`), and `Matches` is `matchesDomain` on
that text. `AsksBlocked` does not run the decoder: `Names` is the format of names in RFC 1035, a recursive function that gives
every offset of a packet the name that stands there, and `Asks` the name of the question. `MCDnsServer` has tables, written by
hand, of what each packet of the instance asks for, and two assumptions in which TLC compares the format with them.

Every operator named `X_Suffix`, introduced by the word *Mistake*, is a plausible wrong version
of `X`. No specification uses it: it is there to show that a property fails when the code has that mistake.

## 3. What TLC checks

Each run finishes in about a minute at most.

| Run | Bounds | What it shows |
|---|---|---|
| `DeviceUsageLimits` | 341k states. Two configurations (allowances 3 and 2, continuous 2, breaks 1 and 2, application 1 and 2), 6 seconds over a midnight of which 3 are charged, the wall clock set back by 2, faults | `DeviceWithinLimit`, `SavedStateLoads`, `SavedBeforeRelease`, `CrashLosesOneTick`, and the refinement `ImplementsAllowance` |
| `DeviceUsageWindow` | 56k. One configuration with a window of 7 seconds, which may close in a break, two units a second, 20 units of time over a midnight into the next window, clocks together | `UsageWithinElapsed`, `UsageWithinWindow`, `BreaksAreServed`, `AppsWithinDevice`, `TypeOK`; with fairness `ExhaustedGetsLocked`, `TickEnds` |
| `PersistenceFaults` | 5.2M. Two dates, clock both ways, two faults, two crashes or power losses | `NoSilentReset`, `EvidencePreserved`, `RecoveryIsSticky`, `CountedIsDurable`, `TypeOK` |
| `PersistenceZones` | 316k. Two timezones half a day apart, changed by reload and at restarts, one fault | `DayEndsInItsTimezone`; with fairness `RetrySucceeds`, `HandlersReturn` |
| `EnforcementPids` | 154k. Two users, two applications, one PID, two processes, one command, failure, restart or refused tick, fairness | `KillsAreWarned`, `WarnedStayPending`, `OverLimitEnds`, `TypeOK` |
| `WebFilterReload` | 44k. Four configurations of two or three users (one with too many for the two ports, one with two users of one UID), two domains, a user who comes and goes; two connections of lpctl, one of an indicator | `RulesServed`, `FilterMatchesConfig`, `NoServerLeaks`, `FreshPortsFree`, `AcknowledgedInForce`, `StatusIsAcknowledged`, `TypeOK`; with fairness `HandlersEnd`, `TicksGoOn`, `StopEnds` |
| `DnsServer` | 33k. Two clients for one slot, 23 packets: eleven names in plain, two with pointers, ten without a name; at most two pointers | `BlockedIsRefused`, `TypeOK`; with fairness `SlotsReturn` |
| `Configuration` | 35k. Every window of a day of 8 units, ticks of 1 to 3 units over three midnights, the clock moved back on the second day; ten sets of rules over two native programs, the Snap launcher and a Snap with two revisions, reached also by a native link and by a link in one of the revisions | `ProgramsHaveOneRule`, `ChargedOnOrdinaryDays`, `ConfigurationTypeOK` |

**Why the bounds are enough.** A tick charges at most two seconds, and the allowances are
a few seconds, so a run has ticks that stop below, at, and across every limit, twice, and
more than one break in an interval of a window. Time runs past a midnight. A
second of two units shows the dropped fractions. Two crashes and two faults suffice for a
fault inside the recovery from another. A PID reuse needs two processes, a scoped reset two
rules, a scan that fails halfway two PIDs (`EnforcementLeak`). Two generations of ports alternate whatever
their size; two ports and three users let a configuration have too many. Two slots and two connections of
lpctl let a second command wait while one reloads and an indicator reads; a third connection would be turned away, which changes
nothing but the count. DNS handlers share only the buffer and the slots, so two clients for one slot show
both. The packets have every branch of the decoder, among them pointers to themselves, back, outside, and one too many.

`DnsServer` turns deadlock checking off, because a server whose loops have ended and whose handlers are done stops; no other
run does.

**Fairness.** `TickStep` in `DeviceUsage` and the file steps in `StatePersistence`: a handler
that holds the mutex runs on (loginctl calls have timeouts, file operations return) and
the ticker of `Run` fires again after every tick. No run assumes that a stopped daemon
starts again: the unit restarts it only on failure. `TickRetry` is strongly fair because commands may take the mutex in between,
but the mutex is free infinitely often. In `Enforcement`, time passes between ticks (`Advance`)
and ticks begin (`BeginTick`), both strongly fair for the same reason; faults are bounded
there. Nothing is assumed of a recovery, neither that an administrator ends it nor that its retry ever succeeds: a tick in recovery neither scans nor
signals, so `OverLimitEnds` and `ScanRecovers` promise nothing of a daemon that stays in recovery for good. That a recovery which
only waits for the disk does end is `RetrySucceeds`, of `StatePersistence`. In `ControlSocket` deadlines expire and the timer fires because time passes; whoever holds the mutex runs on, for nft and
loginctl are killed after their timeouts; a `Lock` that is possible again and again is granted (strong fairness of `Execute` and `Tick`), for
`sync.Mutex` lets no goroutine starve; and `select` sees in the end that the context is done (strong fairness of `RunStops`).
In `DnsServer` handlers run, and every read, write and dial has a deadline. Nothing is assumed of
clients, of the accept loops, of the upstream resolver, or of commands, crashes, processes or clocks.

## 4. Where the code and its documents differ

Four runs expect a violation.

| Run | Counterexample |
|---|---|
| `DeviceUsageLowered` | The user has used 2 s of a continuous allowance, a reload lowers it to 1 s: `remaining` is -1 (`daemon.go:413`), the counters go down, an application's falls below zero and is saved, and `loadState` refuses the file. |
| `PersistenceZoneRestart` | The daemon restarts with a timezone in which it is already tomorrow: `loadState` begins a fresh day before `New` compares the timezones; `docs/MANUAL-TESTS.md:152` promises recovery. |
| `EnforcementReuse` | `Scan` reads a PID's owner, the process exits, another user's takes the PID before its start time is read: the second process is terminated for the first one's user; `docs/MANUAL-TESTS.md:209`. |
| `EnforcementLeak` | `Scan` returns an error and forgets the pidfds it holds; when none is left every scan fails; `docs/MANUAL-TESTS.md:135` speaks of a scan that recovers. |

Others were found while modelling and have no run:

- bob's account is removed, a reload brings carol instead and nft fails: the old configuration is put back, but `resolveUsers`
  fails on bob and its error is ignored (`daemon.go:682`), so carol is monitored with an empty configuration, which allows no
  hour, and is locked (`docs/MANUAL-TESTS.md:79`). `Rollback` has this; `FilterMatchesConfig` and `AcknowledgedInForce` are checked in an
  instance whose accounts do not bring it about.
- A reload that waited for the mutex when `Run` closed the filter installs rules for servers that die with the process a moment
  later (`daemon.go:117`), so the user's queries meet nobody until the next start. `RulesServed` says only that they are served as long as the
  process lives.
- The two-poll cap compares monotonic readings, and `accountingInterval` then replaces the start by a wall-clock opening
  (`daemon.go:381`), so a suspension across the opening is charged beyond the cap (`docs/MANUAL-TESTS.md:149`).
- The deadline of a break carries a monotonic reading until a restart, so a suspension prolongs it (`daemon.go:285`,
  `docs/MANUAL-TESTS.md:177`).
- On the day of a daylight-saving change the charged window is an hour off the allowed one (`daemon.go:379`, `README.md:29`), which is
  why `ChargedOnOrdinaryDays` excludes that day.
- A link outside `/snap` that leads into a Snap is stored with the numeric revision and matches nothing after the next refresh, and a
  path below `/snap` that is itself a link to another file of its Snap is stored unresolved and never matches the resolved path
  of a process; two names of one such file are not seen as duplicates (`config.go:133`, against `README.md:139` and
  `docs/MANUAL-TESTS.md:100,102`). The model loads such paths like any other, as the code does, but `ProgramsHaveOneRule` does not hold for them
and is said of the rules whose paths are all `Direct`.
- A DNS label that contains a dot octet reads like two labels (`Join`; the label `a.` like `a`), and an error of `Accept` or `ReadFromUDP` ends that loop for
  good while the rules go on pointing to it (`filter.go:205`; `LoopEnds`).

## 5. What TLAPS proves

| Theorem | Module | States | Rests on |
|---|---|---|---|
| `TypeCorrect` | `DeviceUsage_proofs` | `Spec => []TypeOK` | the constants' assumptions |
| `DeviceNeverPastLimit` | `DeviceUsage_proofs` | `Spec => []DeviceWithinLimit` | `TypeCorrect` |
| `LoopAlwaysAdvances` | `DeviceUsage_proofs` | `Spec => [][LoopAdvances]_vars` | `TypeCorrect` |
| `NothingChargedTwice` | `DeviceElapsed_proofs` | `Spec => []UsageWithinElapsed` | the same and `ClocksRunTogether`: `ClockSteps = {}` |
| `ChargedInAllowedHours` | `DeviceElapsed_proofs` | `Spec => []UsageWithinWindow` | `ClocksRunTogether` and `OneWindow`: all configurations have the same hours |
| `BreaksServed` | `DeviceElapsed_proofs` | `Spec => []BreaksAreServed` | `ClocksRunTogether` and `OnePace`: all configurations have the same hours, allowances and breaks |
| `FileIsStateBetweenTicks` | `DeviceState_proofs` | `Spec => []SavedBeforeRelease` | `TypeCorrect` |
| `EveryFileLoads` | `DeviceState_proofs` | `Spec => []SavedStateLoads` | `OneContinuous`: all configurations have one continuous allowance |
| `NoApplicationAhead` | `DeviceState_proofs` | `Spec => []AppsWithinDevice` | `OneContinuous` |
| `CrashForgetsOneTick` | `DeviceState_proofs` | `Spec => []CrashLosesOneTick` | `OneContinuous` and `NoTimeSkipped`: the clocks run together, or the wall clock is only set back and nobody has allowed hours |
| `CodeImplementsAllowance` | `DeviceState_proofs` | `Spec => ImplementsAllowance` | `OneContinuous` |
| `TypeCorrect`, `NoUsageGivenBack`, `DurableUsage`, `RecoveryLasts`, `EvidenceSurvives`, `UsageLastsItsDay` | `StatePersistence_proofs` | `Spec => []TypeOK`, `[]NoSilentReset`, `[]CountedIsDurable`, `[]RecoveryIsSticky`, `[]EvidencePreserved`, `DayEndsInItsTimezone` | the constants' assumptions |
| `TypeCorrect`, `WarnedStay`, `KillsWereWarned` | `Enforcement_proofs` | `Spec => []TypeOK`, `[]WarnedStayPending`, `KillsAreWarned` | the constants' assumptions |
| `TypeCorrect`, `RulesAlwaysServed`, `ServersNeverLeak`, `FreshPortsAlwaysFree` | `ControlSocket_proofs` | `Spec => []TypeOK`, `[]RulesServed`, `[]NoServerLeaks`, `[]FreshPortsFree` (of `WebFilter`) | the constants' assumptions |
| `ReloadIsTransaction` | `ControlSocket_proofs` | `Spec => []FilterMatchesConfig` (of `WebFilter`) | `AccountsFixed`: there is one account database |
| `SocketsKeepFilter` | `ControlSocket_proofs` | `SocketSpec => Spec` | |
| `AcknowledgedStaysInForce`, `StatusStaysAcknowledged` | `ControlSocket_proofs` | `SocketSpec => []AcknowledgedInForce`, `[]StatusIsAcknowledged` | `AccountsFixed` |
| `TypeCorrect`, `OneRuleForEachProgram`, `ChargedTimeIsAllowed` | `Configuration_proofs` | `ConfigurationSpec => []ConfigurationTypeOK`, `[]ProgramsHaveOneRule`, `[]ChargedOnOrdinaryDays` | the constants' assumptions |
| `DecoderStaysInside`, `RefusedExactlyWhenBlocked` | `DnsServer_proofs` | `Spec => []TypeOK`, `[]BlockedIsRefused` | the constants' assumptions |
| `DecoderAlwaysAdvances` | `DnsServer_proofs` | `Spec => [][DecodingAdvances]_vars` | the constants' assumptions |

Those about `DeviceUsage` are proved for every set of applications and configurations, every unit of time and
with failing writes, in contrast to the runs' two configurations. These hypotheses are not conveniences, for without them the
statements are false. `OneContinuous`: `DeviceUsageLowered` (only the proof of `CrashForgetsOneTick` uses it for its own sake, to know that
charges are positive). `ClocksRunTogether`: the counters are kept by the monotonic clock, and
a wall clock that is set back has them exceed the time it shows. `OneWindow`, `OnePace`: what was charged under the old
hours need not lie in the new ones, nor are the breaks of the old length those of the new one. `NoTimeSkipped`: a suspension across the opening of the hours is charged beyond two
polls (section 4), and so is one across the end of a break that was read from the file.

`DeviceNeverPastLimit` is inductive together with `TypeOK`: the property speaks of the file as
well (a restart brings its counter back), `cfg` is always in `Configs`, and a charge is capped by
what is left of the allowance in force, which the loop's condition makes positive.

`LoopAlwaysAdvances` is the part of `TickEnds` that needs no fairness: an iteration of the accounting loop ends it or lowers `LeftToDo`, twice
what is left of the daily allowance plus what the continuous counter exceeds its allowance by, and a break that runs or has to
begin. The excess is there for the case of `DeviceUsageLowered`, in which one iteration lowers the device counter; it happens once,
since it begins a break. Thus no hypothesis about the configurations is needed.

`NothingChargedTwice` needs to know where a running tick is. The inductive invariant `ElapsedInv`
says: every instant with a monotonic reading is synced with the wall clock, so that Go's two
comparisons agree (`ClocksInv`); what the day was charged fits before `lastTick`, or before the
current moment while recovery leaves `lastTick` stale (`DaemonInv`); the file's counter fits
before the current moment, whenever a restart reads it (`FileInv`); while the loop runs, the
charge fits before the point it has reached, `tick.from`, which never passes `tick.upto`, nor
that `lastTick` (`LoopInv`); and no tick is running in recovery (`TickInv`).

`ChargedInAllowedHours` adds `HoursInv`: state and file are inside the part of the hours that has passed (`InHours`) at the last
sample and now, and while the loop runs the charge lies between the opening and `tick.from`, and `tick.upto` before the
closing. A tick of a new day starts from nothing; one of the same day clips its interval by the hours of that day (`IntervalInHours`).

`BreaksServed` adds `PaceInv`: there is a `k` such that the day was charged `k` continuous allowances and `continuous` seconds, and
all of it with `k` breaks fits between the opening of the day and the point that is reached, or the end of the break that runs
(`Paced`); or else the day's allowance or hours are over (`Over`), which ends breaks early. Time
(`PacedLater`), charges with or without a break after them (`ChargePaced`), the breaks the loop skips (`BreakPaced`) and the
decision about access (`AccessPaced`) keep it. The proof attempt changed the property: in its first form it also spoke of moments after
the closing of the hours, when `tick` has cleared a break that is not over, and TLC found that with hours too short for the whole allowance.

`CrashForgetsOneTick` has three invariants. An instant the daemon remembers is at least as far ahead of the monotonic clock as one read now
(`OldInv`), so no difference Go computes exceeds the one between samples; hence counted seconds and the rest of the interval
stay within two polls (`CapInv`); and the file of the day lacks what the running tick has counted, or, once a save
has failed, what that one tick counted, for recovery counts nothing (`LossInv`).

`FileIsStateBetweenTicks` adds to the property that a file is a fixed point of saving (its break deadline has lost the
monotonic reading), which is what makes a state that was just loaded equal to its file.

`EveryFileLoads` and `NoApplicationAhead` follow from one invariant, `RangeInv`: in memory and in the file every counter is in
its range (`InRange`; the continuous counter is strictly below its allowance, for a break resets it), and each application's counter plus what the
running tick has counted so far is within the device counter, so that `FinishTick` may add it. The strictness is what makes
every charge positive (`ChargePositive`).

`CodeImplementsAllowance` uses `RangeInv` (a file that loads is not replaced by a fresh day at a restart, and charges are
positive) and `TickInv` (a tick that runs is not in recovery). There is a lemma for each kind of step: `StartIsOn`, `EndIsOff`, `RecoveryTicks`,
`RollbackIsRefusal`, `ChargeIsCharge`, `FinishIsLook`, `ResetIsReset`, `RecoverIsRecover`; the others begin a new day, install an allowance, or are
not seen.

`PersistenceInv` is the inductive invariant of `StatePersistence`. `StepInv` says what each file operation may rely on: a file is set
aside, and a fresh state saved, only under a reset marker, and a marker is removed only when every directory a power loss
may leave has the file of the state. `DiskInv`: a directory a daemon would count on from (`LooksFine`) keeps the durable usage, and if the
kernel's does, all do. `CountInv`: a daemon that counts, or retries, does so on such a directory. `SealInv` and `EvidenceInv`
carry the marker and the quarantined files through power losses. `UsageLastsItsDay` is an action property that follows from it: a tick and a start find a
state that covers the durable usage, of a date no later than today (`TickStaysInDay`, `StartStaysInDay`). Nothing bounds faults, crashes or damage there but constants that may be
any numbers.

`EnforcementInv` of `Enforcement`: the locals of `Scan` at each of its steps, with a pidfd held for all it found (`ScanInv`); a start time
belongs to one PID, wherever the kernel, the scan or a deadline mentions it (`PidInv`); a deadline and the warning of its process
tell the same user, application and time left, and a warning younger than the grace period has its deadline (`WarnInv`). `KillsWereWarned` is
an action property: the process killed by a step was warned a whole grace period before it.

In `Configuration`, `RulesInv` says that what is stored is safe or a Snap's file below `current`, and of the rules whose paths are direct that they are the
stored form of the paths of `config.json`, that each path was acceptable when it was loaded (`Admitted`), and that no two of them store one path; links
and the other rules may be anything. From it follows that what a direct path stands for survives every refresh
(`StoredStays`), so a process matches it exactly when it runs what the path stands for (`MatchesRuns`). `ChargedTimeIsAllowed` is arithmetic:
the day of a transition is the only one on which the hands of the clock and the time since midnight differ (`AfterMidnight`, `HandsShowTime`).

`DecoderInv` keeps both offsets of the decoder, that of the octet it reads and the one the question goes on at, inside the packet, and the jumps
within their maximum, for packets of any length.

`RefusedExactlyWhenBlocked` says that the loop of `decodeName` computes the format of names. `AnswerInv` is its invariant: the name the packet has
is what was read, joined with the name that the format gives the place the decoder is at (`Completed`), and there is
none if there is none at that place (`Reading`); a query that was answered or forwarded was decided as it should (`Decided`). Each step of the
decoder is one case of the format (`LabelReads`, `PointerReads`, `EndReads`, `FailDecides`), and `DecodesFormat` is where the
code's checks of bounds and depth meet it. That the equations of the format have a solution at all, pointers leading back and
forth as they do, is `NamesUnfold`: a label leads further, a pointer uses up one of `MaxDepth`, so `Rank` decreases, and solutions up to
a rank grow to the next (`SolutionGrows`). The induction is one over least counterexamples (`LeastNat`), which needs no theorem with an
operator as its parameter. `MatchesMeans` says that the code, which cuts the text at one dot after the other, finds the blocked name
itself and every text that ends with a dot and a blocked name, and no other.

`DecoderAlwaysAdvances`, with the same `Rank`, is the part of `SlotsReturn` that needs no fairness: pointers never lead the decoder in a circle.

`FilterInv` is the inductive invariant of `WebFilter`: the filter's servers have ports in the half of its generation, the fresh
ones in the other half, at the places their users have among those with domains (`Places`, `FreshPorts`: places differ and
fit), the open sockets are the two together, and a trusted table points to the filter's servers, or from the exchange of the rules on to
the fresh ones. `MatchInv` adds what the servers refuse: trusted rules serve the configuration in force, while another
is tried out the one to go back to, and the fresh servers serve the new one. It needs `AccountsFixed`: a rollback resolves the old
configuration again, with the accounts of that moment.

In `ControlSocket` every step is one of `WebFilter` or leaves it alone, which gives `SocketsKeepFilter` and with it the theorems
of `WebFilter` for the composition. `LockInv` says who may be applying a configuration: `Run` at its start, when nobody is
connected, or else the one handler that holds the mutex, while nobody reads. `TrialInv` ties what was acknowledged to the
configuration a reload would go back to; a reader gets the mutex only between commands (`FreeForReaders`,
`ReleaseKeepsStatus`), where what is in force was acknowledged.

## 6. What is only model-checked, and what is not modelled

Liveness (`ExhaustedGetsLocked`, `TickEnds`, `RetrySucceeds`, `HandlersReturn`, `OverLimitEnds`, `HandlersEnd`,
`TicksGoOn`, `StopEnds`, `SlotsReturn`) is out of the prover's reach, but that the two loops of the code whose number of
iterations is not evident advance is proved (`LoopAlwaysAdvances`, `DecoderAlwaysAdvances`). Every invariant, and each action property, of a passing run is
proved as well. `strings.ToLower` is any function on octets (`Lower`): what it does to texts that are not ASCII is not modelled.

Not modelled:

- `lpctl`'s commands other than their connections, `lpctl discover` (a walk over desktop files that keeps no state), the
  indicator's polling and drawing, flags and logging of the entry points, packaging and scripts: no state, or none of the
  program's.
- The parsing of `/proc`, loginctl and JSON; wording, logging and status output; the privacy and permission checks on files.
- The order of users inside one tick. `DeviceUsage` has one user, which is sound because users share only the
  file (one save for all), `lastTick`, and recovery. In `Enforcement` the time loginctl takes within a tick is zero.
- The bits of a DNS answer and the framing of TCP, which are layout; that a resolver found at `Apply` may change later.
- Accounts renumbered while they are monitored: the daemon reads the database only at its start and at reloads, so the properties of the filter are
  about accounts that keep their UIDs.

## 7. Plan

In this order; all of it is done.

1. `GoTime`, `DeviceUsage`: the accounting, its runs and first theorems.
2. `StatePersistence`: the file protocol.
3. `Enforcement`: scan and termination.
4. `Schedule`: the two readings of the allowed hours.
5. Proofs of `TypeOK`, `DeviceWithinLimit`, `UsageWithinElapsed`.
6. `WebFilter`: servers, generation and nftables, with the transaction of `reload` and its rollback.
7. `ControlSocket`: the sockets, the mutex and the shutdown, around `WebFilter`; `DnsServer`.
8. `Allowance`, and `DeviceUsage` shown to implement it, by TLC and by proof; `SavedBeforeRelease`, `SavedStateLoads`,
   `AppsWithinDevice` proved.
9. `Configuration`: what is loaded, and matching across Snap refreshes.
10. Proofs of `RulesServed`, `FilterMatchesConfig`, `NoServerLeaks`, `FreshPortsFree`, `AcknowledgedInForce`,
    `StatusIsAcknowledged`.
11. Proofs of `NoSilentReset`, `CountedIsDurable`, `RecoveryIsSticky`, `EvidencePreserved`; `KillsAreWarned`, `WarnedStayPending`;
    `UsageWithinWindow`, `CrashLosesOneTick`.
12. Proofs of `ProgramsHaveOneRule`, `ChargedOnOrdinaryDays`, `BreaksAreServed`, and of the types of `DnsServer` and `WebFilter`.
13. `BlockedIsRefused` proved, against the format of names in place of a table of packets; `LoopAlwaysAdvances`, `DecoderAlwaysAdvances`.
