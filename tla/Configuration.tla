---------------------------- MODULE Configuration ----------------------------
(***************************************************************************)
(* What LoadSecure (internal/config) makes of config.json for one user,    *)
(* and what the daemon then reads from it while the world moves on: the    *)
(* allowed hours (Schedule) and the executables of the application rules.  *)
(* A process is known by the path of its executable as the kernel resolved *)
(* it.  The path of a Snap names a revision, which a refresh replaces; the *)
(* link "current" leads to the latest one.                                 *)
(*                                                                         *)
(* A path is [snap, revision, file]; outside of /snap the first two are    *)
(* Native.                                                                 *)
(***************************************************************************)
EXTENDS Schedule, FiniteSets

CONSTANTS
  Native,
  Current,    \* the link to the latest revision
  Revisions,  \* the numeric ones, such as 42 and x1
  Link,       \* the symbolic links, "current" apart, with the paths they lead to in the end
  Safe,       \* resolved paths of root's native executables, none the Snap launcher
  NoClock,    \* an allowed_from or allowed_until that is absent or not HH:MM
  Files       \* what config.json may say: [allDay, from, until, executables]

Snaps == {path.snap : path \in Safe} \ {Native}

ASSUME SafeAssumption == \A path \in Safe : path.snap = Native \/ path.revision \in Revisions
ASSUME ClockAssumption == NoClock \notin 0..Day-1

ASSUME RevisionsAssumption == Current # Native /\ Current \notin Revisions

\* Only a path below /snap has a Snap and a revision.
IsPath(path) ==
  /\ path = [snap |-> path.snap, revision |-> path.revision, file |-> path.file]
  /\ path.snap = Native <=> path.revision = Native

ASSUME PathsAssumption ==
  /\ \A path \in Safe : IsPath(path)
  /\ \A path \in DOMAIN Link : IsPath(Link[path])
  /\ \A file \in Files : \A app \in DOMAIN file.executables :
       \A path \in file.executables[app] : IsPath(path)

\* Times are those of parseClock, or missing.
ASSUME FilesAssumption ==
  \A file \in Files : /\ file.allDay \in BOOLEAN
                      /\ file.from \in 0..Day-1 \cup {NoClock}
                      /\ file.until \in 0..Day-1 \cup {NoClock}

VARIABLES
  current,   \* the latest revision of each Snap
  listed,    \* history: the paths of config.json, for each rule in force
  rules,     \* the executables stored instead of them
  process    \* a running process: the resolved path of its executable

programs == <<current, listed, rules, process>>
allVars == <<vars, programs>>

-----------------------------------------------------------------------------
(* Validate, and validateExecutablesAt *)

\* Mistake: a window may be empty.
ScheduleAccepted_Equal(file) ==
  IF file.allDay THEN file.from = NoClock /\ file.until = NoClock
  ELSE /\ file.from # NoClock /\ file.until # NoClock
       /\ file.from <= file.until

\* The schedule of a user: the whole day, or two times in order.
ScheduleAccepted(file) ==
  IF file.allDay THEN file.from = NoClock /\ file.until = NoClock
  ELSE /\ file.from # NoClock /\ file.until # NoClock
       /\ file.from < file.until

WindowOf(file) ==
  [allDay |-> file.allDay,
   from |-> IF file.allDay THEN 0 ELSE file.from, until |-> IF file.allDay THEN 0 ELSE file.until]

AtRevision(path) ==
  IF path.revision = Current THEN [path EXCEPT !.revision = current[path.snap]] ELSE path

\* filepath.EvalSymlinks: a link may lead to "current", and be reached by it.
Resolved(path) ==
  LET file == AtRevision(path)
  IN  AtRevision(IF file \in DOMAIN Link THEN Link[file] ELSE file)

\* stableSnapExecutable: a path below a revision or below "current".
IsStable(path) == path.snap # Native /\ path.revision \in Revisions \cup {Current}

Stable(path) == [path EXCEPT !.revision = Current]

\* InspectNativeExecutable, of the stable path of a Snap.
Inspected(path) == Resolved(IF IsStable(path) THEN Stable(path) ELSE path)

\* Mistake: Snaps are resolved like everything else.
Stored_Resolved(path) == Inspected(path)

Stored(path) == IF IsStable(path) THEN Stable(path) ELSE Inspected(path)

Entries(file) == UNION {{app} \X file.executables[app] : app \in DOMAIN file.executables}

\* seen: no executable in two rules, or twice in one, under whatever names.
Unique(file) == \A e, f \in Entries(file) : Stored(e[2]) = Stored(f[2]) => e = f

RulesAccepted(file) ==
  /\ \A app \in DOMAIN file.executables : file.executables[app] # {}
  /\ \A e \in Entries(file) : Inspected(e[2]) \in Safe
  /\ Unique(file)

Accepted == {file \in Files : ScheduleAccepted(file) /\ RulesAccepted(file)}

\* LoadSecure at the start or for a reload; a file that is not accepted leaves
\* the configuration in force.
Load ==
  /\ \E file \in Accepted :
       /\ window' = WindowOf(file)
       /\ listed' = file.executables
       /\ rules' = [app \in DOMAIN file.executables |->
                      {Stored(path) : path \in file.executables[app]}]
  /\ UNCHANGED <<previous, clock, current, process>>

-----------------------------------------------------------------------------
(* The world *)

\* snapd installs another revision and moves "current"; processes run on.
Refresh ==
  /\ \E snap \in Snaps, revision \in Revisions : current' = [current EXCEPT ![snap] = revision]
  /\ UNCHANGED <<vars, listed, rules, process>>

\* Any program is started, that of a Snap in the current revision.
Launch ==
  /\ \E path \in Safe : path = Inspected(path) /\ process' = path
  /\ UNCHANGED <<vars, current, listed, rules>>

-----------------------------------------------------------------------------
(* ExecutableMatches, findApplication *)

Matches(stored) ==
  \/ stored = process
  \/ /\ stored.snap # Native /\ stored.revision = Current /\ process.revision \in Revisions
     /\ stored.snap = process.snap /\ stored.file = process.file

\* The rules one of which findApplication takes, the first in the file.
Found == {app \in DOMAIN rules : \E stored \in rules[app] : Matches(stored)}

-----------------------------------------------------------------------------
ConfigurationInit ==
  /\ Init /\ window = [allDay |-> TRUE, from |-> 0, until |-> 0]
  /\ listed = <<>> /\ rules = <<>>
  /\ current \in [Snaps -> Revisions]
  /\ process \in {path \in Safe : path.snap = Native}

TickOn == Tick /\ UNCHANGED programs

ConfigurationNext == Load \/ Refresh \/ Launch \/ TickOn

ConfigurationSpec == ConfigurationInit /\ [][ConfigurationNext]_allVars

-----------------------------------------------------------------------------
(* What is promised *)

\* Every variable has its type: what is loaded is a schedule with a beginning
\* and an end, and rules that name safe executables, or files of a Snap in
\* whatever revision.
ConfigurationTypeOK ==
  /\ TypeOK
  /\ current \in [Snaps -> Revisions]
  /\ DOMAIN rules = DOMAIN listed
  /\ \A app \in DOMAIN rules : \A stored \in rules[app] :
       stored \in Safe \/ (stored.snap # Native /\ stored.revision = Current)
  /\ process \in Safe

\* No link but "current" takes a path into a Snap, or from a file of a Snap to
\* another: a link outside of /snap leads outside of /snap.
Direct(path) ==
  /\ path \in DOMAIN Link => path.snap = Native /\ Link[path].snap = Native
  /\ path.snap # Native =>
       \A revision \in Revisions : [path EXCEPT !.revision = revision] \notin DOMAIN Link

\* The process runs the program that a direct path of config.json names: the file
\* it leads to, or that file of the Snap, whatever the revision.
Runs(path) ==
  IF path.snap = Native THEN process = Resolved(path)
  ELSE process.snap = path.snap /\ process.file = path.file

DirectRules == {app \in DOMAIN listed : \A path \in listed[app] : Direct(path)}

\* A process is found under the rule that names its program, be it by a link
\* outside of /snap, by a revision that is gone or by "current", and whatever
\* Snaps were refreshed since the process began or the rule was loaded; and under
\* no other rule, so that one counter pays for it (docs/BUSINESS-LOGIC-AUDIT.md,
\* BL-02).  This is said of the rules whose paths are all direct, whatever the
\* others list: a path that a link takes into a Snap is stored with the revision
\* of the moment, and one that is a link within a Snap is stored unresolved.
ProgramsHaveOneRule ==
  LET found == Found \cap DirectRules
  IN  /\ found = {app \in DirectRules : \E path \in listed[app] : Runs(path)}
      /\ Cardinality(found) <= 1
=============================================================================
