------------------------- MODULE Configuration_proofs -------------------------
(***************************************************************************)
(* Theorems about Configuration and the Schedule it EXTENDS: what a tick   *)
(* charges are the allowed instants, for every length of the day, every    *)
(* transition and every window; and a process is found under the rule that *)
(* names its program, for every set of files, links and Snaps, as long as  *)
(* no link takes one of its paths into or within a Snap.                   *)
(***************************************************************************)
EXTENDS Configuration, FiniteSetTheorems, TLAPS

-----------------------------------------------------------------------------
(* Days of the local clock *)

LEMMA DayIsPositive == Day \in Nat /\ Day > 0 /\ Last \in Nat
BY DayAssumption

LEMMA Multiples ==
  ASSUME NEW a \in Int, NEW b \in Int
  PROVE  /\ a * Day \in Int /\ (a + 1) * Day = a * Day + Day
         /\ a < b <=> a * Day + Day <= b * Day
<1>1. a * Day \in Int /\ b * Day \in Int /\ (a + 1) * Day = a * Day + Day
  BY DayIsPositive
<1>2. ASSUME a < b PROVE a * Day + Day <= b * Day
  <2>1. b - (a + 1) \in Nat BY <1>2
  <2>2. (b - (a + 1)) * Day >= 0 BY <2>1, DayIsPositive
  <2>. QED BY <1>1, <2>2, DayIsPositive
<1>3. ASSUME b <= a PROVE b * Day <= a * Day
  <2>1. a - b \in Nat BY <1>3
  <2>2. (a - b) * Day >= 0 BY <2>1, DayIsPositive
  <2>. QED BY <1>1, <2>2, DayIsPositive
<1>. QED BY <1>1, <1>2, <1>3, DayIsPositive

\* The day and the time of day of a local time.
LEMMA DayOf ==
  ASSUME NEW x \in Int, NEW d \in Int
  PROVE  /\ x \div Day \in Int
         /\ d <= x \div Day <=> d * Day <= x
         /\ x \div Day = d => x % Day = x - d * Day
<1>. DEFINE q == x \div Day
<1>1. q \in Int /\ x % Day \in 0..Day-1 /\ x = Day * q + (x % Day)
  BY DayIsPositive
<1>. HIDE DEF q
<1>2. q * Day = Day * q /\ d * Day \in Int /\ q * Day \in Int
  BY <1>1, DayIsPositive
<1>. DEFINE r == x % Day
<1>. HIDE DEF r
<1>3. r \in 0..Day-1 /\ x = q * Day + r
  BY <1>1, <1>2 DEF r
<1>4. ASSUME d <= q PROVE d * Day <= q * Day
  BY <1>1, <1>2, <1>4, Multiples, DayIsPositive
<1>5. ASSUME q < d PROVE q * Day + Day <= d * Day
  BY <1>1, <1>2, <1>5, Multiples, DayIsPositive
<1>6. d <= q <=> d * Day <= x
  BY <1>1, <1>2, <1>3, <1>4, <1>5, DayIsPositive
<1>7. q = d => r = x - d * Day
  BY <1>1, <1>2, <1>3, DayIsPositive
<1>. QED BY <1>1, <1>6, <1>7 DEF q, r

\* The day of the transition begins before it and ends after it, on both clocks.
LEMMA TransitionDay ==
  LET d == LocalDay(ShiftAt)
  IN  /\ d \in Int /\ d * Day \in Int
      /\ d * Day < ShiftAt /\ ShiftAt < d * Day + Day
      /\ d * Day <= ShiftAt + Shift /\ ShiftAt + Shift < d * Day + Day
<1>. DEFINE d == ShiftAt \div Day
<1>1. Shift \in Int /\ ShiftAt \in Int
  BY ShiftAssumption
<1>2. d \in Int /\ d + 1 \in Int /\ (ShiftAt + Shift) \div Day = d /\ (ShiftAt - 1) \div Day = d
  BY <1>1, DayOf, ShiftAssumption
<1>3. LocalDay(ShiftAt) = d
  BY <1>1, <1>2 DEF LocalDay, Local
<1>. HIDE DEF d
<1>4. d * Day <= ShiftAt - 1
  BY <1>1, <1>2, DayOf
<1>5. d * Day <= ShiftAt + Shift
  BY <1>1, <1>2, DayOf
<1>6. ~((d + 1) * Day <= ShiftAt)
  BY <1>1, <1>2, DayOf, ShiftAssumption DEF d
<1>7. ~((d + 1) * Day <= ShiftAt + Shift)
  BY <1>1, <1>2, DayOf
<1>8. d * Day \in Int /\ (d + 1) * Day = d * Day + Day
  BY <1>2, Multiples
<1>. QED BY <1>1, <1>2, <1>3, <1>4, <1>5, <1>6, <1>7, <1>8, DayIsPositive

\* MidnightOf is where a local day begins, whether before the transition or after.
LEMMA AfterMidnight ==
  ASSUME NEW t \in Int, NEW d \in Int
  PROVE  /\ MidnightOf(d) \in Int /\ LocalDay(t) \in Int
         /\ d <= LocalDay(t) <=> MidnightOf(d) <= t
<1>. DEFINE e == LocalDay(ShiftAt)
<1>1. Shift \in Int /\ ShiftAt \in Int
  BY ShiftAssumption
<1>2. /\ e \in Int /\ e * Day \in Int
      /\ e * Day < ShiftAt /\ ShiftAt < e * Day + Day
      /\ e * Day <= ShiftAt + Shift /\ ShiftAt + Shift < e * Day + Day
  BY TransitionDay
<1>. HIDE DEF e
<1>3. Local(t) \in Int /\ d * Day \in Int
  BY <1>1, Multiples DEF Local
<1>4. LocalDay(t) \in Int /\ (d <= LocalDay(t) <=> d * Day <= Local(t))
  BY <1>3, DayOf DEF LocalDay
<1>5. CASE d <= e
  <2>1. d * Day <= e * Day
    BY <1>2, <1>5, Multiples, DayIsPositive
  <2>. QED BY <1>1, <1>2, <1>3, <1>4, <2>1, DayIsPositive DEF MidnightOf, Local
<1>6. CASE e < d
  <2>1. e * Day + Day <= d * Day
    BY <1>2, <1>6, Multiples, DayIsPositive
  <2>. QED BY <1>1, <1>2, <1>3, <1>4, <2>1, DayIsPositive DEF MidnightOf, Local
<1>. QED BY <1>2, <1>5, <1>6

\* On a day whose clock is not moved, or not yet, the hands of the clock show the
\* time since midnight.
LEMMA HandsShowTime ==
  ASSUME NEW c \in Int, NEW t \in Int, t < c, MidnightOf(LocalDay(c)) <= t,
         LocalDay(c) # LocalDay(ShiftAt) \/ c <= ShiftAt
  PROVE  Local(t) % Day = t - MidnightOf(LocalDay(c))
<1>. DEFINE d == LocalDay(c)
            e == LocalDay(ShiftAt)
<1>1. Shift \in Int /\ ShiftAt \in Int
  BY ShiftAssumption
<1>2. /\ e \in Int /\ e * Day \in Int
      /\ e * Day < ShiftAt /\ ShiftAt < e * Day + Day
      /\ e * Day <= ShiftAt + Shift /\ ShiftAt + Shift < e * Day + Day
  BY TransitionDay
<1>3. d \in Int /\ d + 1 \in Int
  BY AfterMidnight
<1>4. /\ MidnightOf(d) \in Int /\ MidnightOf(d + 1) \in Int
      /\ c < MidnightOf(d + 1)
  <2>1. ~(d + 1 <= LocalDay(c))
    BY <1>3
  <2>2. MidnightOf(d) \in Int /\ MidnightOf(d + 1) \in Int
    BY <1>3, AfterMidnight
  <2>3. d + 1 <= LocalDay(c) <=> MidnightOf(d + 1) <= c
    BY <1>3, AfterMidnight
  <2>. QED BY <2>1, <2>2, <2>3
<1>5. MidnightOf(d) <= t /\ (d # e \/ c <= ShiftAt)
  OBVIOUS
<1>6. LocalDay(t) = d
  <2>1. d <= LocalDay(t) /\ LocalDay(t) \in Int
    BY <1>3, <1>5, AfterMidnight
  <2>2. ~(d + 1 <= LocalDay(t))
    BY <1>3, <1>4, AfterMidnight
  <2>. QED BY <1>3, <2>1, <2>2
<1>. HIDE DEF d, e
<1>7. /\ d * Day \in Int /\ (d + 1) * Day = d * Day + Day
      /\ (d < e => d * Day + Day <= e * Day)
      /\ (e < d => e * Day + Day <= d * Day)
  BY <1>2, <1>3, Multiples
<1>8. Local(t) = t - MidnightOf(d) + d * Day
  <2>1. CASE d = e
    BY <1>1, <1>2, <1>3, <1>4, <1>5, <1>7, <2>1, DayIsPositive DEF MidnightOf, Local
  <2>2. CASE d < e
    BY <1>1, <1>2, <1>3, <1>4, <1>5, <1>7, <2>2, DayIsPositive DEF MidnightOf, Local
  <2>3. CASE e < d
    BY <1>1, <1>2, <1>3, <1>4, <1>5, <1>7, <2>3, DayIsPositive DEF MidnightOf, Local
  <2>. QED BY <1>2, <1>3, <2>1, <2>2, <2>3
<1>9. Local(t) \in Int
  BY <1>1 DEF Local
<1>10. Local(t) % Day = Local(t) - d * Day
  BY <1>3, <1>6, <1>9, DayOf DEF LocalDay
<1>. QED BY <1>3, <1>4, <1>7, <1>8, <1>10 DEF d

\* What a tick samples begins at the previous tick or at the midnight between.
LEMMA SampledFrom ==
  ASSUME TypeOK
  PROVE  /\ previous \in Int /\ clock \in Int /\ LocalDay(clock) \in Int
         /\ MidnightOf(LocalDay(clock)) \in Int
         /\ Sampled.from = Later(previous, MidnightOf(LocalDay(clock)))
         /\ Sampled.upto = clock
<1>1. previous \in Int /\ clock \in Int
  BY DayIsPositive DEF TypeOK
<1>2. LocalDay(clock) \in Int
  BY <1>1, AfterMidnight
<1>3. /\ MidnightOf(LocalDay(clock)) \in Int /\ LocalDay(previous) \in Int
      /\ LocalDay(clock) <= LocalDay(previous) <=> MidnightOf(LocalDay(clock)) <= previous
  BY <1>1, <1>2, AfterMidnight
<1>4. LocalDay(previous) < LocalDay(clock) <=> previous < MidnightOf(LocalDay(clock))
  BY <1>1, <1>2, <1>3
<1>. HIDE DEF LocalDay
<1>5. Sampled.from = Later(previous, MidnightOf(LocalDay(clock)))
  BY <1>1, <1>2, <1>3, <1>4 DEF Sampled, Later
<1>. QED BY <1>1, <1>2, <1>3, <1>5 DEF Sampled

\* Of the instants since the previous tick those from midnight on are of its day.
LEMMA SameDay ==
  ASSUME TypeOK, NEW t \in Int, t < clock
  PROVE  LocalDay(t) = LocalDay(clock) <=> MidnightOf(LocalDay(clock)) <= t
<1>1. clock \in Int /\ LocalDay(clock) \in Int /\ LocalDay(clock) + 1 \in Int
  BY SampledFrom
<1>2. /\ LocalDay(t) \in Int
      /\ LocalDay(clock) <= LocalDay(t) <=> MidnightOf(LocalDay(clock)) <= t
  BY <1>1, AfterMidnight
<1>3. LocalDay(t) <= LocalDay(clock)
  <2>1. /\ MidnightOf(LocalDay(clock) + 1) \in Int
        /\ LocalDay(clock) + 1 <= LocalDay(clock) <=> MidnightOf(LocalDay(clock) + 1) <= clock
    BY <1>1, AfterMidnight
  <2>2. LocalDay(clock) + 1 <= LocalDay(t) <=> MidnightOf(LocalDay(clock) + 1) <= t
    BY <1>1, AfterMidnight
  <2>3. ~(MidnightOf(LocalDay(clock) + 1) <= t)
    BY <1>1, <2>1
  <2>. QED BY <1>1, <1>2, <2>2, <2>3
<1>. QED BY <1>1, <1>2, <1>3

LEMMA ChargedIsAllowed ==
  ASSUME TypeOK
  PROVE  ChargedOnOrdinaryDays
<1>. SUFFICES ASSUME window.allDay \/ LocalDay(clock) # LocalDay(ShiftAt) \/ clock <= ShiftAt
              PROVE  Charged = Allowed
  BY DEF ChargedOnOrdinaryDays
<1>. DEFINE midnight == MidnightOf(LocalDay(clock))
<1>1. /\ previous \in Int /\ clock \in Int /\ midnight \in Int
      /\ Sampled.from = Later(previous, midnight) /\ Sampled.upto = clock
  BY SampledFrom
<1>2. window.allDay \in BOOLEAN /\ window.from \in Int /\ window.until \in Int
  BY DayIsPositive DEF TypeOK, Windows
<1>3. \A t \in previous..(clock - 1) : LocalDay(t) = LocalDay(clock) <=> midnight <= t
  BY <1>1, SameDay
<1>4. CASE window.allDay
  <2>1. Charged = Later(previous, midnight)..(clock - 1)
    BY <1>1, <1>4 DEF Charged, AccountingInterval
  <2>2. Allowed = {t \in previous..(clock - 1) : midnight <= t}
    BY <1>3, <1>4 DEF Allowed, AllowedAt
  <2>. HIDE DEF midnight
  <2>. QED BY <1>1, <2>1, <2>2 DEF Later
<1>5. CASE ~window.allDay
  <2>1. Charged = Later(Later(previous, midnight), midnight + window.from)..
                    (Earlier(clock, midnight + window.until) - 1)
    BY <1>1, <1>5 DEF Charged, AccountingInterval
  <2>2. \A t \in previous..(clock - 1) :
          midnight <= t => Local(t) % Day = t - midnight
    BY <1>1, <1>5, HandsShowTime
  <2>3. Allowed = {t \in previous..(clock - 1) :
                     /\ midnight <= t
                     /\ t - midnight >= window.from /\ t - midnight < window.until}
    BY <1>3, <1>5, <2>2 DEF Allowed, AllowedAt
  <2>4. window.from >= 0
    BY <1>2, DayIsPositive DEF TypeOK, Windows
  <2>. HIDE DEF midnight
  <2>5. /\ Later(Later(previous, midnight), midnight + window.from) \in Int
        /\ Earlier(clock, midnight + window.until) \in Int
    BY <1>1, <1>2 DEF Later, Earlier
  <2>6. ASSUME NEW t \in Int PROVE t \in Charged <=> t \in Allowed
    <3>1. t \in Charged <=> /\ Later(Later(previous, midnight), midnight + window.from) <= t
                           /\ t < Earlier(clock, midnight + window.until)
      BY <1>1, <2>1, <2>5
    <3>2. t \in Charged <=> /\ previous <= t /\ midnight <= t /\ midnight + window.from <= t
                           /\ t < clock /\ t < midnight + window.until
      BY <1>1, <1>2, <3>1 DEF Later, Earlier
    <3>3. t \in Allowed <=> /\ previous <= t /\ t < clock /\ midnight <= t
                           /\ t - midnight >= window.from /\ t - midnight < window.until
      BY <1>1, <2>3
    <3>. QED BY <1>1, <1>2, <2>4, <3>2, <3>3
  <2>7. Charged \subseteq Int /\ Allowed \subseteq Int
    BY <1>1, <2>1, <2>3, <2>5
  <2>. QED BY <2>6, <2>7
<1>. QED BY <1>4, <1>5

-----------------------------------------------------------------------------
(* Types *)

LEMMA WindowIsWindow ==
  ASSUME NEW file \in Files, ScheduleAccepted(file)
  PROVE  WindowOf(file) \in Windows
<1>1. file.allDay \in BOOLEAN /\ 0 \in 0..Day-1
  BY FilesAssumption, DayIsPositive
<1>2. CASE file.allDay
  BY <1>1, <1>2 DEF WindowOf, Windows
<1>3. CASE ~file.allDay
  <2>1. file.from \in 0..Day-1 /\ file.until \in 0..Day-1 /\ file.from < file.until
    BY <1>3, FilesAssumption DEF ScheduleAccepted
  <2>. QED BY <1>1, <1>3, <2>1 DEF WindowOf, Windows
<1>. QED BY <1>1, <1>2, <1>3

LEMMA TickTyped ==
  ASSUME TypeOK, Tick
  PROVE  TypeOK'
<1>1. PICK d \in Lengths : clock + d <= Last /\ clock' = clock + d
  BY DEF Tick
<1>2. d \in Nat /\ d > 0
  BY DayAssumption
<1>. QED BY <1>1, <1>2, DayIsPositive DEF TypeOK, Tick, Windows

-----------------------------------------------------------------------------
(* The rules in force *)

\* Of a direct path that was accepted: it is below a revision or below "current"
\* of its Snap, or it leads to a native executable of root's.
Admitted(path) ==
  /\ IsPath(path) /\ Direct(path)
  /\ path.snap # Native => IsStable(path)
  /\ path.snap = Native => Resolved(path) \in Safe /\ Resolved(path).snap = Native

\* What may be stored of an accepted path.
Storable(stored) == stored \in Safe \/ (stored.snap # Native /\ stored.revision = Current)

\* What is stored of direct paths is what they stand for at any time, and two of
\* them never stand for the same program.
RulesInv ==
  /\ DOMAIN rules = DOMAIN listed
  /\ \A app \in DOMAIN rules : \A stored \in rules[app] : Storable(stored)
  /\ \A app \in DirectRules : rules[app] = {Stored(path) : path \in listed[app]}
  /\ \A app \in DirectRules : \A path \in listed[app] : Admitted(path)
  /\ \A app, other \in DirectRules :
       \A p \in listed[app], q \in listed[other] : Stored(p) = Stored(q) => app = other

WorldInv == current \in [Snaps -> Revisions] /\ process \in Safe

ConfigurationInv == TypeOK /\ WorldInv /\ RulesInv

LEMMA StableForm ==
  ASSUME NEW path, IsPath(path)
  PROVE  /\ Stable(path) = [snap |-> path.snap, revision |-> Current, file |-> path.file]
         /\ Stable(path).snap = path.snap /\ Stable(path).revision = Current
         /\ Stable(path).file = path.file
BY DEF IsPath, Stable

\* Outside of /snap a direct path leads to the same file whatever "current" is.
LEMMA NativeResolved ==
  ASSUME NEW path, IsPath(path), Direct(path), path.snap = Native
  PROVE  /\ Resolved(path) = IF path \in DOMAIN Link THEN Link[path] ELSE path
         /\ Resolved(path).snap = Native
         /\ Stored(path) = Resolved(path) /\ Inspected(path) = Resolved(path)
<1>1. ~IsStable(path) /\ AtRevision(path) = path
  BY RevisionsAssumption DEF IsStable, IsPath, AtRevision
<1>2. ASSUME path \in DOMAIN Link
      PROVE  Link[path].snap = Native /\ AtRevision(Link[path]) = Link[path]
  <2>1. Link[path].snap = Native /\ IsPath(Link[path])
    BY <1>2, PathsAssumption DEF Direct
  <2>. QED BY <2>1, RevisionsAssumption DEF IsPath, AtRevision
<1>3. /\ Resolved(path) = IF path \in DOMAIN Link THEN Link[path] ELSE path
      /\ Resolved(path).snap = Native
  BY <1>1, <1>2 DEF Resolved
<1>. QED BY <1>1, <1>3 DEF Stored, Inspected

\* What is stored of a direct path, and what it stands for, is not changed by a
\* refresh.
LEMMA StoredStays ==
  ASSUME NEW path, Admitted(path)
  PROVE  Stored(path)' = Stored(path) /\ Admitted(path)'
<1>1. CASE path.snap = Native
  <2>1. ~IsStable(path) /\ path.revision # Current
    BY <1>1, RevisionsAssumption DEF Admitted, IsStable, IsPath
  <2>2. ASSUME path \in DOMAIN Link PROVE Link[path].revision # Current
    BY <1>1, <2>2, PathsAssumption, RevisionsAssumption DEF Admitted, Direct, IsPath
  <2>3. Resolved(path)' = Resolved(path)
    BY <2>1, <2>2 DEF Resolved, AtRevision
  <2>. QED BY <1>1, <2>1, <2>3 DEF Admitted, Stored, Inspected, IsStable, IsPath, Direct
<1>2. CASE path.snap # Native
  BY <1>2 DEF Admitted, Stored, IsStable, IsPath, Stable, Direct
<1>. QED BY <1>1, <1>2

\* What RulesAccepted lets in.
LEMMA AcceptedIsStorable ==
  ASSUME NEW path, IsPath(path), Inspected(path) \in Safe
  PROVE  Storable(Stored(path))
<1>1. CASE IsStable(path)
  BY <1>1, StableForm DEF Stored, Storable, IsStable
<1>2. CASE ~IsStable(path)
  BY <1>2 DEF Stored, Storable
<1>. QED BY <1>1, <1>2

LEMMA AcceptedIsAdmitted ==
  ASSUME NEW path, IsPath(path), Direct(path), Inspected(path) \in Safe
  PROVE  Admitted(path)
<1>1. CASE path.snap = Native
  BY <1>1, NativeResolved DEF Admitted
<1>2. CASE path.snap # Native
  <2>1. SUFFICES ASSUME ~IsStable(path) PROVE FALSE
    BY <1>2 DEF Admitted
  <2>2. path.revision \notin Revisions /\ path.revision # Current
    BY <1>2, <2>1 DEF IsStable
  <2>3. path \notin DOMAIN Link
    BY <1>2 DEF Direct
  <2>4. Inspected(path) = path
    BY <2>1, <2>2, <2>3 DEF Inspected, Resolved, AtRevision
  <2>. QED BY <1>2, <2>2, <2>4, SafeAssumption
<1>. QED BY <1>1, <1>2

\* ExecutableMatches, of what is stored, finds the program that the path names.
LEMMA MatchesRuns ==
  ASSUME WorldInv, NEW path, Admitted(path)
  PROVE  Matches(Stored(path)) <=> Runs(path)
<1>1. process \in Safe /\ IsPath(path) /\ (process.snap = Native \/ process.revision \in Revisions)
  BY SafeAssumption DEF WorldInv, Admitted
<1>2. CASE path.snap = Native
  BY <1>1, <1>2, NativeResolved DEF Matches, Runs, Admitted
<1>3. CASE path.snap # Native
  <2>1. /\ Stored(path).snap = path.snap /\ Stored(path).revision = Current
        /\ Stored(path).file = path.file
    BY <1>1, <1>3, StableForm DEF Stored, Admitted
  <2>2. Stored(path) # process
    BY <1>1, <1>3, <2>1, RevisionsAssumption
  <2>. HIDE DEF Stored
  <2>. QED BY <1>1, <1>3, <2>1, <2>2 DEF Matches, Runs
<1>. QED BY <1>2, <1>3

\* Paths that name the process's program are stored alike.
LEMMA RunsStoredAlike ==
  ASSUME NEW p, NEW q, Admitted(p), Admitted(q), Runs(p), Runs(q)
  PROVE  Stored(p) = Stored(q)
<1>1. IsPath(p) /\ IsPath(q) /\ Direct(p) /\ Direct(q)
  BY DEF Admitted
<1>2. CASE p.snap = Native
  <2>1. process = Stored(p) /\ process.snap = Native
    BY <1>1, <1>2, NativeResolved DEF Runs
  <2>2. q.snap = Native
    BY <2>1 DEF Runs
  <2>. QED BY <1>1, <2>1, <2>2, NativeResolved DEF Runs
<1>3. CASE p.snap # Native
  <2>1. q.snap # Native
    <3>1. SUFFICES ASSUME q.snap = Native PROVE FALSE
      OBVIOUS
    <3>2. process.snap = Native
      BY <1>1, <3>1, NativeResolved DEF Runs
    <3>. QED BY <1>3, <3>2 DEF Runs
  <2>2. p.snap = q.snap /\ p.file = q.file
    BY <1>3, <2>1 DEF Runs
  <2>3. Stored(p) = Stable(p) /\ Stored(q) = Stable(q)
    BY <1>3, <2>1 DEF Stored, Admitted
  <2>. QED BY <1>1, <2>2, <2>3, StableForm
<1>. QED BY <1>2, <1>3

LEMMA OneRule ==
  ASSUME WorldInv, RulesInv
  PROVE  ProgramsHaveOneRule
<1>. DEFINE found == Found \cap DirectRules
<1>1. \A app \in DirectRules :
        (\E stored \in rules[app] : Matches(stored)) <=> \E path \in listed[app] : Runs(path)
  <2>. SUFFICES ASSUME NEW app \in DirectRules
                PROVE  (\E stored \in rules[app] : Matches(stored))
                         <=> \E path \in listed[app] : Runs(path)
    OBVIOUS
  <2>1. rules[app] = {Stored(path) : path \in listed[app]}
    BY DEF RulesInv
  <2>2. \A path \in listed[app] : Matches(Stored(path)) <=> Runs(path)
    BY MatchesRuns DEF RulesInv
  <2>. HIDE DEF Stored, Matches, Runs
  <2>. QED BY <2>1, <2>2
<1>2. found = {app \in DirectRules : \E path \in listed[app] : Runs(path)}
  <2>1. DirectRules \subseteq DOMAIN rules
    BY DEF DirectRules, RulesInv
  <2>. HIDE DEF DirectRules, Matches, Runs
  <2>. QED BY <1>1, <2>1 DEF Found
<1>. HIDE DEF found
<1>3. ASSUME NEW app \in found, NEW other \in found PROVE app = other
  <2>1. PICK p \in listed[app] : Runs(p)
    BY <1>2
  <2>2. PICK q \in listed[other] : Runs(q)
    BY <1>2
  <2>3. app \in DirectRules /\ other \in DirectRules
    BY <1>2
  <2>4. Admitted(p) /\ Admitted(q)
    BY <2>3 DEF RulesInv
  <2>5. Stored(p) = Stored(q)
    BY <2>1, <2>2, <2>4, RunsStoredAlike
  <2>. QED BY <2>3, <2>5 DEF RulesInv
<1>4. Cardinality(found) <= 1
  <2>1. CASE found = {}
    BY <2>1, FS_EmptySet
  <2>2. CASE found # {}
    <3>1. PICK app \in found : TRUE
      BY <2>2
    <3>2. found = {app}
      BY <1>3, <3>1
    <3>3. Cardinality({app}) = 1
      BY FS_Singleton
    <3>. QED BY <3>2, <3>3
  <2>. QED BY <2>1, <2>2
<1>. QED BY <1>2, <1>4 DEF ProgramsHaveOneRule, found

-----------------------------------------------------------------------------
(* The steps *)

LEMMA InvImpliesTyped ==
  ASSUME ConfigurationInv
  PROVE  ConfigurationTypeOK
BY DEF ConfigurationTypeOK, ConfigurationInv, WorldInv, RulesInv, Storable

LEMMA InitHolds == ConfigurationInit => ConfigurationInv
<1>. SUFFICES ASSUME ConfigurationInit PROVE ConfigurationInv
  OBVIOUS
<1>1. TypeOK
  BY DayIsPositive DEF ConfigurationInit, Init, TypeOK
<1>2. WorldInv
  BY DEF ConfigurationInit, WorldInv
<1>3. RulesInv
  <2>1. listed = <<>> /\ rules = <<>> /\ DOMAIN listed = {}
    BY DEF ConfigurationInit
  <2>2. DOMAIN rules = {} /\ DirectRules = {}
    BY <2>1 DEF DirectRules
  <2>. QED BY <2>1, <2>2 DEF RulesInv
<1>. QED BY <1>1, <1>2, <1>3 DEF ConfigurationInv

\* The paths of a file that is accepted: what is stored of them, and that direct
\* ones are admitted and no two of different rules stored alike.
LEMMA AcceptedRules ==
  ASSUME NEW file \in Files, RulesAccepted(file), NEW app \in DOMAIN file.executables,
         NEW path \in file.executables[app]
  PROVE  /\ Storable(Stored(path))
         /\ Direct(path) => Admitted(path)
         /\ \A other \in DOMAIN file.executables : \A q \in file.executables[other] :
              Stored(path) = Stored(q) => app = other
<1>1. \A a \in DOMAIN file.executables : \A q \in file.executables[a] :
        <<a, q>> \in Entries(file)
  BY DEF Entries
<1>2. IsPath(path) /\ Inspected(path) \in Safe
  BY <1>1, PathsAssumption DEF RulesAccepted
<1>3. ASSUME NEW other \in DOMAIN file.executables, NEW q \in file.executables[other],
             Stored(path) = Stored(q)
      PROVE  app = other
  <2>1. \A e, f \in Entries(file) : Stored(e[2]) = Stored(f[2]) => e = f
    BY DEF RulesAccepted, Unique
  <2>2. <<app, path>> \in Entries(file) /\ <<other, q>> \in Entries(file)
    BY <1>1
  <2>. HIDE DEF Stored, Entries
  <2>. QED BY <1>3, <2>1, <2>2
<1>. QED BY <1>2, <1>3, AcceptedIsAdmitted, AcceptedIsStorable

LEMMA LoadKeeps ==
  ASSUME ConfigurationInv, Load
  PROVE  ConfigurationInv'
<1>1. PICK file \in Accepted :
        /\ window' = WindowOf(file)
        /\ listed' = file.executables
        /\ rules' = [app \in DOMAIN file.executables |->
                       {Stored(path) : path \in file.executables[app]}]
  BY DEF Load
<1>2. /\ file \in Files /\ ScheduleAccepted(file) /\ RulesAccepted(file)
      /\ previous' = previous /\ clock' = clock /\ current' = current /\ process' = process
  BY DEF Accepted, Load
<1>3. TypeOK'
  BY <1>1, <1>2, WindowIsWindow DEF ConfigurationInv, TypeOK
<1>4. WorldInv'
  BY <1>2 DEF ConfigurationInv, WorldInv
<1>5. ASSUME NEW app \in DOMAIN listed', NEW path \in listed'[app]
      PROVE  /\ Storable(Stored(path))
             /\ Direct(path) => Stored(path)' = Stored(path) /\ Admitted(path)'
             /\ \A other \in DOMAIN listed' : \A q \in listed'[other] :
                  Stored(path) = Stored(q) => app = other
  BY <1>1, <1>2, <1>5, AcceptedRules, StoredStays
<1>6. /\ DirectRules' \subseteq DOMAIN listed'
      /\ \A app \in DirectRules' : \A path \in listed'[app] : Direct(path)
  BY DEF DirectRules, Direct
<1>7. \A app \in DirectRules' :
        rules'[app] = {Stored(path)' : path \in listed'[app]}
  <2>. SUFFICES ASSUME NEW app \in DirectRules'
                PROVE  rules'[app] = {Stored(path)' : path \in listed'[app]}
    OBVIOUS
  <2>1. rules'[app] = {Stored(path) : path \in listed'[app]}
    BY <1>1, <1>6
  <2>2. \A path \in listed'[app] : Stored(path)' = Stored(path)
    BY <1>5, <1>6
  <2>. HIDE DEF Stored
  <2>. QED BY <2>1, <2>2
<1>8. RulesInv'
  <2>1. DOMAIN rules' = DOMAIN listed'
    BY <1>1
  <2>2. ASSUME NEW app \in DirectRules', NEW other \in DirectRules',
               NEW p \in listed'[app], NEW q \in listed'[other], Stored(p)' = Stored(q)'
        PROVE  app = other
    <3>1. Stored(p) = Stored(q)
      BY <1>5, <1>6, <2>2
    <3>. QED BY <1>5, <1>6, <3>1
  <2>3. \A app \in DOMAIN rules' : \A stored \in rules'[app] : Storable(stored)'
    <3>1. ASSUME NEW app \in DOMAIN listed', NEW stored \in rules'[app] PROVE Storable(stored)
      <4>1. PICK path \in listed'[app] : stored = Stored(path)
        BY <1>1, <3>1
      <4>. QED BY <1>5, <4>1
    <3>. QED BY <2>1, <3>1 DEF Storable
  <2>4. \A app \in DirectRules' : \A path \in listed'[app] : Admitted(path)'
    BY <1>5, <1>6
  <2>. HIDE DEF Stored, Admitted, DirectRules, Storable
  <2>. QED BY <1>7, <2>1, <2>2, <2>3, <2>4 DEF RulesInv
<1>. QED BY <1>3, <1>4, <1>8 DEF ConfigurationInv

LEMMA RulesStay ==
  ASSUME RulesInv, listed' = listed, rules' = rules
  PROVE  RulesInv'
<1>1. DirectRules' = DirectRules
  BY DEF DirectRules, Direct
<1>2. \A app \in DirectRules : \A path \in listed[app] :
        Stored(path)' = Stored(path) /\ Admitted(path)'
  BY StoredStays DEF RulesInv
<1>3. \A app \in DirectRules' :
        rules'[app] = {Stored(path)' : path \in listed'[app]}
  <2>. SUFFICES ASSUME NEW app \in DirectRules
                PROVE  rules[app] = {Stored(path)' : path \in listed[app]}
    BY <1>1
  <2>1. rules[app] = {Stored(path) : path \in listed[app]}
    BY DEF RulesInv
  <2>2. \A path \in listed[app] : Stored(path)' = Stored(path)
    BY <1>2
  <2>. HIDE DEF Stored
  <2>. QED BY <2>1, <2>2
<1>4. ASSUME NEW app \in DirectRules, NEW other \in DirectRules,
             NEW p \in listed[app], NEW q \in listed[other], Stored(p)' = Stored(q)'
      PROVE  app = other
  <2>1. Stored(p) = Stored(q)
    BY <1>2, <1>4
  <2>. QED BY <2>1 DEF RulesInv
<1>5. DOMAIN rules' = DOMAIN listed'
      /\ \A app \in DOMAIN rules' : \A stored \in rules'[app] : Storable(stored)'
  BY DEF RulesInv, Storable
<1>. HIDE DEF Stored, Admitted, DirectRules, Storable
<1>. QED BY <1>1, <1>2, <1>3, <1>4, <1>5 DEF RulesInv

LEMMA RefreshKeeps ==
  ASSUME ConfigurationInv, Refresh
  PROVE  ConfigurationInv'
<1>1. TypeOK' /\ listed' = listed /\ rules' = rules /\ process' = process
  BY DEF ConfigurationInv, Refresh, TypeOK, Windows, vars
<1>2. current' \in [Snaps -> Revisions]
  BY DEF ConfigurationInv, WorldInv, Refresh
<1>. QED BY <1>1, <1>2, RulesStay DEF ConfigurationInv, WorldInv

LEMMA LaunchKeeps ==
  ASSUME ConfigurationInv, Launch
  PROVE  ConfigurationInv'
<1>1. TypeOK' /\ listed' = listed /\ rules' = rules
  BY DEF ConfigurationInv, Launch, TypeOK, Windows, vars
<1>2. WorldInv'
  BY DEF ConfigurationInv, WorldInv, Launch
<1>. QED BY <1>1, <1>2, RulesStay DEF ConfigurationInv

LEMMA TickKeeps ==
  ASSUME ConfigurationInv, TickOn
  PROVE  ConfigurationInv'
<1>1. TypeOK'
  BY TickTyped DEF ConfigurationInv, TickOn
<1>2. WorldInv' /\ listed' = listed /\ rules' = rules
  BY DEF ConfigurationInv, WorldInv, TickOn, programs
<1>. QED BY <1>1, <1>2, RulesStay DEF ConfigurationInv

LEMMA StutterKeeps ==
  ASSUME ConfigurationInv, UNCHANGED allVars
  PROVE  ConfigurationInv'
<1>1. TypeOK' /\ WorldInv' /\ listed' = listed /\ rules' = rules
  BY DEF ConfigurationInv, WorldInv, allVars, vars, programs, TypeOK, Windows
<1>. QED BY <1>1, RulesStay DEF ConfigurationInv

LEMMA ConfigurationInvHolds == ConfigurationSpec => []ConfigurationInv
<1>1. ConfigurationInit => ConfigurationInv
  BY InitHolds
<1>2. ConfigurationInv /\ [ConfigurationNext]_allVars => ConfigurationInv'
  BY LoadKeeps, RefreshKeeps, LaunchKeeps, TickKeeps, StutterKeeps DEF ConfigurationNext
<1>. QED BY <1>1, <1>2, PTL DEF ConfigurationSpec

-----------------------------------------------------------------------------
\* Every variable has its type (the loaded Config, and the sample of a tick): for
\* whatever files, links and Snaps there are, a schedule in force has a beginning
\* before its end and a rule names safe executables or files of a Snap.
THEOREM TypeCorrect == ConfigurationSpec => []ConfigurationTypeOK
<1>1. ConfigurationInv => ConfigurationTypeOK
  BY InvImpliesTyped
<1>. QED BY <1>1, ConfigurationInvHolds, PTL

\* Of the rules whose paths no link takes into or within a Snap, a process is found
\* under the one that names its program and under no other (validateExecutablesAt,
\* findApplication), however often Snaps are refreshed and files reloaded, and
\* whatever links there are and other rules list.
THEOREM OneRuleForEachProgram == ConfigurationSpec => []ProgramsHaveOneRule
<1>1. ConfigurationInv => ProgramsHaveOneRule
  BY OneRule DEF ConfigurationInv
<1>. QED BY <1>1, ConfigurationInvHolds, PTL

\* On a day whose clock is not moved a tick charges the instants AllowedAt lets the
\* user in (accountingInterval), and no others; all-day users on every day.
THEOREM ChargedTimeIsAllowed == ConfigurationSpec => []ChargedOnOrdinaryDays
<1>1. ConfigurationInv => ChargedOnOrdinaryDays
  BY ChargedIsAllowed DEF ConfigurationInv
<1>. QED BY <1>1, ConfigurationInvHolds, PTL
=============================================================================
