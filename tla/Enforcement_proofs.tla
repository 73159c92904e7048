-------------------------- MODULE Enforcement_proofs --------------------------
(***************************************************************************)
(* For any number of PIDs, users, applications and processes, and however  *)
(* forks, execs, exits, PIDs that are reused, failing scans, resets,       *)
(* reloads and restarts fall between the reads of a scan: SIGKILL reaches  *)
(* only a process that was warned a grace period before, and a process     *)
(* that was warned keeps its own deadline.                                 *)
(***************************************************************************)
EXTENDS Enforcement, FiniteSetTheorems, WellFoundedInduction, TLAPS

-----------------------------------------------------------------------------
(* The scan *)

ScanLocals == [todo : SUBSET Pids, user : Users \cup {None}, born : 0..MaxBorn, found : SUBSET Info]

\* The locals of Scan at each of its steps: there is an entry to look at, whose
\* owner is known before it is opened, and a pidfd is held for every process that
\* was found and for the one that is being looked at.
ScanInv ==
  /\ scan \in ScanLocals
  /\ pc = "idle" => scan = NoScan
  /\ pc \in {"user", "open", "link"} => scan.todo # {}
  /\ pc \in {"open", "link"} => scan.user \in Users
  /\ pc = "link" => scan.born # 0
  /\ IsFiniteSet(scan.found)
  /\ Cardinality(scan.found) + (IF pc = "link" THEN 1 ELSE 0) <= held

\* A set of numbers has a first one.
LEMMA FirstNumber ==
  ASSUME NEW T, T \subseteq Nat, T # {}
  PROVE  \E p \in T : \A q \in T : p <= q
<1> DEFINE R == {ss \in Nat \X Nat : ss[1] < ss[2]}
<1>1. OpToRel(<, Nat) = R
  BY Zenon DEF OpToRel
<1>2. IsWellFoundedOn(R, Nat)
  BY <1>1, NatLessThanWellFounded
<1>3. PICK p \in T : \A q \in T : ~ (<<q, p>> \in R)
  <2> HIDE DEF R
  <2> QED
    BY <1>2, WFMin
<1>4. \A q \in Nat : q < p => <<q, p>> \in R
  <2>1. p \in Nat
    OBVIOUS
  <2>2. \A q \in Nat : <<q, p>> \in Nat \X Nat /\ <<q, p>>[1] = q /\ <<q, p>>[2] = p
    BY <2>1
  <2> QED
    BY <2>2
<1>5. ASSUME NEW q \in T PROVE p <= q
  <2>1. p \in Nat /\ q \in Nat
    OBVIOUS
  <2>2. ~ (q < p)
    <3> HIDE DEF R
    <3> QED
      BY <1>3, <1>4, <2>1
  <2> QED
    BY <2>1, <2>2
<1> QED
  BY <1>5

\* Entry is one of the entries.
LEMMA FirstEntry ==
  ASSUME ScanInv, pc \in {"user", "open", "link"}
  PROVE  Entry \in scan.todo /\ Entry \in Pids
<1>1. scan.todo \subseteq Nat /\ scan.todo # {} /\ scan.todo \subseteq Pids
  BY PidsAssumption DEF ScanInv, ScanLocals
<1>2. \E p \in scan.todo : \A q \in scan.todo : p <= q
  BY <1>1, FirstNumber
<1> QED
  BY <1>1, <1>2 DEF Entry

\* Going on to the next entry with what has been found, and giving up.
LEMMA ScanGoesOn ==
  ASSUME NEW s \in ScanLocals,
         IsFiniteSet(s.found), held' \in Nat, Cardinality(s.found) <= held',
         scanError \in BOOLEAN, ScanOn(s)
  PROVE  ScanInv' /\ pc' \in {"act", "user"} /\ scanError' \in BOOLEAN
<1>1. scan' = s /\ pc' = (IF s.todo = {} THEN "act" ELSE "user") /\ scanError' \in BOOLEAN
  BY DEF ScanOn
<1>2. Cardinality(s.found) \in Nat
  BY FS_CardinalityType
<1> QED
  BY <1>1, <1>2 DEF ScanInv

LEMMA ScanGivesUp ==
  ASSUME held' \in Nat, ScanFails
  PROVE  ScanInv' /\ pc' = "act" /\ scanError' \in BOOLEAN
  BY FS_EmptySet, BoundsAssumption DEF ScanFails, ScanInv, ScanLocals, NoScan

\* The locals with what has been found.
FoundSoFar(found) == [todo |-> scan.todo, user |-> scan.user, born |-> scan.born, found |-> found]

\* Every step of Scan keeps its locals in order.
LEMMA ScanKeepsType ==
  ASSUME TypeOK, ScanInv, Scan
  PROVE  TypeOK' /\ ScanInv'
<1>1. /\ pc \in {"user", "open", "link"} /\ UNCHANGED <<machine, memory, history>>
  BY DEF Scan, ReadUser, OpenProcess, ReadLink
<1>2. /\ Entry \in Pids
      /\ table[Entry] # None => table[Entry] \in Process
  BY <1>1, FirstEntry DEF TypeOK
<1>3. held \in 0..MaxFds /\ held \in Nat /\ Cardinality(scan.found) \in Nat /\ scanError \in BOOLEAN
  BY FS_CardinalityType DEF ScanInv, TypeOK
<1>0. /\ scan = [todo |-> scan.todo, user |-> scan.user, born |-> scan.born, found |-> scan.found]
      /\ scan.todo \subseteq Pids /\ scan.found \subseteq Info
      /\ scan.user \in Users \cup {None} /\ scan.born \in 0..MaxBorn
  BY DEF ScanInv, ScanLocals
<1>4. ASSUME NEW found \in SUBSET Info, IsFiniteSet(found), Cardinality(found) <= held',
             held' \in 0..MaxFds, events' \in 0..MaxEvents, NextEntry(FoundSoFar(found))
      PROVE  TypeOK' /\ ScanInv'
  <2> DEFINE s == [todo |-> scan.todo \ {Entry}, user |-> None, born |-> 0, found |-> found]
  <2>1. s \in ScanLocals /\ s.found = found
    BY <1>0, BoundsAssumption DEF ScanLocals
  <2>2. ScanOn(s)
    BY <1>4 DEF NextEntry, FoundSoFar
  <2>3. ScanInv' /\ pc' \in {"act", "user"} /\ scanError' \in BOOLEAN
    <3> HIDE DEF s
    <3> QED
      BY <1>3, <1>4, <2>1, <2>2, ScanGoesOn
  <2> QED
    BY <1>1, <1>4, <2>3 DEF TypeOK, ScanInv, ScanLocals, machine, memory, history
<1>5. CASE ReadUser
  <2>1. CASE table[Entry] = None
    <3>1. NextEntry(FoundSoFar(scan.found)) /\ UNCHANGED <<held, events>>
      BY <1>5, <1>0, <2>1 DEF ReadUser, FoundSoFar
    <3> QED
      BY <1>3, <1>4, <1>5, <3>1 DEF ReadUser, ScanInv, TypeOK
  <2>2. CASE table[Entry] # None
    <3>1. /\ pc' = "open" /\ scan' = [scan EXCEPT !.user = table[Entry].user] /\ pc = "user"
          /\ UNCHANGED <<scanError, held, events>>
      BY <1>5, <2>2 DEF ReadUser
    <3>2. table[Entry].user \in Users
      BY <1>2, <2>2 DEF Process
    <3> QED
      BY <1>1, <1>0, <3>1, <3>2 DEF TypeOK, ScanInv, ScanLocals, machine, memory, history
  <2> QED
    BY <2>1, <2>2
<1>6. CASE OpenProcess
  <2>1. CASE table[Entry] = None
    <3>1. NextEntry(FoundSoFar(scan.found)) /\ UNCHANGED <<held, events>>
      BY <1>6, <1>0, <2>1 DEF OpenProcess, FoundSoFar
    <3> QED
      BY <1>3, <1>4, <1>6, <3>1 DEF OpenProcess, ScanInv, TypeOK
  <2>2. CASE /\ table[Entry] # None /\ held < MaxFds /\ held' = held + 1 /\ pc' = "link"
             /\ scan' = [scan EXCEPT !.born = table[Entry].born] /\ UNCHANGED <<scanError, events>>
    <3>1. table[Entry].born \in 1..MaxBorn
      BY <1>2, <2>2 DEF Process
    <3>2. TypeOK'
      BY <1>1, <2>2, <1>0, <3>1, BoundsAssumption DEF TypeOK, ScanInv, ScanLocals, machine, memory, history
    <3>3. pc = "open" /\ scan'.found = scan.found /\ scan'.todo = scan.todo /\ scan'.user = scan.user
          /\ scan'.born = table[Entry].born
      BY <1>6, <1>0, <2>2 DEF OpenProcess
    <3>4. scan' \in ScanLocals
      BY <1>0, <2>2, <3>1 DEF ScanLocals
    <3> QED
      BY <1>3, <2>2, <3>1, <3>2, <3>3, <3>4 DEF ScanInv
  <2>3. CASE ScanFails /\ UNCHANGED held /\ events' \in 0..MaxEvents
    <3>1. ScanInv' /\ pc' = "act" /\ scanError' \in BOOLEAN
      BY <1>3, <2>3, ScanGivesUp
    <3> QED
      BY <1>1, <2>3, <3>1 DEF TypeOK, ScanInv, ScanLocals, machine, memory, history
  <2> QED
    BY <1>6, <2>1, <2>2, <2>3, BoundsAssumption DEF OpenProcess, Counted, TypeOK
<1>7. CASE ReadLink
  <2>1. pc = "link" /\ events' = events /\ scan.user \in Users /\ scan.born \in 1..MaxBorn
    BY <1>0, <1>7 DEF ReadLink, ScanInv
  <2>2. CASE table[Entry] = None
    <3>1. NextEntry(FoundSoFar(scan.found)) /\ held' = held - 1
      BY <1>7, <1>0, <2>2 DEF ReadLink, FoundSoFar
    <3>2. IsFiniteSet(scan.found) /\ Cardinality(scan.found) + 1 <= held
      BY <2>1 DEF ScanInv
    <3>3. Cardinality(scan.found) <= held - 1 /\ held - 1 \in 0..MaxFds
      BY <1>3, <3>2, BoundsAssumption
    <3> QED
      BY <1>0, <1>4, <2>1, <3>1, <3>2, <3>3 DEF TypeOK
  <2>3. CASE table[Entry] # None
    <3> DEFINE i == [pid |-> Entry, born |-> scan.born, user |-> scan.user, app |-> table[Entry].app]
    <3>1. NextEntry(FoundSoFar(scan.found \cup {i})) /\ held' = held
      BY <1>7, <1>0, <2>3 DEF ReadLink, FoundSoFar
    <3>2. i \in Info
      BY <1>2, <2>1, <2>3 DEF Info, Process
    <3>3. IsFiniteSet(scan.found \cup {i}) /\ Cardinality(scan.found \cup {i}) <= held
      <4> HIDE DEF i
      <4>1. IsFiniteSet(scan.found) /\ Cardinality(scan.found) + 1 <= held
        BY <2>1 DEF ScanInv
      <4>2. /\ IsFiniteSet(scan.found \cup {i})
            /\ Cardinality(scan.found \cup {i}) \in {Cardinality(scan.found), Cardinality(scan.found) + 1}
        BY <4>1, FS_AddElement, Zenon
      <4> QED
        BY <1>3, <4>1, <4>2
    <3> QED
      BY <1>0, <1>4, <2>1, <3>1, <3>2, <3>3 DEF TypeOK
  <2> QED
    BY <2>2, <2>3
<1> QED
  BY <1>5, <1>6, <1>7 DEF Scan

-----------------------------------------------------------------------------
(* The end of a tick *)

\* What Act sends: SIGTERM, and SIGKILL to those that are still alive.
Sent(refused) == ToTerminate(spent') \ refused
Kills(refused) == {i \in ToKill \ refused : Alive(i)}

\* The processes Act signals are processes it found, and SIGTERM is only sent for a
\* rule.
LEMMA Signalled ==
  ASSUME TypeOK, NEW refused, spent' \subseteq Rules
  PROVE  /\ Sent(refused) \subseteq scan.found /\ Kills(refused) \subseteq scan.found
         /\ Sent(refused) \subseteq Info /\ Kills(refused) \subseteq Info
         /\ \A i \in Sent(refused) : i.app \in Apps /\ pending[i.pid] = None
         /\ \A i \in Kills(refused) : i.pid \in Due
<1>1. /\ Sent(refused) \subseteq scan.found /\ Kills(refused) \subseteq scan.found
      /\ \A i \in Sent(refused) : Rule(i) \in spent' /\ pending[i.pid] = None
      /\ \A i \in Kills(refused) : i.pid \in Due
  BY DEF Sent, Kills, ToTerminate, ToKill
<1>2. scan.found \subseteq Info
  BY DEF TypeOK
<1>3. \A i \in Sent(refused) : i.app \in Apps
  BY <1>1 DEF Rule, Rules
<1> QED
  BY <1>1, <1>2, <1>3

\* Act, part by part.
LEMMA ActParts ==
  ASSUME NEW refused, NEW unsaved, Act(refused, unsaved)
  PROVE  /\ pc = "act" /\ pc' = "idle" /\ scan' = NoScan
         /\ UNCHANGED <<born, scanError>> /\ recovery' \in Recoveries
         /\ spent' \subseteq spent \cup Rules /\ seen' \subseteq Rules
         /\ held' = held - Cardinality(scan.found)
         /\ events' = events \/ (events' = events + 1 /\ events < MaxEvents)
         /\ pending' = [p \in Pids |->
              IF p \in Due THEN None
              ELSE IF \E i \in Sent(refused) : i.pid = p
                   THEN [left |-> Grace, process |-> CHOOSE i \in Sent(refused) : i.pid = p]
                   ELSE pending[p]]
         /\ table' = [p \in Pids |-> IF \E i \in Kills(refused) : i.pid = p THEN None ELSE table[p]]
         /\ killed' = killed \cup {i.born : i \in Kills(refused)}
         /\ warned' = [b \in 1..MaxBorn |->
              IF \E i \in Sent(refused) : i.born = b
              THEN LET i == CHOOSE i \in Sent(refused) : i.born = b
                   IN  [user |-> i.user, app |-> i.app, age |-> 0]
              ELSE warned[b]]
<1>1. /\ pc = "act" /\ pc' = "idle" /\ scan' = NoScan
      /\ UNCHANGED <<born, scanError>> /\ recovery' \in Recoveries
      /\ held' = held - Cardinality(scan.found)
      /\ events' = events \/ (events' = events + 1 /\ events < MaxEvents)
  BY DEF Act, Recoveries
<1>2. spent' \subseteq spent \cup Rules /\ seen' \subseteq Rules
  BY DEF Act
<1>3. /\ killed' = killed \cup {i.born : i \in Kills(refused)}
      /\ table' = [p \in Pids |-> IF \E i \in Kills(refused) : i.pid = p THEN None ELSE table[p]]
  BY DEF Act, Kills
<1>4. /\ pending' = [p \in Pids |->
              IF p \in Due THEN None
              ELSE IF \E i \in Sent(refused) : i.pid = p
                   THEN [left |-> Grace, process |-> CHOOSE i \in Sent(refused) : i.pid = p]
                   ELSE pending[p]]
      /\ warned' = [b \in 1..MaxBorn |->
              IF \E i \in Sent(refused) : i.born = b
              THEN LET i == CHOOSE i \in Sent(refused) : i.born = b
                   IN  [user |-> i.user, app |-> i.app, age |-> 0]
              ELSE warned[b]]
  BY DEF Act, Sent, Scheduled
<1> QED
  BY <1>1, <1>2, <1>3, <1>4

\* The deadlines and the warnings after Act: a deadline that has passed is gone, a
\* process that was sent SIGTERM has a new one, and the others keep theirs.
LEMMA ActDeadlines ==
  ASSUME TypeOK, NEW refused, NEW unsaved, Act(refused, unsaved), NEW p \in Pids
  PROVE  \/ p \in Due /\ pending'[p] = None
         \/ /\ p \notin Due /\ pending'[p] = pending[p]
            /\ \A i \in Sent(refused) : i.pid # p
         \/ /\ p \notin Due /\ pending[p] = None
            /\ \E i \in Sent(refused) : i.pid = p /\ pending'[p] = [left |-> Grace, process |-> i]
<1>1. pending' = [q \in Pids |->
              IF q \in Due THEN None
              ELSE IF \E i \in Sent(refused) : i.pid = q
                   THEN [left |-> Grace, process |-> CHOOSE i \in Sent(refused) : i.pid = q]
                   ELSE pending[q]]
  BY ActParts
<1>2. \A i \in Sent(refused) : pending[i.pid] = None
  BY DEF Sent, ToTerminate
<1> HIDE DEF Sent, Due
<1> QED
  BY <1>1, <1>2

LEMMA ActWarnings ==
  ASSUME TypeOK, NEW refused, NEW unsaved, Act(refused, unsaved), NEW b \in 1..MaxBorn
  PROVE  \/ warned'[b] = warned[b] /\ \A i \in Sent(refused) : i.born # b
         \/ \E i \in Sent(refused) :
              i.born = b /\ warned'[b] = [user |-> i.user, app |-> i.app, age |-> 0]
<1>1. warned' = [c \in 1..MaxBorn |->
              IF \E i \in Sent(refused) : i.born = c
              THEN LET i == CHOOSE i \in Sent(refused) : i.born = c
                   IN  [user |-> i.user, app |-> i.app, age |-> 0]
              ELSE warned[c]]
  BY ActParts
<1> HIDE DEF Sent
<1> QED
  BY <1>1

LEMMA ActKeepsType ==
  ASSUME TypeOK, ScanInv, NEW refused, NEW unsaved \in BOOLEAN, Act(refused, unsaved)
  PROVE  TypeOK' /\ ScanInv'
<1>1. spent' \subseteq Rules /\ seen' \subseteq Rules
  BY ActParts DEF TypeOK
<1>2. /\ Sent(refused) \subseteq Info /\ Kills(refused) \subseteq Info
      /\ \A i \in Sent(refused) : i.app \in Apps
  BY <1>1, Signalled
<1>3. held' \in 0..MaxFds
  <2>1. /\ held \in 0..MaxFds /\ Cardinality(scan.found) \in Nat /\ Cardinality(scan.found) <= held
        /\ held' = held - Cardinality(scan.found)
    BY ActParts, FS_CardinalityType DEF ScanInv, TypeOK
  <2> QED
    BY <2>1, BoundsAssumption
<1>4. table' \in [Pids -> Process \cup {None}] /\ killed' \subseteq 1..MaxBorn
  <2>1. {i.born : i \in Kills(refused)} \subseteq 1..MaxBorn
    BY <1>2 DEF Info
  <2>2. /\ killed' = killed \cup {i.born : i \in Kills(refused)}
        /\ table' = [p \in Pids |-> IF \E i \in Kills(refused) : i.pid = p THEN None ELSE table[p]]
    BY ActParts
  <2> HIDE DEF Kills
  <2> QED
    BY <2>1, <2>2 DEF TypeOK
<1>5. pending' \in [Pids -> Pending \cup {None}]
  <2>1. \A p \in Pids : (\E i \in Sent(refused) : i.pid = p) =>
          [left |-> Grace, process |-> CHOOSE i \in Sent(refused) : i.pid = p] \in Pending
    BY <1>2, BoundsAssumption DEF Pending
  <2> QED
    BY <2>1, ActParts DEF TypeOK
<1>6. warned' \in [1..MaxBorn -> Warning \cup {None}]
  <2>1. ASSUME NEW b \in 1..MaxBorn, \E i \in Sent(refused) : i.born = b
        PROVE  LET i == CHOOSE i \in Sent(refused) : i.born = b
               IN  [user |-> i.user, app |-> i.app, age |-> 0] \in Warning
    <3> DEFINE i == CHOOSE i \in Sent(refused) : i.born = b
    <3>1. i \in Info /\ i.app \in Apps
      BY <1>2, <2>1
    <3> HIDE DEF i
    <3>2. [user |-> i.user, app |-> i.app, age |-> 0] \in Warning
      BY <3>1, BoundsAssumption DEF Warning, Info
    <3> QED
      BY <3>2 DEF i
  <2> QED
    BY <2>1, ActParts DEF TypeOK
<1>7. events' \in 0..MaxEvents
  BY ActParts, BoundsAssumption DEF TypeOK
<1>8. ScanInv' /\ scan'.todo \subseteq Pids /\ scan'.found \subseteq Info
  <2>1. pc' = "idle" /\ scan' = NoScan
    BY ActParts
  <2> QED
    BY <1>3, <2>1, FS_EmptySet, BoundsAssumption DEF ScanInv, ScanLocals, NoScan
<1> QED
  BY <1>1, <1>3, <1>4, <1>5, <1>6, <1>7, <1>8, ActParts DEF TypeOK

-----------------------------------------------------------------------------
(* The other steps *)

\* A step that leaves the scan alone.
LEMMA ScanUntouched ==
  ASSUME ScanInv, UNCHANGED <<pc, scan, held>>
  PROVE  ScanInv'
  BY DEF ScanInv, NoScan

LEMMA MachineKeepsType ==
  ASSUME TypeOK, ScanInv, Machine \/ Advance \/ UNCHANGED vars
  PROVE  TypeOK' /\ ScanInv'
<1>1. CASE Machine
  <2> DEFINE G == /\ UNCHANGED <<pc, scan, scanError, held, memory, history>>
                   /\ \/ born' = born /\ (events' = events \/ Counted)
                      \/ born < MaxBorn /\ born' = born + 1 /\ events' = events
                   /\ \E p \in Pids, new \in Process \cup {None} : table' = [table EXCEPT ![p] = new]
  <2>1. G
    <3>1. ASSUME NEW p \in Pids, NEW user \in Users, NEW app \in Programs, Spawn(p, user, app)
          PROVE  G
      <4>1. /\ table' = [table EXCEPT ![p] = [born |-> born + 1, user |-> user, app |-> app]]
            /\ UNCHANGED <<pc, scan, scanError, held, memory, history, events>>
            /\ born < MaxBorn /\ born' = born + 1
        BY <3>1 DEF Spawn
      <4>2. [born |-> born + 1, user |-> user, app |-> app] \in Process
        BY <4>1, BoundsAssumption DEF TypeOK, Process
      <4> QED
        BY <4>1, <4>2
    <3>2. ASSUME NEW p \in Pids, NEW app \in Programs, Exec(p, app) PROVE G
      <4>1. /\ table' = [table EXCEPT ![p] = [table[p] EXCEPT !.app = app]] /\ table[p] \in Process
            /\ UNCHANGED <<born, pc, scan, scanError, held, memory, history>> /\ Counted
        BY <3>2 DEF Exec, TypeOK
      <4>2. [table[p] EXCEPT !.app = app] \in Process
        BY <4>1 DEF Process
      <4> QED
        BY <4>1, <4>2
    <3>3. ASSUME NEW p \in Pids, Exit(p) PROVE G
      BY <3>3 DEF Exit
    <3> QED
      BY <1>1, <3>1, <3>2, <3>3 DEF Machine
  <2>2. TypeOK'
    BY <2>1, BoundsAssumption DEF TypeOK, Counted, memory, history
  <2> QED
    BY <2>1, <2>2, ScanUntouched
<1>2. CASE Advance
  <2>1. UNCHANGED <<machine, pc, scan, scanError, held, spent, seen, recovery, killed, events>>
    BY <1>2 DEF Advance
  <2>2. ASSUME NEW p \in Pids, pending[p] # None, pending[p].left # 0
        PROVE  [pending[p] EXCEPT !.left = @ - 1] \in Pending
    BY <2>2, BoundsAssumption DEF TypeOK, Pending
  <2>3. ASSUME NEW b \in 1..MaxBorn, warned[b] # None, warned[b].age # Grace
        PROVE  [warned[b] EXCEPT !.age = @ + 1] \in Warning
    BY <2>3, BoundsAssumption DEF TypeOK, Warning
  <2>4. pending' \in [Pids -> Pending \cup {None}]
    BY <1>2, <2>2 DEF Advance, TypeOK
  <2>5. warned' \in [1..MaxBorn -> Warning \cup {None}]
    BY <1>2, <2>3 DEF Advance, TypeOK
  <2> QED
    BY <2>1, <2>4, <2>5, ScanUntouched DEF TypeOK, machine
<1>3. CASE UNCHANGED vars
  <2>1. UNCHANGED <<pc, scan, held>> /\ TypeOK'
    BY <1>3 DEF vars, machine, memory, history, TypeOK
  <2> QED
    BY <2>1, ScanUntouched
<1> QED
  BY <1>1, <1>2, <1>3

\* What a command does to the deadlines and the warnings: it keeps or it drops them.
Dropped == /\ pending' = [p \in Pids |-> pending'[p]]
           /\ \A p \in Pids : pending'[p] \in {pending[p], None}
           /\ warned' = [b \in 1..MaxBorn |-> warned'[b]]
           /\ \A b \in 1..MaxBorn : warned'[b] \in {warned[b], None}

LEMMA CommandsDrop ==
  ASSUME TypeOK, Command
  PROVE  Dropped
<1>1. ASSUME Reload \/ Restart PROVE Dropped
  <2>1. pending' = [p \in Pids |-> None] /\ Revoke(LAMBDA w : TRUE)
    BY <1>1 DEF Reload, Restart
  <2> QED
    BY <2>1 DEF Dropped, Revoke
<1>2. ASSUME NEW user, NEW apps, Reset(user, apps) PROVE Dropped
  <2>1. Cancel(user, apps) /\ Revoke(LAMBDA w : w.user = user /\ w.app \in apps)
    BY <1>2 DEF Reset
  <2> QED
    BY <2>1 DEF Dropped, Revoke, Cancel
<1>3. ASSUME RecoverState PROVE Dropped
  BY <1>3 DEF RecoverState, Dropped, TypeOK, history
<1> QED
  BY <1>1, <1>2, <1>3 DEF Command

LEMMA CommandKeepsType ==
  ASSUME TypeOK, ScanInv, Command
  PROVE  TypeOK' /\ ScanInv'
<1>1. pending' \in [Pids -> Pending \cup {None}] /\ warned' \in [1..MaxBorn -> Warning \cup {None}]
  BY CommandsDrop DEF Dropped, TypeOK
<1>2. UNCHANGED <<machine, killed>> /\ spent' \subseteq Rules /\ seen' \subseteq Rules
      /\ recovery' \in Recoveries /\ (events' = events \/ Counted)
  BY DEF Command, Reload, Reset, Restart, RecoverState, history, TypeOK, Recoveries
<1>3. events' \in 0..MaxEvents
  BY <1>2, BoundsAssumption DEF TypeOK, Counted
<1>4. \/ UNCHANGED <<pc, scan, scanError, held>>
      \/ pc' = "idle" /\ scan' = NoScan /\ scanError' = FALSE /\ held' = 0
  BY DEF Command, Reload, Reset, Restart, RecoverState
<1>5. CASE UNCHANGED <<pc, scan, scanError, held>>
  BY <1>1, <1>2, <1>3, <1>5, ScanUntouched DEF TypeOK, machine
<1>6. CASE pc' = "idle" /\ scan' = NoScan /\ scanError' = FALSE /\ held' = 0
  <2>1. ScanInv' /\ scan'.todo \subseteq Pids /\ scan'.found \subseteq Info /\ held' \in 0..MaxFds
    BY <1>6, FS_EmptySet, BoundsAssumption DEF ScanInv, ScanLocals, NoScan
  <2> QED
    BY <1>1, <1>2, <1>3, <1>6, <2>1 DEF TypeOK, machine
<1> QED
  BY <1>4, <1>5, <1>6

LEMMA TickKeepsType ==
  ASSUME TypeOK, ScanInv, BeginTick \/ RefuseTick \/ TickInRecovery
  PROVE  TypeOK' /\ ScanInv'
<1>1. CASE RefuseTick \/ TickInRecovery
  <2>1. /\ UNCHANGED <<machine, pc, scan, scanError, held, spent, pending, history>>
        /\ seen' \in {seen, {}} /\ recovery' \in Recoveries /\ (events' = events \/ Counted)
    BY <1>1 DEF RefuseTick, TickInRecovery, TypeOK, Recoveries
  <2>2. events' \in 0..MaxEvents
    BY <2>1, BoundsAssumption DEF TypeOK, Counted
  <2> QED
    BY <2>1, <2>2, ScanUntouched DEF TypeOK, machine, history
<1>2. CASE BeginTick
  <2>1. /\ UNCHANGED <<machine, held, seen, pending, recovery, history>> /\ spent' \in {spent, {}}
        /\ \/ ScanOn([NoScan EXCEPT !.todo = {p \in Pids : table[p] # None}]) /\ events' = events
           \/ Counted /\ ScanFails
    BY <1>2 DEF BeginTick
  <2>2. held \in Nat /\ held' = held /\ scanError \in BOOLEAN
    BY <2>1, BoundsAssumption DEF TypeOK
  <2>3. events' \in 0..MaxEvents
    BY <2>1, BoundsAssumption DEF TypeOK, Counted
  <2>4. ScanInv' /\ pc' \in {"act", "user"} /\ scanError' \in BOOLEAN
    <3>1. CASE ScanFails
      BY <2>2, <3>1, ScanGivesUp
    <3>2. CASE ScanOn([NoScan EXCEPT !.todo = {p \in Pids : table[p] # None}])
      <4> DEFINE s == [NoScan EXCEPT !.todo = {p \in Pids : table[p] # None}]
      <4>1. s \in ScanLocals /\ s.found = {}
        BY BoundsAssumption DEF ScanLocals, NoScan
      <4>2. ScanOn(s) /\ IsFiniteSet(s.found) /\ Cardinality(s.found) <= held'
        BY <2>2, <3>2, <4>1, FS_EmptySet
      <4> HIDE DEF s
      <4> QED
        BY <2>2, <4>1, <4>2, ScanGoesOn
    <3> QED
      BY <2>1, <3>1, <3>2
  <2> QED
    BY <2>1, <2>2, <2>3, <2>4 DEF TypeOK, ScanInv, ScanLocals, machine, history
<1> QED
  BY <1>1, <1>2

LEMMA TypeKept == TypeOK /\ ScanInv /\ [Next]_vars => TypeOK' /\ ScanInv'
<1> SUFFICES ASSUME TypeOK, ScanInv, [Next]_vars PROVE TypeOK' /\ ScanInv'
  OBVIOUS
<1> QED
  BY TickKeepsType, ScanKeepsType, ActKeepsType, CommandKeepsType, MachineKeepsType DEF Next, Tick

LEMMA TypeAtFirst == Init => TypeOK /\ ScanInv
<1> SUFFICES ASSUME Init PROVE TypeOK /\ ScanInv
  OBVIOUS
<1>1. pc = "idle" /\ scan = NoScan /\ held = 0
  BY DEF Init
<1>2. ScanInv /\ scan.todo \subseteq Pids /\ scan.found \subseteq Info
  BY <1>1, FS_EmptySet, BoundsAssumption DEF ScanInv, ScanLocals, NoScan
<1>3. TypeOK
  <2>1. table \in [Pids -> Process \cup {None}] /\ pending \in [Pids -> Pending \cup {None}]
    BY DEF Init
  <2>2. warned \in [1..MaxBorn -> Warning \cup {None}] /\ killed \subseteq 1..MaxBorn
    BY DEF Init
  <2>3. born \in 0..MaxBorn /\ held \in 0..MaxFds /\ events \in 0..MaxEvents
    BY BoundsAssumption DEF Init
  <2>4. scanError \in BOOLEAN /\ recovery \in Recoveries /\ spent \subseteq Rules /\ seen \subseteq Rules
    BY DEF Init
  <2> QED
    BY <1>1, <1>2, <2>1, <2>2, <2>3, <2>4 DEF TypeOK
<1> QED
  BY <1>2, <1>3

\* Every variable keeps its type; above all, the daemon never holds more pidfds than
\* it may and never closes one it does not hold: every pidfd of a scan is closed
\* once, by Scan itself or by the tick that was given it.
THEOREM TypeCorrect == Spec => []TypeOK
<1> QED
  BY TypeAtFirst, TypeKept, PTL DEF Spec

-----------------------------------------------------------------------------
(* Which process a PID stands for *)

\* The process that was started as number b has been seen under PID p: it runs, or the
\* scan has opened or found it, or its termination is pending.
Sighted(b, p) ==
  \/ table[p] # None /\ table[p].born = b
  \/ pc = "link" /\ Entry = p /\ scan.born = b
  \/ \E i \in scan.found : i.pid = p /\ i.born = b
  \/ pending[p] # None /\ pending[p].process.born = b

\* A process keeps its PID, wherever the daemon remembers the two, and a scan finds
\* one process for a PID.
PidInv ==
  /\ \A b \in 1..MaxBorn, p \in Pids : Sighted(b, p) => b <= born
  /\ \A b \in 1..MaxBorn, p, q \in Pids : Sighted(b, p) /\ Sighted(b, q) => p = q
  /\ \A i, j \in scan.found : i.pid = j.pid => i = j
  /\ \A i \in scan.found : i.pid \notin scan.todo

\* The three ways a step of Scan ends.
LEMMA ScanSteps ==
  ASSUME TypeOK, ScanInv, Scan
  PROVE  /\ Entry \in Pids /\ Entry \in scan.todo
         /\ UNCHANGED <<machine, memory, history>>
         /\ \/ pc' # "link" /\ scan'.found = scan.found /\ scan'.todo \subseteq scan.todo
            \/ pc' # "link" /\ scan'.found = {}
            \/ /\ pc' = "link" /\ table[Entry] # None /\ scan'.born = table[Entry].born
               /\ scan'.found = scan.found /\ scan'.todo = scan.todo /\ Entry' = Entry
            \/ /\ pc = "link" /\ pc' # "link" /\ scan'.todo = scan.todo \ {Entry}
               /\ \E i \in Info : /\ i.pid = Entry /\ i.born = scan.born
                                 /\ scan'.found = scan.found \cup {i}
<1>1. pc \in {"user", "open", "link"} /\ UNCHANGED <<machine, memory, history>>
  BY DEF Scan, ReadUser, OpenProcess, ReadLink
<1>2. Entry \in Pids /\ Entry \in scan.todo
  BY <1>1, FirstEntry
<1>3. scan = [todo |-> scan.todo, user |-> scan.user, born |-> scan.born, found |-> scan.found]
  BY DEF ScanInv, ScanLocals
<1>4. ASSUME NEW s, NextEntry(s)
      PROVE  pc' # "link" /\ scan'.todo = s.todo \ {Entry} /\ scan'.found = s.found
  BY <1>4 DEF NextEntry, ScanOn
<1>5. CASE ReadUser
  <2>1. CASE table[Entry] = None
    BY <1>1, <1>2, <1>4, <1>5, <2>1 DEF ReadUser
  <2>2. CASE table[Entry] # None
    <3>1. pc' = "open" /\ scan' = [scan EXCEPT !.user = table[Entry].user]
      BY <1>5, <2>2 DEF ReadUser
    <3> QED
      BY <1>1, <1>2, <1>3, <3>1
  <2> QED
    BY <2>1, <2>2
<1>6. CASE OpenProcess
  <2>1. CASE table[Entry] = None
    BY <1>1, <1>2, <1>4, <1>6, <2>1 DEF OpenProcess
  <2>2. CASE /\ table[Entry] # None /\ pc' = "link"
             /\ scan' = [scan EXCEPT !.born = table[Entry].born]
    <3>1. scan'.born = table[Entry].born /\ scan'.found = scan.found /\ scan'.todo = scan.todo
      BY <1>3, <2>2
    <3>2. Entry' = Entry
      BY <3>1 DEF Entry
    <3> QED
      BY <1>1, <1>2, <2>2, <3>1, <3>2
  <2>3. CASE ScanFails
    BY <1>1, <1>2, <2>3 DEF ScanFails, NoScan
  <2> QED
    BY <1>6, <2>1, <2>2, <2>3 DEF OpenProcess
<1>7. CASE ReadLink
  <2>1. CASE table[Entry] = None
    BY <1>1, <1>2, <1>4, <1>7, <2>1 DEF ReadLink
  <2>2. CASE table[Entry] # None
    <3> DEFINE i == [pid |-> Entry, born |-> scan.born, user |-> scan.user, app |-> table[Entry].app]
    <3>1. pc = "link" /\ NextEntry(FoundSoFar(scan.found \cup {i}))
      BY <1>7, <1>3, <2>2 DEF ReadLink, FoundSoFar
    <3>2. i \in Info /\ i.pid = Entry /\ i.born = scan.born
      <4>1. table[Entry] \in Process /\ scan.user \in Users /\ scan.born \in 1..MaxBorn
        BY <1>2, <2>2, <3>1, BoundsAssumption DEF TypeOK, ScanInv, ScanLocals
      <4> QED
        BY <1>2, <4>1 DEF Info, Process
    <3>3. pc' # "link" /\ scan'.todo = scan.todo \ {Entry} /\ scan'.found = scan.found \cup {i}
      <4> HIDE DEF i
      <4> QED
        BY <1>4, <3>1 DEF FoundSoFar
    <3> HIDE DEF i
    <3> QED
      BY <1>1, <1>2, <3>1, <3>2, <3>3
  <2> QED
    BY <2>1, <2>2
<1> QED
  BY <1>5, <1>6, <1>7 DEF Scan

\* Only a fork shows a process for the first time.
LEMMA NothingNew ==
  ASSUME TypeOK, ScanInv,
         \/ Tick \/ Command \/ Advance \/ UNCHANGED vars
         \/ \E p \in Pids : Exit(p) \/ \E app \in Programs : Exec(p, app),
         NEW b \in 1..MaxBorn, NEW p \in Pids, Sighted(b, p)'
  PROVE  Sighted(b, p)
<1>1. CASE Scan
  BY <1>1, ScanSteps DEF Sighted, machine, memory
<1>2. CASE BeginTick
  <2>1. UNCHANGED <<table, pending>>
    BY <1>2 DEF BeginTick, machine
  <2>2. pc' # "link" /\ scan'.found = {}
    BY <1>2 DEF BeginTick, ScanOn, ScanFails, NoScan
  <2> QED
    BY <2>1, <2>2 DEF Sighted
<1>3. CASE RefuseTick \/ TickInRecovery
  BY <1>3 DEF RefuseTick, TickInRecovery, Sighted, machine, Entry
<1>4. ASSUME NEW refused \in SUBSET scan.found, NEW unsaved \in BOOLEAN, Act(refused, unsaved)
      PROVE  Sighted(b, p)
  <2>1. pc' # "link" /\ scan'.found = {} /\ table'[p] \in {None, table[p]}
    BY <1>4, ActParts DEF NoScan
  <2>2. spent' \subseteq Rules
    BY <1>4, ActParts DEF TypeOK
  <2>3. pending'[p] # None /\ pending'[p] # pending[p]
          => \E i \in scan.found : i.pid = p /\ pending'[p].process = i
    <3>1. Sent(refused) \subseteq scan.found
      BY <2>2, Signalled
    <3>2. \/ pending'[p] \in {None, pending[p]}
          \/ \E i \in Sent(refused) : i.pid = p /\ pending'[p] = [left |-> Grace, process |-> i]
      BY <1>4, ActDeadlines
    <3>3. ASSUME NEW i \in Sent(refused), i.pid = p, pending'[p] = [left |-> Grace, process |-> i]
          PROVE  i \in scan.found /\ pending'[p].process = i
      BY <3>1, <3>3
    <3> QED
      BY <3>2, <3>3
  <2> QED
    BY <2>1, <2>3 DEF Sighted
<1>5. CASE Command
  <2>1. table' = table /\ pending'[p] \in {None, pending[p]}
    <3>1. UNCHANGED machine
      BY <1>5 DEF Command, Reload, Reset, Restart, RecoverState
    <3>2. Dropped
      BY <1>5, CommandsDrop
    <3> QED
      BY <3>1, <3>2 DEF Dropped, machine
  <2>2. UNCHANGED <<pc, scan>> \/ (pc' = "idle" /\ scan' = NoScan)
    BY <1>5 DEF Command, Reload, Reset, Restart, RecoverState
  <2> QED
    BY <2>1, <2>2 DEF Sighted, Entry, NoScan
<1>6. CASE Advance
  <2>1. UNCHANGED <<table, pc, scan>>
    BY <1>6 DEF Advance, machine
  <2>2. pending'[p] # None => pending[p] # None /\ pending'[p].process = pending[p].process
    <3>1. pending'[p] = IF pending[p] = None \/ pending[p].left = 0 THEN pending[p]
                        ELSE [pending[p] EXCEPT !.left = @ - 1]
      BY <1>6 DEF Advance
    <3> QED
      BY <3>1 DEF TypeOK, Pending
  <2> QED
    BY <2>1, <2>2 DEF Sighted, Entry
<1>7. CASE UNCHANGED vars
  BY <1>7 DEF vars, machine, memory, Sighted, Entry
<1>8. ASSUME NEW q \in Pids, Exit(q) \/ \E app \in Programs : Exec(q, app)
      PROVE  Sighted(b, p)
  <2>1. UNCHANGED <<pc, scan, pending>>
    BY <1>8 DEF Exit, Exec, memory
  <2>2. table'[p] # None => table[p] # None /\ table'[p].born = table[p].born
    BY <1>8 DEF Exit, Exec, TypeOK, Process
  <2> QED
    BY <2>1, <2>2 DEF Sighted, Entry
<1> QED
  BY <1>1, <1>2, <1>3, <1>4, <1>5, <1>6, <1>7, <1>8 DEF Tick

\* What the scan has found stays what it is, until the tick is over.
LEMMA FoundOnce ==
  ASSUME TypeOK, ScanInv, PidInv, [Next]_vars
  PROVE  /\ \A i, j \in scan'.found : i.pid = j.pid => i = j
         /\ \A i \in scan'.found : i.pid \notin scan'.todo
<1> DEFINE Once == /\ \A i, j \in scan'.found : i.pid = j.pid => i = j
                   /\ \A i \in scan'.found : i.pid \notin scan'.todo
<1>1. CASE scan' = scan
  BY <1>1 DEF PidInv
<1>2. CASE scan'.found = {}
  BY <1>2
<1>3. CASE Scan
  <2>1. CASE scan'.found = scan.found /\ scan'.todo \subseteq scan.todo
    BY <2>1 DEF PidInv
  <2>2. ASSUME scan'.todo = scan.todo \ {Entry}, NEW i, i.pid = Entry,
               scan'.found = scan.found \cup {i}
        PROVE  Once
    <3>1. Entry \in scan.todo
      BY <1>3, ScanSteps
    <3> HIDE DEF Once
    <3>2. \A j \in scan.found : j.pid # i.pid
      BY <2>2, <3>1 DEF PidInv
    <3> QED
      BY <2>2, <3>2 DEF Once, PidInv
  <2> QED
    BY <1>2, <1>3, <2>1, <2>2, ScanSteps
<1>4. scan' = scan \/ scan'.found = {} \/ Scan
  <2>1. ASSUME BeginTick PROVE scan'.found = {}
    BY <2>1 DEF BeginTick, ScanOn, ScanFails, NoScan
  <2>2. ASSUME NEW refused, NEW unsaved, Act(refused, unsaved) PROVE scan'.found = {}
    BY <2>2, ActParts DEF NoScan
  <2>3. ASSUME Command PROVE scan' = scan \/ scan'.found = {}
    <3>1. scan' = scan \/ scan' = NoScan
      BY <2>3 DEF Command, Reload, Reset, Restart, RecoverState
    <3> QED
      BY <3>1 DEF NoScan
  <2>4. ASSUME RefuseTick \/ TickInRecovery \/ Machine \/ Advance \/ UNCHANGED vars
        PROVE  scan' = scan
    BY <2>4 DEF RefuseTick, TickInRecovery, Machine, Spawn, Exec, Exit, Advance, vars
  <2> QED
    BY <2>1, <2>2, <2>3, <2>4 DEF Next, Tick
<1> QED
  BY <1>1, <1>2, <1>3, <1>4

LEMMA PidKept ==
  ASSUME TypeOK, ScanInv, PidInv, [Next]_vars
  PROVE  PidInv'
<1> DEFINE Known == /\ \A b \in 1..MaxBorn, p \in Pids : Sighted(b, p)' => b <= born'
                    /\ \A b \in 1..MaxBorn, p, q \in Pids : Sighted(b, p)' /\ Sighted(b, q)' => p = q
<1>1. ASSUME NEW r \in Pids, NEW user \in Users, NEW app \in Programs, Spawn(r, user, app)
      PROVE  Known
  <2>1. /\ UNCHANGED <<pc, scan, pending>> /\ born' = born + 1 /\ born \in Nat
        /\ table' = [table EXCEPT ![r] = [born |-> born + 1, user |-> user, app |-> app]]
    BY <1>1, BoundsAssumption DEF Spawn, memory, TypeOK
  <2>2. ASSUME NEW b \in 1..MaxBorn, NEW p \in Pids, Sighted(b, p)'
        PROVE  Sighted(b, p) \/ (p = r /\ b = born + 1)
    <3>1. table'[p] = table[p] \/ (p = r /\ table'[p].born = born + 1)
      BY <2>1 DEF TypeOK
    <3> QED
      BY <2>1, <2>2, <3>1 DEF Sighted, Entry
  <2>3. \A b \in 1..MaxBorn, p \in Pids : Sighted(b, p) => b <= born /\ b # born + 1
    <3>1. \A b \in 1..MaxBorn, p \in Pids : Sighted(b, p) => b <= born
      BY DEF PidInv
    <3>2. \A b \in 1..MaxBorn : b <= born => b # born + 1
      BY <2>1, BoundsAssumption
    <3> QED
      BY <3>1, <3>2
  <2>4. \A b \in 1..MaxBorn : b <= born \/ b = born + 1 => b <= born'
    BY <2>1, BoundsAssumption
  <2>5. \A b \in 1..MaxBorn, p, q \in Pids : Sighted(b, p) /\ Sighted(b, q) => p = q
    BY DEF PidInv
  <2> QED
    BY <2>2, <2>3, <2>4, <2>5
<1>2. ASSUME \/ Tick \/ Command \/ Advance \/ UNCHANGED vars
             \/ \E p \in Pids : Exit(p) \/ \E app \in Programs : Exec(p, app)
      PROVE  Known
  <2>1. \A b \in 1..MaxBorn, p \in Pids : Sighted(b, p)' => Sighted(b, p)
    BY <1>2, NothingNew
  <2>2. born' = born
    <3>1. ASSUME NEW refused, NEW unsaved, Act(refused, unsaved) PROVE born' = born
      BY <3>1, ActParts
    <3>2. ASSUME Scan \/ BeginTick \/ RefuseTick \/ TickInRecovery PROVE born' = born
      BY <3>2 DEF Scan, ReadUser, OpenProcess, ReadLink, BeginTick, RefuseTick, TickInRecovery, machine
    <3>3. ASSUME Command PROVE born' = born
      BY <3>3 DEF Command, Reload, Reset, Restart, RecoverState, machine
    <3>4. ASSUME Advance \/ UNCHANGED vars PROVE born' = born
      BY <3>4 DEF Advance, vars, machine
    <3>5. ASSUME NEW p \in Pids, Exit(p) \/ \E app \in Programs : Exec(p, app) PROVE born' = born
      BY <3>5 DEF Exit, Exec
    <3> QED
      BY <1>2, <3>1, <3>2, <3>3, <3>4, <3>5 DEF Tick
  <2>3. /\ \A b \in 1..MaxBorn, p \in Pids : Sighted(b, p) => b <= born
        /\ \A b \in 1..MaxBorn, p, q \in Pids : Sighted(b, p) /\ Sighted(b, q) => p = q
    BY DEF PidInv
  <2> QED
    BY <2>1, <2>2, <2>3
<1>3. Known
  <2>1. \/ \E r \in Pids, user \in Users, app \in Programs : Spawn(r, user, app)
        \/ Tick \/ Command \/ Advance \/ UNCHANGED vars
        \/ \E p \in Pids : Exit(p) \/ \E app \in Programs : Exec(p, app)
    BY DEF Next, Machine
  <2> HIDE DEF Known
  <2> QED
    BY <1>1, <1>2, <2>1
<1> QED
  BY <1>3, FoundOnce DEF PidInv

-----------------------------------------------------------------------------
(* Warnings and deadlines *)

\* A deadline belongs to a process of that PID that was warned as often as it waits,
\* and a warning younger than the grace period has its deadline.
WarnInv ==
  /\ \A p \in Pids : pending[p] # None =>
       LET i == pending[p].process
       IN  /\ i.pid = p /\ warned[i.born] # None
           /\ warned[i.born] = [user |-> i.user, app |-> i.app, age |-> Grace - pending[p].left]
  /\ \A b \in 1..MaxBorn : warned[b] # None /\ warned[b].age < Grace =>
       \E p \in Pids : pending[p] # None /\ pending[p].process.born = b

\* The warning of a process that is pending.
LEMMA WarningOf ==
  ASSUME TypeOK, WarnInv, NEW p \in Pids, pending[p] # None, NEW i, i = pending[p].process
  PROVE  /\ i.born \in 1..MaxBorn /\ i.pid = p /\ warned[i.born] # None
         /\ warned[i.born].user = i.user /\ warned[i.born].app = i.app
         /\ warned[i.born].age = Grace - pending[p].left /\ pending[p].left \in 0..Grace
<1>1. i \in Info /\ pending[p].left \in 0..Grace
  BY DEF TypeOK, Pending
<1>2. /\ i.pid = p /\ warned[i.born] # None
      /\ warned[i.born] = [user |-> i.user, app |-> i.app, age |-> Grace - pending[p].left]
  BY DEF WarnInv
<1>3. i.born \in 1..MaxBorn
  BY <1>1 DEF Info
<1>4. /\ warned[i.born].user = i.user /\ warned[i.born].app = i.app
      /\ warned[i.born].age = Grace - pending[p].left
  BY <1>2
<1> QED
  BY <1>1, <1>2, <1>3, <1>4

\* SIGTERM starts the deadline of the process it is sent to and of no other.
LEMMA ActKeepsWarnings ==
  ASSUME TypeOK, PidInv, WarnInv, NEW refused, NEW unsaved, Act(refused, unsaved)
  PROVE  WarnInv'
<1>1. spent' \subseteq Rules
  BY ActParts DEF TypeOK
<1>2. /\ Sent(refused) \subseteq scan.found /\ Sent(refused) \subseteq Info
      /\ \A i \in Sent(refused) : i.app \in Apps /\ pending[i.pid] = None
  BY <1>1, Signalled
<1>3. \A i \in Sent(refused) : i.pid \in Pids /\ i.born \in 1..MaxBorn /\ Sighted(i.born, i.pid)
  BY <1>2 DEF Sighted, Info
<1>4. \A i, j \in Sent(refused) : i.born = j.born \/ i.pid = j.pid => i = j
  BY <1>2, <1>3 DEF PidInv
<1>5. ASSUME NEW p \in Pids, pending[p] # None
      PROVE  /\ pending[p].process \in Info /\ pending[p].left \in 0..Grace
             /\ Sighted(pending[p].process.born, p)
             /\ \A i \in Sent(refused) : i.born # pending[p].process.born /\ i.pid # p
  <2>1. pending[p].process \in Info /\ pending[p].left \in 0..Grace
    BY <1>5 DEF TypeOK, Pending
  <2>2. Sighted(pending[p].process.born, p)
    BY <1>5 DEF Sighted
  <2>3. \A i \in Sent(refused) : i.pid # p
    BY <1>2, <1>5
  <2> QED
    BY <1>3, <2>1, <2>2, <2>3 DEF PidInv, Info
<1>6. ASSUME NEW p \in Pids, pending'[p] # None
      PROVE  LET i == pending'[p].process
             IN  /\ i.pid = p /\ warned'[i.born] # None
                 /\ warned'[i.born] = [user |-> i.user, app |-> i.app, age |-> Grace - pending'[p].left]
  <2>1. CASE pending'[p] = pending[p]
    <3>1. pending[p].process.born \in 1..MaxBorn
      BY <1>5, <1>6, <2>1 DEF Info
    <3>2. \A i \in Sent(refused) : i.born # pending[p].process.born
      BY <1>5, <1>6, <2>1
    <3>3. \A b \in 1..MaxBorn : (\A i \in Sent(refused) : i.born # b) => warned'[b] = warned[b]
      BY ActWarnings
    <3>4. warned'[pending[p].process.born] = warned[pending[p].process.born]
      BY <3>1, <3>2, <3>3
    <3> QED
      BY <1>6, <2>1, <3>4 DEF WarnInv
  <2>2. ASSUME NEW i \in Sent(refused), i.pid = p, pending'[p] = [left |-> Grace, process |-> i]
        PROVE  /\ pending'[p].process = i /\ pending'[p].left = Grace /\ warned'[i.born] # None
               /\ warned'[i.born] = [user |-> i.user, app |-> i.app, age |-> Grace - Grace]
    <3>1. PICK j \in Sent(refused) :
            j.born = i.born /\ warned'[i.born] = [user |-> j.user, app |-> j.app, age |-> 0]
      BY <1>3, ActWarnings
    <3>2. j = i
      BY <1>4, <3>1
    <3>3. Grace - Grace = 0 /\ 0 \in 0..Grace
      BY BoundsAssumption
    <3>4. [user |-> i.user, app |-> i.app, age |-> 0] \in Warning
      BY <1>2, <3>3 DEF Warning, Info
    <3> QED
      BY <2>2, <3>1, <3>2, <3>3, <3>4, NoneAssumption
  <2>3. \/ pending'[p] = pending[p]
        \/ \E i \in Sent(refused) : i.pid = p /\ pending'[p] = [left |-> Grace, process |-> i]
    BY <1>6, ActDeadlines
  <2> QED
    BY <2>1, <2>2, <2>3
<1>7. ASSUME NEW b \in 1..MaxBorn, warned'[b] # None, warned'[b].age < Grace
      PROVE  \E p \in Pids : pending'[p] # None /\ pending'[p].process.born = b
  <2>1. CASE warned'[b] = warned[b]
    <3>1. PICK p \in Pids : pending[p] # None /\ pending[p].process.born = b
      BY <1>7, <2>1 DEF WarnInv
    <3>2. warned[b].age = Grace - pending[p].left /\ pending[p].left \in 0..Grace
      <4> DEFINE i == pending[p].process
      <4>1. warned[b] = [user |-> i.user, app |-> i.app, age |-> Grace - pending[p].left]
        BY <3>1 DEF WarnInv
      <4> HIDE DEF i
      <4> QED
        BY <1>5, <3>1, <4>1
    <3>3. p \notin Due
      BY <1>7, <2>1, <3>2, BoundsAssumption DEF Due
    <3>4. pending'[p] = pending[p]
      BY <3>1, <3>3, ActDeadlines, <1>5
    <3> QED
      BY <3>1, <3>4
  <2>2. ASSUME NEW i \in Sent(refused), i.born = b
        PROVE  \E p \in Pids : pending'[p] # None /\ pending'[p].process.born = b
    <3>1. i.pid \in Pids /\ pending[i.pid] = None /\ i \in Info
      BY <1>2, <1>3
    <3>2. i.pid \notin Due
      BY <3>1 DEF Due
    <3>3. PICK j \in Sent(refused) : j.pid = i.pid /\ pending'[i.pid] = [left |-> Grace, process |-> j]
      <4>1. \A p \in Pids : p \notin Due /\ (\E k \in Sent(refused) : k.pid = p) =>
              \E j \in Sent(refused) : j.pid = p /\ pending'[p] = [left |-> Grace, process |-> j]
        BY ActDeadlines
      <4> QED
        BY <3>1, <3>2, <4>1
    <3>4. j = i /\ pending'[i.pid].process = i
      BY <1>4, <3>3
    <3>5. pending'[i.pid] # None
      <4>1. [left |-> Grace, process |-> i] \in Pending
        BY <3>1, BoundsAssumption DEF Pending
      <4> QED
        BY <3>3, <3>4, <4>1, NoneAssumption
    <3> QED
      BY <2>2, <3>1, <3>4, <3>5
  <2> QED
    BY <2>1, <2>2, ActWarnings
<1> QED
  BY <1>6, <1>7 DEF WarnInv

\* Nothing but a tick starts a deadline; time shortens it, a command revokes it with
\* the warning it belongs to.
LEMMA WarnKept ==
  ASSUME TypeOK, PidInv, WarnInv, [Next]_vars
  PROVE  WarnInv'
<1>1. CASE UNCHANGED <<pending, warned>>
  BY <1>1 DEF WarnInv
<1>2. ASSUME \/ Scan \/ BeginTick \/ RefuseTick \/ TickInRecovery \/ RecoverState
             \/ Machine \/ UNCHANGED vars
      PROVE  UNCHANGED <<pending, warned>>
  BY <1>2 DEF Scan, ReadUser, OpenProcess, ReadLink, BeginTick, RefuseTick, TickInRecovery, RecoverState,
              Machine, Spawn, Exec, Exit, vars, memory, history
<1>3. ASSUME Reload \/ Restart PROVE WarnInv'
  <2>1. pending' = [p \in Pids |-> None] /\ Revoke(LAMBDA w : TRUE)
    BY <1>3 DEF Reload, Restart
  <2>2. \A b \in 1..MaxBorn : warned'[b] = None
    BY <2>1 DEF Revoke, TypeOK
  <2> QED
    BY <2>1, <2>2 DEF WarnInv
<1>4. ASSUME NEW user, NEW apps, Reset(user, apps) PROVE WarnInv'
  <2>1. Cancel(user, apps) /\ Revoke(LAMBDA w : w.user = user /\ w.app \in apps)
    BY <1>4 DEF Reset
  <2>2. \A p \in Pids : pending'[p] =
          IF pending[p] # None /\ pending[p].process.user = user /\ pending[p].process.app \in apps
          THEN None ELSE pending[p]
    BY <2>1 DEF Cancel
  <2>3. \A b \in 1..MaxBorn : warned'[b] =
          IF warned[b] # None /\ warned[b].user = user /\ warned[b].app \in apps
          THEN None ELSE warned[b]
    BY <2>1 DEF Revoke
  <2>4. ASSUME NEW p \in Pids, pending[p] # None, NEW i, i = pending[p].process
        PROVE  IF i.user = user /\ i.app \in apps
               THEN pending'[p] = None /\ warned'[i.born] = None
               ELSE pending'[p] = pending[p] /\ warned'[i.born] = warned[i.born]
    <3>1. /\ i.born \in 1..MaxBorn /\ warned[i.born] # None
          /\ warned[i.born].user = i.user /\ warned[i.born].app = i.app
      BY <2>4, WarningOf
    <3> QED
      BY <2>2, <2>3, <2>4, <3>1
  <2>5. ASSUME NEW p \in Pids, pending'[p] # None
        PROVE  LET i == pending'[p].process
               IN  /\ i.pid = p /\ warned'[i.born] # None
                   /\ warned'[i.born] = [user |-> i.user, app |-> i.app, age |-> Grace - pending'[p].left]
    <3>1. pending'[p] = pending[p] /\ pending[p] # None
      BY <2>2, <2>5
    <3>2. warned'[pending[p].process.born] = warned[pending[p].process.born]
      BY <2>4, <2>5, <3>1
    <3> QED
      BY <3>1, <3>2 DEF WarnInv
  <2>6. ASSUME NEW b \in 1..MaxBorn, warned'[b] # None, warned'[b].age < Grace
        PROVE  \E p \in Pids : pending'[p] # None /\ pending'[p].process.born = b
    <3>1. warned'[b] = warned[b]
      BY <2>3, <2>6
    <3>2. PICK p \in Pids : pending[p] # None /\ pending[p].process.born = b
      BY <2>6, <3>1 DEF WarnInv
    <3>3. pending'[p] = pending[p]
      BY <2>4, <2>6, <3>2
    <3> QED
      BY <3>2, <3>3
  <2> QED
    BY <2>5, <2>6 DEF WarnInv
<1>5. ASSUME Advance PROVE WarnInv'
  <2>1. /\ pending' = [p \in Pids |-> IF pending[p] = None \/ pending[p].left = 0 THEN pending[p]
                                      ELSE [pending[p] EXCEPT !.left = @ - 1]]
        /\ warned' = [b \in 1..MaxBorn |-> IF warned[b] = None \/ warned[b].age = Grace THEN warned[b]
                                           ELSE [warned[b] EXCEPT !.age = @ + 1]]
    BY <1>5 DEF Advance
  <2>2. ASSUME NEW p \in Pids, pending[p] # None
        PROVE  /\ pending[p] \in Pending /\ pending[p].process \in Info
               /\ pending'[p] # None /\ pending'[p].process = pending[p].process
               /\ pending'[p].left = IF pending[p].left = 0 THEN 0 ELSE pending[p].left - 1
    <3>1. pending[p] \in Pending
      BY <2>2 DEF TypeOK
    <3>2. pending'[p] = IF pending[p].left = 0 THEN pending[p] ELSE [pending[p] EXCEPT !.left = @ - 1]
      BY <2>1, <2>2
    <3>3. pending[p].left # 0 => [pending[p] EXCEPT !.left = @ - 1] \in Pending
      BY <3>1, BoundsAssumption DEF Pending
    <3> QED
      BY <2>2, <3>1, <3>2, <3>3, NoneAssumption DEF Pending
  <2>3. ASSUME NEW p \in Pids, pending'[p] # None PROVE pending[p] # None
    BY <2>1, <2>3
  <2>4. ASSUME NEW b \in 1..MaxBorn, NEW user, NEW app, NEW age \in 0..Grace,
               warned[b] # None, warned[b] = [user |-> user, app |-> app, age |-> age]
        PROVE  /\ warned'[b] # None
               /\ warned'[b] = [user |-> user, app |-> app, age |-> IF age = Grace THEN age ELSE age + 1]
    <3>1. user \in Users /\ app \in Apps
      BY <2>4 DEF TypeOK, Warning
    <3>2. (IF age = Grace THEN age ELSE age + 1) \in 0..Grace
      BY BoundsAssumption
    <3>3. [user |-> user, app |-> app, age |-> IF age = Grace THEN age ELSE age + 1] \in Warning
      BY <3>1, <3>2 DEF Warning
    <3>4. warned'[b] = [user |-> user, app |-> app, age |-> IF age = Grace THEN age ELSE age + 1]
      BY <2>1, <2>4
    <3> QED
      BY <3>3, <3>4, NoneAssumption
  <2>5. ASSUME NEW p \in Pids, pending'[p] # None
        PROVE  LET i == pending'[p].process
               IN  /\ i.pid = p /\ warned'[i.born] # None
                   /\ warned'[i.born] = [user |-> i.user, app |-> i.app, age |-> Grace - pending'[p].left]
    <3> DEFINE i == pending[p].process
               age == Grace - pending[p].left
    <3>1. pending[p] # None /\ pending'[p].process = i /\ pending[p].left \in 0..Grace
      BY <2>2, <2>3, <2>5 DEF Pending
    <3>2. /\ i.pid = p /\ i.born \in 1..MaxBorn /\ warned[i.born] # None
          /\ warned[i.born] = [user |-> i.user, app |-> i.app, age |-> age]
      BY <2>2, <3>1 DEF WarnInv, Info
    <3>3. age \in 0..Grace /\ Grace - pending'[p].left = IF age = Grace THEN age ELSE age + 1
      BY <2>2, <3>1, BoundsAssumption
    <3> HIDE DEF i, age
    <3>4. /\ warned'[i.born] # None
          /\ warned'[i.born] = [user |-> i.user, app |-> i.app, age |-> IF age = Grace THEN age ELSE age + 1]
      BY <2>4, <3>2, <3>3
    <3> QED
      BY <3>1, <3>2, <3>3, <3>4
  <2>6. ASSUME NEW b \in 1..MaxBorn, warned'[b] # None, warned'[b].age < Grace
        PROVE  \E p \in Pids : pending'[p] # None /\ pending'[p].process.born = b
    <3>1. warned[b] # None /\ warned[b] \in Warning
      BY <2>1, <2>6 DEF TypeOK
    <3>2. warned[b].age < Grace
      BY <2>1, <2>6, <3>1, BoundsAssumption DEF Warning
    <3>3. PICK p \in Pids : pending[p] # None /\ pending[p].process.born = b
      BY <3>1, <3>2 DEF WarnInv
    <3> QED
      BY <2>2, <3>3
  <2> QED
    BY <2>5, <2>6 DEF WarnInv
<1> QED
  BY <1>1, <1>2, <1>3, <1>4, <1>5, ActKeepsWarnings DEF Next, Tick, Command

-----------------------------------------------------------------------------
(* What is promised *)

EnforcementInv == TypeOK /\ ScanInv /\ PidInv /\ WarnInv

LEMMA InvAtFirst == Init => EnforcementInv
<1> SUFFICES ASSUME Init PROVE EnforcementInv
  OBVIOUS
<1>1. /\ pc = "idle" /\ scan.found = {} /\ \A p \in Pids : pending[p] = None /\ table[p] = None
      /\ \A b \in 1..MaxBorn : warned[b] = None
  BY DEF Init, NoScan
<1> QED
  BY <1>1, TypeAtFirst DEF EnforcementInv, PidInv, WarnInv, Sighted

LEMMA InvKept == EnforcementInv /\ [Next]_vars => EnforcementInv'
  BY TypeKept, PidKept, WarnKept DEF EnforcementInv

LEMMA InvHolds == Spec => []EnforcementInv
  BY InvAtFirst, InvKept, PTL DEF Spec

\* Whatever is reset for other users and applications and whatever reuses PIDs, a
\* process that was sent SIGTERM keeps its own pending termination and its deadline.
THEOREM WarnedStay == Spec => []WarnedStayPending
<1>1. EnforcementInv => WarnedStayPending
  <2> SUFFICES ASSUME EnforcementInv, NEW p \in Pids,
                      table[p] # None, warned[table[p].born] # None, warned[table[p].born].age < Grace
               PROVE  /\ pending[p] # None /\ pending[p].process.born = table[p].born
                      /\ pending[p].left = Grace - warned[table[p].born].age
    BY DEF WarnedStayPending
  <2> DEFINE b == table[p].born
  <2>1. b \in 1..MaxBorn /\ Sighted(b, p)
    BY DEF EnforcementInv, TypeOK, Process, Sighted
  <2>2. PICK q \in Pids : pending[q] # None /\ pending[q].process.born = b
    BY <2>1 DEF EnforcementInv, WarnInv
  <2>3. Sighted(b, q)
    BY <2>2 DEF Sighted
  <2>4. q = p
    BY <2>1, <2>3 DEF EnforcementInv, PidInv
  <2>5. warned[b].age = Grace - pending[p].left /\ pending[p].left \in 0..Grace
    <3> HIDE DEF b
    <3> QED
      BY <2>2, <2>4, WarningOf DEF EnforcementInv
  <2> QED
    BY <2>2, <2>4, <2>5, BoundsAssumption
<1> QED
  BY <1>1, InvHolds, PTL

\* SIGKILL is for a process whose own warning is a grace period old and was never
\* revoked, not for one that reuses the PID of a process that was warned.
THEOREM KillsWereWarned == Spec => KillsAreWarned
<1>1. ASSUME EnforcementInv, [Next]_vars
      PROVE  [\A b \in killed' \ killed : warned[b] # None /\ warned[b].age = Grace]_vars
  <2>1. ASSUME NEW refused, NEW unsaved, Act(refused, unsaved), NEW b \in killed' \ killed
        PROVE  warned[b] # None /\ warned[b].age = Grace
    <3>1. PICK i \in Kills(refused) : i.born = b
      BY <2>1, ActParts
    <3>2. i.pid \in Due /\ SameIdentity(i, pending[i.pid].process)
      <4>1. i \in ToKill
        BY DEF Kills
      <4> QED
        BY <4>1 DEF ToKill
    <3>3. /\ i.pid \in Pids /\ pending[i.pid] # None /\ pending[i.pid].left = 0
          /\ pending[i.pid].process.born = b
      BY <3>1, <3>2 DEF Due, SameIdentity
    <3>4. \A p \in Pids : pending[p] # None =>
            /\ warned[pending[p].process.born] # None
            /\ warned[pending[p].process.born].age = Grace - pending[p].left
      BY <1>1, WarningOf DEF EnforcementInv
    <3>5. warned[b] # None /\ warned[b].age = Grace
      BY <3>3, <3>4, BoundsAssumption
    <3> QED
      BY <3>5
  <2>2. ASSUME \/ Scan \/ BeginTick \/ RefuseTick \/ TickInRecovery \/ Machine \/ Command \/ Advance
        PROVE  killed' = killed
    BY <2>2 DEF Scan, ReadUser, OpenProcess, ReadLink, BeginTick, RefuseTick, TickInRecovery, Command,
                Reload, Reset, Restart, RecoverState, Machine, Spawn, Exec, Exit, Advance, history
  <2> QED
    BY <1>1, <2>1, <2>2 DEF Next, Tick
<1> QED
  BY <1>1, InvHolds, PTL DEF Spec, KillsAreWarned

=============================================================================
