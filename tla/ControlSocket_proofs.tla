------------------------- MODULE ControlSocket_proofs -------------------------
(***************************************************************************)
(* The filter by itself, for every set of configurations, accounts and     *)
(* ports, and wherever Apply fails, nft deceives the daemon, or the daemon *)
(* dies: the rules of the kernel never point to a port nobody listens on,  *)
(* no server is lost, and a reload always finds its ports free.            *)
(*                                                                         *)
(* For any number of connections, slots, users and configurations: with    *)
(* Run, the handlers and the mutex around it the filter is still the one   *)
(* of WebFilter, and, while accounts keep their UIDs, what is in force     *)
(* between commands, and what an indicator is told, is what the last       *)
(* reload that was answered OK has installed.                              *)
(***************************************************************************)
EXTENDS ControlSocket, FiniteSetTheorems, TLAPS

-----------------------------------------------------------------------------
(* The filter by itself: what follows up to StepsAreFilterSteps is about Spec *)
(* of WebFilter.                                                             *)

\* What a partial function is, and how one is made.
LEMMA PartialFunctions ==
  ASSUME NEW S, NEW T
  PROVE  /\ \A f \in Partial(S, T) : /\ DOMAIN f \subseteq S
                                     /\ f = [x \in DOMAIN f |-> f[x]]
                                     /\ \A x \in DOMAIN f : f[x] \in T
         /\ \A D \in SUBSET S : [D -> T] \subseteq Partial(S, T)
         /\ Empty \in Partial(S, T)
<1>1. \A f \in Partial(S, T) : \E D \in SUBSET S : f \in [D -> T]
  BY DEF Partial
<1>2. \A D \in SUBSET S : [D -> T] \subseteq Partial(S, T)
  BY DEF Partial
<1>3. Empty \in [{} -> T]
  BY DEF Empty
<1> QED
  BY <1>1, <1>2, <1>3

\* The users with domains are finitely many UIDs.
LEMMA FilteredUids ==
  ASSUME TypeOK
  PROVE  Filtered \subseteq Uids /\ IsFiniteSet(Filtered)
<1>1. Filtered \subseteq Uids
  BY PartialFunctions DEF TypeOK, Filtered
<1> QED
  BY <1>1, UidsAssumption, FS_Subset

-----------------------------------------------------------------------------
(* Ports *)

\* The ports of a generation.
Half(g) == g * Ports .. g * Ports + Ports - 1
Other == (generation + 1) % 2

\* A user's place among those with domains.
Below(id) == {other \in Filtered : other < id}

\* Places are different and fit, when the users do.
LEMMA Places ==
  ASSUME TypeOK
  PROVE  /\ \A id \in Filtered : /\ Cardinality(Below(id)) \in Nat
                                 /\ Cardinality(Below(id)) < Cardinality(Filtered)
         /\ \A id, other \in Filtered : id < other => Cardinality(Below(id)) < Cardinality(Below(other))
<1>1. ASSUME NEW S, NEW T, T \subseteq Filtered, S \subseteq T, S # T
      PROVE  Cardinality(S) \in Nat /\ Cardinality(S) < Cardinality(T)
  <2>1. IsFiniteSet(T)
    BY <1>1, FilteredUids, FS_Subset
  <2>2. IsFiniteSet(S) /\ Cardinality(S) <= Cardinality(T) /\ Cardinality(S) # Cardinality(T)
    BY <1>1, <2>1, FS_Subset
  <2>3. Cardinality(S) \in Nat /\ Cardinality(T) \in Nat
    BY <2>1, <2>2, FS_CardinalityType
  <2> QED
    BY <2>2, <2>3
<1>2. ASSUME NEW id \in Filtered PROVE Below(id) \subseteq Filtered /\ id \notin Below(id)
  <2>1. id \in Nat
    BY FilteredUids, UidsAssumption
  <2> QED
    BY <2>1 DEF Below
<1>3. ASSUME NEW id \in Filtered, NEW other \in Filtered, id < other
      PROVE  Below(id) \subseteq Below(other) /\ id \in Below(other)
  <2>1. \A x \in Filtered : x \in Nat
    BY FilteredUids, UidsAssumption
  <2> QED
    BY <2>1, <1>3 DEF Below
<1> QED
  BY <1>1, <1>2, <1>3

\* So are the fresh ports, which lie in the other generation.
LEMMA FreshPorts ==
  ASSUME TypeOK, Cardinality(Filtered) <= Ports
  PROVE  /\ \A id \in Filtered : FreshPort(id) \in Half(Other)
         /\ \A id, other \in Filtered : FreshPort(id) = FreshPort(other) => id = other
<1>1. \A id \in Filtered : FreshPort(id) = Other * Ports + Cardinality(Below(id))
  BY DEF FreshPort, Other, Below
<1>2. Other \in {0, 1} /\ Ports \in Nat
  BY PortsAssumption DEF TypeOK, Other
<1>3. Other * Ports \in Nat
  BY <1>2
<1>4. Cardinality(Filtered) \in Nat
  BY FilteredUids, FS_CardinalityType
<1>5. \A id \in Filtered : FreshPort(id) \in Half(Other)
  BY <1>1, <1>2, <1>3, <1>4, Places DEF Half
<1>6. ASSUME NEW id \in Filtered, NEW other \in Filtered, FreshPort(id) = FreshPort(other)
      PROVE  id = other
  <2>1. id \in Nat /\ other \in Nat
    BY FilteredUids, UidsAssumption
  <2>2. Cardinality(Below(id)) = Cardinality(Below(other))
    BY <1>1, <1>3, <1>6, Places
  <2>3. ~(id < other) /\ ~(other < id)
    BY <2>2, Places
  <2> QED
    BY <2>1, <2>3
<1> QED
  BY <1>5, <1>6

\* The two generations share no port.
LEMMA Halves == ASSUME TypeOK
                PROVE  /\ Half(generation) \cap Half(Other) = {}
                       /\ Half(generation) \subseteq AllPorts /\ Half(Other) \subseteq AllPorts
                       /\ Other \in {0, 1}
<1>1. CASE generation = 0
  BY <1>1, PortsAssumption DEF Half, Other, AllPorts
<1>2. CASE generation = 1
  BY <1>2, PortsAssumption DEF Half, Other, AllPorts
<1> QED
  BY <1>1, <1>2 DEF TypeOK

-----------------------------------------------------------------------------
(* The invariant *)

\* The ports the rules point to.
Targets == {rules[id] : id \in DOMAIN rules}

\* The filter's servers have the ports of its generation and are open.  Apply
\* adds those of the users it is done with, in the other generation, and has
\* checked that they fit.  A trusted table points to the filter's servers, and
\* from the exchange of the rules on to the fresh ones.
FilterInv ==
  /\ servers \subseteq Half(generation)
  /\ pc = "down" => servers = {} /\ listening = Empty
  /\ pc \in {"idle", "closed"} => DOMAIN listening = servers
  /\ pc \in {"servers", "close"} =>
       /\ job = [from |-> job.from, old |-> job.old, todo |-> job.todo, fresh |-> job.fresh]
       /\ job.from # "none"
       /\ job.todo \subseteq Filtered
       /\ job.fresh = {FreshPort(id) : id \in Filtered \ job.todo}
       /\ DOMAIN listening = servers \cup job.fresh
       /\ job.todo # Filtered => Cardinality(Filtered) <= Ports
  /\ pc = "close" => job.todo = {} /\ rules = FreshRules
  /\ trusted /\ pc \in {"idle", "closed", "servers"} => servers = Targets

\* Users who resolve make a user table.
LEMMA ResolvedType ==
  ASSUME TypeOK, NEW c \in Configs \cup {Empty}, Resolves(c)
  PROVE  Resolved(c) \in Partial(Uids, Users)
<1> DEFINE D == {accounts[u] : u \in DOMAIN c}
<1>1. accounts \in Partial(Users, Uids) /\ c \in Partial(Users, SUBSET Domains)
  BY ConfigsAssumption, DatabasesAssumption, PartialFunctions DEF TypeOK
<1>2. DOMAIN c \subseteq DOMAIN accounts /\ DOMAIN c \subseteq Users
  BY <1>1, PartialFunctions DEF Resolves
<1>3. D \subseteq Uids
  BY <1>1, <1>2, PartialFunctions
<1>4. Resolved(c) \in [D -> Users]
  BY <1>2 DEF Resolved
<1> QED
  BY <1>3, <1>4, PartialFunctions

\* While Apply runs, its fresh servers and the filter's share no port.
LEMMA FreshApart ==
  ASSUME TypeOK, FilterInv, pc \in {"servers", "close"}
  PROVE  /\ job.fresh \subseteq Half(Other)
         /\ servers \cap job.fresh = {}
<1>1. job.fresh \subseteq Half(Other)
  <2>1. CASE job.todo = Filtered
    BY <2>1 DEF FilterInv
  <2>2. CASE job.todo # Filtered
    BY <2>2, FreshPorts DEF FilterInv
  <2> QED
    BY <2>1, <2>2
<1> QED
  BY <1>1, Halves DEF FilterInv

\* Users and ports stay what they are while their variables do.
LEMMA SameFilter ==
  ASSUME UNCHANGED <<cfg, uidUsers>>
  PROVE  /\ Filtered' = Filtered
         /\ generation' = generation => /\ \A id : FreshPort(id)' = FreshPort(id)
                                        /\ FreshRules' = FreshRules
<1>1. Filtered' = Filtered
  BY DEF Filtered, Blocked
<1>2. ASSUME generation' = generation PROVE \A id : FreshPort(id)' = FreshPort(id)
  BY <1>1, <1>2 DEF FreshPort
<1> QED
  BY <1>1, <1>2 DEF FreshRules

\* Closing some servers leaves the others open.
LEMMA Closing ==
  ASSUME TypeOK, NEW ports
  PROVE  /\ Without(ports) \in Partial(AllPorts, SUBSET Domains)
         /\ DOMAIN Without(ports) = DOMAIN listening \ ports
<1>1. /\ DOMAIN listening \subseteq AllPorts
      /\ \A p \in DOMAIN listening : listening[p] \in SUBSET Domains
  BY PartialFunctions DEF TypeOK
<1>2. Without(ports) \in [DOMAIN listening \ ports -> SUBSET Domains]
  BY <1>1 DEF Without
<1> QED
  BY <1>1, <1>2, PartialFunctions

\* A failed Apply leaves the filter as it was, or nothing of it.
LEMMA FailureKeepsInv ==
  ASSUME TypeOK, FilterInv, pc = "servers", ApplyFails, trusted' => trusted /\ rules' = rules,
         rules' \in Partial(Uids, AllPorts), accounts' = accounts, trusted' \in BOOLEAN
  PROVE  TypeOK' /\ FilterInv'
<1>1. CASE job.from = "down"
  <2>1. /\ pc' = "down" /\ cfg' = Empty /\ uidUsers' = Empty
        /\ generation' = 0 /\ servers' = {} /\ job' = NoJob /\ listening' = Empty
    BY <1>1 DEF ApplyFails, Gone
  <2>2. FilterInv'
    BY <2>1 DEF FilterInv
  <2>3. TypeOK'
    BY <2>1, PartialFunctions DEF TypeOK, NoJob
  <2> QED
    BY <2>2, <2>3
<1>2. CASE job.from # "down"
  <2>1. /\ pc' = job.from /\ job' = NoJob /\ cfg' = job.old
        /\ uidUsers' = IF Resolves(job.old) THEN Resolved(job.old) ELSE uidUsers
        /\ listening' = Without(job.fresh)
        /\ generation' = generation /\ servers' = servers
    BY <1>2 DEF ApplyFails, Rollback
  <2>2. pc' \in {"idle", "closed"} /\ cfg' \in Configs \cup {Empty}
    BY <1>2, <2>1 DEF FilterInv, TypeOK
  <2>3. DOMAIN listening' = servers'
    BY <2>1, Closing, FreshApart DEF FilterInv
  <2>4. trusted' => servers' = Targets'
    BY <2>1 DEF FilterInv, Targets
  <2>5. servers' \subseteq Half(generation)'
    BY <2>1 DEF FilterInv, Half
  <2>6. uidUsers' \in Partial(Uids, Users)
    BY <2>1, ResolvedType DEF TypeOK
  <2>7. listening' \in Partial(AllPorts, SUBSET Domains)
    BY <2>1, Closing
  <2>8. TypeOK'
    BY <2>1, <2>2, <2>6, <2>7 DEF TypeOK, NoJob
  <2> QED
    BY <2>2, <2>3, <2>4, <2>5, <2>8 DEF FilterInv
<1> QED
  BY <1>1, <1>2

\* A server that is started takes a port that was free.
LEMMA StartKeepsInv ==
  ASSUME TypeOK, FilterInv, StartServer
  PROVE  TypeOK' /\ FilterInv'
<1>1. /\ pc = "servers" /\ pc' = pc /\ Cardinality(Filtered) <= Ports
      /\ UNCHANGED <<cfg, uidUsers, generation, servers, rules, accounts, trusted>>
  BY DEF StartServer
<1>2. PICK id \in job.todo :
        /\ listening' = [p \in DOMAIN listening \cup {FreshPort(id)} |->
                           IF p = FreshPort(id) THEN Blocked(id) ELSE listening[p]]
        /\ job' = [job EXCEPT !.todo = @ \ {id}, !.fresh = @ \cup {FreshPort(id)}]
  BY DEF StartServer
<1>3. id \in Filtered /\ FreshPort(id) \in AllPorts
  BY <1>1, FreshPorts, Halves DEF FilterInv
<1>4. /\ Filtered' = Filtered /\ \A x : FreshPort(x)' = FreshPort(x)
      /\ Half(generation)' = Half(generation)
  BY <1>1, SameFilter DEF Half
<1>5. /\ job' = [from |-> job.from, old |-> job.old, todo |-> job.todo \ {id},
                 fresh |-> job.fresh \cup {FreshPort(id)}]
      /\ job'.from = job.from /\ job'.old = job.old
      /\ job'.todo = job.todo \ {id} /\ job'.fresh = job.fresh \cup {FreshPort(id)}
  BY <1>1, <1>2 DEF FilterInv
<1>6. job'.fresh = {FreshPort(x) : x \in Filtered \ job'.todo}
  BY <1>1, <1>3, <1>5 DEF FilterInv
<1>7. DOMAIN listening' = servers \cup job'.fresh
  BY <1>1, <1>2, <1>5 DEF FilterInv
<1>8. listening' \in Partial(AllPorts, SUBSET Domains)
  <2>1. Blocked(id) \in SUBSET Domains
    <3>1. \A u \in DOMAIN cfg : cfg[u] \in SUBSET Domains
      BY ConfigsAssumption, PartialFunctions DEF TypeOK
    <3> QED
      BY <3>1 DEF Blocked
  <2>2. /\ DOMAIN listening \subseteq AllPorts
        /\ \A p \in DOMAIN listening : listening[p] \in SUBSET Domains
    BY PartialFunctions DEF TypeOK
  <2>3. listening' \in [DOMAIN listening \cup {FreshPort(id)} -> SUBSET Domains]
    BY <1>2, <2>1, <2>2
  <2> QED
    BY <1>3, <2>2, <2>3, PartialFunctions
<1>9. job'.todo \subseteq Uids /\ job'.fresh \subseteq AllPorts
  BY <1>3, <1>5 DEF TypeOK
<1>10. TypeOK'
  BY <1>1, <1>5, <1>8, <1>9 DEF TypeOK
<1>11. FilterInv'
  <2>1. job'.todo \subseteq Filtered'
    BY <1>1, <1>4, <1>5 DEF FilterInv
  <2>2. job'.fresh = {FreshPort(x)' : x \in Filtered' \ job'.todo}
    BY <1>4, <1>6
  <2>3. Targets' = Targets
    BY <1>1 DEF Targets
  <2>4. job' = [from |-> job'.from, old |-> job'.old, todo |-> job'.todo, fresh |-> job'.fresh]
    BY <1>5
  <2> QED
    BY <1>1, <1>4, <1>5, <1>7, <2>1, <2>2, <2>3, <2>4 DEF FilterInv
<1> QED
  BY <1>10, <1>11

\* The rules of a filter that fits point to its fresh servers, one for each.
LEMMA FreshRulesType ==
  ASSUME TypeOK, FilterInv, pc = "servers", job.todo = {}
  PROVE  /\ FreshRules \in Partial(Uids, AllPorts)
         /\ DOMAIN FreshRules = Filtered
         /\ {FreshRules[id] : id \in Filtered} = job.fresh
<1>1. Filtered \subseteq Uids
  BY FilteredUids
<1>2. \A id \in Filtered : FreshPort(id) \in AllPorts
  <2>1. Filtered # {} => Cardinality(Filtered) <= Ports
    BY DEF FilterInv
  <2> QED
    BY <2>1, FreshPorts, Halves
<1>3. FreshRules \in [Filtered -> AllPorts]
  BY <1>2 DEF FreshRules
<1>4. {FreshRules[id] : id \in Filtered} = {FreshPort(id) : id \in Filtered}
  BY DEF FreshRules
<1> QED
  BY <1>1, <1>3, <1>4, PartialFunctions DEF FreshRules, FilterInv

\* The fresh servers replace the old ones, which the rules have left.
LEMMA CloseKeepsInv ==
  ASSUME TypeOK, FilterInv, CloseOld
  PROVE  TypeOK' /\ FilterInv'
<1>1. /\ pc = "close" /\ pc' = "idle" /\ job' = NoJob
      /\ servers' = job.fresh /\ generation' = Other /\ listening' = Without(servers)
      /\ UNCHANGED <<cfg, uidUsers, rules, accounts, trusted>>
  BY DEF CloseOld, Other
<1>2. job.fresh \subseteq Half(Other) /\ servers \cap job.fresh = {}
  BY <1>1, FreshApart
<1>3. servers' \subseteq Half(generation')
  BY <1>1, <1>2
<1>4. DOMAIN listening' = servers'
  BY <1>1, <1>2, Closing DEF FilterInv
<1>5. Targets' = job.fresh
  <2>1. rules = FreshRules /\ job.fresh = {FreshPort(id) : id \in Filtered}
    BY <1>1 DEF FilterInv
  <2> QED
    BY <1>1, <2>1 DEF Targets, FreshRules
<1>6. generation' \in {0, 1} /\ servers' \subseteq AllPorts
      /\ listening' \in Partial(AllPorts, SUBSET Domains)
  BY <1>1, <1>2, Halves, Closing
<1>7. TypeOK'
  BY <1>1, <1>6 DEF TypeOK, NoJob
<1> QED
  BY <1>1, <1>3, <1>4, <1>5, <1>7 DEF FilterInv, Half

\* Apply begins with the users of the new configuration still to do.
LEMMA BeginKeepsInv ==
  ASSUME TypeOK, FilterInv, Start \/ Reload
  PROVE  TypeOK' /\ FilterInv'
<1>1. PICK c \in Configs : Resolves(c) /\ cfg' = c /\ uidUsers' = Resolved(c)
  BY DEF Start, Reload
<1>2. /\ pc \in {"down", "idle", "closed"} /\ pc' = "servers"
      /\ job' = [from |-> pc, old |-> cfg, todo |-> Filtered', fresh |-> {}]
      /\ UNCHANGED <<generation, servers, listening, rules, accounts>>
      /\ trusted' = IF pc = "down" THEN rules = Empty ELSE trusted
  BY DEF Start, Reload, BeginApply, network
<1>3. cfg' \in Configs /\ uidUsers' \in Partial(Uids, Users)
  BY <1>1, ResolvedType
<1>4. Filtered' \subseteq Uids
  <2>1. DOMAIN uidUsers' \subseteq Uids
    BY <1>3, PartialFunctions
  <2> QED
    BY <2>1 DEF Filtered
<1>5. TypeOK'
  BY <1>2, <1>3, <1>4 DEF TypeOK
<1>6. DOMAIN listening = servers
  BY <1>2 DEF FilterInv, Empty
<1>7. trusted' => servers' = Targets'
  BY <1>2 DEF FilterInv, Targets, Empty
<1>8. Half(generation)' = Half(generation)
  BY <1>2 DEF Half
<1> QED
  BY <1>2, <1>5, <1>6, <1>7, <1>8 DEF FilterInv

\* The invariant of the filter, with the types it needs.
LEMMA FilterInvHolds == Spec => [](TypeOK /\ FilterInv)
<1>1. Init => TypeOK /\ FilterInv
  BY PartialFunctions DEF Init, TypeOK, FilterInv, NoJob, Targets
<1>2. TypeOK /\ FilterInv /\ [Next]_vars => TypeOK' /\ FilterInv'
  <2> SUFFICES ASSUME TypeOK, FilterInv, [Next]_vars PROVE TypeOK' /\ FilterInv'
    OBVIOUS
  <2>1. CASE StartServer
    BY <2>1, StartKeepsInv
  <2>2. CASE ServersFail
    BY <2>2, FailureKeepsInv DEF ServersFail, TypeOK
  <2>3. CASE InstallRules
    <3>1. /\ pc = "servers" /\ pc' = "close" /\ job.todo = {} /\ rules' = FreshRules
          /\ trusted' = TRUE
          /\ UNCHANGED <<cfg, uidUsers, generation, servers, job, listening, accounts>>
      BY <2>3 DEF InstallRules, memory
    <3>2. TypeOK'
      BY <3>1, FreshRulesType DEF TypeOK
    <3>3. /\ Filtered' = Filtered /\ \A x : FreshPort(x)' = FreshPort(x)
          /\ FreshRules' = FreshRules /\ Half(generation)' = Half(generation)
      BY <3>1, SameFilter DEF Half
    <3> QED
      BY <3>1, <3>2, <3>3 DEF FilterInv
  <2>4. CASE InstallFails
    <3>1. rules' \in Partial(Uids, AllPorts) /\ trusted' \in BOOLEAN
      BY <2>4, FreshRulesType DEF InstallFails, TypeOK
    <3> QED
      BY <2>4, <3>1, FailureKeepsInv DEF InstallFails
  <2>5. CASE CloseOld
    BY <2>5, CloseKeepsInv
  <2>6. CASE Start \/ Reload
    BY <2>6, BeginKeepsInv
  <2>7. CASE ReloadRejected
    <3>1. /\ pc \in {"idle", "closed"}
          /\ uidUsers' \in Partial(Uids, Users)
          /\ UNCHANGED <<pc, cfg, generation, servers, job, listening, rules, accounts, trusted>>
      BY <2>7, ResolvedType DEF ReloadRejected, network, TypeOK
    <3>2. TypeOK'
      BY <3>1 DEF TypeOK
    <3> QED
      BY <3>1, <3>2 DEF FilterInv, Targets, Half
  <2>8. CASE Close
    <3>1. /\ pc = "idle" /\ pc' = "closed" /\ rules' \in {rules, Empty}
          /\ trusted' = (rules' = Empty) /\ servers' = {} /\ listening' = Without(servers)
          /\ UNCHANGED <<cfg, uidUsers, generation, job, accounts>>
      BY <2>8 DEF Close
    <3>2. TypeOK'
      BY <3>1, Closing, PartialFunctions DEF TypeOK
    <3>3. DOMAIN listening' = {} /\ (trusted' => Targets' = {})
      BY <3>1, Closing DEF FilterInv, Targets, Empty
    <3> QED
      BY <3>1, <3>2, <3>3 DEF FilterInv
  <2>9. CASE Crash
    BY <2>9, PartialFunctions DEF Crash, Gone, TypeOK, FilterInv, NoJob
  <2>10. CASE ChangeAccounts \/ UNCHANGED vars
    <3>1. /\ accounts' \in Databases
          /\ UNCHANGED <<pc, cfg, uidUsers, generation, servers, job, listening, rules, trusted>>
      BY <2>10 DEF ChangeAccounts, vars, memory, network, TypeOK
    <3>2. TypeOK'
      BY <3>1 DEF TypeOK
    <3>3. /\ Filtered' = Filtered /\ \A x : FreshPort(x)' = FreshPort(x)
          /\ FreshRules' = FreshRules /\ Half(generation)' = Half(generation)
          /\ Targets' = Targets
      BY <3>1, SameFilter DEF Half, Targets
    <3> QED
      BY <3>1, <3>2, <3>3 DEF FilterInv
  <2> QED
    BY <2>1, <2>2, <2>3, <2>4, <2>5, <2>6, <2>7, <2>8, <2>9, <2>10 DEF Next, Apply
<1> QED
  BY <1>1, <1>2, PTL DEF Spec

-----------------------------------------------------------------------------
(* What follows *)

\* For every set of users, domains, accounts and configurations, and whatever
\* fails within Apply: the filter's fields, the open sockets and the kernel's table
\* keep their types.
THEOREM TypeCorrect == Spec => []TypeOK
  BY FilterInvHolds, PTL

\* Whatever is reloaded, fails or dies, and however many servers there are, no
\* trusted rule points to a port nobody listens on.
THEOREM RulesAlwaysServed == Spec => []RulesServed
<1>1. TypeOK /\ FilterInv => RulesServed
  <2> SUFFICES ASSUME TypeOK, FilterInv, pc # "down", trusted
               PROVE  Targets \subseteq DOMAIN listening
    BY DEF RulesServed, Targets
  <2>1. CASE pc = "close"
    BY <2>1 DEF FilterInv, Targets, FreshRules
  <2>2. CASE pc # "close"
    BY <2>2 DEF FilterInv, TypeOK
  <2> QED
    BY <2>1, <2>2
<1> QED
  BY <1>1, FilterInvHolds, PTL

\* Between commands the open sockets are the servers of the filter, and a
\* trusted table has a rule for each.
THEOREM ServersNeverLeak == Spec => []NoServerLeaks
<1>1. FilterInv => NoServerLeaks
  BY DEF FilterInv, NoServerLeaks, Targets
<1> QED
  BY <1>1, FilterInvHolds, PTL

\* A reload whose users fit finds each of its ports free, after whatever failed
\* and successful reloads came before.
THEOREM FreshPortsAlwaysFree == Spec => []FreshPortsFree
<1>1. TypeOK /\ FilterInv => FreshPortsFree
  <2> SUFFICES ASSUME TypeOK, FilterInv, pc = "servers", Cardinality(Filtered) <= Ports,
                      NEW id \in job.todo
               PROVE  FreshPort(id) \notin DOMAIN listening
    BY DEF FreshPortsFree
  <2>1. id \in Filtered /\ FreshPort(id) \in Half(Other)
    BY FreshPorts DEF FilterInv
  <2>2. FreshPort(id) \notin servers
    BY <2>1, Halves DEF FilterInv
  <2>3. FreshPort(id) \notin job.fresh
    BY <2>1, FreshPorts DEF FilterInv
  <2> QED
    BY <2>2, <2>3 DEF FilterInv
<1> QED
  BY <1>1, FilterInvHolds, PTL

-----------------------------------------------------------------------------
(* The filter and the configuration *)

\* Accounts keep the UIDs they have.
AccountsFixed == \A d, e \in Databases : d = e

\* What a configuration and a user table block, and that rules and servers do.
BlockedBy(config, table, id) ==
  IF table[id] \in DOMAIN config THEN config[table[id]] ELSE {}
FilteredBy(config, table) == {id \in DOMAIN table : BlockedBy(config, table, id) # {}}
Serves(config, table) ==
  /\ DOMAIN rules = FilteredBy(config, table)
  /\ \A id \in DOMAIN rules : /\ rules[id] \in DOMAIN listening
                              /\ listening[rules[id]] = BlockedBy(config, table, id)

\* The user table is the one the configuration resolves to, and so it would be
\* after a rollback; trusted rules serve the configuration in force, and while
\* another is tried out the one before; the fresh servers serve the new one.
MatchInv ==
  /\ pc # "down" => Resolves(cfg) /\ uidUsers = Resolved(cfg)
  /\ pc \in {"servers", "close"} =>
       /\ job.from # "down" => Resolves(job.old)
       /\ \A id \in Filtered \ job.todo : listening[FreshPort(id)] = Blocked(id)
  /\ trusted /\ pc = "idle" => Serves(cfg, uidUsers)
  /\ trusted /\ pc = "servers" /\ job.from = "idle" => Serves(job.old, Resolved(job.old))

\* The servers that were started serve the new configuration.
LEMMA FreshServe ==
  ASSUME TypeOK, FilterInv, MatchInv, pc = "close"
  PROVE  /\ Serves(cfg, uidUsers)
         /\ \A id \in DOMAIN rules : rules[id] \in job.fresh
<1>1. /\ DOMAIN rules = Filtered /\ \A id \in Filtered : rules[id] = FreshPort(id)
      /\ job.fresh = {FreshPort(id) : id \in Filtered} /\ job.fresh \subseteq DOMAIN listening
  BY DEF FilterInv, FreshRules
<1>2. \A id \in Filtered : listening[FreshPort(id)] = Blocked(id)
  BY DEF FilterInv, MatchInv
<1>3. Filtered = FilteredBy(cfg, uidUsers)
      /\ \A id \in Filtered : Blocked(id) = BlockedBy(cfg, uidUsers, id)
  BY DEF Filtered, FilteredBy, Blocked, BlockedBy
<1> QED
  BY <1>1, <1>2, <1>3 DEF Serves

\* Closing servers that no rule points to changes nothing for anybody.
LEMMA ClosingServes ==
  ASSUME NEW config, NEW table, NEW ports, Serves(config, table),
         \A id \in DOMAIN rules : rules[id] \notin ports,
         listening' = Without(ports), rules' = rules
  PROVE  /\ DOMAIN rules' = FilteredBy(config, table)
         /\ \A id \in DOMAIN rules' : /\ rules'[id] \in DOMAIN listening'
                                      /\ listening'[rules'[id]] = BlockedBy(config, table, id)
<1>1. /\ DOMAIN listening' = DOMAIN listening \ ports
      /\ \A p \in DOMAIN listening \ ports : listening'[p] = listening[p]
  BY DEF Without
<1> QED
  BY <1>1 DEF Serves

\* A failed Apply brings back the filter that was served.
LEMMA FailureServes ==
  ASSUME TypeOK, FilterInv, MatchInv, pc = "servers", ApplyFails, accounts' = accounts,
         trusted' => trusted /\ rules' = rules
  PROVE  MatchInv'
<1>1. CASE job.from = "down"
  BY <1>1 DEF ApplyFails, Gone, MatchInv
<1>2. CASE job.from # "down"
  <2>1. /\ pc' = job.from /\ cfg' = job.old
        /\ uidUsers' = IF Resolves(job.old) THEN Resolved(job.old) ELSE uidUsers
        /\ listening' = Without(job.fresh)
    BY <1>2 DEF ApplyFails, Rollback
  <2>2. pc' \in {"idle", "closed"} /\ Resolves(job.old) /\ uidUsers' = Resolved(job.old)
    BY <1>2, <2>1 DEF FilterInv, MatchInv, TypeOK
  <2>3. Resolves(cfg)' /\ uidUsers' = Resolved(cfg)'
    BY <2>1, <2>2 DEF Resolves, Resolved
  <2>4. ASSUME trusted', pc' = "idle" PROVE Serves(cfg, uidUsers)'
    <3>1. Serves(job.old, Resolved(job.old)) /\ rules' = rules
      BY <2>1, <2>4 DEF MatchInv
    <3>2. \A id \in DOMAIN rules : rules[id] \notin job.fresh
      BY <2>1, <2>4, FreshApart DEF FilterInv, Targets
    <3>3. /\ DOMAIN rules' = FilteredBy(cfg', uidUsers')
          /\ \A id \in DOMAIN rules' : /\ rules'[id] \in DOMAIN listening'
                                       /\ listening'[rules'[id]] = BlockedBy(cfg', uidUsers', id)
      BY <2>1, <2>2, <3>1, <3>2, ClosingServes
    <3> QED
      BY <3>3 DEF Serves, FilteredBy, BlockedBy
  <2> QED
    BY <2>2, <2>3, <2>4 DEF MatchInv
<1> QED
  BY <1>1, <1>2

\* A server that is started serves its user, and changes nothing for the others.
LEMMA StartServes ==
  ASSUME TypeOK, FilterInv, MatchInv, StartServer
  PROVE  MatchInv'
<1>1. /\ pc = "servers" /\ pc' = pc
      /\ UNCHANGED <<cfg, uidUsers, generation, servers, rules, accounts, trusted>>
  BY DEF StartServer
<1>2. PICK id \in job.todo :
        /\ FreshPort(id) \notin DOMAIN listening
        /\ listening' = [p \in DOMAIN listening \cup {FreshPort(id)} |->
                           IF p = FreshPort(id) THEN Blocked(id) ELSE listening[p]]
        /\ job' = [job EXCEPT !.todo = @ \ {id}, !.fresh = @ \cup {FreshPort(id)}]
  BY DEF StartServer
<1>3. job'.from = job.from /\ job'.old = job.old /\ job'.todo = job.todo \ {id}
  BY <1>1, <1>2 DEF FilterInv
<1>4. /\ Filtered' = Filtered /\ (\A x : FreshPort(x)' = FreshPort(x))
      /\ (\A x : Blocked(x)' = Blocked(x))
  BY <1>1, SameFilter DEF Blocked
<1>5. \A p \in DOMAIN listening : p \in DOMAIN listening' /\ listening'[p] = listening[p]
  BY <1>2
<1>6. \A x \in Filtered \ job'.todo : listening'[FreshPort(x)] = Blocked(x)
  <2>1. listening'[FreshPort(id)] = Blocked(id)
    BY <1>2
  <2>2. ASSUME NEW x \in Filtered \ job.todo PROVE listening'[FreshPort(x)] = Blocked(x)
    <3>1. FreshPort(x) \in DOMAIN listening /\ listening[FreshPort(x)] = Blocked(x)
      BY <1>1 DEF FilterInv, MatchInv
    <3> QED
      BY <1>5, <3>1
  <2> QED
    BY <1>3, <2>1, <2>2
<1>7. Resolves(cfg)' /\ uidUsers' = Resolved(cfg)' /\ (job'.from # "down" => Resolves(job.old)')
  BY <1>1, <1>3 DEF MatchInv, Resolves, Resolved
<1>8. ASSUME trusted', job'.from = "idle" PROVE Serves(job.old, Resolved(job.old))'
  <2>1. Serves(job.old, Resolved(job.old))
    BY <1>1, <1>3, <1>8 DEF MatchInv
  <2>2. Resolved(job.old)' = Resolved(job.old)
    BY <1>1, <1>3 DEF Resolved
  <2> QED
    BY <1>1, <1>3, <1>5, <2>1, <2>2 DEF Serves, FilteredBy, BlockedBy
<1>9. \A x \in Filtered' \ job'.todo : listening'[FreshPort(x)'] = Blocked(x)'
  BY <1>4, <1>6
<1> QED
  BY <1>1, <1>7, <1>8, <1>9 DEF MatchInv

\* The new configuration is tried out with the old one to go back to.
LEMMA BeginServes ==
  ASSUME TypeOK, FilterInv, MatchInv, Start \/ Reload, accounts' = accounts
  PROVE  MatchInv'
<1>1. PICK c \in Configs : Resolves(c) /\ cfg' = c /\ uidUsers' = Resolved(c)
  BY DEF Start, Reload
<1>2. /\ pc' = "servers" /\ job'.from = pc /\ job'.old = cfg /\ job'.todo = Filtered'
      /\ rules' = rules /\ listening' = listening
      /\ pc # "down" => trusted' = trusted
  BY DEF Start, Reload, BeginApply, network
<1>3. Resolves(cfg)' /\ uidUsers' = Resolved(cfg)'
  BY <1>1 DEF Resolves, Resolved
<1>4. ASSUME pc # "down" PROVE Resolves(job.old)' /\ Resolved(job.old)' = uidUsers
  <2>1. Resolves(cfg) /\ uidUsers = Resolved(cfg)
    BY <1>4 DEF MatchInv
  <2> QED
    BY <1>2, <2>1 DEF Resolves, Resolved
<1>5. ASSUME trusted', pc = "idle" PROVE Serves(job.old, Resolved(job.old))'
  <2>1. Serves(cfg, uidUsers)
    BY <1>2, <1>5 DEF MatchInv
  <2> QED
    BY <1>2, <1>4, <1>5, <2>1 DEF Serves, FilteredBy, BlockedBy
<1> QED
  BY <1>2, <1>3, <1>4, <1>5 DEF MatchInv

\* Every step keeps the configuration, the user table and the filter together.
LEMMA MatchInvHolds == ASSUME AccountsFixed PROVE Spec => []MatchInv
<1>1. Init => MatchInv
  BY DEF Init, MatchInv
<1>2. TypeOK /\ TypeOK' /\ FilterInv /\ MatchInv /\ [Next]_vars => MatchInv'
  <2> SUFFICES ASSUME TypeOK, TypeOK', FilterInv, MatchInv, [Next]_vars PROVE MatchInv'
    OBVIOUS
  <2>a. accounts' = accounts
    BY AccountsFixed DEF AccountsFixed, TypeOK
  <2>1. CASE StartServer
    BY <2>1, StartServes
  <2>2. CASE ServersFail
    BY <2>2, <2>a, FailureServes DEF ServersFail
  <2>3. CASE InstallRules
    <3>1. /\ pc = "servers" /\ pc' = "close"
          /\ UNCHANGED <<cfg, uidUsers, generation, job, listening>>
      BY <2>3 DEF InstallRules, memory
    <3>2. Resolves(cfg)' /\ uidUsers' = Resolved(cfg)' /\ (job'.from # "down" => Resolves(job.old)')
      BY <3>1, <2>a DEF MatchInv, Resolves, Resolved
    <3>3. /\ Filtered' = Filtered /\ (\A x : FreshPort(x)' = FreshPort(x))
          /\ (\A x : Blocked(x)' = Blocked(x))
      BY <3>1, SameFilter DEF Blocked
    <3> QED
      BY <3>1, <3>2, <3>3 DEF MatchInv
  <2>4. CASE InstallFails
    BY <2>4, <2>a, FailureServes DEF InstallFails
  <2>5. CASE CloseOld
    <3>1. /\ pc = "close" /\ pc' = "idle" /\ listening' = Without(servers)
          /\ UNCHANGED <<cfg, uidUsers, rules>>
      BY <2>5 DEF CloseOld
    <3>2. Resolves(cfg)' /\ uidUsers' = Resolved(cfg)'
      BY <3>1, <2>a DEF MatchInv, Resolves, Resolved
    <3>3. Serves(cfg, uidUsers) /\ \A id \in DOMAIN rules : rules[id] \notin servers
      BY <3>1, FreshServe, FreshApart
    <3>4. /\ DOMAIN rules' = FilteredBy(cfg, uidUsers)
          /\ \A id \in DOMAIN rules' : /\ rules'[id] \in DOMAIN listening'
                                       /\ listening'[rules'[id]] = BlockedBy(cfg, uidUsers, id)
      BY <3>1, <3>3, ClosingServes
    <3>5. Serves(cfg, uidUsers)'
      BY <3>1, <3>4 DEF Serves, FilteredBy, BlockedBy
    <3> QED
      BY <3>1, <3>2, <3>5 DEF MatchInv
  <2>6. CASE Start \/ Reload
    BY <2>6, <2>a, BeginServes
  <2>7. CASE ReloadRejected
    <3>1. /\ pc \in {"idle", "closed"} /\ uidUsers' = uidUsers
          /\ UNCHANGED <<pc, cfg, listening, rules, trusted>>
      BY <2>7 DEF ReloadRejected, network, MatchInv
    <3>2. Resolves(cfg)' /\ uidUsers' = Resolved(cfg)'
      BY <3>1, <2>a DEF MatchInv, Resolves, Resolved
    <3>3. Serves(cfg, uidUsers) => Serves(cfg, uidUsers)'
      BY <3>1 DEF Serves, FilteredBy, BlockedBy
    <3> QED
      BY <3>1, <3>2, <3>3 DEF MatchInv
  <2>8. CASE Close
    <3>1. pc = "idle" /\ pc' = "closed" /\ UNCHANGED <<cfg, uidUsers>>
      BY <2>8 DEF Close
    <3>2. Resolves(cfg)' /\ uidUsers' = Resolved(cfg)'
      BY <3>1, <2>a DEF MatchInv, Resolves, Resolved
    <3> QED
      BY <3>1, <3>2 DEF MatchInv
  <2>9. CASE Crash
    BY <2>9 DEF Crash, Gone, MatchInv
  <2>10. CASE ChangeAccounts \/ UNCHANGED vars
    <3>1. UNCHANGED vars
      BY <2>10, <2>a DEF ChangeAccounts, vars, memory, network
    <3>2. UNCHANGED <<pc, cfg, uidUsers, generation, job, listening, rules, trusted>>
      BY <3>1 DEF vars, memory, network
    <3>3. /\ Resolves(cfg)' = Resolves(cfg) /\ Resolved(cfg)' = Resolved(cfg)
          /\ Resolves(job.old)' = Resolves(job.old) /\ Resolved(job.old)' = Resolved(job.old)
      BY <3>2, <2>a DEF Resolves, Resolved
    <3>4. /\ Filtered' = Filtered /\ (\A x : FreshPort(x)' = FreshPort(x))
          /\ (\A x : Blocked(x)' = Blocked(x))
      BY <3>2, SameFilter DEF Blocked
    <3>5. /\ Serves(cfg, uidUsers) => Serves(cfg, uidUsers)'
          /\ Serves(job.old, Resolved(job.old)) => Serves(job.old, Resolved(job.old))'
      BY <3>2, <3>3 DEF Serves, FilteredBy, BlockedBy
    <3> QED
      BY <3>2, <3>3, <3>4, <3>5 DEF MatchInv
  <2> QED
    BY <2>1, <2>2, <2>3, <2>4, <2>5, <2>6, <2>7, <2>8, <2>9, <2>10 DEF Next, Apply
<1> QED
  BY <1>1, <1>2, AccountsFixed, FilterInvHolds, PTL DEF Spec

\* While accounts keep their UIDs, a reload puts configuration, user table, rules
\* and servers into force together or not at all, for any configurations and
\* whichever step of it fails.
THEOREM ReloadIsTransaction == ASSUME AccountsFixed PROVE Spec => []FilterMatchesConfig
<1>1. TypeOK /\ FilterInv /\ MatchInv => FilterMatchesConfig
  <2> SUFFICES ASSUME TypeOK, FilterInv, MatchInv, pc \in {"idle", "close"}, trusted,
                      NEW id \in Uids
               PROVE  Refused(id, IF id \in DOMAIN uidUsers THEN Blocked(id) ELSE {})
    BY DEF FilterMatchesConfig
  <2>1. Serves(cfg, uidUsers)
    BY FreshServe DEF MatchInv
  <2> QED
    BY <2>1 DEF Serves, FilteredBy, BlockedBy, Blocked, Refused
<1> QED
  BY <1>1, AccountsFixed, FilterInvHolds, MatchInvHolds, PTL

-----------------------------------------------------------------------------
(* The filter with Run, the handlers and the mutex around it *)

\* Nothing but the actions of WebFilter touches the filter.
LEMMA StepsAreFilterSteps == [SocketNext]_allVars => [Next]_vars
<1> SUFFICES ASSUME [SocketNext]_allVars PROVE Next \/ UNCHANGED vars
  OBVIOUS
<1>1. CASE \E socket \in Sockets : AcceptFails(socket)
  BY <1>1 DEF AcceptFails
<1>2. CASE \E c \in Lpctls \cup Indicators : Expire(c)
  BY <1>2 DEF Expire
<1>3. CASE \E c \in Lpctls : Serve(c) \/ Request(c) \/ Execute(c)
  BY <1>3 DEF Serve, Accept, Request, Execute, ExecuteOther, ExecuteReload, Next
<1>4. CASE \E i \in Indicators : ServeStatus(i)
  BY <1>4 DEF ServeStatus, Accept
<1>5. CASE ApplyStep
  BY <1>5 DEF ApplyStep, ApplyGoesOn, RunListens, RunFails, ReloadFails, ReloadDone, Next, Apply
<1>6. CASE RunStarts \/ RunCloses \/ Exit \/ Killed
  BY <1>6 DEF RunStarts, RunCloses, Exit, Killed, Next
<1>7. CASE TimerFires \/ Tick \/ Signal \/ RunStops \/ LastSave
  BY <1>7 DEF TimerFires, Tick, Signal, RunStops, LastSave
<1>8. CASE AccountsChange
  BY <1>8 DEF AccountsChange, Next
<1>9. CASE UNCHANGED allVars
  BY <1>9 DEF allVars
<1> QED
  BY <1>1, <1>2, <1>3, <1>4, <1>5, <1>6, <1>7, <1>8, <1>9 DEF SocketNext

\* Whatever connections, ticks, signals and the shutdown do around it, the filter
\* takes only the steps of WebFilter, so that its theorems hold here as well.
THEOREM SocketsKeepFilter == SocketSpec => Spec
<1>1. SocketInit => Init
  BY DEF SocketInit
<1> QED
  BY <1>1, StepsAreFilterSteps, PTL DEF SocketSpec, Spec

-----------------------------------------------------------------------------
(* The mutex *)

All == Lpctls \cup Indicators
Applying == pc \in {"servers", "close"}

\* Connections exist only while Run serves.  Whoever applies a configuration is
\* Run at its start, or else the one handler that holds the mutex, which nobody
\* reads.
LockInv ==
  /\ DOMAIN conn = All /\ DOMAIN shown = All
  /\ run \in {"off", "apply"} => accepting = {} /\ \A c \in All : conn[c] = "none"
  /\ run = "off" <=> pc = "down"
  /\ run = "apply" <=> Applying /\ job.from = "down"
  /\ Writing <=> Applying /\ run # "apply"
  /\ Writing => ~Reading
  /\ \A c, d \in Lpctls : conn[c] = "busy" /\ conn[d] = "busy" => c = d

\* A step that leaves the filter alone, and who holds the mutex.
LEMMA QuietKeepsLock ==
  ASSUME LockInv, pc' = pc, job' = job,
         DOMAIN conn' = All, DOMAIN shown' = All,
         run' = run \/ (run \notin {"off", "apply"} /\ run' \notin {"off", "apply"}),
         accepting' \subseteq accepting,
         \A c \in Lpctls : conn'[c] = "busy" <=> conn[c] = "busy",
         run \in {"off", "apply"} => \A c \in All : conn'[c] = "none",
         Writing => \A i \in Indicators : conn'[i] = "reply" => conn[i] = "reply"
  PROVE  LockInv'
<1>1. Writing' = Writing /\ Applying' = Applying
  BY DEF Writing, Applying
<1>2. Writing' => ~Reading'
  BY <1>1 DEF LockInv, Reading
<1>3. \A c, d \in Lpctls : conn'[c] = "busy" /\ conn'[d] = "busy" => c = d
  BY DEF LockInv
<1> QED
  BY <1>1, <1>2, <1>3 DEF LockInv, All

\* What it means that one handler moves on.
LEMMA Moves ==
  ASSUME LockInv, NEW c \in All, NEW stage
  PROVE  /\ DOMAIN Moved(c, stage) = All
         /\ \A d \in All : Moved(c, stage)[d] = IF d = c THEN stage ELSE conn[d]
  BY DEF Moved, LockInv

\* What it means that a writer lets in those who waited to read.
LEMMA Releases ==
  ASSUME LockInv, NEW handlers, Release(handlers)
  PROVE  /\ DOMAIN conn' = All /\ DOMAIN shown' = All
         /\ \A c \in All : /\ conn'[c] = IF handlers[c] = "rwait" THEN "reply" ELSE handlers[c]
                           /\ shown'[c] = IF handlers[c] = "rwait"
                                            THEN Status(cfg', uidUsers', Peer[c]) ELSE shown[c]
  BY DEF Release, ReadBy, LockInv

\* What a step of Apply leaves alone, and where a failed one leads.
LEMMA ApplySteps ==
  ASSUME TypeOK, FilterInv
  PROVE  /\ StartServer \/ InstallRules =>
              /\ pc = "servers" /\ pc' \in {"servers", "close"}
              /\ job'.from = job.from /\ job'.old = job.old
              /\ UNCHANGED <<cfg, uidUsers, accounts>>
         /\ ServersFail \/ InstallFails =>
              /\ pc = "servers" /\ accounts' = accounts
              /\ job.from = "down" => pc' = "down"
              /\ job.from # "down" => /\ pc' \in {"idle", "closed"} /\ Rollback
         /\ Start \/ Reload =>
              /\ pc \in {"down", "idle", "closed"} /\ pc' = "servers"
              /\ job'.from = pc /\ job'.old = cfg /\ accounts' = accounts
<1>1. ASSUME StartServer
      PROVE  /\ pc = "servers" /\ pc' = pc /\ job'.from = job.from /\ job'.old = job.old
             /\ UNCHANGED <<cfg, uidUsers, accounts>>
  <2>1. pc = "servers" /\ UNCHANGED <<pc, cfg, uidUsers, accounts>>
    BY <1>1 DEF StartServer
  <2>2. PICK id \in job.todo : job' = [job EXCEPT !.todo = @ \ {id}, !.fresh = @ \cup {FreshPort(id)}]
    BY <1>1 DEF StartServer
  <2> QED
    BY <2>1, <2>2 DEF FilterInv
<1>2. ASSUME InstallRules
      PROVE  pc = "servers" /\ pc' = "close" /\ UNCHANGED <<job, cfg, uidUsers, accounts>>
  BY <1>2 DEF InstallRules, memory
<1>3. ASSUME ServersFail \/ InstallFails
      PROVE  pc = "servers" /\ ApplyFails /\ accounts' = accounts
  BY <1>3 DEF ServersFail, InstallFails
<1>4. ASSUME Start \/ Reload
      PROVE  /\ pc \in {"down", "idle", "closed"} /\ pc' = "servers"
             /\ job'.from = pc /\ job'.old = cfg /\ accounts' = accounts
  BY <1>4 DEF Start, Reload, BeginApply
<1>5. ApplyFails /\ pc = "servers" => /\ job.from = "down" => pc' = "down"
                                      /\ job.from # "down" => pc' \in {"idle", "closed"} /\ Rollback
  BY DEF ApplyFails, Gone, TypeOK, FilterInv
<1> QED
  BY <1>1, <1>2, <1>3, <1>4, <1>5

\* Every step keeps the mutex.
LEMMA LockKept == TypeOK /\ FilterInv /\ LockInv /\ [SocketNext]_allVars => LockInv'
<1> SUFFICES ASSUME TypeOK, FilterInv, LockInv, [SocketNext]_allVars PROVE LockInv'
  OBVIOUS
<1>1. CASE \E socket \in Sockets : AcceptFails(socket)
  BY <1>1, QuietKeepsLock DEF AcceptFails, LockInv, vars, memory
<1>2. ASSUME NEW c \in All, Expire(c) PROVE LockInv'
  <2>1. /\ conn[c] \in {"read", "reply"} /\ conn' = Moved(c, "none")
        /\ DOMAIN shown' = All /\ UNCHANGED <<pc, job, run, accepting>>
    BY <1>2 DEF Expire, vars, memory, LockInv
  <2> QED
    BY <2>1, Moves, QuietKeepsLock DEF LockInv, All
<1>3. ASSUME NEW c \in Lpctls, Serve(c) \/ Request(c) PROVE LockInv'
  <2>1. /\ conn[c] \in {"none", "read"}
        /\ conn' = Moved(c, "read") \/ conn' = Moved(c, "wait")
        /\ UNCHANGED <<pc, job, run, accepting, shown>>
    BY <1>3 DEF Serve, Accept, Request, vars, memory
  <2>2. run \notin {"off", "apply"}
    BY <1>3 DEF Serve, Accept, Request, LockInv, All
  <2> QED
    BY <2>1, <2>2, Moves, QuietKeepsLock, SocketsAssumption DEF LockInv, All
<1>4. ASSUME NEW c \in Lpctls, ExecuteOther(c) PROVE LockInv'
  <2>1. /\ conn[c] = "wait" /\ ~Writing /\ Release(Moved(c, "reply"))
        /\ UNCHANGED <<pc, job, run, accepting>>
    BY <1>4 DEF ExecuteOther, MayLock, Answered, ReloadRejected, vars, memory
  <2>2. /\ DOMAIN conn' = All /\ DOMAIN shown' = All
        /\ \A d \in All : conn'[d] = "busy" <=> conn[d] = "busy"
    BY <2>1, Moves, Releases DEF All
  <2> QED
    BY <2>1, <2>2, QuietKeepsLock DEF LockInv, All
<1>5. ASSUME NEW c \in Lpctls, ExecuteReload(c) PROVE LockInv'
  <2>1. /\ conn[c] = "wait" /\ ~Writing /\ ~Reading /\ Reload /\ conn' = Moved(c, "busy")
        /\ UNCHANGED <<run, accepting, shown>>
    BY <1>5 DEF ExecuteReload, MayLock
  <2>2. run \notin {"off", "apply"} /\ pc \in {"idle", "closed"}
    BY <2>1 DEF LockInv, All, Reload
  <2>3. /\ DOMAIN conn' = All /\ \A d \in All : conn'[d] = IF d = c THEN "busy" ELSE conn[d]
    BY <2>1, Moves DEF All
  <2>4. Writing' /\ Applying' /\ job'.from # "down"
    BY <2>1, <2>2, <2>3, ApplySteps DEF Writing, Applying, All
  <2>5. ~Reading'
    BY <2>1, <2>3, SocketsAssumption DEF Reading, All
  <2>6. \A d, e \in Lpctls : conn'[d] = "busy" /\ conn'[e] = "busy" => d = e
    BY <2>1, <2>3 DEF Writing, All
  <2> QED
    BY <2>1, <2>2, <2>3, <2>4, <2>5, <2>6, ApplySteps DEF LockInv, All
<1>6. ASSUME NEW c \in Lpctls, ReloadFails(c) \/ ReloadDone(c) PROVE LockInv'
  <2>1. /\ conn[c] = "busy" /\ Release(Moved(c, "reply")) /\ UNCHANGED <<run, accepting>>
        /\ ServersFail \/ InstallFails \/ CloseOld
    BY <1>6 DEF ReloadFails, ReloadDone, Answered
  <2>2. Writing /\ Applying /\ run # "apply" /\ job.from # "down" /\ run # "off"
    BY <2>1 DEF LockInv, Writing, Applying
  <2>3. pc' \in {"idle", "closed"}
    BY <2>1, <2>2, ApplySteps DEF CloseOld
  <2>4. /\ DOMAIN conn' = All /\ DOMAIN shown' = All
        /\ \A d \in Lpctls : conn'[d] # "busy"
    BY <2>1, Moves, Releases DEF LockInv, All
  <2> QED
    BY <2>1, <2>2, <2>3, <2>4 DEF LockInv, Writing, Applying
<1>7. ASSUME NEW i \in Indicators, ServeStatus(i) PROVE LockInv'
  <2>1. /\ accepting # {} /\ conn[i] = "none" /\ UNCHANGED <<pc, job, run, accepting>>
        /\ DOMAIN shown' = All
    BY <1>7 DEF ServeStatus, Accept, vars, memory, ReadBy, LockInv
  <2>2. conn' = Moved(i, "rwait") \/ (~Writing /\ conn' = Moved(i, "reply"))
    BY <1>7 DEF ServeStatus, MayRLock
  <2> QED
    BY <2>1, <2>2, Moves, QuietKeepsLock DEF LockInv, All
<1>8. CASE ApplyGoesOn
  <2>1. /\ UNCHANGED <<run, accepting, conn, shown>> /\ Applying /\ Applying'
        /\ job'.from = job.from /\ pc # "down" /\ pc' # "down"
    BY <1>8, ApplySteps DEF ApplyGoesOn, goroutines, Applying
  <2> QED
    BY <2>1 DEF LockInv, Writing, Reading
<1>9. CASE RunListens
  <2>1. /\ run = "apply" /\ run' \in {"loop", "return"} /\ pc' = "idle"
        /\ UNCHANGED <<conn, shown>>
    BY <1>9 DEF RunListens, CloseOld
  <2> QED
    BY <2>1 DEF LockInv, Writing, Reading, Applying, All
<1>10. CASE RunFails \/ Exit \/ Killed
  <2>1. Dead /\ pc' = "down"
    BY <1>10, ApplySteps DEF RunFails, Exit, Killed, Crash, Gone, LockInv
  <2> QED
    BY <2>1 DEF Dead, LockInv, Writing, Reading, Applying, All
<1>11. CASE RunStarts
  <2>1. /\ run = "off" /\ run' = "apply" /\ pc = "down" /\ pc' = "servers" /\ job'.from = "down"
        /\ UNCHANGED <<accepting, conn, shown>>
    BY <1>11, ApplySteps DEF RunStarts, Start
  <2> QED
    BY <2>1 DEF LockInv, Writing, Reading, Applying, All
<1>12. CASE TimerFires \/ RunStops
  BY <1>12, QuietKeepsLock DEF TimerFires, RunStops, LockInv, vars, memory, All
<1>13. CASE Tick \/ LastSave
  <2>1. /\ ~Writing /\ Release(conn) /\ UNCHANGED <<pc, job, accepting>>
        /\ run \in {"wait", "stop"} /\ run' \in {"loop", "return"}
    BY <1>13 DEF Tick, LastSave, MayLock, vars, memory
  <2>2. /\ DOMAIN conn' = All /\ DOMAIN shown' = All
        /\ \A d \in All : conn'[d] = "busy" <=> conn[d] = "busy"
    BY <2>1, Releases
  <2> QED
    BY <2>1, <2>2, QuietKeepsLock DEF LockInv, All
<1>14. CASE Signal
  BY <1>14, QuietKeepsLock DEF Signal, LockInv, vars, memory, All
<1>15. CASE RunCloses
  <2>1. /\ run = "return" /\ run' = "closed" /\ pc = "idle" /\ pc' = "closed"
        /\ UNCHANGED <<accepting, conn, shown>>
    BY <1>15 DEF RunCloses, Close
  <2> QED
    BY <2>1 DEF LockInv, Writing, Reading, Applying, All
<1>16. CASE AccountsChange \/ UNCHANGED allVars
  <2>1. UNCHANGED <<pc, job, run, accepting, conn, shown>>
    BY <1>16 DEF AccountsChange, ChangeAccounts, goroutines, allVars, vars, memory
  <2> QED
    BY <2>1 DEF LockInv, Writing, Reading, Applying, All
<1> QED
  BY <1>1, <1>2, <1>3, <1>4, <1>5, <1>6, <1>7, <1>8, <1>9, <1>10, <1>11, <1>12, <1>13,
     <1>14, <1>15, <1>16 DEF SocketNext, Execute, ApplyStep, All

-----------------------------------------------------------------------------
(* What was acknowledged *)

\* While a reload tries its configuration out, the acknowledged one is the one to
\* go back to.
TrialInv ==
  Applying /\ job.from # "down" => acked = [cfg |-> job.old, users |-> Resolved(job.old)]

\* What a command other than reload leaves alone, a reload that does not resolve
\* included.
LEMMA OthersLeaveFilter ==
  ASSUME MatchInv, ReloadRejected \/ UNCHANGED vars
  PROVE  UNCHANGED <<pc, cfg, uidUsers, job>>
<1>1. ASSUME ReloadRejected PROVE UNCHANGED <<pc, cfg, uidUsers, job>>
  BY <1>1 DEF ReloadRejected, MatchInv
<1> QED
  BY <1>1 DEF vars, memory

\* Every step keeps what is in force and what was acknowledged together.
LEMMA ForceKept ==
  ASSUME TypeOK, FilterInv, MatchInv, LockInv, AcknowledgedInForce, TrialInv,
         accounts' = accounts, [SocketNext]_allVars
  PROVE  AcknowledgedInForce' /\ TrialInv'
<1>1. ASSUME UNCHANGED <<pc, cfg, uidUsers, job, acked>> PROVE AcknowledgedInForce' /\ TrialInv'
  BY <1>1 DEF AcknowledgedInForce, TrialInv, InForce, Applying, Resolved
<1>2. CASE \/ \E socket \in Sockets : AcceptFails(socket)
           \/ \E c \in Lpctls \cup Indicators : Expire(c)
           \/ \E c \in Lpctls : Serve(c) \/ Request(c)
           \/ \E i \in Indicators : ServeStatus(i)
  <2>1. UNCHANGED vars /\ acked' = acked
    BY <1>2 DEF AcceptFails, Expire, Serve, Request, ServeStatus, Accept
  <2> QED
    BY <1>1, <2>1 DEF vars, memory
<1>3. CASE TimerFires \/ Tick \/ Signal \/ RunStops \/ LastSave \/ AccountsChange \/ UNCHANGED allVars
  <2>1. UNCHANGED <<pc, memory>> /\ acked' = acked
    BY <1>3 DEF TimerFires, Tick, Signal, RunStops, LastSave, AccountsChange, ChangeAccounts,
                vars, goroutines, allVars
  <2> QED
    BY <1>1, <2>1 DEF memory
<1>4. CASE \E c \in Lpctls : ExecuteOther(c)
  BY <1>1, <1>4, OthersLeaveFilter DEF ExecuteOther
<1>5. CASE \E c \in Lpctls : ExecuteReload(c)
  <2>1. /\ pc \in {"idle", "closed"} /\ pc' = "servers" /\ job'.old = cfg /\ acked' = acked
    BY <1>5, ApplySteps DEF ExecuteReload, Reload
  <2>2. acked = InForce /\ uidUsers = Resolved(cfg)
    BY <2>1 DEF AcknowledgedInForce, MatchInv
  <2> QED
    BY <2>1, <2>2 DEF AcknowledgedInForce, TrialInv, InForce, Resolved
<1>6. CASE \E c \in Lpctls : ReloadFails(c)
  <2>1. (ServersFail \/ InstallFails) /\ acked' = acked /\ run # "apply" /\ Applying
    BY <1>6 DEF ReloadFails, LockInv, Writing
  <2>2. /\ pc' \in {"idle", "closed"} /\ Rollback
        /\ acked = [cfg |-> job.old, users |-> Resolved(job.old)] /\ Resolves(job.old)
    BY <2>1, ApplySteps DEF LockInv, TrialInv, MatchInv, Applying
  <2> QED
    BY <2>1, <2>2 DEF Rollback, AcknowledgedInForce, TrialInv, InForce, Applying
<1>7. CASE RunListens \/ \E c \in Lpctls : ReloadDone(c)
  <2>1. CloseOld /\ acked' = InForce
    BY <1>7 DEF RunListens, ReloadDone
  <2> QED
    BY <2>1 DEF CloseOld, AcknowledgedInForce, TrialInv, InForce, Applying
<1>8. CASE ApplyGoesOn
  <2>1. /\ pc = "servers" /\ pc' \in {"servers", "close"} /\ acked' = acked
        /\ job'.from = job.from /\ job'.old = job.old
    BY <1>8, ApplySteps DEF ApplyGoesOn, goroutines
  <2> QED
    BY <2>1 DEF AcknowledgedInForce, TrialInv, Applying, Resolved
<1>9. CASE RunStarts
  <2>1. pc' = "servers" /\ job'.from = "down"
    BY <1>9, ApplySteps DEF RunStarts, Start
  <2> QED
    BY <2>1 DEF AcknowledgedInForce, TrialInv
<1>10. CASE RunFails \/ Exit \/ Killed
  <2>1. pc' = "down"
    BY <1>10, ApplySteps DEF RunFails, Exit, Killed, Crash, Gone, LockInv
  <2> QED
    BY <2>1 DEF AcknowledgedInForce, TrialInv, Applying
<1>11. CASE RunCloses
  <2>1. pc = "idle" /\ pc' = "closed" /\ UNCHANGED <<cfg, uidUsers, acked>>
    BY <1>11 DEF RunCloses, Close
  <2> QED
    BY <2>1 DEF AcknowledgedInForce, TrialInv, InForce, Applying
<1> QED
  BY <1>2, <1>3, <1>4, <1>5, <1>6, <1>7, <1>8, <1>9, <1>10, <1>11
  DEF SocketNext, Execute, ApplyStep

\* A writer that lets readers in leaves an acknowledged configuration behind.
LEMMA ReleaseKeepsStatus ==
  ASSUME LockInv, StatusIsAcknowledged, AcknowledgedInForce', pc' \in {"idle", "closed"},
         NEW handlers, Release(handlers), \A i \in Indicators : handlers[i] = conn[i],
         acked' = acked \/ ~Reading
  PROVE  StatusIsAcknowledged'
<1>1. acked' = [cfg |-> cfg', users |-> uidUsers']
  BY DEF AcknowledgedInForce, InForce
<1>2. ASSUME NEW i \in Indicators, conn'[i] = "reply"
      PROVE  shown'[i] = Status(acked'.cfg, acked'.users, Peer[i])
  <2>1. /\ conn'[i] = IF conn[i] = "rwait" THEN "reply" ELSE conn[i]
        /\ shown'[i] = IF conn[i] = "rwait" THEN Status(cfg', uidUsers', Peer[i]) ELSE shown[i]
    BY Releases DEF All
  <2>2. CASE conn[i] = "rwait"
    BY <1>1, <2>1, <2>2
  <2>3. CASE conn[i] # "rwait"
    <3>1. conn[i] = "reply" /\ acked' = acked
      BY <1>2, <2>1, <2>3 DEF Reading
    <3> QED
      BY <2>1, <2>3, <3>1 DEF StatusIsAcknowledged
  <2> QED
    BY <2>2, <2>3
<1> QED
  BY <1>2 DEF StatusIsAcknowledged, Status

\* Between commands is whenever the mutex is free for a reader.
LEMMA FreeForReaders ==
  ASSUME TypeOK, LockInv, ~Writing, run \notin {"off", "apply"}
  PROVE  pc \in {"idle", "closed"}
  BY DEF LockInv, Applying, TypeOK

\* Every step keeps what readers are told.
LEMMA StatusKept ==
  ASSUME TypeOK, FilterInv, MatchInv, LockInv, StatusIsAcknowledged, AcknowledgedInForce',
         [SocketNext]_allVars
  PROVE  StatusIsAcknowledged'
<1>1. ASSUME acked' = acked,
             \A i \in Indicators : conn'[i] = "reply" => conn[i] = "reply" /\ shown'[i] = shown[i]
      PROVE  StatusIsAcknowledged'
  BY <1>1 DEF StatusIsAcknowledged, Status
<1>2. CASE \/ \E socket \in Sockets : AcceptFails(socket)
           \/ ApplyGoesOn \/ RunStarts \/ TimerFires \/ Signal \/ RunStops \/ RunCloses
           \/ AccountsChange \/ UNCHANGED allVars
  <2>1. UNCHANGED <<conn, shown, acked>>
    BY <1>2 DEF AcceptFails, ApplyGoesOn, RunStarts, TimerFires, Signal, RunStops, RunCloses,
                AccountsChange, goroutines, allVars
  <2> QED
    BY <1>1, <2>1
<1>3. ASSUME NEW c \in All, Expire(c) PROVE StatusIsAcknowledged'
  <2>1. conn' = Moved(c, "none") /\ shown' = [shown EXCEPT ![c] = "nothing"] /\ acked' = acked
    BY <1>3 DEF Expire
  <2> QED
    BY <1>1, <2>1, Moves DEF LockInv, All
<1>4. ASSUME NEW c \in Lpctls, Serve(c) \/ Request(c) \/ ExecuteReload(c) PROVE StatusIsAcknowledged'
  <2>1. /\ conn' \in {Moved(c, "read"), Moved(c, "wait"), Moved(c, "busy")}
        /\ UNCHANGED <<shown, acked>>
    BY <1>4 DEF Serve, Accept, Request, ExecuteReload
  <2> QED
    BY <1>1, <2>1, Moves, SocketsAssumption DEF LockInv, All
<1>5. ASSUME NEW c \in Lpctls, ExecuteOther(c) \/ ReloadFails(c) \/ ReloadDone(c)
      PROVE  StatusIsAcknowledged'
  <2>1. Release(Moved(c, "reply")) /\ \A i \in Indicators : Moved(c, "reply")[i] = conn[i]
    BY <1>5, Moves, SocketsAssumption DEF ExecuteOther, ReloadFails, ReloadDone, Answered, All
  <2>2. pc' \in {"idle", "closed"} /\ (acked' = acked \/ ~Reading)
    <3>1. CASE ExecuteOther(c)
      <4>1. ~Writing /\ run \notin {"off", "apply"} /\ pc' = pc /\ acked' = acked
        BY <3>1, OthersLeaveFilter DEF ExecuteOther, MayLock, LockInv, All
      <4> QED
        BY <4>1, FreeForReaders
    <3>2. CASE ReloadFails(c) \/ ReloadDone(c)
      <4>1. /\ ServersFail \/ InstallFails \/ CloseOld
            /\ Applying /\ job.from # "down" /\ ~Reading
        BY <3>2 DEF ReloadFails, ReloadDone, LockInv, Writing
      <4> QED
        BY <4>1, ApplySteps DEF CloseOld
    <3> QED
      BY <1>5, <3>1, <3>2
  <2> QED
    BY <2>1, <2>2, ReleaseKeepsStatus
<1>6. CASE Tick \/ LastSave
  <2>1. ~Writing /\ run \notin {"off", "apply"} /\ pc' = pc /\ acked' = acked /\ Release(conn)
    BY <1>6 DEF Tick, LastSave, MayLock, vars
  <2> QED
    BY <2>1, FreeForReaders, ReleaseKeepsStatus
<1>7. ASSUME NEW i \in Indicators, ServeStatus(i) PROVE StatusIsAcknowledged'
  <2>1. accepting # {} /\ acked' = acked /\ UNCHANGED <<pc, cfg, uidUsers>>
    BY <1>7 DEF ServeStatus, Accept, vars, memory
  <2>2. CASE ~MayRLock
    <3>1. conn' = Moved(i, "rwait") /\ shown' = shown
      BY <1>7, <2>2 DEF ServeStatus
    <3> QED
      BY <1>1, <2>1, <3>1, Moves DEF LockInv, All
  <2>3. CASE MayRLock
    <3>1. conn' = Moved(i, "reply") /\ ReadBy({i})
      BY <1>7, <2>3 DEF ServeStatus
    <3>2. pc' \in {"idle", "closed"}
      BY <2>1, <2>3, FreeForReaders DEF MayRLock, LockInv
    <3>3. acked' = [cfg |-> cfg', users |-> uidUsers']
      BY <3>2 DEF AcknowledgedInForce, InForce
    <3>4. ASSUME NEW j \in Indicators, conn'[j] = "reply"
          PROVE  shown'[j] = Status(acked'.cfg, acked'.users, Peer[j])
      <4>1. CASE j = i
        BY <3>1, <3>3, <4>1 DEF ReadBy, LockInv, All
      <4>2. CASE j # i
        <5>1. conn[j] = "reply" /\ shown'[j] = shown[j]
          BY <3>1, <3>4, <4>2, Moves DEF ReadBy, LockInv, All
        <5> QED
          BY <2>1, <5>1 DEF StatusIsAcknowledged
      <4> QED
        BY <4>1, <4>2
    <3> QED
      BY <3>4 DEF StatusIsAcknowledged, Status
  <2> QED
    BY <2>2, <2>3
<1>8. CASE RunListens
  <2>1. \A i \in Indicators : conn'[i] = "none"
    BY <1>8 DEF RunListens, LockInv, All
  <2> QED
    BY <2>1 DEF StatusIsAcknowledged
<1>9. CASE RunFails \/ Exit \/ Killed
  <2>1. \A i \in Indicators : conn'[i] = "none"
    BY <1>9 DEF RunFails, Exit, Killed, Dead
  <2> QED
    BY <2>1 DEF StatusIsAcknowledged
<1> QED
  BY <1>2, <1>3, <1>4, <1>5, <1>6, <1>7, <1>8, <1>9 DEF SocketNext, Execute, ApplyStep, All

\* The mutex, what is in force and what is told, together.
LEMMA AcknowledgedInv ==
  ASSUME AccountsFixed
  PROVE  SocketSpec => [](LockInv /\ AcknowledgedInForce /\ TrialInv /\ StatusIsAcknowledged)
<1> DEFINE I == LockInv /\ AcknowledgedInForce /\ TrialInv /\ StatusIsAcknowledged
<1>1. SocketInit => I
  BY DEF SocketInit, Init, LockInv, AcknowledgedInForce, TrialInv, StatusIsAcknowledged,
         Writing, Applying, All
<1>2. TypeOK /\ TypeOK' /\ FilterInv /\ MatchInv /\ I /\ [SocketNext]_allVars => I'
  <2> SUFFICES ASSUME TypeOK, TypeOK', FilterInv, MatchInv, I, [SocketNext]_allVars PROVE I'
    OBVIOUS
  <2>1. accounts' = accounts
    BY AccountsFixed DEF AccountsFixed, TypeOK
  <2>2. LockInv'
    BY LockKept
  <2>3. AcknowledgedInForce' /\ TrialInv'
    BY <2>1, ForceKept
  <2>4. StatusIsAcknowledged'
    BY <2>3, StatusKept
  <2> QED
    BY <2>2, <2>3, <2>4
<1> QED
  BY <1>1, <1>2, AccountsFixed, FilterInvHolds, MatchInvHolds, SocketsKeepFilter, PTL DEF SocketSpec

\* Whichever clients give up, are turned away or are cut off, and wherever the
\* commands of others fail: while accounts keep their UIDs, what is in force
\* between commands is what the last reload that was answered OK installed.
THEOREM AcknowledgedStaysInForce == ASSUME AccountsFixed PROVE SocketSpec => []AcknowledgedInForce
  BY AccountsFixed, AcknowledgedInv, PTL

\* While accounts keep their UIDs no indicator is told anything of a
\* configuration that is only being tried out.
THEOREM StatusStaysAcknowledged == ASSUME AccountsFixed PROVE SocketSpec => []StatusIsAcknowledged
  BY AccountsFixed, AcknowledgedInv, PTL
=============================================================================
