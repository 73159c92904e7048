------------------------------ MODULE WebFilter ------------------------------
(***************************************************************************)
(* The domain filter of internal/webfilter and the transaction of          *)
(* "lpctl reload" around it (execute in internal/daemon).  For every user  *)
(* with blocked domains the daemon runs a DNS server on a port of its own, *)
(* and rules in the kernel's nftables table redirect the user's queries    *)
(* there.  Apply starts a fresh set of servers on the ports of the next    *)
(* generation, exchanges the rules in one nft call, and closes the old     *)
(* servers; reload has exchanged configuration and user table before, and  *)
(* puts them back when Apply fails.                                        *)
(*                                                                         *)
(* The mutex excludes other commands and ticks (see ControlSocket, which   *)
(* composes this module with it), but users send queries between any two   *)
(* steps, accounts change, and the daemon may die.  nft is killed after a  *)
(* timeout, so a call that is reported as failed may have taken effect.    *)
(* A server is its port and its list of blocked domains here; what it does *)
(* with a query is the subject of DnsServer.                               *)
(***************************************************************************)
EXTENDS Integers, FiniteSets

CONSTANTS
  Users,       \* names of users
  Uids,        \* numeric user identifiers
  Domains,     \* names of domains
  Configs,     \* configurations: the blocked domains of each configured user
  Databases,   \* account databases: the UID of each existing user
  Ports        \* ports in a generation: 1000 in the code

Partial(S, T) == UNION {[D -> T] : D \in SUBSET S}
Empty == [x \in {} |-> x]

ASSUME UidsAssumption == Uids \subseteq Nat /\ IsFiniteSet(Uids)
ASSUME ConfigsAssumption == Configs \subseteq Partial(Users, SUBSET Domains) /\ Configs # {}
ASSUME DatabasesAssumption == Databases \subseteq Partial(Users, Uids)
ASSUME PortsAssumption == Ports \in Nat \ {0}

VARIABLES
  pc,          \* "down", "idle", in Apply ("servers" or "close"), "closed"
  cfg,         \* Service.cfg
  uidUsers,    \* Service.uidUsers
  generation,  \* Filter.generation, of which only the parity matters
  servers,     \* Filter.servers: their ports
  job,         \* the locals of Apply and of reload
  listening,   \* the servers whose sockets are open: port to blocked domains
  rules,       \* the kernel's table: UID to the port it is redirected to
  accounts,    \* the account database
  trusted      \* history: the table is the one the last successful nft call left

memory == <<cfg, uidUsers, generation, servers, job>>
network == <<listening, rules, trusted>>
vars == <<pc, memory, network, accounts>>

NoJob == [from |-> "none", old |-> Empty, todo |-> {}, fresh |-> {}]

-----------------------------------------------------------------------------
\* resolveUsers: every user exists, and no two have one UID.
Resolves(c) == /\ DOMAIN c \subseteq DOMAIN accounts
               /\ \A u, v \in DOMAIN c : accounts[u] = accounts[v] => u = v

Resolved(c) == [id \in {accounts[u] : u \in DOMAIN c} |->
                  CHOOSE u \in DOMAIN c : accounts[u] = id]

\* A user who is not in the configuration has the zero value, without domains.
Blocked(id) == IF uidUsers[id] \in DOMAIN cfg THEN cfg[uidUsers[id]] ELSE {}

Filtered == {id \in DOMAIN uidUsers : Blocked(id) # {}}

\* Mistake: the generations do not alternate between two ranges of ports.
FreshPort_Climbs(id) == (generation + 1) * Ports + Cardinality({other \in Filtered : other < id})

FreshPort(id) == ((generation + 1) % 2) * Ports + Cardinality({other \in Filtered : other < id})

FreshRules == [id \in Filtered |-> FreshPort(id)]

Without(ports) == [p \in DOMAIN listening \ ports |-> listening[p]]

-----------------------------------------------------------------------------
(* Apply *)

BeginApply ==
  /\ pc' = "servers"
  /\ job' = [from |-> pc, old |-> cfg, todo |-> Filtered', fresh |-> {}]

\* The process is gone, and its sockets with it; the table stays.
Gone == /\ pc' = "down"
        /\ cfg' = Empty /\ uidUsers' = Empty
        /\ generation' = 0 /\ servers' = {} /\ job' = NoJob
        /\ listening' = Empty

\* Mistake: the user table is not put back.
Rollback_KeepsUsers == cfg' = job.old /\ UNCHANGED uidUsers

\* reload: the old configuration, and the users it resolves to by now; when it
\* does not resolve, that error is ignored and the new user table stays.
Rollback == /\ cfg' = job.old
            /\ uidUsers' = IF Resolves(job.old) THEN Resolved(job.old) ELSE uidUsers

\* Mistake: a failed reload closes the old servers and keeps the new ones.
ApplyFails_ClosesOld ==
  IF job.from = "down" THEN Gone
  ELSE /\ Rollback
       /\ pc' = job.from /\ job' = NoJob
       /\ listening' = Without(servers)
       /\ UNCHANGED <<generation, servers>>

\* Apply returns an error, having closed the servers it started: at the start of
\* the daemon Run returns as well, a reload is rolled back.
ApplyFails ==
  IF job.from = "down" THEN Gone
  ELSE /\ Rollback
       /\ pc' = job.from /\ job' = NoJob
       /\ listening' = Without(job.fresh)
       /\ UNCHANGED <<generation, servers>>

\* startServer, for the filtered users in the order of their UIDs.
StartServer ==
  /\ pc = "servers" /\ Cardinality(Filtered) <= Ports
  /\ \E id \in job.todo :
       /\ \A other \in job.todo : id <= other
       /\ FreshPort(id) \notin DOMAIN listening
       /\ listening' = [p \in DOMAIN listening \cup {FreshPort(id)} |->
                          IF p = FreshPort(id) THEN Blocked(id) ELSE listening[p]]
       /\ job' = [job EXCEPT !.todo = @ \ {id}, !.fresh = @ \cup {FreshPort(id)}]
  /\ UNCHANGED <<pc, cfg, uidUsers, generation, servers, rules, accounts, trusted>>

\* Too many users, no resolver, or a port that cannot be opened.
ServersFail ==
  /\ pc = "servers" /\ job.todo # {}
  /\ ApplyFails
  /\ UNCHANGED <<rules, accounts, trusted>>

\* Mistake: the table is not destroyed first, and rules of the old one remain.
InstallRules_Adds ==
  /\ pc = "servers" /\ job.todo = {}
  /\ rules' = [id \in DOMAIN rules \cup Filtered |->
                 IF id \in Filtered THEN FreshPort(id) ELSE rules[id]]
  /\ trusted' = TRUE
  /\ pc' = "close"
  /\ UNCHANGED <<memory, listening, accounts>>

\* nft replaces the whole table in one transaction.
InstallRules ==
  /\ pc = "servers" /\ job.todo = {}
  /\ rules' = FreshRules
  /\ trusted' = TRUE
  /\ pc' = "close"
  /\ UNCHANGED <<memory, listening, accounts>>

\* nft fails, or is killed, perhaps after the kernel has taken the new table.
InstallFails ==
  /\ pc = "servers" /\ job.todo = {}
  /\ rules' \in {rules, FreshRules}
  /\ trusted' = (trusted /\ rules' = rules)
  /\ ApplyFails
  /\ UNCHANGED accounts

\* Mistake: the generation is not advanced.
CloseOld_SameGeneration ==
  /\ pc = "close"
  /\ servers' = job.fresh
  /\ listening' = Without(servers)
  /\ pc' = "idle" /\ job' = NoJob
  /\ UNCHANGED <<cfg, uidUsers, generation, rules, accounts, trusted>>

\* Mistake: the old servers are forgotten, not closed.
CloseOld_Leaks ==
  /\ pc = "close"
  /\ servers' = job.fresh
  /\ generation' = (generation + 1) % 2
  /\ pc' = "idle" /\ job' = NoJob
  /\ UNCHANGED <<cfg, uidUsers, network, accounts>>

\* The fresh servers become the filter's own, and the old ones are closed.
CloseOld ==
  /\ pc = "close"
  /\ servers' = job.fresh
  /\ generation' = (generation + 1) % 2
  /\ listening' = Without(servers)
  /\ pc' = "idle" /\ job' = NoJob
  /\ UNCHANGED <<cfg, uidUsers, rules, accounts, trusted>>

-----------------------------------------------------------------------------
(* The daemon *)

\* New and the start of Run; the table may be one that a dead daemon left.
Start ==
  /\ pc = "down"
  /\ \E c \in Configs : Resolves(c) /\ cfg' = c /\ uidUsers' = Resolved(c)
  /\ BeginApply
  /\ trusted' = (rules = Empty)
  /\ UNCHANGED <<generation, servers, listening, rules, accounts>>

\* lpctl reload with a configuration that resolves; it may have waited for the
\* mutex until Run had returned and closed the filter.
Reload ==
  /\ pc \in {"idle", "closed"}
  /\ \E c \in Configs : Resolves(c) /\ cfg' = c /\ uidUsers' = Resolved(c)
  /\ BeginApply
  /\ UNCHANGED <<generation, servers, network, accounts>>

\* lpctl reload with one that does not: the old one is resolved again.
ReloadRejected ==
  /\ pc \in {"idle", "closed"}
  /\ \E c \in Configs : ~Resolves(c)
  /\ uidUsers' = IF Resolves(cfg) THEN Resolved(cfg) ELSE uidUsers
  /\ UNCHANGED <<pc, cfg, generation, servers, job, network, accounts>>

\* Close when Run returns: the table is removed, or that fails, and the servers
\* are closed.
Close ==
  /\ pc = "idle"
  /\ pc' = "closed"
  /\ rules' \in {rules, Empty}
  /\ trusted' = (rules' = Empty)
  /\ servers' = {}
  /\ listening' = Without(servers)
  /\ UNCHANGED <<cfg, uidUsers, generation, job, accounts>>

\* The daemon's process ends, or dies, wherever it is.
Crash ==
  /\ pc # "down"
  /\ Gone
  /\ UNCHANGED <<rules, accounts, trusted>>

\* Users are added, removed or renumbered.
ChangeAccounts ==
  /\ accounts' \in Databases
  /\ UNCHANGED <<pc, memory, network>>

-----------------------------------------------------------------------------
Init ==
  /\ pc = "down"
  /\ cfg = Empty /\ uidUsers = Empty
  /\ generation = 0 /\ servers = {} /\ job = NoJob
  /\ listening = Empty /\ rules = Empty
  /\ accounts \in Databases
  /\ trusted = TRUE

Apply == StartServer \/ ServersFail \/ InstallRules \/ InstallFails \/ CloseOld

Next == Apply \/ Start \/ Reload \/ ReloadRejected \/ Close \/ Crash \/ ChangeAccounts

Spec == Init /\ [][Next]_vars

-----------------------------------------------------------------------------
(* What is promised *)

AllPorts == 0 .. 2 * Ports - 1

\* Every variable has its type; job holds the locals of Apply.
TypeOK ==
  /\ pc \in {"down", "idle", "servers", "close", "closed"}
  /\ cfg \in Configs \cup {Empty}
  /\ uidUsers \in Partial(Uids, Users)
  /\ generation \in {0, 1} /\ servers \subseteq AllPorts
  /\ job.from \in {"none", "down", "idle", "closed"} /\ job.old \in Configs \cup {Empty}
  /\ job.todo \subseteq Uids /\ job.fresh \subseteq AllPorts
  /\ listening \in Partial(AllPorts, SUBSET Domains)
  /\ rules \in Partial(Uids, AllPorts)
  /\ accounts \in Databases /\ trusted \in BOOLEAN

\* No query is redirected to a port nobody listens on, not even in the middle of
\* a reload or after one that failed.  (Unless an nft call that was reported as
\* failed took effect, or the daemon has just been started after a crash.)
RulesServed ==
  pc # "down" /\ trusted => \A id \in DOMAIN rules : rules[id] \in DOMAIN listening

\* The user's queries meet a server that refuses exactly these domains; without
\* any they are not redirected.
Refused(id, domains) ==
  IF domains = {} THEN id \notin DOMAIN rules
  ELSE /\ id \in DOMAIN rules /\ rules[id] \in DOMAIN listening
       /\ listening[rules[id]] = domains

\* As soon as the rules are exchanged, and ever after, every user is refused
\* exactly the domains the configuration in force blocks for that user, and
\* nobody else is redirected: a failed reload leaves the previous configuration,
\* user table, servers and rules together in force.  (Unless nft deceived the
\* daemon; while accounts keep the UIDs they have.)
FilterMatchesConfig ==
  pc \in {"idle", "close"} /\ trusted =>
    \A id \in Uids : Refused(id, IF id \in DOMAIN uidUsers THEN Blocked(id) ELSE {})

\* No server outlives the rules that point to it, and none is lost: between
\* commands, and after Close, the open sockets are those of the filter's servers,
\* and there is a rule for each.
NoServerLeaks ==
  pc \in {"idle", "closed"} =>
    /\ DOMAIN listening = servers
    /\ trusted => servers = {rules[id] : id \in DOMAIN rules}

\* A reload never competes with the servers it replaces for a port, unless it is
\* going to be refused for its many users.
FreshPortsFree ==
  pc = "servers" /\ Cardinality(Filtered) <= Ports => \A id \in job.todo : FreshPort(id) \notin DOMAIN listening
=============================================================================
