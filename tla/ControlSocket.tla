---------------------------- MODULE ControlSocket ----------------------------
(***************************************************************************)
(* The goroutines of the daemon and the mutex between them: Run with its   *)
(* timer and its end, a handler for every connection of lpctl, which       *)
(* executes one command (and reloads the filter: WebFilter), and one for   *)
(* every connection of an indicator, which reads a status.  Service.mu is  *)
(* a sync.RWMutex: a writer that waits keeps new readers out, and a writer *)
(* that leaves lets in the readers that waited.                            *)
(*                                                                         *)
(* A client is no more than its connection: it may be slow, send nothing,  *)
(* read nothing, or have given up after its own 5 s, while its command     *)
(* waits for the mutex and is executed all the same.  The handlers' own    *)
(* deadlines bound every read and write, never the wait for the mutex.     *)
(***************************************************************************)
EXTENDS WebFilter

CONSTANTS
  Lpctls,      \* connections to the administrative socket
  Indicators,  \* connections to the status socket
  Peer,        \* the UID behind each of the latter
  Slots        \* handlers a socket may have: 16 in the code

ASSUME SocketsAssumption == /\ Peer \in [Indicators -> Uids]
                            /\ Lpctls \cap Indicators = {}
                            /\ Slots \in Nat \ {0}

VARIABLES
  run,         \* Run: "off", "apply", "loop", "wait", "stop", "return" or "closed"
  stop,        \* has ctx been cancelled by a signal?
  accepting,   \* the sockets whose serve loop runs
  conn,        \* the handler of each connection
  shown,       \* the status an indicator is being sent
  acked        \* history: the configuration and the user table of the last start
               \* or of the last reload that was answered OK

goroutines == <<run, stop, accepting, conn, shown, acked>>
allVars == <<vars, goroutines>>

Sockets == {Lpctls, Indicators}
Served(socket) == {c \in socket : conn[c] # "none"}

-----------------------------------------------------------------------------
(* Service.mu *)

WritersWait == run \in {"wait", "stop"} \/ \E c \in Lpctls : conn[c] = "wait"
Writing == \E c \in Lpctls : conn[c] = "busy"
Reading == \E i \in Indicators : conn[i] = "reply"

MayLock == ~Writing /\ ~Reading

\* Mistake: the status is read without the lock.
MayRLock_Always == TRUE

MayRLock == ~Writing /\ ~WritersWait

Moved(c, stage) == [conn EXCEPT ![c] = stage]

\* What a peer is told: nothing when its UID is not configured, else what the
\* configuration says of the user with that UID.
Status(config, users, uid) ==
  IF uid \notin DOMAIN users THEN "unconfigured"
  ELSE <<users[uid], IF users[uid] \in DOMAIN config THEN config[users[uid]] ELSE {}>>

\* The readers that start reading in a step find what the step leaves.
ReadBy(readers) ==
  shown' = [c \in DOMAIN shown |-> IF c \in readers THEN Status(cfg', uidUsers', Peer[c])
                                   ELSE shown[c]]

\* A writer releases the mutex, which lets in the readers it kept out.
Release(handlers) ==
  /\ conn' = [c \in DOMAIN conn |-> IF handlers[c] = "rwait" THEN "reply" ELSE handlers[c]]
  /\ ReadBy({c \in DOMAIN conn : handlers[c] = "rwait"})

-----------------------------------------------------------------------------
(* serve, serveStatus: 16 slots each *)

\* Without a free slot the connection is closed at once.
Accept(c, socket) ==
  /\ socket \in accepting /\ c \in socket
  /\ conn[c] = "none" /\ Cardinality(Served(socket)) < Slots
  /\ UNCHANGED <<vars, run, stop, accepting, acked>>

\* Accept returns an error, for want of file descriptors for example, and the
\* loop ends for good.
AcceptFails(socket) ==
  /\ socket \in accepting
  /\ accepting' = accepting \ {socket}
  /\ UNCHANGED <<vars, run, stop, conn, shown, acked>>

\* Mistake: no deadline; a client that sends or reads nothing is waited for.
Expire_Never(c) == FALSE /\ UNCHANGED allVars

\* Mistake: the deadline is one for reading only.
Expire_ReadOnly(c) ==
  /\ conn[c] = "read"
  /\ conn' = Moved(c, "none")
  /\ shown' = [shown EXCEPT ![c] = "nothing"]
  /\ UNCHANGED <<vars, run, stop, accepting, acked>>

\* The deadline ends a read or a write; a peer that hangs up or may not ask does
\* the same, and so does an answer that has been read.
Expire(c) ==
  /\ conn[c] \in {"read", "reply"}
  /\ conn' = Moved(c, "none")
  /\ shown' = [shown EXCEPT ![c] = "nothing"]
  /\ UNCHANGED <<vars, run, stop, accepting, acked>>

-----------------------------------------------------------------------------
(* handle and execute *)

\* The handler waits for a request.
Serve(c) ==
  /\ Accept(c, Lpctls)
  /\ conn' = Moved(c, "read")
  /\ UNCHANGED shown

\* One arrives in time: the handler calls Lock.
Request(c) ==
  /\ conn[c] = "read"
  /\ conn' = Moved(c, "wait")
  /\ UNCHANGED <<vars, run, stop, accepting, shown, acked>>

Answered(c) == Release(Moved(c, "reply"))

\* Every command but reload, and a reload that does not load or resolve.
ExecuteOther(c) ==
  /\ conn[c] = "wait" /\ MayLock
  /\ ReloadRejected \/ UNCHANGED vars
  /\ Answered(c)
  /\ UNCHANGED <<run, stop, accepting, acked>>

ExecuteReload(c) ==
  /\ conn[c] = "wait" /\ MayLock
  /\ Reload
  /\ conn' = Moved(c, "busy")
  /\ UNCHANGED <<run, stop, accepting, shown, acked>>

InForce == [cfg |-> cfg, users |-> uidUsers]

\* Mistake: the error is returned with the mutex locked.
ReloadFails_Locked(c) ==
  /\ conn[c] = "busy" /\ (ServersFail \/ InstallFails)
  /\ UNCHANGED goroutines

\* Apply fails: rolled back, and answered with the error.
ReloadFails(c) ==
  /\ conn[c] = "busy" /\ (ServersFail \/ InstallFails)
  /\ Answered(c)
  /\ UNCHANGED <<run, stop, accepting, acked>>

\* Apply succeeds: answered OK.
ReloadDone(c) ==
  /\ conn[c] = "busy" /\ CloseOld
  /\ acked' = InForce
  /\ Answered(c)
  /\ UNCHANGED <<run, stop, accepting>>

\* The steps of Apply in between, for Run or for a handler.
ApplyGoesOn == (StartServer \/ InstallRules) /\ UNCHANGED goroutines

-----------------------------------------------------------------------------
(* handleStatus *)

\* The peer is known, and the handler calls RLock.  It encodes the answer into
\* the connection with the lock still held.
ServeStatus(i) ==
  /\ Accept(i, Indicators)
  /\ IF MayRLock THEN conn' = Moved(i, "reply") /\ ReadBy({i})
                  ELSE conn' = Moved(i, "rwait") /\ UNCHANGED shown

-----------------------------------------------------------------------------
(* Run *)

RunStarts ==
  /\ run = "off" /\ Start
  /\ run' = "apply"
  /\ UNCHANGED <<stop, accepting, conn, shown, acked>>

\* The first Apply has worked; either both sockets are listened to, or Run
\* returns.
RunListens ==
  /\ run = "apply" /\ CloseOld
  /\ \/ run' = "loop" /\ accepting' = IF stop THEN {} ELSE Sockets
     \/ run' = "return" /\ UNCHANGED accepting
  /\ acked' = InForce
  /\ UNCHANGED <<stop, conn, shown>>

\* The timer fires, and tick calls Lock.
TimerFires ==
  /\ run = "loop" /\ run' = "wait"
  /\ UNCHANGED <<vars, stop, accepting, conn, shown, acked>>

\* tick, as one step.
Tick ==
  /\ run = "wait" /\ MayLock
  /\ run' = "loop"
  /\ UNCHANGED <<vars, stop, accepting, acked>>
  /\ Release(conn)

\* SIGTERM cancels ctx, and the listeners are closed.
Signal ==
  /\ run # "off" /\ ~stop
  /\ stop' = TRUE /\ accepting' = {}
  /\ UNCHANGED <<vars, run, conn, shown, acked>>

RunStops ==
  /\ run = "loop" /\ stop
  /\ run' = "stop"
  /\ UNCHANGED <<vars, stop, accepting, conn, shown, acked>>

\* The last save, with the mutex, which is released before Run returns.
LastSave ==
  /\ run = "stop" /\ MayLock
  /\ run' = "return"
  /\ UNCHANGED <<vars, stop, accepting, acked>>
  /\ Release(conn)

\* The deferred calls, filter.Close the last of them.  It waits for a reload
\* that holds the filter's own mutex.
RunCloses ==
  /\ run = "return" /\ Close
  /\ run' = "closed"
  /\ UNCHANGED <<stop, accepting, conn, shown, acked>>

\* The process ends, with every goroutine where it is.
Dead ==
  /\ run' = "off" /\ stop' = FALSE /\ accepting' = {}
  /\ conn' = [c \in Lpctls \cup Indicators |-> "none"]
  /\ shown' = [c \in Lpctls \cup Indicators |-> "nothing"]
  /\ acked' = [cfg |-> Empty, users |-> Empty]

\* A first Apply that fails, or the end of main.
RunFails == run = "apply" /\ (ServersFail \/ InstallFails) /\ Dead
Exit == run = "closed" /\ Crash /\ Dead
Killed == run # "off" /\ Crash /\ Dead

AccountsChange == ChangeAccounts /\ UNCHANGED goroutines

-----------------------------------------------------------------------------
SocketInit ==
  /\ Init
  /\ run = "off" /\ stop = FALSE /\ accepting = {}
  /\ conn = [c \in Lpctls \cup Indicators |-> "none"]
  /\ shown = [c \in Lpctls \cup Indicators |-> "nothing"]
  /\ acked = [cfg |-> Empty, users |-> Empty]

ApplyStep == ApplyGoesOn \/ RunListens \/ RunFails
             \/ \E c \in Lpctls : ReloadFails(c) \/ ReloadDone(c)

Execute(c) == ExecuteOther(c) \/ ExecuteReload(c)

SocketNext ==
  \/ \E socket \in Sockets : AcceptFails(socket)
  \/ \E c \in Lpctls \cup Indicators : Expire(c)
  \/ \E c \in Lpctls : Serve(c) \/ Request(c) \/ Execute(c)
  \/ \E i \in Indicators : ServeStatus(i)
  \/ ApplyStep
  \/ RunStarts \/ TimerFires \/ Tick
  \/ Signal \/ RunStops \/ LastSave \/ RunCloses \/ Exit \/ Killed
  \/ AccountsChange

SocketSpec == SocketInit /\ [][SocketNext]_allVars

\* Time passes, so deadlines expire and the timer fires; who holds the mutex
\* runs on (nft and loginctl are killed after their timeouts); sync.Mutex lets
\* no goroutine wait forever, and select sees that ctx is done once the timer
\* has been reset.  Nothing is assumed of clients, signals or the accept loops.
SocketFairness ==
  /\ \A c \in Lpctls \cup Indicators : WF_allVars(Expire(c))
  /\ \A c \in Lpctls : SF_allVars(Execute(c))
  /\ WF_allVars(ApplyStep)
  /\ WF_allVars(TimerFires) /\ SF_allVars(Tick)
  /\ SF_allVars(RunStops) /\ WF_allVars(LastSave)
  /\ WF_allVars(RunCloses) /\ WF_allVars(Exit)

SocketFairSpec == SocketSpec /\ SocketFairness

-----------------------------------------------------------------------------
(* What is promised *)

\* Between commands the configuration in force and the users the daemon monitors
\* are those of the last reload that was answered OK, whichever clients gave up,
\* were turned away or were cut off, and wherever the others failed.  (While
\* accounts keep the UIDs they have.)
AcknowledgedInForce == pc \in {"idle", "closed"} => acked = InForce

\* An indicator is told what an acknowledged configuration says of its own user,
\* or that there is nothing to say, never what a reload tries out and takes back.
StatusIsAcknowledged ==
  \A i \in Indicators : conn[i] = "reply" =>
    shown[i] = Status(acked.cfg, acked.users, Peer[i])

\* Whatever its client does, a handler ends and gives its slot back: 16 silent
\* clients cannot keep lpctl or the indicators out for good.
HandlersEnd ==
  \A c \in Lpctls \cup Indicators : conn[c] # "none" ~> conn[c] = "none"

\* Enforcement goes on: a tick gets the mutex although status handlers hold it
\* while they write to clients that do not read, commands keep coming, and the
\* accept loops may be gone.
TicksGoOn == run = "wait" ~> run # "wait"

\* After a signal the process ends, whatever connections and reloads there are.
StopEnds == stop ~> run = "off"
=============================================================================
