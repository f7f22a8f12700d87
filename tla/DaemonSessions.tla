--------------------------- MODULE DaemonSessions ---------------------------
(***************************************************************************)
(* wroidd: the single-threaded serve loop of ipc.rs, the session records   *)
(* of lib.rs, and the worker processes and broker threads of process.rs,   *)
(* with the clients that connect, wait and give up, workers that exit at   *)
(* any moment, a daemon that is told to stop or is killed, and the next    *)
(* daemon that takes over the socket.                                      *)
(*                                                                         *)
(* A request is dispatched in one step: nothing else of the daemon runs    *)
(* meanwhile.  What does interleave is between the steps of the loop: the  *)
(* reap, the join of a broker thread, the dispatch, and the response.      *)
(***************************************************************************)
EXTENDS Naturals, Sequences, FiniteSets

CONSTANTS
  Clients,      \* processes that talk to the daemon, one request at a time
  SessionIds    \* session ids the clients choose

VARIABLES
  phase,        \* where the serve loop is: see Phases
  stop,         \* the STOP flag set by SIGINT and SIGTERM
  sessions,     \* DaemonSessionManager.sessions
  children,     \* the keys of ManagedProcesses.children
  stopRequested,\* the children whose ManagedProcess.stop_requested is set
  worker,       \* the worker process of every id
  signalled,    \* ids whose worker has a SIGTERM to act on
  broker,       \* the bridge broker thread of every id
  serving,      \* the id being joined, or the client being answered
  backlog,      \* accepted or queued connections, oldest first
  client        \* what every client is doing

vars == <<phase, stop, sessions, children, stopRequested, worker, signalled,
          broker, serving, backlog, client>>

Nobody == [kind |-> "nobody"]

\* loop: top of serve_until;  join: in join_broker of a reaped child;
\* accept: in accept;  reply: in write_response;  drop: in the destructors
Phases == {"down", "loop", "join", "accept", "reply", "drop"}

States == {"Absent", "Preparing", "Running", "Stopping", "Stopped", "Failed"}

Sessions == [state : States, pid : BOOLEAN]

NoSession == [state |-> "Absent", pid |-> FALSE]

\* "other" stands for ping, state and list, and for every request refused before
\* dispatch: unauthorized peer, incomplete or malformed message, wrong version.
Requests ==
  [kind : {"prepare", "launch", "start", "stop"}, id : SessionIds] \cup [kind : {"other"}]

Exited(s) == worker[s] \in {"success", "failure", "term"}

-----------------------------------------------------------------------------
(* Session records *)

SetSession(s, st, pid) == sessions' = [sessions EXCEPT ![s] = [state |-> st, pid |-> pid]]

Stoppable == {"Preparing", "Running", "Failed"}

\* Mutant of ExitState: the broker's result is ignored.
ExitState_IgnoresBroker(s) ==
  IF worker[s] = "success" \/ (s \in stopRequested /\ worker[s] = "term")
  THEN "Stopped" ELSE "Failed"

\* combine_reaped_detail, and the state mark_exited derives from it
ExitState(s) ==
  IF /\ broker[s] = "ok"
     /\ worker[s] = "success" \/ (s \in stopRequested /\ worker[s] = "term")
  THEN "Stopped" ELSE "Failed"

-----------------------------------------------------------------------------
(* Clients *)

\* request_with_peer: connect, send one request, wait for the answer
Connect(c, r) ==
  /\ phase \notin {"down", "drop"}
  /\ client[c] = "idle"
  \* a new session gets a fresh id, not the id of a worker whose daemon is gone
  /\ r.kind = "launch" => worker[r.id] = "none" \/ r.id \in children
  /\ client' = [client EXCEPT ![c] = "waiting"]
  /\ backlog' = Append(backlog, [client |-> c, request |-> r])
  /\ UNCHANGED <<phase, stop, sessions, children, stopRequested, worker, signalled,
                 broker, serving>>

\* the 3 s read timeout, a closed Hub window, a killed client
GiveUp(c) ==
  /\ client[c] = "waiting"
  /\ client' = [client EXCEPT ![c] = "gone"]
  /\ UNCHANGED <<phase, stop, sessions, children, stopRequested, worker, signalled,
                 broker, serving, backlog>>

-----------------------------------------------------------------------------
(* The end of a daemon *)

\* serve_until returns and the server is dropped: the socket disappears, the
\* listener closes, the records go, and every child is sent SIGTERM
DropServer ==
  /\ phase' = "drop"
  /\ serving' = Nobody
  /\ backlog' = <<>>
  /\ client' = [c \in Clients |-> "idle"]
  /\ sessions' = [s \in SessionIds |-> NoSession]
  /\ signalled' = signalled \cup {s \in children : worker[s] = "alive"}

\* SIGINT or SIGTERM to the daemon
Signal ==
  /\ phase \notin {"down", "drop"}
  /\ ~stop
  /\ stop' = TRUE
  /\ UNCHANGED <<phase, sessions, children, stopRequested, worker, signalled, broker,
                 serving, backlog, client>>

LeaveLoop ==
  /\ phase = "loop"
  /\ stop
  /\ DropServer
  /\ UNCHANGED <<stop, children, stopRequested, worker, broker>>

\* wait_for_terminated_child gives a child one second
KillChild(s) ==
  /\ phase = "drop"
  /\ s \in children
  /\ worker[s] = "alive"
  /\ worker' = [worker EXCEPT ![s] = "failure"]
  /\ signalled' = signalled \ {s}
  /\ UNCHANGED <<phase, stop, sessions, children, stopRequested, broker, serving,
                 backlog, client>>

\* the child is waited for, then its broker thread is joined
DropChild(s) ==
  /\ phase = "drop"
  /\ s \in children
  /\ Exited(s)
  /\ broker[s] \in {"ok", "err"}
  /\ children' = children \ {s}
  /\ stopRequested' = stopRequested \ {s}
  /\ worker' = [worker EXCEPT ![s] = "none"]
  /\ broker' = [broker EXCEPT ![s] = "none"]
  /\ UNCHANGED <<phase, stop, sessions, signalled, serving, backlog, client>>

\* the process ends; its lease on the lock file goes with it, and so do
\* broker threads nobody joined
ReleaseLease ==
  /\ phase = "drop"
  /\ children = {}
  /\ phase' = "down"
  /\ broker' = [s \in SessionIds |-> "none"]
  /\ UNCHANGED <<stop, sessions, children, stopRequested, worker, signalled, serving,
                 backlog, client>>

\* Mutant of Crash: the worker is not given a parent-death signal.
Crash_NoDeathSignal ==
  /\ phase # "down"
  /\ phase' = "down"
  /\ serving' = Nobody
  /\ backlog' = <<>>
  /\ client' = [c \in Clients |-> "idle"]
  /\ sessions' = [s \in SessionIds |-> NoSession]
  /\ children' = {}
  /\ stopRequested' = {}
  /\ broker' = [s \in SessionIds |-> "none"]
  /\ worker' = [s \in SessionIds |-> IF Exited(s) THEN "none" ELSE worker[s]]
  /\ UNCHANGED <<stop, signalled>>

\* the daemon is killed: PR_SET_PDEATHSIG sends its workers a SIGTERM
Crash ==
  /\ phase # "down"
  /\ phase' = "down"
  /\ serving' = Nobody
  /\ backlog' = <<>>
  /\ client' = [c \in Clients |-> "idle"]
  /\ sessions' = [s \in SessionIds |-> NoSession]
  /\ children' = {}
  /\ stopRequested' = {}
  /\ broker' = [s \in SessionIds |-> "none"]
  /\ worker' = [s \in SessionIds |-> IF Exited(s) THEN "none" ELSE worker[s]]
  /\ signalled' = {s \in SessionIds : worker[s] = "alive"}
  /\ UNCHANGED stop

\* bind: possible once no process holds the lock file; a stale socket is removed
Bind ==
  /\ phase = "down"
  /\ phase' = "loop"
  /\ stop' = FALSE
  /\ UNCHANGED <<sessions, children, stopRequested, worker, signalled, broker, serving,
                 backlog, client>>

-----------------------------------------------------------------------------
(* The serve loop *)

\* reap: a child that has exited is taken and its broker thread is joined
ReapExited(s) ==
  /\ phase = "loop"
  /\ ~stop
  /\ s \in children
  /\ Exited(s)
  /\ phase' = "join"
  /\ serving' = [kind |-> "join", id |-> s]
  /\ UNCHANGED <<stop, sessions, children, stopRequested, worker, signalled, broker,
                 backlog, client>>

\* mark_exited; were it to fail, the daemon would end
JoinBroker ==
  LET s == serving.id
  IN  /\ phase = "join"
      /\ broker[s] \in {"ok", "err"}
      /\ children' = children \ {s}
      /\ stopRequested' = stopRequested \ {s}
      /\ worker' = [worker EXCEPT ![s] = "none"]
      /\ broker' = [broker EXCEPT ![s] = "none"]
      /\ IF sessions[s].state \in {"Running", "Stopping"}
         THEN /\ SetSession(s, ExitState(s), FALSE)
              /\ phase' = "accept"
              /\ serving' = Nobody
              /\ UNCHANGED <<signalled, backlog, client>>
         ELSE DropServer
      /\ UNCHANGED stop

NothingToReap ==
  /\ phase = "loop"
  /\ ~stop
  /\ \A s \in children : ~Exited(s)
  /\ phase' = "accept"
  /\ UNCHANGED <<stop, sessions, children, stopRequested, worker, signalled, broker,
                 serving, backlog, client>>

\* accept would block: 50 ms later the loop starts over
NoConnection ==
  /\ phase = "accept"
  /\ backlog = <<>>
  /\ phase' = "loop"
  /\ UNCHANGED <<stop, sessions, children, stopRequested, worker, signalled, broker,
                 serving, backlog, client>>

NoEffect == UNCHANGED <<sessions, children, stopRequested, worker, signalled, broker>>

\* prepare_profile_v2; the profile may be refused, and an id is used once
DispatchPrepare(s) ==
  \/ NoEffect
  \/ /\ sessions[s].state = "Absent"
     /\ SetSession(s, "Preparing", FALSE)
     /\ UNCHANGED <<children, stopRequested, worker, signalled, broker>>

\* prepare, launch, then mark_failed or mark_running.  The broker thread is
\* started before the game log is opened: an error in between leaves the thread
\* to notice by itself that its channel has closed.
DispatchLaunch(s) ==
  \/ NoEffect
  \/ /\ sessions[s].state = "Absent"
     /\ SetSession(s, "Failed", FALSE)
     /\ \/ UNCHANGED broker
        \/ /\ children = {}
           /\ broker' = [broker EXCEPT ![s] = "running"]
     /\ UNCHANGED <<children, stopRequested, worker, signalled>>
  \/ /\ sessions[s].state = "Absent"
     /\ children = {}
     /\ SetSession(s, "Running", TRUE)
     /\ children' = children \cup {s}
     /\ worker' = [worker EXCEPT ![s] = "alive"]
     /\ broker' = [broker EXCEPT ![s] = "running"]
     /\ UNCHANGED <<stopRequested, signalled>>

\* Mutant of DispatchStart: the state of the record is not looked at.
DispatchStart_AnyState(s) ==
  IF sessions[s].state # "Absent"
  THEN /\ SetSession(s, "Running", sessions[s].pid)
       /\ UNCHANGED <<children, stopRequested, worker, signalled, broker>>
  ELSE NoEffect

\* start: a prepared session becomes Running without a process
DispatchStart(s) ==
  IF sessions[s].state = "Preparing"
  THEN /\ SetSession(s, "Running", sessions[s].pid)
       /\ UNCHANGED <<children, stopRequested, worker, signalled, broker>>
  ELSE NoEffect

\* Mutant of DispatchStop: the record is stopped whether or not a child runs.
DispatchStop_RecordOnly(s) ==
  IF sessions[s].state \in Stoppable
  THEN /\ SetSession(s, "Stopped", sessions[s].pid)
       /\ UNCHANGED <<children, stopRequested, worker, signalled, broker>>
  ELSE NoEffect

\* request_stop and mark_stopping for a session with a child (a second Stop
\* signals again and is then refused); the synchronous stop for one without
DispatchStop(s) ==
  IF s \in children
  THEN /\ signalled' = IF worker[s] = "alive" THEN signalled \cup {s} ELSE signalled
       /\ stopRequested' = stopRequested \cup {s}
       /\ IF sessions[s].state = "Running" THEN SetSession(s, "Stopping", sessions[s].pid)
                                           ELSE UNCHANGED sessions
       /\ UNCHANGED <<children, worker, broker>>
  ELSE IF sessions[s].state \in Stoppable
  THEN /\ SetSession(s, "Stopped", sessions[s].pid)
       /\ UNCHANGED <<children, stopRequested, worker, signalled, broker>>
  ELSE NoEffect

\* serve_once from accept to write_response
Dispatch ==
  LET r == Head(backlog).request
  IN  /\ phase = "accept"
      /\ backlog # <<>>
      /\ \/ r.kind = "other" /\ NoEffect
         \/ r.kind = "prepare" /\ DispatchPrepare(r.id)
         \/ r.kind = "launch" /\ DispatchLaunch(r.id)
         \/ r.kind = "start" /\ DispatchStart(r.id)
         \/ r.kind = "stop" /\ DispatchStop(r.id)
      /\ serving' = [kind |-> "reply", client |-> Head(backlog).client]
      /\ backlog' = Tail(backlog)
      /\ phase' = "reply"
      /\ UNCHANGED <<stop, client>>

\* write_response: an error here ends serve_until
Reply ==
  LET c == serving.client
  IN  /\ phase = "reply"
      /\ IF client[c] = "waiting"
         THEN /\ client' = [client EXCEPT ![c] = "idle"]
              /\ serving' = Nobody
              /\ phase' = "loop"
              /\ UNCHANGED <<sessions, signalled, backlog>>
         ELSE DropServer
      /\ UNCHANGED <<stop, children, stopRequested, worker, broker>>

-----------------------------------------------------------------------------
(* Workers and broker threads *)

\* a worker ends by itself, with an error, or by the default action of SIGTERM
WorkerExits(s, how) ==
  /\ worker[s] = "alive"
  /\ worker' = [worker EXCEPT ![s] = IF s \in children THEN how ELSE "none"]
  /\ signalled' = signalled \ {s}
  /\ UNCHANGED <<phase, stop, sessions, children, stopRequested, broker, serving,
                 backlog, client>>

\* serve_bridge_broker returns: after Finish, on an error, or at end of file
BrokerEnds(s, how) ==
  /\ broker[s] = "running"
  /\ broker' = [broker EXCEPT ![s] = IF s \in children THEN how ELSE "none"]
  /\ UNCHANGED <<phase, stop, sessions, children, stopRequested, worker, signalled,
                 serving, backlog, client>>

-----------------------------------------------------------------------------
Init ==
  /\ phase = "loop"
  /\ stop = FALSE
  /\ sessions = [s \in SessionIds |-> NoSession]
  /\ children = {}
  /\ stopRequested = {}
  /\ worker = [s \in SessionIds |-> "none"]
  /\ signalled = {}
  /\ broker = [s \in SessionIds |-> "none"]
  /\ serving = Nobody
  /\ backlog = <<>>
  /\ client = [c \in Clients |-> "idle"]

\* the steps of the daemon's own thread
DaemonStep ==
  \/ LeaveLoop \/ ReleaseLease \/ JoinBroker \/ NothingToReap \/ NoConnection
  \/ Dispatch \/ Reply
  \/ \E s \in SessionIds : ReapExited(s) \/ KillChild(s) \/ DropChild(s)

EnvironmentStep ==
  \/ \E c \in Clients, r \in Requests : Connect(c, r)
  \/ \E c \in Clients : GiveUp(c)
  \/ \E s \in SessionIds, how \in {"success", "failure", "term"} : WorkerExits(s, how)
  \/ \E s \in SessionIds, how \in {"ok", "err"} : BrokerEnds(s, how)
  \/ Signal \/ Crash \/ Bind

Next == DaemonStep \/ EnvironmentStep

Spec == Init /\ [][Next]_vars

\* The daemon's thread keeps running, and a broker thread returns once the
\* worker's end of its channel is closed.
DaemonFairness ==
  /\ WF_vars(DaemonStep)
  /\ \A s \in SessionIds :
       WF_vars(worker[s] # "alive" /\ \E how \in {"ok", "err"} : BrokerEnds(s, how))

LiveSpec == Spec /\ DaemonFairness

-----------------------------------------------------------------------------
(* Properties *)

\* The variables range over the types of the structures they stand for; only a
\* managed child carries a stop request.
TypeOK ==
  /\ phase \in Phases
  /\ stop \in BOOLEAN
  /\ sessions \in [SessionIds -> Sessions]
  /\ children \in SUBSET SessionIds
  /\ stopRequested \in SUBSET children
  /\ worker \in [SessionIds -> {"none", "alive", "success", "failure", "term"}]
  /\ signalled \in SUBSET SessionIds
  /\ broker \in [SessionIds -> {"none", "running", "ok", "err"}]
  /\ serving \in {Nobody} \cup [kind : {"join"}, id : SessionIds]
                          \cup [kind : {"reply"}, client : Clients]
  /\ backlog \in Seq([client : Clients, request : Requests])
  /\ client \in [Clients -> {"idle", "waiting", "gone"}]

\* At most one managed worker exists, across the shutdown of a daemon and the
\* start of the next one too ("Only one managed game process may be preparing,
\* running, or stopping at once").
OneManagedWorker == Cardinality(children) <= 1

\* While the daemon serves, a record that names a process belongs to a managed
\* child and is Running or Stopping, and a managed child has such a record: so
\* the reap never meets a record it cannot move, and no session is reported
\* stopped or failed while its game still runs.
RecordsMatchChildren ==
  phase \notin {"down", "drop"} =>
    \A s \in SessionIds :
      /\ s \in children <=> sessions[s].pid
      /\ s \in children => sessions[s].state \in {"Running", "Stopping"}
      /\ sessions[s].state = "Stopping" => s \in stopRequested

\* A live worker is always somebody's: managed by the daemon, or told to end
\* because its daemon is gone.
NoAbandonedWorker ==
  \A s \in SessionIds : worker[s] = "alive" => s \in children \/ s \in signalled

\* A failed broker (the helper could not restore the container's configuration)
\* always shows as a failed session, also when the game itself ended well.
BrokerFailureIsReported ==
  [][\A s \in SessionIds :
       s \in children /\ broker[s] = "err" /\ sessions'[s].state # sessions[s].state
         => sessions'[s].state \in {"Stopping", "Failed", "Absent"}]_vars

\* A client that waits is answered or learns that the daemon is gone: the join of
\* a broker thread delays it, but nothing blocks the loop for good.
EveryRequestEnds == \A c \in Clients : client[c] = "waiting" ~> client[c] # "waiting"

\* The records and children follow the lifecycle the daemon promises.
Lifecycle == INSTANCE SessionLifecycle WITH
  state <- [s \in SessionIds |-> sessions[s].state],
  managed <- children

LifecycleRefined == Lifecycle!LifecycleSpec

=============================================================================
