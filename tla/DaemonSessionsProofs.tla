------------------------ MODULE DaemonSessionsProofs ------------------------
(* For any clients and session ids: the daemon's records and its children match,
   at most one worker is managed, no worker is abandoned, and the daemon
   implements SessionLifecycle. *)
EXTENDS DaemonSessions, TLAPS, FiniteSetTheorems

\* What TypeOK and RecordsMatchChildren need to be inductive: where the loop is
\* tells whom it serves and which records are left.
LoopOK ==
  /\ phase = "join" => /\ serving \in [kind : {"join"}, id : SessionIds]
                       /\ serving.id \in children
                       /\ Exited(serving.id)
  /\ phase = "reply" => serving \in [kind : {"reply"}, client : Clients]
  /\ phase = "down" => children = {}
  /\ phase \in {"down", "drop"} => sessions = [s \in SessionIds |-> NoSession]

\* At most one child, without counting.
OneChild == \A s, t \in children : s = t

DaemonInv ==
  /\ TypeOK
  /\ LoopOK
  /\ OneChild
  /\ RecordsMatchChildren
  /\ NoAbandonedWorker

\* A fresh daemon satisfies the invariant.
LEMMA InitInv == Init => DaemonInv
<1> SUFFICES ASSUME Init PROVE DaemonInv
  OBVIOUS
<1> USE DEF Init
<1>1. TypeOK
  <2>1. sessions \in [SessionIds -> Sessions]
    BY DEF NoSession, Sessions, States
  <2>2. worker \in [SessionIds -> {"none", "alive", "success", "failure", "term"}]
    OBVIOUS
  <2>3. broker \in [SessionIds -> {"none", "running", "ok", "err"}]
    OBVIOUS
  <2>4. client \in [Clients -> {"idle", "waiting", "gone"}]
    OBVIOUS
  <2>5. backlog \in Seq([client : Clients, request : Requests])
    OBVIOUS
  <2> QED
    BY <2>1, <2>2, <2>3, <2>4, <2>5, Zenon DEF TypeOK, Phases
<1>2. LoopOK /\ OneChild /\ NoAbandonedWorker
  BY DEF LoopOK, OneChild, NoAbandonedWorker
<1>3. RecordsMatchChildren
  BY DEF RecordsMatchChildren, NoSession
<1> QED
  BY <1>1, <1>2, <1>3 DEF DaemonInv

\* The two ends of a non-empty queue.
LEMMA HeadTail ==
  ASSUME NEW S, NEW q \in Seq(S), q # <<>>
  PROVE  Head(q) \in S /\ Tail(q) \in Seq(S)
OBVIOUS

\* A dispatched request leaves well-typed records and processes.
LEMMA DispatchTypes ==
  ASSUME TypeOK,
         NoEffect \/ \E s \in SessionIds :
           DispatchPrepare(s) \/ DispatchLaunch(s) \/ DispatchStart(s) \/ DispatchStop(s)
  PROVE  /\ sessions' \in [SessionIds -> Sessions]
         /\ children' \in SUBSET SessionIds
         /\ stopRequested' \in SUBSET children'
         /\ worker' \in [SessionIds -> {"none", "alive", "success", "failure", "term"}]
         /\ signalled' \in SUBSET SessionIds
         /\ broker' \in [SessionIds -> {"none", "running", "ok", "err"}]
<1> DEFINE Goal == /\ sessions' \in [SessionIds -> Sessions]
                   /\ children' \in SUBSET SessionIds
                   /\ stopRequested' \in SUBSET children'
                   /\ worker' \in [SessionIds -> {"none", "alive", "success", "failure", "term"}]
                   /\ signalled' \in SUBSET SessionIds
                   /\ broker' \in [SessionIds -> {"none", "running", "ok", "err"}]
<1>1. CASE NoEffect
  BY <1>1 DEF NoEffect, TypeOK
<1>2. ASSUME NEW s \in SessionIds PROVE sessions[s].pid \in BOOLEAN
  BY DEF TypeOK, Sessions
<1>3. ASSUME NEW s \in SessionIds, NEW st \in States, NEW pid \in BOOLEAN, SetSession(s, st, pid)
      PROVE  sessions' \in [SessionIds -> Sessions]
  <2>1. [state |-> st, pid |-> pid] \in Sessions
    BY DEF Sessions
  <2> QED
    BY <1>3, <2>1 DEF SetSession, TypeOK
<1>4. "Preparing" \in States /\ "Running" \in States /\ "Stopping" \in States
      /\ "Stopped" \in States /\ "Failed" \in States
  BY DEF States
<1>5. ASSUME NEW s \in SessionIds, DispatchPrepare(s) PROVE Goal
  BY <1>1, <1>3, <1>4, <1>5 DEF DispatchPrepare, TypeOK
<1>6. ASSUME NEW s \in SessionIds, DispatchLaunch(s) PROVE Goal
  <2>1. CASE NoEffect
    BY <1>1, <2>1
  <2>2. CASE SetSession(s, "Failed", FALSE)
    BY <1>3, <1>4, <1>6, <2>2 DEF DispatchLaunch, NoEffect, TypeOK
  <2>3. CASE SetSession(s, "Running", TRUE)
    BY <1>3, <1>4, <1>6, <2>3 DEF DispatchLaunch, NoEffect, TypeOK
  <2> QED
    BY <1>6, <2>1, <2>2, <2>3 DEF DispatchLaunch
<1>7. ASSUME NEW s \in SessionIds, DispatchStart(s) PROVE Goal
  BY <1>1, <1>2, <1>3, <1>4, <1>7 DEF DispatchStart, TypeOK
<1>8. ASSUME NEW s \in SessionIds, DispatchStop(s) PROVE Goal
  BY <1>1, <1>2, <1>3, <1>4, <1>8 DEF DispatchStop, TypeOK
<1> QED
  BY <1>1, <1>5, <1>6, <1>7, <1>8

\* The types are kept by every step.
LEMMA TypeStep == DaemonInv /\ [Next]_vars => TypeOK'
<1> SUFFICES ASSUME DaemonInv, [Next]_vars PROVE TypeOK'
  OBVIOUS
<1> USE DEF DaemonInv, TypeOK
<1>1. ASSUME NEW c \in Clients, NEW r \in Requests, Connect(c, r) PROVE TypeOK'
  BY <1>1 DEF Connect
<1>2. ASSUME NEW c \in Clients, GiveUp(c) PROVE TypeOK'
  BY <1>2 DEF GiveUp
<1>3. DropServer => /\ phase' \in Phases
                    /\ serving' = Nobody
                    /\ sessions' \in [SessionIds -> Sessions]
                    /\ backlog' \in Seq([client : Clients, request : Requests])
                    /\ client' \in [Clients -> {"idle", "waiting", "gone"}]
                    /\ signalled' \in SUBSET SessionIds
  BY DEF DropServer, Phases, Sessions, NoSession, States
<1>4. CASE Signal
  BY <1>4 DEF Signal
<1>5. CASE LeaveLoop
  BY <1>3, <1>5 DEF LeaveLoop
<1>6. ASSUME NEW s \in SessionIds, KillChild(s) PROVE TypeOK'
  BY <1>6 DEF KillChild
<1>7. ASSUME NEW s \in SessionIds, DropChild(s) PROVE TypeOK'
  BY <1>7 DEF DropChild
<1>8. CASE ReleaseLease
  BY <1>8 DEF ReleaseLease, Phases
<1>9. CASE Crash
  BY <1>9 DEF Crash, Phases, Sessions, NoSession, States
<1>10. CASE Bind
  BY <1>10 DEF Bind, Phases
<1>11. ASSUME NEW s \in SessionIds, ReapExited(s) PROVE TypeOK'
  BY <1>11 DEF ReapExited, Phases
<1>12. CASE JoinBroker
  <2>1. serving.id \in SessionIds /\ ExitState(serving.id) \in States
    BY <1>12 DEF JoinBroker, LoopOK, ExitState, States
  <2>2. /\ children' \in SUBSET SessionIds
        /\ stopRequested' \in SUBSET children'
        /\ worker' \in [SessionIds -> {"none", "alive", "success", "failure", "term"}]
        /\ broker' \in [SessionIds -> {"none", "running", "ok", "err"}]
        /\ stop' \in BOOLEAN
    BY <1>12, <2>1 DEF JoinBroker
  <2>3. CASE sessions[serving.id].state \in {"Running", "Stopping"}
    <3>1. [state |-> ExitState(serving.id), pid |-> FALSE] \in Sessions
      BY <2>1 DEF Sessions
    <3>2. sessions' = [sessions EXCEPT ![serving.id] = [state |-> ExitState(serving.id), pid |-> FALSE]]
      BY <1>12, <2>3 DEF JoinBroker, SetSession
    <3>3. sessions' \in [SessionIds -> Sessions]
      BY <2>1, <3>1, <3>2
    <3> QED
      BY <1>12, <2>2, <2>3, <3>3 DEF JoinBroker, Phases
  <2>4. CASE ~(sessions[serving.id].state \in {"Running", "Stopping"})
    <3>1. DropServer
      BY <1>12, <2>4 DEF JoinBroker
    <3> QED
      BY <1>3, <2>2, <3>1
  <2> QED
    BY <2>3, <2>4
<1>13. CASE NothingToReap \/ NoConnection
  BY <1>13 DEF NothingToReap, NoConnection, Phases
<1>14. CASE Dispatch
  <2> DEFINE e == Head(backlog)
  <2>1. e \in [client : Clients, request : Requests] /\ Tail(backlog) \in Seq([client : Clients, request : Requests])
    BY <1>14, HeadTail DEF Dispatch
  <2>2. e.client \in Clients /\ (e.request.kind # "other" => e.request.id \in SessionIds)
    BY <2>1 DEF Requests
  <2>3. /\ phase' \in Phases
        /\ stop' \in BOOLEAN
        /\ serving' \in [kind : {"reply"}, client : Clients]
        /\ backlog' \in Seq([client : Clients, request : Requests])
        /\ client' \in [Clients -> {"idle", "waiting", "gone"}]
    BY <1>14, <2>1, <2>2 DEF Dispatch, Phases
  <2>4. \/ NoEffect
        \/ \E s \in SessionIds : DispatchPrepare(s) \/ DispatchLaunch(s) \/ DispatchStart(s) \/ DispatchStop(s)
    BY <1>14, <2>2 DEF Dispatch
  <2>5. /\ sessions' \in [SessionIds -> Sessions]
        /\ children' \in SUBSET SessionIds
        /\ stopRequested' \in SUBSET children'
        /\ worker' \in [SessionIds -> {"none", "alive", "success", "failure", "term"}]
        /\ signalled' \in SUBSET SessionIds
        /\ broker' \in [SessionIds -> {"none", "running", "ok", "err"}]
    BY <2>4, DispatchTypes
  <2> QED
    BY <2>3, <2>5
<1>15. CASE Reply
  BY <1>3, <1>15 DEF Reply, LoopOK, Phases
<1>16. ASSUME NEW s \in SessionIds, NEW how \in {"success", "failure", "term"}, WorkerExits(s, how)
       PROVE  TypeOK'
  BY <1>16 DEF WorkerExits
<1>17. ASSUME NEW s \in SessionIds, NEW how \in {"ok", "err"}, BrokerEnds(s, how)
       PROVE  TypeOK'
  BY <1>17 DEF BrokerEnds
<1>18. CASE UNCHANGED vars
  BY <1>18 DEF vars
<1> QED
  BY <1>1, <1>2, <1>4, <1>5, <1>6, <1>7, <1>8, <1>9, <1>10, <1>11, <1>12, <1>13, <1>14, <1>15,
     <1>16, <1>17, <1>18 DEF Next, DaemonStep, EnvironmentStep

\* The rest of the invariant, given the types.
Rest == LoopOK /\ OneChild /\ RecordsMatchChildren /\ NoAbandonedWorker

\* A dispatched request keeps records and children together.
LEMMA DispatchRest ==
  ASSUME DaemonInv, phase = "accept",
         NoEffect \/ \E s \in SessionIds :
           DispatchPrepare(s) \/ DispatchLaunch(s) \/ DispatchStart(s) \/ DispatchStop(s),
         phase' = "reply", serving' \in [kind : {"reply"}, client : Clients]
  PROVE  Rest'
<1> USE DEF DaemonInv, Rest
<1>1. LoopOK'
  BY DEF LoopOK
<1>2. CASE NoEffect
  BY <1>1, <1>2 DEF NoEffect, OneChild, RecordsMatchChildren, NoAbandonedWorker
<1>3. ASSUME NEW s \in SessionIds, NEW st, NEW pid \in BOOLEAN, SetSession(s, st, pid)
      PROVE  /\ sessions'[s].state = st
             /\ sessions'[s].pid <=> pid
             /\ \A t \in SessionIds \ {s} : sessions'[t] = sessions[t]
  BY <1>3 DEF SetSession, TypeOK
<1>8. ASSUME NEW s \in SessionIds PROVE sessions[s].pid \in BOOLEAN
  BY DEF TypeOK, Sessions
<1>4. ASSUME NEW s \in SessionIds, DispatchPrepare(s) PROVE Rest'
  <2>1. CASE SetSession(s, "Preparing", FALSE) /\ sessions[s].state = "Absent"
             /\ UNCHANGED <<children, stopRequested, worker, signalled>>
    <3>1. sessions'[s].state = "Preparing" /\ ~sessions'[s].pid
      BY <1>3, <2>1
    <3>2. \A t \in SessionIds \ {s} : sessions'[t] = sessions[t]
      BY <1>3, <2>1
    <3> QED
      BY <1>1, <2>1, <3>1, <3>2 DEF OneChild, RecordsMatchChildren, NoAbandonedWorker, TypeOK
  <2> QED
    BY <1>2, <1>4, <2>1 DEF DispatchPrepare
<1>5. ASSUME NEW s \in SessionIds, DispatchLaunch(s) PROVE Rest'
  <2>1. CASE SetSession(s, "Failed", FALSE) /\ sessions[s].state = "Absent"
             /\ UNCHANGED <<children, stopRequested, worker, signalled>>
    <3>1. sessions'[s].state = "Failed" /\ ~sessions'[s].pid
      BY <1>3, <2>1
    <3>2. \A t \in SessionIds \ {s} : sessions'[t] = sessions[t]
      BY <1>3, <2>1
    <3> QED
      BY <1>1, <2>1, <3>1, <3>2 DEF OneChild, RecordsMatchChildren, NoAbandonedWorker, TypeOK
  <2>2. CASE /\ SetSession(s, "Running", TRUE) /\ sessions[s].state = "Absent"
             /\ children = {} /\ children' = children \cup {s}
             /\ worker' = [worker EXCEPT ![s] = "alive"]
             /\ UNCHANGED <<stopRequested, signalled>>
    <3>1. sessions'[s].state = "Running" /\ sessions'[s].pid
      BY <1>3, <2>2
    <3>2. \A t \in SessionIds \ {s} : sessions'[t] = sessions[t]
      BY <1>3, <2>2
    <3>3. \A t \in SessionIds \ {s} : worker'[t] = worker[t]
      BY <2>2 DEF TypeOK
    <3> QED
      BY <1>1, <2>2, <3>1, <3>2, <3>3 DEF OneChild, RecordsMatchChildren, NoAbandonedWorker, TypeOK
  <2> QED
    BY <1>2, <1>5, <2>1, <2>2 DEF DispatchLaunch
<1>6. ASSUME NEW s \in SessionIds, DispatchStart(s) PROVE Rest'
  BY <1>1, <1>2, <1>3, <1>8, <1>6
     DEF DispatchStart, OneChild, RecordsMatchChildren, NoAbandonedWorker, TypeOK
<1>7. ASSUME NEW s \in SessionIds, DispatchStop(s) PROVE Rest'
  <2>1. CASE s \in children
    BY <1>1, <1>3, <1>8, <1>7, <2>1
       DEF DispatchStop, OneChild, RecordsMatchChildren, NoAbandonedWorker, TypeOK
  <2>2. CASE s \notin children
    BY <1>1, <1>2, <1>3, <1>8, <1>7, <2>2
       DEF DispatchStop, Stoppable, OneChild, RecordsMatchChildren, NoAbandonedWorker, TypeOK
  <2> QED
    BY <2>1, <2>2
<1> QED
  BY <1>2, <1>4, <1>5, <1>6, <1>7

\* Every step of the daemon or its environment keeps the rest of the invariant.
LEMMA RestStep == DaemonInv /\ [Next]_vars => Rest'
<1> SUFFICES ASSUME DaemonInv, [Next]_vars PROVE Rest'
  OBVIOUS
<1> USE DEF DaemonInv, Rest
<1>1. ASSUME NEW c \in Clients, NEW r \in Requests, Connect(c, r) PROVE Rest'
  BY <1>1 DEF Connect, LoopOK, OneChild, RecordsMatchChildren, NoAbandonedWorker, Exited
<1>2. ASSUME NEW c \in Clients, GiveUp(c) PROVE Rest'
  BY <1>2 DEF GiveUp, LoopOK, OneChild, RecordsMatchChildren, NoAbandonedWorker, Exited
<1>3. ASSUME DropServer, children' \in SUBSET children, \A s \in SessionIds :
              worker'[s] = "alive" => worker[s] = "alive" /\ (s \in children => s \in children')
      PROVE  Rest'
  BY <1>3 DEF DropServer, LoopOK, OneChild, RecordsMatchChildren, NoAbandonedWorker
<1>4. CASE Signal
  BY <1>4 DEF Signal, LoopOK, OneChild, RecordsMatchChildren, NoAbandonedWorker, Exited
<1>5. CASE LeaveLoop
  BY <1>3, <1>5 DEF LeaveLoop
<1>6. ASSUME NEW s \in SessionIds, KillChild(s) PROVE Rest'
  BY <1>6 DEF KillChild, LoopOK, OneChild, RecordsMatchChildren, NoAbandonedWorker, TypeOK
<1>7. ASSUME NEW s \in SessionIds, DropChild(s) PROVE Rest'
  BY <1>7 DEF DropChild, LoopOK, OneChild, RecordsMatchChildren, NoAbandonedWorker, TypeOK, Exited
<1>8. CASE ReleaseLease
  BY <1>8 DEF ReleaseLease, LoopOK, OneChild, RecordsMatchChildren, NoAbandonedWorker
<1>9. CASE Crash
  BY <1>9 DEF Crash, LoopOK, OneChild, RecordsMatchChildren, NoAbandonedWorker
<1>10. CASE Bind
  <2>1. children = {} /\ \A s \in SessionIds : sessions[s] = NoSession
    BY <1>10 DEF Bind, LoopOK
  <2> QED
    BY <1>10, <2>1 DEF Bind, LoopOK, OneChild, RecordsMatchChildren, NoAbandonedWorker, NoSession
<1>11. ASSUME NEW s \in SessionIds, ReapExited(s) PROVE Rest'
  BY <1>11 DEF ReapExited, LoopOK, OneChild, RecordsMatchChildren, NoAbandonedWorker, Exited
<1>12. CASE JoinBroker
  <2> DEFINE s == serving.id
  <2>1. s \in SessionIds /\ s \in children /\ Exited(s) /\ sessions[s].state \in {"Running", "Stopping"}
    BY <1>12 DEF JoinBroker, LoopOK, RecordsMatchChildren
  <2>2. /\ sessions' = [sessions EXCEPT ![s] = [state |-> ExitState(s), pid |-> FALSE]]
        /\ phase' = "accept"
        /\ signalled' = signalled
        /\ children' = children \ {s}
        /\ stopRequested' = stopRequested \ {s}
        /\ worker' = [worker EXCEPT ![s] = "none"]
    BY <1>12, <2>1 DEF JoinBroker, SetSession
  <2>3. ExitState(s) \in {"Stopped", "Failed"}
    BY DEF ExitState
  <2> HIDE DEF s
  <2>4. sessions'[s].state \in {"Stopped", "Failed"} /\ ~sessions'[s].pid
    BY <2>1, <2>2, <2>3 DEF TypeOK
  <2>5. \A t \in SessionIds \ {s} : sessions'[t] = sessions[t]
    BY <2>1, <2>2 DEF TypeOK
  <2>6. LoopOK' /\ OneChild'
    BY <2>1, <2>2 DEF LoopOK, OneChild
  <2>7. RecordsMatchChildren'
    BY <1>12, <2>1, <2>2, <2>4, <2>5 DEF JoinBroker, RecordsMatchChildren
  <2>8. NoAbandonedWorker'
    BY <2>1, <2>2 DEF NoAbandonedWorker, TypeOK
  <2> QED
    BY <2>6, <2>7, <2>8
<1>13. CASE NothingToReap \/ NoConnection
  BY <1>13 DEF NothingToReap, NoConnection, LoopOK, OneChild, RecordsMatchChildren, NoAbandonedWorker
<1>14. CASE Dispatch
  <2>1. Head(backlog) \in [client : Clients, request : Requests]
    BY <1>14, HeadTail DEF Dispatch, TypeOK
  <2>2. Head(backlog).client \in Clients
        /\ (Head(backlog).request.kind # "other" => Head(backlog).request.id \in SessionIds)
    BY <2>1 DEF Requests
  <2>3. /\ NoEffect \/ \E s \in SessionIds :
             DispatchPrepare(s) \/ DispatchLaunch(s) \/ DispatchStart(s) \/ DispatchStop(s)
        /\ serving' \in [kind : {"reply"}, client : Clients]
        /\ phase = "accept" /\ phase' = "reply"
    BY <1>14, <2>2 DEF Dispatch
  <2> QED
    BY <2>3, DispatchRest
<1>15. CASE Reply
  <2>1. CASE client[serving.client] = "waiting"
    BY <1>15, <2>1 DEF Reply, LoopOK, OneChild, RecordsMatchChildren, NoAbandonedWorker
  <2>2. CASE client[serving.client] # "waiting"
    BY <1>3, <1>15, <2>2 DEF Reply
  <2> QED
    BY <2>1, <2>2
<1>16. ASSUME NEW s \in SessionIds, NEW how \in {"success", "failure", "term"}, WorkerExits(s, how)
       PROVE  Rest'
  BY <1>16 DEF WorkerExits, LoopOK, OneChild, RecordsMatchChildren, NoAbandonedWorker, TypeOK, Exited
<1>17. ASSUME NEW s \in SessionIds, NEW how \in {"ok", "err"}, BrokerEnds(s, how)
       PROVE  Rest'
  BY <1>17 DEF BrokerEnds, LoopOK, OneChild, RecordsMatchChildren, NoAbandonedWorker, Exited
<1>18. CASE UNCHANGED vars
  BY <1>18 DEF vars, LoopOK, OneChild, RecordsMatchChildren, NoAbandonedWorker, Exited
<1> QED
  BY <1>1, <1>2, <1>4, <1>5, <1>6, <1>7, <1>8, <1>9, <1>10, <1>11, <1>12, <1>13, <1>14, <1>15,
     <1>16, <1>17, <1>18 DEF Next, DaemonStep, EnvironmentStep

\* The inductive invariant of the daemon.
THEOREM DaemonInvariant == Spec => []DaemonInv
<1>1. DaemonInv /\ [Next]_vars => DaemonInv'
  BY TypeStep, RestStep DEF DaemonInv, Rest
<1> QED
  BY <1>1, InitInv, PTL DEF Spec

\* The daemon's state keeps its types for any number of clients and ids.
THEOREM DaemonTypes == Spec => []TypeOK
BY DaemonInvariant, PTL DEF DaemonInv

\* The reap always finds a record it can move, and a session is only reported
\* stopped or failed once its worker is gone.
THEOREM RecordsAgree == Spec => []RecordsMatchChildren
BY DaemonInvariant, PTL DEF DaemonInv

\* A live worker is managed by the daemon or has been told to end.
THEOREM WorkersAreOwned == Spec => []NoAbandonedWorker
BY DaemonInvariant, PTL DEF DaemonInv

\* At most one worker is managed at a time.
THEOREM SingleWorker == Spec => []OneManagedWorker
<1>1. DaemonInv => OneManagedWorker
  <2> SUFFICES ASSUME DaemonInv PROVE OneManagedWorker
    OBVIOUS
  <2>1. CASE children = {}
    BY <2>1, FS_EmptySet DEF OneManagedWorker
  <2>2. CASE children # {}
    <3>1. PICK s \in children : TRUE
      BY <2>2
    <3>2. children = {s}
      BY <3>1 DEF DaemonInv, OneChild
    <3> QED
      BY <3>2, FS_Singleton DEF OneManagedWorker
  <2> QED
    BY <2>1, <2>2
<1> QED
  BY <1>1, DaemonInvariant, PTL

\* The state of every session, as SessionLifecycle sees it.
AbstractState == [s \in SessionIds |-> sessions[s].state]

\* Setting a record sets the state SessionLifecycle sees.
LEMMA SetAbstract ==
  ASSUME TypeOK, NEW s \in SessionIds, NEW st, NEW pid, SetSession(s, st, pid)
  PROVE  AbstractState' = [AbstractState EXCEPT ![s] = st]
BY DEF SetSession, AbstractState, TypeOK

\* A dispatched request is a step of the lifecycle, or none.
LEMMA DispatchRefines ==
  ASSUME DaemonInv, phase = "accept",
         NoEffect \/ \E s \in SessionIds :
           DispatchPrepare(s) \/ DispatchLaunch(s) \/ DispatchStart(s) \/ DispatchStop(s)
  PROVE  [Lifecycle!LifecycleNext]_(Lifecycle!lifecycleVars)
<1> USE DEF DaemonInv
<1>1. CASE UNCHANGED <<sessions, children>>
  BY <1>1 DEF Lifecycle!lifecycleVars
<1>2. ASSUME NEW s \in SessionIds PROVE AbstractState[s] = sessions[s].state
  BY DEF AbstractState
<1>3. ASSUME NEW s \in SessionIds, DispatchPrepare(s)
      PROVE  Lifecycle!Prepare(s) \/ UNCHANGED <<sessions, children>>
  BY <1>2, <1>3, SetAbstract
     DEF DispatchPrepare, NoEffect, Lifecycle!Prepare, Lifecycle!SetState, AbstractState
<1>4. ASSUME NEW s \in SessionIds, DispatchLaunch(s)
      PROVE  Lifecycle!Spawn(s) \/ Lifecycle!SpawnFails(s) \/ UNCHANGED <<sessions, children>>
  BY <1>2, <1>4, SetAbstract
     DEF DispatchLaunch, NoEffect, Lifecycle!Spawn, Lifecycle!SpawnFails, Lifecycle!SetState, AbstractState
<1>5. ASSUME NEW s \in SessionIds, DispatchStart(s)
      PROVE  Lifecycle!StartPrepared(s) \/ UNCHANGED <<sessions, children>>
  BY <1>2, <1>5, SetAbstract
     DEF DispatchStart, NoEffect, Lifecycle!StartPrepared, Lifecycle!SetState, AbstractState
<1>6. ASSUME NEW s \in SessionIds, DispatchStop(s)
      PROVE  Lifecycle!BeginStop(s) \/ Lifecycle!StopUnmanaged(s) \/ UNCHANGED <<sessions, children>>
  BY <1>2, <1>6, SetAbstract
     DEF DispatchStop, Stoppable, NoEffect, Lifecycle!BeginStop, Lifecycle!StopUnmanaged,
         Lifecycle!SetState, AbstractState
<1> QED
  BY <1>1, <1>3, <1>4, <1>5, <1>6 DEF NoEffect, Lifecycle!LifecycleNext

\* Every step of the daemon is a step of the lifecycle, or none.
LEMMA StepRefines ==
  DaemonInv /\ [Next]_vars => [Lifecycle!LifecycleNext]_(Lifecycle!lifecycleVars)
<1> SUFFICES ASSUME DaemonInv, [Next]_vars
             PROVE  [Lifecycle!LifecycleNext]_(Lifecycle!lifecycleVars)
  OBVIOUS
<1> USE DEF DaemonInv
<1>1. CASE UNCHANGED <<sessions, children>>
  BY <1>1 DEF Lifecycle!lifecycleVars
<1>2. ASSUME sessions' = [s \in SessionIds |-> NoSession], children' \in SUBSET children
      PROVE  Lifecycle!Forget
  <2>1. \A s \in SessionIds : sessions'[s].state = "Absent"
    BY <1>2 DEF NoSession
  <2> QED
    BY <1>2, <2>1 DEF Lifecycle!Forget
<1>3. CASE LeaveLoop
  BY <1>2, <1>3 DEF LeaveLoop, DropServer, Lifecycle!LifecycleNext
<1>4. ASSUME NEW s \in SessionIds, DropChild(s) PROVE Lifecycle!Forget
  BY <1>2, <1>4 DEF DropChild, LoopOK
<1>5. CASE Crash
  BY <1>2, <1>5 DEF Crash, Lifecycle!LifecycleNext
<1>6. CASE JoinBroker
  <2> DEFINE s == serving.id
  <2>1. s \in SessionIds /\ s \in children /\ sessions[s].state \in {"Running", "Stopping"}
    BY <1>6 DEF JoinBroker, LoopOK, RecordsMatchChildren
  <2>2. SetSession(s, ExitState(s), FALSE) /\ children' = children \ {s}
    BY <1>6, <2>1 DEF JoinBroker
  <2>3. ExitState(s) \in {"Stopped", "Failed"}
    BY DEF ExitState
  <2> HIDE DEF s
  <2>4. AbstractState' = [AbstractState EXCEPT ![s] = ExitState(s)]
    BY <2>1, <2>2, SetAbstract
  <2>5. Lifecycle!ProcessEnds(s)
    BY <2>1, <2>2, <2>3, <2>4 DEF Lifecycle!ProcessEnds, Lifecycle!SetState, AbstractState
  <2> QED
    BY <2>1, <2>5 DEF Lifecycle!LifecycleNext
<1>7. CASE Dispatch
  <2>1. Head(backlog) \in [client : Clients, request : Requests]
    BY <1>7, HeadTail DEF Dispatch, TypeOK
  <2>2. Head(backlog).request.kind # "other" => Head(backlog).request.id \in SessionIds
    BY <2>1 DEF Requests
  <2>3. /\ NoEffect \/ \E s \in SessionIds :
             DispatchPrepare(s) \/ DispatchLaunch(s) \/ DispatchStart(s) \/ DispatchStop(s)
        /\ phase = "accept"
    BY <1>7, <2>2 DEF Dispatch
  <2> QED
    BY <2>3, DispatchRefines
<1>8. CASE Reply
  BY <1>1, <1>2, <1>8 DEF Reply, DropServer, Lifecycle!LifecycleNext
<1>9. CASE ReleaseLease \/ NothingToReap \/ NoConnection \/ Signal \/ Bind \/ UNCHANGED vars
  BY <1>1, <1>9 DEF ReleaseLease, NothingToReap, NoConnection, Signal, Bind, vars
<1>10. CASE \E s \in SessionIds : ReapExited(s) \/ KillChild(s)
  BY <1>1, <1>10 DEF ReapExited, KillChild
<1>11. CASE \E c \in Clients : GiveUp(c) \/ \E r \in Requests : Connect(c, r)
  BY <1>1, <1>11 DEF GiveUp, Connect
<1>12. CASE \E s \in SessionIds : \/ \E how \in {"success", "failure", "term"} : WorkerExits(s, how)
                                  \/ \E how \in {"ok", "err"} : BrokerEnds(s, how)
  BY <1>1, <1>12 DEF WorkerExits, BrokerEnds
<1> QED
  BY <1>3, <1>4, <1>5, <1>6, <1>7, <1>8, <1>9, <1>10, <1>11, <1>12
     DEF Next, DaemonStep, EnvironmentStep, Lifecycle!LifecycleNext

\* The daemon implements the lifecycle it promises: every session moves along
\* it, and only the end of its process takes a managed session out of Running
\* or Stopping.
THEOREM DaemonImplementsLifecycle == Spec => LifecycleRefined
<1>1. Init => Lifecycle!LifecycleInit
  BY DEF Init, NoSession, Lifecycle!LifecycleInit
<1> QED
  BY <1>1, StepRefines, DaemonInvariant, PTL DEF Spec, LifecycleRefined, Lifecycle!LifecycleSpec

\* What becomes of another session leaves this one as it is.
LEMMA SetReports ==
  ASSUME TypeOK, NEW s \in SessionIds, NEW k \in SessionIds, NEW st, NEW pid,
         SetSession(k, st, pid), sessions'[s].state # sessions[s].state
  PROVE  s = k /\ sessions'[s].state = st
BY DEF TypeOK, SetSession

\* No request gives a session with a failed broker another end.
LEMMA DispatchReports ==
  ASSUME DaemonInv, phase = "accept", NEW s \in SessionIds, s \in children,
         NEW k \in SessionIds,
         DispatchPrepare(k) \/ DispatchLaunch(k) \/ DispatchStart(k) \/ DispatchStop(k),
         sessions'[s].state # sessions[s].state
  PROVE  sessions'[s].state = "Stopping"
<1>1. TypeOK /\ RecordsMatchChildren
  BY DEF DaemonInv
<1>2. sessions[s].state \in {"Running", "Stopping"}
  BY <1>1 DEF RecordsMatchChildren
<1>3. ~NoEffect
  BY DEF NoEffect
<1>4. CASE DispatchPrepare(k)
  BY <1>1, <1>2, <1>3, <1>4, SetReports DEF DispatchPrepare
<1>5. CASE DispatchLaunch(k)
  BY <1>1, <1>2, <1>3, <1>5, SetReports DEF DispatchLaunch
<1>6. CASE DispatchStart(k)
  BY <1>1, <1>2, <1>3, <1>6, SetReports DEF DispatchStart
<1>7. CASE DispatchStop(k)
  BY <1>1, <1>2, <1>3, <1>7, SetReports DEF DispatchStop, Stoppable
<1> QED
  BY <1>4, <1>5, <1>6, <1>7

\* A step of the daemon that ends a session with a failed broker ends it as failed, or
\* forgets it with all others.
LEMMA StepReports ==
  ASSUME DaemonInv, [Next]_vars, NEW s \in SessionIds, s \in children, broker[s] = "err",
         sessions'[s].state # sessions[s].state
  PROVE  sessions'[s].state \in {"Stopping", "Failed", "Absent"}
<1>1. TypeOK /\ LoopOK /\ RecordsMatchChildren
  BY DEF DaemonInv
<1>2. sessions' = [k \in SessionIds |-> NoSession] => sessions'[s].state = "Absent"
  BY DEF NoSession
<1>3. CASE LeaveLoop \/ Crash
  BY <1>2, <1>3 DEF LeaveLoop, DropServer, Crash
<1>4. CASE JoinBroker
  <2> DEFINE k == serving.id
  <2>1. k \in SessionIds
    BY <1>1, <1>4 DEF JoinBroker, LoopOK, RecordsMatchChildren
  <2>2. DropServer \/ SetSession(k, ExitState(k), FALSE)
    BY <1>4 DEF JoinBroker
  <2> HIDE DEF k
  <2>3. ExitState(s) = "Failed"
    BY DEF ExitState
  <2>4. CASE DropServer
    BY <1>2, <2>4 DEF DropServer
  <2>5. CASE SetSession(k, ExitState(k), FALSE)
    <3>1. s = k /\ sessions'[s].state = ExitState(k)
      BY <1>1, <2>1, <2>5, SetReports
    <3> QED
      BY <2>3, <3>1
  <2> QED
    BY <2>2, <2>4, <2>5
<1>5. CASE Dispatch
  <2>1. Head(backlog) \in [client : Clients, request : Requests]
    BY <1>1, <1>5, HeadTail DEF Dispatch, TypeOK
  <2>2. Head(backlog).request.kind # "other" => Head(backlog).request.id \in SessionIds
    BY <2>1 DEF Requests
  <2>3. NoEffect \/ \E k \in SessionIds :
             DispatchPrepare(k) \/ DispatchLaunch(k) \/ DispatchStart(k) \/ DispatchStop(k)
    BY <1>5, <2>2 DEF Dispatch
  <2>4. phase = "accept" /\ ~NoEffect
    BY <1>5 DEF Dispatch, NoEffect
  <2> QED
    BY <2>3, <2>4, DispatchReports
<1>6. CASE Reply
  BY <1>2, <1>6 DEF Reply, DropServer
<1>7. CASE ReleaseLease \/ NothingToReap \/ NoConnection \/ Signal \/ Bind \/ UNCHANGED vars
  BY <1>7 DEF ReleaseLease, NothingToReap, NoConnection, Signal, Bind, vars
<1>8. CASE \E k \in SessionIds : ReapExited(k) \/ KillChild(k) \/ DropChild(k)
  BY <1>8 DEF ReapExited, KillChild, DropChild
<1>9. CASE \E c \in Clients : GiveUp(c) \/ \E r \in Requests : Connect(c, r)
  BY <1>9 DEF GiveUp, Connect
<1>10. CASE \E k \in SessionIds : \/ \E how \in {"success", "failure", "term"} : WorkerExits(k, how)
                                  \/ \E how \in {"ok", "err"} : BrokerEnds(k, how)
  BY <1>10 DEF WorkerExits, BrokerEnds
<1> QED
  BY <1>3, <1>4, <1>5, <1>6, <1>7, <1>8, <1>9, <1>10 DEF Next, DaemonStep, EnvironmentStep

\* When the helper could not restore the container's configuration the session shows as
\* failed, also when the game ended well (reap, combine_reaped_detail).
THEOREM BrokerFailureIsAlwaysReported == Spec => BrokerFailureIsReported
<1>1. DaemonInv /\ [Next]_vars =>
        [\A s \in SessionIds :
           s \in children /\ broker[s] = "err" /\ sessions'[s].state # sessions[s].state
             => sessions'[s].state \in {"Stopping", "Failed", "Absent"}]_vars
  BY StepReports
<1> QED
  BY <1>1, DaemonInvariant, PTL DEF Spec, BrokerFailureIsReported

=============================================================================
