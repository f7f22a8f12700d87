------------------------------- MODULE MCLive -------------------------------
(* Liveness of the daemon, of the bridge and of the input session, without *)
(* symmetry.  The three share no state that is modelled, so one run checks *)
(* them side by side: the first step of a behaviour has chosen which of    *)
(* them acts in it.  The daemon has two clients and one session id, the    *)
(* bridge one session: helpers wait for nobody but the holder of the lease.*)
EXTENDS InputSession

CONSTANTS Clients, SessionIds, GameSessions, None, toggle, key

VARIABLES
  part,
  \* of DaemonSessions
  phase, stop, sessions, children, stopRequested, workerProcess, signalled,
  brokerThread, serving, backlog, client,
  \* of BridgeSession
  worker, request, response, broker, helper, stdin, line, failed, lease, include,
  managed, access, container

Daemon == INSTANCE DaemonSessions WITH worker <- workerProcess, broker <- brokerThread
Bridge == INSTANCE BridgeSession WITH Sessions <- GameSessions

daemonVars == <<phase, stop, sessions, children, stopRequested, workerProcess, signalled,
                brokerThread, serving, backlog, client>>
bridgeVars == <<worker, request, response, broker, helper, stdin, line, failed, lease,
                include, managed, access, container>>
liveVars   == <<part, daemonVars, bridgeVars, vars>>

\* with a relay; and with an overlay but no relay, as after the relay has gone
NoRelay     == [grab |-> TRUE, relay |-> FALSE, overlay |-> TRUE]
LiveOptions == {[grab |-> TRUE, relay |-> TRUE, overlay |-> FALSE], NoRelay}
OneToggle   == [x \in {toggle} |-> key]

LiveInit ==
  /\ part \in {"daemon", "bridge", "input"}
  /\ Daemon!Init /\ Bridge!Init
  /\ Init /\ (part # "input" => config = NoRelay)

LiveNext ==
  /\ UNCHANGED part
  /\ \/ part = "daemon" /\ Daemon!Next /\ UNCHANGED <<bridgeVars, vars>>
     \/ part = "bridge" /\ Bridge!Next /\ UNCHANGED <<daemonVars, vars>>
     \/ part = "input"  /\ Next /\ UNCHANGED <<daemonVars, bridgeVars>>

\* the fairness of the three modules, for the part that acts
DaemonFair ==
  /\ WF_liveVars(part = "daemon" /\ Daemon!DaemonStep /\ UNCHANGED <<part, bridgeVars, vars>>)
  /\ \A s \in SessionIds :
       WF_liveVars(/\ part = "daemon" /\ workerProcess[s] # "alive"
                   /\ \E end \in {"ok", "err"} : Daemon!BrokerEnds(s, end)
                   /\ UNCHANGED <<part, bridgeVars, vars>>)

BridgeFair ==
  \A s \in GameSessions :
    /\ WF_liveVars(part = "bridge" /\ Bridge!BrokerStep(s) /\ UNCHANGED <<part, daemonVars, vars>>)
    /\ WF_liveVars(part = "bridge" /\ Bridge!HelperStep(s) /\ UNCHANGED <<part, daemonVars, vars>>)

InputFair ==
  LET Plays(A) == part = "input" /\ A /\ UNCHANGED <<part, daemonVars, bridgeVars>> IN
  /\ WF_liveVars(Plays(LoopStep))
  /\ SF_liveVars(Plays(FocusDone)) /\ SF_liveVars(Plays(FocusDone /\ FallBack))
  /\ WF_liveVars(Plays(KeyboardReaderEnds)) /\ WF_liveVars(Plays(MouseReaderEnds))

LiveTogether == LiveInit /\ [][LiveNext]_liveVars /\ DaemonFair /\ BridgeFair /\ InputFair

-----------------------------------------------------------------------------
(* The liveness properties of the three *)

\* A client of the daemon that waits is answered or learns that the daemon is gone,
\* though one thread serves all of them and joins broker threads in between.
EveryRequestEnds == Daemon!EveryRequestEnds

\* Every broker of the bridge comes to an end once its worker is gone, however its
\* helper ended.
BrokerReturns == Bridge!BrokerReturns

\* Nobody waits for ever: neither a client for the daemon, nor the daemon, which joins
\* broker threads, for a broker (ipc.rs, process.rs, bridge_broker.rs).
NobodyWaitsForEver == EveryRequestEnds /\ BrokerReturns

\* The desktop gets its devices back: from a session whose relay says nothing, by the
\* user's toggle, and from one that stops, whatever failed (game_session.rs).
DesktopGetsDevices == SilentRelayFallsBack /\ DevicesReturn

=============================================================================
