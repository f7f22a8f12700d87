---------------------------- MODULE BridgeSession ----------------------------
(***************************************************************************)
(* The input bridge of a game session: the worker that asks for it, the    *)
(* daemon's broker thread, the root helper the broker starts, and what the *)
(* helper changes on the host: the lease on the bridge, the main LXC       *)
(* config (include), the managed config it includes, and the ownership of  *)
(* the worker's touchscreen node.  Workers crash, helpers are killed, file *)
(* operations fail, the daemon dies, and somebody else may start or stop   *)
(* the container at any moment.                                            *)
(*                                                                         *)
(* The helper's steps are one per change another process can see.          *)
(***************************************************************************)
EXTENDS Naturals

CONSTANTS
  Sessions,   \* game sessions, each with one worker, broker, helper and node
  None        \* no session

ASSUME NoneAssumption == None \notin Sessions

VARIABLES
  worker,     \* where run_game_session of every session is
  request,    \* the frame on the way to the broker
  response,   \* the frame on the way to the worker
  broker,     \* where serve_bridge_broker is
  helper,     \* where run_privileged_bridge_helper is, or how it ended
  stdin,      \* the helper's pipe: a pending command, and whether it is open
  line,       \* the helper's last unread line of output
  failed,     \* sessions whose helper met an error
  lease,      \* the session whose helper holds the bridge lock
  include,    \* the main LXC config includes the managed config
  managed,    \* whose node the managed config mounts; None if it does not exist
  access,     \* sessions whose node is handed to Android's input group
  container   \* whether Waydroid runs, and the node it was booted with

workerVars == <<worker, request, response>>
helperVars == <<helper, stdin, line, failed>>
hostVars   == <<lease, include, managed, access>>
vars       == <<workerVars, broker, helperVars, hostVars, container>>

WorkerStates ==
  {"off", "launch", "prepare", "open", "boot", "booted", "reboot", "rebooted",
   "verify", "play", "failing", "closing", "finish", "gone"}

Finishes == {"FinishStopped", "FinishNotStopped"}

\* Initial, Opened and Verified are the ServerStates, in which the broker reads;
\* in the next three it waits for the helper, in two it drops it.
BrokerStates ==
  {"off", "Initial", "Opened", "Verified", "start", "verify", "finish",
   "dropOk", "dropErr", "ok", "err", "dead"}

BrokerEnded == {"off", "ok", "err", "dead"}

HelperEnded == {"success", "failure", "killed", "aborted"}

\* the helper holds the lease
Leased ==
  {"wait", "recover", "prune", "access", "managed", "include", "ready", "serve",
   "verify", "forceStop", "dropInclude", "dropManaged", "dropAccess"}

HelperStates == {"off", "lease"} \cup Leased \cup HelperEnded

\* the bridge is in place
Installed == {"ready", "serve", "verify", "forceStop", "dropInclude"}

HasWorker(s) == worker[s] \notin {"off", "gone"}

Pipes == [cmd : {"none", "VERIFY", "CLEANUP"}, open : BOOLEAN]

NoCommand == [cmd |-> "none", open |-> FALSE]

At(f, s, v) == [f EXCEPT ![s] = v]

-----------------------------------------------------------------------------
(* The container *)

\* lxc reads the config when the container starts; an include of a file that does
\* not exist is an error
CanBoot == include => managed # None

Boot ==
  /\ CanBoot
  /\ container' = IF container.up THEN container
                  ELSE [up |-> TRUE, node |-> IF include THEN managed ELSE None]

Stopped == [up |-> FALSE, node |-> None]

\* a desktop user starts or stops Waydroid
OthersStart == ~container.up /\ Boot /\ UNCHANGED <<workerVars, broker, helperVars, hostVars>>

OthersStop ==
  /\ container.up
  /\ container' = Stopped
  /\ UNCHANGED <<workerVars, broker, helperVars, hostVars>>

-----------------------------------------------------------------------------
(* The worker: run_game_session with a broker, and BridgeBrokerClient *)

WorkerAt(s, from, to) == worker[s] \in from /\ worker' = At(worker, s, to)

\* The daemon manages one child, so an earlier session's broker has been joined
\* or has died with its daemon.
Launch(s) ==
  /\ WorkerAt(s, {"off"}, "launch")
  /\ \A t \in Sessions : broker[t] \in BrokerEnded
  /\ broker' = At(broker, s, "Initial")
  /\ UNCHANGED <<request, response, helperVars, hostVars, container>>

\* ensure_container_stopped, then the profile, the devices and the touchscreen
WorkerPrepares(s) ==
  /\ WorkerAt(s, {"launch"}, "prepare")
  /\ ~container.up
  /\ UNCHANGED <<request, response, broker, helperVars, hostVars, container>>

\* exchange, first half; a write to an ended broker fails and counts as WorkerEnds
\* or WorkerGivesUp
Send(s, from, frame, to) ==
  /\ WorkerAt(s, from, to)
  /\ broker[s] \notin BrokerEnded
  /\ request' = At(request, s, frame)
  /\ response' = At(response, s, "none")
  /\ UNCHANGED <<broker, helperVars, hostVars, container>>

WorkerOpens(s) == Send(s, {"prepare"}, "Open", "open")

WorkerVerifies(s) == container.up /\ Send(s, {"booted", "rebooted"}, "Verify", "verify")

\* exchange, second half
Receive(s, from, frame, to) ==
  /\ WorkerAt(s, {from}, to)
  /\ response[s] = frame
  /\ response' = At(response, s, "none")
  /\ UNCHANGED <<request, broker, helperVars, hostVars, container>>

WorkerOpened(s) == Receive(s, "open", "Opened", "boot")

WorkerVerified(s) == Receive(s, "verify", "AndroidInputReady", "play")

\* DesktopWaydroidSession::start_presented, again in restart
WorkerBoots(s) ==
  /\ \/ WorkerAt(s, {"boot"}, "booted")
     \/ WorkerAt(s, {"reboot"}, "rebooted")
  /\ Boot
  /\ UNCHANGED <<request, response, broker, helperVars, hostVars>>

\* a changed resolution is set once, with the stop half of restart
WorkerRestarts(s) ==
  /\ WorkerAt(s, {"booted"}, "reboot")
  /\ container' = Stopped
  /\ UNCHANGED <<request, response, broker, helperVars, hostVars>>

\* the session closure returns: an error before Android was verified (an error
\* reply, an ended broker and the 125 s timeout included), any result afterwards
WorkerGivesUp(s) ==
  /\ \/ WorkerAt(s, {"booted", "rebooted", "verify"}, "failing")
     \/ WorkerAt(s, {"play"}, "closing")
  /\ UNCHANGED <<request, response, broker, helperVars, hostVars, container>>

\* Waydroid is stopped, which may fail, then the bridge is cleaned up: a client
\* that is not Verified cannot finish and just closes the channel
WorkerStops(s, stopped) ==
  /\ container' = IF stopped THEN Stopped ELSE container
  /\ IF worker[s] = "closing" /\ broker[s] \notin BrokerEnded
     THEN /\ worker' = At(worker, s, "finish")
          /\ request' = At(request, s, IF stopped THEN "FinishStopped" ELSE "FinishNotStopped")
          /\ UNCHANGED access
     ELSE /\ WorkerAt(s, {"failing", "closing"}, "gone")
          /\ access' = access \ {s}
          /\ UNCHANGED request
  /\ UNCHANGED <<response, broker, helperVars, lease, include, managed>>

\* The worker returns, with Finished or an error, or it dies: its end of the
\* channel closes and its touchscreen node disappears.
WorkerEnds(s) ==
  /\ HasWorker(s)
  /\ worker' = At(worker, s, "gone")
  /\ access' = access \ {s}
  /\ UNCHANGED <<request, response, broker, helperVars, lease, include, managed, container>>

-----------------------------------------------------------------------------
(* The broker thread: serve_bridge_broker, and PrivilegedBridgeHelper *)

Closed(s) == [stdin EXCEPT ![s].open = FALSE]

\* Mutant of Dropped: the helper's stdin is still open while it is waited for.
Dropped_KeepsPipe(s, how) ==
  /\ broker' = At(broker, s, IF helper[s] = "off" THEN how
                             ELSE IF how = "ok" THEN "dropOk" ELSE "dropErr")
  /\ UNCHANGED stdin

\* the broker returns; a helper it still owns is dropped, which closes its stdin
\* and waits for it
Dropped(s, how) ==
  /\ broker' = At(broker, s, IF helper[s] = "off" THEN how
                             ELSE IF how = "ok" THEN "dropOk" ELSE "dropErr")
  /\ stdin' = Closed(s)

\* write_error's own result is ignored
BrokerFails(s) == response' = At(response, s, "Error") /\ Dropped(s, "err")

\* a failed write_response ends the broker too
BrokerAnswers(s, frame, to) ==
  IF HasWorker(s)
  THEN /\ response' = At(response, s, frame)
       /\ broker' = At(broker, s, to)
       /\ UNCHANGED stdin
  ELSE UNCHANGED response /\ Dropped(s, "err")

\* factory.start spawns the helper
BrokerStartsHelper(s) ==
  /\ broker[s] = "Initial"
  /\ request[s] = "Open"
  /\ request' = At(request, s, "none")
  /\ \/ /\ broker' = At(broker, s, "start")
        /\ helper' = At(helper, s, "lease")
        /\ stdin' = At(stdin, s, [cmd |-> "none", open |-> TRUE])
        /\ UNCHANGED response
     \/ BrokerFails(s) /\ UNCHANGED helper
  /\ UNCHANGED <<worker, line, failed, hostVars, container>>

\* start has read a line: READY, or the end of a helper that did not get there
BrokerOpens(s) ==
  /\ broker[s] = "start"
  /\ \/ line[s] = "READY" /\ BrokerAnswers(s, "Opened", "Opened")
     \/ line[s] = "none" /\ helper[s] \in HelperEnded /\ BrokerFails(s)
  /\ line' = At(line, s, "none")
  /\ UNCHANGED <<worker, request, helper, failed, hostVars, container>>

\* verify_android_input writes the command; a helper that has ended refuses it
BrokerVerifies(s) ==
  /\ broker[s] = "Opened"
  /\ request[s] = "Verify"
  /\ request' = At(request, s, "none")
  /\ IF helper[s] \in HelperEnded THEN BrokerFails(s)
     ELSE /\ broker' = At(broker, s, "verify")
          /\ stdin' = [stdin EXCEPT ![s].cmd = "VERIFY"]
          /\ UNCHANGED response
  /\ UNCHANGED <<worker, helper, line, failed, hostVars, container>>

BrokerVerified(s) ==
  /\ broker[s] = "verify"
  /\ \/ line[s] = "INPUT_READY" /\ BrokerAnswers(s, "AndroidInputReady", "Verified")
     \/ line[s] = "none" /\ helper[s] \in HelperEnded /\ BrokerFails(s)
  /\ line' = At(line, s, "none")
  /\ UNCHANGED <<worker, request, helper, failed, hostVars, container>>

\* finish asks for the graceful cleanup only if Waydroid was stopped, and closes
\* the pipe in any case
BrokerFinishes(s) ==
  /\ broker[s] = "Verified"
  /\ request[s] \in Finishes
  /\ request' = At(request, s, "none")
  /\ IF request[s] = "FinishStopped" /\ helper[s] \in HelperEnded THEN BrokerFails(s)
     ELSE /\ broker' = At(broker, s, "finish")
          /\ stdin' = At(stdin, s, [cmd  |-> IF request[s] = "FinishStopped" THEN "CLEANUP" ELSE "none",
                                    open |-> FALSE])
          /\ UNCHANGED response
  /\ UNCHANGED <<worker, helper, line, failed, hostVars, container>>

\* the exit status decides; nothing is owned any more
BrokerFinished(s) ==
  /\ broker[s] = "finish"
  /\ helper[s] \in HelperEnded
  /\ IF HasWorker(s)
     THEN response' = At(response, s, IF helper[s] = "success" THEN "Finished" ELSE "Error")
     ELSE UNCHANGED response
  /\ broker' = At(broker, s, IF HasWorker(s) /\ helper[s] = "success" THEN "ok" ELSE "err")
  /\ UNCHANGED <<worker, request, helperVars, hostVars, container>>

\* the 120 s deadlines for Open and for Verify; none for Finish
BrokerTimesOut(s) ==
  /\ broker[s] \in {"Initial", "Opened"}
  /\ BrokerFails(s)
  /\ UNCHANGED <<worker, request, helper, line, failed, hostVars, container>>

\* end of file on the channel is a normal return
BrokerSeesEnd(s) ==
  /\ broker[s] \in {"Initial", "Opened", "Verified"}
  /\ request[s] = "none"
  /\ worker[s] = "gone"
  /\ Dropped(s, "ok")
  /\ UNCHANGED <<workerVars, helper, line, failed, hostVars, container>>

\* the wait in PrivilegedBridgeHelper's drop, which discards the exit status
BrokerDropped(s) ==
  /\ broker[s] \in {"dropOk", "dropErr"}
  /\ helper[s] \in HelperEnded
  /\ broker' = At(broker, s, IF broker[s] = "dropOk" THEN "ok" ELSE "err")
  /\ UNCHANGED <<workerVars, helperVars, hostVars, container>>

\* wroidd is killed: broker threads go, and the kernel closes their pipes
DaemonDies ==
  /\ \E s \in Sessions : broker[s] \notin BrokerEnded
  /\ broker' = [s \in Sessions |-> IF broker[s] \in BrokerEnded THEN broker[s] ELSE "dead"]
  /\ stdin' = [s \in Sessions |-> [stdin[s] EXCEPT !.open = FALSE]]
  /\ UNCHANGED <<workerVars, helper, line, failed, hostVars, container>>

-----------------------------------------------------------------------------
(* The helper: run_privileged_bridge_helper *)

HelperAt(s, from, to) == helper[s] = from /\ helper' = At(helper, s, to)

\* the process ends, and the kernel releases its lock
Exit(s, how) ==
  /\ helper' = At(helper, s, how)
  /\ lease' = IF lease = s THEN None ELSE lease

\* an error with nothing to undo
Refuse(s) == Exit(s, "failure") /\ failed' = failed \cup {s}

\* Mutant of TakeLease: a held lease is not looked at.
TakeLease_Shared(s) ==
  /\ HelperAt(s, "lease", "wait")
  /\ lease' = s
  /\ UNCHANGED <<workerVars, broker, stdin, line, failed, include, managed, access, container>>

\* WaydroidBridgeLease::acquire_default does not wait
TakeLease(s) ==
  /\ \/ /\ HelperAt(s, "lease", "wait")
        /\ lease = None
        /\ lease' = s
        /\ UNCHANGED failed
     \/ helper[s] = "lease" /\ Refuse(s)
  /\ UNCHANGED <<workerVars, broker, stdin, line, include, managed, access, container>>

\* wait_for_container_stopped_privileged, 30 attempts
AwaitStopped(s) ==
  /\ \/ HelperAt(s, "wait", "recover") /\ ~container.up /\ UNCHANGED <<lease, failed>>
     \/ helper[s] = "wait" /\ Refuse(s)
  /\ UNCHANGED <<workerVars, broker, stdin, line, include, managed, access, container>>

\* remove_default_bridge: first the include, then the file
RecoverInclude(s) ==
  /\ \/ HelperAt(s, "recover", "prune") /\ include' = FALSE /\ UNCHANGED <<lease, failed>>
     \/ helper[s] = "recover" /\ Refuse(s) /\ UNCHANGED include
  /\ UNCHANGED <<workerVars, broker, stdin, line, managed, access, container>>

RecoverManaged(s) ==
  /\ \/ HelperAt(s, "prune", "access") /\ managed' = None /\ UNCHANGED <<lease, failed>>
     \/ helper[s] = "prune" /\ Refuse(s) /\ UNCHANGED managed
  /\ UNCHANGED <<workerVars, broker, stdin, line, include, access, container>>

\* the node is validated twice, which fails once the worker is gone, and handed
\* to Android
HandOver(s) ==
  /\ \/ /\ HelperAt(s, "access", "managed")
        /\ HasWorker(s)
        /\ access' = access \cup {s}
        /\ UNCHANGED <<lease, failed>>
     \/ helper[s] = "access" /\ Refuse(s) /\ UNCHANGED access
  /\ UNCHANGED <<workerVars, broker, stdin, line, include, managed, container>>

\* Mutant of InstallManaged: the include is added before the file exists.
InstallManaged_IncludeFirst(s) ==
  /\ HelperAt(s, "managed", "include")
  /\ include' = TRUE
  /\ UNCHANGED <<workerVars, broker, stdin, line, failed, lease, managed, access, container>>

\* install: the managed file, then the include; an error gives the node back
InstallManaged(s) ==
  /\ \/ HelperAt(s, "managed", "include") /\ managed' = s /\ UNCHANGED failed
     \/ HelperAt(s, "managed", "dropAccess") /\ failed' = failed \cup {s} /\ UNCHANGED managed
  /\ UNCHANGED <<workerVars, broker, stdin, line, lease, include, access, container>>

\* a failed include rolls the managed file back
InstallInclude(s) ==
  /\ \/ HelperAt(s, "include", "ready") /\ include' = TRUE /\ UNCHANGED failed
     \/ HelperAt(s, "include", "dropManaged") /\ failed' = failed \cup {s} /\ UNCHANGED include
  /\ UNCHANGED <<workerVars, broker, stdin, line, lease, managed, access, container>>

\* println! of READY.  With nobody left to read the pipe it panics, and release
\* builds abort on a panic: no guard runs.
PrintReady(s) ==
  /\ helper[s] = "ready"
  /\ IF broker[s] # "dead"
     THEN /\ helper' = At(helper, s, "serve")
          /\ line' = At(line, s, "READY")
          /\ UNCHANGED lease
     ELSE Exit(s, "aborted") /\ UNCHANGED line
  /\ UNCHANGED <<workerVars, broker, stdin, failed, include, managed, access, container>>

\* serve_helper_protocol: a command, or the end of the pipe
ReadCommand(s) ==
  /\ \/ HelperAt(s, "serve", "verify") /\ stdin[s].cmd = "VERIFY"
     \/ HelperAt(s, "serve", "dropInclude") /\ stdin[s].cmd = "CLEANUP"
     \/ HelperAt(s, "serve", "forceStop") /\ stdin[s] = NoCommand
  /\ stdin' = [stdin EXCEPT ![s].cmd = "none"]
  /\ UNCHANGED <<workerVars, broker, line, failed, hostVars, container>>

\* Android lists a touchscreen of that name: the container was booted with a node
\* that still exists.  The check may give up, and the reply may meet a dead broker.
VerifyInput(s) ==
  /\ \/ /\ HelperAt(s, "verify", "serve")
        /\ broker[s] # "dead"
        /\ container.up /\ container.node # None /\ HasWorker(container.node)
        /\ line' = At(line, s, "INPUT_READY")
        /\ UNCHANGED failed
     \/ /\ HelperAt(s, "verify", "forceStop")
        /\ failed' = failed \cup {s}
        /\ UNCHANGED line
  /\ UNCHANGED <<workerVars, broker, stdin, hostVars, container>>

\* force_stop_waydroid_container; the cleanup continues when it fails
ForceStop(s) ==
  /\ HelperAt(s, "forceStop", "dropInclude")
  /\ \/ container' = Stopped /\ UNCHANGED failed
     \/ failed' = failed \cup {s} /\ UNCHANGED container
  /\ UNCHANGED <<workerVars, broker, stdin, line, hostVars>>

\* Mutant of DropInclude: only the managed file is removed.
DropInclude_Forgotten(s) ==
  /\ HelperAt(s, "dropInclude", "dropManaged")
  /\ UNCHANGED <<workerVars, broker, stdin, line, failed, hostVars, container>>

\* restore: first the include, then the file, each tried whatever came of the other
DropInclude(s) ==
  /\ HelperAt(s, "dropInclude", "dropManaged")
  /\ \/ include' = FALSE /\ UNCHANGED failed
     \/ failed' = failed \cup {s} /\ UNCHANGED include
  /\ UNCHANGED <<workerVars, broker, stdin, line, lease, managed, access, container>>

\* after an error the destructor restores once more
DropManaged(s) ==
  /\ HelperAt(s, "dropManaged", "dropAccess")
  /\ \/ managed' = None /\ UNCHANGED failed
     \/ failed' = failed \cup {s} /\ UNCHANGED managed
  /\ \/ UNCHANGED include
     \/ s \in failed /\ include' = FALSE
  /\ UNCHANGED <<workerVars, broker, stdin, line, lease, access, container>>

\* the node's ownership, and the end of the helper
DropAccess(s) ==
  /\ helper[s] = "dropAccess"
  /\ \/ /\ access' = access \ {s}
        /\ Exit(s, IF s \in failed THEN "failure" ELSE "success")
        /\ UNCHANGED failed
     \/ Refuse(s) /\ UNCHANGED access
  /\ UNCHANGED <<workerVars, broker, stdin, line, include, managed, container>>

\* SIGKILL, the OOM killer
HelperKilled(s) ==
  /\ helper[s] \in {"lease"} \cup Leased
  /\ Exit(s, "killed")
  /\ UNCHANGED <<workerVars, broker, stdin, line, failed, include, managed, access, container>>

-----------------------------------------------------------------------------
Init ==
  /\ worker = [s \in Sessions |-> "off"]
  /\ request = [s \in Sessions |-> "none"]
  /\ response = [s \in Sessions |-> "none"]
  /\ broker = [s \in Sessions |-> "off"]
  /\ helper = [s \in Sessions |-> "off"]
  /\ stdin = [s \in Sessions |-> NoCommand]
  /\ line = [s \in Sessions |-> "none"]
  /\ failed = {}
  /\ lease = None
  /\ include = FALSE
  /\ managed = None
  /\ access = {}
  /\ container = Stopped

WorkerStep(s) ==
  \/ Launch(s) \/ WorkerPrepares(s) \/ WorkerOpens(s) \/ WorkerOpened(s)
  \/ WorkerBoots(s) \/ WorkerRestarts(s) \/ WorkerVerifies(s) \/ WorkerVerified(s)
  \/ WorkerGivesUp(s) \/ WorkerEnds(s)
  \/ \E stopped \in BOOLEAN : WorkerStops(s, stopped)

BrokerStep(s) ==
  \/ BrokerStartsHelper(s) \/ BrokerOpens(s) \/ BrokerVerifies(s) \/ BrokerVerified(s)
  \/ BrokerFinishes(s) \/ BrokerFinished(s) \/ BrokerSeesEnd(s) \/ BrokerDropped(s)

ConfigStep(s) ==
  \/ RecoverInclude(s) \/ RecoverManaged(s) \/ InstallManaged(s) \/ InstallInclude(s)
  \/ DropInclude(s) \/ DropManaged(s)

HelperStep(s) ==
  \/ TakeLease(s) \/ AwaitStopped(s) \/ HandOver(s) \/ ConfigStep(s)
  \/ PrintReady(s) \/ ReadCommand(s) \/ VerifyInput(s) \/ ForceStop(s) \/ DropAccess(s)

Next ==
  \/ \E s \in Sessions :
       \/ WorkerStep(s) \/ BrokerStep(s) \/ BrokerTimesOut(s)
       \/ HelperStep(s) \/ HelperKilled(s)
  \/ DaemonDies \/ OthersStart \/ OthersStop

Spec == Init /\ [][Next]_vars

\* Broker threads and helpers keep running; nothing is assumed of workers, users,
\* or the deadlines.
LiveSpec == Spec /\ \A s \in Sessions : WF_vars(BrokerStep(s)) /\ WF_vars(HelperStep(s))

-----------------------------------------------------------------------------
(* Properties *)

\* The variables range over the types of the structures they stand for; only a
\* node that exists can be handed to Android.
TypeOK ==
  /\ worker \in [Sessions -> WorkerStates]
  /\ request \in [Sessions -> {"none", "Open", "Verify"} \cup Finishes]
  /\ response \in [Sessions -> {"none", "Opened", "AndroidInputReady", "Finished", "Error"}]
  /\ broker \in [Sessions -> BrokerStates]
  /\ helper \in [Sessions -> HelperStates]
  /\ stdin \in [Sessions -> Pipes]
  /\ line \in [Sessions -> {"none", "READY", "INPUT_READY"}]
  /\ failed \in SUBSET Sessions
  /\ lease \in Sessions \cup {None}
  /\ include \in BOOLEAN
  /\ managed \in Sessions \cup {None}
  /\ access \in SUBSET {s \in Sessions : HasWorker(s)}
  /\ container \in [up : BOOLEAN, node : Sessions \cup {None}]

\* While a helper serves its session the bridge is exactly its own: included,
\* mounting its node, and the node (as long as the worker keeps it) readable for
\* Android, whatever other helpers start, recover, clean up, or get killed
\* meanwhile and whatever an earlier one left behind.
BridgeIntact ==
  \A s \in Sessions :
    helper[s] \in Installed =>
      /\ include
      /\ managed = s
      /\ HasWorker(s) => s \in access

\* The main config never includes a file that is not there, which would keep
\* Waydroid from starting: not between two steps of an install, a recovery or a
\* cleanup, and not after a kill at any of them.  Only a helper that could not
\* write the main config can leave that behind.
IncludeResolves == failed = {} => CanBoot

\* A helper that ends with success leaves neither config nor node behind.
SuccessRestores ==
  [][\A s \in Sessions : helper[s] # "success" /\ helper'[s] = "success" =>
       ~include' /\ managed' = None /\ s \notin access']_vars

\* Once a worker is gone its broker thread returns, so the daemon's join ends:
\* broker and helper never wait for each other forever.
BrokerReturns ==
  \A s \in Sessions : worker[s] = "gone" ~> broker[s] \in BrokerEnded

\* What the daemon-owned helper design says of the death of wroidd: the helper sees
\* end of file and removes the managed bridge, so that only a killed helper or a
\* failed operation leaves one.
DaemonDeathIsCleanedUp ==
  lease = None /\ include => \E s \in Sessions : helper[s] = "killed" \/ s \in failed

=============================================================================
