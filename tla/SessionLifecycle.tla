-------------------------- MODULE SessionLifecycle --------------------------
(***************************************************************************)
(* What the daemon promises about game sessions (docs/architecture-v2.md,  *)
(* "Runtime lifecycle", and the SessionLifecycle trait of wroid-runtime):  *)
(* every session follows the lifecycle, at most one of them owns a worker  *)
(* process, and a session that owns one is only ever Running or Stopping   *)
(* until the process is gone.  DaemonSessions implements this.             *)
(***************************************************************************)
CONSTANT SessionIds

VARIABLES
  state,     \* the SessionState of every id, or "Absent"
  managed    \* the ids whose worker process the daemon owns

lifecycleVars == <<state, managed>>

SessionStates == {"Absent", "Preparing", "Running", "Stopping", "Stopped", "Failed"}

SetState(s, to) == state' = [state EXCEPT ![s] = to]

LifecycleInit ==
  /\ state = [s \in SessionIds |-> "Absent"]
  /\ managed = {}

Prepare(s) ==
  /\ state[s] = "Absent"
  /\ SetState(s, "Preparing")
  /\ UNCHANGED managed

\* prepared and spawned in one request
Spawn(s) ==
  /\ state[s] = "Absent"
  /\ managed = {}
  /\ SetState(s, "Running")
  /\ managed' = {s}

SpawnFails(s) ==
  /\ state[s] = "Absent"
  /\ SetState(s, "Failed")
  /\ UNCHANGED managed

StartPrepared(s) ==
  /\ state[s] = "Preparing"
  /\ SetState(s, "Running")
  /\ UNCHANGED managed

BeginStop(s) ==
  /\ s \in managed
  /\ state[s] = "Running"
  /\ SetState(s, "Stopping")
  /\ UNCHANGED managed

\* a session without a process is stopped on the spot
StopUnmanaged(s) ==
  /\ s \notin managed
  /\ state[s] \in {"Preparing", "Running", "Failed"}
  /\ SetState(s, "Stopped")
  /\ UNCHANGED managed

\* only the end of its process takes a managed session out of Running or Stopping
ProcessEnds(s) ==
  /\ s \in managed
  /\ state[s] \in {"Running", "Stopping"}
  /\ \E to \in {"Stopped", "Failed"} : SetState(s, to)
  /\ managed' = managed \ {s}

\* The daemon ends: its records go at once, its processes one after another.
Forget ==
  /\ state' = [s \in SessionIds |-> "Absent"]
  /\ managed' \in SUBSET managed

LifecycleNext ==
  \/ \E s \in SessionIds :
       \/ Prepare(s) \/ Spawn(s) \/ SpawnFails(s) \/ StartPrepared(s)
       \/ BeginStop(s) \/ StopUnmanaged(s) \/ ProcessEnds(s)
  \/ Forget

LifecycleSpec == LifecycleInit /\ [][LifecycleNext]_lifecycleVars

=============================================================================
