--------------------------- MODULE DaemonUpgrade ---------------------------
(***************************************************************************)
(* Clients that need a wroidd of their own release (runtime_daemon.rs):    *)
(* they reuse the running one, replace an idle one of another release, or  *)
(* start one, and then launch a game through it.  The daemon side is the   *)
(* lease, the socket and the end of the serve loop (ipc.rs).               *)
(***************************************************************************)
EXTENDS Naturals

CONSTANTS
  Upgraders,    \* processes that call ensure_running
  MaxWroidds,   \* daemon processes
  Nobody,
  Releases,
  FirstRelease, \* the release of the daemon that runs at first
  MaxCrashes    \* processes killed, and daemons stopped from outside

ASSUME UpgradeBounds ==
  /\ MaxWroidds \in Nat \ {0} /\ MaxCrashes \in Nat
  /\ Nobody \notin Upgraders \cup (1..MaxWroidds)
  /\ FirstRelease \in Releases

VARIABLES
  wroidd,   \* the daemon processes
  leased,   \* the daemon that has the lock on wroidd.lock
  socket,   \* the daemon that made the socket file, Nobody if there is none
  client,   \* the clients
  guard,    \* the resume watchdog of every client: the daemon it would resume
  thawed,   \* history: clients whose frozen daemon somebody else has resumed
  crashes

upgradeVars == <<wroidd, leased, socket, client, guard, thawed, crashes>>

Wroidds == 1..MaxWroidds

NoDaemon == [at |-> "none", release |-> FirstRelease, frozen |-> FALSE, term |-> FALSE,
             taken |-> Nobody, game |-> Nobody, stopping |-> FALSE]

Runs(d) == d # Nobody /\ wroidd[d].at \notin {"none", "gone"}

Serves(d) == Runs(d) /\ wroidd[d].at = "serving" /\ ~wroidd[d].frozen

\* the daemon at the socket answers requests
Answers == Serves(socket) /\ wroidd[socket].taken = Nobody

Put(d, field, value) == [wroidd EXCEPT ![d][field] = value]

To(c, at) == client' = [client EXCEPT ![c].at = at]

DaemonIdle == UNCHANGED <<wroidd, leased, socket>>
ClientsIdle == UNCHANGED <<client, guard, thawed, crashes>>

-----------------------------------------------------------------------------
(* The daemon: bind_with_processes, serve_until, and the drop of the server *)

AcquireLease(d) ==
  /\ wroidd[d].at = "booting"
  /\ IF leased = Nobody
     THEN wroidd' = Put(d, "at", "leased") /\ leased' = d
     ELSE wroidd' = Put(d, "at", "gone") /\ UNCHANGED leased
  /\ UNCHANGED socket /\ ClientsIdle

\* remove_stale_socket and bind
BindSocket(d) ==
  /\ wroidd[d].at = "leased"
  /\ wroidd' = Put(d, "at", "serving") /\ socket' = d
  /\ UNCHANGED leased /\ ClientsIdle

\* LaunchProfileV2; the worker runs the executable of the client, which ends at once
\* under a daemon of another release
DispatchLaunch(d) ==
  LET c == wroidd[d].taken IN
  /\ Serves(d) /\ c # Nobody
  /\ IF wroidd[d].game = Nobody
     THEN /\ wroidd' = [wroidd EXCEPT ![d].taken = Nobody, ![d].stopping = FALSE,
                          ![d].game = IF client[c].release = wroidd[d].release THEN c ELSE @]
          /\ To(c, IF client[c].at = "asked" THEN "waiting" ELSE client[c].at)
     ELSE /\ wroidd' = Put(d, "taken", Nobody)
          /\ To(c, IF client[c].at = "asked" THEN "failed" ELSE client[c].at)
  /\ UNCHANGED <<leased, socket, guard, thawed, crashes>>

GameEnds(d) ==
  /\ wroidd[d].game # Nobody
  /\ wroidd' = Put(d, "game", Nobody)
  /\ UNCHANGED <<leased, socket>> /\ ClientsIdle

\* SIGTERM has set STOP: the loop ends, and Drop takes the socket away if it is its own
LeaveServing(d) ==
  /\ Serves(d) /\ wroidd[d].term /\ wroidd[d].taken = Nobody
  /\ wroidd' = Put(d, "at", "closing")
  /\ socket' = IF socket = d THEN Nobody ELSE socket
  /\ UNCHANGED leased /\ ClientsIdle

\* mutant: the lease is given back before the workers have ended
LetLeaseGo(d) ==
  /\ wroidd[d].at = "closing" /\ ~wroidd[d].frozen
  /\ leased' = IF leased = d THEN Nobody ELSE leased
  /\ wroidd' = IF leased = d THEN wroidd ELSE [wroidd EXCEPT ![d] = [NoDaemon EXCEPT !.at = "gone"]]
  /\ UNCHANGED socket /\ ClientsIdle

\* the fields are dropped: the workers are stopped and awaited, then the lease
CloseDaemon(d) ==
  /\ wroidd[d].at = "closing" /\ ~wroidd[d].frozen
  /\ wroidd' = [wroidd EXCEPT ![d] = [NoDaemon EXCEPT !.at = "gone"]]
  /\ leased' = Nobody
  /\ UNCHANGED socket /\ ClientsIdle

\* killed: the lease goes with the process, and the socket file stays; the parent
\* death signal ends the worker
KillDaemon(d) ==
  /\ Runs(d) /\ crashes < MaxCrashes /\ crashes' = crashes + 1
  /\ wroidd' = [wroidd EXCEPT ![d] = [NoDaemon EXCEPT !.at = "gone"]]
  /\ leased' = IF leased = d THEN Nobody ELSE leased
  /\ UNCHANGED <<socket, client, guard, thawed>>

\* SIGTERM of the user or of the end of the desktop session: request_stop
StopDaemon(d) ==
  /\ Runs(d) /\ ~wroidd[d].term /\ crashes < MaxCrashes /\ crashes' = crashes + 1
  /\ wroidd' = Put(d, "term", TRUE)
  /\ UNCHANGED <<leased, socket, client, guard, thawed>>

-----------------------------------------------------------------------------
(* ensure_running *)

\* connect_default looks at the socket file alone; a ping that fails ends the call
Ping(c) ==
  /\ client[c].at = "start"
  /\ \/ socket = Nobody /\ To(c, "spawn")
     \/ /\ socket # Nobody /\ ~Answers
        /\ To(c, IF Runs(socket) THEN "failed" ELSE "unreachable")
     \/ /\ Answers
        /\ client' = [client EXCEPT ![c].peer = socket,
             ![c].at = IF wroidd[socket].release = client[c].release THEN "ready" ELSE "list"]
  /\ DaemonIdle /\ UNCHANGED <<guard, thawed, crashes>>

\* sessions_block_upgrade, of the peer that was pinged
ListSessions(c) ==
  /\ client[c].at = "list"
  /\ To(c, IF Answers /\ socket = client[c].peer /\ wroidd[socket].game = Nobody
           THEN "verify" ELSE "failed")
  /\ DaemonIdle /\ UNCHANGED <<guard, thawed, crashes>>

\* stop_authenticated_idle_daemon: the peer has not changed, and ContinueGuard::new
ArmGuard(c) ==
  LET d == client[c].peer IN
  /\ client[c].at = "verify"
  /\ IF Runs(d) THEN To(c, "freeze") /\ guard' = [guard EXCEPT ![c] = d]
                ELSE To(c, "spawn") /\ UNCHANGED guard
  /\ DaemonIdle /\ UNCHANGED <<thawed, crashes>>

\* a signal to a daemon that has ended is not an error
Freeze(c) ==
  LET d == client[c].peer IN
  /\ client[c].at = "freeze"
  /\ wroidd' = IF Runs(d) THEN Put(d, "frozen", TRUE) ELSE wroidd
  /\ To(c, "check") /\ thawed' = thawed \ {c}
  /\ UNCHANGED <<leased, socket, guard, crashes>>

\* SIGCONT of client c, or of its watchdog
Continue(c, d) ==
  /\ wroidd' = Put(d, "frozen", FALSE)
  /\ thawed' = IF wroidd[d].frozen
               THEN thawed \cup {b \in Upgraders \ {c} : /\ client[b].peer = d
                                                       /\ client[b].at \in {"check", "terminate"}}
               ELSE thawed
  /\ guard' = [guard EXCEPT ![c] = Nobody]

\* mutant: whether there are children does not matter
CheckFrozenOnly(c) ==
  LET d == client[c].peer IN
  /\ client[c].at = "check" /\ Runs(d) /\ wroidd[d].frozen
  /\ To(c, "terminate") /\ DaemonIdle /\ UNCHANGED <<guard, thawed, crashes>>

\* wait_for_process_stopped and process_has_children; the guard resumes the daemon
\* wherever the call ends
CheckFrozen(c) ==
  LET d == client[c].peer IN
  /\ client[c].at = "check"
  /\ \/ /\ Runs(d) /\ wroidd[d].frozen /\ wroidd[d].game = Nobody
        /\ To(c, "terminate") /\ UNCHANGED <<wroidd, thawed, guard>>
     \/ /\ Runs(d) /\ (wroidd[d].frozen => wroidd[d].game # Nobody)
        /\ To(c, "failed") /\ Continue(c, d)
     \/ /\ ~Runs(d)
        /\ To(c, "spawn") /\ Continue(c, d)
  /\ UNCHANGED <<leased, socket, crashes>>

Terminate(c) ==
  LET d == client[c].peer IN
  /\ client[c].at = "terminate"
  /\ wroidd' = IF Runs(d) THEN Put(d, "term", TRUE) ELSE wroidd
  /\ To(c, "resume") /\ UNCHANGED <<leased, socket, guard, thawed, crashes>>

Resume(c) ==
  /\ client[c].at = "resume"
  /\ Continue(c, client[c].peer) /\ To(c, "exit")
  /\ UNCHANGED <<leased, socket, crashes>>

\* wait_for_pidfd_exit, for RELEASE_STOP_TIMEOUT
AwaitExit(c) ==
  /\ client[c].at = "exit"
  /\ To(c, IF Runs(client[c].peer) THEN "failed" ELSE "spawn")
  /\ DaemonIdle /\ UNCHANGED <<guard, thawed, crashes>>

SpawnDaemon(c) ==
  /\ client[c].at = "spawn"
  /\ \E d \in Wroidds :
       /\ wroidd[d].at = "none" /\ \A e \in 1..(d - 1) : wroidd[e].at # "none"
       /\ wroidd' = [wroidd EXCEPT ![d].at = "booting", ![d].release = client[c].release]
       /\ client' = [client EXCEPT ![c].at = "poll", ![c].peer = d]
  /\ UNCHANGED <<leased, socket, guard, thawed, crashes>>

\* START_ATTEMPTS polls: a daemon of the release, the end of the child, or neither
PollDaemon(c) ==
  /\ client[c].at = "poll"
  /\ \/ /\ Answers /\ wroidd[socket].release = client[c].release
        /\ To(c, "ready")
     \/ To(c, "failed")
  /\ DaemonIdle /\ UNCHANGED <<guard, thawed, crashes>>

-----------------------------------------------------------------------------
(* The game: start_managed_game, wait_for_managed_session, stop_game *)

\* the client has kept the path of the socket: the daemon may be another one by now
RequestLaunch(c) ==
  /\ client[c].at = "ready"
  /\ \/ /\ Runs(socket) /\ wroidd[socket].at = "serving" /\ wroidd[socket].taken = Nobody
        /\ wroidd' = Put(socket, "taken", c)
        /\ client' = [client EXCEPT ![c].at = "asked", ![c].peer = socket]
     \/ /\ ~Runs(socket)
        /\ To(c, "failed") /\ UNCHANGED wroidd
  /\ UNCHANGED <<leased, socket, guard, thawed, crashes>>

\* no answer within IO_TIMEOUT, or none any more
LoseAnswer(c) ==
  /\ client[c].at = "asked"
  /\ Serves(client[c].peer) => wroidd[client[c].peer].taken # c
  /\ To(c, "failed")
  /\ DaemonIdle /\ UNCHANGED <<guard, thawed, crashes>>

\* State of the session, until it has ended or the daemon does not answer
PollGame(c) ==
  /\ client[c].at = "waiting"
  /\ IF Answers
     THEN wroidd[socket].game # c /\ To(c, "over")
     ELSE To(c, "failed")
  /\ DaemonIdle /\ UNCHANGED <<guard, thawed, crashes>>

\* Ctrl+C, Ctrl+Esc or Stop of the Hub; the worker ends in its own time
StopGame(c) ==
  /\ client[c].at = "waiting"
  /\ Answers /\ wroidd[socket].game = c /\ ~wroidd[socket].stopping
  /\ wroidd' = Put(socket, "stopping", TRUE)
  /\ UNCHANGED <<leased, socket>> /\ ClientsIdle

KillClient(c) ==
  /\ client[c].at \notin {"dead", "failed", "over", "unreachable"}
  /\ crashes < MaxCrashes /\ crashes' = crashes + 1
  /\ To(c, "dead")
  /\ DaemonIdle /\ UNCHANGED <<guard, thawed>>

\* watch_stopped_daemon reads the end of the control channel
WatchdogResumes(c) ==
  /\ client[c].at = "dead" /\ guard[c] # Nobody
  /\ Continue(c, guard[c])
  /\ UNCHANGED <<leased, socket, client, crashes>>

-----------------------------------------------------------------------------

UpgradeInit ==
  /\ wroidd = [d \in Wroidds |-> [NoDaemon EXCEPT !.at = IF d = 1 THEN "serving" ELSE "none"]]
  /\ leased = 1 /\ socket = 1
  /\ client \in [Upgraders -> [at : {"start"}, release : Releases, peer : {Nobody}]]
  /\ guard = [c \in Upgraders |-> Nobody]
  /\ thawed = {} /\ crashes = 0

WroiddStep ==
  \E d \in Wroidds :
    \/ AcquireLease(d) \/ BindSocket(d) \/ DispatchLaunch(d) \/ LeaveServing(d) \/ CloseDaemon(d)

UpgraderStep(c) ==
  \/ Ping(c) \/ ListSessions(c) \/ ArmGuard(c) \/ Freeze(c) \/ CheckFrozen(c) \/ Terminate(c)
  \/ Resume(c) \/ AwaitExit(c) \/ SpawnDaemon(c) \/ PollDaemon(c)
  \/ RequestLaunch(c) \/ LoseAnswer(c) \/ PollGame(c)

UpgradeNext ==
  \/ WroiddStep
  \/ \E c \in Upgraders : UpgraderStep(c) \/ WatchdogResumes(c) \/ StopGame(c) \/ KillClient(c)
  \/ \E d \in Wroidds : GameEnds(d) \/ KillDaemon(d) \/ StopDaemon(d)

UpgradeFairness ==
  /\ WF_upgradeVars(WroiddStep)
  /\ \A c \in Upgraders : WF_upgradeVars(UpgraderStep(c)) /\ WF_upgradeVars(WatchdogResumes(c))

UpgradeSpec == UpgradeInit /\ [][UpgradeNext]_upgradeVars /\ UpgradeFairness

-----------------------------------------------------------------------------
(* Properties *)

\* A daemon that was frozen for the inspection runs again, or ends, whatever becomes of
\* the clients: the guard resumes it at every error and the watchdog after a crash.
FrozenDaemonResumes == \A d \in Wroidds : wroidd[d].frozen ~> ~wroidd[d].frozen

\* No client queues SIGTERM for a daemon with a game, whatever was launched after List,
\* unless somebody else has resumed the daemon the client had frozen.
TermSparesGames ==
  [][\A c \in Upgraders :
       client[c].at = "terminate" /\ client'[c].at = "resume" =>
         wroidd[client[c].peer].game = Nobody \/ c \in thawed]_upgradeVars

\* An upgrade takes no game and leaves no daemon frozen, whatever becomes of its client.
UpgradesAreGentle == TermSparesGames /\ FrozenDaemonResumes

\* A daemon that serves has the lease and its own socket, and games of two daemons
\* never run side by side: the old one keeps the lease until its worker has ended.
OneDaemonServes ==
  /\ \A d \in Wroidds : wroidd[d].at = "serving" => leased = d /\ socket = d
  /\ \A d, e \in Wroidds : wroidd[d].game # Nobody /\ wroidd[e].game # Nobody => d = e

\* A client finds a daemon that answers, or starts one, unless one that runs is busy.
DaemonStartsOnDemand ==
  \A c \in Upgraders : client[c].at = "unreachable" => \E d \in Wroidds : Runs(d)
=============================================================================
