-------------------------- MODULE LaunchTransaction --------------------------
(***************************************************************************)
(* The launch transaction (launch_v2.rs): the daemon's worker takes the    *)
(* desktop's Waydroid session down, plays in one of its own, and gives the *)
(* desktop its session back; a detached watchdog with a ticket file does   *)
(* so when the worker dies.  Beside them: the lock file of launches, the   *)
(* record of the active session and the Hub that stops what it names, the  *)
(* report of the last session, the root helper of the game (BridgeSession  *)
(* has its details), Hub actions and users who start or stop Waydroid.     *)
(*                                                                         *)
(* Waydroid does not tell a desktop session from a game's: every question  *)
(* the code asks is answered with "running" or "stopped".                  *)
(***************************************************************************)
EXTENDS Naturals

CONSTANTS
  MaxLaunches, \* workers the daemon starts, one process each
  Pids,       \* process identifiers
  Identities, \* who gets which identifier: they are reused
  Stranger,   \* a process that is not a launch
  Nobody,     \* no process, no launch
  Hub,        \* the Hub as the owner of the launch lease
  MaxFaults,  \* crashes and failing operations
  MaxActs     \* what users and strangers do

\* numbered in the order in which they start
Launches == 1 .. MaxLaunches

ASSUME LaunchesAssumption == MaxLaunches \in Nat /\ Identities \subseteq [Launches -> Pids]
ASSUME PeopleAssumption ==
  /\ Launches \cap {Stranger, Nobody, Hub} = {}
  /\ Stranger # Nobody /\ Hub # Nobody
ASSUME BoundsAssumption == MaxFaults \in Nat /\ MaxActs \in Nat

VARIABLES
  pid,        \* the process identifier of every launch
  holder,     \* the process that has an identifier
  stage,      \* where the worker is
  restore,    \* the launch found Waydroid running
  fine,       \* nothing has failed in the launch
  ticket,     \* the lifecycle ticket and the phase written in it
  watchdog,   \* where restore_desktop_session is
  session,    \* Waydroid's session: nobody's, the desktop's, a game's
  bridge,     \* the launch whose root helper is alive
  lease,      \* who has locked game-launch.lock: a launch, the Hub or nobody
  active,     \* the launch the active-session record names
  stopper,    \* the Hub's stop_active_game_session
  hub,        \* the Hub's open_desktop_waydroid
  debt,       \* history: launches that took a desktop session not there since
  excuse,     \* history: what made a debt impossible to see for its launch
  faults,     \* crashes and failures so far
  acts        \* what users and strangers did so far

launchVars == <<pid, holder, stage, restore, fine>>
guardVars  == <<ticket, watchdog>>
desktopVars == <<session, debt, excuse>>
vars == <<launchVars, guardVars, desktopVars, bridge, lease, active, stopper, hub, faults, acts>>

\* Stages in which SIGTERM still has its default action: run_game_session has not
\* installed its handler.
Unhandled == {"lease", "query", "arm", "stop"}

Playing == {"prepare", "boot", "play", "abort", "quit", "finish", "force"}

Restoring == {"mark", "write", "start", "disarm"}

Leaving == {"look", "unlease", "report"}

\* gone without a report, or with the last session report it has written
Ended == {"gone", "clean", "failed"}

Stages == {"off"} \cup Ended \cup Unhandled \cup Playing \cup Restoring \cup Leaving

\* Between the registration and the end of ActiveSessionGuard
Registered == (Unhandled \ {"lease"}) \cup Playing \cup Restoring \cup {"look"}

Leased == Registered \cup {"unlease"}

Alive(w) == stage[w] \notin Ended \cup {"off"}

At(f, w, v) == [f EXCEPT ![w] = v]

Go(w, from, to) == stage[w] = from /\ stage' = At(stage, w, to)

Fault == faults < MaxFaults /\ faults' = faults + 1

NoFault == UNCHANGED faults

\* The way back starts only if the desktop's session is owed.
AfterGame(w) == IF restore[w] THEN "mark" ELSE "look"

Fails(w) == fine' = At(fine, w, FALSE)

-----------------------------------------------------------------------------
(* Waydroid's session *)

Running == session # "stopped"

\* A desktop session pays every debt; whoever stops a desktop session takes one.
Session(next) ==
  /\ session' = next
  /\ debt' = [w \in Launches |-> debt[w] /\ next # "desktop"]
  /\ UNCHANGED excuse

\* w or its helper stops whatever runs; when that is a desktop session, and w has no
\* ticket or is about to remove it, nobody will know
CutDown(w) ==
  /\ session' = "stopped"
  /\ debt' = At(debt, w, debt[w] \/ session = "desktop")
  /\ excuse' = At(excuse, w, IF session = "desktop" /\ (ticket[w] = "none" \/ stage[w] = "disarm")
                             THEN "cut down" ELSE excuse[w])

\* the code sees a session and takes it for the desktop's
Believe(w) ==
  /\ excuse' = At(excuse, w, IF session = "game" THEN "mistaken" ELSE excuse[w])
  /\ UNCHANGED <<session, debt>>

\* start_desktop_waydroid_session: a running session is good enough; the session of
\* a failed start may still come up, because nobody kills the child
StartDesktop(w, good, bad) ==
  \/ Running /\ Believe(w) /\ good /\ NoFault
  \/ ~Running /\ Session("desktop") /\ good /\ NoFault
  \/ /\ ~Running /\ Fault /\ bad
     /\ \/ Session("desktop")
        \/ UNCHANGED desktopVars

UserStarts ==
  /\ ~Running /\ acts < MaxActs
  /\ Session("desktop")
  /\ acts' = acts + 1
  /\ UNCHANGED <<launchVars, guardVars, bridge, lease, active, stopper, hub, faults>>

UserStops ==
  /\ Running /\ acts < MaxActs
  /\ Session("stopped")
  /\ acts' = acts + 1
  /\ UNCHANGED <<launchVars, guardVars, bridge, lease, active, stopper, hub, faults>>

-----------------------------------------------------------------------------
(* The worker: launch_v2_worker_inner *)

Begin(w) ==
  /\ Go(w, "off", "lease")
  /\ \A v \in 1 .. w - 1 : stage[v] # "off"
  /\ holder[pid[w]] = Nobody
  /\ holder' = At(holder, pid[w], w)
  /\ UNCHANGED <<pid, restore, fine, guardVars, desktopVars, bridge, lease, active,
                 stopper, hub, faults, acts>>

\* acquire_launch_lease, ensure_input_bridge_available, the preflight, and the record,
\* which write_active_session renames into place
Register(w) ==
  /\ lease = Nobody /\ bridge = Nobody
  /\ Go(w, "lease", "query")
  /\ lease' = w /\ active' = w
  /\ UNCHANGED <<pid, holder, restore, fine, guardVars, desktopVars, bridge,
                 stopper, hub, faults, acts>>

\* whatever has been taken is dropped again
Refused(w) ==
  /\ \/ (lease # Nobody \/ bridge # Nobody) /\ NoFault
     \/ Fault
  /\ Go(w, "lease", "report") /\ Fails(w)
  /\ UNCHANGED <<pid, holder, restore, guardVars, desktopVars, bridge, lease, active,
                 stopper, hub, acts>>

\* run_with_desktop_restoration: is_running
Query(w) ==
  /\ \/ /\ restore' = At(restore, w, Running)
        /\ Go(w, "query", IF Running THEN "arm" ELSE "stop")
        /\ NoFault /\ UNCHANGED fine
     \/ Fault /\ Go(w, "query", "look") /\ Fails(w) /\ UNCHANGED restore
  /\ UNCHANGED <<pid, holder, guardVars, desktopVars, bridge, lease, active,
                 stopper, hub, acts>>

\* RestoreWatchdog::arm: the ticket, then the process; without the process the ticket is
\* removed
Arm(w) ==
  /\ \/ /\ ticket' = At(ticket, w, "armed") /\ watchdog' = At(watchdog, w, "await")
        /\ Go(w, "arm", "stop") /\ NoFault /\ UNCHANGED fine
     \/ Fault /\ Go(w, "arm", "look") /\ Fails(w) /\ UNCHANGED guardVars
  /\ UNCHANGED <<pid, holder, restore, desktopVars, bridge, lease, active, stopper, hub, acts>>

\* stop_desktop_waydroid_session; a stop that fails may have stopped the session
StopDesktop(w) ==
  /\ \/ CutDown(w) /\ Go(w, "stop", "prepare") /\ NoFault /\ UNCHANGED fine
     \/ /\ Fault /\ Go(w, "stop", AfterGame(w))
        /\ Fails(w)
        /\ CutDown(w) \/ UNCHANGED desktopVars
  /\ UNCHANGED <<pid, holder, restore, guardVars, bridge, lease, active, stopper, hub, acts>>

-----------------------------------------------------------------------------
(* The worker: run_game_session, seen from its effect on Waydroid *)

\* ensure_container_stopped, then the bridge, whose helper takes a lock of its own
Prepare(w) ==
  /\ \/ /\ ~Running /\ bridge = Nobody
        /\ bridge' = w
        /\ Go(w, "prepare", "boot") /\ NoFault /\ UNCHANGED fine
     \/ /\ \/ (Running \/ bridge # Nobody) /\ NoFault
           \/ Fault
        /\ Go(w, "prepare", AfterGame(w)) /\ Fails(w) /\ UNCHANGED bridge
  /\ UNCHANGED <<pid, holder, restore, guardVars, desktopVars, lease, active, stopper, hub, acts>>

\* start_presented.  A session somebody else has started meanwhile ends the child at
\* once, and a start that fails stops whatever runs.
Boot(w) ==
  /\ \/ ~Running /\ Session("game") /\ Go(w, "boot", "play") /\ NoFault /\ UNCHANGED fine
     \/ /\ \/ Running /\ NoFault
           \/ Fault
        /\ Go(w, "boot", AfterGame(w)) /\ Fails(w)
        /\ CutDown(w)
  /\ UNCHANGED <<pid, holder, restore, guardVars, bridge, lease, active, stopper, hub, acts>>

\* waydroid.stop; finish refuses at once a client that has not verified, and leaves
\* the helper to the end of its pipe
Abort(w) ==
  /\ Go(w, "abort", AfterGame(w))
  /\ \/ CutDown(w) /\ NoFault
     \/ Fault /\ UNCHANGED desktopVars
  /\ UNCHANGED <<pid, holder, restore, fine, guardVars, bridge, lease, active, stopper, hub, acts>>

\* Android gets ready, the touchscreen is verified and the game opens; it ends by
\* Ctrl+Esc, a signal, the time limit or an error
Play(w) ==
  /\ \/ Go(w, "play", "quit") /\ NoFault /\ UNCHANGED fine
     \/ Fault /\ Go(w, "play", "quit") /\ Fails(w)
     \/ Fault /\ Go(w, "play", "abort") /\ Fails(w)
  /\ UNCHANGED <<pid, holder, restore, guardVars, desktopVars, bridge, lease, active,
                 stopper, hub, acts>>

\* waydroid.stop
Quit(w) ==
  /\ \/ CutDown(w) /\ Go(w, "quit", "finish") /\ NoFault /\ UNCHANGED fine
     \/ /\ Fault /\ Go(w, "quit", "force") /\ Fails(w)
        /\ CutDown(w) \/ UNCHANGED desktopVars
  /\ UNCHANGED <<pid, holder, restore, guardVars, bridge, lease, active, stopper, hub, acts>>

\* bridge.cleanup: Finish waits for the helper, which stops the container only when
\* the worker could not; a reply that fails leaves the helper behind
Finish(w) ==
  /\ stage[w] \in {"finish", "force"}
  /\ stage' = At(stage, w, AfterGame(w))
  /\ \/ /\ bridge' = Nobody /\ NoFault /\ UNCHANGED fine
        /\ IF stage[w] = "force" THEN CutDown(w) ELSE UNCHANGED desktopVars
     \/ Fault /\ Fails(w) /\ UNCHANGED <<bridge, desktopVars>>
  /\ UNCHANGED <<pid, holder, restore, guardVars, lease, active, stopper, hub, acts>>

\* The helper a worker has left: the end of its pipe makes it stop the container and
\* take the bridge down.
InGame(w) == stage[w] \in Playing \ {"prepare"}

HelperEnds ==
  /\ bridge # Nobody /\ ~InGame(bridge)
  /\ CutDown(bridge)
  /\ bridge' = Nobody
  /\ UNCHANGED <<launchVars, guardVars, lease, active, stopper, hub, faults, acts>>

-----------------------------------------------------------------------------
(* The worker: the desktop's session back, and the way out *)

\* begin_restore empties the ticket before it writes the phase; a failure is a warning
Mark(w) ==
  /\ \/ ticket' = At(ticket, w, "blank") /\ Go(w, "mark", "write") /\ NoFault
     \/ Fault /\ Go(w, "mark", "start") /\ UNCHANGED ticket
  /\ UNCHANGED <<pid, holder, restore, fine, watchdog, desktopVars, bridge, lease, active,
                 stopper, hub, acts>>

WritePhase(w) ==
  /\ Go(w, "write", "start")
  /\ \/ ticket' = At(ticket, w, "restoring") /\ NoFault
     \/ Fault /\ UNCHANGED ticket
  /\ UNCHANGED <<pid, holder, restore, fine, watchdog, desktopVars, bridge, lease, active,
                 stopper, hub, acts>>

\* mutant: the watchdog is disarmed whatever the start says
StartAgainAndDisarm(w) ==
  /\ StartDesktop(w, Go(w, "start", "disarm") /\ UNCHANGED fine,
                     Go(w, "start", "disarm") /\ Fails(w))
  /\ UNCHANGED <<pid, holder, restore, guardVars, bridge, lease, active, stopper, hub, acts>>

\* the ticket stays for the watchdog when the start fails
StartAgain(w) ==
  /\ StartDesktop(w, Go(w, "start", "disarm") /\ UNCHANGED fine,
                     Go(w, "start", "look") /\ Fails(w))
  /\ UNCHANGED <<pid, holder, restore, guardVars, bridge, lease, active, stopper, hub, acts>>

Disarm(w) ==
  /\ Go(w, "disarm", "look")
  /\ \/ ticket' = At(ticket, w, "none") /\ NoFault /\ UNCHANGED fine
     \/ Fault /\ Fails(w) /\ UNCHANGED ticket
  /\ UNCHANGED <<pid, holder, restore, watchdog, desktopVars, bridge, lease, active,
                 stopper, hub, acts>>

\* Locals are dropped in reverse: the record, if it still names the launch, and the
\* lease after it
Unregister(w) ==
  /\ Go(w, "look", "unlease")
  /\ active' = IF active = w THEN Nobody ELSE active
  /\ NoFault
  /\ UNCHANGED <<pid, holder, restore, fine, guardVars, desktopVars, bridge, lease,
                 stopper, hub, acts>>

Release(w) ==
  /\ Go(w, "unlease", "report")
  /\ lease' = Nobody
  /\ NoFault
  /\ UNCHANGED <<pid, holder, restore, fine, guardVars, desktopVars, bridge, active,
                 stopper, hub, acts>>

\* the locals and the lock die with the process
Ends(w, last) ==
  /\ stage' = At(stage, w, last)
  /\ holder' = At(holder, pid[w], Nobody)
  /\ lease' = IF lease = w THEN Nobody ELSE lease
  /\ restore' = At(restore, w, FALSE)

\* write_last_game_session, of the launch's own result
Report(w) ==
  /\ stage[w] = "report"
  /\ \/ Ends(w, IF fine[w] THEN "clean" ELSE "failed") /\ NoFault
     \/ Ends(w, "gone") /\ Fault
  /\ UNCHANGED <<pid, fine, guardVars, desktopVars, bridge, active, stopper, hub, acts>>

Crash(w) ==
  /\ Alive(w) /\ Fault /\ Ends(w, "gone") /\ Fails(w)
  /\ UNCHANGED <<pid, guardVars, desktopVars, bridge, active, stopper, hub, acts>>

-----------------------------------------------------------------------------
(* The detached watchdog: restore_desktop_session *)

\* /proc/<parent> exists as long as any process has the parent's identifier
WatchParent(w) ==
  /\ watchdog[w] = "await"
  /\ \/ ticket[w] = "none" /\ watchdog' = At(watchdog, w, "done")
     \/ ticket[w] # "none" /\ holder[pid[w]] = Nobody /\ watchdog' = At(watchdog, w, "watch")
  /\ UNCHANGED <<launchVars, ticket, desktopVars, bridge, lease, active, stopper, hub, faults, acts>>

\* mutant: the phase decides before the status
ActionOfPhase(phase) ==
  IF phase = "restoring" THEN "complete" ELSE IF Running THEN "wait" ELSE "restore"

Action(phase) ==
  IF ~Running THEN "restore" ELSE IF phase = "restoring" THEN "complete" ELSE "wait"

\* One round of the loop.  Nobody but a dead parent would write the ticket now.
Watch(w) ==
  /\ watchdog[w] = "watch"
  /\ \/ /\ Action(ticket[w]) = "complete" /\ Believe(w)
        /\ ticket' = At(ticket, w, "none") /\ watchdog' = At(watchdog, w, "done")
     \/ /\ Action(ticket[w]) = "restore" /\ watchdog' = At(watchdog, w, "start")
        /\ UNCHANGED <<ticket, desktopVars>>
  /\ UNCHANGED <<launchVars, bridge, lease, active, stopper, hub, faults, acts>>

Restore(w) ==
  /\ watchdog[w] = "start"
  /\ StartDesktop(w,
       ticket' = At(ticket, w, "none") /\ watchdog' = At(watchdog, w, "done"),
       watchdog' = At(watchdog, w, "watch") /\ UNCHANGED ticket)
  /\ UNCHANGED <<launchVars, bridge, lease, active, stopper, hub, acts>>

-----------------------------------------------------------------------------
(* The Hub: stop_active_game_session, read_active_session, open_desktop_waydroid *)

NotStopping == [at |-> "idle", rec |-> Nobody, target |-> Nobody]

StopAt(at) == stopper' = [stopper EXCEPT !.at = at]

ElsewhereStop == UNCHANGED <<pid, guardVars, desktopVars, bridge, hub, faults, acts>>

\* process_matches_record: UID, start ticks, executable and command line
Matches(w) == holder[pid[w]] = w

\* A record whose process is gone is removed by whoever reads it.
StopReads ==
  /\ stopper.at = "idle" /\ active # Nobody
  /\ stopper' = [at |-> IF Matches(active) THEN "open" ELSE "poll", rec |-> active, target |-> Nobody]
  /\ UNCHANGED <<stage, holder, lease, restore, fine, active>> /\ ElsewhereStop

\* open_validated_process_fd: pidfd_open first
StopOpens ==
  /\ stopper.at = "open"
  /\ LET process == holder[pid[stopper.rec]]
     IN  stopper' = [stopper EXCEPT !.at = IF process = Nobody THEN "poll" ELSE "check",
                                    !.target = process]
  /\ UNCHANGED <<stage, holder, lease, restore, fine, active>> /\ ElsewhereStop

\* mutant: what was opened is not compared with the record
StopSignalsUnchecked ==
  /\ stopper.at = "check"
  /\ StopAt("poll")
  /\ IF \E w \in Launches : w = stopper.target /\ stage[w] \in Unhandled
     THEN Ends(stopper.target, "gone") /\ Fails(stopper.target)
     ELSE UNCHANGED <<stage, holder, lease, restore, fine>>
  /\ UNCHANGED active /\ ElsewhereStop

\* then the record once more, and SIGTERM to what was opened.  It kills a launch without
\* a handler; otherwise Play may end, as it may anyway.
StopSignals ==
  /\ stopper.at = "check"
  /\ IF ~Matches(stopper.rec)
     THEN stopper' = NotStopping /\ UNCHANGED <<stage, holder, lease, restore, fine>>
     ELSE /\ StopAt("poll")
          /\ IF \E w \in Launches : w = stopper.target /\ stage[w] \in Unhandled
             THEN Ends(stopper.target, "gone") /\ Fails(stopper.target)
             ELSE UNCHANGED <<stage, holder, lease, restore, fine>>
  /\ UNCHANGED active /\ ElsewhereStop

\* for at most STOP_WAIT_ATTEMPTS; once the process is gone
\* remove_active_session_if_matches_at reads the record again, and then removes the file
StopPolls ==
  /\ stopper.at = "poll"
  /\ IF ~Matches(stopper.rec) /\ active = stopper.rec
     THEN StopAt("unlink")
     ELSE stopper' = NotStopping
  /\ UNCHANGED <<stage, holder, lease, restore, fine, active>> /\ ElsewhereStop

StopUnlinks ==
  /\ stopper.at = "unlink"
  /\ active' = Nobody
  /\ stopper' = NotStopping
  /\ UNCHANGED <<stage, holder, lease, restore, fine>> /\ ElsewhereStop

Stop == \/ StopReads \/ StopOpens \/ StopSignals
        \/ StopPolls \/ StopUnlinks

\* acquire_desktop_action_guard: the launch lease, then the bridge
HubLocks ==
  /\ hub = "idle" /\ acts < MaxActs
  /\ lease = Nobody /\ bridge = Nobody
  /\ acts' = acts + 1
  /\ lease' = Hub /\ hub' = "start"
  /\ UNCHANGED <<launchVars, guardVars, desktopVars, bridge, active, stopper, faults>>

\* ensure_desktop_waydroid_ready; it may fail, or find the session running
HubStarts ==
  /\ hub = "start"
  /\ \/ ~Running /\ Session("desktop")
     \/ UNCHANGED desktopVars
  /\ hub' = "idle" /\ lease' = Nobody
  /\ UNCHANGED <<launchVars, guardVars, bridge, active, stopper, faults, acts>>

\* another process takes, or leaves, the identifier of a launch that has ended
Recycle(p) ==
  /\ \E w \in Launches : pid[w] = p /\ stage[w] \in Ended
  /\ \/ holder[p] = Nobody /\ holder' = At(holder, p, Stranger) /\ acts < MaxActs /\ acts' = acts + 1
     \/ holder[p] = Stranger /\ holder' = At(holder, p, Nobody) /\ UNCHANGED acts
  /\ UNCHANGED <<pid, stage, restore, fine, guardVars, desktopVars, bridge, lease, active,
                 stopper, hub, faults>>

-----------------------------------------------------------------------------

Init ==
  /\ pid \in Identities
  /\ holder = [p \in Pids |-> Nobody]
  /\ stage = [w \in Launches |-> "off"]
  /\ restore = [w \in Launches |-> FALSE]
  /\ fine = [w \in Launches |-> TRUE]
  /\ ticket = [w \in Launches |-> "none"]
  /\ watchdog = [w \in Launches |-> "off"]
  /\ session \in {"stopped", "desktop"}
  /\ bridge = Nobody /\ lease = Nobody
  /\ active = Nobody
  /\ stopper = NotStopping /\ hub = "idle"
  /\ debt = [w \in Launches |-> FALSE]
  /\ excuse = [w \in Launches |-> "none"]
  /\ faults = 0 /\ acts = 0

Game(w) == \/ Prepare(w) \/ Boot(w) \/ Abort(w) \/ Quit(w) \/ Finish(w)

WayBack(w) == \/ Mark(w) \/ WritePhase(w) \/ StartAgain(w) \/ Disarm(w)
              \/ Unregister(w) \/ Release(w) \/ Report(w)

SetUp(w) == \/ Register(w) \/ Refused(w) \/ Query(w) \/ Arm(w) \/ StopDesktop(w)

Guard(w) == WatchParent(w) \/ Watch(w) \/ Restore(w)

Next ==
  \/ \E w \in Launches : \/ Begin(w) \/ SetUp(w) \/ Game(w) \/ Play(w) \/ WayBack(w)
                         \/ Crash(w) \/ Guard(w)
  \/ HelperEnds \/ Stop \/ HubLocks \/ HubStarts
  \/ \E p \in Pids : Recycle(p)
  \/ UserStarts \/ UserStops

Spec == Init /\ [][Next]_vars

\* A launch and a watchdog that run get to their next step, the game apart, which ends
\* when the player wants; so does the helper.
Fairness ==
  /\ \A w \in Launches : /\ WF_vars(SetUp(w) \/ Game(w) \/ WayBack(w))
                         /\ WF_vars(Guard(w))
  /\ WF_vars(HelperEnds)

FairSpec == Spec /\ Fairness

-----------------------------------------------------------------------------

\* The type of the state, with the values the files and the processes can have.
TypeOK ==
  /\ pid \in [Launches -> Pids]
  /\ holder \in [Pids -> Launches \cup {Stranger, Nobody}]
  /\ stage \in [Launches -> Stages]
  /\ restore \in [Launches -> BOOLEAN] /\ fine \in [Launches -> BOOLEAN]
  /\ ticket \in [Launches -> {"none", "armed", "blank", "restoring"}]
  /\ watchdog \in [Launches -> {"off", "await", "watch", "start", "done"}]
  /\ session \in {"stopped", "desktop", "game"}
  /\ bridge \in Launches \cup {Nobody}
  /\ lease \in Launches \cup {Nobody, Hub}
  /\ active \in Launches \cup {Nobody}
  /\ stopper \in [at : {"idle", "open", "check", "poll", "unlink"},
                  rec : Launches \cup {Nobody}, target : Launches \cup {Stranger, Nobody}]
  /\ hub \in {"idle", "start"}
  /\ debt \in [Launches -> BOOLEAN]
  /\ excuse \in [Launches -> {"none", "cut down", "mistaken"}]
  /\ faults \in 0 .. MaxFaults /\ acts \in 0 .. MaxActs

OnDuty(w) == ticket[w] # "none" /\ watchdog[w] \in {"await", "watch", "start"}

\* When a launch has ended, however it ended, and the desktop session it took down has
\* not come up since, its ticket is there and its watchdog is watching; unless the code
\* has taken a game's session for the desktop's, or stopped a session that was not its own.
RestoreIsOwed ==
  \A w \in Launches : stage[w] \in Ended /\ debt[w] /\ excuse[w] = "none" => OnDuty(w)

\* README.md:215-218: the worker restores the previous desktop session when play ends,
\* and the watchdog does if the worker crashes.
DesktopIsGivenBack == \A w \in Launches : stage[w] \in Ended /\ debt[w] => OnDuty(w)

\* The Hub signals the process the record names and no other, whatever process has
\* taken its identifier since (open_validated_process_fd).
StopHitsRecorded ==
  stopper.at = "poll" => stopper.target \in {stopper.rec, Nobody}

\* A launch that dies with the desktop's session down is made good by its watchdog, if
\* the process identifier of the launch is not taken by another process.
DesktopComesBack ==
  \A w \in Launches :
    stage[w] \in Ended /\ debt[w] ~>
      Running \/ excuse[w] # "none" \/ holder[pid[w]] # Nobody

=============================================================================
