---------------------------- MODULE LaunchProofs ----------------------------
(***************************************************************************)
(* Proofs about the commands of `wroid`: a launch and its request, play in *)
(* a terminal, and the commands on first-generation profiles.  The last    *)
(* two are components of their own that share nothing with a launch but    *)
(* their origin.                                                           *)
(*                                                                         *)
(* LaunchTransaction and LaunchRequest: whatever fails or dies, a launch   *)
(* that took the desktop's session down leaves a ticket and a watchdog     *)
(* that will give it back; the Hub stops the process it has a record of    *)
(* and no other; and what runs is what was asked for.                      *)
(***************************************************************************)
EXTENDS LaunchTransaction, LaunchRequest, InteractivePlay, ProfileRegistry, SequenceTheorems,
        TLAPS

\* the stages before the watchdog is armed
Unarmed == {"off", "lease", "query", "arm"}

\* the stages in which a launch that found the desktop running has a ticket
Ticketed == {"stop"} \cup Playing \cup Restoring

\* A launch has its process identifier exactly while its process lives.
HeldWhileAlive == \A w \in Launches : holder[pid[w]] = w <=> Alive(w)

\* Who is named by the record, by a helper or by the Hub that stops it, has begun.
NamedHaveBegun ==
  /\ active # Nobody => stage[active] # "off"
  /\ bridge # Nobody => stage[bridge] # "off"
  /\ stopper.at # "idle" => stopper.rec \in Launches /\ stage[stopper.rec] # "off"

\* What the Hub has opened is the process of the record, or one that got its identifier
\* after that process has ended.
OpenedIsRecorded ==
  stopper.at = "check" => stopper.target = stopper.rec \/ stage[stopper.rec] \in Ended

TicketFollowsStage(w) ==
  /\ stage[w] \in Unarmed => ticket[w] = "none" /\ watchdog[w] = "off"
  /\ stage[w] \in Restoring => restore[w]
  /\ stage[w] \in Ticketed /\ restore[w] => ticket[w] # "none" /\ watchdog[w] = "await"
  /\ ticket[w] # "none" => watchdog[w] \in {"await", "watch", "start"}
  /\ watchdog[w] \in {"watch", "start"} => ticket[w] # "none" /\ stage[w] \in Ended

TicketsFollowStages == \A w \in Launches : TicketFollowsStage(w)

\* A debt that the code can know of is written down.
DebtsAreWritten ==
  /\ session = "desktop" => \A w \in Launches : ~debt[w]
  /\ \A w \in Launches : debt[w] /\ excuse[w] = "none" => ticket[w] # "none" /\ stage[w] # "disarm"

LaunchInv ==
  /\ TypeOK
  /\ HeldWhileAlive
  /\ NamedHaveBegun
  /\ OpenedIsRecorded
  /\ StopHitsRecorded
  /\ TicketsFollowStages
  /\ DebtsAreWritten

-----------------------------------------------------------------------------
(* What a step can do *)

Living == Unhandled \cup Playing \cup Restoring \cup Leaving

\* a step of a launch that lives on
LivesOn(w) ==
  /\ Alive(w) /\ UNCHANGED <<pid, holder, stopper>>
  /\ \E s \in Living : stage' = At(stage, w, s)

Worker(w) == \/ SetUp(w) \/ Game(w) \/ Play(w)
             \/ Mark(w) \/ WritePhase(w) \/ StartAgain(w) \/ Disarm(w)
             \/ Unregister(w) \/ Release(w)

\* what a step does to Waydroid's session and to the history of it
DesktopStep ==
  \/ UNCHANGED desktopVars
  \/ \E next \in {"stopped", "desktop", "game"} : Session(next)
  \/ \E w \in Launches : CutDown(w)
  \/ \E w \in Launches : Running /\ Believe(w)

\* The launch a worker works for lives on, in another stage.
LEMMA WorkerLivesOn ==
  ASSUME TypeOK, NEW w \in Launches, Worker(w)
  PROVE  LivesOn(w)
<1> USE DEF Living, Unhandled, Playing, Restoring, Leaving, Ended, LivesOn, Alive, Go, AfterGame
<1>1. CASE SetUp(w)
  BY <1>1 DEF SetUp, Register, Refused, Query, Arm, StopDesktop
<1>2. CASE Prepare(w) \/ Boot(w) \/ Abort(w)
  BY <1>2 DEF Prepare, Boot, Abort
<1>3. CASE Quit(w) \/ Finish(w) \/ Play(w)
  BY <1>3 DEF Quit, Finish, Play
<1>4. CASE Mark(w) \/ WritePhase(w)
  BY <1>4 DEF Mark, WritePhase
<1>5. CASE StartAgain(w) \/ Disarm(w)
  BY <1>5 DEF StartAgain, StartDesktop, Disarm
<1>6. CASE Unregister(w) \/ Release(w)
  BY <1>6 DEF Unregister, Release
<1> QED
  BY <1>1, <1>2, <1>3, <1>4, <1>5, <1>6 DEF Worker, Game

\* Every step treats Waydroid's session in one of four ways.
LEMMA StepsOfDesktop ==
  ASSUME TypeOK, [Next]_vars
  PROVE  DesktopStep
<1> USE DEF DesktopStep
<1>1. ASSUME NEW w \in Launches, SetUp(w) PROVE DesktopStep
  BY <1>1 DEF SetUp, Register, Refused, Query, Arm, StopDesktop
<1>2. ASSUME NEW w \in Launches, Game(w) \/ Play(w) PROVE DesktopStep
  BY <1>2 DEF Game, Prepare, Boot, Abort, Quit, Finish, Play
<1>3. ASSUME NEW w \in Launches, WayBack(w) PROVE DesktopStep
  BY <1>3 DEF WayBack, Mark, WritePhase, StartAgain, StartDesktop, Disarm, Unregister, Release, Report
<1>4. ASSUME NEW w \in Launches, Begin(w) \/ Crash(w) \/ Guard(w) PROVE DesktopStep
  <2>1. CASE Guard(w)
    <3>1. Watch(w) => DesktopStep
      BY DEF Watch, Action
    <3> QED
      BY <2>1, <3>1 DEF Guard, WatchParent, Restore, StartDesktop
  <2> QED
    BY <1>4, <2>1 DEF Begin, Crash
<1>5. CASE HelperEnds
  BY <1>5 DEF HelperEnds, TypeOK
<1>6. CASE Stop \/ HubLocks \/ HubStarts
  BY <1>6 DEF Stop, StopReads, StopOpens, StopSignals, StopPolls, StopUnlinks, ElsewhereStop, HubLocks, HubStarts
<1>7. ASSUME NEW p \in Pids, Recycle(p) PROVE DesktopStep
  BY <1>7 DEF Recycle
<1>8. CASE UserStarts \/ UserStops
  BY <1>8 DEF UserStarts, UserStops
<1>9. CASE UNCHANGED vars
  BY <1>9 DEF vars
<1> QED
  BY <1>1, <1>2, <1>3, <1>4, <1>5, <1>6, <1>7, <1>8, <1>9 DEF Next

\* a step in which launches neither begin nor end, and identifiers stay where they are
NobodyDies ==
  /\ UNCHANGED <<pid, holder>>
  /\ \A v \in Launches : /\ stage[v] = "off" <=> stage'[v] = "off"
                         /\ stage[v] \in Ended <=> stage'[v] \in Ended
                         /\ stage[v] \in Ended => stage'[v] = stage[v]

\* the end of a launch, whatever ends it
Dies(w) ==
  /\ Alive(w) /\ UNCHANGED pid
  /\ \E last \in Ended : Ends(w, last)

\* What lives on neither begins nor ends.
LEMMA LivingDoNotDie ==
  ASSUME TypeOK, NEW w \in Launches, LivesOn(w)
  PROVE  NobodyDies
  BY DEF TypeOK, LivesOn, NobodyDies, Living, Unhandled, Playing, Restoring, Leaving, Ended, Alive, At

\* A launch begins, lives on or ends, or an identifier goes to a stranger or comes back.
LEMMA StepsOfLife ==
  ASSUME LaunchInv, [Next]_vars
  PROVE  \/ NobodyDies
         \/ \E w \in Launches : Begin(w) \/ Dies(w)
         \/ \E p \in Pids : Recycle(p)
<1> DEFINE Goal == \/ NobodyDies
                   \/ \E w \in Launches : Begin(w) \/ Dies(w)
                   \/ \E p \in Pids : Recycle(p)
<1>0. UNCHANGED <<pid, holder, stage>> => NobodyDies
  BY DEF NobodyDies
<1>1. ASSUME NEW w \in Launches, Worker(w) PROVE Goal
  BY <1>1, WorkerLivesOn, LivingDoNotDie DEF LaunchInv
<1>2. ASSUME NEW w \in Launches, Report(w) \/ Crash(w) PROVE Goal
  BY <1>2 DEF Report, Crash, Dies, Ended, Alive
<1>3. ASSUME NEW w \in Launches, Guard(w) PROVE Goal
  <2>1. UNCHANGED launchVars
    BY <1>3 DEF Guard, WatchParent, Watch, Restore
  <2> QED
    BY <2>1, <1>0 DEF launchVars
<1>4. CASE Stop
  <2>1. CASE StopReads \/ StopOpens \/ StopPolls \/ StopUnlinks
    BY <2>1, <1>0 DEF StopReads, StopOpens, StopPolls, StopUnlinks, ElsewhereStop
  <2>2. CASE StopSignals
    <3>1. CASE UNCHANGED <<stage, holder>>
      BY <2>2, <3>1, <1>0 DEF StopSignals, ElsewhereStop
    <3>2. CASE \E w \in Launches : stage[w] \in Unhandled /\ Ends(w, "gone")
      BY <2>2, <3>2 DEF StopSignals, ElsewhereStop, Dies, Ended, Alive, Unhandled
    <3> QED
      BY <2>2, <3>1, <3>2 DEF StopSignals
  <2> QED
    BY <1>4, <2>1, <2>2 DEF Stop
<1>5. CASE HelperEnds \/ HubLocks \/ HubStarts \/ UserStarts \/ UserStops \/ UNCHANGED vars
  BY <1>5, <1>0 DEF HelperEnds, HubLocks, HubStarts, UserStarts, UserStops, vars, launchVars
<1> QED
  BY <1>1, <1>2, <1>3, <1>4, <1>5 DEF Next, Worker, WayBack

\* A process has its identifier from its beginning to its end.
LEMMA LifeKeeps ==
  ASSUME LaunchInv, [Next]_vars
  PROVE  /\ HeldWhileAlive'
         /\ \A v \in Launches : /\ stage[v] # "off" => stage'[v] # "off"
                                /\ stage[v] \in Ended => stage'[v] \in Ended
<1> USE DEF LaunchInv, HeldWhileAlive, Alive
<1>1. CASE NobodyDies
  BY <1>1 DEF NobodyDies
<1>2. ASSUME NEW w \in Launches, Begin(w)
      PROVE  /\ HeldWhileAlive'
             /\ \A v \in Launches : /\ stage[v] # "off" => stage'[v] # "off"
                                    /\ stage[v] \in Ended => stage'[v] \in Ended
  <2>1. /\ stage[w] = "off" /\ stage'[w] = "lease"
        /\ \A v \in Launches \ {w} : stage'[v] = stage[v]
    BY <1>2 DEF Begin, Go, At, TypeOK
  <2>2. /\ holder[pid[w]] = Nobody /\ pid' = pid /\ holder'[pid[w]] = w
        /\ \A p \in Pids \ {pid[w]} : holder'[p] = holder[p]
    BY <1>2 DEF Begin, At, TypeOK
  <2>3. \A v \in Launches : pid[v] \in Pids /\ v # Nobody
    BY PeopleAssumption DEF TypeOK
  <2> QED
    BY <2>1, <2>2, <2>3 DEF Ended
<1>3. ASSUME NEW w \in Launches, Dies(w)
      PROVE  /\ HeldWhileAlive'
             /\ \A v \in Launches : /\ stage[v] # "off" => stage'[v] # "off"
                                    /\ stage[v] \in Ended => stage'[v] \in Ended
  <2>1. /\ Alive(w) /\ stage'[w] \in Ended
        /\ \A v \in Launches \ {w} : stage'[v] = stage[v]
    BY <1>3 DEF Dies, Ends, At, TypeOK
  <2>2. /\ pid' = pid /\ holder'[pid[w]] = Nobody
        /\ \A p \in Pids \ {pid[w]} : holder'[p] = holder[p]
    <3>1. /\ pid[w] \in Pids /\ holder \in [Pids -> Launches \cup {Stranger, Nobody}]
      BY DEF TypeOK
    <3>2. holder' = [holder EXCEPT ![pid[w]] = Nobody] /\ pid' = pid
      BY <1>3 DEF Dies, Ends, At
    <3> QED
      BY <3>1, <3>2
  <2>4. holder[pid[w]] = w
    BY <2>1
  <2>3. \A v \in Launches : pid[v] \in Pids /\ v # Nobody
    BY PeopleAssumption DEF TypeOK
  <2> QED
    BY <2>1, <2>2, <2>3, <2>4 DEF Ended
<1>4. ASSUME NEW p \in Pids, Recycle(p)
      PROVE  HeldWhileAlive' /\ stage' = stage
  <2>1. /\ stage' = stage /\ pid' = pid
        /\ holder[p] \in {Stranger, Nobody} /\ holder'[p] \in {Stranger, Nobody}
        /\ \A q \in Pids \ {p} : holder'[q] = holder[q]
    BY <1>4 DEF Recycle, At, TypeOK
  <2>2. \A v \in Launches : pid[v] \in Pids /\ v # Nobody /\ v # Stranger
    BY PeopleAssumption DEF TypeOK
  <2> QED
    BY <2>1, <2>2
<1> QED
  BY <1>1, <1>2, <1>3, <1>4, StepsOfLife

-----------------------------------------------------------------------------
(* The Hub stops the process of the record *)

\* The Hub goes to another stage of stopping, with the same process.
LEMMA StopGoesOn ==
  ASSUME TypeOK, NEW stopAt, StopAt(stopAt)
  PROVE  stopper'.at = stopAt /\ stopper'.rec = stopper.rec /\ stopper'.target = stopper.target
<1>1. stopper \in [at : {"idle", "open", "check", "poll", "unlink"},
                  rec : Launches \cup {Nobody}, target : Launches \cup {Stranger, Nobody}]
  BY DEF TypeOK
<1> QED
  BY <1>1 DEF StopAt

\* Nothing is stopped any more.
LEMMA StopIsOver == NotStopping.at = "idle"
  BY DEF NotStopping

\* Who is named by the record, by a helper or by the Hub keeps having begun.
LEMMA NamedKeeps ==
  ASSUME LaunchInv, [Next]_vars
  PROVE  NamedHaveBegun'
<1> USE DEF LaunchInv, NamedHaveBegun
<1>1. \A v \in Launches : stage[v] # "off" => stage'[v] # "off"
  BY LifeKeeps
<1>2. /\ active \in Launches \cup {Nobody} /\ bridge \in Launches \cup {Nobody}
      /\ Nobody \notin Launches
  BY PeopleAssumption DEF TypeOK
<1>3. UNCHANGED <<active, bridge, stopper>> => NamedHaveBegun'
  BY <1>1, <1>2
<1>4. ASSUME NEW w \in Launches, Worker(w) PROVE NamedHaveBegun'
  <2>1. stage'[w] # "off" /\ UNCHANGED stopper
    BY <1>4, WorkerLivesOn DEF LivesOn, At, TypeOK, Living, Unhandled, Playing, Restoring, Leaving
  <2>2. active' \in {active, Nobody, w}
    BY <1>4 DEF Worker, SetUp, Register, Refused, Query, Arm, StopDesktop, Game, Prepare, Boot, Abort, Quit, Finish,
                Play, Mark, WritePhase, StartAgain, Disarm, Unregister, Release
  <2>3. bridge' \in {bridge, Nobody, w}
    BY <1>4 DEF Worker, SetUp, Register, Refused, Query, Arm, StopDesktop, Game, Prepare, Boot, Abort, Quit, Finish,
                Play, Mark, WritePhase, StartAgain, Disarm, Unregister, Release
  <2> QED
    BY <2>1, <2>2, <2>3, <1>1, <1>2
<1>5. ASSUME NEW w \in Launches, Begin(w) \/ Report(w) \/ Crash(w) \/ Guard(w) PROVE NamedHaveBegun'
  BY <1>3, <1>5 DEF Begin, Report, Crash, Guard, WatchParent, Watch, Restore
<1>6. CASE Stop
  <2>1. bridge' = bridge /\ active' \in {active, Nobody}
    BY <1>6 DEF Stop, StopReads, StopOpens, StopSignals, StopPolls, StopUnlinks, ElsewhereStop
  <2>2. stopper'.at # "idle" => /\ stopper'.rec \in Launches /\ stage[stopper'.rec] # "off"
    <3>1. CASE StopReads
      BY <3>1, <1>2 DEF StopReads
    <3>2. CASE StopOpens \/ StopSignals \/ StopPolls \/ StopUnlinks
      <4>1. stopper.at # "idle"
        BY <3>2 DEF StopOpens, StopSignals, StopPolls, StopUnlinks
      <4>2. CASE StopOpens
        <5>1. stopper \in [at : {"idle", "open", "check", "poll", "unlink"},
                          rec : Launches \cup {Nobody}, target : Launches \cup {Stranger, Nobody}]
          BY DEF TypeOK
        <5>2. stopper'.rec = stopper.rec
          BY <4>2, <5>1 DEF StopOpens
        <5> QED
          BY <5>2, <4>1, <1>1
      <4>3. CASE StopSignals \/ StopPolls \/ StopUnlinks
        <5>1. stopper' = NotStopping \/ StopAt("poll") \/ StopAt("unlink")
          BY <4>3 DEF StopSignals, StopPolls, StopUnlinks
        <5>2. stopper'.rec = stopper.rec \/ stopper'.at = "idle"
          BY <5>1, StopGoesOn, StopIsOver
        <5> QED
          BY <5>2, <4>1, <1>1
      <4> QED
        BY <3>2, <4>2, <4>3
    <3> QED
      BY <1>6, <3>1, <3>2 DEF Stop
  <2> QED
    BY <2>1, <2>2, <1>1, <1>2
<1>7. CASE HelperEnds \/ HubLocks \/ HubStarts \/ UserStarts \/ UserStops \/ UNCHANGED vars
  BY <1>1, <1>2, <1>7 DEF HelperEnds, HubLocks, HubStarts, UserStarts, UserStops, vars
<1>8. ASSUME NEW p \in Pids, Recycle(p) PROVE NamedHaveBegun'
  BY <1>3, <1>8 DEF Recycle
<1> QED
  BY <1>4, <1>5, <1>6, <1>7, <1>8 DEF Next, Worker, WayBack

\* The Hub signals what it opened only while the record still matches, which a launch that
\* has ended never does again.
LEMMA StopKeeps ==
  ASSUME LaunchInv, [Next]_vars
  PROVE  OpenedIsRecorded' /\ StopHitsRecorded'
<1> USE DEF LaunchInv, OpenedIsRecorded, StopHitsRecorded
<1>1. \A v \in Launches : stage[v] \in Ended => stage'[v] \in Ended
  BY LifeKeeps
<1>2. /\ stopper.at # "idle" => stopper.rec \in Launches /\ stage[stopper.rec] # "off"
      /\ \A w \in Launches : holder[pid[w]] = w <=> stage[w] \notin Ended \cup {"off"}
  BY DEF NamedHaveBegun, HeldWhileAlive, Alive
<1>3. CASE UNCHANGED stopper
  BY <1>1, <1>2, <1>3
<1>4. CASE StopReads
  BY <1>4 DEF StopReads
<1>5. CASE StopOpens
  <2>1. /\ stopper'.rec = stopper.rec /\ stopper'.target = holder[pid[stopper.rec]]
        /\ stopper'.at = IF stopper'.target = Nobody THEN "poll" ELSE "check"
        /\ stage' = stage
    BY <1>5 DEF StopOpens, TypeOK
  <2> QED
    BY <2>1, <1>2, <1>5 DEF StopOpens
<1>6. CASE StopSignals
  <2>1. CASE Matches(stopper.rec)
    <3>1. stopper.at = "check" /\ StopAt("poll")
      BY <1>6, <2>1 DEF StopSignals
    <3>2. stopper'.at = "poll" /\ stopper'.rec = stopper.rec /\ stopper'.target = stopper.target
      BY <3>1, StopGoesOn
    <3>3. stopper.target = stopper.rec
      BY <3>1, <2>1, <1>2 DEF Matches
    <3> QED
      BY <3>2, <3>3
  <2>2. CASE ~Matches(stopper.rec)
    BY <1>6, <2>2, StopIsOver DEF StopSignals
  <2> QED
    BY <2>1, <2>2
<1>7. CASE StopPolls \/ StopUnlinks
  <2>1. stopper' = NotStopping \/ StopAt("unlink")
    BY <1>7 DEF StopPolls, StopUnlinks
  <2> QED
    BY <2>1, StopGoesOn, StopIsOver
<1>8. ASSUME NEW w \in Launches, Worker(w) PROVE UNCHANGED stopper
  BY <1>8, WorkerLivesOn DEF LivesOn
<1>9. ASSUME NEW w \in Launches, Begin(w) \/ Report(w) \/ Crash(w) \/ Guard(w) PROVE UNCHANGED stopper
  BY <1>9 DEF Begin, Report, Crash, Guard, WatchParent, Watch, Restore
<1>10. HelperEnds \/ HubLocks \/ HubStarts \/ UserStarts \/ UserStops \/ UNCHANGED vars => UNCHANGED stopper
  BY DEF HelperEnds, HubLocks, HubStarts, UserStarts, UserStops, vars
<1>11. ASSUME NEW p \in Pids, Recycle(p) PROVE UNCHANGED stopper
  BY <1>11 DEF Recycle
<1> QED
  BY <1>3, <1>4, <1>5, <1>6, <1>7, <1>8, <1>9, <1>10, <1>11 DEF Next, Stop, Worker, WayBack

-----------------------------------------------------------------------------
(* The ticket and the watchdog follow the stage of their launch *)

\* only w is touched
OnlyOf(w) == \A v \in Launches \ {w} : UNCHANGED <<stage[v], restore[v], ticket[v], watchdog[v]>>

\* w goes on with the ticket it has, or without one
GoesOn(w) ==
  /\ UNCHANGED <<restore[w], ticket[w], watchdog[w]>>
  /\ \/ stage'[w] \in Leaving
     \/ stage[w] \in Unarmed /\ stage'[w] \in Unarmed
     \/ /\ stage[w] \in Ticketed /\ stage'[w] \in Ticketed
        /\ stage'[w] \in Restoring => restore[w]

\* A step of one launch leaves what the others have.
LEMMA StepsOfOne ==
  ASSUME TypeOK, NEW w \in Launches, Worker(w) \/ Begin(w) \/ Report(w) \/ Crash(w) \/ Guard(w)
  PROVE  OnlyOf(w)
<1> USE DEF OnlyOf, At
<1>0. /\ stage \in [Launches -> Stages] /\ restore \in [Launches -> BOOLEAN]
      /\ DOMAIN ticket = Launches /\ DOMAIN watchdog = Launches
  BY DEF TypeOK
<1>1. \A from, to : Go(w, from, to) => \A v \in Launches \ {w} : stage'[v] = stage[v]
  BY <1>0 DEF Go
<1>2. CASE SetUp(w)
  BY <1>0, <1>1, <1>2 DEF SetUp, Register, Refused, Query, Arm, StopDesktop, guardVars
<1>3. CASE Game(w) \/ Play(w)
  <2>1. UNCHANGED <<restore, guardVars>>
    BY <1>3 DEF Game, Prepare, Boot, Abort, Quit, Finish, Play
  <2>2. \A v \in Launches \ {w} : stage'[v] = stage[v]
    BY <1>0, <1>1, <1>3 DEF Game, Prepare, Boot, Abort, Quit, Finish, Play
  <2> QED
    BY <2>1, <2>2 DEF guardVars
<1>4. CASE Mark(w) \/ WritePhase(w) \/ Disarm(w)
  BY <1>0, <1>1, <1>4 DEF Mark, WritePhase, Disarm
<1>5. CASE StartAgain(w) \/ Unregister(w) \/ Release(w) \/ Begin(w)
  BY <1>0, <1>1, <1>5 DEF StartAgain, StartDesktop, Unregister, Release, Begin, guardVars
<1>6. CASE Report(w) \/ Crash(w)
  BY <1>0, <1>6 DEF Report, Crash, Ends, guardVars
<1>7. CASE Guard(w)
  BY <1>0, <1>7 DEF Guard, WatchParent, Watch, Restore, StartDesktop, launchVars
<1> QED
  BY <1>2, <1>3, <1>4, <1>5, <1>6, <1>7 DEF Worker

\* A launch that goes on still has what its stage asks for.
LEMMA GoingOnKeeps ==
  ASSUME NEW w \in Launches, TicketFollowsStage(w), Alive(w), GoesOn(w)
  PROVE  TicketFollowsStage(w)'
<1> USE DEF TicketFollowsStage, GoesOn, Alive, Unarmed, Ticketed, Ended
<1>1. stage[w] \notin Ended
  OBVIOUS
<1>2. CASE stage'[w] \in Leaving
  BY <1>1, <1>2 DEF Leaving, Restoring, Playing
<1>3. CASE stage[w] \in Unarmed /\ stage'[w] \in Unarmed
  BY <1>1, <1>3 DEF Restoring, Playing
<1>4. CASE stage[w] \in Ticketed /\ stage'[w] \in Ticketed /\ (stage'[w] \in Restoring => restore[w])
  BY <1>1, <1>4 DEF Restoring, Playing
<1> QED
  BY <1>2, <1>3, <1>4

\* Most steps of a worker are of that kind.
LEMMA StepsThatGoOn ==
  ASSUME TypeOK, NEW w \in Launches,
         \/ Begin(w) \/ Register(w) \/ Refused(w) \/ StopDesktop(w) \/ Game(w) \/ Play(w)
         \/ StartAgain(w) \/ Unregister(w) \/ Release(w),
         TicketFollowsStage(w)
  PROVE  GoesOn(w)
<1> USE DEF GoesOn
<1>0. stage \in [Launches -> Stages]
  BY DEF TypeOK
<1>1. \A from, to : Go(w, from, to) => stage[w] = from /\ stage'[w] = to
  BY <1>0 DEF Go, At
<1>2. AfterGame(w) \in Ticketed \cup Leaving /\ (AfterGame(w) \in Restoring => restore[w])
  BY DEF AfterGame, Ticketed, Leaving, Restoring
<1>3. CASE Begin(w) \/ Register(w) \/ Refused(w) \/ Unregister(w) \/ Release(w)
  <2>1. UNCHANGED <<restore[w], ticket[w], watchdog[w]>>
    BY <1>3 DEF Begin, Register, Refused, Unregister, Release, guardVars
  <2>2. stage'[w] \in Leaving \/ (stage[w] \in Unarmed /\ stage'[w] \in Unarmed)
    BY <1>1, <1>3 DEF Begin, Register, Refused, Unregister, Release, Leaving, Unarmed
  <2> QED
    BY <2>1, <2>2
<1>4. CASE StopDesktop(w) \/ Game(w) \/ Play(w)
  <2>1. UNCHANGED <<restore[w], ticket[w], watchdog[w]>>
    BY <1>4 DEF StopDesktop, Game, Prepare, Boot, Abort, Quit, Finish, Play, guardVars
  <2>2. CASE Finish(w)
    BY <2>1, <2>2, <1>0, <1>2 DEF Finish, At, Ticketed, Playing
  <2>3. CASE StopDesktop(w) \/ Prepare(w) \/ Boot(w) \/ Abort(w) \/ Quit(w) \/ Play(w)
    <3>1. /\ stage[w] \in Ticketed
          /\ stage'[w] \in Playing \cup {AfterGame(w)}
      BY <2>3, <1>1 DEF StopDesktop, Prepare, Boot, Abort, Quit, Play, Ticketed, Playing
    <3> QED
      BY <2>1, <3>1, <1>2 DEF Ticketed, Playing, Restoring
  <2> QED
    BY <1>4, <2>2, <2>3 DEF Game
<1>5. CASE StartAgain(w)
  <2>1. UNCHANGED <<restore[w], ticket[w], watchdog[w]>>
    BY <1>5 DEF StartAgain, StartDesktop, guardVars
  <2>2. stage[w] = "start" /\ stage'[w] \in {"disarm", "look"}
    BY <1>1, <1>5 DEF StartAgain, StartDesktop
  <2>3. stage[w] \in Restoring => restore[w]
    BY DEF TicketFollowsStage
  <2> QED
    BY <2>1, <2>2, <2>3 DEF Ticketed, Restoring, Leaving
<1> QED
  BY <1>3, <1>4, <1>5

\* The watchdog is armed by Arm and looks for a phase only after its launch has ended.
LEMMA OtherStepsOfTicket ==
  ASSUME LaunchInv, NEW w \in Launches,
         \/ Query(w) \/ Arm(w) \/ Mark(w) \/ WritePhase(w) \/ Disarm(w)
         \/ Dies(w) /\ UNCHANGED guardVars
         \/ Guard(w)
  PROVE  TicketFollowsStage(w)'
<1>0. /\ stage \in [Launches -> Stages] /\ restore \in [Launches -> BOOLEAN]
      /\ DOMAIN ticket = Launches /\ DOMAIN watchdog = Launches
      /\ ticket[w] \in {"none", "armed", "blank", "restoring"}
      /\ watchdog[w] \in {"off", "await", "watch", "start", "done"}
  BY DEF LaunchInv, TypeOK
<1>1. \A from, to : Go(w, from, to) => stage[w] = from /\ stage'[w] = to
  BY <1>0 DEF Go, At
<1>2. TicketFollowsStage(w)
  BY DEF LaunchInv, TicketsFollowStages
<1> USE DEF TicketFollowsStage
<1>3. CASE Query(w)
  <2>1. /\ stage[w] = "query" /\ UNCHANGED <<ticket[w], watchdog[w]>>
        /\ \/ stage'[w] \in {"arm", "look"}
           \/ stage'[w] = "stop" /\ ~restore'[w]
    BY <1>0, <1>1, <1>3 DEF Query, At, guardVars
  <2> QED
    BY <1>2, <2>1 DEF Unarmed, Ticketed, Playing, Restoring, Ended
<1>4. CASE Arm(w)
  <2>1. /\ stage[w] = "arm" /\ restore'[w] = restore[w]
        /\ \/ stage'[w] = "stop" /\ ticket'[w] = "armed" /\ watchdog'[w] = "await"
           \/ stage'[w] = "look" /\ UNCHANGED <<ticket[w], watchdog[w]>>
    BY <1>0, <1>1, <1>4 DEF Arm, At, guardVars
  <2> QED
    BY <1>2, <2>1 DEF Unarmed, Ticketed, Playing, Restoring, Ended
<1>5. CASE Mark(w) \/ WritePhase(w)
  <2>1. /\ stage[w] \in {"mark", "write"} /\ stage'[w] \in {"write", "start"}
        /\ UNCHANGED <<restore[w], watchdog[w]>>
        /\ ticket'[w] \in {ticket[w], "blank", "restoring"}
    BY <1>0, <1>1, <1>5 DEF Mark, WritePhase, At
  <2> QED
    BY <1>2, <2>1 DEF Unarmed, Ticketed, Playing, Restoring, Ended
<1>6. CASE Disarm(w)
  <2>1. /\ stage[w] = "disarm" /\ stage'[w] = "look"
        /\ UNCHANGED <<restore[w], watchdog[w]>>
        /\ ticket'[w] \in {ticket[w], "none"}
    BY <1>0, <1>1, <1>6 DEF Disarm, At
  <2> QED
    BY <1>2, <2>1 DEF Unarmed, Ticketed, Playing, Restoring, Ended
<1>7. CASE Dies(w) /\ UNCHANGED guardVars
  <2>1. /\ stage'[w] \in Ended /\ UNCHANGED <<ticket[w], watchdog[w]>>
        /\ stage[w] \notin Ended
    BY <1>0, <1>7 DEF Dies, Ends, At, guardVars, Alive
  <2> QED
    BY <1>2, <2>1 DEF Unarmed, Ticketed, Playing, Restoring, Ended
<1>8. CASE WatchParent(w)
  <2>1. /\ UNCHANGED <<stage[w], restore[w], ticket[w]>> /\ watchdog[w] = "await"
        /\ \/ ticket[w] = "none" /\ watchdog'[w] = "done"
           \/ ticket[w] # "none" /\ holder[pid[w]] = Nobody /\ watchdog'[w] = "watch"
    BY <1>0, <1>8 DEF WatchParent, At, launchVars
  <2>2. CASE watchdog'[w] = "done" /\ ticket[w] = "none"
    BY <1>2, <2>1, <2>2 DEF Unarmed
  <2>3. CASE holder[pid[w]] = Nobody /\ ticket[w] # "none" /\ watchdog'[w] = "watch"
    <3>1. holder[pid[w]] # w
      BY <2>3, PeopleAssumption
    <3>2. stage[w] \in Ended
      BY <1>2, <2>1, <3>1 DEF LaunchInv, HeldWhileAlive, Alive, Unarmed
    <3> QED
      BY <1>2, <2>1, <2>3, <3>2 DEF Unarmed, Ticketed, Playing, Restoring, Ended
  <2> QED
    BY <2>1, <2>2, <2>3
<1>9. CASE Watch(w) \/ Restore(w)
  <2>1. /\ UNCHANGED <<stage[w], restore[w]>> /\ watchdog[w] \in {"watch", "start"}
        /\ \/ ticket'[w] = "none" /\ watchdog'[w] = "done"
           \/ ticket'[w] = ticket[w] /\ watchdog'[w] \in {"watch", "start"}
    BY <1>0, <1>9 DEF Watch, Restore, StartDesktop, At, launchVars
  <2> QED
    BY <1>2, <2>1 DEF Unarmed, Ticketed, Playing, Restoring, Ended
<1> QED
  BY <1>3, <1>4, <1>5, <1>6, <1>7, <1>8, <1>9 DEF Guard

\* A launch that is not touched keeps what it has.
LEMMA UntouchedKeeps ==
  ASSUME NEW v \in Launches, TicketFollowsStage(v),
         UNCHANGED <<stage[v], restore[v], ticket[v], watchdog[v]>>
  PROVE  TicketFollowsStage(v)'
  BY DEF TicketFollowsStage

\* Tickets and watchdogs follow the launches over every step.
LEMMA TicketsKeep ==
  ASSUME LaunchInv, [Next]_vars
  PROVE  TicketsFollowStages'
<1>0. TypeOK /\ \A v \in Launches : TicketFollowsStage(v)
  BY DEF LaunchInv, TicketsFollowStages
<1>1. ASSUME NEW w \in Launches, OnlyOf(w), TicketFollowsStage(w)' PROVE TicketsFollowStages'
  BY <1>0, <1>1, UntouchedKeeps DEF OnlyOf, TicketsFollowStages
<1>2. ASSUME NEW w \in Launches,
             \/ Begin(w) \/ Register(w) \/ Refused(w) \/ StopDesktop(w) \/ Game(w) \/ Play(w)
             \/ StartAgain(w) \/ Unregister(w) \/ Release(w)
      PROVE  TicketsFollowStages'
  <2>1. OnlyOf(w) /\ GoesOn(w)
    BY <1>0, <1>2, StepsOfOne, StepsThatGoOn DEF Worker, SetUp
  <2>2. CASE Begin(w)
    <3>1. stage'[w] = "lease" /\ stage[w] = "off"
      BY <1>0, <2>2 DEF Begin, Go, At, TypeOK
    <3>2. TicketFollowsStage(w)'
      BY <1>0, <2>1, <3>1 DEF TicketFollowsStage, GoesOn, Unarmed, Ticketed, Playing, Restoring, Ended
    <3> QED
      BY <1>1, <2>1, <3>2
  <2>3. CASE ~Begin(w)
    <3>1. Alive(w)
      BY <1>0, <1>2, <2>3, WorkerLivesOn DEF Worker, SetUp, LivesOn
    <3> QED
      BY <1>0, <1>1, <2>1, <3>1, GoingOnKeeps
  <2> QED
    BY <2>2, <2>3
<1>3. ASSUME NEW w \in Launches, Query(w) \/ Arm(w) \/ Mark(w) \/ WritePhase(w) \/ Disarm(w) \/ Guard(w)
      PROVE  TicketsFollowStages'
  <2>1. OnlyOf(w)
    BY <1>0, <1>3, StepsOfOne DEF Worker, SetUp
  <2> QED
    BY <1>1, <1>3, <2>1, OtherStepsOfTicket
<1>4. ASSUME NEW w \in Launches, Dies(w), UNCHANGED guardVars PROVE TicketsFollowStages'
  <2>1. OnlyOf(w)
    BY <1>0, <1>4 DEF Dies, Ends, OnlyOf, At, guardVars, TypeOK
  <2> QED
    BY <1>1, <1>4, <2>1, OtherStepsOfTicket
<1>5. ASSUME NEW w \in Launches, Report(w) \/ Crash(w) PROVE TicketsFollowStages'
  <2>1. Dies(w) /\ UNCHANGED guardVars
    BY <1>5 DEF Report, Crash, Dies, Ended, Alive
  <2> QED
    BY <1>4, <2>1
<1>6. ASSUME UNCHANGED <<stage, restore, guardVars>> PROVE TicketsFollowStages'
  BY <1>0, <1>6, UntouchedKeeps DEF TicketsFollowStages, guardVars
<1>7. CASE Stop
  <2>1. UNCHANGED guardVars
    BY <1>7 DEF Stop, StopReads, StopOpens, StopSignals, StopPolls, StopUnlinks, ElsewhereStop
  <2>2. UNCHANGED <<stage, restore>> \/ \E w \in Launches : Dies(w)
    <3>1. CASE StopSignals
      BY <3>1 DEF StopSignals, ElsewhereStop, Dies, Ended, Alive, Unhandled
    <3>2. CASE StopReads \/ StopOpens \/ StopPolls \/ StopUnlinks
      BY <3>2 DEF StopReads, StopOpens, StopPolls, StopUnlinks
    <3> QED
      BY <1>7, <3>1, <3>2 DEF Stop
  <2> QED
    BY <2>1, <2>2, <1>4, <1>6
<1>8. CASE \/ HelperEnds \/ HubLocks \/ HubStarts \/ UserStarts \/ UserStops \/ UNCHANGED vars
           \/ \E p \in Pids : Recycle(p)
  <2>1. UNCHANGED <<stage, restore, guardVars>>
    BY <1>8 DEF HelperEnds, HubLocks, HubStarts, UserStarts, UserStops, Recycle, vars, launchVars
  <2> QED
    BY <1>6, <2>1
<1> QED
  BY <1>2, <1>3, <1>5, <1>7, <1>8 DEF Next, SetUp, WayBack

-----------------------------------------------------------------------------
(* What is owed is written down *)

Debtless == session = "desktop" => \A v \in Launches : ~debt[v]

Written(v) == debt[v] /\ excuse[v] = "none" => ticket[v] # "none" /\ stage[v] # "disarm"

\* A desktop session that is there pays every debt.
LEMMA DesktopPays ==
  ASSUME TypeOK, Debtless, DesktopStep
  PROVE  Debtless'
<1> USE DEF Debtless
<1>1. CASE UNCHANGED desktopVars
  BY <1>1 DEF desktopVars
<1>2. CASE \E next \in {"stopped", "desktop", "game"} : Session(next)
  BY <1>2 DEF Session
<1>3. CASE \E w \in Launches : CutDown(w)
  BY <1>3 DEF CutDown
<1>4. CASE \E w \in Launches : Running /\ Believe(w)
  BY <1>4 DEF Believe
<1> QED
  BY <1>1, <1>2, <1>3, <1>4 DEF DesktopStep

\* A step that neither removes the ticket of v nor takes it to its removal.
LEMMA DebtIsKept ==
  ASSUME TypeOK, NEW v \in Launches, Written(v), DesktopStep,
         ticket[v] # "none" => ticket'[v] # "none",
         stage'[v] = "disarm" => stage[v] = "disarm"
  PROVE  Written(v)'
<1> USE DEF Written
<1>0. debt \in [Launches -> BOOLEAN] /\ DOMAIN excuse = Launches
  BY DEF TypeOK
<1>1. CASE UNCHANGED desktopVars
  BY <1>1 DEF desktopVars
<1>2. CASE \E next \in {"stopped", "desktop", "game"} : Session(next)
  BY <1>2 DEF Session
<1>3. ASSUME NEW w \in Launches, CutDown(w) PROVE Written(v)'
  <2>1. CASE w # v
    BY <1>0, <1>3, <2>1 DEF CutDown, At
  <2>2. CASE w = v
    <3>1. /\ debt'[v] <=> debt[v] \/ session = "desktop"
          /\ excuse'[v] = IF session = "desktop" /\ (ticket[v] = "none" \/ stage[v] = "disarm")
                          THEN "cut down" ELSE excuse[v]
      BY <1>0, <1>3, <2>2 DEF CutDown, At
    <3> QED
      BY <3>1
  <2> QED
    BY <2>1, <2>2
<1>4. ASSUME NEW w \in Launches, Believe(w) PROVE Written(v)'
  <2>1. debt' = debt /\ excuse'[v] \in {excuse[v], "mistaken"}
    BY <1>0, <1>4 DEF Believe, At
  <2> QED
    BY <2>1
<1> QED
  BY <1>1, <1>2, <1>3, <1>4 DEF DesktopStep

\* Where the ticket goes, the session is running, and it is the desktop's or mistaken
\* for it.
LEMMA DebtIsPaid ==
  ASSUME TypeOK, Debtless, NEW v \in Launches,
         (Running /\ Believe(v)) \/ Session("desktop")
  PROVE  Written(v)'
<1> USE DEF Written
<1>1. CASE Session("desktop")
  BY <1>1 DEF Session
<1>2. CASE Running /\ Believe(v)
  <2>1. CASE session = "desktop"
    BY <1>2, <2>1 DEF Debtless, Believe
  <2>2. CASE session = "game"
    <3>1. excuse'[v] = "mistaken"
      BY <1>2, <2>2 DEF Believe, At, TypeOK
    <3> QED
      BY <3>1
  <2> QED
    BY <1>2, <2>1, <2>2 DEF Running, TypeOK
<1> QED
  BY <1>1, <1>2

\* Every debt the code can know of stays written down until it is paid.
LEMMA DebtsKeep ==
  ASSUME LaunchInv, [Next]_vars
  PROVE  DebtsAreWritten'
<1>0. TypeOK /\ Debtless /\ \A v \in Launches : Written(v)
  BY DEF LaunchInv, DebtsAreWritten, Debtless, Written
<1>1. DesktopStep /\ Debtless'
  BY <1>0, StepsOfDesktop, DesktopPays
<1> SUFFICES ASSUME NEW v \in Launches PROVE Written(v)'
  BY <1>1 DEF DebtsAreWritten, Debtless, Written
<1>2. /\ stage \in [Launches -> Stages] /\ DOMAIN ticket = Launches
  BY <1>0 DEF TypeOK
<1>3. \A from, to : Go(v, from, to) => stage[v] = from /\ stage'[v] = to
  BY <1>2 DEF Go, At
<1>4. ASSUME ticket'[v] = ticket[v], stage'[v] # "disarm" \/ stage'[v] = stage[v] PROVE Written(v)'
  BY <1>0, <1>1, <1>4, DebtIsKept
<1>5. ASSUME NEW w \in Launches, w # v, OnlyOf(w) PROVE Written(v)'
  BY <1>4, <1>5 DEF OnlyOf
<1>6. CASE SetUp(v)
  <2>1. CASE Register(v) \/ Refused(v) \/ Query(v)
    BY <2>1, <1>3, <1>4 DEF Register, Refused, Query, guardVars
  <2>2. CASE StopDesktop(v)
    <3>1. ticket'[v] = ticket[v] /\ stage'[v] # "disarm"
      BY <2>2, <1>3 DEF StopDesktop, AfterGame, guardVars
    <3> QED
      BY <1>4, <3>1
  <2>3. CASE Arm(v)
    <3>1. stage'[v] # "disarm" /\ ticket'[v] \in {ticket[v], "armed"}
      BY <2>3, <1>2, <1>3 DEF Arm, At, guardVars
    <3> QED
      BY <1>0, <1>1, <3>1, DebtIsKept
  <2> QED
    BY <1>6, <2>1, <2>2, <2>3 DEF SetUp
<1>7. CASE Game(v) \/ Play(v)
  <2>1. ticket'[v] = ticket[v]
    BY <1>7 DEF Game, Prepare, Boot, Abort, Quit, Finish, Play, guardVars
  <2>2. stage'[v] # "disarm"
    BY <1>7, <1>2, <1>3 DEF Game, Prepare, Boot, Abort, Quit, Finish, Play, AfterGame, At
  <2> QED
    BY <1>4, <2>1, <2>2
<1>8. CASE Mark(v) \/ WritePhase(v)
  <2>1. stage'[v] # "disarm" /\ ticket'[v] \in {ticket[v], "blank", "restoring"}
    BY <1>8, <1>2, <1>3 DEF Mark, WritePhase, At
  <2> QED
    BY <1>0, <1>1, <2>1, DebtIsKept
<1>9. CASE StartAgain(v)
  <2>1. CASE (Running /\ Believe(v)) \/ Session("desktop")
    BY <1>0, <2>1, DebtIsPaid
  <2>2. CASE ~((Running /\ Believe(v)) \/ Session("desktop"))
    <3>1. ticket'[v] = ticket[v] /\ stage'[v] # "disarm"
      BY <1>9, <2>2, <1>3 DEF StartAgain, StartDesktop, guardVars
    <3> QED
      BY <1>4, <3>1
  <2> QED
    BY <2>1, <2>2
<1>10. CASE Disarm(v)
  <2>1. UNCHANGED desktopVars /\ stage[v] = "disarm"
    BY <1>10, <1>3 DEF Disarm
  <2> QED
    BY <1>0, <2>1 DEF Written, desktopVars
<1>11. CASE Begin(v) \/ Unregister(v) \/ Release(v)
  BY <1>11, <1>3, <1>4 DEF Begin, Unregister, Release, guardVars
<1>12. ASSUME NEW w \in Launches, Dies(w), UNCHANGED guardVars PROVE Written(v)'
  <2>1. ticket'[v] = ticket[v] /\ (stage'[v] = stage[v] \/ stage'[v] \in Ended)
    BY <1>12, <1>2 DEF Dies, Ends, At, guardVars
  <2> QED
    BY <1>4, <2>1 DEF Ended
<1>13. ASSUME NEW w \in Launches, Report(w) \/ Crash(w) PROVE Written(v)'
  <2>1. Dies(w) /\ UNCHANGED guardVars
    BY <1>13 DEF Report, Crash, Dies, Ended, Alive
  <2> QED
    BY <1>12, <2>1
<1>14. CASE Guard(v)
  <2>1. CASE WatchParent(v)
    BY <2>1, <1>4 DEF WatchParent, launchVars
  <2>2. CASE Watch(v) /\ Action(ticket[v]) = "complete"
    <3>1. Running /\ Believe(v)
      BY <2>2 DEF Watch, Action
    <3> QED
      BY <1>0, <3>1, DebtIsPaid
  <2>3. CASE Watch(v) /\ Action(ticket[v]) # "complete"
    BY <2>3, <1>4 DEF Watch, launchVars
  <2>4. CASE Restore(v)
    <3>1. CASE (Running /\ Believe(v)) \/ Session("desktop")
      BY <1>0, <3>1, DebtIsPaid
    <3>2. CASE ~((Running /\ Believe(v)) \/ Session("desktop"))
      <4>1. ticket'[v] = ticket[v] /\ stage' = stage
        BY <2>4, <3>2 DEF Restore, StartDesktop, launchVars
      <4> QED
        BY <1>4, <4>1
    <3> QED
      BY <3>1, <3>2
  <2> QED
    BY <1>14, <2>1, <2>2, <2>3, <2>4 DEF Guard
<1>15. CASE Stop
  <2>1. UNCHANGED guardVars
    BY <1>15 DEF Stop, StopReads, StopOpens, StopSignals, StopPolls, StopUnlinks, ElsewhereStop
  <2>2. UNCHANGED stage \/ \E w \in Launches : Dies(w)
    <3>1. CASE StopSignals
      BY <3>1 DEF StopSignals, ElsewhereStop, Dies, Ended, Alive, Unhandled
    <3>2. CASE StopReads \/ StopOpens \/ StopPolls \/ StopUnlinks
      BY <3>2 DEF StopReads, StopOpens, StopPolls, StopUnlinks
    <3> QED
      BY <1>15, <3>1, <3>2 DEF Stop
  <2> QED
    BY <2>1, <2>2, <1>4, <1>12 DEF guardVars
<1>16. CASE \/ HelperEnds \/ HubLocks \/ HubStarts \/ UserStarts \/ UserStops \/ UNCHANGED vars
            \/ \E p \in Pids : Recycle(p)
  <2>1. UNCHANGED <<stage, ticket>>
    BY <1>16 DEF HelperEnds, HubLocks, HubStarts, UserStarts, UserStops, Recycle, vars, launchVars, guardVars
  <2> QED
    BY <1>4, <2>1
<1>17. ASSUME NEW w \in Launches, Worker(w) \/ Begin(w) \/ Guard(w) PROVE Written(v)'
  <2>1. CASE w # v
    BY <1>0, <1>5, <1>17, <2>1, StepsOfOne
  <2>2. CASE w = v
    BY <1>17, <2>2, <1>6, <1>7, <1>8, <1>9, <1>10, <1>11, <1>14 DEF Worker
  <2> QED
    BY <2>1, <2>2
<1> QED
  BY <1>13, <1>15, <1>16, <1>17 DEF Next, Worker, WayBack

-----------------------------------------------------------------------------
(* Types *)

ProcessesTyped ==
  /\ pid \in [Launches -> Pids]
  /\ holder \in [Pids -> Launches \cup {Stranger, Nobody}]
  /\ stage \in [Launches -> Stages]

LaunchesTyped ==
  /\ restore \in [Launches -> BOOLEAN] /\ fine \in [Launches -> BOOLEAN]
  /\ ticket \in [Launches -> {"none", "armed", "blank", "restoring"}]
  /\ watchdog \in [Launches -> {"off", "await", "watch", "start", "done"}]

DesktopTyped ==
  /\ session \in {"stopped", "desktop", "game"}
  /\ debt \in [Launches -> BOOLEAN]
  /\ excuse \in [Launches -> {"none", "cut down", "mistaken"}]

NamesTyped ==
  /\ bridge \in Launches \cup {Nobody}
  /\ lease \in Launches \cup {Nobody, Hub}
  /\ active \in Launches \cup {Nobody}
  /\ hub \in {"idle", "start"}

StopTyped ==
  stopper \in [at : {"idle", "open", "check", "poll", "unlink"},
               rec : Launches \cup {Nobody}, target : Launches \cup {Stranger, Nobody}]

CountsTyped == faults \in 0 .. MaxFaults /\ acts \in 0 .. MaxActs

\* Processes and their identifiers.
LEMMA ProcessTypes ==
  ASSUME LaunchInv, [Next]_vars
  PROVE  ProcessesTyped'
<1>0. ProcessesTyped /\ TypeOK
  BY DEF LaunchInv, TypeOK, ProcessesTyped
<1>1. ASSUME NEW w \in Launches, NEW s \in Stages, stage' = At(stage, w, s), UNCHANGED <<pid, holder>>
      PROVE  ProcessesTyped'
  BY <1>0, <1>1 DEF ProcessesTyped, At
<1>2. ASSUME NEW w \in Launches, Worker(w) PROVE ProcessesTyped'
  <2>1. PICK s \in Living : stage' = At(stage, w, s) /\ UNCHANGED <<pid, holder>>
    BY <1>0, <1>2, WorkerLivesOn DEF LivesOn
  <2> QED
    BY <2>1, <1>1 DEF Living, Stages
<1>3. ASSUME NEW w \in Launches, Begin(w) PROVE ProcessesTyped'
  <2>1. /\ stage' = [stage EXCEPT ![w] = "lease"] /\ pid' = pid
        /\ holder' = [holder EXCEPT ![pid[w]] = w]
    BY <1>3 DEF Begin, Go, At
  <2>2. "lease" \in Stages
    BY DEF Stages, Unhandled
  <2> QED
    BY <1>0, <2>1, <2>2 DEF ProcessesTyped
<1>4. ASSUME NEW w \in Launches, NEW last \in Ended, Ends(w, last), UNCHANGED pid
      PROVE  ProcessesTyped'
  BY <1>0, <1>4 DEF Ends, At, ProcessesTyped, Stages
<1>5. ASSUME NEW w \in Launches, Report(w) \/ Crash(w) PROVE ProcessesTyped'
  BY <1>4, <1>5 DEF Report, Crash, Ended
<1>6. CASE StopSignals
  <2>1. "gone" \in Ended
    BY DEF Ended
  <2>2. CASE UNCHANGED <<stage, holder>>
    BY <1>0, <1>6, <2>2 DEF StopSignals, ElsewhereStop, ProcessesTyped
  <2>3. CASE \E w \in Launches : Ends(w, "gone")
    BY <1>4, <1>6, <2>1, <2>3 DEF StopSignals, ElsewhereStop
  <2> QED
    BY <1>6, <2>2, <2>3 DEF StopSignals
<1>7. CASE StopReads \/ StopOpens \/ StopPolls \/ StopUnlinks
  BY <1>0, <1>7 DEF StopReads, StopOpens, StopPolls, StopUnlinks, ElsewhereStop, ProcessesTyped
<1>8. ASSUME NEW w \in Launches, Guard(w) PROVE ProcessesTyped'
  BY <1>0, <1>8 DEF Guard, WatchParent, Watch, Restore, launchVars, ProcessesTyped
<1>9. CASE HelperEnds \/ HubLocks \/ HubStarts \/ UserStarts \/ UserStops \/ UNCHANGED vars
  BY <1>0, <1>9 DEF HelperEnds, HubLocks, HubStarts, UserStarts, UserStops, vars, launchVars, ProcessesTyped
<1>10. ASSUME NEW p \in Pids, Recycle(p) PROVE ProcessesTyped'
  <2>1. /\ \E x \in {Stranger, Nobody} : holder' = [holder EXCEPT ![p] = x]
        /\ UNCHANGED <<pid, stage>>
    BY <1>10 DEF Recycle, At
  <2> QED
    BY <1>0, <2>1 DEF ProcessesTyped
<1> QED
  BY <1>2, <1>3, <1>5, <1>6, <1>7, <1>8, <1>9, <1>10 DEF Next, Worker, WayBack, Stop

\* What launches remember, and their tickets.
LEMMA LaunchTypes ==
  ASSUME LaunchInv, [Next]_vars
  PROVE  LaunchesTyped'
<1>0. LaunchesTyped
  BY DEF LaunchInv, TypeOK, LaunchesTyped
<1> USE DEF LaunchesTyped, At, Fails
<1>1. UNCHANGED <<restore, fine, ticket, watchdog>> => LaunchesTyped'
  BY <1>0
<1>2. ASSUME NEW w \in Launches, SetUp(w) PROVE LaunchesTyped'
  BY <1>0, <1>2 DEF SetUp, Register, Refused, Query, Arm, StopDesktop, Running, guardVars
<1>3. ASSUME NEW w \in Launches, Game(w) \/ Play(w) PROVE LaunchesTyped'
  <2>1. UNCHANGED <<restore, guardVars>>
    BY <1>3 DEF Game, Prepare, Boot, Abort, Quit, Finish, Play
  <2>2. fine' = fine \/ fine' = [fine EXCEPT ![w] = FALSE]
    BY <1>3 DEF Game, Prepare, Boot, Abort, Quit, Finish, Play
  <2> QED
    BY <1>0, <2>1, <2>2 DEF guardVars
<1>4. ASSUME NEW w \in Launches, Begin(w) \/ Mark(w) \/ WritePhase(w) \/ StartAgain(w) \/ Disarm(w)
      PROVE  LaunchesTyped'
  BY <1>0, <1>4 DEF Begin, Mark, WritePhase, StartAgain, StartDesktop, Disarm, guardVars
<1>5. ASSUME NEW w \in Launches, Unregister(w) \/ Release(w) \/ Report(w) \/ Crash(w)
      PROVE  LaunchesTyped'
  BY <1>0, <1>5 DEF Unregister, Release, Report, Crash, Ends, guardVars
<1>6. ASSUME NEW w \in Launches, Guard(w) PROVE LaunchesTyped'
  BY <1>0, <1>6 DEF Guard, WatchParent, Watch, Restore, StartDesktop, launchVars
<1>7. CASE Stop
  <2>1. UNCHANGED guardVars
    BY <1>7 DEF Stop, StopReads, StopOpens, StopSignals, StopPolls, StopUnlinks, ElsewhereStop
  <2>2. \/ UNCHANGED <<restore, fine>>
        \/ \E w \in Launches : /\ restore' = [restore EXCEPT ![w] = FALSE]
                               /\ fine' = [fine EXCEPT ![w] = FALSE]
    BY <1>7 DEF Stop, StopReads, StopOpens, StopSignals, StopPolls, StopUnlinks, Ends
  <2> QED
    BY <1>0, <2>1, <2>2 DEF guardVars
<1>8. CASE \/ HelperEnds \/ HubLocks \/ HubStarts \/ UserStarts \/ UserStops \/ UNCHANGED vars
           \/ \E p \in Pids : Recycle(p)
  BY <1>1, <1>8 DEF HelperEnds, HubLocks, HubStarts, UserStarts, UserStops, Recycle, vars, launchVars, guardVars
<1> QED
  BY <1>2, <1>3, <1>4, <1>5, <1>6, <1>7, <1>8 DEF Next, WayBack

\* Waydroid's session and its history.
LEMMA DesktopTypes ==
  ASSUME LaunchInv, [Next]_vars
  PROVE  DesktopTyped'
<1>0. DesktopTyped /\ TypeOK
  BY DEF LaunchInv, TypeOK, DesktopTyped
<1> USE DEF DesktopTyped
<1>1. CASE UNCHANGED desktopVars
  BY <1>0, <1>1 DEF desktopVars
<1>2. ASSUME NEW next \in {"stopped", "desktop", "game"}, Session(next) PROVE DesktopTyped'
  BY <1>0, <1>2 DEF Session
<1>3. ASSUME NEW w \in Launches, CutDown(w) \/ Believe(w) PROVE DesktopTyped'
  BY <1>0, <1>3 DEF CutDown, Believe, At
<1> QED
  BY <1>0, <1>1, <1>2, <1>3, StepsOfDesktop DEF DesktopStep

\* Locks, records and bounds.
LEMMA NameTypes ==
  ASSUME LaunchInv, [Next]_vars
  PROVE  NamesTyped' /\ CountsTyped'
<1>0. NamesTyped /\ CountsTyped
  BY DEF LaunchInv, TypeOK, NamesTyped, CountsTyped
<1>1. MaxFaults \in Nat /\ MaxActs \in Nat
  BY BoundsAssumption
<1>2. /\ Fault => faults' \in 0 .. MaxFaults
      /\ acts < MaxActs /\ acts' = acts + 1 => acts' \in 0 .. MaxActs
  BY <1>0, <1>1 DEF CountsTyped, Fault
<1>3. ASSUME NEW w \in Launches, Worker(w) \/ Begin(w) \/ Report(w) \/ Crash(w)
      PROVE  NamesTyped' /\ CountsTyped'
  <2>1. acts' = acts /\ (Fault \/ NoFault \/ UNCHANGED faults) /\ hub' = hub
    BY <1>3 DEF Worker, SetUp, Register, Refused, Query, Arm, StopDesktop, Game, Prepare, Boot, Abort, Quit, Finish,
                Play, Mark, WritePhase, StartAgain, StartDesktop, Disarm, Unregister, Release, Begin, Report, Crash
  <2>2. bridge' \in {bridge, w, Nobody}
    BY <1>3 DEF Worker, SetUp, Register, Refused, Query, Arm, StopDesktop, Game, Prepare, Boot, Abort, Quit, Finish,
                Play, Mark, WritePhase, StartAgain, Disarm, Unregister, Release, Begin, Report, Crash
  <2>3. lease' \in {lease, w, Nobody}
    BY <1>3 DEF Worker, SetUp, Register, Refused, Query, Arm, StopDesktop, Game, Prepare, Boot, Abort, Quit, Finish,
                Play, Mark, WritePhase, StartAgain, Disarm, Unregister, Release, Begin, Report, Crash, Ends
  <2>4. active' \in {active, w, Nobody}
    BY <1>3 DEF Worker, SetUp, Register, Refused, Query, Arm, StopDesktop, Game, Prepare, Boot, Abort, Quit, Finish,
                Play, Mark, WritePhase, StartAgain, Disarm, Unregister, Release, Begin, Report, Crash
  <2> QED
    BY <1>0, <1>2, <2>1, <2>2, <2>3, <2>4 DEF NamesTyped, CountsTyped, NoFault
<1>4. ASSUME NEW w \in Launches, Guard(w) PROVE NamesTyped' /\ CountsTyped'
  BY <1>0, <1>2, <1>4 DEF Guard, WatchParent, Watch, Restore, StartDesktop, NoFault, NamesTyped, CountsTyped
<1>5. CASE Stop
  <2>1. UNCHANGED <<bridge, hub, faults, acts>>
    BY <1>5 DEF Stop, StopReads, StopOpens, StopSignals, StopPolls, StopUnlinks, ElsewhereStop
  <2>2. lease' \in {lease, Nobody} /\ active' \in {active, Nobody}
    BY <1>5 DEF Stop, StopReads, StopOpens, StopSignals, StopPolls, StopUnlinks, Ends
  <2> QED
    BY <1>0, <2>1, <2>2 DEF NamesTyped, CountsTyped
<1>6. CASE HelperEnds \/ HubLocks \/ HubStarts \/ UserStarts \/ UserStops \/ UNCHANGED vars
  BY <1>0, <1>2, <1>6 DEF HelperEnds, HubLocks, HubStarts, UserStarts, UserStops, vars, NamesTyped, CountsTyped
<1>7. ASSUME NEW p \in Pids, Recycle(p) PROVE NamesTyped' /\ CountsTyped'
  BY <1>0, <1>2, <1>7 DEF Recycle, NamesTyped, CountsTyped
<1> QED
  BY <1>3, <1>4, <1>5, <1>6, <1>7 DEF Next, Worker, WayBack

\* The Hub's stop.
LEMMA StopTypes ==
  ASSUME LaunchInv, [Next]_vars
  PROVE  StopTyped'
<1>0. TypeOK /\ StopTyped /\ stopper.rec \in Launches \cup {Nobody}
  BY DEF LaunchInv, TypeOK, StopTyped
<1>1. NotStopping \in [at : {"idle", "open", "check", "poll", "unlink"},
                       rec : Launches \cup {Nobody}, target : Launches \cup {Stranger, Nobody}]
  BY DEF NotStopping
<1> USE DEF StopTyped
<1>2. UNCHANGED stopper => StopTyped'
  BY <1>0
<1>3. CASE StopReads
  <2>1. active \in Launches
    BY <1>0, <1>3 DEF StopReads, TypeOK
  <2> QED
    BY <1>3, <2>1 DEF StopReads
<1>4. CASE StopOpens
  <2>1. stopper.rec \in Launches
    BY <1>4 DEF StopOpens, LaunchInv, NamedHaveBegun
  <2>2. holder[pid[stopper.rec]] \in Launches \cup {Stranger, Nobody}
    BY <1>0, <2>1 DEF TypeOK
  <2> QED
    BY <1>0, <1>4, <2>2 DEF StopOpens
<1>5. CASE StopSignals \/ StopPolls \/ StopUnlinks
  <2>1. stopper' = NotStopping \/ StopAt("poll") \/ StopAt("unlink")
    BY <1>5 DEF StopSignals, StopPolls, StopUnlinks
  <2> QED
    BY <1>0, <1>1, <2>1 DEF StopAt
<1>6. ASSUME NEW w \in Launches, Worker(w) PROVE UNCHANGED stopper
  BY <1>0, <1>6, WorkerLivesOn DEF LivesOn
<1>7. ASSUME NEW w \in Launches, Begin(w) \/ Report(w) \/ Crash(w) \/ Guard(w) PROVE UNCHANGED stopper
  BY <1>7 DEF Begin, Report, Crash, Guard, WatchParent, Watch, Restore
<1>8. HelperEnds \/ HubLocks \/ HubStarts \/ UserStarts \/ UserStops \/ UNCHANGED vars => UNCHANGED stopper
  BY DEF HelperEnds, HubLocks, HubStarts, UserStarts, UserStops, vars
<1>9. ASSUME NEW p \in Pids, Recycle(p) PROVE UNCHANGED stopper
  BY <1>9 DEF Recycle
<1> QED
  BY <1>2, <1>3, <1>4, <1>5, <1>6, <1>7, <1>8, <1>9 DEF Next, Stop, Worker, WayBack

-----------------------------------------------------------------------------
(* The theorems *)

\* No launch has begun.
LEMMA LaunchInitHolds == Init => LaunchInv
<1> SUFFICES ASSUME Init PROVE LaunchInv
  OBVIOUS
<1>1. TypeOK
  BY LaunchesAssumption, BoundsAssumption DEF Init, TypeOK, Stages, NotStopping
<1>2. HeldWhileAlive
  BY <1>1, LaunchesAssumption, PeopleAssumption DEF Init, HeldWhileAlive, Alive
<1>3. NamedHaveBegun /\ OpenedIsRecorded /\ StopHitsRecorded
  BY StopIsOver DEF Init, NamedHaveBegun, OpenedIsRecorded, StopHitsRecorded
<1>4. TicketsFollowStages
  BY DEF Init, TicketsFollowStages, TicketFollowsStage, Unarmed, Ticketed, Playing, Restoring
<1>5. DebtsAreWritten
  BY DEF Init, DebtsAreWritten
<1> QED
  BY <1>1, <1>2, <1>3, <1>4, <1>5 DEF LaunchInv

\* Every step keeps the invariant.
LEMMA LaunchStepKeeps == LaunchInv /\ [Next]_vars => LaunchInv'
<1> SUFFICES ASSUME LaunchInv, [Next]_vars PROVE LaunchInv'
  OBVIOUS
<1>1. TypeOK'
  BY ProcessTypes, LaunchTypes, DesktopTypes, NameTypes, StopTypes
     DEF TypeOK, ProcessesTyped, LaunchesTyped, DesktopTyped, NamesTyped, CountsTyped, StopTyped
<1> QED
  BY <1>1, LifeKeeps, NamedKeeps, StopKeeps, TicketsKeep, DebtsKeep DEF LaunchInv

\* The state of launches, of what guards them and of the desktop is well typed
\* (launch_v2.rs).
THEOREM LaunchTypeCorrect == Spec => []TypeOK
<1>1. LaunchInv => TypeOK
  BY DEF LaunchInv
<1> QED
  BY LaunchInitHolds, LaunchStepKeeps, <1>1, PTL DEF Spec

\* However a launch ends, the desktop's session it took down comes back or has a ticket
\* and a watchdog (run_with_desktop_restoration, restore_desktop_session).
THEOREM RestoreIsAlwaysOwed == Spec => []RestoreIsOwed
<1>1. LaunchInv => RestoreIsOwed
  BY DEF LaunchInv, RestoreIsOwed, OnDuty, DebtsAreWritten, TicketsFollowStages, TicketFollowsStage
<1> QED
  BY LaunchInitHolds, LaunchStepKeeps, <1>1, PTL DEF Spec

\* The Hub signals the process its record names and no other, though identifiers are
\* used again (stop_active_game_session, open_validated_process_fd).
THEOREM StopAlwaysHitsRecorded == Spec => []StopHitsRecorded
<1>1. LaunchInv => StopHitsRecorded
  BY DEF LaunchInv
<1> QED
  BY LaunchInitHolds, LaunchStepKeeps, <1>1, PTL DEF Spec

-----------------------------------------------------------------------------
(* What a launch asks for, on its way into a session *)

\* the places in which the devices are not yet chosen, those after it, those in wroidd,
\* and those of a worker
Carrying ==
  {"request", "sent", "prepared", "linked", "unlinked", "spawned", "adopted", "play"}
Chosen == {"options", "live"}
InDaemon == {"prepared", "linked", "unlinked"}
Working == {"spawned", "adopted", "play", "options", "live"}

ShapedOptions(o) ==
  /\ o = [size |-> o.size, keyboard |-> o.keyboard, mouse |-> o.mouse, on |-> o.on,
          exit |-> o.exit]
  /\ o.on \subseteq Features

Shaped(r) ==
  r = [at |-> r.at, ask |-> r.ask, release |-> r.release, held |-> r.held,
       options |-> r.options, state |-> r.state, package |-> r.package, line |-> r.line,
       program |-> r.program, worker |-> r.worker, focus |-> r.focus, played |-> r.played,
       shows |-> r.shows, loads |-> r.loads, stale |-> r.stale]

WantedOn(ask) ==
  IF ask.via = "hub" THEN {"grab", "ui", "game"}
  ELSE {f \in Features : Switch(f) \in ask.switches <=> f = "trace"}
WantedExit(ask) == IF ask.via = "hub" THEN NoLimit ELSE Millis(ask)

\* The options are those that were asked for, wherever they are.
Carried(r) ==
  /\ r.at \in Carrying \cup Chosen =>
       /\ ShapedOptions(r.options)
       /\ r.options.size = r.ask.size
       /\ r.options.on = WantedOn(r.ask)
       /\ r.options.exit = WantedExit(r.ask)
       /\ r.ask.keyboard # NoInput => r.options.keyboard = r.ask.keyboard
  /\ r.at \in Chosen => r.options.size > 0
  /\ r.program = "gamemoderun" => r.at # "unused" /\ r.ask.gameMode
  /\ r.focus = "relay" => r.at \in {"play"} \cup Chosen /\ "grab" \in r.options.on

\* A worker's command line is written from options that wroidd has accepted.
Lined(r) ==
  /\ r.at # "unparsed"
  /\ r.at \in InDaemon \cup {"spawned"} /\ r.options.exit # NoLimit =>
       r.options.exit \in 1 .. MaxMillis
  /\ r.at \in {"linked", "unlinked", "spawned"} => r.line = LaunchArguments(r.options)

\* What the client has loaded is what wroidd records and what the file still holds.
Recorded(r, file) ==
  r.at \in Carrying \cup Chosen /\ r.ask.via \in {"hub", "terminal"} =>
    /\ "client" \in r.loads
    /\ "client" \notin r.stale /\ r.at # "live" => r.held = file
    /\ r.at \in InDaemon \cup Working => r.package = r.held.package
    /\ r.at \in Working => r.state = "running"
    /\ r.at = "live" /\ "client" \notin r.stale /\ "game" \in r.options.on =>
         r.shows = r.package

\* A mouse goes along with a profile that has a use for it, and from the Hub with no other.
Moused(r, file) ==
  /\ r.at \in Chosen /\ r.ask.via # "diagnostic" => "play" \in r.loads
  /\ r.at = "options" /\ r.ask.via # "diagnostic" /\ "play" \notin r.stale /\ file.mouse =>
       r.options.mouse # NoInput
  /\ r.at \in Carrying /\ r.ask.via = "hub" /\ "client" \notin r.stale /\ ~file.mouse =>
       r.options.mouse = NoInput
  /\ r.at = "options" /\ r.ask.via = "hub" /\ {"client", "play"} \cap r.stale = {}
       /\ ~file.mouse => r.options.mouse = NoInput
  /\ r.at = "live" /\ r.ask.via # "diagnostic" /\ "play" \notin r.stale /\ r.played.mouse =>
       r.options.mouse # NoInput
  /\ r.at = "live" /\ r.ask.via = "hub" /\ {"client", "play"} \cap r.stale = {}
       /\ ~r.played.mouse => r.options.mouse = NoInput

\* wroidd serves one request at a time and owns one worker; both have its protocol.
Served(l, r, srv, inst) ==
  /\ r.at \in InDaemon =>
       /\ srv.serving = l /\ Generation[r.release] = Generation[srv.release]
  /\ r.at = "linked" =>
       /\ srv.child = NoLaunch
       /\ "wroid" \notin r.stale => r.release = inst.wroid
  /\ r.at \in Working /\ r.ask.via \in {"hub", "terminal"} =>
       /\ srv.child = l
       /\ "wroid" \notin r.stale => Generation[r.worker] = Generation[srv.release]

OneServer ==
  /\ server = [release |-> server.release, serving |-> server.serving, child |-> server.child]
  /\ server.serving # NoLaunch \/ server.child # NoLaunch => server.release # 0

Surroundings ==
  /\ launches = [l \in Requests |-> launches[l]]
  /\ plugged \subseteq EventNodes
  /\ installed = [wroid |-> installed.wroid, wroidd |-> installed.wroidd]

\* What holds of one launch, beside what the others do.
Kept(r, file) == Shaped(r) /\ Carried(r) /\ Lined(r) /\ Recorded(r, file) /\ Moused(r, file)

\* The inductive invariant of launches.
RequestInv ==
  /\ Surroundings /\ OneServer
  /\ \A l \in Requests :
       Kept(launches[l], profileFile) /\ Served(l, launches[l], server, installed)

\* Every switch says something else.
LEMMA SwitchesDiffer ==
  ASSUME NEW f \in Features, NEW g \in Features, Switch(f) = Switch(g)
  PROVE  f = g
<1>1. /\ Switch("grab") = "--no-grab" /\ Switch("ui") = "--no-ui"
      /\ Switch("game") = "--no-launch" /\ Switch("trace") = "--trace-input"
  BY DEF Switch
<1> QED
  BY <1>1 DEF Features

\* What wroidd writes as a command line the worker reads as the same options
\* (launch_arguments, Commands::LaunchV2).
LEMMA ArgumentsReadBack ==
  ASSUME NEW o, ShapedOptions(o)
  PROVE  OptionsOf(LaunchArguments(o), LaunchArguments(o).millis) = o
<1> DEFINE line == LaunchArguments(o)
<1>1. /\ line.size = o.size /\ line.keyboard = o.keyboard /\ line.mouse = o.mouse
      /\ line.millis = o.exit
      /\ line.switches = {Switch(f) : f \in {g \in Features : g \in o.on <=> g = "trace"}}
  BY DEF LaunchArguments
<1>2. ASSUME NEW f \in Features
      PROVE  Switch(f) \in line.switches <=> (f \in o.on <=> f = "trace")
  BY <1>1, <1>2, SwitchesDiffer
<1>3. {f \in Features : Switch(f) \in line.switches <=> f = "trace"} = o.on
  BY <1>2 DEF ShapedOptions
<1> HIDE DEF line
<1>4. OptionsOf(line, line.millis) =
        [size |-> o.size, keyboard |-> o.keyboard, mouse |-> o.mouse, exit |-> o.exit,
         on |-> o.on]
  BY <1>1, <1>3 DEF OptionsOf
<1> QED
  BY <1>4 DEF line, ShapedOptions

\* Of a launch that has ended nothing is asked.
LEMMA ClosedIsKept ==
  ASSUME NEW state, NEW file, NEW l, NEW srv, NEW inst
  PROVE  Kept(Closed(state), file) /\ Served(l, Closed(state), srv, inst)
<1> DEFINE r == Closed(state)
<1>1. PICK u : u = Unused
  OBVIOUS
<1>2. PICK v : v = [u EXCEPT !.at = "ended"]
  OBVIOUS
<1>3. Shaped(u) /\ u.program = "none" /\ u.focus = "none"
  BY <1>1 DEF Unused, Shaped
<1>4. Shaped(v) /\ v.at = "ended" /\ v.program = "none" /\ v.focus = "none"
  BY <1>2, <1>3 DEF Shaped
<1>5. r = [v EXCEPT !.state = state]
  BY <1>1, <1>2 DEF Closed
<1>6. /\ r.at = "ended" /\ r.program = "none" /\ r.focus = "none" /\ Shaped(r)
  BY <1>4, <1>5 DEF Shaped
<1> HIDE DEF r
<1> QED
  BY <1>6 DEF r, Kept, Served, Carried, Lined, Recorded, Moused, Carrying, Chosen, InDaemon,
              Working

\* A launch that is turned into another that keeps its word keeps the invariant, when the
\* others do not mind what becomes of wroidd.
LEMMA TurnKeeps ==
  ASSUME RequestInv, NEW l \in Requests, NEW r, Turns(l, r), UNCHANGED World,
         Kept(r, profileFile), OneServer', Served(l, r, server', installed),
         \A k \in Requests \ {l} : Served(k, launches[k], server', installed)
  PROVE  RequestInv'
<1>1. Surroundings'
  BY DEF RequestInv, Surroundings, Turns, World
<1>2. UNCHANGED profileFile /\ UNCHANGED installed
  BY DEF World
<1>3. ASSUME NEW k \in Requests
      PROVE  (Kept(launches[k], profileFile) /\ Served(k, launches[k], server, installed))'
  <2>1. CASE k = l
    <3>1. launches'[k] = r
      BY <2>1 DEF Turns, RequestInv, Surroundings
    <3>2. /\ Kept(launches[k], profileFile)' <=> Kept(launches'[k], profileFile)
          /\ Served(k, launches[k], server, installed)' <=> Served(k, launches'[k], server', installed)
      BY <1>2
    <3> QED
      BY <2>1, <3>1, <3>2
  <2>2. CASE k # l
    <3>1. launches'[k] = launches[k]
      BY <2>2 DEF Turns, RequestInv, Surroundings
    <3>2. /\ Kept(launches[k], profileFile)' <=> Kept(launches'[k], profileFile)
          /\ Served(k, launches[k], server, installed)' <=> Served(k, launches'[k], server', installed)
      BY <1>2
    <3>3. Kept(launches[k], profileFile) /\ Served(k, launches[k], server', installed)
      BY <2>2 DEF RequestInv
    <3> QED
      BY <3>1, <3>2, <3>3
  <2> QED
    BY <2>1, <2>2
<1> QED
  BY <1>1, <1>3 DEF RequestInv

\* ... in particular when wroidd is left alone.
LEMMA TurnAlone ==
  ASSUME RequestInv, NEW l \in Requests, NEW r, Turns(l, r), UNCHANGED server,
         UNCHANGED World, Kept(r, profileFile), Served(l, r, server, installed)
  PROVE  RequestInv'
<1>1. OneServer' /\ Served(l, r, server', installed)
  BY DEF RequestInv, OneServer
<1>2. \A k \in Requests \ {l} : Served(k, launches[k], server', installed)
  BY DEF RequestInv
<1> QED
  BY <1>1, <1>2, TurnKeeps

\* ... and when it ends.
LEMMA FinishKeeps ==
  ASSUME RequestInv, NEW l \in Requests, Finishes(l), UNCHANGED server, UNCHANGED World
  PROVE  RequestInv'
<1>1. PICK state : state = launches[l].state
  OBVIOUS
<1>2. PICK r : r = Closed(state)
  OBVIOUS
<1>3. Turns(l, r)
  BY <1>1, <1>2 DEF Finishes
<1>4. Kept(r, profileFile) /\ Served(l, r, server, installed)
  BY <1>2, ClosedIsKept
<1> QED
  BY <1>3, <1>4, TurnAlone

\* BeginLaunch keeps the invariant.
LEMMA BeginKeeps ==
  ASSUME RequestInv, NEW l \in Requests, BeginLaunch(l)
  PROVE  RequestInv'
<1>1. PICK r : r = launches[l]
  OBVIOUS
<1>2. Kept(r, profileFile) /\ Served(l, r, server, installed) /\ r.at = "unused"
  BY <1>1 DEF RequestInv, BeginLaunch, Stands
<1>3. PICK ask \in Asks, n \in 1 .. installed.wroid :
        Turns(l, [r EXCEPT !.at = "asked", !.ask = ask, !.release = n])
  BY <1>1 DEF BeginLaunch
<1>4. PICK s : s = [r EXCEPT !.at = "asked", !.ask = ask, !.release = n]
  OBVIOUS
<1>5. /\ Shaped(s) /\ s.at = "asked" /\ s.program = r.program /\ s.focus = r.focus
  BY <1>2, <1>4 DEF Kept, Shaped
<1>6. s.program # "gamemoderun" /\ s.focus # "relay"
  BY <1>2, <1>5 DEF Kept, Carried, Chosen
<1>7. Kept(s, profileFile) /\ Served(l, s, server, installed)
  BY <1>5, <1>6 DEF Kept, Served, Carried, Lined, Recorded, Moused, Carrying, Chosen, InDaemon,
                    Working
<1>8. UNCHANGED server /\ UNCHANGED World /\ Turns(l, s)
  BY <1>3, <1>4 DEF BeginLaunch
<1> QED
  BY <1>7, <1>8, TurnAlone

\* What HubOptions asks for.
LEMMA HubOptionsAre ==
  ASSUME NEW ask, NEW file
  PROVE  LET o == HubOptions(ask, file.mouse)
         IN  /\ ShapedOptions(o) /\ o.size = ask.size /\ o.on = {"grab", "ui", "game"}
             /\ o.exit = NoLimit /\ o.keyboard = ask.keyboard
             /\ ~file.mouse => o.mouse = NoInput
BY DEF HubOptions, ShapedOptions, Features

\* What OptionsOf reads.
LEMMA OptionsAre ==
  ASSUME NEW line, NEW exit
  PROVE  LET o == OptionsOf(line, exit)
         IN  /\ ShapedOptions(o) /\ o.size = line.size /\ o.exit = exit
             /\ o.keyboard = line.keyboard /\ o.mouse = line.mouse
             /\ o.on = {f \in Features : Switch(f) \in line.switches <=> f = "trace"}
BY DEF OptionsOf, ShapedOptions

\* The client's request has what was asked for, and the profile it has loaded.
LEMMA RequestIsKept ==
  ASSUME NEW r, Kept(r, profileFile), r.at = "asked",
         NEW o, NEW u, u = [r EXCEPT !.loads = @ \cup {"client"}],
         NEW s, s = [u EXCEPT !.at = "request", !.held = profileFile, !.options = o],
         ShapedOptions(o), o.size = r.ask.size, o.on = WantedOn(r.ask),
         o.exit = WantedExit(r.ask), o.keyboard = r.ask.keyboard,
         r.ask.via = "hub" /\ ~profileFile.mouse => o.mouse = NoInput
  PROVE  Kept(s, profileFile) /\ \A l, srv, inst : Served(l, s, srv, inst)
<1>1. /\ Shaped(u) /\ u.loads = r.loads \cup {"client"} /\ u.ask = r.ask /\ u.stale = r.stale
      /\ u.program = r.program /\ u.focus = r.focus
  BY DEF Kept, Shaped
<1>2. /\ Shaped(s) /\ s.at = "request" /\ s.held = profileFile /\ s.options = o
      /\ s.ask = r.ask /\ s.loads = r.loads \cup {"client"} /\ s.stale = r.stale
      /\ s.program = r.program /\ s.focus = r.focus
  BY <1>1 DEF Shaped
<1>3. Carried(s)
  BY <1>2 DEF Kept, Carried, Chosen
<1>4. Lined(s) /\ Recorded(s, profileFile) /\ Moused(s, profileFile)
  BY <1>2 DEF Lined, Recorded, Moused, Chosen, InDaemon, Working
<1>5. \A l, srv, inst : Served(l, s, srv, inst)
  BY <1>2 DEF Served, InDaemon, Working
<1> QED
  BY <1>2, <1>3, <1>4, <1>5 DEF Kept

\* HubLaunches keeps the invariant.
LEMMA HubKeeps ==
  ASSUME RequestInv, NEW l \in Requests, HubLaunches(l)
  PROVE  RequestInv'
<1>1. PICK r : r = launches[l]
  OBVIOUS
<1>2. Kept(r, profileFile) /\ r.at = "asked" /\ r.ask.via = "hub"
  BY <1>1 DEF RequestInv, HubLaunches, Stands
<1>3. UNCHANGED server /\ UNCHANGED World
  BY DEF HubLaunches
<1>4. PICK o : o = HubOptions(r.ask, profileFile.mouse)
  OBVIOUS
<1>5. PICK u : u = [r EXCEPT !.loads = @ \cup {"client"}]
  OBVIOUS
<1>6. PICK s : s = [u EXCEPT !.at = "request", !.held = profileFile, !.options = o]
  OBVIOUS
<1>7. Turns(l, s) \/ Finishes(l)
  BY <1>1, <1>4, <1>5, <1>6 DEF HubLaunches, Loaded
<1>8. /\ ShapedOptions(o) /\ o.size = r.ask.size /\ o.on = WantedOn(r.ask)
      /\ o.exit = WantedExit(r.ask) /\ o.keyboard = r.ask.keyboard
      /\ ~profileFile.mouse => o.mouse = NoInput
  BY <1>2, <1>4, HubOptionsAre DEF WantedOn, WantedExit
<1>9. Kept(s, profileFile) /\ Served(l, s, server, installed)
  BY <1>2, <1>5, <1>6, <1>8, RequestIsKept
<1> QED
  BY <1>3, <1>7, <1>9, TurnAlone, FinishKeeps

\* LaunchesManaged keeps the invariant.
LEMMA ManagedKeeps ==
  ASSUME RequestInv, NEW l \in Requests, LaunchesManaged(l)
  PROVE  RequestInv'
<1>1. PICK r : r = launches[l]
  OBVIOUS
<1>2. Kept(r, profileFile) /\ r.at = "asked" /\ r.ask.via = "terminal"
  BY <1>1 DEF RequestInv, LaunchesManaged, Stands
<1>3. UNCHANGED server /\ UNCHANGED World
  BY DEF LaunchesManaged
<1>4. PICK o : o = OptionsOf(r.ask, Millis(r.ask))
  OBVIOUS
<1>5. PICK u : u = [r EXCEPT !.loads = @ \cup {"client"}]
  OBVIOUS
<1>6. PICK s : s = [u EXCEPT !.at = "request", !.held = profileFile, !.options = o]
  OBVIOUS
<1>7. Turns(l, s) \/ Finishes(l)
  BY <1>1, <1>4, <1>5, <1>6 DEF LaunchesManaged, Loaded
<1>8. /\ ShapedOptions(o) /\ o.size = r.ask.size /\ o.on = WantedOn(r.ask)
      /\ o.exit = WantedExit(r.ask) /\ o.keyboard = r.ask.keyboard
  BY <1>2, <1>4, OptionsAre DEF WantedOn, WantedExit
<1>9. Kept(s, profileFile) /\ Served(l, s, server, installed)
  BY <1>2, <1>5, <1>6, <1>8, RequestIsKept
<1> QED
  BY <1>3, <1>7, <1>9, TurnAlone, FinishKeeps

\* When wroidd neither serves nor has a worker, no launch depends on it.
LEMMA NobodyIsServed ==
  ASSUME RequestInv, server.serving = NoLaunch, server.child = NoLaunch,
         NEW k \in Requests, NEW srv
  PROVE  Served(k, launches[k], srv, installed)
<1>1. Served(k, launches[k], server, installed) /\ k # NoLaunch
  BY RequestConstants DEF RequestInv
<1> QED
  BY <1>1 DEF Served, InDaemon

\* SendsRequest keeps the invariant: the wroidd that is started instead of another one is
\* started where no launch depends on the other.
LEMMA SendKeeps ==
  ASSUME RequestInv, NEW l \in Requests, SendsRequest(l)
  PROVE  RequestInv'
<1>1. PICK r : r = launches[l]
  OBVIOUS
<1>2. Kept(r, profileFile) /\ Served(l, r, server, installed) /\ r.at = "request"
  BY <1>1 DEF RequestInv, SendsRequest, Stands
<1>3. CASE Finishes(l) /\ UNCHANGED server
  BY <1>3, FinishKeeps DEF SendsRequest
<1>4. CASE /\ \/ server.release \in {0, installed.wroidd}
              \/ server.child = NoLaunch /\ server.serving = NoLaunch
           /\ server' = [server EXCEPT !.release = installed.wroidd]
           /\ Turns(l, [launches[l] EXCEPT !.at = "sent"])
  <2>1. PICK s : s = [r EXCEPT !.at = "sent"]
    OBVIOUS
  <2>2. Turns(l, s) /\ UNCHANGED World
    BY <1>1, <1>4, <2>1 DEF SendsRequest
  <2>3. /\ Shaped(s) /\ s.at = "sent" /\ s.held = r.held /\ s.options = r.options
        /\ s.ask = r.ask /\ s.loads = r.loads /\ s.stale = r.stale
        /\ s.program = r.program /\ s.focus = r.focus
    BY <1>2, <2>1 DEF Kept, Shaped
  <2>4. Carried(s)
    BY <1>2, <2>3 DEF Kept, Carried, Carrying, Chosen
  <2>5. Lined(s) /\ Recorded(s, profileFile) /\ Moused(s, profileFile)
    BY <1>2, <2>3 DEF Kept, Lined, Recorded, Moused, Carrying, Chosen, InDaemon, Working
  <2>6. Served(l, s, server', installed)
    BY <2>3 DEF Served, InDaemon, Working
  <2>7. OneServer
    BY DEF RequestInv
  <2>8. /\ server' = [release |-> server'.release, serving |-> server'.serving,
                      child |-> server'.child]
        /\ server'.serving = server.serving /\ server'.child = server.child
        /\ server'.release = installed.wroidd
    BY <1>4, <2>7 DEF OneServer
  <2>9. \/ server'.release = server.release
        \/ server.child = NoLaunch /\ server.serving = NoLaunch
    BY <1>4, <2>7, <2>8 DEF OneServer
  <2>10. OneServer'
    BY <2>7, <2>8, <2>9 DEF OneServer
  <2>11. ASSUME NEW k \in Requests
         PROVE  Served(k, launches[k], server', installed)
    <3>1. PICK q : q = launches[k]
      OBVIOUS
    <3>2. Served(k, q, server, installed)
      BY <3>1 DEF RequestInv
    <3>3. CASE server'.release = server.release
      BY <2>8, <3>1, <3>2, <3>3 DEF Served
    <3>4. CASE server.child = NoLaunch /\ server.serving = NoLaunch
      BY <3>4, NobodyIsServed
    <3> QED
      BY <2>9, <3>3, <3>4
  <2> QED
    BY <2>2, <2>3, <2>4, <2>5, <2>6, <2>10, <2>11, TurnKeeps DEF Kept
<1> QED
  BY <1>3, <1>4 DEF SendsRequest

\* Dispatch keeps the invariant: wroidd was free, and looks at the limits.
LEMMA DispatchKeeps ==
  ASSUME RequestInv, NEW l \in Requests, Dispatch(l)
  PROVE  RequestInv'
<1>1. PICK r : r = launches[l]
  OBVIOUS
<1>2. /\ Kept(r, profileFile) /\ r.at = "sent"
      /\ server.serving = NoLaunch /\ server.release # 0 /\ UNCHANGED World
  BY <1>1 DEF RequestInv, Dispatch, Stands
<1>3. PICK s : s = [r EXCEPT !.at = "prepared", !.state = "preparing", !.package = r.held.package]
  OBVIOUS
<1>4. \/ /\ Generation[r.release] = Generation[server.release]
         /\ r.options.exit # NoLimit => r.options.exit \in 1 .. MaxMillis
         /\ server' = [server EXCEPT !.serving = l]
         /\ Turns(l, s)
      \/ Finishes(l) /\ UNCHANGED server
  BY <1>1, <1>3 DEF Dispatch
<1>5. CASE Finishes(l) /\ UNCHANGED server
  BY <1>2, <1>5, FinishKeeps
<1>6. CASE /\ Generation[r.release] = Generation[server.release]
           /\ r.options.exit # NoLimit => r.options.exit \in 1 .. MaxMillis
           /\ server' = [server EXCEPT !.serving = l]
           /\ Turns(l, s)
  <2>1. /\ Shaped(s) /\ s.at = "prepared" /\ s.held = r.held /\ s.options = r.options
        /\ s.ask = r.ask /\ s.loads = r.loads /\ s.stale = r.stale
        /\ s.program = r.program /\ s.focus = r.focus /\ s.package = s.held.package
        /\ s.release = r.release
    BY <1>2, <1>3 DEF Kept, Shaped
  <2>2. Carried(s)
    BY <1>2, <2>1 DEF Kept, Carried, Carrying, Chosen
  <2>3. Lined(s) /\ Recorded(s, profileFile) /\ Moused(s, profileFile)
    BY <1>2, <1>6, <2>1
       DEF Kept, Lined, Recorded, Moused, Carrying, Chosen, InDaemon, Working
  <2>4. OneServer
    BY DEF RequestInv
  <2>5. /\ server' = [release |-> server'.release, serving |-> server'.serving,
                      child |-> server'.child]
        /\ server'.serving = l /\ server'.child = server.child
        /\ server'.release = server.release
    BY <1>6, <2>4 DEF OneServer
  <2>6. OneServer'
    BY <1>2, <2>5 DEF OneServer
  <2>7. Served(l, s, server', installed)
    BY <1>6, <2>1, <2>5 DEF Served, InDaemon, Working
  <2>8. ASSUME NEW k \in Requests \ {l}
        PROVE  Served(k, launches[k], server', installed)
    <3>1. PICK q : q = launches[k]
      OBVIOUS
    <3>2. Served(k, q, server, installed) /\ k # NoLaunch
      BY <3>1, RequestConstants DEF RequestInv
    <3> QED
      BY <1>2, <2>5, <3>1, <3>2 DEF Served, InDaemon
  <2> QED
    BY <1>2, <1>6, <2>1, <2>2, <2>3, <2>6, <2>7, <2>8, TurnKeeps DEF Kept
<1> QED
  BY <1>4, <1>5, <1>6

\* MarksFailed keeps the invariant: the request that failed was the one that was served.
LEMMA FailureKeeps ==
  ASSUME RequestInv, NEW l \in Requests, MarksFailed(l), UNCHANGED World,
         server.serving = l
  PROVE  RequestInv'
<1>1. PICK s : s = Closed("failed")
  OBVIOUS
<1>2. Turns(l, s) /\ server' = [server EXCEPT !.serving = NoLaunch]
  BY <1>1 DEF MarksFailed
<1>3. Kept(s, profileFile) /\ \A srv : Served(l, s, srv, installed)
  BY <1>1, ClosedIsKept
<1>4. OneServer
  BY DEF RequestInv
<1>5. /\ server' = [release |-> server'.release, serving |-> server'.serving,
                    child |-> server'.child]
      /\ server'.serving = NoLaunch /\ server'.child = server.child
      /\ server'.release = server.release
  BY <1>2, <1>4 DEF OneServer
<1>6. OneServer'
  BY <1>4, <1>5 DEF OneServer
<1>7. ASSUME NEW k \in Requests \ {l}
      PROVE  Served(k, launches[k], server', installed)
  <2>1. PICK q : q = launches[k]
    OBVIOUS
  <2>2. Served(k, q, server, installed)
    BY <2>1 DEF RequestInv
  <2> QED
    BY <1>5, <2>1, <2>2 DEF Served, InDaemon
<1> QED
  BY <1>2, <1>3, <1>6, <1>7, TurnKeeps

\* LinkWorker keeps the invariant.
LEMMA LinkKeeps ==
  ASSUME RequestInv, NEW l \in Requests, LinkWorker(l)
  PROVE  RequestInv'
<1>1. PICK r : r = launches[l]
  OBVIOUS
<1>2. /\ Kept(r, profileFile) /\ Served(l, r, server, installed) /\ r.at = "prepared"
      /\ UNCHANGED World
  BY <1>1 DEF RequestInv, LinkWorker, Stands
<1>3. CASE MarksFailed(l)
  BY <1>2, <1>3, FailureKeeps DEF Served, InDaemon
<1>4. CASE ~MarksFailed(l)
  <2>1. PICK line : line = LaunchArguments(r.options)
    OBVIOUS
  <2>2. PICK place : place = IF r.release = installed.wroid THEN "linked" ELSE "unlinked"
    OBVIOUS
  <2>3. PICK program : /\ program = "gamemoderun" => r.ask.gameMode
                       /\ server.child = NoLaunch /\ UNCHANGED server
                       /\ Turns(l, [r EXCEPT !.at = place, !.line = line, !.program = program])
    <3>1. PICK program \in IF r.ask.gameMode THEN {"gamemoderun", "wroid"} ELSE {"wroid"} :
            Turns(l, [r EXCEPT !.at = place, !.line = line, !.program = program])
      BY <1>1, <1>4, <2>1, <2>2 DEF LinkWorker
    <3>2. program = "gamemoderun" => r.ask.gameMode
      BY <3>1
    <3> QED
      BY <1>4, <3>1, <3>2 DEF LinkWorker
  <2>4. PICK s : s = [r EXCEPT !.at = place, !.line = line, !.program = program]
    OBVIOUS
  <2>5. /\ Shaped(s) /\ s.at = place /\ s.line = line /\ s.program = program
        /\ s.held = r.held /\ s.options = r.options /\ s.ask = r.ask /\ s.loads = r.loads
        /\ s.stale = r.stale /\ s.focus = r.focus /\ s.package = r.package
        /\ s.release = r.release
    BY <1>2, <2>4 DEF Kept, Shaped
  <2>6. place \in {"linked", "unlinked"} /\ (place = "linked" => r.release = installed.wroid)
    BY <2>2
  <2>7. Carried(s)
    BY <1>2, <2>3, <2>5, <2>6 DEF Kept, Carried, Carrying, Chosen
  <2>8. Lined(s)
    BY <1>2, <2>1, <2>5, <2>6 DEF Kept, Lined, InDaemon
  <2>9. Recorded(s, profileFile) /\ Moused(s, profileFile)
    BY <1>2, <2>5, <2>6 DEF Kept, Recorded, Moused, Carrying, Chosen, InDaemon, Working
  <2>10. Served(l, s, server, installed)
    BY <1>2, <2>3, <2>5, <2>6 DEF Served, InDaemon, Working
  <2> QED
    BY <1>2, <2>3, <2>4, <2>5, <2>7, <2>8, <2>9, <2>10, TurnAlone DEF Kept
<1> QED
  BY <1>3, <1>4

\* SpawnWorker keeps the invariant: the worker is of the client's release while the file
\* of the link is in its place.
LEMMA SpawnKeeps ==
  ASSUME RequestInv, NEW l \in Requests, SpawnWorker(l)
  PROVE  RequestInv'
<1>1. PICK r : r = launches[l]
  OBVIOUS
<1>2. /\ Kept(r, profileFile) /\ Served(l, r, server, installed)
      /\ r.at \in {"linked", "unlinked"} /\ UNCHANGED World
  BY <1>1 DEF RequestInv, SpawnWorker, Stands
<1>3. CASE MarksFailed(l)
  BY <1>2, <1>3, FailureKeeps DEF Served, InDaemon
<1>4. CASE ~MarksFailed(l)
  <2>1. PICK s : s = [r EXCEPT !.at = "spawned", !.state = "running", !.worker = installed.wroid]
    OBVIOUS
  <2>2. /\ r.at = "linked" /\ server' = [server EXCEPT !.serving = NoLaunch, !.child = l]
        /\ Turns(l, s)
    BY <1>1, <1>4, <2>1 DEF SpawnWorker, Stands
  <2>3. /\ Shaped(s) /\ s.at = "spawned" /\ s.state = "running" /\ s.worker = installed.wroid
        /\ s.line = r.line /\ s.program = r.program
        /\ s.held = r.held /\ s.options = r.options /\ s.ask = r.ask /\ s.loads = r.loads
        /\ s.stale = r.stale /\ s.focus = r.focus /\ s.package = r.package
        /\ s.release = r.release
    BY <1>2, <2>1 DEF Kept, Shaped
  <2>4. Carried(s)
    BY <1>2, <2>3 DEF Kept, Carried, Carrying, Chosen
  <2>5. Lined(s) /\ Recorded(s, profileFile) /\ Moused(s, profileFile)
    BY <1>2, <2>3 DEF Kept, Lined, Recorded, Moused, Carrying, Chosen, InDaemon, Working
  <2>6. OneServer /\ server.serving = l /\ server.child = NoLaunch /\ l # NoLaunch
    BY <1>2, <2>2, RequestConstants DEF RequestInv, Served, InDaemon
  <2>7. /\ server' = [release |-> server'.release, serving |-> server'.serving,
                      child |-> server'.child]
        /\ server'.serving = NoLaunch /\ server'.child = l
        /\ server'.release = server.release
    BY <2>2, <2>6 DEF OneServer
  <2>8. OneServer'
    BY <2>6, <2>7 DEF OneServer
  <2>9. Served(l, s, server', installed)
    BY <1>2, <2>2, <2>3, <2>7 DEF Served, InDaemon, Working
  <2>10. ASSUME NEW k \in Requests \ {l}
         PROVE  Served(k, launches[k], server', installed)
    <3>1. PICK q : q = launches[k]
      OBVIOUS
    <3>2. Served(k, q, server, installed) /\ k # NoLaunch
      BY <3>1, RequestConstants DEF RequestInv
    <3> QED
      BY <2>6, <2>7, <3>1, <3>2 DEF Served, InDaemon
  <2> QED
    BY <1>2, <2>2, <2>3, <2>4, <2>5, <2>8, <2>9, <2>10, TurnKeeps DEF Kept
<1> QED
  BY <1>3, <1>4

\* Reap keeps the invariant.
LEMMA ReapKeeps ==
  ASSUME RequestInv, NEW l \in Requests, Reap(l)
  PROVE  RequestInv'
<1>1. PICK state : Turns(l, Closed(state))
  BY DEF Reap
<1>2. PICK s : s = Closed(state)
  OBVIOUS
<1>3. Kept(s, profileFile) /\ \A srv : Served(l, s, srv, installed)
  BY <1>2, ClosedIsKept
<1>4. /\ OneServer /\ server.serving = NoLaunch /\ server.child = l
      /\ server' = [server EXCEPT !.child = NoLaunch] /\ UNCHANGED World
  BY DEF RequestInv, Reap
<1>5. /\ server' = [release |-> server'.release, serving |-> server'.serving,
                    child |-> server'.child]
      /\ server'.serving = NoLaunch /\ server'.child = NoLaunch
      /\ server'.release = server.release
  BY <1>4 DEF OneServer
<1>6. OneServer'
  BY <1>5 DEF OneServer
<1>7. ASSUME NEW k \in Requests \ {l}
      PROVE  Served(k, launches[k], server', installed)
  <2>1. PICK q : q = launches[k]
    OBVIOUS
  <2>2. Served(k, q, server, installed)
    BY <2>1 DEF RequestInv
  <2> QED
    BY <1>4, <1>5, <2>1, <2>2 DEF Served, InDaemon
<1> QED
  BY <1>1, <1>2, <1>3, <1>4, <1>6, <1>7, TurnKeeps

\* StartsWorker keeps the invariant: the line parses, and gives the options back.
LEMMA StartKeeps ==
  ASSUME RequestInv, NEW l \in Requests, StartsWorker(l)
  PROVE  RequestInv'
<1>1. PICK r : r = launches[l]
  OBVIOUS
<1>2. /\ Kept(r, profileFile) /\ Served(l, r, server, installed) /\ r.at = "spawned"
      /\ UNCHANGED World /\ UNCHANGED server
  BY <1>1 DEF RequestInv, StartsWorker, Stands
<1>3. r.line = LaunchArguments(r.options) /\ ShapedOptions(r.options)
  BY <1>2 DEF Kept, Lined, Carried, Carrying
<1>4. r.line.millis = r.options.exit
  BY <1>3 DEF LaunchArguments
<1>5. WorkerLineParses(r.line)
  BY <1>2, <1>4 DEF WorkerLineParses, Kept, Lined
<1>6. OptionsOf(r.line, r.line.millis) = r.options
  BY <1>3, ArgumentsReadBack
<1>7. PICK o : o = r.options
  OBVIOUS
<1>8. PICK s : s = [r EXCEPT !.at = "adopted", !.options = o]
  OBVIOUS
<1>9. Turns(l, s) \/ Finishes(l)
  <2>1. \/ Turns(l, [r EXCEPT !.at = "adopted", !.options = OptionsOf(r.line, r.line.millis)])
        \/ Finishes(l)
    BY <1>1, <1>5 DEF StartsWorker
  <2> QED
    BY <1>6, <1>7, <1>8, <2>1
<1>10. /\ Shaped(s) /\ s.at = "adopted" /\ s.state = r.state /\ s.worker = r.worker
       /\ s.line = r.line /\ s.program = r.program
       /\ s.held = r.held /\ s.options = r.options /\ s.ask = r.ask /\ s.loads = r.loads
       /\ s.stale = r.stale /\ s.focus = r.focus /\ s.package = r.package
       /\ s.release = r.release
  BY <1>2, <1>7, <1>8 DEF Kept, Shaped
<1>11. Carried(s)
  BY <1>2, <1>10 DEF Kept, Carried, Carrying, Chosen
<1>12. Lined(s) /\ Recorded(s, profileFile) /\ Moused(s, profileFile)
  BY <1>2, <1>10 DEF Kept, Lined, Recorded, Moused, Carrying, Chosen, InDaemon, Working
<1>13. Served(l, s, server, installed)
  BY <1>2, <1>10 DEF Served, InDaemon, Working
<1> QED
  BY <1>2, <1>9, <1>10, <1>11, <1>12, <1>13, TurnAlone, FinishKeeps DEF Kept

\* PreparesWorker keeps the invariant: only a session that may grab has a relay.
LEMMA PrepareKeeps ==
  ASSUME RequestInv, NEW l \in Requests, PreparesWorker(l)
  PROVE  RequestInv'
<1>1. PICK r : r = launches[l]
  OBVIOUS
<1>2. /\ Kept(r, profileFile) /\ Served(l, r, server, installed) /\ r.at = "adopted"
      /\ UNCHANGED World /\ UNCHANGED server
  BY <1>1 DEF RequestInv, PreparesWorker, Stands
<1>3. PICK u : u = [r EXCEPT !.loads = @ \cup {"worker"}]
  OBVIOUS
<1>4. PICK focus : /\ focus = "relay" => "grab" \in r.options.on
                   /\ Turns(l, [u EXCEPT !.at = "play", !.focus = focus]) \/ Finishes(l)
  <2>1. CASE Finishes(l)
    <3>1. PICK focus : focus = "none"
      OBVIOUS
    <3> QED
      BY <2>1, <3>1
  <2>2. CASE ~Finishes(l)
    <3>1. PICK focus \in IF "grab" \in r.options.on /\ ~r.ask.root THEN {"relay", "none"}
                         ELSE {"none"} :
            Turns(l, [u EXCEPT !.at = "play", !.focus = focus])
      BY <1>1, <1>3, <2>2 DEF PreparesWorker, Loaded
    <3>2. focus = "relay" => "grab" \in r.options.on
      BY <3>1
    <3> QED
      BY <3>1, <3>2
  <2> QED
    BY <2>1, <2>2
<1>5. PICK s : s = [u EXCEPT !.at = "play", !.focus = focus]
  OBVIOUS
<1>6. /\ Shaped(u) /\ u.loads = r.loads \cup {"worker"}
      /\ u.state = r.state /\ u.worker = r.worker /\ u.program = r.program
      /\ u.held = r.held /\ u.options = r.options /\ u.ask = r.ask
      /\ u.stale = r.stale /\ u.package = r.package /\ u.release = r.release
  BY <1>2, <1>3 DEF Kept, Shaped
<1>7. /\ Shaped(s) /\ s.at = "play" /\ s.focus = focus /\ s.loads = r.loads \cup {"worker"}
      /\ s.state = r.state /\ s.worker = r.worker /\ s.program = r.program
      /\ s.held = r.held /\ s.options = r.options /\ s.ask = r.ask
      /\ s.stale = r.stale /\ s.package = r.package /\ s.release = r.release
  BY <1>5, <1>6 DEF Shaped
<1>8. Carried(s)
  BY <1>2, <1>4, <1>7 DEF Kept, Carried, Carrying, Chosen
<1>9. Lined(s) /\ Recorded(s, profileFile) /\ Moused(s, profileFile)
  BY <1>2, <1>7 DEF Kept, Lined, Recorded, Moused, Carrying, Chosen, InDaemon, Working
<1>10. Served(l, s, server, installed)
  BY <1>2, <1>7 DEF Served, InDaemon, Working
<1> QED
  BY <1>2, <1>4, <1>5, <1>7, <1>8, <1>9, <1>10, TurnAlone, FinishKeeps DEF Kept

\* PlaysDirectly keeps the invariant.
LEMMA DirectKeeps ==
  ASSUME RequestInv, NEW l \in Requests, PlaysDirectly(l)
  PROVE  RequestInv'
<1>1. PICK r : r = launches[l]
  OBVIOUS
<1>2. /\ Kept(r, profileFile) /\ r.at = "asked" /\ r.ask.via = "play"
      /\ UNCHANGED World /\ UNCHANGED server
  BY <1>1 DEF RequestInv, PlaysDirectly, Stands
<1>3. PICK o : o = OptionsOf(r.ask, r.ask.exit)
  OBVIOUS
<1>4. PICK s : s = [r EXCEPT !.at = "play", !.options = o]
  OBVIOUS
<1>5. Turns(l, s) \/ Finishes(l)
  BY <1>1, <1>3, <1>4 DEF PlaysDirectly
<1>6. /\ Shaped(s) /\ s.at = "play" /\ s.options = o /\ s.ask = r.ask
      /\ s.program = r.program /\ s.focus = r.focus
  BY <1>2, <1>4 DEF Kept, Shaped
<1>7. /\ ShapedOptions(o) /\ o.size = r.ask.size /\ o.on = WantedOn(r.ask)
      /\ o.exit = WantedExit(r.ask) /\ o.keyboard = r.ask.keyboard
  BY <1>2, <1>3, OptionsAre DEF WantedOn, WantedExit, Millis
<1>8. Carried(s)
  BY <1>2, <1>6, <1>7 DEF Kept, Carried, Chosen
<1>9. /\ Lined(s) /\ Recorded(s, profileFile) /\ Moused(s, profileFile)
      /\ Served(l, s, server, installed)
  BY <1>2, <1>6 DEF Lined, Recorded, Moused, Chosen, InDaemon, Working, Served
<1> QED
  BY <1>2, <1>5, <1>6, <1>8, <1>9, TurnAlone, FinishKeeps DEF Kept

\* A device that is found is one.
LEMMA FoundIsNode ==
  ASSUME RequestInv, NEW kind, NEW d \in Discovered(kind)
  PROVE  d # NoInput
BY RequestConstants DEF RequestInv, Surroundings, Discovered, Openable

\* ChoosesDevices keeps the invariant: a mouse is found for a profile that has a use for it.
LEMMA ChooseKeeps ==
  ASSUME RequestInv, NEW l \in Requests, ChoosesDevices(l)
  PROVE  RequestInv'
<1>1. PICK r : r = launches[l]
  OBVIOUS
<1>2. /\ Kept(r, profileFile) /\ Served(l, r, server, installed) /\ r.at = "play"
      /\ UNCHANGED World /\ UNCHANGED server
  BY <1>1 DEF RequestInv, ChoosesDevices, Stands
<1>3. PICK o : o = r.options
  OBVIOUS
<1>4. PICK u : u = [r EXCEPT !.loads = @ \cup {"play"}]
  OBVIOUS
<1>5. CASE Finishes(l)
  BY <1>2, <1>5, FinishKeeps
<1>6. CASE ~Finishes(l)
  <2>1. PICK k, m :
          /\ o.size > 0 /\ k \in Given(o.keyboard, "keyboard")
          /\ m \in IF profileFile.mouse \/ o.mouse # NoInput THEN Given(o.mouse, "mouse")
                   ELSE {NoInput}
          /\ Turns(l, [u EXCEPT !.at = "options",
                               !.options = [o EXCEPT !.keyboard = k, !.mouse = m]])
    BY <1>1, <1>3, <1>4, <1>6 DEF ChoosesDevices, Loaded
  <2>2. o.keyboard # NoInput => k = o.keyboard
    BY <2>1 DEF Given
  <2>3. profileFile.mouse => m # NoInput
    BY <2>1, FoundIsNode DEF Given
  <2>4. ~profileFile.mouse /\ o.mouse = NoInput => m = NoInput
    BY <2>1
  <2>5. PICK p : p = [o EXCEPT !.keyboard = k, !.mouse = m]
    OBVIOUS
  <2>6. PICK s : s = [u EXCEPT !.at = "options", !.options = p]
    OBVIOUS
  <2>7. ShapedOptions(o)
    BY <1>2, <1>3 DEF Kept, Carried, Carrying
  <2>8. /\ ShapedOptions(p) /\ p.size = o.size /\ p.on = o.on /\ p.exit = o.exit
        /\ p.keyboard = k /\ p.mouse = m
    BY <2>5, <2>7 DEF ShapedOptions
  <2>9. /\ Shaped(u) /\ u.loads = r.loads \cup {"play"}
        /\ u.state = r.state /\ u.worker = r.worker /\ u.program = r.program
        /\ u.held = r.held /\ u.ask = r.ask /\ u.focus = r.focus
        /\ u.stale = r.stale /\ u.package = r.package /\ u.release = r.release
    BY <1>2, <1>4 DEF Kept, Shaped
  <2>10. /\ Shaped(s) /\ s.at = "options" /\ s.options = p /\ s.loads = r.loads \cup {"play"}
         /\ s.state = r.state /\ s.worker = r.worker /\ s.program = r.program
         /\ s.held = r.held /\ s.ask = r.ask /\ s.focus = r.focus
         /\ s.stale = r.stale /\ s.package = r.package /\ s.release = r.release
    BY <2>6, <2>9 DEF Shaped
  <2>11. Carried(s)
    BY <1>2, <1>3, <2>1, <2>2, <2>8, <2>10 DEF Kept, Carried, Carrying, Chosen
  <2>12. Lined(s) /\ Recorded(s, profileFile)
    BY <1>2, <1>3, <2>10 DEF Kept, Lined, Recorded, Carrying, Chosen, InDaemon, Working
  <2>13. Moused(s, profileFile)
    <3>1. r.ask.via = "hub" /\ "client" \notin r.stale /\ ~profileFile.mouse => o.mouse = NoInput
      BY <1>2, <1>3 DEF Kept, Moused, Carrying
    <3>2. s.options.mouse = m /\ "play" \in s.loads /\ s.at = "options"
      BY <2>8, <2>10
    <3>3. s.ask.via = "hub" /\ {"client", "play"} \cap s.stale = {} /\ ~profileFile.mouse =>
            s.options.mouse = NoInput
      BY <2>4, <2>10, <3>1, <3>2
    <3> QED
      BY <2>3, <3>2, <3>3 DEF Moused, Carrying
  <2>14. Served(l, s, server, installed)
    BY <1>2, <2>10 DEF Served, InDaemon, Working
  <2> QED
    BY <1>2, <2>1, <2>5, <2>6, <2>10, <2>11, <2>12, <2>13, <2>14, TurnAlone DEF Kept
<1> QED
  BY <1>5, <1>6

\* ParsesOptions keeps the invariant.
LEMMA ParseKeeps ==
  ASSUME RequestInv, NEW l \in Requests, ParsesOptions(l)
  PROVE  RequestInv'
<1>1. PICK r : r = launches[l]
  OBVIOUS
<1>2. /\ Kept(r, profileFile) /\ r.at = "asked" /\ r.ask.via = "diagnostic"
      /\ UNCHANGED World /\ UNCHANGED server
  BY <1>1 DEF RequestInv, ParsesOptions, Stands
<1>3. PICK o : o = OptionsOf(r.ask, r.ask.exit)
  OBVIOUS
<1>4. PICK s : s = [r EXCEPT !.at = "options", !.options = o]
  OBVIOUS
<1>5. \/ Turns(l, s) /\ r.ask.size > 0
      \/ Finishes(l)
  BY <1>1, <1>3, <1>4 DEF ParsesOptions
<1>6. /\ Shaped(s) /\ s.at = "options" /\ s.options = o /\ s.ask = r.ask
      /\ s.program = r.program /\ s.focus = r.focus
  BY <1>2, <1>4 DEF Kept, Shaped
<1>7. /\ ShapedOptions(o) /\ o.size = r.ask.size /\ o.on = WantedOn(r.ask)
      /\ o.exit = WantedExit(r.ask) /\ o.keyboard = r.ask.keyboard
  BY <1>2, <1>3, OptionsAre DEF WantedOn, WantedExit, Millis
<1>8. r.ask.size > 0 => Carried(s)
  BY <1>2, <1>6, <1>7 DEF Kept, Carried, Chosen
<1>9. /\ Lined(s) /\ Recorded(s, profileFile) /\ Moused(s, profileFile)
      /\ Served(l, s, server, installed)
  BY <1>2, <1>6 DEF Lined, Recorded, Moused, Carrying, InDaemon, Working, Served
<1> QED
  BY <1>2, <1>5, <1>6, <1>8, <1>9, TurnAlone, FinishKeeps DEF Kept

\* RunsSession keeps the invariant: Android shows what the file holds, which is what the
\* client and the worker have seen unless it was saved since.
LEMMA RunKeeps ==
  ASSUME RequestInv, NEW l \in Requests, RunsSession(l)
  PROVE  RequestInv'
<1>1. PICK r : r = launches[l]
  OBVIOUS
<1>2. /\ Kept(r, profileFile) /\ Served(l, r, server, installed) /\ r.at = "options"
      /\ UNCHANGED World /\ UNCHANGED server
  BY <1>1 DEF RequestInv, RunsSession, Stands
<1>3. PICK shown : shown = Shown(r.options, profileFile)
  OBVIOUS
<1>4. PICK s : s = [r EXCEPT !.at = "live", !.played = profileFile, !.shows = shown]
  OBVIOUS
<1>5. Turns(l, s) \/ Finishes(l)
  BY <1>1, <1>3, <1>4 DEF RunsSession
<1>6. "game" \in r.options.on => shown = profileFile.package
  BY <1>3 DEF Shown
<1>7. /\ Shaped(s) /\ s.at = "live" /\ s.played = profileFile /\ s.shows = shown
      /\ s.options = r.options /\ s.loads = r.loads
      /\ s.state = r.state /\ s.worker = r.worker /\ s.program = r.program
      /\ s.held = r.held /\ s.ask = r.ask /\ s.focus = r.focus
      /\ s.stale = r.stale /\ s.package = r.package /\ s.release = r.release
  BY <1>2, <1>4 DEF Kept, Shaped
<1>8. Carried(s) /\ Lined(s)
  BY <1>2, <1>7 DEF Kept, Carried, Lined, Carrying, Chosen, InDaemon
<1>9. Recorded(s, profileFile)
  BY <1>2, <1>6, <1>7 DEF Kept, Recorded, Chosen, Working
<1>10. Moused(s, profileFile)
  BY <1>2, <1>7 DEF Kept, Moused, Chosen, Carrying
<1>11. Served(l, s, server, installed)
  BY <1>2, <1>7 DEF Served, InDaemon, Working
<1> QED
  BY <1>2, <1>5, <1>7, <1>8, <1>9, <1>10, <1>11, TurnAlone, FinishKeeps DEF Kept

\* SaveProfile keeps the invariant: who has loaded the profile knows it is not the file any
\* more; a live session has its own.
LEMMA SaveKeeps ==
  ASSUME RequestInv, SaveProfile
  PROVE  RequestInv'
<1>1. PICK content : profileFile' = content
  BY DEF SaveProfile
<1>2. /\ UNCHANGED <<server, plugged, installed>>
      /\ launches' = [l \in Requests |->
           IF Stands(l, "live") THEN launches[l]
           ELSE [launches[l] EXCEPT !.stale = @ \cup launches[l].loads]]
  BY DEF SaveProfile
<1>3. Surroundings' /\ OneServer'
  <2>1. launches' = [l \in Requests |-> launches'[l]]
    BY <1>2
  <2> QED
    BY <1>2, <2>1 DEF RequestInv, Surroundings, OneServer
<1>4. ASSUME NEW k \in Requests
      PROVE  (Kept(launches[k], profileFile) /\ Served(k, launches[k], server, installed))'
  <2>1. PICK r : r = launches[k]
    OBVIOUS
  <2>2. Kept(r, profileFile) /\ Served(k, r, server, installed)
    BY <2>1 DEF RequestInv
  <2>3. PICK s : s = launches'[k]
    OBVIOUS
  <2>4. CASE r.at = "live"
    <3>1. s = r
      BY <1>2, <2>1, <2>3, <2>4 DEF Stands
    <3>2. Recorded(s, content) /\ Moused(s, content)
      BY <2>2, <2>4, <3>1 DEF Kept, Recorded, Moused, Carrying
    <3>3. Kept(s, content) /\ Served(k, s, server, installed)
      BY <2>2, <3>1, <3>2 DEF Kept
    <3> QED
      BY <1>1, <1>2, <2>3, <3>3
  <2>5. CASE r.at # "live"
    <3>1. s = [r EXCEPT !.stale = r.stale \cup r.loads]
      BY <1>2, <2>1, <2>3, <2>5 DEF Stands
    <3>2. /\ Shaped(s) /\ s.at = r.at /\ s.stale = r.stale \cup r.loads /\ s.loads = r.loads
          /\ s.options = r.options /\ s.line = r.line
          /\ s.state = r.state /\ s.worker = r.worker /\ s.program = r.program
          /\ s.held = r.held /\ s.ask = r.ask /\ s.focus = r.focus
          /\ s.package = r.package /\ s.release = r.release
      BY <2>2, <3>1 DEF Kept, Shaped
    <3>3. Carried(s) /\ Lined(s)
      BY <2>2, <3>2 DEF Kept, Carried, Lined
    <3>4. Recorded(s, content)
      BY <2>2, <2>5, <3>2 DEF Kept, Recorded
    <3>5. Moused(s, content)
      BY <2>2, <2>5, <3>2 DEF Kept, Moused, Recorded, Chosen
    <3>6. Served(k, s, server, installed)
      BY <2>2, <3>2 DEF Served
    <3>7. Kept(s, content)
      BY <3>2, <3>3, <3>4, <3>5 DEF Kept
    <3> QED
      BY <1>1, <1>2, <2>3, <3>6, <3>7
  <2> QED
    BY <2>4, <2>5
<1> QED
  BY <1>3, <1>4 DEF RequestInv

\* Plug keeps the invariant.
LEMMA PlugKeeps ==
  ASSUME RequestInv, NEW d \in EventNodes, Plug(d)
  PROVE  RequestInv'
<1>1. UNCHANGED <<launches, server, profileFile, installed>> /\ plugged' \subseteq EventNodes
  BY DEF Plug, RequestInv, Surroundings
<1> QED
  BY <1>1 DEF RequestInv, Surroundings, OneServer

\* InstallFile keeps the invariant: a worker that was linked and not spawned knows it.
LEMMA InstallKeeps ==
  ASSUME RequestInv, NEW f \in {"wroid", "wroidd"}, InstallFile(f)
  PROVE  RequestInv'
<1>1. /\ UNCHANGED <<server, profileFile, plugged>>
      /\ installed' = [installed EXCEPT ![f] = @ + 1]
      /\ launches' = [l \in Requests |->
           IF f = "wroid" /\ Stands(l, "linked") THEN [launches[l] EXCEPT !.stale = @ \cup {"wroid"}]
           ELSE launches[l]]
  BY DEF InstallFile
<1>2. /\ installed' = [wroid |-> installed'.wroid, wroidd |-> installed'.wroidd]
      /\ f = "wroidd" => installed'.wroid = installed.wroid
  BY <1>1 DEF RequestInv, Surroundings
<1>3. Surroundings' /\ OneServer'
  <2>1. launches' = [l \in Requests |-> launches'[l]]
    BY <1>1
  <2> QED
    BY <1>1, <1>2, <2>1 DEF RequestInv, Surroundings, OneServer
<1>4. ASSUME NEW k \in Requests
      PROVE  (Kept(launches[k], profileFile) /\ Served(k, launches[k], server, installed))'
  <2>1. PICK r : r = launches[k]
    OBVIOUS
  <2>2. Kept(r, profileFile) /\ Served(k, r, server, installed)
    BY <2>1 DEF RequestInv
  <2>3. PICK s : s = launches'[k]
    OBVIOUS
  <2>4. CASE f = "wroid" /\ r.at = "linked"
    <3>1. s = [r EXCEPT !.stale = r.stale \cup {"wroid"}]
      BY <1>1, <2>1, <2>3, <2>4 DEF Stands
    <3>2. /\ Shaped(s) /\ s.at = "linked" /\ s.stale = r.stale \cup {"wroid"}
          /\ s.loads = r.loads /\ s.options = r.options /\ s.line = r.line
          /\ s.state = r.state /\ s.worker = r.worker /\ s.program = r.program
          /\ s.held = r.held /\ s.ask = r.ask /\ s.focus = r.focus
          /\ s.package = r.package /\ s.release = r.release
      BY <2>2, <2>4, <3>1 DEF Kept, Shaped
    <3>3. Carried(s) /\ Lined(s)
      BY <2>2, <2>4, <3>2 DEF Kept, Carried, Lined
    <3>4. Recorded(s, profileFile) /\ Moused(s, profileFile)
      BY <2>2, <2>4, <3>2 DEF Kept, Recorded, Moused, Chosen
    <3>5. Served(k, s, server, installed')
      BY <2>2, <2>4, <3>2 DEF Served, Working
    <3> QED
      BY <1>1, <2>3, <3>2, <3>3, <3>4, <3>5 DEF Kept
  <2>5. CASE ~(f = "wroid" /\ r.at = "linked")
    <3>1. s = r
      BY <1>1, <2>1, <2>3, <2>5 DEF Stands
    <3>2. Served(k, s, server, installed')
      BY <1>2, <2>2, <2>5, <3>1 DEF Served
    <3> QED
      BY <1>1, <2>2, <2>3, <3>1, <3>2
  <2> QED
    BY <2>4, <2>5
<1> QED
  BY <1>3, <1>4 DEF RequestInv

\* The invariant holds at first.
LEMMA RequestInitHolds == RequestInit => RequestInv
<1> SUFFICES ASSUME RequestInit PROVE RequestInv
  OBVIOUS
<1>1. Surroundings /\ OneServer
  BY DEF RequestInit, Surroundings, OneServer
<1>2. ASSUME NEW l \in Requests
      PROVE  Kept(launches[l], profileFile) /\ Served(l, launches[l], server, installed)
  <2>1. PICK r : r = launches[l]
    OBVIOUS
  <2>2. r = Unused
    BY <2>1 DEF RequestInit
  <2>3. Shaped(r) /\ r.at = "unused" /\ r.program = "none" /\ r.focus = "none"
    BY <2>2 DEF Unused, Shaped
  <2>4. Kept(r, profileFile) /\ Served(l, r, server, installed)
    BY <2>3 DEF Kept, Served, Carried, Lined, Recorded, Moused, Carrying, Chosen, InDaemon,
                Working
  <2> QED
    BY <2>1, <2>4
<1> QED
  BY <1>1, <1>2 DEF RequestInv

\* Every step keeps the invariant.
LEMMA RequestStepKeeps == RequestInv /\ [RequestNext]_requestVars => RequestInv'
<1> SUFFICES ASSUME RequestInv, [RequestNext]_requestVars PROVE RequestInv'
  OBVIOUS
<1>1. CASE UNCHANGED requestVars
  BY <1>1 DEF requestVars, RequestInv, Surroundings, OneServer
<1>2. ASSUME NEW l \in Requests, LaunchStep(l) PROVE RequestInv'
  <2>1. Aborts(l) => RequestInv'
    BY FinishKeeps DEF Aborts
  <2>2. BeginLaunch(l) \/ HubLaunches(l) \/ LaunchesManaged(l) \/ SendsRequest(l) => RequestInv'
    BY BeginKeeps, HubKeeps, ManagedKeeps, SendKeeps
  <2>3. Dispatch(l) \/ LinkWorker(l) \/ SpawnWorker(l) \/ Reap(l) => RequestInv'
    BY DispatchKeeps, LinkKeeps, SpawnKeeps, ReapKeeps
  <2>4. StartsWorker(l) \/ PreparesWorker(l) \/ PlaysDirectly(l) => RequestInv'
    BY StartKeeps, PrepareKeeps, DirectKeeps
  <2>5. ChoosesDevices(l) \/ ParsesOptions(l) \/ RunsSession(l) => RequestInv'
    BY ChooseKeeps, ParseKeeps, RunKeeps
  <2> QED
    BY <1>2, <2>1, <2>2, <2>3, <2>4, <2>5 DEF LaunchStep
<1> QED
  BY <1>1, <1>2, SaveKeeps, PlugKeeps, InstallKeeps DEF RequestNext

\* The invariant says what whoever launches a game relies on.
LEMMA RequestInvSuffices == RequestInv => LaunchIsAsAsked
<1> SUFFICES ASSUME RequestInv PROVE LaunchIsAsAsked
  OBVIOUS
<1>1. ASSUME NEW l \in Requests
      PROVE  Kept(launches[l], profileFile) /\ Served(l, launches[l], server, installed)
  BY DEF RequestInv
<1>2. RunsWhatWasAsked
  BY <1>1 DEF RunsWhatWasAsked, Stands, Kept, Carried, Chosen, WantedOn, WantedExit
<1>3. AcceptedLinesParse
  BY <1>1 DEF AcceptedLinesParse, Stands, Kept, Lined
<1>4. RecordNamesTheGame
  BY <1>1 DEF RecordNamesTheGame, Managed, Stands, Kept, Recorded, Chosen, Working
<1>5. MouseWhenNeeded
  BY <1>1 DEF MouseWhenNeeded, Stands, Kept, Moused
<1>6. OneProtocol
  BY <1>1 DEF OneProtocol, Managed, Stands, Served, Working
<1> QED
  BY <1>2, <1>3, <1>4, <1>5, <1>6 DEF LaunchIsAsAsked

\* For any launches, profiles, devices and releases, a session is the one that was asked
\* for, of the game that wroidd has recorded, with a mouse where the profile uses one, and
\* under a wroidd of its worker's protocol.
THEOREM LaunchIsAlwaysAsAsked == RequestSpec => []LaunchIsAsAsked
BY RequestInitHolds, RequestStepKeeps, RequestInvSuffices, PTL DEF RequestSpec

-----------------------------------------------------------------------------
(***************************************************************************)
(* InteractivePlay: for any profile of the format, any keys and any lag,   *)
(* the sticks of terminal play point where their keys say and tick while   *)
(* they do, and the terminal is given back however the loop ends.          *)
(***************************************************************************)

StickShape(s) == s \in [keys : SUBSET (1 .. 4), tick : Nat \cup {NoTick}]

\* a stick ticks exactly while it points somewhere
Ticks(b, s) == s.tick # NoTick <=> StickTarget(b, s.keys) # {}

\* the times that the loop waits for are numbers
TimesGiven(a) ==
  /\ a.kind = "virtual_joystick" => a.times[1] \in Nat /\ a.times[2] \in Nat
  /\ a.kind = "swipe" => a.times[1] \in Nat
Timed(p) ==
  \A n \in DOMAIN p.bindings :
    "action" \in DOMAIN p.bindings[n] /\ TimesGiven(p.bindings[n].action)

\* WillBeDown for any events that wait
Will(q, key, now) ==
  LET about == {n \in DOMAIN q : q[n].key = key}
  IN  IF about = {} THEN now
      ELSE \E n \in about : q[n].down /\ \A m \in about : m <= n

KeyEvents == [key : PlayKeys, down : BOOLEAN]

-----------------------------------------------------------------------------

\* A key event that comes last says what its key will be.
LEMMA LastEventTells ==
  ASSUME NEW q \in Seq(KeyEvents), NEW e \in KeyEvents, NEW key, NEW now
  PROVE  /\ e.key = key => (Will(Append(q, e), key, now) <=> e.down)
         /\ e.key # key => (Will(Append(q, e), key, now) <=> Will(q, key, now))
<1>. DEFINE r == Append(q, e)
            L == Len(q)
            about(s) == {n \in DOMAIN s : s[n].key = key}
<1>1. /\ L \in Nat /\ DOMAIN q = 1 .. L /\ DOMAIN r = 1 .. L + 1
      /\ r[L + 1] = e /\ \A n \in 1 .. L : r[n] = q[n]
  OBVIOUS
<1>. HIDE DEF r, L
<1>2. CASE e.key = key
  <2>1. L + 1 \in about(r) /\ \A m \in about(r) : m <= L + 1
    BY <1>1, <1>2
  <2>2. \A n \in about(r) : (\A m \in about(r) : m <= n) <=> n = L + 1
    BY <1>1, <2>1
  <2>3. Will(r, key, now) <=> \E n \in about(r) : r[n].down /\ \A m \in about(r) : m <= n
    BY <2>1 DEF Will
  <2>4. Will(r, key, now) <=> e.down
    BY <1>1, <2>1, <2>2, <2>3
  <2>. QED
    BY <1>2, <2>4 DEF r
<1>3. CASE e.key # key
  <2>1. about(r) = about(q) /\ \A n \in about(q) : r[n] = q[n]
    BY <1>1, <1>3
  <2>2. Will(r, key, now) <=> Will(q, key, now)
    BY <2>1 DEF Will
  <2>. QED
    BY <1>3, <2>2 DEF r
<1>. QED
  BY <1>2, <1>3

\* The first key event says what its key is, until a later one does.
LEMMA FirstEventTells ==
  ASSUME NEW q \in Seq(KeyEvents), q # <<>>, NEW key, NEW now \in BOOLEAN,
         NEW then \in BOOLEAN, then <=> IF Head(q).key = key THEN Head(q).down ELSE now
  PROVE  Will(q, key, now) <=> Will(Tail(q), key, then)
<1>. DEFINE r == Tail(q)
            L == Len(q)
            about(s) == {n \in DOMAIN s : s[n].key = key}
<1>1. /\ L \in Nat \ {0} /\ DOMAIN q = 1 .. L /\ DOMAIN r = 1 .. L - 1
      /\ Head(q) = q[1] /\ \A n \in 1 .. L - 1 : r[n] = q[n + 1]
      /\ \A n \in 1 .. L : q[n] \in KeyEvents
  OBVIOUS
<1>. HIDE DEF r, L
<1>2. /\ \A n \in 1 .. L - 1 : n \in about(r) <=> n + 1 \in about(q)
      /\ about(r) \subseteq 1 .. L - 1 /\ about(q) \subseteq 1 .. L
      /\ 1 \in about(q) <=> Head(q).key = key
  BY <1>1
<1>3. CASE about(r) = {}
  <2>1. about(q) \subseteq {1}
    <3>1. ASSUME NEW n \in about(q), n # 1 PROVE FALSE
      <4>1. n - 1 \in 1 .. L - 1 /\ (n - 1) + 1 = n
        BY <1>1, <1>2, <3>1
      <4>. QED
        BY <1>2, <1>3, <3>1, <4>1
    <3>. QED
      BY <3>1
  <2>2. Will(r, key, then) <=> then
    BY <1>3 DEF Will
  <2>3. CASE Head(q).key = key
    <3>1. about(q) = {1}
      BY <1>2, <2>1, <2>3
    <3>2. Will(q, key, now) <=> q[1].down
      BY <3>1 DEF Will
    <3>. QED
      BY <1>1, <2>2, <2>3, <3>2 DEF r
  <2>4. CASE Head(q).key # key
    <3>1. about(q) = {}
      BY <1>2, <2>1, <2>4
    <3>2. Will(q, key, now) <=> now
      BY <3>1 DEF Will
    <3>. QED
      BY <2>2, <2>4, <3>2 DEF r
  <2>. QED
    BY <2>3, <2>4
<1>4. CASE about(r) # {}
  <2>1. Will(r, key, then) <=> \E n \in about(r) : r[n].down /\ \A m \in about(r) : m <= n
    BY <1>4 DEF Will
  <2>2. Will(q, key, now) <=> \E n \in about(q) : q[n].down /\ \A m \in about(q) : m <= n
    BY <1>1, <1>2, <1>4 DEF Will
  <2>3. ASSUME NEW n \in about(r), r[n].down, \A m \in about(r) : m <= n
        PROVE  n + 1 \in about(q) /\ q[n + 1].down /\ \A m \in about(q) : m <= n + 1
    <3>1. n + 1 \in about(q) /\ q[n + 1].down
      BY <1>1, <1>2, <2>3
    <3>2. ASSUME NEW m \in about(q) PROVE m <= n + 1
      <4>1. CASE m = 1
        BY <1>1, <1>2, <4>1
      <4>2. CASE m # 1
        <5>1. m - 1 \in 1 .. L - 1 /\ (m - 1) + 1 = m
          BY <1>1, <1>2, <4>2
        <5>2. m - 1 <= n
          BY <1>2, <2>3, <5>1
        <5>. QED
          BY <1>1, <1>2, <5>1, <5>2
      <4>. QED
        BY <4>1, <4>2
    <3>. QED
      BY <3>1, <3>2
  <2>4. ASSUME NEW n \in about(q), q[n].down, \A m \in about(q) : m <= n
        PROVE  n - 1 \in about(r) /\ r[n - 1].down /\ \A m \in about(r) : m <= n - 1
    <3>1. PICK k \in about(r) : TRUE
      BY <1>4
    <3>5. k \in 1 .. L - 1 /\ k + 1 \in about(q) /\ n \in 1 .. L
      BY <1>2, <2>4, <3>1
    <3>6. k + 1 <= n
      BY <2>4, <3>5
    <3>2. n - 1 \in 1 .. L - 1 /\ (n - 1) + 1 = n
      BY <1>1, <3>5, <3>6
    <3>3. n - 1 \in about(r) /\ r[n - 1].down
      <4>1. PICK m \in 1 .. L - 1 : m = n - 1 /\ m + 1 = n
        BY <3>2
      <4>2. m \in about(r) /\ r[m] = q[n]
        BY <1>1, <1>2, <2>4, <4>1
      <4>. QED
        BY <2>4, <4>1, <4>2
    <3>4. ASSUME NEW m \in about(r) PROVE m <= n - 1
      <4>1. m \in 1 .. L - 1 /\ m + 1 \in about(q)
        BY <1>2
      <4>2. m + 1 <= n
        BY <2>4, <4>1
      <4>. QED
        BY <1>1, <3>2, <4>1, <4>2
    <3>. QED
      BY <3>3, <3>4
  <2>. QED
    BY <2>1, <2>2, <2>3, <2>4 DEF r
<1>. QED
  BY <1>3, <1>4

\* Time passes for the sticks; their keys stay.
LEMMA TimePasses ==
  ASSUME NEW s, \A n \in DOMAIN s : StickShape(s[n]), NEW time \in Int, PlayConstants
  PROVE  /\ DOMAIN Elapsed(time, s) = DOMAIN s
         /\ \A n \in DOMAIN s :
              LET t == Elapsed(time, s)[n]
              IN  /\ StickShape(t) /\ t.keys = s[n].keys
                  /\ \A b : Ticks(b, s[n]) => Ticks(b, t)
<1>1. ASSUME NEW n \in DOMAIN s
      PROVE  LET t == Elapsed(time, s)[n]
             IN  /\ StickShape(t) /\ t.keys = s[n].keys
                 /\ \A b : Ticks(b, s[n]) => Ticks(b, t)
  <2>1. PICK x : x = s[n]
    OBVIOUS
  <2>2. StickShape(x)
    BY <2>1
  <2>3. PICK k : k = CASE x.tick = NoTick -> NoTick
                       [] x.tick # NoTick /\ x.tick > time -> x.tick - time
                       [] OTHER -> 0
    OBVIOUS
  <2>4. k \in Nat \cup {NoTick} /\ (k = NoTick <=> x.tick = NoTick)
    BY <2>2, <2>3 DEF StickShape, PlayConstants
  <2>5. Elapsed(time, s)[n] = [x EXCEPT !.tick = k]
    BY <2>1, <2>3 DEF Elapsed
  <2>6. PICK t : t = [x EXCEPT !.tick = k]
    OBVIOUS
  <2>7. StickShape(t) /\ t.keys = x.keys /\ t.tick = k
    BY <2>2, <2>4, <2>6 DEF StickShape
  <2>8. \A b : Ticks(b, x) => Ticks(b, t)
    BY <2>4, <2>7 DEF Ticks
  <2>. QED
    BY <2>1, <2>5, <2>6, <2>7, <2>8
<1>2. DOMAIN Elapsed(time, s) = DOMAIN s
  BY DEF Elapsed
<1>. QED
  BY <1>1, <1>2

\* One direction of a stick.
Turned(b, key, on, s, d) == IF b.keys[d] = key THEN KeySet(b, s, d, on) ELSE s

\* A key turns the direction that it stands for, and the stick ticks as it then points.
LEMMA OneDirection ==
  ASSUME NEW b, NEW key, NEW on \in BOOLEAN, NEW s, StickShape(s), Ticks(b, s),
         NEW d \in 1 .. 4, PlayConstants
  PROVE  LET t == Turned(b, key, on, s, d)
         IN  /\ StickShape(t) /\ Ticks(b, t)
             /\ \A c \in 1 .. 4 :
                  c \in t.keys <=> IF c = d /\ b.keys[d] = key THEN on ELSE c \in s.keys
<1>1. CASE b.keys[d] = key
  <2>1. PICK keys : keys = IF on THEN s.keys \cup {d} ELSE s.keys \ {d}
    OBVIOUS
  <2>2. PICK tick : tick = CASE StickTarget(b, keys) = {} -> NoTick
                             [] StickTarget(b, keys) # {} /\ s.tick = NoTick -> 0
                             [] OTHER -> s.tick
    OBVIOUS
  <2>3. keys \in SUBSET (1 .. 4) /\ \A c \in 1 .. 4 : c \in keys <=> IF c = d THEN on ELSE c \in s.keys
    BY <2>1 DEF StickShape
  <2>4. tick \in Nat \cup {NoTick} /\ (tick # NoTick <=> StickTarget(b, keys) # {})
    BY <2>2 DEF StickShape, PlayConstants
  <2>5. Turned(b, key, on, s, d) = [keys |-> keys, tick |-> tick]
    BY <1>1, <2>1, <2>2 DEF Turned, KeySet
  <2>. QED
    BY <1>1, <2>3, <2>4, <2>5 DEF StickShape, Ticks
<1>2. CASE b.keys[d] # key
  BY <1>2 DEF Turned
<1>. QED
  BY <1>1, <1>2

\* All of them.
LEMMA StickTurns ==
  ASSUME NEW b, NEW key, NEW on \in BOOLEAN, NEW s, StickShape(s), Ticks(b, s), PlayConstants
  PROVE  LET t == StickAfter(b, s, key, on)
         IN  /\ StickShape(t) /\ Ticks(b, t)
             /\ \A d \in 1 .. 4 : d \in t.keys <=> IF b.keys[d] = key THEN on ELSE d \in s.keys
<1>1. PICK s1 : s1 = Turned(b, key, on, s, 1)
  OBVIOUS
<1>2. PICK s2 : s2 = Turned(b, key, on, s1, 2)
  OBVIOUS
<1>3. PICK s3 : s3 = Turned(b, key, on, s2, 3)
  OBVIOUS
<1>4. PICK t : t = Turned(b, key, on, s3, 4)
  OBVIOUS
<1>5. StickAfter(b, s, key, on) = t
  BY <1>1, <1>2, <1>3, <1>4 DEF StickAfter, Turned
<1>6. /\ StickShape(s1) /\ Ticks(b, s1)
      /\ \A c \in 1 .. 4 : c \in s1.keys <=> IF c = 1 /\ b.keys[1] = key THEN on ELSE c \in s.keys
  BY <1>1, OneDirection
<1>7. /\ StickShape(s2) /\ Ticks(b, s2)
      /\ \A c \in 1 .. 4 : c \in s2.keys <=> IF c = 2 /\ b.keys[2] = key THEN on ELSE c \in s1.keys
  BY <1>2, <1>6, OneDirection
<1>8. /\ StickShape(s3) /\ Ticks(b, s3)
      /\ \A c \in 1 .. 4 : c \in s3.keys <=> IF c = 3 /\ b.keys[3] = key THEN on ELSE c \in s2.keys
  BY <1>3, <1>7, OneDirection
<1>9. /\ StickShape(t) /\ Ticks(b, t)
      /\ \A c \in 1 .. 4 : c \in t.keys <=> IF c = 4 /\ b.keys[4] = key THEN on ELSE c \in s3.keys
  BY <1>4, <1>8, OneDirection
<1>10. \A d \in 1 .. 4 : d = 1 \/ d = 2 \/ d = 3 \/ d = 4
  OBVIOUS
<1>11. \A d \in 1 .. 4 : d \in t.keys <=> IF b.keys[d] = key THEN on ELSE d \in s.keys
  BY <1>6, <1>7, <1>8, <1>9, <1>10
<1>. QED
  BY <1>5, <1>9, <1>11

\* The times of a profile are numbers, and stay what they are when it is scaled.
LEMMA ProfilesAreTimed ==
  ASSUME NEW p \in Profiles1, NEW to
  PROVE  Timed(p) /\ Timed(ScaleProfile(p, to))
<1>1. ASSUME NEW n \in DOMAIN p.bindings
      PROVE  /\ TimesGiven(p.bindings[n].action) /\ TimesGiven(ScaleProfile(p, to).bindings[n].action)
             /\ "action" \in DOMAIN p.bindings[n]
             /\ "action" \in DOMAIN ScaleProfile(p, to).bindings[n]
  <2>1. PICK b \in Bindings1 : b = p.bindings[n]
    BY DEF Profiles1
  <2>2. PICK a \in Actions1 : a = b.action
    BY DEF Bindings1
  <2>3. TimesGiven(a)
    BY DEF Actions1, TimesGiven
  <2>4. PICK scaled : scaled = ScaleAction(a, p.size, to)
    OBVIOUS
  <2>5. scaled.kind = a.kind /\ scaled.times = a.times
    BY <2>4 DEF ScaleAction, Actions1
  <2>7. "action" \in DOMAIN b
    BY DEF Bindings1
  <2>6. /\ ScaleProfile(p, to).bindings[n].action = scaled
        /\ "action" \in DOMAIN ScaleProfile(p, to).bindings[n]
    <3>1. PICK s : s = [m \in DOMAIN p.bindings |->
                          [p.bindings[m] EXCEPT !.action = ScaleAction(@, p.size, to)]]
      OBVIOUS
    <3>2. ScaleProfile(p, to) = [p EXCEPT !.size = to, !.bindings = s]
      BY <3>1 DEF ScaleProfile
    <3>3. ScaleProfile(p, to).bindings = s
      BY <3>2 DEF Profiles1
    <3>4. s[n] = [b EXCEPT !.action = scaled]
      BY <2>1, <2>2, <2>4, <3>1
    <3>5. s[n].action = scaled
      BY <3>4 DEF Bindings1
    <3>6. "action" \in DOMAIN s[n]
      BY <3>4 DEF Bindings1
    <3>. QED
      BY <3>3, <3>5, <3>6
  <2>. QED
    BY <2>1, <2>2, <2>3, <2>5, <2>6, <2>7 DEF TimesGiven
<1>2. DOMAIN ScaleProfile(p, to).bindings = DOMAIN p.bindings
  BY DEF ScaleProfile, Profiles1
<1>. QED
  BY <1>1, <1>2 DEF Timed

-----------------------------------------------------------------------------

Before == {"load", "select", "scale", "launch", "raw"}
Loop == {"poll", "due", "swiping"}

\* the process, whatever its profile and what is due
PlayerShape(p) ==
  p \in [at : Before \cup Loop \cup {"ended", "failed", "killed"}, play : Plays,
         backend : {"none", "adb", "waydroid"}, profile : {p.profile},
         launched : {p.launched}, due : {p.due}]

PlayTyped ==
  /\ PlayerShape(player)
  /\ terminal \in [raw : BOOLEAN, flags : BOOLEAN, able : BOOLEAN, focus : BOOLEAN]
  /\ typed \in Seq(KeyEvents)

\* before the loop nobody has typed anything, and the terminal is left alone
QuietBefore ==
  player.at \in Before => typed = <<>> /\ shownKeys = {} /\ ~terminal.raw /\ ~terminal.flags

\* the profile is the one that was opened, or that one scaled
ProfileTimed ==
  /\ player.at \in {"select", "scale"} => player.profile \in Profiles1
  /\ player.at \in {"launch", "raw"} \cup Loop => Timed(player.profile)

\* swipes are due only while they are carried out, each of a stick
DueOfSticks ==
  /\ player.at \notin {"swiping", "killed"} => DOMAIN player.due = {}
  /\ player.at = "swiping" => DOMAIN player.due \subseteq DOMAIN sticks

\* the sticks of the profile
SticksTyped ==
  Watched =>
    /\ DOMAIN sticks = SticksIn(player.profile)
    /\ \A n \in DOMAIN sticks : StickShape(sticks[n])

\* the game was launched for the user who asked for it
LaunchedAsAsked == player.launched \in {NoWhere, LaunchUser(player.play.env)}

PlayInv ==
  /\ PlayTyped /\ QuietBefore /\ ProfileTimed /\ DueOfSticks /\ SticksTyped
  /\ LaunchedAsAsked /\ SticksFollowKeys /\ SwipesFollowSticks /\ TerminalIsGivenBack

\* The invariant holds at first.
LEMMA PlayInitHolds == PlayInit /\ PlayConstants => PlayInv
<1>. SUFFICES ASSUME PlayInit PROVE PlayInv
  OBVIOUS
<1>1. PICK play \in Plays :
        player = [at |-> "load", play |-> play, backend |-> "none", profile |-> NoEntry,
                  launched |-> NoWhere, due |-> <<>>]
  BY DEF PlayInit
<1>2. /\ player.at = "load" /\ player.launched = NoWhere /\ player.due = <<>>
      /\ PlayerShape(player)
  BY <1>1 DEF PlayerShape, Before
<1>3. /\ terminal \in [raw : BOOLEAN, flags : BOOLEAN, able : BOOLEAN, focus : BOOLEAN]
      /\ ~terminal.raw /\ ~terminal.flags
      /\ sticks = <<>> /\ typed = <<>> /\ shownKeys = {}
  BY DEF PlayInit
<1>4. DOMAIN player.due = {}
  BY <1>2
<1>5. typed \in Seq(KeyEvents)
  BY <1>3
<1>. QED
  BY <1>2, <1>3, <1>4, <1>5
     DEF PlayInv, PlayTyped, QuietBefore, ProfileTimed, DueOfSticks, SticksTyped, LaunchedAsAsked,
         SticksFollowKeys, SwipesFollowSticks, TerminalIsGivenBack, Watched, Loop

\* Steps before the loop keep it.
LEMMA BeforeKeeps ==
  ASSUME PlayInv, player.at \in Before, NEW r, player' = r, PlayerShape(r),
         r.at \in Before \cup {"failed"}, r.due = player.due,
         r.at \in {"select", "scale"} => r.profile \in Profiles1,
         r.at \in {"launch", "raw"} => Timed(r.profile),
         r.launched \in {NoWhere, LaunchUser(r.play.env)},
         UNCHANGED <<terminal, sticks, typed, shownKeys>>
  PROVE  PlayInv'
<1>1. PlayTyped'
  BY DEF PlayInv, PlayTyped, PlayerShape
<1>2. QuietBefore'
  BY DEF PlayInv, QuietBefore
<1>3. ProfileTimed' /\ LaunchedAsAsked'
  BY DEF ProfileTimed, LaunchedAsAsked, Loop, Before
<1>4. DOMAIN player'.due = {} /\ ~Watched'
  BY DEF PlayInv, DueOfSticks, Before, Watched
<1>5. DueOfSticks' /\ SticksTyped' /\ SticksFollowKeys' /\ SwipesFollowSticks'
  BY <1>4 DEF DueOfSticks, SticksTyped, SticksFollowKeys, SwipesFollowSticks, Watched
<1>6. TerminalIsGivenBack'
  BY DEF PlayInv, QuietBefore, TerminalIsGivenBack
<1>. QED
  BY <1>1, <1>2, <1>3, <1>5, <1>6 DEF PlayInv

\* A place of the process before the loop.
LEMMA PreparesKeeps ==
  ASSUME PlayInv, player.at \in Before, NEW place \in Before \cup {"failed"}, Prepares(place),
         place \in {"select", "scale"} => player.profile \in Profiles1,
         place \in {"launch", "raw"} => Timed(player.profile)
  PROVE  PlayInv'
<1>1. PICK r : r = [player EXCEPT !.at = place]
  OBVIOUS
<1>2. /\ PlayerShape(r) /\ r.at = place /\ r.due = player.due /\ r.profile = player.profile
      /\ r.play = player.play /\ r.launched = player.launched
  BY <1>1 DEF PlayInv, PlayTyped, PlayerShape
<1>3. player' = r /\ UNCHANGED <<terminal, sticks, typed, shownKeys>>
  BY <1>1 DEF Prepares, PlayerAt
<1>4. r.launched \in {NoWhere, LaunchUser(r.play.env)}
  BY <1>2 DEF PlayInv, LaunchedAsAsked
<1>. QED
  BY <1>2, <1>3, <1>4, BeforeKeeps

\* The preparations, one after the other.
LEMMA PreparationsKeep ==
  ASSUME PlayInv, PlayConstants
  PROVE  LoadPlay \/ SelectBackend \/ ScaleToCurrent \/ LaunchPackage => PlayInv'
<1>1. PICK p : p = player
  OBVIOUS
<1>2. PlayerShape(p) /\ p.play \in Plays
  BY <1>1 DEF PlayInv, PlayTyped, PlayerShape
<1>3. p.launched \in {NoWhere, LaunchUser(p.play.env)}
  BY <1>1 DEF PlayInv, LaunchedAsAsked
<1>4. CASE LoadPlay
  <2>1. p.at = "load"
    BY <1>1, <1>4 DEF LoadPlay
  <2>2. CASE IsProfile(p.play.content) /\ Errors1(p.play.content) \subseteq {"unsupported"}
    <3>1. PICK r : r = [p EXCEPT !.at = "select", !.profile = p.play.content]
      OBVIOUS
    <3>2. /\ PlayerShape(r) /\ r.at = "select" /\ r.due = p.due /\ r.profile = p.play.content
          /\ r.play = p.play /\ r.launched = p.launched
      BY <1>2, <3>1 DEF PlayerShape, Before
    <3>3. player' = r /\ UNCHANGED <<terminal, sticks, typed, shownKeys>>
      BY <1>1, <1>4, <2>2, <3>1 DEF LoadPlay
    <3>4. r.profile \in Profiles1
      BY <1>2, <2>2, <3>2 DEF PlayConstants
    <3>. QED
      BY <1>1, <1>3, <2>1, <3>2, <3>3, <3>4, BeforeKeeps DEF Before
  <2>3. CASE ~(IsProfile(p.play.content) /\ Errors1(p.play.content) \subseteq {"unsupported"})
    <3>1. Prepares("failed")
      BY <1>1, <1>4, <2>3 DEF LoadPlay
    <3>. QED
      BY <1>1, <2>1, <3>1, PreparesKeeps DEF Before
  <2>. QED
    BY <2>2, <2>3
<1>5. CASE SelectBackend
  <2>1. PICK chosen \in {"adb", "waydroid"} : player' = [player EXCEPT !.at = "scale", !.backend = chosen]
    BY <1>5 DEF SelectBackend
  <2>2. PICK r : r = [p EXCEPT !.at = "scale", !.backend = chosen]
    OBVIOUS
  <2>3. /\ PlayerShape(r) /\ r.at = "scale" /\ r.due = p.due /\ r.profile = p.profile
        /\ r.play = p.play /\ r.launched = p.launched
    BY <1>2, <2>2 DEF PlayerShape, Before
  <2>4. /\ player' = r /\ player.at = "select"
        /\ UNCHANGED <<terminal, sticks, typed, shownKeys>>
    BY <1>1, <1>5, <2>1, <2>2 DEF SelectBackend
  <2>5. r.profile \in Profiles1
    BY <1>1, <2>3, <2>4 DEF PlayInv, ProfileTimed
  <2>. QED
    BY <1>1, <1>3, <2>3, <2>4, <2>5, BeforeKeeps DEF Before
<1>6. CASE ScaleToCurrent
  <2>1. player.at = "scale" /\ p.profile \in Profiles1
    BY <1>1, <1>6 DEF ScaleToCurrent, PlayInv, ProfileTimed
  <2>2. Timed(p.profile)
    BY <2>1, ProfilesAreTimed
  <2>3. CASE Prepares("launch") \/ Prepares("failed")
    BY <1>1, <2>1, <2>2, <2>3, PreparesKeeps DEF Before
  <2>4. ASSUME NEW output \in WmSizes,
               player' = [player EXCEPT !.at = "launch", !.profile =
                            IF @.size = ParseSize(output) THEN @ ELSE ScaleProfile(@, ParseSize(output))],
               UNCHANGED <<terminal, sticks, typed, keysDown, shownKeys, typedCount>>
        PROVE  PlayInv'
    <3>1. PICK q : q = IF p.profile.size = ParseSize(output) THEN p.profile
                       ELSE ScaleProfile(p.profile, ParseSize(output))
      OBVIOUS
    <3>2. Timed(q)
      BY <2>1, <3>1, ProfilesAreTimed
    <3>3. PICK r : r = [p EXCEPT !.at = "launch", !.profile = q]
      OBVIOUS
    <3>4. /\ PlayerShape(r) /\ r.at = "launch" /\ r.due = p.due /\ r.profile = q
          /\ r.play = p.play /\ r.launched = p.launched
      BY <1>2, <3>3 DEF PlayerShape, Before
    <3>5. player' = r
      BY <1>1, <2>4, <3>1, <3>3
    <3>. QED
      BY <1>1, <1>3, <2>1, <2>4, <3>2, <3>4, <3>5, BeforeKeeps DEF Before
  <2>. QED
    BY <1>6, <2>3, <2>4 DEF ScaleToCurrent
<1>7. CASE LaunchPackage
  <2>1. player.at = "launch" /\ Timed(p.profile)
    BY <1>1, <1>7 DEF LaunchPackage, PlayInv, ProfileTimed
  <2>2. CASE Prepares("raw") \/ Prepares("failed")
    BY <1>1, <2>1, <2>2, PreparesKeeps DEF Before
  <2>3. ASSUME player' = [player EXCEPT !.at = "raw", !.launched =
                            IF player.backend = "waydroid" THEN LaunchUser(player.play.env) ELSE NoWhere],
               UNCHANGED <<terminal, sticks, typed, keysDown, shownKeys, typedCount>>
        PROVE  PlayInv'
    <3>1. PICK u \in {NoWhere, LaunchUser(p.play.env)} :
            u = IF p.backend = "waydroid" THEN LaunchUser(p.play.env) ELSE NoWhere
      OBVIOUS
    <3>2. PICK r : r = [p EXCEPT !.at = "raw", !.launched = u]
      OBVIOUS
    <3>3. /\ PlayerShape(r) /\ r.at = "raw" /\ r.due = p.due /\ r.profile = p.profile
          /\ r.play = p.play /\ r.launched = u
      BY <1>2, <3>2 DEF PlayerShape, Before
    <3>4. player' = r
      BY <1>1, <2>3, <3>1, <3>2
    <3>. QED
      BY <1>1, <2>1, <2>3, <3>1, <3>3, <3>4, BeforeKeeps DEF Before
  <2>. QED
    BY <1>7, <2>2, <2>3 DEF LaunchPackage
<1>. QED
  BY <1>4, <1>5, <1>6, <1>7

\* The end of the loop gives the terminal back.
LEMMA RestoresKeeps ==
  ASSUME PlayInv, NEW failed \in BOOLEAN, Restores(failed)
  PROVE  PlayInv'
<1>1. PICK place \in {"failed", "ended"} : place = IF failed THEN "failed" ELSE "ended"
  OBVIOUS
<1>2. PICK r : r = [player EXCEPT !.at = place, !.due = <<>>]
  OBVIOUS
<1>3. /\ PlayerShape(r) /\ r.at = place /\ r.due = <<>> /\ r.play = player.play
      /\ r.launched = player.launched
  BY <1>2 DEF PlayInv, PlayTyped, PlayerShape
<1>4. player' = r
  BY <1>1, <1>2 DEF Restores
<1>5. terminal' = [terminal EXCEPT !.raw = FALSE, !.flags = FALSE] /\ typed' = <<>>
  BY DEF Restores
<1>6. /\ terminal' \in [raw : BOOLEAN, flags : BOOLEAN, able : BOOLEAN, focus : BOOLEAN]
      /\ ~terminal'.raw /\ ~terminal'.flags
  BY <1>5 DEF PlayInv, PlayTyped
<1>7. typed' \in Seq(KeyEvents)
  BY <1>5
<1>8. player'.at \notin Before \cup Loop /\ DOMAIN player'.due = {} /\ ~Watched'
  BY <1>3, <1>4 DEF Before, Loop, Watched
<1>9. PlayTyped' /\ QuietBefore' /\ TerminalIsGivenBack'
  BY <1>3, <1>4, <1>6, <1>7, <1>8 DEF PlayTyped, QuietBefore, TerminalIsGivenBack
<1>10. ProfileTimed' /\ DueOfSticks' /\ SticksTyped' /\ SticksFollowKeys' /\ SwipesFollowSticks'
  BY <1>8 DEF ProfileTimed, DueOfSticks, SticksTyped, SticksFollowKeys, SwipesFollowSticks,
              Before, Loop
<1>11. LaunchedAsAsked'
  BY <1>3, <1>4 DEF PlayInv, LaunchedAsAsked
<1>. QED
  BY <1>9, <1>10, <1>11 DEF PlayInv

\* What a state of the loop is.
LEMMA InLoop ==
  ASSUME PlayInv, Watched
  PROVE  /\ PlayerShape(player) /\ player.at \in Loop /\ typed \in Seq(KeyEvents)
         /\ DOMAIN sticks = SticksIn(player.profile) /\ Timed(player.profile)
         /\ \A n \in DOMAIN sticks : StickShape(sticks[n]) /\ Ticks(Cluster1(n), sticks[n])
         /\ \A n \in DOMAIN player.due :
              player.due[n] = StickTarget(Cluster1(n), sticks[n].keys)
BY DEF PlayInv, PlayTyped, ProfileTimed, SticksTyped, SwipesFollowSticks, Watched, Loop, Ticks

\* Steps of the loop keep it that leave the sticks fit.
LEMMA LoopKeeps ==
  ASSUME PlayInv, player.at \in Loop \cup {"raw"}, NEW r, player' = r, PlayerShape(r), r.at \in Loop,
         r.play = player.play, r.profile = player.profile, r.launched = player.launched,
         terminal' \in [raw : BOOLEAN, flags : BOOLEAN, able : BOOLEAN, focus : BOOLEAN],
         typed' \in Seq(KeyEvents),
         DOMAIN sticks' = SticksIn(player.profile),
         \A n \in DOMAIN sticks' : StickShape(sticks'[n]) /\ Ticks(Cluster1(n), sticks'[n]),
         r.at # "swiping" => DOMAIN r.due = {},
         DOMAIN r.due \subseteq DOMAIN sticks',
         \A n \in DOMAIN r.due : r.due[n] = StickTarget(Cluster1(n), sticks'[n].keys),
         SticksFollowKeys'
  PROVE  PlayInv'
<1>1. PlayTyped'
  BY DEF PlayTyped
<1>2. player'.at \notin Before /\ player'.at \notin {"ended", "failed", "killed"} /\ Watched'
  BY DEF Before, Loop, Watched
<1>3. QuietBefore' /\ TerminalIsGivenBack'
  BY <1>2 DEF QuietBefore, TerminalIsGivenBack
<1>4. ProfileTimed' /\ LaunchedAsAsked'
  BY DEF PlayInv, ProfileTimed, LaunchedAsAsked, Loop
<1>5. DueOfSticks' /\ SticksTyped'
  BY <1>2 DEF DueOfSticks, SticksTyped
<1>6. \A n : Cluster1(n)' = Cluster1(n)
  BY DEF Cluster1
<1>7. SwipesFollowSticks'
  BY <1>6 DEF SwipesFollowSticks, Ticks
<1>. QED
  BY <1>1, <1>3, <1>4, <1>5, <1>7 DEF PlayInv

\* The keys that a stick has are what it follows.
LEMMA KeysFollow ==
  ASSUME SticksFollowKeys, Watched, player'.profile = player.profile,
         DOMAIN sticks' = DOMAIN sticks, \A n \in DOMAIN sticks : sticks'[n].keys = sticks[n].keys,
         UNCHANGED <<typed, shownKeys>>
  PROVE  SticksFollowKeys'
<1>1. \A n : Cluster1(n)' = Cluster1(n)
  BY DEF Cluster1
<1>2. \A key, now : WillBeDown(key, now)' = WillBeDown(key, now)
  BY DEF WillBeDown
<1>. QED
  BY <1>1, <1>2 DEF SticksFollowKeys

\* The loop begins with every stick at rest.
LEMMA EnableKeeps ==
  ASSUME PlayInv, PlayConstants, EnableRawMode
  PROVE  PlayInv'
<1>0. player.at = "raw" /\ Timed(player.profile) /\ typed = <<>> /\ shownKeys = {}
  BY DEF EnableRawMode, PlayInv, QuietBefore, ProfileTimed, Before
<1>1. CASE Prepares("failed")
  BY <1>0, <1>1, PreparesKeeps DEF Before
<1>2. ASSUME NEW pushed \in BOOLEAN, terminal' = [terminal EXCEPT !.raw = TRUE, !.flags = pushed],
             sticks' = [n \in SticksIn(player.profile) |-> [keys |-> {}, tick |-> NoTick]],
             PlayerAt("poll"), UNCHANGED <<typed, keysDown, shownKeys, typedCount>>
      PROVE  PlayInv'
  <2>1. PICK r : r = [player EXCEPT !.at = "poll"]
    OBVIOUS
  <2>2. /\ PlayerShape(r) /\ r.at = "poll" /\ r.due = player.due /\ r.profile = player.profile
        /\ r.play = player.play /\ r.launched = player.launched /\ player' = r
    BY <1>2, <2>1 DEF PlayInv, PlayTyped, PlayerShape, PlayerAt, Loop
  <2>3. terminal' \in [raw : BOOLEAN, flags : BOOLEAN, able : BOOLEAN, focus : BOOLEAN]
    BY <1>2 DEF PlayInv, PlayTyped
  <2>4. DOMAIN r.due = {}
    BY <1>0, <2>2 DEF PlayInv, DueOfSticks
  <2>5. \A b : StickTarget(b, {}) = {}
    BY DEF StickTarget, Toward
  <2>6. PICK rest : rest = [keys |-> {}, tick |-> NoTick]
    OBVIOUS
  <2>7. StickShape(rest) /\ (\A b : Ticks(b, rest)) /\ rest.keys = {}
    BY <2>5, <2>6 DEF StickShape, Ticks
  <2>8. DOMAIN sticks' = SticksIn(player.profile) /\ \A n \in DOMAIN sticks' : sticks'[n] = rest
    BY <1>2, <2>6
  <2>9. \A key, now : WillBeDown(key, now)' <=> now
    BY <1>0, <1>2 DEF WillBeDown
  <2>10. SticksFollowKeys'
    BY <1>0, <1>2, <2>7, <2>8, <2>9 DEF SticksFollowKeys
  <2>11. typed' \in Seq(KeyEvents)
    BY <1>0, <1>2
  <2>. QED
    BY <1>0, <2>2, <2>3, <2>4, <2>7, <2>8, <2>10, <2>11, LoopKeeps DEF Loop
<1>. QED
  BY <1>1, <1>2 DEF EnableRawMode

\* A step of the loop in which only time passes for the sticks.
LEMMA TimeKeeps ==
  ASSUME PlayInv, PlayConstants, Watched, NEW time \in Int, sticks' = Elapsed(time, sticks),
         NEW r, player' = r, PlayerShape(r), r.at \in Loop,
         r.play = player.play, r.profile = player.profile, r.launched = player.launched,
         r.at # "swiping" => DOMAIN r.due = {},
         DOMAIN r.due \subseteq DOMAIN player.due,
         DOMAIN player.due \subseteq DOMAIN sticks,
         \A n \in DOMAIN r.due : r.due[n] = player.due[n],
         UNCHANGED <<terminal, typed, shownKeys>>
  PROVE  PlayInv'
<1>1. /\ DOMAIN sticks' = DOMAIN sticks
      /\ \A n \in DOMAIN sticks :
           /\ StickShape(sticks'[n]) /\ sticks'[n].keys = sticks[n].keys
           /\ Ticks(Cluster1(n), sticks'[n])
  BY InLoop, TimePasses
<1>2. SticksFollowKeys'
  BY <1>1, KeysFollow DEF PlayInv
<1>3. \A n \in DOMAIN r.due : r.due[n] = StickTarget(Cluster1(n), sticks'[n].keys)
  BY <1>1, InLoop
<1>4. /\ terminal' \in [raw : BOOLEAN, flags : BOOLEAN, able : BOOLEAN, focus : BOOLEAN]
      /\ typed' \in Seq(KeyEvents)
  BY DEF PlayInv, PlayTyped
<1>. QED
  BY <1>1, <1>2, <1>3, <1>4, InLoop, LoopKeeps

\* A poll in vain.
LEMMA PollInVainKeeps ==
  ASSUME PlayInv, PlayConstants, PollInVain
  PROVE  PlayInv'
<1>1. player.at = "poll" /\ Watched /\ DOMAIN player.due = {}
  BY DEF PollInVain, Watched, PlayInv, DueOfSticks
<1>2. PICK time \in Int : sticks' = Elapsed(time, sticks)
  BY DEF PollInVain, Waits
<1>3. PICK r : r = [player EXCEPT !.at = "due"]
  OBVIOUS
<1>4. /\ PlayerShape(r) /\ r.at = "due" /\ r.due = player.due /\ r.profile = player.profile
      /\ r.play = player.play /\ r.launched = player.launched
  BY <1>3 DEF PlayInv, PlayTyped, PlayerShape, Loop
<1>5. player' = r /\ UNCHANGED <<terminal, typed, shownKeys>>
  BY <1>3 DEF PollInVain, PlayerAt
<1>. QED
  BY <1>1, <1>2, <1>4, <1>5, TimeKeeps DEF Loop

\* One event is read; the sticks of its key turn, and the others only see time pass.
LEMMA ReadKeeps ==
  ASSUME PlayInv, PlayConstants, player.at = "poll", typed # <<>>,
         NEW e, e = Head(typed), e.key # EscKey,
         PlayerAt("due"), typed' = Tail(typed), UNCHANGED <<terminal, shownKeys>>,
         DOMAIN sticks' = DOMAIN sticks,
         \A n \in DOMAIN sticks :
           /\ StickShape(sticks'[n]) /\ Ticks(Cluster1(n), sticks'[n])
           /\ \A d \in 1 .. 4 : d \in sticks'[n].keys <=>
                IF Cluster1(n).keys[d] = e.key THEN e.down ELSE d \in sticks[n].keys
  PROVE  PlayInv'
<1>1. Watched /\ DOMAIN player.due = {}
  BY DEF Watched, PlayInv, DueOfSticks
<1>2. PICK r : r = [player EXCEPT !.at = "due"]
  OBVIOUS
<1>3. /\ PlayerShape(r) /\ r.at = "due" /\ r.due = player.due /\ r.profile = player.profile
      /\ r.play = player.play /\ r.launched = player.launched /\ player' = r
  BY <1>2 DEF PlayInv, PlayTyped, PlayerShape, PlayerAt, Loop
<1>4. /\ terminal' \in [raw : BOOLEAN, flags : BOOLEAN, able : BOOLEAN, focus : BOOLEAN]
      /\ typed \in Seq(KeyEvents) /\ typed' \in Seq(KeyEvents) /\ e \in KeyEvents
  BY DEF PlayInv, PlayTyped
<1>5. \A n : Cluster1(n)' = Cluster1(n)
  BY <1>3 DEF Cluster1
<1>6. SticksFollowKeys'
  <2>0. SticksFollowKeys' <=>
          (Watched' /\ (\A n \in DOMAIN typed' : typed'[n].key # EscKey) =>
             \A n \in DOMAIN sticks' : \A d \in 1 .. 4 :
               Will(typed', Cluster1(n)'.keys[d], d \in sticks'[n].keys)
                 <=> Cluster1(n)'.keys[d] \in shownKeys')
    BY DEF SticksFollowKeys, WillBeDown, Will
  <2>. SUFFICES ASSUME \A n \in DOMAIN typed' : typed'[n].key # EscKey,
                       NEW n \in DOMAIN sticks, NEW d \in 1 .. 4
                PROVE  Will(typed', Cluster1(n).keys[d], d \in sticks'[n].keys)
                         <=> Cluster1(n).keys[d] \in shownKeys
    BY <1>5, <2>0
  <2>1. ASSUME NEW m \in DOMAIN typed
        PROVE  typed[m].key # EscKey
    <3>1. CASE m = 1
      BY <1>4, <3>1
    <3>2. CASE m # 1
      <4>1. m - 1 \in DOMAIN typed' /\ typed'[m - 1] = typed[m]
        BY <1>4, <3>2
      <4>. QED
        BY <4>1
    <3>. QED
      BY <3>1, <3>2
  <2>2. PICK key : key = Cluster1(n).keys[d]
    OBVIOUS
  <2>3. WillBeDown(key, d \in sticks[n].keys) <=> key \in shownKeys
    BY <1>1, <2>1, <2>2 DEF PlayInv, SticksFollowKeys
  <2>4. PICK now \in BOOLEAN : now <=> d \in sticks[n].keys
    OBVIOUS
  <2>5. PICK then \in BOOLEAN : then <=> IF e.key = key THEN e.down ELSE now
    BY <1>4 DEF KeyEvents
  <2>6. Will(typed, key, now) <=> Will(Tail(typed), key, then)
    BY <1>4, <2>5, FirstEventTells
  <2>7. then <=> d \in sticks'[n].keys
    BY <2>2, <2>4, <2>5
  <2>8. WillBeDown(key, d \in sticks[n].keys) <=> Will(typed, key, now)
    BY <2>4 DEF WillBeDown, Will
  <2>9. Will(typed', key, d \in sticks'[n].keys) <=> Will(Tail(typed), key, then)
    BY <2>7 DEF Will
  <2>. QED
    BY <2>2, <2>3, <2>6, <2>8, <2>9
<1>. QED
  BY <1>1, <1>3, <1>4, <1>6, InLoop, LoopKeeps DEF Loop

\* An event of the terminal.
LEMMA ReadEventKeeps ==
  ASSUME PlayInv, PlayConstants, ReadEvent
  PROVE  PlayInv'
<1>1. player.at = "poll" /\ typed # <<>> /\ Watched /\ UNCHANGED shownKeys
  BY DEF ReadEvent, Watched
<1>2. PICK e \in KeyEvents : e = Head(typed)
  BY <1>1, InLoop
<1>3. PICK time \in Waits :
        LET then == Elapsed(time, sticks)
            OneTurn == PlayerAt("due") /\ typed' = Tail(typed) /\ UNCHANGED terminal
        IN  \/ e.key = EscKey /\ Restores(FALSE) /\ sticks' = then
            \/ /\ e.key # EscKey /\ InKeyMap(e.key) /\ OneTurn
               /\ sticks' = [n \in DOMAIN sticks |-> StickAfter(Cluster1(n), then[n], e.key, e.down)]
            \/ /\ e.key # EscKey /\ ~InKeyMap(e.key) /\ (~e.down \/ Resolved(e.key) = {})
               /\ OneTurn /\ sticks' = then
            \/ /\ e.key # EscKey /\ ~InKeyMap(e.key) /\ e.down
               /\ \E b \in Resolved(e.key) :
                    \/ OneTurn /\ sticks' = Elapsed(Takes(b), then)
                    \/ Restores(TRUE) /\ sticks' = then
  BY <1>2 DEF ReadEvent
<1>4. PICK s : s = Elapsed(time, sticks)
  OBVIOUS
<1>5. time \in Int
  BY DEF Waits
<1>6. /\ DOMAIN s = DOMAIN sticks
      /\ \A n \in DOMAIN sticks :
           StickShape(s[n]) /\ s[n].keys = sticks[n].keys /\ Ticks(Cluster1(n), s[n])
  BY <1>1, <1>4, <1>5, InLoop, TimePasses
<1>7. CASE Restores(TRUE) \/ Restores(FALSE)
  BY <1>7, RestoresKeeps
<1>8. ASSUME e.key # EscKey, InKeyMap(e.key), PlayerAt("due"), typed' = Tail(typed),
             UNCHANGED terminal,
             sticks' = [n \in DOMAIN sticks |-> StickAfter(Cluster1(n), s[n], e.key, e.down)]
      PROVE  PlayInv'
  <2>1. ASSUME NEW n \in DOMAIN sticks
        PROVE  /\ StickShape(sticks'[n]) /\ Ticks(Cluster1(n), sticks'[n])
               /\ \A d \in 1 .. 4 : d \in sticks'[n].keys <=>
                    IF Cluster1(n).keys[d] = e.key THEN e.down ELSE d \in sticks[n].keys
    <3>1. sticks'[n] = StickAfter(Cluster1(n), s[n], e.key, e.down)
      BY <1>8
    <3>2. e.down \in BOOLEAN
      BY <1>2 DEF KeyEvents
    <3>. QED
      BY <1>6, <3>1, <3>2, StickTurns
  <2>2. DOMAIN sticks' = DOMAIN sticks
    BY <1>8
  <2>. QED
    BY <1>1, <1>2, <1>8, <2>1, <2>2, ReadKeeps
<1>9. ASSUME e.key # EscKey, ~InKeyMap(e.key), PlayerAt("due"), typed' = Tail(typed),
             UNCHANGED terminal,
             NEW later \in Int, sticks' = s \/ sticks' = Elapsed(later, s)
      PROVE  PlayInv'
  <2>1. /\ DOMAIN sticks' = DOMAIN sticks
        /\ \A n \in DOMAIN sticks : /\ StickShape(sticks'[n]) /\ sticks'[n].keys = sticks[n].keys
                                     /\ Ticks(Cluster1(n), sticks'[n])
    BY <1>6, <1>9, TimePasses
  <2>2. \A n \in DOMAIN sticks : \A d \in 1 .. 4 : Cluster1(n).keys[d] # e.key
    BY <1>9 DEF InKeyMap
  <2>. QED
    BY <1>1, <1>2, <1>9, <2>1, <2>2, ReadKeeps
<1>10. \A b \in Resolved(e.key) : Takes(b) \in Int
  <2>. SUFFICES ASSUME NEW n \in DOMAIN player.profile.bindings
                PROVE  Takes(player.profile.bindings[n]) \in Int
    BY DEF Resolved
  <2>1. TimesGiven(player.profile.bindings[n].action)
    BY <1>1, InLoop DEF Timed
  <2>. QED
    BY <2>1 DEF TimesGiven, Takes
<1>11. \/ Restores(TRUE) \/ Restores(FALSE)
       \/ /\ e.key # EscKey /\ PlayerAt("due") /\ typed' = Tail(typed) /\ UNCHANGED terminal
          /\ \/ /\ InKeyMap(e.key)
                /\ sticks' = [n \in DOMAIN sticks |-> StickAfter(Cluster1(n), s[n], e.key, e.down)]
             \/ ~InKeyMap(e.key) /\ sticks' = s
             \/ ~InKeyMap(e.key) /\ \E later \in Int : sticks' = Elapsed(later, s)
  BY <1>3, <1>4, <1>10
<1>12. 0 \in Int
  OBVIOUS
<1>. QED
  BY <1>7, <1>8, <1>9, <1>11, <1>12

\* The times of a stick, which are those of its binding.
LEMMA SticksAreTimed ==
  ASSUME NEW n \in SticksIn(player.profile), Timed(player.profile)
  PROVE  Cluster1(n).action.times[1] \in Nat /\ Cluster1(n).action.times[2] \in Nat
<1>1. PICK b : b = player.profile.bindings[n]
  OBVIOUS
<1>2. /\ "action" \in DOMAIN b /\ TimesGiven(b.action) /\ b.action.kind = "virtual_joystick"
  BY <1>1 DEF SticksIn, Timed
<1>3. Cluster1(n).action = b.action
  BY <1>1, <1>2 DEF Cluster1, NormalizedInput
<1>. QED
  BY <1>2, <1>3 DEF TimesGiven

\* What is due is decided by the keys at that moment, for all sticks before the first swipe.
LEMMA DueSwipesKeeps ==
  ASSUME PlayInv, PlayConstants, DueSwipes
  PROVE  PlayInv'
<1>. DEFINE goes(n) == sticks[n].tick = 0 /\ StickTarget(Cluster1(n), sticks[n].keys) # {}
            going == {n \in DOMAIN sticks : goes(n)}
            next(n) == CASE goes(n) -> Cluster1(n).action.times[1]
                         [] sticks[n].tick = 0 /\ ~goes(n) -> NoTick
                         [] OTHER -> sticks[n].tick
<1>1. player.at = "due" /\ Watched
  BY DEF DueSwipes, Watched
<1>2. /\ sticks' = [n \in DOMAIN sticks |-> [sticks[n] EXCEPT !.tick = next(n)]]
      /\ player' = [player EXCEPT !.at = IF going = {} THEN "poll" ELSE "swiping",
                       !.due = [n \in going |-> StickTarget(Cluster1(n), sticks[n].keys)]]
      /\ UNCHANGED <<terminal, typed, shownKeys>>
  BY DEF DueSwipes
<1>. HIDE DEF going
<1>3. ASSUME NEW n \in DOMAIN sticks
      PROVE  /\ StickShape(sticks'[n]) /\ sticks'[n].keys = sticks[n].keys
             /\ Ticks(Cluster1(n), sticks'[n])
  <2>1. PICK x : x = sticks[n]
    OBVIOUS
  <2>2. StickShape(x) /\ Ticks(Cluster1(n), x)
    BY <1>1, <2>1, InLoop
  <2>3. Cluster1(n).action.times[1] \in Nat
    BY <1>1, InLoop, SticksAreTimed
  <2>4. PICK tick : tick = next(n)
    OBVIOUS
  <2>5. tick \in Nat \cup {NoTick} /\ (tick # NoTick <=> StickTarget(Cluster1(n), x.keys) # {})
    BY <2>1, <2>2, <2>3, <2>4 DEF StickShape, Ticks, PlayConstants
  <2>6. sticks'[n] = [x EXCEPT !.tick = tick]
    BY <1>2, <2>1, <2>4
  <2>7. StickShape(sticks'[n]) /\ sticks'[n].keys = x.keys /\ sticks'[n].tick = tick
    BY <2>2, <2>5, <2>6 DEF StickShape
  <2>. QED
    BY <2>1, <2>5, <2>7 DEF Ticks
<1>4. DOMAIN sticks' = DOMAIN sticks
  BY <1>2
<1>. HIDE DEF goes, next
<1>5. PICK due : due = [n \in going |-> StickTarget(Cluster1(n), sticks[n].keys)]
  OBVIOUS
<1>6. PICK place \in {"poll", "swiping"} :
        place = (IF going = {} THEN "poll" ELSE "swiping")
  OBVIOUS
<1>7. PICK r : r = [player EXCEPT !.at = place, !.due = due]
  OBVIOUS
<1>8. /\ PlayerShape(r) /\ r.at = place /\ r.due = due /\ r.profile = player.profile
      /\ r.play = player.play /\ r.launched = player.launched
  BY <1>7 DEF PlayInv, PlayTyped, PlayerShape, Loop
<1>9. player' = r
  BY <1>2, <1>5, <1>6, <1>7
<1>10. going \subseteq DOMAIN sticks
  BY DEF going
<1>11. /\ r.at # "swiping" => DOMAIN r.due = {}
       /\ DOMAIN r.due \subseteq DOMAIN sticks'
       /\ \A n \in DOMAIN r.due : r.due[n] = StickTarget(Cluster1(n), sticks'[n].keys)
  BY <1>3, <1>4, <1>5, <1>6, <1>8, <1>10
<1>12. SticksFollowKeys'
  BY <1>1, <1>2, <1>3, <1>4, <1>8, <1>9, KeysFollow DEF PlayInv
<1>13. /\ terminal' \in [raw : BOOLEAN, flags : BOOLEAN, able : BOOLEAN, focus : BOOLEAN]
       /\ typed' \in Seq(KeyEvents)
  BY <1>2 DEF PlayInv, PlayTyped
<1>14. r.at \in Loop
  BY <1>8 DEF Loop
<1>. QED
  BY <1>1, <1>3, <1>4, <1>8, <1>9, <1>11, <1>12, <1>13, <1>14, InLoop, LoopKeeps

\* The swipes are carried out one after the other, while time passes for the sticks.
LEMMA ExecuteSwipeKeeps ==
  ASSUME PlayInv, PlayConstants, ExecuteSwipe
  PROVE  PlayInv'
<1>1. player.at = "swiping" /\ Watched /\ UNCHANGED shownKeys
  BY DEF ExecuteSwipe, Watched
<1>2. CASE Restores(TRUE)
  BY <1>2, RestoresKeeps
<1>3. ASSUME NEW n \in DOMAIN player.due,
             sticks' = Elapsed(Cluster1(n).action.times[2], sticks),
             player' = [player EXCEPT !.due = Restrict(@, DOMAIN @ \ {n}),
                                      !.at = IF DOMAIN player.due = {n} THEN "poll" ELSE @],
             UNCHANGED <<terminal, typed>>
      PROVE  PlayInv'
  <2>1. DOMAIN player.due \subseteq DOMAIN sticks
    BY <1>1 DEF PlayInv, DueOfSticks
  <2>2. Cluster1(n).action.times[2] \in Int
    BY <1>1, <2>1, InLoop, SticksAreTimed
  <2>3. PICK due : due = Restrict(player.due, DOMAIN player.due \ {n})
    OBVIOUS
  <2>4. /\ DOMAIN due = DOMAIN player.due \ {n}
        /\ \A m \in DOMAIN due : due[m] = player.due[m]
    BY <2>3 DEF Restrict
  <2>5. PICK place \in Loop : place = (IF DOMAIN player.due = {n} THEN "poll" ELSE player.at)
    BY <1>1 DEF Loop
  <2>6. PICK r : r = [player EXCEPT !.due = due, !.at = place]
    OBVIOUS
  <2>7. /\ PlayerShape(r) /\ r.at = place /\ r.due = due /\ r.profile = player.profile
        /\ r.play = player.play /\ r.launched = player.launched
    BY <2>6 DEF PlayInv, PlayTyped, PlayerShape
  <2>8. player' = r
    BY <1>3, <2>3, <2>5, <2>6
  <2>9. r.at # "swiping" => DOMAIN r.due = {}
    BY <1>1, <2>4, <2>5, <2>7
  <2>. QED
    BY <1>1, <1>3, <2>1, <2>2, <2>4, <2>7, <2>8, <2>9, TimeKeeps
<1>. QED
  BY <1>2, <1>3 DEF ExecuteSwipe

\* A signal leaves everything where it is.
LEMMA KilledKeeps ==
  ASSUME PlayInv, Killed
  PROVE  PlayInv'
<1>1. PICK r : r = [player EXCEPT !.at = "killed"]
  OBVIOUS
<1>2. /\ PlayerShape(r) /\ r.at = "killed" /\ r.due = player.due /\ r.profile = player.profile
      /\ r.play = player.play /\ r.launched = player.launched
  BY <1>1 DEF PlayInv, PlayTyped, PlayerShape
<1>3. player' = r /\ UNCHANGED <<terminal, sticks, typed, shownKeys>>
  BY <1>1 DEF Killed, PlayerAt
<1>4. /\ PlayTyped' /\ QuietBefore' /\ ProfileTimed' /\ DueOfSticks' /\ SticksTyped'
      /\ LaunchedAsAsked' /\ SticksFollowKeys' /\ TerminalIsGivenBack'
  BY <1>2, <1>3 DEF PlayInv, PlayTyped, QuietBefore, ProfileTimed, DueOfSticks, SticksTyped,
                   LaunchedAsAsked, SticksFollowKeys, TerminalIsGivenBack, Watched, Before, Loop
<1>5. \A n : Cluster1(n)' = Cluster1(n)
  BY <1>2, <1>3 DEF Cluster1
<1>6. SwipesFollowSticks'
  BY <1>2, <1>3, <1>5 DEF PlayInv, SwipesFollowSticks, Watched
<1>. QED
  BY <1>4, <1>6 DEF PlayInv

\* The terminal tells of a key, or it does not: what is known of it when all is read is what
\* it was told last.
LEMMA KeysKeep ==
  ASSUME PlayInv, Watched, NEW key \in PlayKeys, NEW down \in BOOLEAN, Tells(key, down),
         UNCHANGED <<player, sticks, terminal>>
  PROVE  PlayInv'
<1>1. CASE UNCHANGED <<typed, shownKeys>>
  <2>1. SticksFollowKeys'
    BY <1>1, KeysFollow DEF PlayInv
  <2>. QED
    BY <1>1, <2>1 DEF PlayInv, PlayTyped, QuietBefore, ProfileTimed, DueOfSticks, SticksTyped,
                      LaunchedAsAsked, SwipesFollowSticks, TerminalIsGivenBack, Watched, Cluster1
<1>2. CASE ~UNCHANGED <<typed, shownKeys>>
  <2>1. PICK e \in KeyEvents : e = [key |-> key, down |-> down]
    BY DEF KeyEvents
  <2>2. e.key = key /\ e.down = down
    BY <2>1
  <2>3. /\ typed' = Append(typed, e)
        /\ shownKeys' = IF down THEN shownKeys \cup {key} ELSE shownKeys \ {key}
    BY <1>2, <2>1 DEF Tells
  <2>4. typed \in Seq(KeyEvents) /\ typed' \in Seq(KeyEvents)
    BY <2>3, InLoop
  <2>5. \A n : Cluster1(n)' = Cluster1(n)
    BY DEF Cluster1
  <2>6. SticksFollowKeys'
    <3>1. SticksFollowKeys' <=>
            (Watched' /\ (\A n \in DOMAIN typed' : typed'[n].key # EscKey) =>
               \A n \in DOMAIN sticks' : \A d \in 1 .. 4 :
                 Will(typed', Cluster1(n)'.keys[d], d \in sticks'[n].keys)
                   <=> Cluster1(n)'.keys[d] \in shownKeys')
      BY DEF SticksFollowKeys, WillBeDown, Will
    <3>. SUFFICES ASSUME \A n \in DOMAIN typed' : typed'[n].key # EscKey,
                         NEW n \in DOMAIN sticks, NEW d \in 1 .. 4
                  PROVE  Will(typed', Cluster1(n).keys[d], d \in sticks[n].keys)
                           <=> Cluster1(n).keys[d] \in shownKeys'
      BY <2>5, <3>1
    <3>2. \A m \in DOMAIN typed : m \in DOMAIN typed' /\ typed'[m] = typed[m]
      BY <2>3, <2>4
    <3>3. PICK k : k = Cluster1(n).keys[d]
      OBVIOUS
    <3>4. WillBeDown(k, d \in sticks[n].keys) <=> k \in shownKeys
      BY <3>2, <3>3 DEF PlayInv, SticksFollowKeys
    <3>5. WillBeDown(k, d \in sticks[n].keys) <=> Will(typed, k, d \in sticks[n].keys)
      BY DEF WillBeDown, Will
    <3>6. /\ e.key = k => (Will(typed', k, d \in sticks[n].keys) <=> e.down)
          /\ e.key # k => (Will(typed', k, d \in sticks[n].keys)
                             <=> Will(typed, k, d \in sticks[n].keys))
      BY <2>3, <2>4, LastEventTells
    <3>7. k \in shownKeys' <=> IF k = key THEN down ELSE k \in shownKeys
      BY <2>3
    <3>. QED
      BY <2>2, <3>3, <3>4, <3>5, <3>6, <3>7
  <2>7. PlayTyped' /\ QuietBefore'
    BY <2>4 DEF PlayInv, PlayTyped, QuietBefore, Before, Watched
  <2>. QED
    BY <2>6, <2>7 DEF PlayInv, ProfileTimed, DueOfSticks, SticksTyped, LaunchedAsAsked,
                      SwipesFollowSticks, TerminalIsGivenBack, Watched, Cluster1
<1>. QED
  BY <1>1, <1>2

\* Where the focus is, and what counts as typed, is nothing that the loop knows.
LEMMA FocusKeeps ==
  ASSUME PlayInv, SwitchFocus \/ UNCHANGED playVars
  PROVE  PlayInv'
<1>1. /\ UNCHANGED <<player, sticks, typed, shownKeys>>
      /\ terminal' = [terminal EXCEPT !.focus = ~@] \/ terminal' = terminal
  BY DEF SwitchFocus, Types, playVars
<1>2. /\ terminal' \in [raw : BOOLEAN, flags : BOOLEAN, able : BOOLEAN, focus : BOOLEAN]
      /\ terminal'.raw = terminal.raw /\ terminal'.flags = terminal.flags
  BY <1>1 DEF PlayInv, PlayTyped
<1>3. SticksFollowKeys'
  BY <1>1 DEF PlayInv, SticksFollowKeys, Watched, Cluster1, WillBeDown
<1>. QED
  BY <1>1, <1>2, <1>3 DEF PlayInv, PlayTyped, QuietBefore, ProfileTimed, DueOfSticks, SticksTyped,
                          LaunchedAsAsked, SwipesFollowSticks, TerminalIsGivenBack, Watched, Cluster1

\* Every step keeps the invariant.
LEMMA PlayStepKeeps ==
  ASSUME PlayInv, PlayConstants, [PlayNext]_playVars
  PROVE  PlayInv'
<1>1. CASE LoadPlay \/ SelectBackend \/ ScaleToCurrent \/ LaunchPackage
  BY <1>1, PreparationsKeep
<1>2. CASE EnableRawMode
  BY <1>2, EnableKeeps
<1>3. CASE PollInVain
  BY <1>3, PollInVainKeeps
<1>4. CASE ReadEvent
  BY <1>4, ReadEventKeeps
<1>5. CASE PollFails
  BY <1>5, RestoresKeeps DEF PollFails
<1>6. CASE DueSwipes
  BY <1>6, DueSwipesKeeps
<1>7. CASE ExecuteSwipe
  BY <1>7, ExecuteSwipeKeeps
<1>8. CASE Killed
  BY <1>8, KilledKeeps
<1>9. ASSUME NEW key \in PlayKeys, PressKey(key) PROVE PlayInv'
  BY <1>9, KeysKeep DEF PressKey, Types
<1>10. ASSUME NEW key \in PlayKeys, ReleaseKey(key) PROVE PlayInv'
  BY <1>10, KeysKeep DEF ReleaseKey, Types
<1>11. CASE SwitchFocus \/ UNCHANGED playVars
  BY <1>11, FocusKeeps
<1>. QED
  BY <1>1, <1>2, <1>3, <1>4, <1>5, <1>6, <1>7, <1>8, <1>9, <1>10, <1>11 DEF PlayNext

\* A launch goes to the user whose registry was used: the two readings of sudo's environment
\* (commands/run.rs and registry.rs) agree wherever both see a user.
LEMMA UsersAgree == PlayInv => LaunchedForItsUser
<1>. SUFFICES ASSUME PlayInv, player.launched # NoWhere, SudoUser(player.play.env) # NoWhere
              PROVE  player.launched = SudoUser(player.play.env)
  BY DEF LaunchedForItsUser
<1>1. player.launched = LaunchUser(player.play.env)
  BY DEF PlayInv, LaunchedAsAsked
<1>. QED
  BY <1>1 DEF LaunchUser, SudoUser

\* Whatever is typed, however far the swipes fall behind and whatever fails: a joystick of
\* `wroid play` and `wroid run` points where its keys say, ticks exactly while it points
\* somewhere, and the terminal is given back (interactive.rs, commands/run.rs).
THEOREM TerminalPlayIsTrue == PlaySpec => []PlayIsTrue
<1>1. PlayInit => PlayInv
  BY PlayConstants, PlayInitHolds
<1>2. PlayInv /\ [PlayNext]_playVars => PlayInv'
  BY PlayConstants, PlayStepKeeps
<1>3. PlayInv => PlayIsTrue
  BY UsersAgree DEF PlayInv, PlayIsTrue
<1>. QED
  BY <1>1, <1>2, <1>3, PTL DEF PlaySpec

-----------------------------------------------------------------------------
(***************************************************************************)
(* ProfileRegistry: however the system calls of the commands interleave,   *)
(* each command has made of the disk what it says, as far as the others    *)
(* left its files alone.                                                   *)
(*                                                                         *)
(* RegistryIsTrue is not inductive.  Between two calls a command has       *)
(* promised nothing yet, so the invariant says, call by call, what it has  *)
(* seen and what it holds: the disk it remembers until it writes (Sees),   *)
(* the profile that it loaded (HoldsSource) and the one that it is about   *)
(* to write (Ready), that it has looked at its target (LookedAtTarget) and *)
(* which file it writes (WritesTarget), and how it ended (Over, Lists).    *)
(***************************************************************************)

Clean(c) == Meant(c.job, c.job.source) \notin c.disturbed /\ MeantTarget(c) \notin c.disturbed

\* the call that a command is at
CallNow(c) == IF c.at = 0 THEN "none" ELSE Program(c.job.op)[c.at]

\* a process that was started, whatever its disk and job
CommandShape(c) ==
  c \in [job : {c.job}, at : Nat, done : BOOLEAN, held : {c.held}, size : Points1, file : Nat,
         from : Nat, entries : {c.entries}, listed : {c.listed}, unfit : {FALSE},
         before : {c.before}, disturbed : {c.disturbed}]

\* what it finds on the disk
Sees(c, ns, fs) == \A t \in DOMAIN ns : t \notin c.disturbed => Found(ns, fs, t) = c.before[t]

Good(content) == content \in Profiles1 /\ Errors1(content) = {}

\* the profile that it has loaded
HoldsSource(c) ==
  LET s == Meant(c.job, c.job.source)
  IN  Good(c.held) /\ (s \notin c.disturbed => c.held = c.before[s] /\ IsProfile(c.before[s]))

\* what it has promised to write
Wanted(c) ==
  LET s == Meant(c.job, c.job.source)
  IN  CASE c.job.op = "import" -> c.before[s]
        [] c.job.op \in {"register", "create", "create_here"} -> NewProfile(c.job, c.size)
        [] c.job.op = "add" ->
             [c.before[s] EXCEPT !.bindings = @ \o <<NormalizedInput(c.job.binding)>>]
        [] c.job.op = "unbind" ->
             [c.before[s] EXCEPT !.bindings = Without(@, c.job.binding.name)]
        [] c.job.op \in {"scale", "scale_here"} -> ScaleProfile(c.before[s], c.size)
        [] c.job.op = "example" -> Example
        [] OTHER -> IF s = MeantTarget(c) THEN Empty ELSE c.before[s]

Ready(c) == Good(c.held) /\ (Clean(c) => c.held = Wanted(c))

\* the calls before which a command has looked whether its target is there
Looked(op, k) ==
  /\ op \notin {"add", "unbind", "example"}
  /\ \/ k \in {"make", "fit", "open", "open_copy", "move"}
     \/ k = "screen" /\ op # "scale_here"
     \/ k = "load" /\ op \in {"scale", "scale_here"}

TargetNow(c) ==
  PathOf(c.job, IF c.job.target[1] = "package" THEN <<"id", c.held.package>> ELSE c.job.target)

LookedAtTarget(c, ns) ==
  TargetNow(c) \in DOMAIN ns /\ (c.job.force \/ ns[TargetNow(c)] = 0 \/ TargetNow(c) \in c.disturbed)

\* the file that it writes
WritesTarget(c, k, ns, fs) ==
  LET s == Meant(c.job, c.job.source)
      t == MeantTarget(c)
  IN  /\ c.file \in 1 .. Len(fs) /\ c.from \in 0 .. Len(fs)
      /\ k = "copy" => c.from # 0
      /\ Clean(c) =>
           /\ t \in DOMAIN ns /\ ns[t] = c.file /\ fs[c.file] = Empty
           /\ \A u \in DOMAIN ns : u \notin c.disturbed /\ u # t => Found(ns, fs, u) = c.before[u]
           /\ k = "copy" => s \in DOMAIN ns /\ ns[s] = c.from

\* how it ended
Over(c, ns, fs) ==
  Clean(c) =>
    \A t \in DOMAIN ns : t \notin c.disturbed =>
      IF c.done THEN Found(ns, fs, t) = Promised(c)[t]
      ELSE \/ Found(ns, fs, t) = c.before[t]
           \/ c.file # 0 /\ t \in {Meant(c.job, c.job.source), MeantTarget(c)}

\* a listing, up to the entries it has not looked at
Lists(c, k, ns) ==
  /\ k = "entries" => c.listed = {}
  /\ k = "look" \/ c.done =>
       \A t \in DOMAIN ns : t \notin c.disturbed =>
         /\ t \in c.listed => t[1] = c.job.registry /\ Valid1(c.before[t])
         /\ t[1] = c.job.registry /\ Valid1(c.before[t]) =>
              t \in c.listed \/ (k = "look" /\ t \in c.entries)
         /\ k = "look" /\ t \in c.entries => t[1] = c.job.registry

\* the call that comes after one
Follows(op, k, k2) ==
  /\ op = "import" =>
       <<k, k2>> \in {<<"load", "absent">>, <<"absent", "open">>, <<"open", "write">>, <<"write", "none">>}
  /\ op = "register" =>
       <<k, k2>> \in {<<"absent", "screen">>, <<"screen", "make">>, <<"make", "open">>,
                     <<"open", "write">>, <<"write", "none">>}
  /\ op \in {"create", "create_here"} =>
       <<k, k2>> \in {<<"absent", "screen">>, <<"screen", "absent">>, <<"absent", "make">>,
                     <<"make", "open">>, <<"open", "write">>, <<"write", "none">>}
  /\ op \in {"export", "duplicate"} =>
       <<k, k2>> \in {<<"present", "absent">>, <<"absent", "open_copy">>, <<"open_copy", "copy">>,
                     <<"copy", "none">>}
  /\ op = "remove" => <<k, k2>> \in {<<"present", "unlink">>, <<"unlink", "none">>}
  /\ op = "rename" =>
       <<k, k2>> \in {<<"present", "absent">>, <<"absent", "move">>, <<"move", "none">>}
  /\ op \in {"add", "unbind"} =>
       <<k, k2>> \in {<<"load", "edit">>, <<"edit", "open">>, <<"open", "write">>, <<"write", "none">>}
  /\ op \in {"scale", "scale_here"} =>
       <<k, k2>> \in {<<"screen", "size">>, <<"size", "absent">>, <<"absent", "load">>, <<"load", "fit">>,
                     <<"fit", "open">>, <<"open", "write">>, <<"write", "none">>}
  /\ op = "example" =>
       <<k, k2>> \in {<<"make", "open">>, <<"open", "write">>, <<"write", "none">>}
  /\ op = "list" => <<k, k2>> \in {<<"entries", "look">>, <<"look", "none">>}
  /\ op = "show" => <<k, k2>> \in {<<"load", "none">>}

Writers ==
  {"import", "register", "create", "create_here", "export", "duplicate", "add", "unbind", "scale",
   "scale_here", "example"}
Writing == {"write", "copy"}
Scales == {"scale", "scale_here"}

Stage(c, k, ns, fs) ==
  /\ k \notin {"none"} \cup Writing => c.file = 0 /\ c.from = 0 /\ Sees(c, ns, fs)
  /\ k \in Writing => WritesTarget(c, k, ns, fs)
  /\ k \in {"open", "write"} => Ready(c)
  /\ k \in {"edit", "fit"} \/ (c.job.op = "import" /\ k \in {"absent", "open"}) => HoldsSource(c)
  /\ c.job.op \in Scales /\ k \in {"absent", "load", "fit"} => 0 \notin {c.size[1], c.size[2]}
  /\ Looked(c.job.op, k) => LookedAtTarget(c, ns)
  /\ k = "none" /\ c.job.op # "list" => Over(c, ns, fs)
  /\ c.job.op = "list" => Lists(c, k, ns)

\* the places of a command that runs
Placed(c, ns) ==
  /\ RegistryDir(c.job.env) # NoWhere \/ {c.job.source[1], c.job.target[1]} = {"path"}
  /\ c.job.op # "list" => Meant(c.job, c.job.source) \in DOMAIN ns
  /\ c.job.target[1] \in {"id", "path"} => Meant(c.job, c.job.target) \in DOMAIN ns

CommandFits(c, ns, fs) ==
  c.job # NoEntry =>
    /\ CommandShape(c) /\ c.job \in Jobs /\ c.at \in 0 .. Len(Program(c.job.op))
    /\ c.done => c.at = 0
    /\ c.at # 0 => Placed(c, ns)
    /\ DOMAIN c.before = DOMAIN ns
    /\ \A t \in DOMAIN ns : IsProfile(c.before[t]) => c.before[t] \in Profiles1
    /\ Stage(c, CallNow(c), ns, fs)

\* what a file holds
Fine(content) ==
  IsProfile(content) =>
    /\ content \in Profiles1
    /\ Errors1(content) # {} =>
         \E disk \in Disks : \E m \in DOMAIN disk.files : disk.files[m] = content

DiskFits(ns, fs) ==
  /\ fs \in Seq({fs[n] : n \in DOMAIN fs}) /\ ns \in [DOMAIN ns -> 0 .. Len(fs)]
  /\ \A t, u \in DOMAIN ns : t # u /\ ns[t] # 0 => ns[t] # ns[u]
  /\ \A n \in DOMAIN fs : Fine(fs[n])
  /\ \A job \in Jobs : \A place \in {job.source, job.target} :
       place[1] = "path" => place[2] \in DOMAIN ns

RegistryInv ==
  /\ DiskFits(names, files)
  /\ DOMAIN command = Processes
  /\ \A p \in Processes :
       /\ command[p].job = NoEntry => command[p] = NotStarted
       /\ CommandFits(command[p], names, files)

\* a command that is at a call
Runs(c, k, ns, fs) ==
  /\ CommandFits(c, ns, fs) /\ c.job # NoEntry /\ k = CallNow(c) /\ k # "none"
  /\ DiskFits(ns, fs) /\ RegistryConstants

\* the same command, later, and one call further
Keeps(c, d) == CommandShape(d) /\ d.job = c.job /\ d.before = c.before /\ d.disturbed = c.disturbed
Advanced(c, d) ==
  /\ Keeps(c, d)
  /\ d.at = IF c.at = Len(Program(c.job.op)) THEN 0 ELSE c.at + 1
  /\ d.done = (c.at = Len(Program(c.job.op)))

SourceNow(c) == PathOf(c.job, c.job.source)

-----------------------------------------------------------------------------
(* What the operators over profiles compute *)

\* Division of natural numbers.
LEMMA QuotientIsNat ==
  ASSUME NEW a \in Nat, NEW b \in Nat \ {0}
  PROVE  a \div b \in Nat
OBVIOUS

\* Products of natural numbers.
LEMMA Product ==
  ASSUME NEW a \in Nat, NEW b \in Nat
  PROVE  a * b \in Nat /\ (a # 0 /\ b # 0 => a * b # 0)
OBVIOUS

\* A coordinate that is scaled is on the screen.
LEMMA AxisFits ==
  ASSUME NEW value \in Nat, NEW from \in Nat, NEW to \in Nat
  PROVE  /\ ScaleAxis(value, from, to) \in Nat
         /\ from # 0 /\ to # 0 => ScaleAxis(value, from, to) < to
<1>1. CASE 0 \in {from, to}
  BY <1>1 DEF ScaleAxis
<1>2. CASE 0 \notin {from, to}
  <2>1. PICK k \in Nat : k = value * to
    BY Product
  <2>2. PICK h \in Nat : h = from \div 2
    BY QuotientIsNat
  <2>3. PICK q \in Nat : q = (k + h) \div from
    BY <1>2, QuotientIsNat
  <2>4. ScaleAxis(value, from, to) = IF q > to - 1 THEN to - 1 ELSE q
    BY <1>2, <2>1, <2>2, <2>3 DEF ScaleAxis
  <2>. QED
    BY <1>2, <2>4
<1>. QED
  BY <1>1, <1>2

\* A radius that is scaled is a radius.
LEMMA RadiusFits ==
  ASSUME NEW radius \in Nat, NEW from \in Points1, NEW to \in Points1, RegistryConstants
  PROVE  /\ ScaleRadius(radius, from, to) \in Nat
         /\ 0 \notin {radius, from[1], from[2], to[1], to[2]} => ScaleRadius(radius, from, to) # 0
<1>1. from[1] \in Nat /\ from[2] \in Nat /\ to[1] \in Nat /\ to[2] \in Nat
  BY DEF Points1
<1>2. CASE 0 \in {radius, from[1], from[2], to[1], to[2]}
  BY <1>2 DEF ScaleRadius
<1>3. CASE 0 \notin {radius, from[1], from[2], to[1], to[2]}
  <2>1. PICK below \in Nat \ {0} : below = 2 * from[1] * from[2]
    BY <1>1, <1>3, Product
  <2>2. PICK q : q = (radius * (to[1] * from[2] + to[2] * from[1]) + below \div 2) \div below
    OBVIOUS
  <2>3. q \in Nat
    <3>1. PICK x \in Nat : x = to[1] * from[2]
      BY <1>1, Product
    <3>2. PICK y \in Nat : y = to[2] * from[1]
      BY <1>1, Product
    <3>3. PICK z \in Nat : z = radius * (x + y)
      BY Product
    <3>4. PICK h \in Nat : h = below \div 2
      BY QuotientIsNat
    <3>5. (z + h) \div below \in Nat
      BY QuotientIsNat
    <3>. QED
      BY <2>2, <3>1, <3>2, <3>3, <3>4, <3>5
  <2>4. ScaleRadius(radius, from, to) = CASE q < 1 -> 1 [] q > MaxU32 -> MaxU32 [] OTHER -> q
    BY <1>3, <2>1, <2>2 DEF ScaleRadius
  <2>. QED
    BY <2>3, <2>4 DEF RegistryConstants
<1>. QED
  BY <1>2, <1>3

\* A valid action that is scaled is a valid action.
LEMMA ActionFits ==
  ASSUME NEW a \in Actions1, NEW from \in Points1, NEW to \in Points1, RegistryConstants
  PROVE  /\ ScaleAction(a, from, to) \in Actions1
         /\ /\ ActionErrors(a, from) = {}
            /\ 0 \notin {from[1], from[2], to[1], to[2]}
            => ActionErrors(ScaleAction(a, from, to), to) = {}
<1>1. CASE a.kind \in {"mouse_aim", "macro"}
  BY <1>1 DEF ScaleAction, ActionErrors
<1>2. CASE a.kind \notin {"mouse_aim", "macro"}
  <2>1. PICK points : points = [n \in DOMAIN a.points |->
            <<ScaleAxis(a.points[n][1], from[1], to[1]), ScaleAxis(a.points[n][2], from[2], to[2])>>]
    OBVIOUS
  <2>2. PICK radii : radii = [n \in DOMAIN a.radii |-> ScaleRadius(a.radii[n], from, to)]
    OBVIOUS
  <2>3. PICK s : s = [a EXCEPT !.points = points, !.radii = radii]
    OBVIOUS
  <2>4. ScaleAction(a, from, to) = s
    BY <1>2, <2>1, <2>2, <2>3 DEF ScaleAction
  <2>5. \/ a \in [kind : {"tap"}, points : [1 .. 1 -> Points1], radii : {<<>>}, times : {<<>>}]
        \/ a \in [kind : {"swipe"}, points : [1 .. 2 -> Points1], radii : {<<>>},
                   times : [1 .. 1 -> Nat]]
        \/ a \in [kind : {"virtual_joystick"}, points : [1 .. 1 -> Points1],
                   radii : [1 .. 1 -> Nat], times : [1 .. 2 -> Nat]]
    BY <1>2 DEF Actions1
  <2>6. \A n \in DOMAIN a.points : a.points[n] \in Points1
    BY <2>5
  <2>7. \A n \in DOMAIN a.points :
          /\ points[n] \in Points1
          /\ 0 \notin {from[1], from[2], to[1], to[2]} => OnScreen1(points[n], to)
    <3>. SUFFICES ASSUME NEW n \in DOMAIN a.points
                  PROVE  /\ points[n] \in Points1
                         /\ 0 \notin {from[1], from[2], to[1], to[2]} => OnScreen1(points[n], to)
      OBVIOUS
    <3>1. PICK x \in Nat : x = a.points[n][1]
      BY <2>6 DEF Points1
    <3>2. PICK y \in Nat : y = a.points[n][2]
      BY <2>6 DEF Points1
    <3>3. from[1] \in Nat /\ from[2] \in Nat /\ to[1] \in Nat /\ to[2] \in Nat
      BY DEF Points1
    <3>4. points[n] = <<ScaleAxis(x, from[1], to[1]), ScaleAxis(y, from[2], to[2])>>
      BY <2>1, <3>1, <3>2
    <3>5. /\ ScaleAxis(x, from[1], to[1]) \in Nat
          /\ from[1] # 0 /\ to[1] # 0 => ScaleAxis(x, from[1], to[1]) < to[1]
      BY <3>3, AxisFits
    <3>6. /\ ScaleAxis(y, from[2], to[2]) \in Nat
          /\ from[2] # 0 /\ to[2] # 0 => ScaleAxis(y, from[2], to[2]) < to[2]
      BY <3>3, AxisFits
    <3>. QED
      BY <3>4, <3>5, <3>6 DEF Points1, OnScreen1
  <2>8. \A n \in DOMAIN a.radii : a.radii[n] \in Nat
    BY <2>5
  <2>9. \A n \in DOMAIN a.radii :
          /\ radii[n] \in Nat
          /\ 0 \notin {a.radii[n], from[1], from[2], to[1], to[2]} => radii[n] # 0
    BY <2>2, <2>8, RadiusFits
  <2>10. DOMAIN points = DOMAIN a.points /\ DOMAIN radii = DOMAIN a.radii
    BY <2>1, <2>2
  <2>11. /\ s.kind = a.kind /\ s.times = a.times /\ s.points = points /\ s.radii = radii
         /\ s = [kind |-> a.kind, points |-> points, radii |-> radii, times |-> a.times]
    BY <2>3, <2>5
  <2>12. s \in Actions1
    <3>1. \A i : points = [n \in DOMAIN points |-> points[n]] /\ radii = [n \in DOMAIN radii |-> radii[n]]
      BY <2>1, <2>2
    <3>2. CASE a.kind = "tap"
      <4>1. DOMAIN points = 1 .. 1 /\ DOMAIN radii = {} /\ a.times = <<>>
        BY <2>5, <2>10, <3>2
      <4>2. points \in [1 .. 1 -> Points1] /\ radii = <<>>
        BY <2>7, <2>10, <3>1, <4>1
      <4>. QED
        BY <2>11, <3>2, <4>1, <4>2 DEF Actions1
    <3>3. CASE a.kind = "swipe"
      <4>1. DOMAIN points = 1 .. 2 /\ DOMAIN radii = {} /\ a.times \in [1 .. 1 -> Nat]
        BY <2>5, <2>10, <3>3
      <4>2. points \in [1 .. 2 -> Points1] /\ radii = <<>>
        BY <2>7, <2>10, <3>1, <4>1
      <4>. QED
        BY <2>11, <3>3, <4>1, <4>2 DEF Actions1
    <3>4. CASE a.kind = "virtual_joystick"
      <4>1. DOMAIN points = 1 .. 1 /\ DOMAIN radii = 1 .. 1 /\ a.times \in [1 .. 2 -> Nat]
        BY <2>5, <2>10, <3>4
      <4>2. points \in [1 .. 1 -> Points1] /\ radii \in [1 .. 1 -> Nat]
        BY <2>7, <2>9, <2>10, <3>1, <4>1
      <4>. QED
        BY <2>11, <3>4, <4>1, <4>2 DEF Actions1
    <3>. QED
      BY <2>5, <3>2, <3>3, <3>4
  <2>13. ASSUME ActionErrors(a, from) = {}, 0 \notin {from[1], from[2], to[1], to[2]}
         PROVE  ActionErrors(s, to) = {}
    <3>1. /\ \A n \in DOMAIN a.radii : a.radii[n] # 0
          /\ \A n \in DOMAIN a.times : a.times[n] # 0
      BY <1>2, <2>13 DEF ActionErrors
    <3>2. /\ \A n \in DOMAIN s.points : OnScreen1(s.points[n], to)
          /\ \A n \in DOMAIN s.radii : s.radii[n] # 0
          /\ \A n \in DOMAIN s.times : s.times[n] # 0
      BY <2>7, <2>9, <2>10, <2>11, <2>13, <3>1
    <3>. QED
      BY <1>2, <2>11, <3>2 DEF ActionErrors
  <2>. QED
    BY <2>4, <2>12, <2>13
<1>. QED
  BY <1>1, <1>2

\* The rules of a profile, one by one.
LEMMA ErrorsByParts ==
  ASSUME NEW p
  PROVE  Errors1(p) = {} <=>
           /\ p.named /\ p.package # NoName /\ 0 \notin {p.size[1], p.size[2]}
           /\ \A n \in DOMAIN p.bindings :
                /\ Trimmed1[p.bindings[n].name] # NoName /\ InputIsGiven(p.bindings[n].keys)
                /\ ActionErrors(p.bindings[n].action, p.size) = {}
           /\ \A m, n \in DOMAIN p.bindings :
                m # n => Trimmed1[p.bindings[m].name] # Trimmed1[p.bindings[n].name]
<1>. DEFINE B == DOMAIN p.bindings
            name(n) == Trimmed1[p.bindings[n].name]
            kinds == {"name", "package", "resolution", "binding_name", "duplicate", "input"}
            wrong(e) == CASE e = "name" -> ~p.named
                          [] e = "package" -> p.package = NoName
                          [] e = "resolution" -> 0 \in {p.size[1], p.size[2]}
                          [] e = "binding_name" -> \E n \in B : name(n) = NoName
                          [] e = "duplicate" -> \E m, n \in B : m # n /\ name(m) = name(n) /\ name(n) # NoName
                          [] OTHER -> \E n \in B : ~InputIsGiven(p.bindings[n].keys)
<1>1. Errors1(p) = {e \in kinds : wrong(e)} \cup UNION {ActionErrors(p.bindings[n].action, p.size) : n \in B}
  BY DEF Errors1
<1>2. /\ wrong("name") <=> ~p.named
      /\ wrong("package") <=> p.package = NoName
      /\ wrong("resolution") <=> 0 \in {p.size[1], p.size[2]}
      /\ wrong("binding_name") <=> \E n \in B : name(n) = NoName
      /\ wrong("duplicate") <=> \E m, n \in B : m # n /\ name(m) = name(n) /\ name(n) # NoName
      /\ wrong("input") <=> \E n \in B : ~InputIsGiven(p.bindings[n].keys)
  OBVIOUS
<1>. HIDE DEF wrong
<1>3. {e \in kinds : wrong(e)} = {} <=>
        /\ ~wrong("name") /\ ~wrong("package") /\ ~wrong("resolution") /\ ~wrong("binding_name")
        /\ ~wrong("duplicate") /\ ~wrong("input")
  OBVIOUS
<1>4. UNION {ActionErrors(p.bindings[n].action, p.size) : n \in B} = {} <=>
        \A n \in B : ActionErrors(p.bindings[n].action, p.size) = {}
  OBVIOUS
<1>5. Errors1(p) = {} <=>
        /\ {e \in kinds : wrong(e)} = {}
        /\ UNION {ActionErrors(p.bindings[n].action, p.size) : n \in B} = {}
  BY <1>1
<1>. HIDE DEF kinds
<1>. QED
  BY <1>2, <1>3, <1>4, <1>5

\* A valid profile that is scaled is a valid profile.
LEMMA ProfileFits ==
  ASSUME NEW p, Good(p), NEW to \in Points1, 0 \notin {to[1], to[2]}, RegistryConstants
  PROVE  Good(ScaleProfile(p, to))
<1>1. PICK s : s = [n \in DOMAIN p.bindings |->
                      [p.bindings[n] EXCEPT !.action = ScaleAction(p.bindings[n].action, p.size, to)]]
  OBVIOUS
<1>2. PICK q : q = [p EXCEPT !.size = to, !.bindings = s]
  OBVIOUS
<1>3. ScaleProfile(p, to) = q
  BY <1>1, <1>2 DEF ScaleProfile
<1>4. /\ p \in Profiles1 /\ p.size \in Points1 /\ p.bindings \in Seq(Bindings1)
      /\ Errors1(p) = {}
  BY DEF Good, Profiles1
<1>5. /\ q.named = p.named /\ q.package = p.package /\ q.size = to /\ q.bindings = s
      /\ q = [named |-> p.named, package |-> p.package, size |-> to, bindings |-> s]
  BY <1>2, <1>4 DEF Profiles1
<1>6. /\ 0 \notin {p.size[1], p.size[2]}
      /\ \A n \in DOMAIN p.bindings : ActionErrors(p.bindings[n].action, p.size) = {}
  BY <1>4, ErrorsByParts
<1>7. \A n \in DOMAIN p.bindings :
        /\ s[n] \in Bindings1 /\ s[n].name = p.bindings[n].name /\ s[n].keys = p.bindings[n].keys
        /\ ActionErrors(s[n].action, to) = {}
  <2>. SUFFICES ASSUME NEW n \in DOMAIN p.bindings
                PROVE  /\ s[n] \in Bindings1 /\ s[n].name = p.bindings[n].name
                       /\ s[n].keys = p.bindings[n].keys /\ ActionErrors(s[n].action, to) = {}
    OBVIOUS
  <2>1. PICK b \in Bindings1 : b = p.bindings[n]
    BY <1>4
  <2>2. PICK a : a = ScaleAction(b.action, p.size, to)
    OBVIOUS
  <2>3. b.action \in Actions1 /\ ActionErrors(b.action, p.size) = {}
    BY <1>6, <2>1 DEF Bindings1
  <2>4. 0 \notin {p.size[1], p.size[2], to[1], to[2]}
    BY <1>6
  <2>5. a \in Actions1 /\ ActionErrors(a, to) = {}
    BY <1>4, <2>2, <2>3, <2>4, ActionFits
  <2>6. s[n] = [b EXCEPT !.action = a]
    BY <1>1, <2>1, <2>2
  <2>. QED
    BY <2>1, <2>5, <2>6 DEF Bindings1
<1>8. DOMAIN s = DOMAIN p.bindings /\ s \in Seq(Bindings1)
  <2>1. PICK L \in Nat : DOMAIN p.bindings = 1 .. L
    BY <1>4
  <2>2. s \in [1 .. L -> Bindings1]
    BY <1>1, <1>7, <2>1
  <2>. QED
    BY <2>1, <2>2
<1>9. q \in Profiles1
  BY <1>4, <1>5, <1>8 DEF Profiles1
<1>10. Errors1(q) = {}
  <2>1. /\ p.named /\ p.package # NoName
        /\ \A n \in DOMAIN p.bindings :
             Trimmed1[p.bindings[n].name] # NoName /\ InputIsGiven(p.bindings[n].keys)
        /\ \A m, n \in DOMAIN p.bindings :
             m # n => Trimmed1[p.bindings[m].name] # Trimmed1[p.bindings[n].name]
    BY <1>4, ErrorsByParts
  <2>2. /\ q.named /\ q.package # NoName /\ 0 \notin {q.size[1], q.size[2]}
        /\ DOMAIN q.bindings = DOMAIN p.bindings
    BY <1>5, <1>8, <2>1
  <2>3. \A n \in DOMAIN q.bindings :
          /\ Trimmed1[q.bindings[n].name] # NoName /\ InputIsGiven(q.bindings[n].keys)
          /\ ActionErrors(q.bindings[n].action, q.size) = {}
    BY <1>5, <1>7, <1>8, <2>1
  <2>4. \A m, n \in DOMAIN q.bindings :
          m # n => Trimmed1[q.bindings[m].name] # Trimmed1[q.bindings[n].name]
    BY <1>5, <1>7, <1>8, <2>1
  <2>. QED
    BY <2>2, <2>3, <2>4, ErrorsByParts
<1>. QED
  BY <1>3, <1>9, <1>10 DEF Good

\* New profiles are of the format.
LEMMA NewProfiles ==
  ASSUME NEW job \in Jobs, NEW size \in Points1, RegistryConstants
  PROVE  NewProfile(job, size) \in Profiles1 /\ Example \in Profiles1
<1>1. job.named \in BOOLEAN /\ job.package \in STRING
  BY DEF RegistryConstants, JobIsFormed
<1>2. NewProfile(job, size) \in Profiles1
  BY <1>1 DEF NewProfile, Profiles1
<1>3. ASSUME NEW name \in STRING, NEW key \in STRING, NEW p \in Points1
      PROVE  [name |-> name, input |-> "key", keys |-> <<key>>,
              action |-> [kind |-> "tap", points |-> <<p>>, radii |-> <<>>, times |-> <<>>]]
               \in Bindings1
  <2>1. <<p>> \in [1 .. 1 -> Points1]
    OBVIOUS
  <2>2. [kind |-> "tap", points |-> <<p>>, radii |-> <<>>, times |-> <<>>] \in Actions1
    BY <2>1 DEF Actions1
  <2>. QED
    BY <2>2 DEF Bindings1
<1>4. ASSUME NEW name \in STRING, NEW key \in STRING, NEW p \in Points1, NEW q \in Points1,
             NEW time \in Nat
      PROVE  [name |-> name, input |-> "key", keys |-> <<key>>,
              action |-> [kind |-> "swipe", points |-> <<p, q>>, radii |-> <<>>, times |-> <<time>>]]
               \in Bindings1
  <2>1. <<p, q>> \in [1 .. 2 -> Points1] /\ <<time>> \in [1 .. 1 -> Nat]
    OBVIOUS
  <2>2. [kind |-> "swipe", points |-> <<p, q>>, radii |-> <<>>, times |-> <<time>>] \in Actions1
    BY <2>1 DEF Actions1
  <2>. QED
    BY <2>2 DEF Bindings1
<1>51. PICK p1 \in Points1 : p1 = <<1640, 540>>
  <2>1. <<1640, 540>> \in Points1
    BY DEF Points1
  <2>. QED
    BY <2>1
<1>52. PICK p2 \in Points1 : p2 = <<1760, 900>>
  <2>1. <<1760, 900>> \in Points1
    BY DEF Points1
  <2>. QED
    BY <2>1
<1>53. PICK p3 \in Points1 : p3 = <<960, 540>>
  <2>1. <<960, 540>> \in Points1
    BY DEF Points1
  <2>. QED
    BY <2>1
<1>54. PICK p4 \in Points1 : p4 = <<1260, 540>>
  <2>1. <<1260, 540>> \in Points1
    BY DEF Points1
  <2>. QED
    BY <2>1
<1>55. PICK size0 \in Points1 : size0 = <<1920, 1080>>
  <2>1. <<1920, 1080>> \in Points1
    BY DEF Points1
  <2>. QED
    BY <2>1
<1>6. \A b1, b2, b3 \in Bindings1 : \A s \in Points1 : \A w \in STRING :
        [named |-> TRUE, package |-> w, size |-> s, bindings |-> <<b1, b2, b3>>] \in Profiles1
  BY DEF Profiles1
<1>7. PICK fire, f, reload, r, right, d, shooter :
        /\ fire = "fire" /\ f = "f" /\ reload = "reload" /\ r = "r" /\ right = "look_right"
        /\ d = "d" /\ shooter = "com.example.shooter"
  OBVIOUS
<1>8. {fire, f, reload, r, right, d, shooter} \subseteq STRING
  BY <1>7 DEF RegistryConstants
<1>9. PICK time \in Nat : time = 180
  OBVIOUS
<1>10. PICK b1, b2, b3 \in Bindings1 :
        /\ b1 = [name |-> fire, input |-> "key", keys |-> <<f>>,
                 action |-> [kind |-> "tap", points |-> <<p1>>, radii |-> <<>>, times |-> <<>>]]
        /\ b2 = [name |-> reload, input |-> "key", keys |-> <<r>>,
                 action |-> [kind |-> "tap", points |-> <<p2>>, radii |-> <<>>, times |-> <<>>]]
        /\ b3 = [name |-> right, input |-> "key", keys |-> <<d>>,
                 action |-> [kind |-> "swipe", points |-> <<p3, p4>>, radii |-> <<>>, times |-> <<time>>]]
  <2>1. [name |-> fire, input |-> "key", keys |-> <<f>>,
         action |-> [kind |-> "tap", points |-> <<p1>>, radii |-> <<>>, times |-> <<>>]] \in Bindings1
    BY <1>3, <1>8, Zenon
  <2>2. [name |-> reload, input |-> "key", keys |-> <<r>>,
         action |-> [kind |-> "tap", points |-> <<p2>>, radii |-> <<>>, times |-> <<>>]] \in Bindings1
    BY <1>3, <1>8, Zenon
  <2>3. [name |-> right, input |-> "key", keys |-> <<d>>,
         action |-> [kind |-> "swipe", points |-> <<p3, p4>>, radii |-> <<>>, times |-> <<time>>]]
          \in Bindings1
    BY <1>4, <1>8, Zenon
  <2>. QED
    BY <2>1, <2>2, <2>3, Zenon
<1>12. Example = [named |-> TRUE, package |-> shooter, size |-> size0, bindings |-> <<b1, b2, b3>>]
  BY <1>51, <1>52, <1>53, <1>54, <1>55, <1>7, <1>9, <1>10 DEF Example
<1>13. Example \in Profiles1
  BY <1>6, <1>8, <1>12
<1>. QED
  BY <1>2, <1>13

\* A profile with one binding more.
LEMMA Added ==
  ASSUME NEW p \in Profiles1, NEW job \in Jobs, NEW e \in AddTo(p, job.binding), RegistryConstants
  PROVE  /\ e \in Profiles1
         /\ e = [p EXCEPT !.bindings = @ \o <<NormalizedInput(job.binding)>>]
<1>1. PICK b \in Bindings1 : b = job.binding
  BY DEF RegistryConstants, JobIsFormed
<1>2. \A n \in DOMAIN b.keys : NormalKey[b.keys[n]] \in STRING
  BY <1>1 DEF RegistryConstants, JobIsFormed
<1>3. PICK keys : keys = [n \in DOMAIN b.keys |-> NormalKey[b.keys[n]]]
  OBVIOUS
<1>4. keys \in Seq(STRING)
  <2>1. PICK L \in Nat : DOMAIN b.keys = 1 .. L
    BY DEF Bindings1
  <2>2. keys \in [1 .. L -> STRING]
    BY <1>2, <1>3, <2>1
  <2>. QED
    BY <2>2
<1>5. PICK c : c = [b EXCEPT !.keys = keys]
  OBVIOUS
<1>6. NormalizedInput(b) = c /\ c \in Bindings1
  BY <1>1, <1>3, <1>4, <1>5 DEF NormalizedInput, Bindings1
<1>7. p.bindings \in Seq(Bindings1)
  BY DEF Profiles1
<1>8. Append(p.bindings, c) = p.bindings \o <<c>> /\ Append(p.bindings, c) \in Seq(Bindings1)
  BY <1>6, <1>7
<1>9. e = [p EXCEPT !.bindings = Append(p.bindings, c)]
  BY <1>1, <1>6 DEF AddTo
<1>10. e \in Profiles1
  BY <1>8, <1>9 DEF Profiles1
<1>11. e = [p EXCEPT !.bindings = p.bindings \o <<c>>]
  BY <1>8, <1>9
<1>. QED
  BY <1>1, <1>6, <1>10, <1>11

\* A valid profile without the binding of a name.
LEMMA Removed ==
  ASSUME NEW p, Good(p), NEW name, NEW e \in RemoveFrom(p, name)
  PROVE  e \in Profiles1 /\ e = [p EXCEPT !.bindings = Without(@, name)]
<1>1. p \in Profiles1 /\ p.bindings \in Seq(Bindings1)
  BY DEF Good, Profiles1
<1>2. PICK n \in DOMAIN p.bindings : p.bindings[n].name = name /\ e = [p EXCEPT !.bindings = RemoveAt(@, n)]
  BY DEF RemoveFrom
<1>3. \A m \in DOMAIN p.bindings : p.bindings[m].name = name => m = n
  <2>1. \A m, k \in DOMAIN p.bindings :
          m # k => Trimmed1[p.bindings[m].name] # Trimmed1[p.bindings[k].name]
    BY ErrorsByParts DEF Good
  <2>. QED
    BY <1>2, <2>1
<1>4. (CHOOSE m \in DOMAIN p.bindings : p.bindings[m].name = name) = n
  BY <1>2, <1>3
<1>5. PICK B : B = p.bindings
  OBVIOUS
<1>6. B \in Seq(Bindings1) /\ n \in 1 .. Len(B) /\ Len(B) \in Nat
  BY <1>1, <1>2, <1>5
<1>7. PICK s : s = RemoveAt(B, n)
  OBVIOUS
<1>8. s = SubSeq(B, 1, n - 1) \o SubSeq(B, n + 1, Len(B))
  BY <1>7 DEF RemoveAt
<1>9. s \in Seq(Bindings1) /\ Len(s) = Len(B) - 1
  BY <1>6, <1>8
<1>10. \A i \in 1 .. Len(B) - 1 : s[i] = B[IF i < n THEN i ELSE i + 1]
  BY <1>6, <1>8
<1>11. s = [i \in 1 .. Len(B) - 1 |-> B[IF i < n THEN i ELSE i + 1]]
  <2>1. s = [i \in 1 .. Len(s) |-> s[i]]
    BY <1>9
  <2>. QED
    BY <1>9, <1>10, <2>1
<1>12. s = Without(B, name)
  BY <1>4, <1>5, <1>11 DEF Without
<1>13. e = [p EXCEPT !.bindings = s]
  BY <1>2, <1>5, <1>7
<1>14. e \in Profiles1
  BY <1>1, <1>9, <1>13 DEF Profiles1
<1>. QED
  BY <1>5, <1>12, <1>13, <1>14

-----------------------------------------------------------------------------
(* The order of the calls *)

\* Sequences of six and seven calls, put together.
LEMMA TwoAndFour ==
  ASSUME NEW a, NEW b, NEW c, NEW d, NEW e, NEW f
  PROVE  <<a, b>> \o <<c, d, e, f>> = <<a, b, c, d, e, f>>
<1>. DEFINE X == {a, b, c, d, e, f}
<1>1. PICK s \in Seq(X) : s = <<a, b>>
  <2>1. <<a, b>> \in Seq(X)
    OBVIOUS
  <2>. QED
    BY <2>1, Zenon
<1>2. PICK t \in Seq(X) : t = <<c, d, e, f>>
  <2>1. <<c, d, e, f>> \in Seq(X)
    OBVIOUS
  <2>. QED
    BY <2>1, Zenon
<1>3. PICK u \in Seq(X) : u = <<a, b, c, d, e, f>>
  <2>1. <<a, b, c, d, e, f>> \in Seq(X)
    OBVIOUS
  <2>. QED
    BY <2>1, Zenon
<1>. HIDE DEF X
<1>4. s \o t \in Seq(X) /\ Len(s \o t) = 6 /\ Len(u) = 6
  BY <1>1, <1>2, <1>3
<1>5. \A i \in 1 .. 6 : (s \o t)[i] = u[i]
  BY <1>1, <1>2, <1>3
<1>6. s \o t = u
  BY <1>4, <1>5, SeqEqual
<1>. QED
  BY <1>1, <1>2, <1>3, <1>6

\* One call and six others.
LEMMA OneAndSix ==
  ASSUME NEW a, NEW b, NEW c, NEW d, NEW e, NEW f, NEW g
  PROVE  <<a>> \o <<b, c, d, e, f, g>> = <<a, b, c, d, e, f, g>>
<1>. DEFINE X == {a, b, c, d, e, f, g}
<1>1. PICK s \in Seq(X) : s = <<a>>
  <2>1. <<a>> \in Seq(X)
    OBVIOUS
  <2>. QED
    BY <2>1, Zenon
<1>2. PICK t \in Seq(X) : t = <<b, c, d, e, f, g>>
  <2>1. <<b, c, d, e, f, g>> \in Seq(X)
    OBVIOUS
  <2>. QED
    BY <2>1, Zenon
<1>3. PICK u \in Seq(X) : u = <<a, b, c, d, e, f, g>>
  <2>1. <<a, b, c, d, e, f, g>> \in Seq(X)
    OBVIOUS
  <2>. QED
    BY <2>1, Zenon
<1>. HIDE DEF X
<1>4. s \o t \in Seq(X) /\ Len(s \o t) = 7 /\ Len(u) = 7
  BY <1>1, <1>2, <1>3
<1>5. \A i \in 1 .. 7 : (s \o t)[i] = u[i]
  BY <1>1, <1>2, <1>3
<1>6. s \o t = u
  BY <1>4, <1>5, SeqEqual
<1>. QED
  BY <1>1, <1>2, <1>3, <1>6

\* The calls of each command, each with the one that follows it.
LEMMA Order ==
  ASSUME NEW op \in Ops, NEW at \in 1 .. Len(Program(op)), NEW k, k = Program(op)[at],
         NEW k2, k2 = IF at = Len(Program(op)) THEN "none" ELSE Program(op)[at + 1]
  PROVE  Follows(op, k, k2)
<1>. USE DEF Follows
<1>1. CASE op = "import"
  <2>1. Program(op) = <<"load", "absent", "open", "write">>
    BY <1>1 DEF Program, import_profile_to_registry
  <2>2. at \in 1 .. 4 /\ Len(Program(op)) = 4
    BY <2>1
  <2>. QED
    BY <1>1, <2>1, <2>2 DEF Scales
<1>2. CASE op = "register"
  <2>1. Program(op) = <<"absent", "screen", "make", "open", "write">>
    BY <1>2 DEF Program, create_current_profile_in_registry
  <2>2. at \in 1 .. 5 /\ Len(Program(op)) = 5
    BY <2>1
  <2>. QED
    BY <1>2, <2>1, <2>2 DEF Scales
<1>3. CASE op = "create"
  <2>1. Program(op) = <<"absent", "make", "open", "write">>
    BY <1>3 DEF Program, create_profile
  <2>2. at \in 1 .. 4 /\ Len(Program(op)) = 4
    BY <2>1
  <2>. QED
    BY <1>3, <2>1, <2>2 DEF Scales
<1>4. CASE op = "create_here"
  <2>1. Program(op) = <<"absent", "screen">> \o <<"absent", "make", "open", "write">>
    BY <1>4 DEF Program, create_profile_from_current_screen, create_profile
  <2>2. Program(op) = <<"absent", "screen", "absent", "make", "open", "write">>
    BY <2>1, TwoAndFour
  <2>3. at \in 1 .. 6 /\ Len(Program(op)) = 6
    BY <2>2
  <2>. QED
    BY <1>4, <2>2, <2>3 DEF Scales
<1>5. CASE op \in {"export", "duplicate"}
  <2>1. Program(op) = <<"present", "absent", "open_copy", "copy">>
    BY <1>5 DEF Program, export_profile_from_registry, duplicate_profile_in_registry
  <2>2. at \in 1 .. 4 /\ Len(Program(op)) = 4
    BY <2>1
  <2>. QED
    BY <1>5, <2>1, <2>2 DEF Scales
<1>6. CASE op = "remove"
  <2>1. Program(op) = <<"present", "unlink">>
    BY <1>6 DEF Program, remove_profile_from_registry
  <2>2. at \in 1 .. 2 /\ Len(Program(op)) = 2
    BY <2>1
  <2>. QED
    BY <1>6, <2>1, <2>2 DEF Scales
<1>7. CASE op = "rename"
  <2>1. Program(op) = <<"present", "absent", "move">>
    BY <1>7 DEF Program, rename_profile_in_registry
  <2>2. at \in 1 .. 3 /\ Len(Program(op)) = 3
    BY <2>1
  <2>. QED
    BY <1>7, <2>1, <2>2 DEF Scales
<1>8. CASE op \in {"add", "unbind"}
  <2>1. Program(op) = <<"load", "edit", "open", "write">>
    BY <1>8 DEF Program, add_binding, remove_binding
  <2>2. at \in 1 .. 4 /\ Len(Program(op)) = 4
    BY <2>1
  <2>. QED
    BY <1>8, <2>1, <2>2 DEF Scales
<1>9. CASE op = "scale"
  <2>1. Program(op) = <<"size", "absent", "load", "fit", "open", "write">>
    BY <1>9 DEF Program, scale_profile_file
  <2>2. at \in 1 .. 6 /\ Len(Program(op)) = 6
    BY <2>1
  <2>. QED
    BY <1>9, <2>1, <2>2 DEF Scales
<1>10. CASE op = "scale_here"
  <2>1. Program(op) = <<"screen">> \o <<"size", "absent", "load", "fit", "open", "write">>
    BY <1>10 DEF Program, scale_profile_file_to_current_screen, scale_profile_file
  <2>2. Program(op) = <<"screen", "size", "absent", "load", "fit", "open", "write">>
    BY <2>1, OneAndSix
  <2>3. at \in 1 .. 7 /\ Len(Program(op)) = 7
    BY <2>2
  <2>. QED
    BY <1>10, <2>2, <2>3 DEF Scales
<1>11. CASE op = "example"
  <2>1. Program(op) = <<"make", "open", "write">>
    BY <1>11 DEF Program, write_example_profile
  <2>2. at \in 1 .. 3 /\ Len(Program(op)) = 3
    BY <2>1
  <2>. QED
    BY <1>11, <2>1, <2>2 DEF Scales
<1>12. CASE op = "list"
  <2>1. Program(op) = <<"entries", "look">>
    BY <1>12 DEF Program, list_profiles
  <2>2. at \in 1 .. 2 /\ Len(Program(op)) = 2
    BY <2>1
  <2>. QED
    BY <1>12, <2>1, <2>2 DEF Scales
<1>13. CASE op = "show"
  <2>1. Program(op) = <<"load">>
    BY <1>13 DEF Program, show_profile
  <2>2. at \in 1 .. 1 /\ Len(Program(op)) = 1
    BY <2>1
  <2>. QED
    BY <1>13, <2>1, <2>2 DEF Scales
<1>. QED
  BY <1>1, <1>2, <1>3, <1>4, <1>5, <1>6, <1>7, <1>8, <1>9, <1>10, <1>11, <1>12, <1>13 DEF Ops

\* The first call of a command finds none of its work done.
LEMMA First ==
  ASSUME NEW op \in Ops
  PROVE  /\ Len(Program(op)) \in Nat \ {0}
         /\ op = "list" => Program(op)[1] = "entries"
         /\ op = "import" => Program(op)[1] = "load"
         /\ Program(op)[1] \in {"load", "absent", "present", "size", "screen", "make", "entries"}
         /\ Program(op)[1] = "make" => op = "example"
         /\ Program(op)[1] = "screen" => op = "scale_here"
         /\ Program(op)[1] = "size" => op = "scale"
         /\ op \in Scales => Program(op)[1] \in {"size", "screen"}
<1>1. CASE op = "import"
  <2>1. Program(op) = <<"load", "absent", "open", "write">>
    BY <1>1 DEF Program, import_profile_to_registry
  <2>. QED
    BY <1>1, <2>1 DEF Scales
<1>2. CASE op = "register"
  <2>1. Program(op) = <<"absent", "screen", "make", "open", "write">>
    BY <1>2 DEF Program, create_current_profile_in_registry
  <2>. QED
    BY <1>2, <2>1 DEF Scales
<1>5. CASE op = "create"
  <2>1. Program(op) = <<"absent", "make", "open", "write">>
    BY <1>5 DEF Program, create_profile
  <2>. QED
    BY <1>5, <2>1 DEF Scales
<1>6. CASE op = "export"
  <2>1. Program(op) = <<"present", "absent", "open_copy", "copy">>
    BY <1>6 DEF Program, export_profile_from_registry
  <2>. QED
    BY <1>6, <2>1 DEF Scales
<1>7. CASE op = "duplicate"
  <2>1. Program(op) = <<"present", "absent", "open_copy", "copy">>
    BY <1>7 DEF Program, duplicate_profile_in_registry
  <2>. QED
    BY <1>7, <2>1 DEF Scales
<1>8. CASE op = "remove"
  <2>1. Program(op) = <<"present", "unlink">>
    BY <1>8 DEF Program, remove_profile_from_registry
  <2>. QED
    BY <1>8, <2>1 DEF Scales
<1>9. CASE op = "rename"
  <2>1. Program(op) = <<"present", "absent", "move">>
    BY <1>9 DEF Program, rename_profile_in_registry
  <2>. QED
    BY <1>9, <2>1 DEF Scales
<1>10. CASE op = "add"
  <2>1. Program(op) = <<"load", "edit", "open", "write">>
    BY <1>10 DEF Program, add_binding
  <2>. QED
    BY <1>10, <2>1 DEF Scales
<1>11. CASE op = "unbind"
  <2>1. Program(op) = <<"load", "edit", "open", "write">>
    BY <1>11 DEF Program, remove_binding
  <2>. QED
    BY <1>11, <2>1 DEF Scales
<1>12. CASE op = "scale"
  <2>1. Program(op) = <<"size", "absent", "load", "fit", "open", "write">>
    BY <1>12 DEF Program, scale_profile_file
  <2>. QED
    BY <1>12, <2>1 DEF Scales
<1>13. CASE op = "example"
  <2>1. Program(op) = <<"make", "open", "write">>
    BY <1>13 DEF Program, write_example_profile
  <2>. QED
    BY <1>13, <2>1 DEF Scales
<1>14. CASE op = "list"
  <2>1. Program(op) = <<"entries", "look">>
    BY <1>14 DEF Program, list_profiles
  <2>. QED
    BY <1>14, <2>1 DEF Scales
<1>15. CASE op = "show"
  <2>1. Program(op) = <<"load">>
    BY <1>15 DEF Program, show_profile
  <2>. QED
    BY <1>15, <2>1 DEF Scales
<1>3. CASE op = "create_here"
  <2>1. Program(op) = <<"absent", "screen">> \o <<"absent", "make", "open", "write">>
    BY <1>3 DEF Program, create_profile_from_current_screen, create_profile
  <2>2. Program(op) = <<"absent", "screen", "absent", "make", "open", "write">>
    BY <2>1, TwoAndFour
  <2>. QED
    BY <1>3, <2>2 DEF Scales
<1>4. CASE op = "scale_here"
  <2>1. Program(op) = <<"screen">> \o <<"size", "absent", "load", "fit", "open", "write">>
    BY <1>4 DEF Program, scale_profile_file_to_current_screen, scale_profile_file
  <2>2. Program(op) = <<"screen", "size", "absent", "load", "fit", "open", "write">>
    BY <2>1, OneAndSix
  <2>. QED
    BY <1>4, <2>2 DEF Scales
<1>. QED
  BY <1>1, <1>2, <1>3, <1>4, <1>5, <1>6, <1>7, <1>8, <1>9, <1>10, <1>11, <1>12, <1>13, <1>14, <1>15 DEF Ops

-----------------------------------------------------------------------------
(* Commands that run *)

\* A command that is at a call is at one of its calls.
LEMMA RunFacts ==
  ASSUME NEW ns, NEW fs, NEW c, NEW k, Runs(c, k, ns, fs)
  PROVE  /\ c.job \in Jobs /\ JobIsFormed(c.job) /\ c.job.op \in Ops
         /\ Len(Program(c.job.op)) \in Nat \ {0}
         /\ c.at \in 1 .. Len(Program(c.job.op)) /\ k = Program(c.job.op)[c.at]
         /\ c.done = FALSE
         /\ Stage(c, k, ns, fs) /\ Placed(c, ns) /\ CommandShape(c)
         /\ DOMAIN c.before = DOMAIN ns
<1>1. c.job \in Jobs /\ JobIsFormed(c.job)
  BY DEF Runs, CommandFits, RegistryConstants
<1>2. c.job.op \in Ops
  BY <1>1 DEF JobIsFormed
<1>3. Len(Program(c.job.op)) \in Nat \ {0}
  BY <1>2, First
<1>4. CommandShape(c) /\ c.at \in 0 .. Len(Program(c.job.op)) /\ c.at # 0 /\ Placed(c, ns)
  BY DEF Runs, CommandFits, CallNow
<1>5. c.done = FALSE
  BY <1>4 DEF Runs, CommandFits, CommandShape
<1>6. k = Program(c.job.op)[c.at] /\ Stage(c, k, ns, fs) /\ DOMAIN c.before = DOMAIN ns
  BY <1>4 DEF Runs, CallNow, CommandFits
<1>. QED
  BY <1>1, <1>2, <1>3, <1>4, <1>5, <1>6

\* The next call is the one that the program has next.
LEMMA NextCall ==
  ASSUME NEW ns, NEW fs, NEW c, NEW k, Runs(c, k, ns, fs), NEW d, Advanced(c, d)
  PROVE  /\ Follows(c.job.op, k, CallNow(d)) /\ c.job.op \in Ops
         /\ d.done <=> CallNow(d) = "none"
         /\ d.at \in 0 .. Len(Program(c.job.op)) /\ (d.done => d.at = 0)
<1>1. PICK op \in Ops : op = c.job.op
  BY RunFacts
<1>2. PICK L \in Nat \ {0} : L = Len(Program(op))
  BY <1>1, RunFacts
<1>3. PICK at \in 1 .. L : at = c.at /\ k = Program(op)[at]
  BY <1>1, <1>2, RunFacts
<1>4. d.at = (IF at = L THEN 0 ELSE at + 1) /\ d.done = (at = L) /\ d.job = c.job
  BY <1>1, <1>2, <1>3 DEF Advanced, Keeps
<1>5. CallNow(d) = IF at = L THEN "none" ELSE Program(op)[at + 1]
  BY <1>1, <1>2, <1>3, <1>4 DEF CallNow
<1>6. Follows(op, k, CallNow(d))
  BY <1>2, <1>3, <1>5, Order
<1>7. at # L => CallNow(d) # "none"
  <2>1. SUFFICES ASSUME at # L
                 PROVE  CallNow(d) # "none"
    OBVIOUS
  <2>2. PICK b \in 1 .. L : b = at + 1
    BY <1>3, <2>1
  <2>3. CallNow(d) = Program(op)[b]
    BY <1>5, <2>1, <2>2
  <2>4. PICK k2 : k2 = IF b = L THEN "none" ELSE Program(op)[b + 1]
    OBVIOUS
  <2>5. Follows(op, CallNow(d), k2)
    BY <1>2, <2>3, <2>4, Order
  <2>. QED
    BY <2>5 DEF Follows, Ops
<1>8. at = L => CallNow(d) = "none"
  BY <1>5
<1>9. d.done <=> at = L
  BY <1>4, Zenon
<1>10. d.done <=> CallNow(d) = "none"
  BY <1>7, <1>8, <1>9, Zenon
<1>11. d.at \in 0 .. Len(Program(c.job.op)) /\ (at = L => d.at = 0)
  BY <1>1, <1>2, <1>4
<1>12. Follows(c.job.op, k, CallNow(d)) /\ c.job.op \in Ops
  BY <1>1, <1>6
<1>. QED
  BY <1>9, <1>10, <1>11, <1>12, Zenon

\* The places that a command uses are those that the user means.
LEMMA Places ==
  ASSUME NEW ns, NEW fs, NEW c, NEW k, Runs(c, k, ns, fs)
  PROVE  /\ c.job.op # "list" =>
              /\ SourceNow(c) = Meant(c.job, c.job.source) /\ SourceNow(c) \in DOMAIN ns
              /\ c.job.target[1] # "package" =>
                   /\ TargetNow(c) = Meant(c.job, c.job.target) /\ TargetNow(c) = MeantTarget(c)
                   /\ TargetNow(c) \in DOMAIN ns
              /\ c.job.target[1] = "package" =>
                   c.job.op = "import" /\ TargetNow(c) = <<c.job.registry, c.held.package>>
         /\ c.job.op = "list" => RegistryDir(c.job.env) = c.job.registry
<1>1. JobIsFormed(c.job) /\ Placed(c, ns)
  BY RunFacts
<1>2. /\ c.job.op \in Ops
      /\ c.job.source[1] \in (IF c.job.op = "list" THEN {"registry"} ELSE {"id", "path"})
      /\ c.job.op # "list" /\ c.job.op # "import" => c.job.target[1] \in {"id", "path"}
      /\ c.job.op = "import" => c.job.target[1] \in {"id", "path", "package"}
      /\ RegistryDir(c.job.env) # NoWhere => c.job.registry = RegistryDir(c.job.env)
  BY <1>1 DEF JobIsFormed
<1>3. /\ RegistryDir(c.job.env) # NoWhere \/ {c.job.source[1], c.job.target[1]} = {"path"}
      /\ c.job.op # "list" => Meant(c.job, c.job.source) \in DOMAIN ns
      /\ c.job.target[1] \in {"id", "path"} => Meant(c.job, c.job.target) \in DOMAIN ns
  BY <1>1 DEF Placed
<1>4. \A place : (place[1] = "path" \/ RegistryDir(c.job.env) # NoWhere) =>
        PathOf(c.job, place) = Meant(c.job, place)
  BY <1>2 DEF PathOf, Meant
<1>5. ASSUME c.job.op # "list"
      PROVE  SourceNow(c) = Meant(c.job, c.job.source)
  <2>1. c.job.source[1] = "path" \/ RegistryDir(c.job.env) # NoWhere
    BY <1>3
  <2>. QED
    BY <1>4, <2>1 DEF SourceNow
<1>6. ASSUME c.job.op # "list", c.job.target[1] # "package"
      PROVE  TargetNow(c) = Meant(c.job, c.job.target) /\ TargetNow(c) = MeantTarget(c)
  <2>1. c.job.target[1] = "path" \/ RegistryDir(c.job.env) # NoWhere
    BY <1>3
  <2>2. PathOf(c.job, c.job.target) = Meant(c.job, c.job.target)
    BY <1>4, <2>1
  <2>3. TargetNow(c) = PathOf(c.job, c.job.target)
    BY <1>6 DEF TargetNow
  <2>4. MeantTarget(c) = Meant(c.job, c.job.target)
    BY <1>6 DEF MeantTarget
  <2>. QED
    BY <2>2, <2>3, <2>4
<1>7. ASSUME c.job.op # "list", c.job.target[1] = "package"
      PROVE  c.job.op = "import" /\ TargetNow(c) = <<c.job.registry, c.held.package>>
  <2>1. RegistryDir(c.job.env) # NoWhere
    BY <1>3, <1>7
  <2>2. TargetNow(c) = PathOf(c.job, <<"id", c.held.package>>)
    BY <1>7 DEF TargetNow
  <2>3. TargetNow(c) = <<RegistryDir(c.job.env), c.held.package>>
    BY <2>2 DEF PathOf
  <2>. QED
    BY <1>2, <1>7, <2>1, <2>3
<1>8. c.job.op = "list" => RegistryDir(c.job.env) = c.job.registry
  BY <1>2, <1>3
<1>. QED
  BY <1>2, <1>3, <1>5, <1>6, <1>7, <1>8

\* A command that went on fits again, when its new stage is right.
LEMMA AdvanceFits ==
  ASSUME NEW ns, NEW fs, NEW c, NEW k, Runs(c, k, ns, fs), NEW d, Advanced(c, d), NEW ns2, NEW fs2,
         DOMAIN ns2 = DOMAIN ns, Stage(d, CallNow(d), ns2, fs2)
  PROVE  CommandFits(d, ns2, fs2)
<1>1. CommandShape(d) /\ d.job = c.job /\ d.before = c.before
  BY DEF Advanced, Keeps
<1>2. c.job \in Jobs /\ Placed(c, ns) /\ DOMAIN c.before = DOMAIN ns
  BY RunFacts
<1>3. d.at \in 0 .. Len(Program(d.job.op)) /\ (d.done => d.at = 0)
  BY <1>1, NextCall
<1>4. Placed(d, ns2)
  BY <1>1, <1>2 DEF Placed
<1>5. \A t \in DOMAIN ns2 : IsProfile(d.before[t]) => d.before[t] \in Profiles1
  BY <1>1 DEF Runs, CommandFits
<1>. QED
  BY <1>1, <1>2, <1>3, <1>4, <1>5 DEF CommandFits

\* A function on 1 .. L is a sequence.
LEMMA IsSequence ==
  ASSUME NEW L \in Nat, NEW Y, NEW f \in [1 .. L -> Y]
  PROVE  f \in Seq(Y) /\ Len(f) = L
OBVIOUS

\* A disk on which the file that a command writes has something else.
LEMMA Rewritten ==
  ASSUME NEW ns, NEW fs, DiskFits(ns, fs), NEW opened \in 1 .. Len(fs), NEW content, Fine(content)
  PROVE  /\ DiskFits(ns, [fs EXCEPT ![opened] = content])
         /\ Len([fs EXCEPT ![opened] = content]) = Len(fs)
         /\ \A t \in DOMAIN ns :
              Found(ns, [fs EXCEPT ![opened] = content], t) =
                IF ns[t] = opened THEN content ELSE Found(ns, fs, t)
<1>0. PICK fs2 : fs2 = [fs EXCEPT ![opened] = content]
  OBVIOUS
<1>. DEFINE X == {fs[n] : n \in DOMAIN fs} \cup {content}
<1>1. PICK L \in Nat : L = Len(fs) /\ DOMAIN fs = 1 .. L
  BY DEF DiskFits
<1>2. fs2 \in [1 .. L -> X]
  BY <1>0, <1>1 DEF DiskFits
<1>3. DOMAIN fs2 = 1 .. L /\ Len(fs2) = L
  <2>1. fs2 \in Seq(X)
    BY <1>2
  <2>. QED
    BY <1>2, <2>1
<1>4. fs2 \in Seq({fs2[n] : n \in DOMAIN fs2})
  <2>1. PICK Y : Y = {fs2[m] : m \in DOMAIN fs2}
    OBVIOUS
  <2>2. \A n \in 1 .. L : fs2[n] \in Y
    BY <1>3, <2>1
  <2>. HIDE DEF X
  <2>3. fs2 \in [1 .. L -> Y]
    BY <1>2, <2>2
  <2>4. fs2 \in Seq(Y)
    BY <2>3, IsSequence
  <2>. QED
    BY <2>1, <2>4
<1>5. \A n \in DOMAIN fs2 : fs2[n] = IF n = opened THEN content ELSE fs[n]
  BY <1>0, <1>1, <1>3
<1>6. \A n \in DOMAIN fs2 : Fine(fs2[n])
  BY <1>1, <1>3, <1>5 DEF DiskFits
<1>7. ns \in [DOMAIN ns -> 0 .. Len(fs2)]
  BY <1>1, <1>3 DEF DiskFits
<1>8. ASSUME NEW t \in DOMAIN ns
      PROVE  Found(ns, fs2, t) = IF ns[t] = opened THEN content ELSE Found(ns, fs, t)
  <2>1. PICK n \in 0 .. L : n = ns[t]
    BY <1>1 DEF DiskFits
  <2>. QED
    BY <1>1, <1>3, <1>5, <2>1 DEF Found
<1>. QED
  <2>1. DiskFits(ns, fs2)
    BY <1>4, <1>6, <1>7 DEF DiskFits
  <2>. QED
    BY <1>0, <1>1, <1>3, <1>8, <2>1

\* A command that ends before its last call, or while it writes, has changed only its files.
LEMMA FailFits ==
  ASSUME NEW ns, NEW fs, NEW c, NEW k, Runs(c, k, ns, fs), NEW d, Keeps(c, d),
         d.at = 0, d.done = FALSE, d.file = c.file, NEW fs2,
         fs2 = fs \/ (k \in Writing /\ fs2 = [fs EXCEPT ![c.file] = Scrap])
  PROVE  CommandFits(d, ns, fs2)
<1>1. CommandShape(d) /\ d.job = c.job /\ d.before = c.before /\ d.disturbed = c.disturbed
  BY DEF Keeps
<1>2. c.job \in Jobs /\ Placed(c, ns) /\ DOMAIN c.before = DOMAIN ns /\ Stage(c, k, ns, fs)
  BY RunFacts
<1>3. d.at \in 0 .. Len(Program(d.job.op))
  <2>1. Len(Program(c.job.op)) \in Nat \ {0}
    BY RunFacts
  <2>. QED
    BY <1>1, <2>1
<1>4. \A t \in DOMAIN ns : IsProfile(d.before[t]) => d.before[t] \in Profiles1
  BY <1>1 DEF Runs, CommandFits
<1>5. k # "none" /\ DiskFits(ns, fs)
  BY DEF Runs
<1>6. Over(d, ns, fs2)
  <2>. SUFFICES ASSUME Clean(d), NEW t \in DOMAIN ns, t \notin d.disturbed
                PROVE  \/ Found(ns, fs2, t) = d.before[t]
                       \/ d.file # 0 /\ t \in {Meant(d.job, d.job.source), MeantTarget(d)}
    BY DEF Over
  <2>1. Clean(c) /\ t \notin c.disturbed /\ MeantTarget(d) = MeantTarget(c)
    BY <1>1 DEF Clean, MeantTarget
  <2>2. CASE k \notin Writing
    <3>1. Sees(c, ns, fs) /\ fs2 = fs
      BY <1>2, <1>5, <2>2 DEF Stage
    <3>. QED
      BY <1>1, <2>1, <3>1 DEF Sees
  <2>3. CASE k \in Writing
    <3>1. WritesTarget(c, k, ns, fs)
      BY <1>2, <2>3 DEF Stage
    <3>2. /\ c.file \in 1 .. Len(fs) /\ MeantTarget(c) \in DOMAIN ns /\ ns[MeantTarget(c)] = c.file
          /\ t # MeantTarget(c) => Found(ns, fs, t) = c.before[t]
      BY <2>1, <3>1 DEF WritesTarget
    <3>3. CASE t = MeantTarget(c)
      <4>1. c.file # 0
        BY <3>2 DEF DiskFits
      <4>. QED
        BY <2>1, <3>3, <4>1
    <3>4. CASE t # MeantTarget(c)
      <4>1. Found(ns, fs2, t) = Found(ns, fs, t)
        <5>1. CASE fs2 = fs
          BY <5>1
        <5>2. CASE fs2 = [fs EXCEPT ![c.file] = Scrap]
          <6>1. ns[t] # c.file
            <7>1. c.file # 0
              BY <3>2 DEF DiskFits
            <7>. QED
              BY <1>5, <3>2, <3>4, <7>1 DEF DiskFits
          <6>2. Fine(Scrap)
            BY DEF Fine, IsProfile
          <6>3. Found(ns, fs2, t) = IF ns[t] = c.file THEN Scrap ELSE Found(ns, fs, t)
            <7>1. PICK opened \in 1 .. Len(fs) : opened = c.file
              BY <3>2
            <7>2. \A u \in DOMAIN ns :
                    Found(ns, [fs EXCEPT ![opened] = Scrap], u) =
                      IF ns[u] = opened THEN Scrap ELSE Found(ns, fs, u)
              BY <1>5, <6>2, Rewritten
            <7>. QED
              BY <5>2, <7>1, <7>2
          <6>. QED
            BY <6>1, <6>3
        <5>. QED
          BY <5>1, <5>2
      <4>. QED
        BY <1>1, <3>2, <3>4, <4>1
    <3>. QED
      BY <3>3, <3>4
  <2>. QED
    BY <2>2, <2>3
<1>7. CallNow(d) = "none"
  BY DEF CallNow
<1>8. Stage(d, "none", ns, fs2)
  <2>1. ~Looked(d.job.op, "none")
    BY DEF Looked
  <2>2. Lists(d, "none", ns)
    BY DEF Lists
  <2>. QED
    BY <1>6, <2>1, <2>2 DEF Stage, Writing
<1>. QED
  BY <1>1, <1>2, <1>3, <1>4, <1>7, <1>8 DEF CommandFits

\* What is promised, command by command.
LEMMA Promises ==
  ASSUME NEW c
  PROVE  /\ c.job.op \in Writers => Promised(c) = [c.before EXCEPT ![MeantTarget(c)] = Wanted(c)]
         /\ c.job.op = "remove" =>
              Promised(c) = [c.before EXCEPT ![Meant(c.job, c.job.source)] = NoEntry]
         /\ c.job.op = "rename" =>
              Promised(c) = [c.before EXCEPT ![Meant(c.job, c.job.source)] = NoEntry,
                               ![MeantTarget(c)] = c.before[Meant(c.job, c.job.source)]]
         /\ c.job.op \in {"show", "list"} => Promised(c) = c.before
<1>. DEFINE s == Meant(c.job, c.job.source)
            m == MeantTarget(c)
            op == c.job.op
<1>1. CASE op = "import"
  BY <1>1, Zenon DEF Promised, Wanted
<1>2. CASE op \in {"register", "create", "create_here"}
  <2>1. op # "import"
    BY <1>2
  <2>2. Promised(c) = [c.before EXCEPT ![m] = NewProfile(c.job, c.size)]
    BY <1>2 DEF Promised
  <2>3. Wanted(c) = NewProfile(c.job, c.size)
    BY <1>2 DEF Wanted
  <2>. QED
    BY <1>2, <2>2, <2>3 DEF Writers
<1>3. CASE op \in {"export", "duplicate"}
  <2>1. Promised(c) = [c.before EXCEPT ![m] = IF s = m THEN Empty ELSE c.before[s]]
    BY <1>3 DEF Promised
  <2>2. Wanted(c) = IF s = m THEN Empty ELSE c.before[s]
    BY <1>3 DEF Wanted
  <2>. QED
    BY <1>3, <2>1, <2>2 DEF Writers
<1>4. CASE op = "remove"
  BY <1>4 DEF Promised, Writers
<1>5. CASE op = "rename"
  BY <1>5 DEF Promised, Writers
<1>6. CASE op = "add"
  <2>1. Promised(c) = [c.before EXCEPT ![m] =
                         [c.before[s] EXCEPT !.bindings = @ \o <<NormalizedInput(c.job.binding)>>]]
    BY <1>6 DEF Promised
  <2>2. Wanted(c) = [c.before[s] EXCEPT !.bindings = @ \o <<NormalizedInput(c.job.binding)>>]
    BY <1>6 DEF Wanted
  <2>. QED
    BY <1>6, <2>1, <2>2 DEF Writers
<1>7. CASE op = "unbind"
  <2>1. Promised(c) = [c.before EXCEPT ![m] =
                         [c.before[s] EXCEPT !.bindings = Without(@, c.job.binding.name)]]
    BY <1>7 DEF Promised
  <2>2. Wanted(c) = [c.before[s] EXCEPT !.bindings = Without(@, c.job.binding.name)]
    BY <1>7 DEF Wanted
  <2>. QED
    BY <1>7, <2>1, <2>2 DEF Writers
<1>8. CASE op \in {"scale", "scale_here"}
  <2>1. Promised(c) = [c.before EXCEPT ![m] = ScaleProfile(c.before[s], c.size)]
    BY <1>8 DEF Promised
  <2>2. Wanted(c) = ScaleProfile(c.before[s], c.size)
    BY <1>8 DEF Wanted
  <2>. QED
    BY <1>8, <2>1, <2>2 DEF Writers
<1>9. CASE op = "example"
  <2>1. Promised(c) = [c.before EXCEPT ![m] = Example]
    BY <1>9 DEF Promised
  <2>2. Wanted(c) = Example
    BY <1>9 DEF Wanted
  <2>. QED
    BY <1>9, <2>1, <2>2 DEF Writers
<1>10. CASE op \in {"show", "list"}
  BY <1>10 DEF Promised, Writers
<1>. QED
  BY <1>1, <1>2, <1>3, <1>4, <1>5, <1>6, <1>7, <1>8, <1>9, <1>10 DEF Writers

\* What the others do, a command knows as what may have changed.
LEMMA OthersFit ==
  ASSUME RegistryConstants, NEW ns, NEW fs, NEW ns2, NEW fs2, NEW moved, NEW c,
         CommandFits(c, ns, fs), c.job # NoEntry,
         DiskFits(ns, fs), DiskFits(ns2, fs2), DOMAIN ns2 = DOMAIN ns, Len(fs) <= Len(fs2),
         \A t \in DOMAIN ns \ moved : ns2[t] = ns[t] /\ Found(ns2, fs2, t) = Found(ns, fs, t),
         NEW d, d = [c EXCEPT !.disturbed = @ \cup moved]
  PROVE  CommandFits(d, ns2, fs2)
<1>. DEFINE s == Meant(c.job, c.job.source)
            m == MeantTarget(c)
            k == CallNow(c)
<1>1. CommandShape(c) /\ Stage(c, k, ns, fs)
  BY DEF CommandFits
<1>2. /\ d.job = c.job /\ d.at = c.at /\ d.done = c.done /\ d.held = c.held /\ d.size = c.size
      /\ d.file = c.file /\ d.from = c.from /\ d.entries = c.entries /\ d.listed = c.listed
      /\ d.before = c.before /\ d.disturbed = c.disturbed \cup moved /\ d.unfit = c.unfit
  BY <1>1 DEF CommandShape
<1>3. CommandShape(d)
  BY <1>1 DEF CommandShape
<1>4. Meant(d.job, d.job.source) = s /\ MeantTarget(d) = m /\ CallNow(d) = k /\ TargetNow(d) = TargetNow(c)
  BY <1>2 DEF MeantTarget, CallNow, TargetNow
<1>5. Clean(d) => Clean(c) /\ s \notin moved /\ m \notin moved
  BY <1>2, <1>4 DEF Clean
<1>6. Sees(c, ns, fs) => Sees(d, ns2, fs2)
  BY <1>2 DEF Sees
<1>7. WritesTarget(c, k, ns, fs) => WritesTarget(d, k, ns2, fs2)
  <2>. SUFFICES ASSUME WritesTarget(c, k, ns, fs)
                PROVE  WritesTarget(d, k, ns2, fs2)
    OBVIOUS
  <2>1. d.file \in 1 .. Len(fs2) /\ d.from \in 0 .. Len(fs2) /\ (k = "copy" => d.from # 0)
    <3>1. Len(fs) \in Nat /\ Len(fs2) \in Nat
      BY DEF DiskFits
    <3>. QED
      BY <1>2, <3>1 DEF WritesTarget
  <2>2. ASSUME Clean(d)
        PROVE  /\ m \in DOMAIN ns2 /\ ns2[m] = d.file /\ fs2[d.file] = Empty
               /\ \A u \in DOMAIN ns2 : u \notin d.disturbed /\ u # m => Found(ns2, fs2, u) = d.before[u]
               /\ k = "copy" => s \in DOMAIN ns2 /\ ns2[s] = d.from
    <3>1. /\ m \in DOMAIN ns /\ ns[m] = c.file /\ fs[c.file] = Empty
          /\ \A u \in DOMAIN ns : u \notin c.disturbed /\ u # m => Found(ns, fs, u) = c.before[u]
          /\ k = "copy" => s \in DOMAIN ns /\ ns[s] = c.from
      BY <1>5, <2>2 DEF WritesTarget
    <3>2. s \notin moved /\ m \notin moved
      BY <1>5, <2>2
    <3>. HIDE DEF s, m, k
    <3>3. m \in DOMAIN ns2 /\ ns2[m] = d.file
      BY <1>2, <3>1, <3>2
    <3>4. d.file # 0
      BY <1>2 DEF WritesTarget, DiskFits
    <3>5. fs2[d.file] = Empty
      <4>1. Found(ns2, fs2, m) = Found(ns, fs, m)
        BY <3>1, <3>2
      <4>2. Found(ns2, fs2, m) = fs2[d.file] /\ Found(ns, fs, m) = fs[c.file]
        BY <1>2, <3>1, <3>3, <3>4 DEF Found
      <4>. QED
        BY <3>1, <4>1, <4>2
    <3>6. \A u \in DOMAIN ns2 : u \notin d.disturbed /\ u # m => Found(ns2, fs2, u) = d.before[u]
      BY <1>2, <3>1
    <3>7. k = "copy" => s \in DOMAIN ns2 /\ ns2[s] = d.from
      BY <1>2, <3>1, <3>2
    <3>. QED
      BY <3>3, <3>5, <3>6, <3>7
  <2>. HIDE DEF k
  <2>. QED
    BY <1>4, <2>1, <2>2 DEF WritesTarget
<1>8. Ready(c) => Ready(d)
  <2>1. Wanted(d) = Wanted(c)
    BY <1>2, <1>4 DEF Wanted
  <2>. QED
    BY <1>2, <1>5, <2>1 DEF Ready
<1>9. HoldsSource(c) => HoldsSource(d)
  BY <1>2 DEF HoldsSource
<1>10. LookedAtTarget(c, ns) => LookedAtTarget(d, ns2)
  BY <1>2, <1>4 DEF LookedAtTarget
<1>11. Over(c, ns, fs) => Over(d, ns2, fs2)
  <2>. SUFFICES ASSUME Over(c, ns, fs), Clean(d), NEW t \in DOMAIN ns2, t \notin d.disturbed
                PROVE  IF d.done THEN Found(ns2, fs2, t) = Promised(d)[t]
                       ELSE \/ Found(ns2, fs2, t) = d.before[t]
                            \/ d.file # 0 /\ t \in {Meant(d.job, d.job.source), MeantTarget(d)}
    BY DEF Over
  <2>1. Promised(d) = Promised(c)
    <3>1. /\ d.job = c.job /\ d.before = c.before /\ d.size = c.size
          /\ Meant(d.job, d.job.source) = Meant(c.job, c.job.source) /\ MeantTarget(d) = MeantTarget(c)
      BY <1>2, <1>4
    <3>2. Wanted(d) = Wanted(c)
      BY <1>2, <1>4 DEF Wanted
    <3>3. c.job.op \in Ops
      BY DEF CommandFits, RegistryConstants, JobIsFormed
    <3>. HIDE DEF s, m
    <3>4. CASE c.job.op \in Writers
      <4>1. Promised(c) = [c.before EXCEPT ![MeantTarget(c)] = Wanted(c)]
        BY <3>4, Promises, Zenon
      <4>2. Promised(d) = [d.before EXCEPT ![MeantTarget(d)] = Wanted(d)]
        BY <3>1, <3>4, Promises, Zenon
      <4>. QED
        BY <3>1, <3>2, <4>1, <4>2
    <3>5. CASE c.job.op = "remove"
      <4>1. Promised(c) = [c.before EXCEPT ![Meant(c.job, c.job.source)] = NoEntry]
        BY <3>5, Promises, Zenon
      <4>2. Promised(d) = [d.before EXCEPT ![Meant(d.job, d.job.source)] = NoEntry]
        BY <3>1, <3>5, Promises, Zenon
      <4>. QED
        BY <3>1, <4>1, <4>2
    <3>6. CASE c.job.op = "rename"
      <4>1. Promised(c) = [c.before EXCEPT ![Meant(c.job, c.job.source)] = NoEntry,
                                            ![MeantTarget(c)] = c.before[Meant(c.job, c.job.source)]]
        BY <3>6, Promises, Zenon
      <4>2. Promised(d) = [d.before EXCEPT ![Meant(d.job, d.job.source)] = NoEntry,
                                            ![MeantTarget(d)] = d.before[Meant(d.job, d.job.source)]]
        BY <3>1, <3>6, Promises, Zenon
      <4>. QED
        BY <3>1, <4>1, <4>2
    <3>7. CASE c.job.op \in {"show", "list"}
      <4>1. Promised(c) = c.before
        BY <3>7, Promises, Zenon
      <4>2. Promised(d) = d.before
        BY <3>1, <3>7, Promises, Zenon
      <4>. QED
        BY <3>1, <4>1, <4>2
    <3>. QED
      BY <3>3, <3>4, <3>5, <3>6, <3>7 DEF Ops, Writers
  <2>2. Clean(c) /\ t \in DOMAIN ns /\ t \notin c.disturbed /\ Found(ns2, fs2, t) = Found(ns, fs, t)
    BY <1>2, <1>5
  <2>3. IF c.done THEN Found(ns, fs, t) = Promised(c)[t]
        ELSE Found(ns, fs, t) = c.before[t] \/ (c.file # 0 /\ t \in {s, m})
    BY <2>2 DEF Over
  <2>. HIDE DEF s, m
  <2>. QED
    BY <1>2, <1>4, <2>1, <2>2, <2>3
<1>12. Lists(c, k, ns) => Lists(d, k, ns2)
  BY <1>2 DEF Lists
<1>. HIDE DEF k
<1>13. Stage(d, k, ns2, fs2)
  BY <1>1, <1>2, <1>6, <1>7, <1>8, <1>9, <1>10, <1>11, <1>12 DEF Stage
<1>14. Placed(c, ns) => Placed(d, ns2)
  BY <1>2 DEF Placed
<1>. QED
  BY <1>2, <1>3, <1>4, <1>13, <1>14 DEF CommandFits

-----------------------------------------------------------------------------
(* Calls that leave the disk alone *)

\* A command that has only read goes on, when its next call has what it needs.
LEMMA QuietFits ==
  ASSUME NEW ns, NEW fs, NEW c, NEW k, Runs(c, k, ns, fs), k \notin Writing, c.job.op # "list",
         NEW d, Advanced(c, d), d.file = c.file, d.from = c.from, CallNow(d) \notin Writing,
         CallNow(d) = "open" => Ready(d),
         CallNow(d) \in {"edit", "fit"} \/ (c.job.op = "import" /\ CallNow(d) \in {"absent", "open"})
           => HoldsSource(d),
         c.job.op \in Scales /\ CallNow(d) \in {"absent", "load", "fit"} =>
           0 \notin {d.size[1], d.size[2]},
         Looked(c.job.op, CallNow(d)) => LookedAtTarget(d, ns),
         CallNow(d) = "none" => Over(d, ns, fs)
  PROVE  CommandFits(d, ns, fs)
<1>1. d.job = c.job /\ d.before = c.before /\ d.disturbed = c.disturbed
  BY DEF Advanced, Keeps
<1>2. c.file = 0 /\ c.from = 0 /\ Sees(c, ns, fs)
  <2>1. Stage(c, k, ns, fs) /\ k # "none"
    BY RunFacts DEF Runs
  <2>. QED
    BY <2>1 DEF Stage
<1>3. Sees(d, ns, fs)
  BY <1>1, <1>2 DEF Sees
<1>4. PICK k2 : k2 = CallNow(d)
  OBVIOUS
<1>5. k2 # "write"
  BY <1>4 DEF Writing
<1>6. Stage(d, k2, ns, fs)
  BY <1>1, <1>2, <1>3, <1>4, <1>5 DEF Stage
<1>. QED
  BY <1>4, <1>6, AdvanceFits

\* The source that loads is the profile that the command works on.
LEMMA LoadedIsHeld ==
  ASSUME NEW ns, NEW fs, NEW c, Runs(c, "load", ns, fs), NEW d, Advanced(c, d),
         d.held = Found(ns, fs, SourceNow(c)), Valid1(d.held)
  PROVE  HoldsSource(d)
<1>1. d.job = c.job /\ d.before = c.before /\ d.disturbed = c.disturbed
  BY DEF Advanced, Keeps
<1>2. c.job.op # "list"
  BY NextCall DEF Follows
<1>3. SourceNow(c) = Meant(c.job, c.job.source) /\ SourceNow(c) \in DOMAIN ns
  BY <1>2, Places
<1>4. Sees(c, ns, fs) /\ DiskFits(ns, fs)
  <2>1. Stage(c, "load", ns, fs)
    BY RunFacts
  <2>. QED
    BY <2>1 DEF Stage, Runs, Writing
<1>5. IsProfile(d.held) /\ Errors1(d.held) = {}
  BY DEF Valid1
<1>6. d.held \in Profiles1
  <2>1. PICK s \in DOMAIN ns : s = SourceNow(c)
    BY <1>3
  <2>2. ns[s] # 0 /\ d.held = fs[ns[s]]
    BY <1>5, <2>1 DEF Found, IsProfile
  <2>3. ns[s] \in DOMAIN fs
    BY <1>4, <2>2 DEF DiskFits
  <2>4. Fine(d.held)
    BY <1>4, <2>2, <2>3 DEF DiskFits
  <2>. QED
    BY <1>5, <2>4 DEF Fine
<1>7. SourceNow(c) \notin c.disturbed => d.held = c.before[SourceNow(c)]
  BY <1>3, <1>4 DEF Sees
<1>. QED
  BY <1>1, <1>3, <1>5, <1>6, <1>7 DEF HoldsSource, Good

\* A profile that was loaded is edited, scaled, registered or shown.
LEMMA LoadFits ==
  ASSUME NEW ns, NEW fs, NEW c, Runs(c, "load", ns, fs), NEW d, Advanced(c, d), d.size = c.size,
         d.file = c.file, d.from = c.from, d.held = Found(ns, fs, SourceNow(c)), Valid1(d.held)
  PROVE  CommandFits(d, ns, fs)
<1>1. d.job = c.job /\ d.before = c.before /\ d.disturbed = c.disturbed
  BY DEF Advanced, Keeps
<1>2. HoldsSource(d) /\ Stage(c, "load", ns, fs)
  BY LoadedIsHeld, RunFacts
<1>3. Follows(c.job.op, "load", CallNow(d)) /\ c.job.op \in Ops /\ (d.done <=> CallNow(d) = "none")
  BY NextCall
<1>4. PICK k2, op : k2 = CallNow(d) /\ op = c.job.op
  OBVIOUS
<1>5. \/ op = "import" /\ k2 = "absent"
      \/ op \in {"add", "unbind"} /\ k2 = "edit"
      \/ op \in {"scale", "scale_here"} /\ k2 = "fit"
      \/ op = "show" /\ k2 = "none"
  BY <1>3, <1>4 DEF Follows, Ops
<1>6. k2 = "fit" => 0 \notin {d.size[1], d.size[2]} /\ LookedAtTarget(d, ns)
  <2>. SUFFICES ASSUME k2 = "fit"
                PROVE  0 \notin {d.size[1], d.size[2]} /\ LookedAtTarget(d, ns)
    OBVIOUS
  <2>1. op \in Scales /\ Looked(op, "load")
    BY <1>5 DEF Scales, Looked
  <2>2. 0 \notin {c.size[1], c.size[2]} /\ LookedAtTarget(c, ns)
    BY <1>2, <1>4, <2>1 DEF Stage
  <2>3. c.job.target[1] # "package"
    BY <1>4, <1>5, Places
  <2>4. TargetNow(d) = TargetNow(c)
    BY <1>1, <2>3 DEF TargetNow
  <2>. QED
    BY <1>1, <2>2, <2>4 DEF LookedAtTarget
<1>7. k2 = "none" => Over(d, ns, fs)
  <2>. SUFFICES ASSUME k2 = "none", Clean(d), NEW t \in DOMAIN ns, t \notin d.disturbed
                PROVE  Found(ns, fs, t) = Promised(d)[t] /\ d.done
    BY DEF Over
  <2>1. Promised(d) = d.before
    BY <1>1, <1>4, <1>5, Promises
  <2>2. Sees(c, ns, fs)
    BY <1>2 DEF Stage, Writing
  <2>. QED
    BY <1>1, <1>3, <1>4, <2>1, <2>2 DEF Sees
<1>8. Looked(op, k2) => k2 = "fit"
  BY <1>5 DEF Looked
<1>9. k2 \notin Writing /\ op # "list" /\ k2 # "open"
  BY <1>5 DEF Writing
<1>10. "load" \notin Writing
  BY DEF Writing
<1>11. op \in Scales => k2 = "fit"
  BY <1>5 DEF Scales
<1>. QED
  BY <1>2, <1>4, <1>6, <1>7, <1>8, <1>9, <1>10, <1>11, QuietFits

\* A command whose source is there, or whose size is one, goes on.
LEMMA LookFits ==
  ASSUME NEW ns, NEW fs, NEW c, NEW k \in {"present", "size"}, Runs(c, k, ns, fs), NEW d,
         Advanced(c, d), d.file = c.file, d.from = c.from, k = "size" => 0 \notin {d.size[1], d.size[2]}
  PROVE  CommandFits(d, ns, fs)
<1>1. Follows(c.job.op, k, CallNow(d)) /\ c.job.op \in Ops
  BY NextCall
<1>2. PICK k2, op : k2 = CallNow(d) /\ op = c.job.op
  OBVIOUS
<1>3. \/ k = "present" /\ op \in {"export", "duplicate", "rename", "remove"} /\ k2 \in {"absent", "unlink"}
      \/ k = "size" /\ op \in Scales /\ k2 = "absent"
  BY <1>1, <1>2 DEF Follows, Ops, Scales
<1>4. /\ k2 \notin Writing /\ k2 \notin {"open", "none", "edit", "fit"} /\ op \notin {"list", "import"}
      /\ k \notin Writing /\ ~Looked(op, k2)
  BY <1>3 DEF Writing, Scales, Looked
<1>5. op \in Scales => 0 \notin {d.size[1], d.size[2]}
  BY <1>3 DEF Scales
<1>. HIDE DEF Looked
<1>. QED
  BY <1>2, <1>4, <1>5, QuietFits

\* A command that may write its target goes on to make what it writes.
LEMMA AbsentFits ==
  ASSUME NEW ns, NEW fs, NEW c, Runs(c, "absent", ns, fs), NEW d, Advanced(c, d), d.file = c.file, d.from = c.from,
         d.held = c.held, d.size = c.size, LookedAtTarget(c, ns)
  PROVE  CommandFits(d, ns, fs)
<1>1. d.job = c.job /\ d.before = c.before /\ d.disturbed = c.disturbed
  BY DEF Advanced, Keeps
<1>2. Follows(c.job.op, "absent", CallNow(d)) /\ c.job.op \in Ops /\ Stage(c, "absent", ns, fs)
  BY NextCall, RunFacts
<1>3. PICK k2, op : k2 = CallNow(d) /\ op = c.job.op
  OBVIOUS
<1>4. \/ op = "import" /\ k2 = "open"
      \/ op \in {"register", "create", "create_here"} /\ k2 \in {"screen", "make"}
      \/ op \in {"export", "duplicate", "rename"} /\ k2 \in {"open_copy", "move"}
      \/ op \in Scales /\ k2 = "load"
  BY <1>2, <1>3 DEF Follows, Ops, Scales
<1>5. LookedAtTarget(d, ns)
  <2>1. TargetNow(d) = TargetNow(c)
    BY <1>1 DEF TargetNow
  <2>. QED
    BY <1>1, <2>1 DEF LookedAtTarget
<1>6. op = "import" => HoldsSource(d)
  <2>1. op = "import" => HoldsSource(c)
    BY <1>2, <1>3 DEF Stage
  <2>. QED
    BY <1>1, <2>1 DEF HoldsSource
<1>7. op = "import" => Ready(d)
  <2>. SUFFICES ASSUME op = "import"
                PROVE  Ready(d)
    OBVIOUS
  <2>1. Wanted(d) = d.before[Meant(d.job, d.job.source)]
    BY <1>1, <1>3, Zenon DEF Wanted
  <2>. QED
    BY <1>6, <2>1 DEF Ready, Clean, HoldsSource
<1>8. op \in Scales => 0 \notin {d.size[1], d.size[2]}
  BY <1>2, <1>3 DEF Stage
<1>9. /\ k2 \notin Writing \cup {"none", "edit", "fit"} /\ op # "list"
      /\ k2 = "open" => op = "import"
  BY <1>4 DEF Writing, Scales
<1>10. "absent" \notin Writing
  BY DEF Writing
<1>. QED
  BY <1>3, <1>5, <1>6, <1>7, <1>8, <1>9, <1>10, QuietFits

\* A command that was told the size of the screen goes on.
LEMMA ScreenFits ==
  ASSUME NEW ns, NEW fs, NEW c, Runs(c, "screen", ns, fs), NEW d, Advanced(c, d), d.file = c.file, d.from = c.from,
         d.held = c.held
  PROVE  CommandFits(d, ns, fs)
<1>1. d.job = c.job /\ d.before = c.before /\ d.disturbed = c.disturbed
  BY DEF Advanced, Keeps
<1>2. Follows(c.job.op, "screen", CallNow(d)) /\ c.job.op \in Ops /\ Stage(c, "screen", ns, fs)
  BY NextCall, RunFacts
<1>3. PICK k2, op : k2 = CallNow(d) /\ op = c.job.op
  OBVIOUS
<1>4. \/ op \in {"register", "create", "create_here"} /\ k2 \in {"make", "absent"}
      \/ op \in {"scale", "scale_here"} /\ k2 = "size"
  BY <1>2, <1>3 DEF Follows, Ops
<1>5. k2 = "make" => LookedAtTarget(d, ns)
  <2>1. k2 = "make" => LookedAtTarget(c, ns)
    BY <1>2, <1>3, <1>4 DEF Stage, Looked
  <2>2. TargetNow(d) = TargetNow(c)
    BY <1>1 DEF TargetNow
  <2>. QED
    BY <1>1, <2>1, <2>2 DEF LookedAtTarget
<1>6. /\ k2 \notin Writing \cup {"none", "open", "edit", "fit"} /\ op \notin {"list", "import"}
      /\ ~(op \in Scales /\ k2 \in {"absent", "load", "fit"})
      /\ Looked(op, k2) => k2 = "make"
  BY <1>4 DEF Writing, Looked, Scales
<1>7. "screen" \notin Writing
  BY DEF Writing
<1>. QED
  BY <1>3, <1>5, <1>6, <1>7, QuietFits

\* A profile that was made new is what was promised.
LEMMA MakeFits ==
  ASSUME NEW ns, NEW fs, NEW c, Runs(c, "make", ns, fs), NEW d, Advanced(c, d), d.file = c.file, d.from = c.from,
         d.size = c.size, Errors1(d.held) = {},
         d.held = IF c.job.op = "example" THEN Example ELSE NewProfile(c.job, c.size)
  PROVE  CommandFits(d, ns, fs)
<1>1. d.job = c.job /\ d.before = c.before /\ d.disturbed = c.disturbed
  BY DEF Advanced, Keeps
<1>2. /\ Follows(c.job.op, "make", CallNow(d)) /\ c.job.op \in Ops /\ Stage(c, "make", ns, fs)
      /\ c.job \in Jobs /\ CommandShape(c) /\ RegistryConstants
  BY NextCall, RunFacts DEF Runs
<1>3. PICK k2, op : k2 = CallNow(d) /\ op = c.job.op
  OBVIOUS
<1>4. op \in {"register", "create", "create_here", "example"} /\ k2 = "open"
  BY <1>2, <1>3 DEF Follows, Ops
<1>5. Ready(d)
  <2>1. c.size \in Points1
    BY <1>2 DEF CommandShape
  <2>2. NewProfile(c.job, c.size) \in Profiles1 /\ Example \in Profiles1
    BY <1>2, <2>1, NewProfiles
  <2>3. Good(d.held)
    BY <2>2 DEF Good
  <2>4. op = "example" => Wanted(d) = d.held
    BY <1>1, <1>3 DEF Wanted
  <2>5. op \in {"register", "create", "create_here"} => Wanted(d) = NewProfile(c.job, c.size)
    BY <1>1, <1>3 DEF Wanted
  <2>6. op \in {"register", "create", "create_here"} => d.held = NewProfile(c.job, c.size)
    BY <1>3
  <2>. QED
    BY <1>4, <2>3, <2>4, <2>5, <2>6 DEF Ready
<1>6. Looked(op, k2) => LookedAtTarget(d, ns)
  <2>1. Looked(op, k2) => Looked(op, "make")
    BY <1>4 DEF Looked
  <2>2. Looked(op, "make") => LookedAtTarget(c, ns)
    BY <1>2, <1>3 DEF Stage
  <2>3. TargetNow(d) = TargetNow(c)
    <3>1. c.job.target[1] # "package"
      BY <1>3, <1>4, Places
    <3>. QED
      BY <1>1, <3>1 DEF TargetNow
  <2>. QED
    BY <1>1, <2>1, <2>2, <2>3 DEF LookedAtTarget
<1>7. k2 \notin Writing /\ op \notin Scales /\ "make" \notin Writing
  BY <1>4 DEF Writing, Scales
<1>. QED
  BY <1>3, <1>4, <1>5, <1>6, <1>7, QuietFits

\* A profile that was edited is what was promised.
LEMMA EditFits ==
  ASSUME NEW ns, NEW fs, NEW c, Runs(c, "edit", ns, fs), NEW d, Advanced(c, d), d.file = c.file, d.from = c.from,
         d.size = c.size, Errors1(d.held) = {}, d.held \in Edited(c.held, c.job)
  PROVE  CommandFits(d, ns, fs)
<1>1. d.job = c.job /\ d.before = c.before /\ d.disturbed = c.disturbed
  BY DEF Advanced, Keeps
<1>2. /\ Follows(c.job.op, "edit", CallNow(d)) /\ c.job.op \in Ops /\ Stage(c, "edit", ns, fs)
      /\ c.job \in Jobs /\ RegistryConstants
  BY NextCall, RunFacts DEF Runs
<1>3. PICK k2, op : k2 = CallNow(d) /\ op = c.job.op
  OBVIOUS
<1>4. op \in {"add", "unbind"} /\ k2 = "open"
  BY <1>2, <1>3 DEF Follows, Ops
<1>5. PICK s : s = Meant(c.job, c.job.source)
  OBVIOUS
<1>6. Good(c.held) /\ (s \notin c.disturbed => c.held = c.before[s])
  <2>1. HoldsSource(c)
    BY <1>2 DEF Stage
  <2>. QED
    BY <1>5, <2>1 DEF HoldsSource
<1>7. Clean(d) => s \notin c.disturbed
  BY <1>1, <1>5 DEF Clean
<1>8. ASSUME op = "add"
      PROVE  Ready(d)
  <2>1. d.held \in AddTo(c.held, c.job.binding) /\ c.held \in Profiles1
    BY <1>3, <1>6, <1>8 DEF Edited, Good
  <2>2. /\ d.held \in Profiles1
        /\ d.held = [c.held EXCEPT !.bindings = @ \o <<NormalizedInput(c.job.binding)>>]
    BY <1>2, <2>1, Added
  <2>3. Wanted(d) = [c.before[s] EXCEPT !.bindings = @ \o <<NormalizedInput(c.job.binding)>>]
    BY <1>1, <1>3, <1>5, <1>8 DEF Wanted
  <2>4. ASSUME Clean(d)
        PROVE  d.held = Wanted(d)
    <3>1. c.held = c.before[s]
      BY <1>6, <1>7, <2>4
    <3>. QED
      BY <2>2, <2>3, <3>1, Zenon
  <2>5. Good(d.held)
    BY <2>2 DEF Good
  <2>. QED
    BY <2>4, <2>5 DEF Ready
<1>9. ASSUME op = "unbind"
      PROVE  Ready(d)
  <2>1. d.held \in RemoveFrom(c.held, c.job.binding.name)
    BY <1>3, <1>9 DEF Edited
  <2>2. /\ d.held \in Profiles1
        /\ d.held = [c.held EXCEPT !.bindings = Without(@, c.job.binding.name)]
    BY <1>6, <2>1, Removed
  <2>3. Wanted(d) = [c.before[s] EXCEPT !.bindings = Without(@, c.job.binding.name)]
    BY <1>1, <1>3, <1>5, <1>9 DEF Wanted
  <2>4. ASSUME Clean(d)
        PROVE  d.held = Wanted(d)
    <3>1. c.held = c.before[s]
      BY <1>6, <1>7, <2>4
    <3>. QED
      BY <2>2, <2>3, <3>1, Zenon
  <2>5. Good(d.held)
    BY <2>2 DEF Good
  <2>. QED
    BY <2>4, <2>5 DEF Ready
<1>10. Ready(d)
  BY <1>4, <1>8, <1>9
<1>11. /\ k2 \notin Writing /\ op \notin Scales /\ "edit" \notin Writing /\ ~Looked(op, k2)
       /\ op \notin {"list", "import"}
  BY <1>4 DEF Writing, Scales, Looked
<1>. QED
  BY <1>3, <1>4, <1>10, <1>11, QuietFits

\* A profile that was scaled is valid, and what was promised.
LEMMA FitFits ==
  ASSUME NEW ns, NEW fs, NEW c, Runs(c, "fit", ns, fs)
  PROVE  /\ Errors1(ScaleProfile(c.held, c.size)) = {}
         /\ \A d : /\ Advanced(c, d) /\ d.file = c.file /\ d.from = c.from /\ d.size = c.size
                  /\ d.held = ScaleProfile(c.held, c.size)
                  => CommandFits(d, ns, fs)
<1>1. /\ c.job.op \in Ops /\ Stage(c, "fit", ns, fs)
      /\ c.job \in Jobs /\ RegistryConstants /\ CommandShape(c)
      /\ \E k2 : Follows(c.job.op, "fit", k2)
  <2>1. PICK L : L = Len(Program(c.job.op))
    OBVIOUS
  <2>2. PICK k2 : k2 = IF c.at = L THEN "none" ELSE Program(c.job.op)[c.at + 1]
    OBVIOUS
  <2>3. Follows(c.job.op, "fit", k2)
    BY <2>1, <2>2, RunFacts, Order
  <2>. QED
    BY <2>3, RunFacts DEF Runs
<1>2. c.job.op \in Scales
  BY <1>1 DEF Follows, Ops, Scales
<1>3. HoldsSource(c) /\ 0 \notin {c.size[1], c.size[2]} /\ c.size \in Points1
  BY <1>1, <1>2 DEF Stage, CommandShape
<1>4. Good(ScaleProfile(c.held, c.size))
  BY <1>1, <1>3, ProfileFits DEF HoldsSource
<1>5. ASSUME NEW d, Advanced(c, d), d.file = c.file, d.from = c.from, d.size = c.size,
             d.held = ScaleProfile(c.held, c.size)
      PROVE  CommandFits(d, ns, fs)
  <2>1. d.job = c.job /\ d.before = c.before /\ d.disturbed = c.disturbed
    BY <1>5 DEF Advanced, Keeps
  <2>2. Follows(c.job.op, "fit", CallNow(d))
    BY <1>5, NextCall
  <2>3. PICK k2, op : k2 = CallNow(d) /\ op = c.job.op
    OBVIOUS
  <2>4. k2 = "open"
    BY <1>2, <2>2, <2>3 DEF Follows, Scales
  <2>5. PICK s : s = Meant(c.job, c.job.source)
    OBVIOUS
  <2>6. Wanted(d) = ScaleProfile(c.before[s], c.size)
    BY <1>2, <1>5, <2>1, <2>5 DEF Wanted, Scales
  <2>7. s \notin c.disturbed => c.held = c.before[s]
    BY <1>3, <2>5 DEF HoldsSource
  <2>8. Ready(d)
    BY <1>4, <1>5, <2>1, <2>5, <2>6, <2>7 DEF Ready, Clean
  <2>9. LookedAtTarget(d, ns)
    <3>1. Looked(c.job.op, "fit")
      BY <1>2 DEF Looked, Scales
    <3>2. LookedAtTarget(c, ns)
      BY <1>1, <3>1 DEF Stage
    <3>3. c.job.target[1] # "package"
      BY <1>2, Places DEF Scales
    <3>4. TargetNow(d) = TargetNow(c)
      BY <2>1, <3>3 DEF TargetNow
    <3>. QED
      BY <2>1, <3>2, <3>4 DEF LookedAtTarget
  <2>10. k2 \notin Writing /\ "fit" \notin Writing /\ op \notin {"list", "import"}
    BY <1>2, <2>3, <2>4 DEF Writing, Scales
  <2>. QED
    BY <1>5, <2>3, <2>4, <2>8, <2>9, <2>10, QuietFits
<1>. QED
  BY <1>4, <1>5 DEF Good

-----------------------------------------------------------------------------
(* Calls that change the disk *)

\* A sequence with one more.
LEMMA Longer ==
  ASSUME NEW X, NEW f \in Seq(X), NEW x
  PROVE  /\ Append(f, x) \in Seq(X \cup {x}) /\ Len(Append(f, x)) = Len(f) + 1
         /\ DOMAIN Append(f, x) = 1 .. Len(f) + 1 /\ Append(f, x)[Len(f) + 1] = x
         /\ \A n \in 1 .. Len(f) : Append(f, x)[n] = f[n]
<1>1. f \in Seq(X \cup {x})
  BY SeqMonotonic
<1>2. x \in X \cup {x}
  OBVIOUS
<1>. QED
  BY <1>1, <1>2

\* the disk after File::create
Truncated(ns, fs, path, ns2, fs2) ==
  IF ns[path] # 0
  THEN fs2 = [fs EXCEPT ![ns[path]] = Empty] /\ ns2 = ns
  ELSE fs2 = Append(fs, Empty) /\ ns2 = [ns EXCEPT ![path] = Len(fs) + 1]

\* File::create leaves an empty file, and every other path as it was.
LEMMA CreatedFile ==
  ASSUME NEW ns, NEW fs, DiskFits(ns, fs), NEW path \in DOMAIN ns, NEW ns2, NEW fs2,
         Truncated(ns, fs, path, ns2, fs2), NEW opened,
         opened = IF ns[path] # 0 THEN ns[path] ELSE Len(fs) + 1
  PROVE  /\ DiskFits(ns2, fs2) /\ DOMAIN ns2 = DOMAIN ns /\ Len(fs) <= Len(fs2)
         /\ opened \in 1 .. Len(fs2) /\ ns2[path] = opened /\ fs2[opened] = Empty
         /\ \A u \in DOMAIN ns :
              u # path => ns2[u] = ns[u] /\ Found(ns2, fs2, u) = Found(ns, fs, u)
<1>0. Fine(Empty)
  BY DEF Fine, IsProfile
<1>1. PICK L \in Nat : L = Len(fs) /\ DOMAIN fs = 1 .. L
  BY DEF DiskFits
<1>2. \A u \in DOMAIN ns : ns[u] \in 0 .. L
  BY <1>1 DEF DiskFits
<1>3. CASE ns[path] # 0
  <2>1. PICK n \in 1 .. L : n = ns[path] /\ opened = n
    BY <1>2, <1>3
  <2>2. fs2 = [fs EXCEPT ![n] = Empty] /\ ns2 = ns
    BY <1>3, <2>1 DEF Truncated
  <2>3. /\ DiskFits(ns, fs2) /\ Len(fs2) = Len(fs)
        /\ \A t \in DOMAIN ns : Found(ns, fs2, t) = IF ns[t] = n THEN Empty ELSE Found(ns, fs, t)
    <3>1. n \in 1 .. Len(fs)
      BY <1>1
    <3>2. DiskFits(ns, [fs EXCEPT ![n] = Empty])
      BY <1>0, <3>1, Rewritten
    <3>3. Len([fs EXCEPT ![n] = Empty]) = Len(fs)
      BY <1>0, <3>1, Rewritten
    <3>4. \A t \in DOMAIN ns :
            Found(ns, [fs EXCEPT ![n] = Empty], t) = IF ns[t] = n THEN Empty ELSE Found(ns, fs, t)
      BY <1>0, <3>1, Rewritten
    <3>. QED
      BY <2>2, <3>2, <3>3, <3>4
  <2>4. \A u \in DOMAIN ns : u # path => ns[u] # n
    <3>1. \A t, u \in DOMAIN ns : t # u /\ ns[t] # 0 => ns[t] # ns[u]
      BY DEF DiskFits
    <3>. QED
      BY <1>3, <2>1, <3>1
  <2>5. fs2[n] = Empty
    BY <1>1, <2>2
  <2>6. Len(fs) <= Len(fs2) /\ opened \in 1 .. Len(fs2) /\ ns2[path] = opened
    BY <1>1, <2>1, <2>2, <2>3
  <2>7. \A u \in DOMAIN ns : u # path => ns2[u] = ns[u] /\ Found(ns2, fs2, u) = Found(ns, fs, u)
    BY <2>2, <2>3, <2>4
  <2>. QED
    BY <2>1, <2>2, <2>3, <2>5, <2>6, <2>7
<1>4. CASE ns[path] = 0
  <2>1. fs2 = Append(fs, Empty) /\ ns2 = [ns EXCEPT ![path] = L + 1] /\ opened = L + 1
    BY <1>1, <1>4 DEF Truncated
  <2>2. PICK X : fs \in Seq(X)
    BY DEF DiskFits
  <2>3. /\ fs2 \in Seq(X \cup {Empty}) /\ Len(fs2) = L + 1 /\ DOMAIN fs2 = 1 .. L + 1
        /\ fs2[L + 1] = Empty /\ \A n \in 1 .. L : fs2[n] = fs[n]
    BY <1>1, <2>1, <2>2, Longer
  <2>4. ns2 \in [DOMAIN ns -> 0 .. L + 1] /\ DOMAIN ns2 = DOMAIN ns
    <3>1. ns \in [DOMAIN ns -> 0 .. L]
      BY <1>1 DEF DiskFits
    <3>. QED
      BY <1>1, <2>1, <3>1
  <2>5. ns2[path] = L + 1 /\ \A u \in DOMAIN ns : u # path => ns2[u] = ns[u]
    BY <2>1
  <2>6. \A u \in DOMAIN ns : u # path => Found(ns2, fs2, u) = Found(ns, fs, u)
    BY <1>1, <1>2, <2>3, <2>5 DEF Found
  <2>7. DiskFits(ns2, fs2)
    <3>1. fs2 \in Seq({fs2[n] : n \in DOMAIN fs2})
      <4>1. PICK Y : Y = {fs2[n] : n \in DOMAIN fs2}
        OBVIOUS
      <4>2. \A n \in 1 .. L + 1 : fs2[n] \in Y
        BY <2>3, <4>1
      <4>3. fs2 \in [1 .. L + 1 -> Y]
        BY <2>3, <4>2
      <4>4. L + 1 \in Nat
        OBVIOUS
      <4>5. fs2 \in Seq(Y)
        BY <4>3, <4>4, IsSequence
      <4>. QED
        BY <4>1, <4>5
    <3>2. \A t, u \in DOMAIN ns2 : t # u /\ ns2[t] # 0 => ns2[t] # ns2[u]
      <4>1. \A t, u \in DOMAIN ns : t # u /\ ns[t] # 0 => ns[t] # ns[u]
        BY DEF DiskFits
      <4>2. \A u \in DOMAIN ns : ns[u] # L + 1
        BY <1>1, <1>2
      <4>3. L + 1 # 0
        OBVIOUS
      <4>. QED
        BY <2>4, <2>5, <4>1, <4>2, <4>3
    <3>3. \A n \in DOMAIN fs2 : Fine(fs2[n])
      <4>1. \A n \in 1 .. L : Fine(fs[n])
        BY <1>1 DEF DiskFits
      <4>2. \A n \in 1 .. L + 1 : n \in 1 .. L \/ n = L + 1
        BY <1>1
      <4>. QED
        BY <1>0, <2>3, <4>1, <4>2
    <3>4. \A job \in Jobs : \A place \in {job.source, job.target} :
            place[1] = "path" => place[2] \in DOMAIN ns2
      BY <2>4 DEF DiskFits
    <3>. QED
      BY <2>3, <2>4, <3>1, <3>2, <3>3, <3>4 DEF DiskFits
  <2>8. L <= L + 1 /\ L + 1 \in 1 .. L + 1
    OBVIOUS
  <2>. QED
    BY <1>1, <2>1, <2>3, <2>4, <2>5, <2>6, <2>7, <2>8
<1>. QED
  BY <1>3, <1>4

\* The file that is opened for writing is the one that the user means, and free to be replaced
\* as far as the command has seen.
LEMMA OpensTarget ==
  ASSUME NEW ns, NEW fs, NEW c, NEW k \in {"open", "open_copy", "move"}, Runs(c, k, ns, fs)
  PROVE  /\ TargetNow(c) \in DOMAIN ns /\ c.job.op # "list"
         /\ Clean(c) => TargetNow(c) = MeantTarget(c)
         /\ c.job.op \notin {"add", "unbind", "example"} => LookedAtTarget(c, ns)
<1>1. c.job.op \in Ops /\ Stage(c, k, ns, fs) /\ \E k2 : Follows(c.job.op, k, k2)
  <2>1. PICK L : L = Len(Program(c.job.op))
    OBVIOUS
  <2>2. PICK k2 : k2 = IF c.at = L THEN "none" ELSE Program(c.job.op)[c.at + 1]
    OBVIOUS
  <2>3. Follows(c.job.op, k, k2)
    BY <2>1, <2>2, RunFacts, Order
  <2>. QED
    BY <2>3, RunFacts
<1>2. c.job.op # "list"
  BY <1>1 DEF Follows
<1>3. c.job.op \notin {"add", "unbind", "example"} => LookedAtTarget(c, ns)
  BY <1>1 DEF Stage, Looked
<1>4. CASE c.job.target[1] # "package"
  BY <1>2, <1>3, <1>4, Places
<1>5. CASE c.job.target[1] = "package"
  <2>1. c.job.op = "import" /\ TargetNow(c) = <<c.job.registry, c.held.package>>
    BY <1>2, <1>5, Places
  <2>2. k = "open"
    BY <1>1, <2>1 DEF Follows
  <2>3. HoldsSource(c)
    BY <1>1, <2>1, <2>2 DEF Stage
  <2>4. TargetNow(c) \in DOMAIN ns
    BY <1>3, <2>1 DEF LookedAtTarget
  <2>5. ASSUME Clean(c)
        PROVE  TargetNow(c) = MeantTarget(c)
    <3>1. PICK s : s = Meant(c.job, c.job.source)
      OBVIOUS
    <3>2. c.held = c.before[s] /\ IsProfile(c.before[s])
      BY <2>3, <2>5, <3>1 DEF HoldsSource, Clean
    <3>3. MeantTarget(c) = <<c.job.registry, c.before[s].package>>
      BY <1>5, <3>1, <3>2 DEF MeantTarget
    <3>. QED
      BY <2>1, <3>2, <3>3
  <2>. QED
    BY <1>2, <1>3, <2>4, <2>5
<1>. QED
  BY <1>4, <1>5

\* A file that was opened for writing is the target, and empty.
LEMMA OpenFits ==
  ASSUME NEW ns, NEW fs, NEW c, NEW k \in {"open", "open_copy"}, Runs(c, k, ns, fs), NEW d,
         Advanced(c, d), d.held = c.held, d.size = c.size, NEW ns2, NEW fs2,
         Truncated(ns, fs, TargetNow(c), ns2, fs2),
         d.file = IF ns[TargetNow(c)] # 0 THEN ns[TargetNow(c)] ELSE Len(fs) + 1,
         d.from = IF k = "open" THEN c.from ELSE ns[SourceNow(c)],
         k = "open_copy" => ns[SourceNow(c)] # 0
  PROVE  CommandFits(d, ns2, fs2)
<1>1. d.job = c.job /\ d.before = c.before /\ d.disturbed = c.disturbed
  BY DEF Advanced, Keeps
<1>2. /\ Follows(c.job.op, k, CallNow(d)) /\ c.job.op \in Ops /\ Stage(c, k, ns, fs)
      /\ DiskFits(ns, fs) /\ k # "none"
  BY NextCall, RunFacts DEF Runs
<1>3. PICK k2, op : k2 = CallNow(d) /\ op = c.job.op
  OBVIOUS
<1>4. \/ k = "open" /\ k2 = "write"
      \/ k = "open_copy" /\ k2 = "copy" /\ op \in {"export", "duplicate"}
  BY <1>2, <1>3 DEF Follows, Ops
<1>5. PICK T \in DOMAIN ns : T = TargetNow(c)
  BY OpensTarget
<1>6. PICK opened : opened = d.file
  OBVIOUS
<1>7. /\ DiskFits(ns2, fs2) /\ DOMAIN ns2 = DOMAIN ns /\ Len(fs) <= Len(fs2)
      /\ opened \in 1 .. Len(fs2) /\ ns2[T] = opened /\ fs2[opened] = Empty
      /\ \A u \in DOMAIN ns : u # T => ns2[u] = ns[u] /\ Found(ns2, fs2, u) = Found(ns, fs, u)
  <2>1. Truncated(ns, fs, T, ns2, fs2) /\ opened = IF ns[T] # 0 THEN ns[T] ELSE Len(fs) + 1
    BY <1>5, <1>6
  <2>. QED
    BY <1>2, <2>1, CreatedFile
<1>8. Sees(c, ns, fs) /\ c.from = 0
  BY <1>2, <1>4 DEF Stage, Writing
<1>9. op # "list" /\ SourceNow(c) = Meant(c.job, c.job.source) /\ SourceNow(c) \in DOMAIN ns
  BY <1>3, OpensTarget, Places
<1>10. MeantTarget(d) = MeantTarget(c)
  BY <1>1 DEF MeantTarget
<1>11. WritesTarget(d, k2, ns2, fs2)
  <2>1. d.from \in 0 .. Len(fs2) /\ (k2 = "copy" => d.from # 0)
    <3>1. Len(fs) \in Nat /\ Len(fs2) \in Nat /\ ns[SourceNow(c)] \in 0 .. Len(fs)
      BY <1>2, <1>7, <1>9 DEF DiskFits
    <3>. QED
      BY <1>4, <1>7, <1>8, <3>1
  <2>2. ASSUME Clean(d)
        PROVE  /\ MeantTarget(d) \in DOMAIN ns2 /\ ns2[MeantTarget(d)] = d.file /\ fs2[d.file] = Empty
               /\ \A u \in DOMAIN ns2 : u \notin d.disturbed /\ u # MeantTarget(d) =>
                    Found(ns2, fs2, u) = d.before[u]
               /\ k2 = "copy" => SourceNow(c) \in DOMAIN ns2 /\ ns2[SourceNow(c)] = d.from
    <3>1. Clean(c)
      BY <1>1, <1>10, <2>2 DEF Clean
    <3>2. MeantTarget(d) = T
      BY <1>5, <1>10, <3>1, OpensTarget
    <3>3. \A u \in DOMAIN ns : u \notin d.disturbed => Found(ns, fs, u) = d.before[u]
      BY <1>1, <1>8 DEF Sees
    <3>4. k2 = "copy" => ns2[SourceNow(c)] = d.from
      <4>1. CASE SourceNow(c) = T
        BY <1>4, <1>5, <1>6, <1>7, <4>1
      <4>2. CASE SourceNow(c) # T
        BY <1>4, <1>7, <1>9, <4>2
      <4>. QED
        BY <4>1, <4>2
    <3>. QED
      BY <1>5, <1>6, <1>7, <1>9, <3>2, <3>3, <3>4
  <2>. QED
    BY <1>1, <1>6, <1>7, <1>9, <2>1, <2>2 DEF WritesTarget
<1>12. k2 = "write" => Ready(d)
  <2>1. k2 = "write" => Ready(c)
    BY <1>2, <1>4 DEF Stage
  <2>2. Wanted(d) = Wanted(c)
    BY <1>1, <1>10 DEF Wanted
  <2>3. Clean(d) => Clean(c)
    BY <1>1, <1>10 DEF Clean
  <2>. QED
    BY <2>1, <2>2, <2>3 DEF Ready
<1>13. ~Looked(op, k2) /\ k2 \in Writing /\ k2 \notin {"none", "open", "edit", "fit", "absent", "load"}
  BY <1>4 DEF Looked, Writing
<1>14. Stage(d, k2, ns2, fs2)
  BY <1>1, <1>3, <1>9, <1>11, <1>12, <1>13 DEF Stage
<1>. QED
  BY <1>3, <1>7, <1>14, AdvanceFits

\* A file that was written to its end holds what was promised.
LEMMA WriteFits ==
  ASSUME NEW ns, NEW fs, NEW c, NEW k \in Writing, Runs(c, k, ns, fs), NEW d,
         Advanced(c, d), d.size = c.size, d.file = c.file,
         NEW content, content = IF k = "write" THEN c.held ELSE fs[c.from],
         NEW left, left = content \/ (fs[c.file] # Empty /\ left = Scrap)
  PROVE  /\ c.file \in 1 .. Len(fs) /\ Fine(left)
         /\ CommandFits(d, ns, [fs EXCEPT ![c.file] = left])
<1>1. d.job = c.job /\ d.before = c.before /\ d.disturbed = c.disturbed
  BY DEF Advanced, Keeps
<1>2. /\ Follows(c.job.op, k, CallNow(d)) /\ c.job.op \in Ops /\ Stage(c, k, ns, fs)
      /\ DiskFits(ns, fs) /\ (d.done <=> CallNow(d) = "none") /\ DOMAIN c.before = DOMAIN ns
  <2>1. Follows(c.job.op, k, CallNow(d)) /\ c.job.op \in Ops /\ (d.done <=> CallNow(d) = "none")
    BY NextCall
  <2>2. Stage(c, k, ns, fs) /\ DOMAIN c.before = DOMAIN ns
    BY RunFacts
  <2>. QED
    BY <2>1, <2>2 DEF Runs
<1>3. PICK k2, op : k2 = CallNow(d) /\ op = c.job.op
  OBVIOUS
<1>4. k2 = "none" /\ op \in Writers /\ (k = "write" <=> op \notin {"export", "duplicate"})
  BY <1>2, <1>3 DEF Follows, Ops, Writers, Writing
<1>5. WritesTarget(c, k, ns, fs)
  BY <1>2 DEF Stage
<1>6. PICK opened \in 1 .. Len(fs) : opened = c.file
  BY <1>5 DEF WritesTarget
<1>7. k = "write" => Ready(c)
  BY <1>2 DEF Stage
<1>8. Fine(left)
  <2>1. Fine(Scrap)
    BY DEF Fine, IsProfile
  <2>2. k = "write" => Fine(content)
    BY <1>7 DEF Ready, Good, Fine
  <2>3. k = "copy" => Fine(content)
    <3>1. k = "copy" => c.from \in 1 .. Len(fs) /\ content = fs[c.from]
      <4>1. Len(fs) \in Nat
        BY <1>2 DEF DiskFits
      <4>. QED
        BY <1>5, <4>1 DEF WritesTarget
    <3>2. DOMAIN fs = 1 .. Len(fs) /\ \A n \in DOMAIN fs : Fine(fs[n])
      BY <1>2 DEF DiskFits
    <3>. QED
      BY <3>1, <3>2
  <2>. QED
    BY <2>1, <2>2, <2>3 DEF Writing
<1>9. PICK fs2 : fs2 = [fs EXCEPT ![opened] = left]
  OBVIOUS
<1>10. \A t \in DOMAIN ns : Found(ns, fs2, t) = IF ns[t] = opened THEN left ELSE Found(ns, fs, t)
  <2>1. \A t \in DOMAIN ns :
          Found(ns, [fs EXCEPT ![opened] = left], t) = IF ns[t] = opened THEN left ELSE Found(ns, fs, t)
    BY <1>2, <1>8, Rewritten
  <2>. QED
    BY <1>9, <2>1
<1>11. PICK m, s : m = MeantTarget(c) /\ s = Meant(c.job, c.job.source)
  OBVIOUS
<1>12. ASSUME Clean(c)
       PROVE  /\ m \in DOMAIN ns /\ ns[m] = opened /\ fs[opened] = Empty
              /\ \A u \in DOMAIN ns : u \notin c.disturbed /\ u # m => Found(ns, fs, u) = c.before[u]
              /\ k = "copy" => s \in DOMAIN ns /\ ns[s] = c.from
  BY <1>5, <1>6, <1>11, <1>12 DEF WritesTarget
<1>13. ASSUME Clean(c)
       PROVE  left = Wanted(c)
  <2>1. left = content
    BY <1>6, <1>12, <1>13
  <2>2. CASE k = "write"
    BY <1>7, <1>13, <2>1, <2>2 DEF Ready
  <2>3. CASE k = "copy"
    <3>1. op \in {"export", "duplicate"} /\ content = fs[c.from]
      BY <1>4, <2>3
    <3>2. Wanted(c) = IF s = m THEN Empty ELSE c.before[s]
      BY <1>3, <1>11, <3>1 DEF Wanted
    <3>3. s \in DOMAIN ns /\ ns[s] = c.from /\ c.from # 0
      BY <1>5, <1>12, <1>13, <2>3 DEF WritesTarget
    <3>4. Found(ns, fs, s) = content
      BY <3>1, <3>3 DEF Found
    <3>5. CASE s = m
      <4>1. Found(ns, fs, s) = Empty
        BY <1>12, <1>13, <3>3, <3>5 DEF Found
      <4>. QED
        BY <2>1, <3>2, <3>4, <3>5, <4>1
    <3>6. CASE s # m
      <4>1. s \notin c.disturbed
        BY <1>11, <1>13 DEF Clean
      <4>2. Found(ns, fs, s) = c.before[s]
        BY <1>12, <1>13, <3>3, <3>6, <4>1
      <4>. QED
        BY <2>1, <3>2, <3>4, <3>6, <4>2
    <3>. QED
      BY <3>5, <3>6
  <2>. QED
    BY <2>2, <2>3 DEF Writing
<1>14. Over(d, ns, fs2)
  <2>. SUFFICES ASSUME Clean(d), NEW t \in DOMAIN ns, t \notin d.disturbed
                PROVE  Found(ns, fs2, t) = Promised(d)[t] /\ d.done
    BY DEF Over
  <2>1. MeantTarget(d) = m
    BY <1>1, <1>11 DEF MeantTarget
  <2>2. Clean(c)
    BY <1>1, <1>11, <2>1 DEF Clean
  <2>3. Wanted(d) = left
    <3>1. Wanted(d) = Wanted(c)
      BY <1>1, <1>11, <2>1 DEF Wanted
    <3>. QED
      BY <1>13, <2>2, <3>1
  <2>4. Promised(d) = [c.before EXCEPT ![m] = left]
    BY <1>1, <1>3, <1>4, <2>1, <2>3, Promises
  <2>5. CASE t = m
    BY <1>2, <1>10, <1>12, <1>3, <1>4, <2>2, <2>4, <2>5
  <2>6. CASE t # m
    <3>1. ns[t] # opened
      <4>1. \A u, v \in DOMAIN ns : u # v /\ ns[u] # 0 => ns[u] # ns[v]
        BY <1>2 DEF DiskFits
      <4>2. opened # 0
        OBVIOUS
      <4>. QED
        BY <1>12, <2>2, <2>6, <4>1, <4>2
    <3>. QED
      BY <1>1, <1>2, <1>3, <1>4, <1>10, <1>12, <2>2, <2>4, <2>6, <3>1
  <2>. QED
    BY <2>5, <2>6
<1>15. Stage(d, "none", ns, fs2)
  <2>1. d.job.op # "list" /\ ~Looked(d.job.op, "none")
    BY <1>1, <1>3, <1>4 DEF Writers, Looked
  <2>. QED
    BY <1>14, <2>1 DEF Stage, Writing
<1>16. CommandFits(d, ns, fs2)
  BY <1>3, <1>4, <1>15, AdvanceFits
<1>. QED
  BY <1>6, <1>8, <1>9, <1>16

\* A profile that was removed is gone, and the others are there.
LEMMA UnlinkFits ==
  ASSUME NEW ns, NEW fs, NEW c, Runs(c, "unlink", ns, fs), NEW d, Advanced(c, d)
  PROVE  CommandFits(d, [ns EXCEPT ![SourceNow(c)] = 0], fs)
<1>1. d.job = c.job /\ d.before = c.before /\ d.disturbed = c.disturbed
  BY DEF Advanced, Keeps
<1>2. /\ Follows(c.job.op, "unlink", CallNow(d)) /\ c.job.op \in Ops
      /\ (d.done <=> CallNow(d) = "none")
  BY NextCall
<1>3. Stage(c, "unlink", ns, fs) /\ DOMAIN c.before = DOMAIN ns
  BY RunFacts
<1>4. c.job.op = "remove" /\ CallNow(d) = "none" /\ d.done
  BY <1>2 DEF Follows, Ops
<1>5. Sees(c, ns, fs)
  BY <1>3 DEF Stage, Writing
<1>6. PICK s \in DOMAIN ns : s = SourceNow(c) /\ s = Meant(c.job, c.job.source)
  BY <1>4, Places
<1>7. PICK ns2 : ns2 = [ns EXCEPT ![s] = 0]
  OBVIOUS
<1>8. Over(d, ns2, fs)
  <2>. SUFFICES ASSUME NEW t \in DOMAIN ns2, t \notin d.disturbed
                PROVE  Found(ns2, fs, t) = Promised(d)[t] /\ d.done
    BY DEF Over
  <2>1. Promised(d) = [c.before EXCEPT ![s] = NoEntry]
    BY <1>1, <1>4, <1>6, Promises
  <2>2. t \in DOMAIN ns /\ ns2[t] = IF t = s THEN 0 ELSE ns[t]
    BY <1>7
  <2>3. Found(ns2, fs, t) = IF t = s THEN NoEntry ELSE Found(ns, fs, t)
    BY <2>2 DEF Found
  <2>4. Found(ns, fs, t) = c.before[t]
    BY <1>1, <1>5, <2>2 DEF Sees
  <2>. QED
    BY <1>3, <1>4, <2>1, <2>2, <2>3, <2>4
<1>9. Stage(d, "none", ns2, fs)
  BY <1>1, <1>4, <1>8 DEF Stage, Writing, Looked
<1>10. DOMAIN ns2 = DOMAIN ns
  BY <1>7
<1>. QED
  BY <1>4, <1>6, <1>7, <1>9, <1>10, AdvanceFits

\* A profile that was renamed is at its new place.
LEMMA MoveFits ==
  ASSUME NEW ns, NEW fs, NEW c, Runs(c, "move", ns, fs), NEW d, Advanced(c, d), NEW ns2,
         ns[SourceNow(c)] # 0,
         ns2 = [ns EXCEPT ![SourceNow(c)] = 0, ![TargetNow(c)] = ns[SourceNow(c)]]
  PROVE  CommandFits(d, ns2, fs) /\ DiskFits(ns2, fs) /\ DOMAIN ns2 = DOMAIN ns
<1>1. d.job = c.job /\ d.before = c.before /\ d.disturbed = c.disturbed
  BY DEF Advanced, Keeps
<1>2. /\ Follows(c.job.op, "move", CallNow(d)) /\ c.job.op \in Ops
      /\ (d.done <=> CallNow(d) = "none") /\ DiskFits(ns, fs)
  BY NextCall DEF Runs
<1>3. Stage(c, "move", ns, fs) /\ DOMAIN c.before = DOMAIN ns
  BY RunFacts
<1>4. c.job.op = "rename" /\ CallNow(d) = "none" /\ d.done
  BY <1>2 DEF Follows, Ops
<1>5. Sees(c, ns, fs)
  BY <1>3 DEF Stage, Writing
<1>6. PICK s \in DOMAIN ns : s = SourceNow(c) /\ s = Meant(c.job, c.job.source)
  BY <1>4, Places
<1>7. PICK m \in DOMAIN ns : m = TargetNow(c) /\ m = MeantTarget(c)
  BY <1>4, Places
<1>8. ns2 = [ns EXCEPT ![s] = 0, ![m] = ns[s]] /\ ns[s] # 0
  BY <1>6, <1>7
<1>9. /\ DOMAIN ns2 = DOMAIN ns
      /\ \A t \in DOMAIN ns : ns2[t] = CASE t = m -> ns[s] [] t # m /\ t = s -> 0 [] OTHER -> ns[t]
  BY <1>8
<1>10. MeantTarget(d) = m /\ Meant(d.job, d.job.source) = s
  BY <1>1, <1>6, <1>7 DEF MeantTarget
<1>11. Over(d, ns2, fs)
  <2>. SUFFICES ASSUME Clean(d), NEW t \in DOMAIN ns, t \notin d.disturbed
                PROVE  Found(ns2, fs, t) = Promised(d)[t] /\ d.done
    BY <1>9 DEF Over
  <2>1. Promised(d) = [c.before EXCEPT ![s] = NoEntry, ![m] = c.before[s]]
    BY <1>1, <1>4, <1>10, Promises
  <2>2. s \notin c.disturbed
    BY <1>1, <1>10 DEF Clean
  <2>3. Found(ns, fs, t) = c.before[t] /\ Found(ns, fs, s) = c.before[s]
    BY <1>1, <1>5, <2>2 DEF Sees
  <2>4. CASE t = m
    BY <1>3, <1>4, <1>9, <2>1, <2>3, <2>4 DEF Found
  <2>5. CASE t # m /\ t = s
    BY <1>3, <1>4, <1>9, <2>1, <2>3, <2>5 DEF Found
  <2>6. CASE t # m /\ t # s
    BY <1>3, <1>4, <1>9, <2>1, <2>3, <2>6 DEF Found
  <2>. QED
    BY <2>4, <2>5, <2>6
<1>12. Stage(d, "none", ns2, fs)
  BY <1>1, <1>4, <1>11 DEF Stage, Writing, Looked
<1>13. CommandFits(d, ns2, fs)
  BY <1>4, <1>9, <1>12, AdvanceFits
<1>14. DiskFits(ns2, fs)
  <2>1. PICK L \in Nat : L = Len(fs)
    BY <1>2 DEF DiskFits
  <2>2. ns \in [DOMAIN ns -> 0 .. L] /\ \A t, u \in DOMAIN ns : t # u /\ ns[t] # 0 => ns[t] # ns[u]
    BY <1>2, <2>1 DEF DiskFits
  <2>3. ns2 \in [DOMAIN ns2 -> 0 .. L]
    BY <1>8, <2>2
  <2>4. \A t, u \in DOMAIN ns2 : t # u /\ ns2[t] # 0 => ns2[t] # ns2[u]
    BY <1>8, <1>9, <2>2
  <2>. QED
    BY <1>2, <1>9, <2>1, <2>3, <2>4 DEF DiskFits
<1>. QED
  BY <1>9, <1>13, <1>14

\* The names that a listing reads are those in the user's registry.
LEMMA EntriesFits ==
  ASSUME NEW ns, NEW fs, NEW c, Runs(c, "entries", ns, fs), NEW d, Advanced(c, d),
         d.file = c.file, d.from = c.from, d.listed = c.listed,
         d.entries = {t \in DOMAIN ns : t[1] = RegistryDir(c.job.env) /\ ns[t] # 0}
  PROVE  CommandFits(d, ns, fs)
<1>1. d.job = c.job /\ d.before = c.before /\ d.disturbed = c.disturbed
  BY DEF Advanced, Keeps
<1>2. Follows(c.job.op, "entries", CallNow(d)) /\ c.job.op \in Ops
  BY NextCall
<1>3. Stage(c, "entries", ns, fs) /\ CallNow(d) = "look" /\ c.job.op = "list"
  BY <1>2, RunFacts DEF Follows, Ops
<1>4. c.file = 0 /\ c.from = 0 /\ Sees(c, ns, fs) /\ c.listed = {}
  BY <1>3 DEF Stage, Writing, Lists
<1>5. RegistryDir(c.job.env) = c.job.registry
  BY <1>3, Places
<1>6. Lists(d, "look", ns)
  <2>1. \A t \in DOMAIN ns : t \notin c.disturbed /\ Valid1(c.before[t]) => ns[t] # 0
    BY <1>4 DEF Sees, Found, Valid1, IsProfile
  <2>. QED
    BY <1>1, <1>4, <1>5, <2>1 DEF Lists
<1>7. Sees(d, ns, fs) /\ d.file = 0 /\ d.from = 0
  BY <1>1, <1>4 DEF Sees
<1>8. Stage(d, "look", ns, fs)
  BY <1>1, <1>3, <1>6, <1>7 DEF Stage, Writing, Looked, Scales
<1>. QED
  BY <1>3, <1>8, AdvanceFits

\* A listing has looked at every name when it ends.
LEMMA GlanceFits ==
  ASSUME NEW ns, NEW fs, NEW c, Runs(c, "look", ns, fs), NEW d
  PROVE  /\ Advanced(c, d) /\ c.entries = {} /\ d.listed = c.listed => CommandFits(d, ns, fs)
         /\ \A t \in c.entries :
              /\ Keeps(c, d) /\ d.at = c.at /\ d.done = c.done /\ d.file = c.file /\ d.from = c.from
              /\ d.entries = c.entries \ {t}
              /\ d.listed = IF Valid1(Found(ns, fs, t)) THEN c.listed \cup {t} ELSE c.listed
              => CommandFits(d, ns, fs)
<1>1. /\ c.job.op \in Ops /\ Stage(c, "look", ns, fs) /\ c.job \in Jobs /\ DOMAIN c.before = DOMAIN ns
      /\ c.done = FALSE /\ Placed(c, ns)
  BY RunFacts
<1>2. \E k2 : Follows(c.job.op, "look", k2)
  <2>1. PICK L : L = Len(Program(c.job.op))
    OBVIOUS
  <2>2. PICK k2 : k2 = IF c.at = L THEN "none" ELSE Program(c.job.op)[c.at + 1]
    OBVIOUS
  <2>3. Follows(c.job.op, "look", k2)
    BY <2>1, <2>2, RunFacts, Order
  <2>. QED
    BY <2>3
<1>3. c.job.op = "list"
  BY <1>1, <1>2 DEF Follows, Ops
<1>4. c.file = 0 /\ c.from = 0 /\ Sees(c, ns, fs) /\ Lists(c, "look", ns)
  BY <1>1, <1>3 DEF Stage, Writing
<1>5. ASSUME Advanced(c, d), c.entries = {}, d.listed = c.listed
      PROVE  CommandFits(d, ns, fs)
  <2>1. d.job = c.job /\ d.before = c.before /\ d.disturbed = c.disturbed
    BY <1>5 DEF Advanced, Keeps
  <2>2. CallNow(d) = "none"
    <3>1. Follows(c.job.op, "look", CallNow(d))
      BY <1>5, NextCall
    <3>. QED
      BY <1>3, <3>1 DEF Follows
  <2>3. Lists(d, "none", ns)
    BY <1>4, <1>5, <2>1 DEF Lists
  <2>4. Stage(d, "none", ns, fs)
    BY <1>3, <2>1, <2>3 DEF Stage, Writing, Looked, Scales
  <2>. QED
    BY <1>5, <2>2, <2>4, AdvanceFits
<1>6. ASSUME NEW t \in c.entries, Keeps(c, d), d.at = c.at, d.done = c.done,
             d.file = c.file, d.from = c.from, d.entries = c.entries \ {t},
             d.listed = IF Valid1(Found(ns, fs, t)) THEN c.listed \cup {t} ELSE c.listed
      PROVE  CommandFits(d, ns, fs)
  <2>1. CommandShape(d) /\ d.job = c.job /\ d.before = c.before /\ d.disturbed = c.disturbed
    BY <1>6 DEF Keeps
  <2>2. CallNow(d) = "look"
    BY <1>6, <2>1 DEF CallNow, Runs
  <2>3. t \in DOMAIN ns /\ t \notin c.disturbed =>
          Found(ns, fs, t) = c.before[t] /\ t[1] = c.job.registry
    BY <1>4, <1>6 DEF Sees, Lists
  <2>4. Lists(d, "look", ns)
    BY <1>4, <1>6, <2>1, <2>3 DEF Lists
  <2>5. Sees(d, ns, fs)
    BY <1>4, <2>1 DEF Sees
  <2>6. Stage(d, "look", ns, fs)
    BY <1>3, <1>4, <1>6, <2>1, <2>4, <2>5 DEF Stage, Writing, Looked, Scales
  <2>7. d.at \in 0 .. Len(Program(d.job.op)) /\ Placed(d, ns)
    BY <1>1, <1>6, <2>1 DEF Placed, Runs, CommandFits
  <2>8. \A u \in DOMAIN ns : IsProfile(d.before[u]) => d.before[u] \in Profiles1
    BY <2>1 DEF Runs, CommandFits
  <2>. QED
    BY <1>1, <1>6, <2>1, <2>2, <2>6, <2>7, <2>8 DEF CommandFits
<1>. QED
  BY <1>5, <1>6

\* A command that starts, field by field.
LEMMA StartedFields ==
  ASSUME NEW job, NEW size, NEW at, NEW before, NEW d,
         d = [NotStarted EXCEPT !.job = job, !.size = size, !.at = at, !.before = before]
  PROVE  d = [job |-> job, at |-> at, done |-> FALSE, held |-> NoEntry,
           size |-> size, file |-> 0, from |-> 0, entries |-> {}, listed |-> {},
           unfit |-> FALSE, before |-> before, disturbed |-> {}]
BY DEF NotStarted

\* A command that starts has done nothing.
LEMMA Started ==
  ASSUME NEW job, NEW size \in Points1, NEW at \in Nat, NEW before, NEW d,
         d = [job |-> job, at |-> at, done |-> FALSE, held |-> NoEntry,
           size |-> size, file |-> 0, from |-> 0, entries |-> {}, listed |-> {},
           unfit |-> FALSE, before |-> before, disturbed |-> {}]
  PROVE  /\ CommandShape(d) /\ d.done = FALSE
         /\ d.job = job /\ d.at = at /\ d.file = 0 /\ d.from = 0 /\ d.listed = {} /\ d.before = before
         /\ d.disturbed = {}
<1>1. /\ d.job = job /\ d.at = at /\ d.file = 0 /\ d.from = 0 /\ d.listed = {} /\ d.before = before
      /\ d.disturbed = {} /\ d.size = size
  OBVIOUS
<1>2. d.unfit = FALSE /\ d.done = FALSE
  OBVIOUS
<1>3. CommandShape(d)
  BY <1>1, <1>2 DEF CommandShape
<1>. QED
  BY <1>1, <1>2, <1>3

\* A command that starts finds the disk as it is.
LEMMA StartFits ==
  ASSUME RegistryConstants, NEW ns, NEW fs, DiskFits(ns, fs), NEW job \in Jobs, NEW good \in BOOLEAN,
         good => \A place \in {job.source, job.target} :
                   /\ place[1] \in {"id", "package", "registry"} => RegistryDir(job.env) # NoWhere
                   /\ place[1] = "id" => PathOf(job, place) \in DOMAIN ns,
         NEW before, before = [t \in DOMAIN ns |-> Found(ns, fs, t)],
         NEW at, at = IF good THEN 1 ELSE 0,
         NEW d, CommandShape(d), d.done = FALSE, d.job = job, d.at = at, d.file = 0, d.from = 0,
         d.listed = {}, d.before = before, d.disturbed = {}
  PROVE  CommandFits(d, ns, fs)
<1>1. JobIsFormed(job)
  BY DEF RegistryConstants
<1>2. /\ job.op \in Ops /\ job.size \in Points1
      /\ job.source[1] \in (IF job.op = "list" THEN {"registry"} ELSE {"id", "path"})
      /\ job.op = "list" => job.target[1] = "registry"
      /\ job.op \notin {"list", "import"} => job.target[1] \in {"id", "path"}
      /\ job.op = "import" => job.target[1] \in {"id", "path", "package"}
      /\ RegistryDir(job.env) # NoWhere => job.registry = RegistryDir(job.env)
  BY <1>1 DEF JobIsFormed
<1>6. Sees(d, ns, fs) /\ DOMAIN d.before = DOMAIN ns
  BY DEF Sees
<1>7. \A t \in DOMAIN ns : IsProfile(d.before[t]) => d.before[t] \in Profiles1
  <2>. SUFFICES ASSUME NEW t \in DOMAIN ns, IsProfile(d.before[t])
                PROVE  d.before[t] \in Profiles1
    OBVIOUS
  <2>1. d.before[t] = Found(ns, fs, t)
    OBVIOUS
  <2>2. ns[t] # 0 /\ d.before[t] = fs[ns[t]]
    BY <2>1 DEF Found, IsProfile
  <2>3. ns[t] \in DOMAIN fs
    BY <2>2 DEF DiskFits
  <2>4. Fine(d.before[t])
    BY <2>2, <2>3 DEF DiskFits
  <2>. QED
    BY <2>4 DEF Fine
<1>8. good => Placed(d, ns)
  <2>. SUFFICES ASSUME good
                PROVE  Placed(d, ns)
    OBVIOUS
  <2>1. RegistryDir(job.env) # NoWhere \/ (job.source[1] = "path" /\ job.target[1] = "path")
    BY <1>2
  <2>2. \A place \in {job.source, job.target} :
          place[1] \in {"id", "path"} => Meant(job, place) \in DOMAIN ns
    <3>. SUFFICES ASSUME NEW place \in {job.source, job.target}, place[1] \in {"id", "path"}
                  PROVE  Meant(job, place) \in DOMAIN ns
      OBVIOUS
    <3>1. CASE place[1] = "path"
      BY <3>1 DEF Meant, DiskFits
    <3>2. CASE place[1] = "id"
      BY <1>2, <3>2 DEF Meant, PathOf
    <3>. QED
      BY <3>1, <3>2
  <2>3. d.job = job
    OBVIOUS
  <2>. QED
    BY <1>2, <2>1, <2>2, <2>3 DEF Placed
<1>9. d.at \in 0 .. Len(Program(d.job.op)) /\ d.done = FALSE
  <2>1. Len(Program(job.op)) \in Nat \ {0}
    BY <1>2, First
  <2>. QED
    BY <2>1
<1>10. Stage(d, CallNow(d), ns, fs)
  <2>1. PICK k : k = CallNow(d)
    OBVIOUS
  <2>2. k = IF good THEN Program(job.op)[1] ELSE "none"
    BY <2>1 DEF CallNow
  <2>3. /\ d.job = job /\ d.file = 0 /\ d.from = 0 /\ d.listed = {} /\ d.done = FALSE
    OBVIOUS
  <2>4. /\ k \notin Writing /\ k \notin {"open", "write", "edit", "fit"}
        /\ job.op = "import" => k \in {"none", "load"}
        /\ job.op = "list" => k \in {"none", "entries"}
        /\ job.op \in Scales => k \in {"none", "size", "screen"}
        /\ ~Looked(job.op, k)
    BY <1>2, <2>2, First DEF Writing, Looked, Scales
  <2>5. Over(d, ns, fs)
    BY <1>6, <2>3 DEF Over, Sees
  <2>6. job.op = "list" => Lists(d, k, ns)
    BY <2>3, <2>4 DEF Lists
  <2>. QED
    BY <1>6, <2>1, <2>3, <2>4, <2>5, <2>6 DEF Stage
<1>11. d.job = job /\ d.at = (IF good THEN 1 ELSE 0)
  OBVIOUS
<1>12. d.at # 0 => Placed(d, ns)
  BY <1>8, <1>11
<1>. QED
  BY <1>6, <1>7, <1>9, <1>10, <1>11, <1>12 DEF CommandFits

-----------------------------------------------------------------------------
(* Every step keeps the invariant *)

\* A process that is at a call runs.
LEMMA AtACall ==
  ASSUME RegistryConstants, RegistryInv, NEW p \in Processes, NEW k, Call(p) = k, k # "none"
  PROVE  /\ Runs(command[p], k, names, files) /\ CommandShape(command[p])
         /\ SourceOf(p) = SourceNow(command[p]) /\ TargetOf(p) = TargetNow(command[p])
<1>1. CallNow(command[p]) = k
  BY DEF Call, CallNow, Calls
<1>2. command[p].job # NoEntry
  <2>1. command[p].at # 0
    BY DEF Call
  <2>2. NotStarted.at = 0
    BY DEF NotStarted
  <2>. QED
    BY <2>1, <2>2 DEF RegistryInv
<1>3. CommandFits(command[p], names, files) /\ DiskFits(names, files)
  BY DEF RegistryInv
<1>4. CommandShape(command[p])
  BY <1>2, <1>3 DEF CommandFits
<1>5. SourceOf(p) = SourceNow(command[p])
  BY DEF SourceOf, SourceNow
<1>6. TargetOf(p) = TargetNow(command[p])
  BY Zenon DEF TargetOf, TargetNow
<1>. QED
  BY <1>1, <1>2, <1>3, <1>4, <1>5, <1>6 DEF Runs

\* A command that goes one call further.
LEMMA NextFields ==
  ASSUME RegistryConstants, NEW p, NEW k, Runs(command[p], k, names, files)
  PROVE  /\ Advanced(command[p], Next1(p))
         /\ Next1(p).held = command[p].held /\ Next1(p).size = command[p].size
         /\ Next1(p).file = command[p].file /\ Next1(p).from = command[p].from
         /\ Next1(p).entries = command[p].entries /\ Next1(p).listed = command[p].listed
<1>1. PICK c : c = command[p]
  OBVIOUS
<1>2. CommandShape(c)
  BY <1>1, RunFacts
<1>3. PICK L \in Nat : L = Len(Calls(p)) /\ L = Len(Program(c.job.op))
  BY <1>1, RunFacts DEF Calls
<1>4. PICK at \in Nat : at = IF c.at = L THEN 0 ELSE c.at + 1
  BY <1>2 DEF CommandShape
<1>5. PICK done \in BOOLEAN : done = (c.at = L)
  OBVIOUS
<1>6. PICK d : d = [c EXCEPT !.at = at, !.done = done]
  OBVIOUS
<1>7. Next1(p) = d
  BY <1>1, <1>3, <1>4, <1>5, <1>6 DEF Next1
<1>8. CommandShape(d) /\ d.job = c.job /\ d.before = c.before /\ d.disturbed = c.disturbed
  BY <1>2, <1>6 DEF CommandShape
<1>9. d.at = at /\ d.done = done
  BY <1>2, <1>6 DEF CommandShape
<1>10. /\ d.held = c.held /\ d.size = c.size /\ d.file = c.file /\ d.from = c.from
       /\ d.entries = c.entries /\ d.listed = c.listed
  BY <1>2, <1>6 DEF CommandShape
<1>11. d.done = (c.at = L)
  BY <1>5, <1>9
<1>12. Advanced(c, d)
  BY <1>3, <1>4, <1>8, <1>9, <1>11 DEF Advanced, Keeps
<1>. QED
  BY <1>1, <1>7, <1>10, <1>12

\* What a call sets beside that.
LEMMA AlsoSets ==
  ASSUME NEW c, NEW e, Advanced(c, e), NEW x
  PROVE  /\ Advanced(c, [e EXCEPT !.held = x])
         /\ x \in Points1 => Advanced(c, [e EXCEPT !.size = x])
         /\ x \in Nat => Advanced(c, [e EXCEPT !.file = x])
         /\ x \in Nat => \A y \in Nat : Advanced(c, [e EXCEPT !.file = x, !.from = y])
         /\ Advanced(c, [e EXCEPT !.entries = x])
<1>1. CommandShape(e)
  BY DEF Advanced, Keeps
<1>2. ASSUME NEW d, CommandShape(d), d.job = e.job, d.before = e.before, d.disturbed = e.disturbed,
             d.at = e.at, d.done = e.done
      PROVE  Advanced(c, d)
  BY <1>2 DEF Advanced, Keeps
<1>3. PICK d : d = [e EXCEPT !.held = x]
  OBVIOUS
<1>4. /\ CommandShape(d) /\ d.job = e.job /\ d.before = e.before /\ d.disturbed = e.disturbed
      /\ d.at = e.at /\ d.done = e.done
  BY <1>1, <1>3 DEF CommandShape
<1>5. Advanced(c, [e EXCEPT !.held = x])
  BY <1>2, <1>3, <1>4
<1>6. ASSUME x \in Points1
      PROVE  Advanced(c, [e EXCEPT !.size = x])
  <2>1. PICK f : f = [e EXCEPT !.size = x]
    OBVIOUS
  <2>2. /\ CommandShape(f) /\ f.job = e.job /\ f.before = e.before /\ f.disturbed = e.disturbed
        /\ f.at = e.at /\ f.done = e.done
    BY <1>1, <1>6, <2>1 DEF CommandShape
  <2>. QED
    BY <1>2, <2>1, <2>2
<1>7. ASSUME x \in Nat
      PROVE  Advanced(c, [e EXCEPT !.file = x])
  <2>1. PICK f : f = [e EXCEPT !.file = x]
    OBVIOUS
  <2>2. /\ CommandShape(f) /\ f.job = e.job /\ f.before = e.before /\ f.disturbed = e.disturbed
        /\ f.at = e.at /\ f.done = e.done
    BY <1>1, <1>7, <2>1 DEF CommandShape
  <2>. QED
    BY <1>2, <2>1, <2>2
<1>8. ASSUME x \in Nat, NEW y \in Nat
      PROVE  Advanced(c, [e EXCEPT !.file = x, !.from = y])
  <2>1. PICK f : f = [e EXCEPT !.file = x, !.from = y]
    OBVIOUS
  <2>2. /\ CommandShape(f) /\ f.job = e.job /\ f.before = e.before /\ f.disturbed = e.disturbed
        /\ f.at = e.at /\ f.done = e.done
    BY <1>1, <1>8, <2>1 DEF CommandShape
  <2>. QED
    BY <1>2, <2>1, <2>2
<1>9. Advanced(c, [e EXCEPT !.entries = x])
  <2>1. PICK f : f = [e EXCEPT !.entries = x]
    OBVIOUS
  <2>2. /\ CommandShape(f) /\ f.job = e.job /\ f.before = e.before /\ f.disturbed = e.disturbed
        /\ f.at = e.at /\ f.done = e.done
    BY <1>1, <2>1 DEF CommandShape
  <2>. QED
    BY <1>2, <2>1, <2>2
<1>. QED
  BY <1>5, <1>6, <1>7, <1>8, <1>9

\* The fields that a call sets.
LEMMA SetFields ==
  ASSUME NEW e, CommandShape(e), NEW x, NEW y
  PROVE  /\ LET d == [e EXCEPT !.held = x]
            IN  /\ d.held = x /\ d.size = e.size /\ d.file = e.file /\ d.from = e.from
         /\ LET d == [e EXCEPT !.size = x]
            IN  /\ d.held = e.held /\ d.size = x /\ d.file = e.file /\ d.from = e.from
         /\ LET d == [e EXCEPT !.file = x]
            IN  /\ d.held = e.held /\ d.size = e.size /\ d.file = x /\ d.from = e.from
         /\ LET d == [e EXCEPT !.file = x, !.from = y]
            IN  /\ d.held = e.held /\ d.size = e.size /\ d.file = x /\ d.from = y
         /\ LET d == [e EXCEPT !.entries = x]
            IN  /\ d.listed = e.listed /\ d.entries = x /\ d.file = e.file /\ d.from = e.from
BY DEF CommandShape

\* A command that ends before its last call.
LEMMA FailFields ==
  ASSUME NEW p, NEW k, Runs(command[p], k, names, files)
  PROVE  /\ Keeps(command[p], Failed(p)) /\ Failed(p).at = 0 /\ Failed(p).done = FALSE
         /\ Failed(p).file = command[p].file
<1>1. PICK c : c = command[p]
  OBVIOUS
<1>2. CommandShape(c) /\ c.done = FALSE
  BY <1>1, RunFacts
<1>3. PICK d : d = [c EXCEPT !.at = 0]
  OBVIOUS
<1>4. Failed(p) = d
  BY <1>1, <1>3 DEF Failed
<1>5. CommandShape(d) /\ d.job = c.job /\ d.before = c.before /\ d.disturbed = c.disturbed
  BY <1>2, <1>3 DEF CommandShape
<1>6. d.at = 0 /\ d.file = c.file
  BY <1>2, <1>3 DEF CommandShape
<1>7. d.done = FALSE
  BY <1>2, <1>3 DEF CommandShape
<1>. QED
  BY <1>1, <1>4, <1>5, <1>6, <1>7 DEF Keeps

\* A step of one process: its command fits afterwards, and the others know what it did.
LEMMA MovesFit ==
  ASSUME RegistryConstants, RegistryInv, NEW p \in Processes, NEW d, Moves(p, d), d.job # NoEntry,
         CommandFits(d, names', files'), DiskFits(names', files'), DOMAIN names' = DOMAIN names,
         Len(files) <= Len(files')
  PROVE  RegistryInv'
<1>1. PICK moved : moved = {t \in Paths : \/ names'[t] # names[t]
                                          \/ Found(names, files, t) # Found(names', files', t)}
  OBVIOUS
<1>2. command' = [q \in Processes |->
        CASE q = p -> d
          [] q # p /\ command[q].job = NoEntry -> command[q]
          [] OTHER -> [command[q] EXCEPT !.disturbed = @ \cup moved]]
  BY <1>1 DEF Moves
<1>3. \A t \in DOMAIN names \ moved :
        names'[t] = names[t] /\ Found(names', files', t) = Found(names, files, t)
  BY <1>1 DEF Paths
<1>4. ASSUME NEW q \in Processes
      PROVE  /\ command'[q].job = NoEntry => command'[q] = NotStarted
             /\ CommandFits(command'[q], names', files')
  <2>1. CASE q = p
    BY <1>2, <2>1
  <2>2. CASE q # p /\ command[q].job = NoEntry
    <3>1. command'[q] = command[q]
      BY <1>2, <2>2
    <3>2. CommandFits(command[q], names', files')
      BY <2>2 DEF CommandFits
    <3>. QED
      BY <3>1, <3>2 DEF RegistryInv
  <2>3. CASE q # p /\ command[q].job # NoEntry
    <3>1. PICK c : c = command[q]
      OBVIOUS
    <3>2. PICK e : e = [c EXCEPT !.disturbed = @ \cup moved]
      OBVIOUS
    <3>3. command'[q] = e
      BY <1>2, <2>3, <3>1, <3>2
    <3>4. CommandFits(c, names, files) /\ c.job # NoEntry /\ DiskFits(names, files)
      BY <2>3, <3>1 DEF RegistryInv
    <3>5. CommandFits(e, names', files')
      BY <1>3, <3>2, <3>4, OthersFit
    <3>6. e.job = c.job
      BY <3>2, <3>4 DEF CommandFits, CommandShape
    <3>. QED
      BY <3>3, <3>4, <3>5, <3>6
  <2>. QED
    BY <2>1, <2>2, <2>3
<1>5. DOMAIN command' = Processes
  BY <1>2
<1>. QED
  BY <1>4, <1>5 DEF RegistryInv

\* A call that leaves the disk alone.
LEMMA QuietStep ==
  ASSUME RegistryConstants, RegistryInv, NEW p \in Processes, NEW d, OnDisk, Moves(p, d),
         d.job # NoEntry, CommandFits(d, names, files)
  PROVE  RegistryInv'
<1>1. names' = names /\ files' = files
  BY DEF OnDisk
<1>2. DiskFits(names, files) /\ Len(files) <= Len(files')
  BY <1>1 DEF RegistryInv, DiskFits
<1>3. CommandFits(d, names', files') /\ DiskFits(names', files') /\ DOMAIN names' = DOMAIN names
  BY <1>1, <1>2
<1>. QED
  BY <1>2, <1>3, MovesFit

\* A call that fails.
LEMMA StopStep ==
  ASSUME RegistryConstants, RegistryInv, NEW p \in Processes, NEW k, Call(p) = k, k # "none", Stops(p)
  PROVE  RegistryInv'
<1>1. Runs(command[p], k, names, files)
  BY AtACall
<1>2. /\ Keeps(command[p], Failed(p)) /\ Failed(p).at = 0 /\ Failed(p).done = FALSE
      /\ Failed(p).file = command[p].file
  BY <1>1, FailFields
<1>3. CommandFits(Failed(p), names, files)
  BY <1>1, <1>2, FailFits
<1>4. Failed(p).job # NoEntry
  BY <1>1, <1>2 DEF Keeps, Runs
<1>. QED
  BY <1>3, <1>4, QuietStep DEF Stops

\* A call that changed the text of the file.
LEMMA RewriteStep ==
  ASSUME RegistryConstants, RegistryInv, NEW p \in Processes, NEW d, Moves(p, d), d.job # NoEntry,
         NEW left, Fine(left), command[p].file \in 1 .. Len(files),
         files' = [files EXCEPT ![command[p].file] = left], names' = names,
         CommandFits(d, names, [files EXCEPT ![command[p].file] = left])
  PROVE  RegistryInv'
<1>1. PICK opened \in 1 .. Len(files) : opened = command[p].file
  OBVIOUS
<1>2. DiskFits(names, files)
  BY DEF RegistryInv
<1>3. DiskFits(names, [files EXCEPT ![opened] = left])
  BY <1>2, Rewritten
<1>4. Len([files EXCEPT ![opened] = left]) = Len(files)
  BY <1>2, Rewritten
<1>5. DiskFits(names', files') /\ Len(files) <= Len(files') /\ DOMAIN names' = DOMAIN names
  <2>1. Len(files) \in Nat
    BY <1>2 DEF DiskFits
  <2>. QED
    BY <1>1, <1>3, <1>4, <2>1
<1>6. CommandFits(d, names', files')
  OBVIOUS
<1>. QED
  BY <1>5, <1>6, MovesFit

\* A process that starts.
LEMMA StartStep ==
  ASSUME RegistryConstants, RegistryInv, NEW p \in Processes, StartCommand(p)
  PROVE  RegistryInv'
<1>1. PICK job \in Jobs :
        command' = [command EXCEPT ![p] =
          [command[p] EXCEPT !.job = job, !.size = job.size,
             !.at = IF PlaceIsGood(job, job.source) /\ PlaceIsGood(job, job.target) THEN 1 ELSE 0,
             !.before = View]]
  BY DEF StartCommand
<1>2. PICK good \in BOOLEAN : good <=> PlaceIsGood(job, job.source) /\ PlaceIsGood(job, job.target)
  OBVIOUS
<1>3. PICK at \in Nat : at = IF good THEN 1 ELSE 0
  OBVIOUS
<1>4. PICK before : before = View /\ before = [t \in DOMAIN names |-> Found(names, files, t)]
  BY DEF View, Paths
<1>5. PICK size \in Points1 : size = job.size
  BY DEF RegistryConstants, JobIsFormed
<1>6. /\ command[p] = NotStarted /\ DiskFits(names, files) /\ names' = names /\ files' = files
      /\ DOMAIN command = Processes
  BY DEF StartCommand, RegistryInv, OnDisk
<1>7. PICK d : d = [NotStarted EXCEPT !.job = job, !.size = size, !.at = at, !.before = before]
  OBVIOUS
<1>8. command' = [command EXCEPT ![p] = d]
  <2>1. at = IF PlaceIsGood(job, job.source) /\ PlaceIsGood(job, job.target) THEN 1 ELSE 0
    BY <1>2, <1>3
  <2>2. [command[p] EXCEPT !.job = job, !.size = job.size,
           !.at = IF PlaceIsGood(job, job.source) /\ PlaceIsGood(job, job.target) THEN 1 ELSE 0,
           !.before = View] = [command[p] EXCEPT !.job = job, !.size = size, !.at = at, !.before = before]
    BY ONLY <2>1, <1>4, <1>5, Zenon
  <2>3. command[p] = NotStarted
    BY <1>6
  <2>4. [command[p] EXCEPT !.job = job, !.size = size, !.at = at, !.before = before] = d
    BY ONLY <2>3, <1>7, Zenon
  <2>. QED
    BY ONLY <1>1, <2>2, <2>4, Zenon
<1>9. /\ CommandShape(d) /\ d.done = FALSE
      /\ d.job = job /\ d.at = at /\ d.file = 0 /\ d.from = 0 /\ d.listed = {} /\ d.before = before
      /\ d.disturbed = {}
  <2>1. d = [job |-> job, at |-> at, done |-> FALSE, held |-> NoEntry,
           size |-> size, file |-> 0, from |-> 0, entries |-> {}, listed |-> {},
           unfit |-> FALSE, before |-> before, disturbed |-> {}]
    BY <1>7, StartedFields, Zenon
  <2>. QED
    BY <1>3, <1>5, <2>1, Started, Zenon
<1>10. good => \A place \in {job.source, job.target} :
                 /\ place[1] \in {"id", "package", "registry"} => RegistryDir(job.env) # NoWhere
                 /\ place[1] = "id" => PathOf(job, place) \in DOMAIN names
  BY <1>2 DEF PlaceIsGood, Paths
<1>11. CommandFits(d, names, files)
  BY <1>3, <1>4, <1>6, <1>9, <1>10, StartFits
<1>12. d.job # NoEntry
  BY <1>9 DEF RegistryConstants
<1>13. ASSUME NEW q \in Processes
       PROVE  /\ command'[q].job = NoEntry => command'[q] = NotStarted
              /\ CommandFits(command'[q], names', files')
  <2>1. CASE q = p
    BY <1>6, <1>8, <1>11, <1>12, <2>1
  <2>2. CASE q # p
    <3>1. command'[q] = command[q]
      BY <1>6, <1>8, <2>2
    <3>. QED
      BY <1>6, <3>1 DEF RegistryInv
  <2>. QED
    BY <2>1, <2>2
<1>14. DOMAIN command' = Processes
  BY <1>6, <1>8
<1>. QED
  BY <1>6, <1>13, <1>14 DEF RegistryInv

\* A process that is killed, or whose call fails.
LEMMA BreakStep ==
  ASSUME RegistryConstants, RegistryInv, NEW p \in Processes, Breaks1(p)
  PROVE  RegistryInv'
<1>1. PICK k : k = Call(p) /\ k = CallNow(command[p])
  BY DEF Call, CallNow, Calls
<1>2. k # "none"
  <2>1. command[p].at # 0 /\ command[p].job # NoEntry
    BY DEF Breaks1, RegistryInv, NotStarted
  <2>2. PICK c : c = command[p]
    OBVIOUS
  <2>3. c.job \in Jobs /\ c.at \in 0 .. Len(Program(c.job.op))
    BY <2>1, <2>2 DEF RegistryInv, CommandFits
  <2>4. PICK op \in Ops : op = c.job.op
    BY <2>3 DEF RegistryConstants, JobIsFormed
  <2>5. PICK L \in Nat \ {0} : L = Len(Program(op))
    BY <2>4, First
  <2>6. PICK at \in 1 .. L : at = c.at
    BY <2>1, <2>2, <2>3, <2>4, <2>5
  <2>7. k = Program(op)[at]
    BY <1>1, <2>1, <2>2, <2>4, <2>6 DEF CallNow
  <2>8. PICK k2 : k2 = IF at = L THEN "none" ELSE Program(op)[at + 1]
    OBVIOUS
  <2>9. Follows(op, k, k2)
    BY <2>5, <2>7, <2>8, Order
  <2>. QED
    BY <2>9 DEF Follows, Ops
<1>3. CASE Stops(p)
  BY <1>1, <1>2, <1>3, StopStep
<1>4. CASE /\ Call(p) \in {"write", "copy"}
           /\ files' = [files EXCEPT ![command[p].file] = Scrap]
           /\ UNCHANGED names /\ Moves(p, Failed(p))
  <2>1. Runs(command[p], k, names, files) /\ k \in Writing
    BY <1>1, <1>2, <1>4, AtACall DEF Writing
  <2>2. /\ Keeps(command[p], Failed(p)) /\ Failed(p).at = 0 /\ Failed(p).done = FALSE
        /\ Failed(p).file = command[p].file
    BY <2>1, FailFields
  <2>3. command[p].file \in 1 .. Len(files)
    <3>1. Stage(command[p], k, names, files)
      BY <2>1, RunFacts
    <3>. QED
      BY <2>1, <3>1 DEF Stage, WritesTarget
  <2>4. PICK fs2 : fs2 = [files EXCEPT ![command[p].file] = Scrap]
    OBVIOUS
  <2>5. CommandFits(Failed(p), names, fs2)
    BY <2>1, <2>2, <2>4, FailFits
  <2>6. Failed(p).job # NoEntry
    BY <2>1, <2>2 DEF Keeps, Runs
  <2>7. Fine(Scrap)
    BY DEF Fine, IsProfile
  <2>. QED
    BY <1>4, <2>3, <2>4, <2>5, <2>6, <2>7, RewriteStep
<1>. QED
  BY <1>3, <1>4 DEF Breaks1

\* A profile that loads, or does not.
LEMMA LoadStep ==
  ASSUME RegistryConstants, RegistryInv, NEW p \in Processes, LoadFile(p)
  PROVE  RegistryInv'
<1>1. /\ Runs(command[p], "load", names, files) /\ CommandShape(command[p])
      /\ SourceOf(p) = SourceNow(command[p]) /\ Call(p) = "load"
  BY AtACall DEF LoadFile
<1>2. PICK content : content = Found(names, files, SourceNow(command[p]))
  OBVIOUS
<1>3. CASE Valid1(content)
  <2>1. PICK e : e = Next1(p)
    OBVIOUS
  <2>2. PICK d : d = [e EXCEPT !.held = content]
    OBVIOUS
  <2>3. Advanced(command[p], e) /\ e.size = command[p].size /\ e.file = command[p].file /\ e.from = command[p].from
    BY <1>1, <2>1, NextFields
  <2>4. CommandShape(e)
    BY <2>3 DEF Advanced, Keeps
  <2>5. Advanced(command[p], d)
    BY <2>2, <2>3, AlsoSets
  <2>6. d.held = content /\ d.size = e.size /\ d.file = e.file /\ d.from = e.from
    BY <2>2, <2>4, SetFields
  <2>7. CommandFits(d, names, files)
    BY <1>1, <1>2, <1>3, <2>3, <2>5, <2>6, LoadFits
  <2>8. OnDisk /\ Moves(p, d)
    BY <1>1, <1>2, <1>3, <2>1, <2>2 DEF LoadFile
  <2>9. d.job # NoEntry
    BY <1>1, <2>5 DEF Advanced, Keeps, Runs
  <2>. QED
    BY <2>7, <2>8, <2>9, QuietStep
<1>4. CASE ~Valid1(content)
  <2>1. Stops(p)
    BY <1>1, <1>2, <1>4 DEF LoadFile
  <2>. QED
    BY <1>1, <2>1, StopStep
<1>. QED
  BY <1>3, <1>4

\* A source that is looked for, and a size that is read.
LEMMA LookStep ==
  ASSUME RegistryConstants, RegistryInv, NEW p \in Processes, Present(p) \/ SizeGiven(p)
  PROVE  RegistryInv'
<1>1. PICK k \in {"present", "size"} : k = Call(p)
  BY DEF Present, SizeGiven
<1>2. Runs(command[p], k, names, files)
  BY <1>1, AtACall
<1>3. CASE Stops(p)
  BY <1>1, <1>3, StopStep
<1>4. CASE Goes(p) /\ (k = "size" => 0 \notin {command[p].size[1], command[p].size[2]})
  <2>1. PICK d : d = Next1(p)
    OBVIOUS
  <2>2. Advanced(command[p], d) /\ d.size = command[p].size /\ d.file = command[p].file /\ d.from = command[p].from
    BY <1>2, <2>1, NextFields
  <2>3. CommandFits(d, names, files)
    BY <1>2, <1>4, <2>2, LookFits
  <2>4. d.job # NoEntry
    BY <1>2, <2>2 DEF Advanced, Keeps, Runs
  <2>. QED
    BY <1>4, <2>1, <2>3, <2>4, QuietStep DEF Goes
<1>5. Stops(p) \/ (Goes(p) /\ (k = "size" => 0 \notin {command[p].size[1], command[p].size[2]}))
  BY <1>1 DEF Present, SizeGiven
<1>. QED
  BY <1>3, <1>4, <1>5

\* A target that is looked for.
LEMMA AbsentStep ==
  ASSUME RegistryConstants, RegistryInv, NEW p \in Processes, Absent(p)
  PROVE  RegistryInv'
<1>1. /\ Runs(command[p], "absent", names, files) /\ Call(p) = "absent"
      /\ TargetOf(p) = TargetNow(command[p])
  BY AtACall DEF Absent
<1>2. CASE Stops(p)
  BY <1>1, <1>2, StopStep
<1>3. CASE Goes(p) /\ TargetOf(p) \in Paths /\ (Exists(TargetOf(p)) => command[p].job.force)
  <2>1. PICK d : d = Next1(p)
    OBVIOUS
  <2>2. /\ Advanced(command[p], d) /\ d.size = command[p].size /\ d.file = command[p].file
        /\ d.from = command[p].from /\ d.held = command[p].held
    BY <1>1, <2>1, NextFields
  <2>3. LookedAtTarget(command[p], names)
    BY <1>1, <1>3 DEF LookedAtTarget, Exists, Paths
  <2>4. CommandFits(d, names, files)
    BY <1>1, <2>2, <2>3, AbsentFits
  <2>5. d.job # NoEntry
    BY <1>1, <2>2 DEF Advanced, Keeps, Runs
  <2>. QED
    BY <1>3, <2>1, <2>4, <2>5, QuietStep DEF Goes
<1>. QED
  BY <1>2, <1>3 DEF Absent

\* The size of the screen.
LEMMA ScreenStep ==
  ASSUME RegistryConstants, RegistryInv, NEW p \in Processes, Screen(p)
  PROVE  RegistryInv'
<1>1. Runs(command[p], "screen", names, files) /\ Call(p) = "screen"
  BY AtACall DEF Screen
<1>2. CASE Stops(p)
  BY <1>1, <1>2, StopStep
<1>3. ASSUME NEW size \in Points1, OnDisk, Moves(p, [Next1(p) EXCEPT !.size = size])
      PROVE  RegistryInv'
  <2>1. PICK e : e = Next1(p)
    OBVIOUS
  <2>2. PICK d : d = [e EXCEPT !.size = size]
    OBVIOUS
  <2>3. Advanced(command[p], e) /\ e.held = command[p].held /\ e.file = command[p].file /\ e.from = command[p].from
    BY <1>1, <2>1, NextFields
  <2>4. CommandShape(e)
    BY <2>3 DEF Advanced, Keeps
  <2>5. Advanced(command[p], d)
    BY <2>2, <2>3, AlsoSets
  <2>6. d.held = e.held /\ d.file = e.file /\ d.from = e.from
    BY <2>2, <2>4, SetFields
  <2>7. CommandFits(d, names, files)
    BY <1>1, <2>3, <2>5, <2>6, ScreenFits
  <2>8. d.job # NoEntry
    BY <1>1, <2>5 DEF Advanced, Keeps, Runs
  <2>. QED
    BY <1>3, <2>1, <2>2, <2>7, <2>8, QuietStep
<1>4. \A output \in WmSizes : ParseSize(output) \in Points1
  BY DEF ParseSize, RegistryConstants
<1>. QED
  BY <1>2, <1>3, <1>4 DEF Screen

\* A call that leaves a profile in the command's hands.
LEMMA HeldStep ==
  ASSUME RegistryConstants, RegistryInv, NEW p \in Processes, NEW k, Runs(command[p], k, names, files),
         NEW x, OnDisk, Moves(p, [Next1(p) EXCEPT !.held = x]),
         \A d : /\ Advanced(command[p], d) /\ d.file = command[p].file /\ d.from = command[p].from
                /\ d.size = command[p].size /\ d.held = x
                => CommandFits(d, names, files)
  PROVE  RegistryInv'
<1>1. PICK e : e = Next1(p)
  OBVIOUS
<1>2. PICK d : d = [e EXCEPT !.held = x]
  OBVIOUS
<1>3. Advanced(command[p], e) /\ e.size = command[p].size /\ e.file = command[p].file /\ e.from = command[p].from
  BY <1>1, NextFields
<1>4. CommandShape(e)
  BY <1>3 DEF Advanced, Keeps
<1>5. Advanced(command[p], d)
  BY <1>2, <1>3, AlsoSets
<1>6. d.held = x /\ d.size = e.size /\ d.file = e.file /\ d.from = e.from
  BY <1>2, <1>4, SetFields
<1>7. CommandFits(d, names, files)
  BY <1>3, <1>5, <1>6
<1>8. d.job # NoEntry
  BY <1>5 DEF Advanced, Keeps, Runs
<1>. QED
  BY <1>1, <1>2, <1>7, <1>8, QuietStep

\* A profile that is made.
LEMMA MakeStep ==
  ASSUME RegistryConstants, RegistryInv, NEW p \in Processes, Make(p)
  PROVE  RegistryInv'
<1>1. Runs(command[p], "make", names, files) /\ Call(p) = "make"
  BY AtACall DEF Make
<1>2. PICK created : created = IF command[p].job.op = "example" THEN Example
                         ELSE NewProfile(command[p].job, command[p].size)
  OBVIOUS
<1>3. CASE Errors1(created) = {}
  <2>1. OnDisk /\ Moves(p, [Next1(p) EXCEPT !.held = created])
    BY <1>2, <1>3 DEF Make
  <2>2. ASSUME NEW d, Advanced(command[p], d), d.file = command[p].file, d.from = command[p].from,
               d.size = command[p].size, d.held = created
        PROVE  CommandFits(d, names, files)
    BY <1>1, <1>2, <1>3, <2>2, MakeFits
  <2>. QED
    BY <1>1, <2>1, <2>2, HeldStep
<1>4. CASE Errors1(created) # {}
  <2>1. Stops(p)
    BY <1>2, <1>4 DEF Make
  <2>. QED
    BY <1>1, <2>1, StopStep
<1>. QED
  BY <1>3, <1>4

\* A profile that is edited.
LEMMA EditStep ==
  ASSUME RegistryConstants, RegistryInv, NEW p \in Processes, Edit(p)
  PROVE  RegistryInv'
<1>1. Runs(command[p], "edit", names, files) /\ Call(p) = "edit"
  BY AtACall DEF Edit
<1>2. CASE Stops(p)
  BY <1>1, <1>2, StopStep
<1>3. ASSUME NEW e \in Edited(command[p].held, command[p].job), Errors1(e) = {}, OnDisk,
             Moves(p, [Next1(p) EXCEPT !.held = e])
      PROVE  RegistryInv'
  <2>1. ASSUME NEW d, Advanced(command[p], d), d.file = command[p].file, d.from = command[p].from,
               d.size = command[p].size, d.held = e
        PROVE  CommandFits(d, names, files)
    BY <1>1, <1>3, <2>1, EditFits
  <2>. QED
    BY <1>1, <1>3, <2>1, HeldStep
<1>. QED
  BY <1>2, <1>3 DEF Edit

\* A profile that is scaled: it fits.
LEMMA FitStep ==
  ASSUME RegistryConstants, RegistryInv, NEW p \in Processes, Fit(p)
  PROVE  RegistryInv'
<1>1. Runs(command[p], "fit", names, files) /\ Call(p) = "fit"
  BY AtACall DEF Fit
<1>2. PICK scaled : scaled = ScaleProfile(command[p].held, command[p].size)
  OBVIOUS
<1>3. Errors1(scaled) = {}
  BY <1>1, <1>2, FitFits
<1>4. OnDisk /\ Moves(p, [Next1(p) EXCEPT !.held = scaled])
  BY <1>2, <1>3 DEF Fit
<1>5. ASSUME NEW d, Advanced(command[p], d), d.file = command[p].file, d.from = command[p].from,
             d.size = command[p].size, d.held = scaled
      PROVE  CommandFits(d, names, files)
  BY <1>1, <1>2, <1>5, FitFits
<1>. QED
  BY <1>1, <1>4, <1>5, HeldStep

\* A target that is opened to be written, with or without a source.
LEMMA OpenedStep ==
  ASSUME RegistryConstants, RegistryInv, NEW p \in Processes, NEW k \in {"open", "open_copy"},
         Runs(command[p], k, names, files), TargetOf(p) = TargetNow(command[p]),
         Truncates(TargetOf(p)),
         NEW opened, opened = OpenedFile(TargetOf(p)), NEW d, Moves(p, d), Advanced(command[p], d),
         d.held = command[p].held, d.size = command[p].size, d.file = opened,
         d.from = IF k = "open" THEN command[p].from ELSE names[SourceNow(command[p])],
         k = "open_copy" => names[SourceNow(command[p])] # 0
  PROVE  RegistryInv'
<1>1. PICK c : c = command[p]
  OBVIOUS
<1>2. PICK path : path = TargetNow(c)
  OBVIOUS
<1>3. Truncated(names, files, path, names', files')
  BY <1>1, <1>2 DEF Truncated, Truncates, Exists
<1>4. d.file = IF names[path] # 0 THEN names[path] ELSE Len(files) + 1
  BY <1>1, <1>2 DEF OpenedFile, Exists
<1>5. path \in DOMAIN names
  BY <1>1, <1>2, OpensTarget
<1>6. DiskFits(names', files') /\ DOMAIN names' = DOMAIN names /\ Len(files) <= Len(files')
  BY <1>3, <1>4, <1>5, CreatedFile DEF RegistryInv
<1>7. CommandFits(d, names', files')
  BY <1>1, <1>2, <1>3, <1>4, OpenFits
<1>8. d.job # NoEntry
  BY DEF Advanced, Keeps, Runs
<1>. QED
  BY <1>6, <1>7, <1>8, MovesFit

\* The number of the file that is opened.
LEMMA OpenedNumber ==
  ASSUME RegistryConstants, NEW p \in Processes, NEW k \in {"open", "open_copy"},
         Runs(command[p], k, names, files), TargetOf(p) = TargetNow(command[p])
  PROVE  OpenedFile(TargetOf(p)) \in Nat
<1>1. TargetOf(p) \in DOMAIN names
  BY OpensTarget
<1>2. names \in [DOMAIN names -> 0 .. Len(files)] /\ files \in Seq({files[n] : n \in DOMAIN files})
  BY DEF Runs, DiskFits
<1>3. PICK L \in Nat : L = Len(files)
  BY <1>2, LenProperties
<1>. QED
  BY <1>1, <1>2, <1>3 DEF OpenedFile

\* A target that is opened.
LEMMA OpenStep ==
  ASSUME RegistryConstants, RegistryInv, NEW p \in Processes, Open(p)
  PROVE  RegistryInv'
<1>1. /\ Runs(command[p], "open", names, files) /\ Call(p) = "open"
      /\ TargetOf(p) = TargetNow(command[p])
  BY AtACall DEF Open
<1>2. PICK e : e = Next1(p)
  OBVIOUS
<1>3. PICK opened \in Nat : opened = OpenedFile(TargetOf(p))
  BY <1>1, OpenedNumber
<1>4. PICK d : d = [e EXCEPT !.file = opened]
  OBVIOUS
<1>5. /\ Advanced(command[p], e) /\ e.held = command[p].held /\ e.size = command[p].size
      /\ e.from = command[p].from
  BY <1>1, <1>2, NextFields
<1>6. CommandShape(e)
  BY <1>5 DEF Advanced, Keeps
<1>7. Advanced(command[p], d)
  BY <1>4, <1>5, AlsoSets
<1>8. d.held = e.held /\ d.size = e.size /\ d.file = opened /\ d.from = e.from
  BY <1>4, <1>6, SetFields
<1>9. Truncates(TargetOf(p)) /\ Moves(p, d)
  BY <1>2, <1>3, <1>4 DEF Open
<1>. QED
  BY <1>1, <1>3, <1>5, <1>7, <1>8, <1>9, OpenedStep

\* A copy whose source is there.
LEMMA OpenCopyStep ==
  ASSUME RegistryConstants, RegistryInv, NEW p \in Processes, OpenCopy(p)
  PROVE  RegistryInv'
<1>1. /\ Runs(command[p], "open_copy", names, files) /\ Call(p) = "open_copy"
      /\ TargetOf(p) = TargetNow(command[p]) /\ SourceOf(p) = SourceNow(command[p])
  BY AtACall DEF OpenCopy
<1>2. CASE ~Exists(SourceOf(p))
  <2>1. Stops(p)
    BY <1>2 DEF OpenCopy
  <2>. QED
    BY <1>1, <2>1, StopStep
<1>3. CASE Exists(SourceOf(p))
  <2>1. PICK e : e = Next1(p)
    OBVIOUS
  <2>2. PICK opened \in Nat : opened = OpenedFile(TargetOf(p))
    BY <1>1, OpenedNumber
  <2>3. names[SourceOf(p)] \in Nat
    <3>1. SourceOf(p) \in DOMAIN names
      <4>1. command[p].job.op # "list"
        BY <1>1, OpensTarget
      <4>. QED
        BY <1>1, <4>1, Places
    <3>2. names \in [DOMAIN names -> 0 .. Len(files)] /\ files \in Seq({files[n] : n \in DOMAIN files})
      BY DEF RegistryInv, DiskFits
    <3>3. PICK L \in Nat : L = Len(files)
      BY <3>2, LenProperties
    <3>. QED
      BY <3>1, <3>2, <3>3
  <2>4. PICK from \in Nat : from = names[SourceOf(p)]
    BY <2>3
  <2>5. PICK d : d = [e EXCEPT !.file = opened, !.from = from]
    OBVIOUS
  <2>6. Advanced(command[p], e) /\ e.held = command[p].held /\ e.size = command[p].size
    BY <1>1, <2>1, NextFields
  <2>7. CommandShape(e)
    BY <2>6 DEF Advanced, Keeps
  <2>8. Advanced(command[p], d)
    BY <2>5, <2>6, AlsoSets
  <2>9. d.held = e.held /\ d.size = e.size /\ d.file = opened /\ d.from = from
    BY <2>5, <2>7, SetFields
  <2>10. Truncates(TargetOf(p)) /\ Moves(p, d)
    BY <1>3, <2>1, <2>2, <2>4, <2>5 DEF OpenCopy
  <2>11. names[SourceNow(command[p])] # 0 /\ d.from = names[SourceNow(command[p])]
    BY <1>1, <1>3, <2>4, <2>9 DEF Exists
  <2>. QED
    BY <1>1, <2>2, <2>6, <2>8, <2>9, <2>10, <2>11, OpenedStep
<1>. QED
  BY <1>2, <1>3

\* A text that is written.
LEMMA WriteStep ==
  ASSUME RegistryConstants, RegistryInv, NEW p \in Processes, Write(p) \/ Copy(p)
  PROVE  RegistryInv'
<1>1. PICK k \in Writing : k = Call(p)
  BY DEF Write, Copy, Writing
<1>2. Runs(command[p], k, names, files)
  BY <1>1, AtACall DEF Writing
<1>3. PICK content : content = IF k = "write" THEN command[p].held ELSE files[command[p].from]
  OBVIOUS
<1>4. Writes(p, content)
  BY <1>1, <1>3 DEF Write, Copy
<1>5. PICK left \in IF files[command[p].file] = Empty THEN {content} ELSE {content, Scrap} :
        files' = [files EXCEPT ![command[p].file] = left]
  BY <1>4 DEF Writes
<1>6. left = content \/ (files[command[p].file] # Empty /\ left = Scrap)
  BY <1>5
<1>7. PICK d : d = Next1(p)
  OBVIOUS
<1>8. Advanced(command[p], d) /\ d.size = command[p].size /\ d.file = command[p].file
  BY <1>2, <1>7, NextFields
<1>9. command[p].file \in 1 .. Len(files)
  <2>1. Stage(command[p], k, names, files)
    BY <1>2, RunFacts
  <2>. QED
    BY <2>1 DEF Stage, WritesTarget
<1>10. Fine(left) /\ CommandFits(d, names, [files EXCEPT ![command[p].file] = left])
  BY <1>2, <1>3, <1>6, <1>8, WriteFits
<1>11. d.job # NoEntry
  BY <1>2, <1>8 DEF Advanced, Keeps, Runs
<1>12. names' = names /\ Moves(p, d)
  BY <1>4, <1>7 DEF Writes
<1>. QED
  BY <1>5, <1>9, <1>10, <1>11, <1>12, RewriteStep

\* A name that goes.
LEMMA UnlinkStep ==
  ASSUME RegistryConstants, RegistryInv, NEW p \in Processes, Unlink(p)
  PROVE  RegistryInv'
<1>1. /\ Runs(command[p], "unlink", names, files) /\ Call(p) = "unlink"
      /\ SourceOf(p) = SourceNow(command[p])
  BY AtACall DEF Unlink
<1>2. CASE ~Exists(SourceOf(p))
  <2>1. Stops(p)
    BY <1>2 DEF Unlink
  <2>. QED
    BY <1>1, <2>1, StopStep
<1>3. CASE Exists(SourceOf(p))
  <2>1. PICK s : s = SourceNow(command[p])
    OBVIOUS
  <2>2. PICK ns2 : ns2 = [names EXCEPT ![s] = 0]
    OBVIOUS
  <2>3. names' = ns2 /\ files' = files /\ Moves(p, Next1(p))
    BY <1>1, <1>3, <2>1, <2>2 DEF Unlink
  <2>4. Advanced(command[p], Next1(p))
    BY <1>1, NextFields
  <2>5. CommandFits(Next1(p), ns2, files)
    BY <1>1, <2>1, <2>2, <2>4, UnlinkFits
  <2>6. DiskFits(ns2, files) /\ DOMAIN ns2 = DOMAIN names
    <3>1. PICK L \in Nat : L = Len(files)
      BY LenProperties DEF RegistryInv, DiskFits
    <3>2. names \in [DOMAIN names -> 0 .. L]
      BY <3>1 DEF RegistryInv, DiskFits
    <3>3. ns2 \in [DOMAIN names -> 0 .. L] /\ DOMAIN ns2 = DOMAIN names
      <4>1. PICK X : X = 0 .. L
        OBVIOUS
      <4>2. 0 \in X /\ names \in [DOMAIN names -> X]
        BY <3>1, <3>2, <4>1
      <4>. QED
        BY <2>2, <4>1, <4>2
    <3>4. \A t \in DOMAIN ns2 : ns2[t] = 0 \/ ns2[t] = names[t]
      BY <2>2, <3>2
    <3>. QED
      BY <3>1, <3>3, <3>4 DEF RegistryInv, DiskFits
  <2>7. Next1(p).job # NoEntry
    BY <1>1, <2>4 DEF Advanced, Keeps, Runs
  <2>8. Len(files) <= Len(files')
    <3>1. PICK L \in Nat : L = Len(files)
      BY LenProperties DEF RegistryInv, DiskFits
    <3>. QED
      BY <2>3, <3>1
  <2>. QED
    BY <2>3, <2>5, <2>6, <2>7, <2>8, MovesFit
<1>. QED
  BY <1>2, <1>3

\* A name that moves.
LEMMA MoveStep ==
  ASSUME RegistryConstants, RegistryInv, NEW p \in Processes, Move(p)
  PROVE  RegistryInv'
<1>1. /\ Runs(command[p], "move", names, files) /\ Call(p) = "move"
      /\ SourceOf(p) = SourceNow(command[p]) /\ TargetOf(p) = TargetNow(command[p])
  BY AtACall DEF Move
<1>2. CASE ~Exists(SourceOf(p))
  <2>1. Stops(p)
    BY <1>2 DEF Move
  <2>. QED
    BY <1>1, <2>1, StopStep
<1>3. CASE Exists(SourceOf(p))
  <2>1. PICK s : s = SourceNow(command[p])
    OBVIOUS
  <2>2. PICK t : t = TargetNow(command[p])
    OBVIOUS
  <2>3. PICK ns2 : ns2 = [names EXCEPT ![s] = 0, ![t] = names[s]]
    OBVIOUS
  <2>4. names' = ns2 /\ files' = files /\ Moves(p, Next1(p))
    BY <1>1, <1>3, <2>1, <2>2, <2>3 DEF Move
  <2>5. Advanced(command[p], Next1(p))
    BY <1>1, NextFields
  <2>6. names[s] # 0
    BY <1>1, <1>3, <2>1 DEF Exists
  <2>7. CommandFits(Next1(p), ns2, files) /\ DiskFits(ns2, files) /\ DOMAIN ns2 = DOMAIN names
    BY <1>1, <2>1, <2>2, <2>3, <2>5, <2>6, MoveFits
  <2>8. Next1(p).job # NoEntry
    BY <1>1, <2>5 DEF Advanced, Keeps, Runs
  <2>9. Len(files) <= Len(files')
    <3>1. PICK L \in Nat : L = Len(files)
      BY LenProperties DEF RegistryInv, DiskFits
    <3>. QED
      BY <2>4, <3>1
  <2>. QED
    BY <2>4, <2>7, <2>8, <2>9, MovesFit
<1>. QED
  BY <1>2, <1>3

\* The names in the registry.
LEMMA EntriesStep ==
  ASSUME RegistryConstants, RegistryInv, NEW p \in Processes, Entries(p)
  PROVE  RegistryInv'
<1>1. Runs(command[p], "entries", names, files)
  BY AtACall DEF Entries
<1>2. PICK x : x = {t \in Paths : t[1] = RegistryDir(command[p].job.env) /\ Exists(t)}
  OBVIOUS
<1>3. PICK e : e = Next1(p)
  OBVIOUS
<1>4. PICK d : d = [e EXCEPT !.entries = x]
  OBVIOUS
<1>5. /\ Advanced(command[p], e) /\ e.listed = command[p].listed /\ e.file = command[p].file
      /\ e.from = command[p].from
  BY <1>1, <1>3, NextFields
<1>6. CommandShape(e)
  BY <1>5 DEF Advanced, Keeps
<1>7. Advanced(command[p], d)
  BY <1>4, <1>5, AlsoSets
<1>8. d.listed = e.listed /\ d.entries = x /\ d.file = e.file /\ d.from = e.from
  BY <1>4, <1>6, SetFields
<1>9. d.entries = {t \in DOMAIN names : t[1] = RegistryDir(command[p].job.env) /\ names[t] # 0}
  BY <1>2, <1>8 DEF Paths, Exists
<1>10. CommandFits(d, names, files)
  BY <1>1, <1>5, <1>7, <1>8, <1>9, EntriesFits
<1>11. OnDisk /\ Moves(p, d)
  BY <1>2, <1>3, <1>4 DEF Entries
<1>12. d.job # NoEntry
  BY <1>1, <1>7 DEF Advanced, Keeps, Runs
<1>. QED
  BY <1>10, <1>11, <1>12, QuietStep

\* A file that a listing looks at.
LEMMA GlanceStep ==
  ASSUME RegistryConstants, RegistryInv, NEW p \in Processes, Look(p)
  PROVE  RegistryInv'
<1>1. Runs(command[p], "look", names, files) /\ CommandShape(command[p]) /\ OnDisk
  BY AtACall DEF Look
<1>2. CASE command[p].entries = {} /\ Moves(p, Next1(p))
  <2>1. PICK d : d = Next1(p)
    OBVIOUS
  <2>2. Advanced(command[p], d) /\ d.listed = command[p].listed
    BY <1>1, <2>1, NextFields
  <2>3. CommandFits(d, names, files)
    BY <1>1, <1>2, <2>2, GlanceFits
  <2>4. d.job # NoEntry
    BY <1>1, <2>2 DEF Advanced, Keeps, Runs
  <2>. QED
    BY <1>1, <1>2, <2>1, <2>3, <2>4, QuietStep
<1>3. ASSUME NEW t \in command[p].entries,
             Moves(p, [command[p] EXCEPT !.entries = @ \ {t}, !.listed =
               IF Valid1(Found(names, files, t)) THEN @ \cup {t} ELSE @])
      PROVE  RegistryInv'
  <2>1. PICK c : c = command[p]
    OBVIOUS
  <2>2. PICK entries : entries = c.entries \ {t}
    OBVIOUS
  <2>3. PICK listed : listed = IF Valid1(Found(names, files, t)) THEN c.listed \cup {t} ELSE c.listed
    OBVIOUS
  <2>4. PICK d : d = [c EXCEPT !.entries = entries, !.listed = listed]
    OBVIOUS
  <2>5. Moves(p, d)
    BY <1>3, <2>1, <2>2, <2>3, <2>4, Zenon
  <2>6. Keeps(c, d) /\ d.at = c.at /\ d.file = c.file /\ d.from = c.from
    BY <1>1, <2>1, <2>4 DEF Keeps, CommandShape
  <2>7. d.done = c.done
    BY <1>1, <2>1, <2>4 DEF CommandShape
  <2>8. d.entries = entries /\ d.listed = listed
    BY <1>1, <2>1, <2>4 DEF CommandShape
  <2>9. CommandFits(d, names, files)
    BY <1>1, <1>3, <2>1, <2>2, <2>3, <2>6, <2>7, <2>8, GlanceFits
  <2>10. d.job # NoEntry
    BY <1>1, <2>1, <2>6 DEF Keeps, Runs
  <2>. QED
    BY <1>1, <2>5, <2>9, <2>10, QuietStep
<1>. QED
  BY <1>2, <1>3 DEF Look

-----------------------------------------------------------------------------
(* The commands keep their word *)

\* A step of one process.
StepOf(p) ==
  \/ StartCommand(p) \/ Breaks1(p) \/ LoadFile(p) \/ SizeGiven(p) \/ Absent(p) \/ Present(p)
  \/ Screen(p) \/ Make(p) \/ Edit(p) \/ Fit(p) \/ Open(p) \/ Write(p) \/ OpenCopy(p) \/ Copy(p)
  \/ Unlink(p) \/ Move(p) \/ Entries(p) \/ Look(p)

\* The disks that the program may find, with nothing started.
LEMMA RegistryStarts ==
  ASSUME RegistryConstants, RegistryInit
  PROVE  RegistryInv
<1>1. PICK disk \in Disks : names = disk.names /\ files = disk.files
  BY DEF RegistryInit
<1>2. DiskIsFormed(disk)
  BY DEF RegistryConstants
<1>3. \A n \in DOMAIN files : Fine(files[n])
  BY <1>1, <1>2 DEF DiskIsFormed, Fine
<1>4. DiskFits(names, files)
  BY <1>1, <1>2, <1>3 DEF DiskIsFormed, DiskFits
<1>5. command = [p \in Processes |-> NotStarted]
  BY DEF RegistryInit
<1>6. NotStarted.job = NoEntry
  BY DEF NotStarted
<1>. QED
  BY <1>4, <1>5, <1>6 DEF RegistryInv, CommandFits

\* Every step keeps the invariant.
LEMMA RegistryKeeps ==
  ASSUME RegistryConstants, RegistryInv, [RegistryNext]_registryVars
  PROVE  RegistryInv'
<1>1. CASE UNCHANGED registryVars
  <2>1. names' = names /\ files' = files /\ command' = command
    BY <1>1 DEF registryVars
  <2>. QED
    BY <2>1 DEF RegistryInv
<1>2. ASSUME NEW p \in Processes, StepOf(p)
      PROVE  RegistryInv'
  <2>1. CASE StartCommand(p) \/ Breaks1(p)
    BY <2>1, StartStep, BreakStep
  <2>2. CASE LoadFile(p) \/ SizeGiven(p) \/ Absent(p) \/ Present(p) \/ Screen(p)
    BY <2>2, LoadStep, LookStep, AbsentStep, ScreenStep
  <2>3. CASE Make(p) \/ Edit(p) \/ Fit(p)
    BY <2>3, MakeStep, EditStep, FitStep
  <2>4. CASE Open(p) \/ Write(p) \/ OpenCopy(p) \/ Copy(p)
    BY <2>4, OpenStep, WriteStep, OpenCopyStep
  <2>5. CASE Unlink(p) \/ Move(p)
    BY <2>5, UnlinkStep, MoveStep
  <2>6. CASE Entries(p) \/ Look(p)
    BY <2>6, EntriesStep, GlanceStep
  <2>. QED
    BY <1>2, <2>1, <2>2, <2>3, <2>4, <2>5, <2>6 DEF StepOf
<1>. QED
  BY <1>1, <1>2 DEF RegistryNext, StepOf

\* What was reported as done is on the disk.
LEMMA WordIsKept ==
  ASSUME RegistryConstants, RegistryInv
  PROVE  CommandsKeepTheirWord
<1>. SUFFICES ASSUME NEW p \in Processes, NEW c, c = command[p],
                     c.job # NoEntry, c.job.op # "list", c.at = 0,
                     Meant(c.job, c.job.source) \notin c.disturbed, MeantTarget(c) \notin c.disturbed,
                     NEW t \in DOMAIN names, t \notin c.disturbed
              PROVE  IF c.done THEN Found(names, files, t) = Promised(c)[t]
                     ELSE \/ Found(names, files, t) = c.before[t]
                          \/ c.file # 0 /\ t \in {Meant(c.job, c.job.source), MeantTarget(c)}
  BY Zenon DEF CommandsKeepTheirWord, View, Paths
<1>1. CallNow(c) = "none"
  BY DEF CallNow
<1>2. CommandFits(c, names, files)
  BY DEF RegistryInv
<1>3. Stage(c, "none", names, files)
  BY <1>1, <1>2 DEF CommandFits
<1>4. Over(c, names, files)
  BY <1>3 DEF Stage
<1>. QED
  BY <1>4 DEF Over, Clean

\* A listing that ended.
LEMMA ListedIsComplete ==
  ASSUME RegistryConstants, RegistryInv
  PROVE  ListingIsComplete
<1>. SUFFICES ASSUME NEW p \in Processes, NEW c, c = command[p], c.done, c.job.op = "list",
                     NEW t \in DOMAIN names, t \notin c.disturbed
              PROVE  t \in c.listed <=> t[1] = c.job.registry /\ Valid1(c.before[t])
  BY Zenon DEF ListingIsComplete, Paths
<1>1. c.job # NoEntry
  BY DEF RegistryInv, NotStarted
<1>2. CommandFits(c, names, files)
  BY DEF RegistryInv
<1>3. CallNow(c) = "none" /\ c.at = 0
  BY <1>1, <1>2 DEF CommandFits, CallNow
<1>4. Stage(c, "none", names, files)
  BY <1>1, <1>2, <1>3 DEF CommandFits
<1>5. Lists(c, "none", names)
  BY <1>4 DEF Stage
<1>6. /\ t \in c.listed => t[1] = c.job.registry /\ Valid1(c.before[t])
      /\ t[1] = c.job.registry /\ Valid1(c.before[t]) => t \in c.listed
  BY <1>5 DEF Lists
<1>. QED
  BY <1>6, Zenon

\* What is invalid was there before.
LEMMA InvalidWasThere ==
  ASSUME RegistryConstants, RegistryInv
  PROVE  NothingInvalidIsMade
BY DEF RegistryInv, DiskFits, Fine, NothingInvalidIsMade

\* Scaled profiles fit.
LEMMA AllFit ==
  ASSUME RegistryConstants, RegistryInv
  PROVE  ScaledProfilesFit
<1>. SUFFICES ASSUME NEW p \in Processes
              PROVE  ~command[p].unfit
  BY DEF ScaledProfilesFit
<1>1. CASE command[p].job = NoEntry
  BY <1>1 DEF RegistryInv, NotStarted
<1>2. CASE command[p].job # NoEntry
  <2>1. CommandShape(command[p])
    BY <1>2 DEF RegistryInv, CommandFits
  <2>. QED
    BY <2>1 DEF CommandShape
<1>. QED
  BY <1>1, <1>2

\* A step goes on with its own command alone.
LEMMA OneMoves ==
  ASSUME RegistryConstants, RegistryInv, NEW p \in Processes, StepOf(p), NEW q \in Processes, q # p
  PROVE  command'[q].at = command[q].at
<1>1. ASSUME NEW d, Moves(p, d)
      PROVE  command'[q].at = command[q].at
  <2>1. PICK moved : moved = {t \in Paths : \/ names'[t] # names[t]
                                            \/ Found(names, files, t) # Found(names', files', t)}
    OBVIOUS
  <2>2. command'[q] = CASE q = p -> d
                        [] q # p /\ command[q].job = NoEntry -> command[q]
                        [] OTHER -> [command[q] EXCEPT !.disturbed = @ \cup moved]
    BY <1>1, <2>1, Zenon DEF Moves
  <2>3. CASE command[q].job = NoEntry
    BY <2>2, <2>3
  <2>4. CASE command[q].job # NoEntry
    <3>1. CommandShape(command[q])
      BY <2>4 DEF RegistryInv, CommandFits
    <3>2. command'[q] = [command[q] EXCEPT !.disturbed = @ \cup moved]
      BY <2>2, <2>4
    <3>. QED
      BY <3>1, <3>2 DEF CommandShape
  <2>. QED
    BY <2>3, <2>4
<1>2. CASE StartCommand(p)
  BY <1>2 DEF StartCommand, RegistryInv
<1>3. CASE Breaks1(p)
  BY <1>1, <1>3 DEF Breaks1, Stops
<1>4. CASE LoadFile(p) \/ SizeGiven(p) \/ Absent(p) \/ Present(p)
  BY <1>1, <1>4 DEF LoadFile, SizeGiven, Absent, Present, Stops, Goes
<1>5. CASE Screen(p) \/ Make(p)
  BY <1>1, <1>5 DEF Screen, Make, Stops
<1>6. CASE Edit(p) \/ Fit(p)
  BY <1>1, <1>6 DEF Edit, Fit, Stops
<1>7. CASE Open(p) \/ OpenCopy(p)
  BY <1>1, <1>7 DEF Open, OpenCopy, Stops
<1>8. CASE Write(p) \/ Copy(p)
  BY <1>1, <1>8 DEF Write, Copy, Writes
<1>9. CASE Unlink(p) \/ Move(p)
  BY <1>1, <1>9 DEF Unlink, Move, Stops
<1>10. CASE Entries(p) \/ Look(p)
  BY <1>1, <1>10 DEF Entries, Look
<1>. QED
  BY <1>2, <1>3, <1>4, <1>5, <1>6, <1>7, <1>8, <1>9, <1>10 DEF StepOf

\* The steps that write, create, remove or move, and the others.
LEMMA WhatChangesADisk ==
  ASSUME NEW p, StepOf(p)
  PROVE  \/ OnDisk
         \/ /\ Call(p) \in Writing /\ names' = names
            /\ \E x : files' = [files EXCEPT ![command[p].file] = x]
         \/ Call(p) \in {"open", "open_copy"} /\ Truncates(TargetOf(p))
         \/ Call(p) = "unlink" /\ names' = [names EXCEPT ![SourceOf(p)] = 0]
         \/ /\ Call(p) = "move" /\ files' = files
            /\ names' = [names EXCEPT ![SourceOf(p)] = 0, ![TargetOf(p)] = names[SourceOf(p)]]
<1>1. CASE StartCommand(p)
  BY <1>1 DEF StartCommand
<1>2. CASE Breaks1(p)
  BY <1>2 DEF Breaks1, Stops, Writing
<1>3. CASE LoadFile(p) \/ SizeGiven(p) \/ Absent(p) \/ Present(p)
  BY <1>3 DEF LoadFile, SizeGiven, Absent, Present, Stops, Goes
<1>4. CASE Screen(p) \/ Make(p)
  BY <1>4 DEF Screen, Make, Stops
<1>5. CASE Edit(p) \/ Fit(p)
  BY <1>5 DEF Edit, Fit, Stops
<1>6. CASE Open(p) \/ OpenCopy(p)
  BY <1>6 DEF Open, OpenCopy, Stops
<1>7. CASE Write(p) \/ Copy(p)
  BY <1>7 DEF Write, Copy, Writes, Writing
<1>8. CASE Unlink(p)
  BY <1>8 DEF Unlink, Stops
<1>9. CASE Move(p)
  BY <1>9 DEF Move, Stops
<1>10. CASE Entries(p) \/ Look(p)
  BY <1>10 DEF Entries, Look
<1>. QED
  BY <1>1, <1>2, <1>3, <1>4, <1>5, <1>6, <1>7, <1>8, <1>9, <1>10 DEF StepOf

\* Only a removal unlinks, and only a renaming moves.
LEMMA WhoMoves ==
  ASSUME NEW ns, NEW fs, NEW c, NEW k \in {"unlink", "move"}, Runs(c, k, ns, fs)
  PROVE  /\ k = "unlink" => c.job.op = "remove"
         /\ k = "move" => c.job.op = "rename"
<1>1. PICK op \in Ops : op = c.job.op
  BY RunFacts
<1>2. \E k2 : Follows(op, k, k2)
  <2>1. PICK L : L = Len(Program(op))
    OBVIOUS
  <2>2. PICK k2 : k2 = IF c.at = L THEN "none" ELSE Program(op)[c.at + 1]
    OBVIOUS
  <2>3. Follows(op, k, k2)
    BY <1>1, <2>1, <2>2, RunFacts, Order
  <2>. QED
    BY <2>3
<1>3. PICK k2 : Follows(op, k, k2)
  BY <1>2
<1>. QED
  BY <1>1, <1>3 DEF Follows, Ops

\* A command that is not told to overwrite replaces no other's profile that it has seen.
LEMMA ReplacesNone ==
  ASSUME RegistryConstants, RegistryInv, NEW p \in Processes, StepOf(p),
         NEW c, c = command[p], c.job # NoEntry, ~c.job.force,
         c.job.op \notin {"add", "unbind", "example", "remove"},
         NEW t \in DOMAIN names, Found(names, files, t) # NoEntry,
         Found(names', files', t) # Found(names, files, t)
  PROVE  \/ t \in c.disturbed \/ names[t] = c.file
         \/ c.job.op = "rename" /\ t = Meant(c.job, c.job.source)
<1>1. CASE OnDisk
  BY <1>1 DEF OnDisk
<1>2. CASE /\ Call(p) \in Writing /\ names' = names
           /\ \E x : files' = [files EXCEPT ![command[p].file] = x]
  <2>1. PICK x : files' = [files EXCEPT ![c.file] = x]
    BY <1>2
  <2>2. names[t] # c.file => Found(names', files', t) = Found(names, files, t)
    <3>1. files \in Seq({files[n] : n \in DOMAIN files}) /\ names \in [DOMAIN names -> 0 .. Len(files)]
      BY DEF RegistryInv, DiskFits
    <3>2. PICK L \in Nat : L = Len(files) /\ DOMAIN files = 1 .. L
      BY <3>1, LenProperties
    <3>3. names[t] # 0 /\ names[t] # c.file => names[t] \in DOMAIN files /\ files'[names[t]] = files[names[t]]
      <4>1. names[t] # 0 => names[t] \in DOMAIN files
        BY <3>1, <3>2
      <4>2. \A n \in DOMAIN files : n # c.file => files'[n] = files[n]
        BY <2>1
      <4>. QED
        BY <4>1, <4>2
    <3>. QED
      BY <1>2, <3>3 DEF Found
  <2>. QED
    BY <1>2, <2>2
<1>3. CASE Call(p) \in {"open", "open_copy"} /\ Truncates(TargetOf(p))
  <2>1. PICK k \in {"open", "open_copy"} : k = Call(p)
    BY <1>3
  <2>2. Runs(c, k, names, files) /\ TargetOf(p) = TargetNow(c)
    BY <2>1, AtACall
  <2>3. PICK path : path = TargetNow(c)
    OBVIOUS
  <2>4. Truncated(names, files, path, names', files') /\ path \in DOMAIN names
    BY <1>3, <2>2, <2>3, OpensTarget DEF Truncated, Truncates, Exists
  <2>5. PICK opened : opened = IF names[path] # 0 THEN names[path] ELSE Len(files) + 1
    OBVIOUS
  <2>6. /\ DOMAIN names' = DOMAIN names
        /\ \A u \in DOMAIN names : u # path => Found(names', files', u) = Found(names, files, u)
    BY <2>4, <2>5, CreatedFile DEF RegistryInv
  <2>7. t = path
    BY <2>6
  <2>8. LookedAtTarget(c, names)
    BY <2>2, OpensTarget
  <2>. QED
    BY <2>3, <2>7, <2>8 DEF LookedAtTarget, Found
<1>4. CASE Call(p) = "unlink"
  <2>1. Runs(c, "unlink", names, files)
    BY <1>4, AtACall
  <2>. QED
    BY <2>1, WhoMoves
<1>5. CASE /\ Call(p) = "move" /\ files' = files
           /\ names' = [names EXCEPT ![SourceOf(p)] = 0, ![TargetOf(p)] = names[SourceOf(p)]]
  <2>1. Runs(c, "move", names, files) /\ TargetOf(p) = TargetNow(c) /\ SourceOf(p) = SourceNow(c)
    BY <1>5, AtACall
  <2>2. c.job.op = "rename" /\ LookedAtTarget(c, names)
    BY <2>1, WhoMoves, OpensTarget
  <2>3. SourceNow(c) = Meant(c.job, c.job.source)
    BY <2>1, <2>2, Places
  <2>4. PICK s : s = SourceNow(c)
    OBVIOUS
  <2>5. PICK u : u = TargetNow(c)
    OBVIOUS
  <2>6. names' = [names EXCEPT ![s] = 0, ![u] = names[s]]
    BY <1>5, <2>1, <2>4, <2>5
  <2>7. DOMAIN names' = DOMAIN names /\ (t # s /\ t # u => names'[t] = names[t])
    BY <2>6
  <2>8. t = s \/ t = u
    BY <1>5, <2>7 DEF Found
  <2>. QED
    BY <2>2, <2>3, <2>4, <2>5, <2>8 DEF LookedAtTarget, Found
<1>. QED
  BY <1>1, <1>2, <1>3, <1>4, <1>5, WhatChangesADisk

\* A path stays a path.
LEMMA SamePaths ==
  ASSUME RegistryConstants, RegistryInv, NEW p \in Processes, StepOf(p)
  PROVE  DOMAIN names' = DOMAIN names
BY WhatChangesADisk DEF OnDisk, Truncates

\* A command that is not told to overwrite replaces nothing that it could have seen.
LEMMA NoneIsReplaced ==
  ASSUME RegistryConstants, RegistryInv, [RegistryNext]_registryVars
  PROVE  NothingIsReplaced
<1>. SUFFICES ASSUME NEW p \in Processes, NEW t \in Paths,
                     command'[p].at # command[p].at, command[p].job # NoEntry, ~command[p].job.force,
                     command[p].job.op \notin {"add", "unbind", "example", "remove"},
                     View[t] # NoEntry, View'[t] # View[t]
              PROVE  \/ t \in command[p].disturbed \/ names[t] = command[p].file
                     \/ command[p].job.op = "rename" /\ t = Meant(command[p].job, command[p].job.source)
  BY DEF NothingIsReplaced
<1>1. PICK q \in Processes : StepOf(q)
  BY DEF RegistryNext, StepOf, registryVars
<1>2. q = p
  BY <1>1, OneMoves
<1>3. PICK c : c = command[p]
  OBVIOUS
<1>4. DOMAIN names' = DOMAIN names
  BY <1>1, SamePaths
<1>5. t \in DOMAIN names /\ Found(names, files, t) # NoEntry
  BY DEF View, Paths
<1>6. View' = [u \in DOMAIN names' |-> Found(names', files', u)]
  BY DEF View, Paths, Found
<1>7. View'[t] = Found(names', files', t) /\ View[t] = Found(names, files, t)
  BY <1>4, <1>5, <1>6 DEF View, Paths
<1>. QED
  BY <1>1, <1>2, <1>3, <1>5, <1>7, ReplacesNone

\* The commands on profiles keep their word, alone or beside each other, at whatever call they
\* end; none makes a profile invalid or replaces one unasked (registry.rs, profile.rs,
\* scaling.rs): every process, job, disk and screen.
THEOREM CommandsAreTrue == RegistrySpec => RegistryIsTrue
<1>1. RegistryInit => RegistryInv
  BY RegistryStarts, RegistryConstants
<1>2. RegistryInv /\ [RegistryNext]_registryVars => RegistryInv'
  BY RegistryKeeps, RegistryConstants
<1>3. RegistryInv => /\ CommandsKeepTheirWord /\ ListingIsComplete
                     /\ NothingInvalidIsMade /\ ScaledProfilesFit
  BY WordIsKept, ListedIsComplete, InvalidWasThere, AllFit, RegistryConstants
<1>4. RegistryInv /\ [RegistryNext]_registryVars => [NothingIsReplaced]_registryVars
  BY NoneIsReplaced, RegistryConstants
<1>. QED
  BY <1>1, <1>2, <1>3, <1>4, PTL DEF RegistrySpec, RegistryIsTrue

=============================================================================
