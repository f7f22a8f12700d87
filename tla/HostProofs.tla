----------------------------- MODULE HostProofs -----------------------------
(***************************************************************************)
(* Proofs about what Wroid keeps and changes on the host outside a game's  *)
(* input: the size of Android's display, the daemon and its upgrade, the   *)
(* system helper, the packages and images the Hub takes in, the tools for  *)
(* one finger, the page with the Hub's report on a game, and the choice of *)
(* a graphics node. Each part is a component of its own; none mentions     *)
(* another.                                                                *)
(***************************************************************************)
EXTENDS RenderSize, DaemonUpgrade, HelperInstall, ApkSideload, LiveTools, HubPage, GpuSetup, TLAPS

-----------------------------------------------------------------------------
(***************************************************************************)
(* RenderSize: a game starts at the size that was asked for, with its      *)
(* overlay on the display of its own Gamescope, and a size that could not  *)
(* be written is rolled back, for every set of sizes and of displays and   *)
(* however many sessions and failures there are.                           *)
(***************************************************************************)

\* with one session at a time, the nested display is always the first one
OnlyDisplay == FreeDisplay({})

SizeStages ==
  {"off", "start", "display", "await", "compare", "width", "height", "reread", "unwidth",
   "unheight", "undone", "stop", "restart", "again", "confirm", "live", "ending"}

Sizings ==
  [at : SizeStages, want : Sizes, found : Sizes, overlay : {0, OnlyDisplay},
   undone : BOOLEAN, tainted : BOOLEAN, runs : Nat]

SizeTyped ==
  /\ sizing \in Sizings
  /\ props \in Sizes
  /\ android \in [up : BOOLEAN, size : Sizes, ready : BOOLEAN]
  /\ session \in [display : {OnlyDisplay}, heard : BOOLEAN, said : BOOLEAN]
  /\ sizeFaults \in Nat

\* Gamescope lives and dies with Android
OneGamescope == nested = IF android.up THEN {OnlyDisplay} ELSE {}

AndroidFollowsStage ==
  /\ sizing.at \in {"start", "restart"} => ~android.up
  /\ sizing.at \notin {"off", "start", "restart", "ending"} => android.up

OverlayIsLearnt ==
  sizing.at \notin {"off", "start", "display", "ending"} => sizing.overlay = OnlyDisplay

\* a session hears only its own child
ReadyIsHeard ==
  /\ android.up /\ (session.heard \/ session.said) => android.ready
  /\ sizing.at \in {"compare", "width", "height", "reread", "unwidth", "unheight", "undone",
                    "stop", "confirm", "live"} => android.ready

\* the size of the running Android and the properties part only between the writes and
\* the boot that follows them
SizeIsBooted ==
  /\ sizing.at \in {"display", "await", "compare", "again", "confirm"} => android.size = props
  /\ SizingAt("live") => android.size = sizing.want

RollbackSoFar ==
  /\ sizing.at \notin {"off", "ending"} => ~sizing.undone
  /\ SizingAt("unheight") /\ ~sizing.tainted => props.w = sizing.found.w
  /\ SizingAt("undone") /\ ~sizing.tainted => props = sizing.found
  /\ SizeIsRolledBack

SizeIInv ==
  /\ SizeTyped /\ OneGamescope /\ AndroidFollowsStage /\ OverlayIsLearnt
  /\ ReadyIsHeard /\ SizeIsBooted /\ RollbackSoFar

-----------------------------------------------------------------------------

\* The invariant holds of a session that has not begun: no Gamescope, no Android.
LEMMA SizeInitHolds == SizeInit => SizeIInv
  BY SizeBounds
  DEF SizeInit, SizeIInv, SizeTyped, Sizings, SizeStages, OneGamescope, AndroidFollowsStage,
      OverlayIsLearnt, ReadyIsHeard, SizeIsBooted, RollbackSoFar, SizeIsRolledBack, SizingAt,
      NewSession, OnlyDisplay, Sizes

USE DEF SizeIInv, SizeTyped, Sizings, SizeStages, SizingAt, SizingTo, NoSizeFault,
        OneGamescope, AndroidFollowsStage, OverlayIsLearnt, ReadyIsHeard, SizeIsBooted,
        RollbackSoFar, SizeIsRolledBack

\* A session begins (run_game_session) on a container that is down.
LEMMA BeginSizingKeeps == SizeIInv /\ BeginSizing => SizeIInv'
  BY SizeBounds DEF BeginSizing

\* An error before a write has been undone ends the session, whatever the stage.
LEMMA SizingFailsKeeps ==
  ASSUME SizeIInv, SizingFails, sizing.at \notin {"off", "ending"},
         UNCHANGED <<props, android, session, nested>>
  PROVE  SizeIInv'
  BY SizeBounds DEF SizingFails

\* start_presented gives the first display, for there is no other Gamescope.
LEMMA StartPresentedKeeps ==
  ASSUME SizeIInv, NEW stage \in {"display", "again"}, StartPresented(stage), NoSizeFault,
         SizingAt(IF stage = "display" THEN "start" ELSE "restart")
  PROVE  SizeIInv'
  BY DEF StartPresented, NewSession, OnlyDisplay

\* gamescope_wayland_display returns the display of the session's own child.
LEMMA LearnDisplayKeeps == SizeIInv /\ LearnDisplay => SizeIInv'
<1> SUFFICES ASSUME SizeIInv, LearnDisplay PROVE SizeIInv'
  OBVIOUS
<1>1. CASE SizingFails
  BY <1>1, SizingFailsKeeps DEF LearnDisplay
<1>2. CASE ~SizingFails
  <2>1. sizing' = [sizing EXCEPT !.at = "await", !.overlay = session.display] /\ sizeFaults' = sizeFaults
    BY <1>2 DEF LearnDisplay
  <2>2. sizing' \in Sizings
    BY <2>1
  <2> QED
    BY <2>1, <2>2 DEF LearnDisplay
<1> QED
  BY <1>1, <1>2

\* Android and the session hear of readiness together.
LEMMA AndroidIsReadyKeeps == SizeIInv /\ AndroidIsReady => SizeIInv'
  BY DEF AndroidIsReady

\* wait_until_android_user_ready passes only when the own child has said so.
LEMMA AwaitAndroidKeeps == SizeIInv /\ AwaitAndroid => SizeIInv'
<1> SUFFICES ASSUME SizeIInv, AwaitAndroid PROVE SizeIInv'
  OBVIOUS
<1>1. CASE SizingFails /\ UNCHANGED session
  BY <1>1, SizingFailsKeeps DEF AwaitAndroid
<1>2. CASE /\ session.heard \/ session.said
           /\ session' = [session EXCEPT !.heard = TRUE]
           /\ SizingTo(IF SizingAt("await") THEN "compare" ELSE "confirm")
           /\ NoSizeFault
  <2>1. android.ready
    BY <1>2 DEF AwaitAndroid
  <2>2. session' \in [display : {OnlyDisplay}, heard : BOOLEAN, said : BOOLEAN]
    BY <1>2
  <2>3. sizing' \in Sizings
    BY <1>2
  <2>4. CASE SizingAt("await")
    BY <1>2, <2>1, <2>2, <2>3, <2>4 DEF AwaitAndroid
  <2>5. CASE SizingAt("again")
    BY <1>2, <2>1, <2>2, <2>3, <2>5 DEF AwaitAndroid
  <2> QED
    BY <2>4, <2>5 DEF AwaitAndroid
<1> QED
  BY <1>1, <1>2 DEF AwaitAndroid

\* A size that is found right is the size Android has booted with.
LEMMA CompareKeeps == SizeIInv /\ Compare => SizeIInv'
<1> SUFFICES ASSUME SizeIInv, Compare PROVE SizeIInv'
  OBVIOUS
<1>1. CASE SizingFails
  BY <1>1, SizingFailsKeeps DEF Compare
<1>2. CASE ~SizingFails
  <2>1. /\ sizing' = [sizing EXCEPT !.found = props,
                                    !.at = IF props = sizing.want THEN "confirm" ELSE "width"]
        /\ sizeFaults' = sizeFaults
    BY <1>2 DEF Compare
  <2>2. sizing' \in Sizings
    BY <2>1
  <2> QED
    BY <2>1, <2>2 DEF Compare
<1> QED
  BY <1>1, <1>2

\* What set_property leaves of the two properties and of the rollback's record.
LEMMA SetPropertyOutcomes ==
  ASSUME SizeTyped, NEW axis \in {"w", "h"}, NEW size \in Sizes, NEW ok \in SizeStages,
         NEW failed \in SizeStages, SetProperty(axis, size, ok, failed)
  PROVE  /\ sizing' \in Sizings /\ sizing'.at \in {ok, failed}
         /\ sizing'.want = sizing.want /\ sizing'.found = sizing.found
         /\ sizing'.overlay = sizing.overlay /\ (sizing'.undone <=> sizing.undone)
         /\ props' \in Sizes /\ sizeFaults' \in Nat
         /\ axis = "w" => props'.h = props.h
         /\ axis = "h" => props'.w = props.w
         /\ sizing.at \in {"unwidth", "unheight"} =>
              (~sizing'.tainted => ~sizing.tainted /\ props'[axis] = size[axis])
<1>1. CASE props' = [props EXCEPT ![axis] = size[axis]] /\ SizingTo(ok) /\ NoSizeFault
  BY <1>1 DEF Sizes
<1>2. CASE /\ sizeFaults' = sizeFaults + 1
           /\ \/ props' = [props EXCEPT ![axis] = size[axis]] \/ UNCHANGED props
           /\ \E stage \in {ok, failed} :
                sizing' = [sizing EXCEPT !.at = stage,
                                         !.tainted = @ \/ SizingAt("unwidth") \/ SizingAt("unheight")]
  <2>1. PICK stage \in {ok, failed} :
               sizing' = [sizing EXCEPT !.at = stage,
                                        !.tainted = @ \/ SizingAt("unwidth") \/ SizingAt("unheight")]
    BY <1>2
  <2>2. PICK tainted \in BOOLEAN :
               /\ sizing' = [sizing EXCEPT !.at = stage, !.tainted = tainted]
               /\ sizing.at \in {"unwidth", "unheight"} => tainted
    BY <2>1
  <2>3. sizing' \in Sizings
    BY <2>2
  <2>4. sizing.at \in {"unwidth", "unheight"} => sizing'.tainted
    BY <2>2
  <2>5. props' \in Sizes /\ (axis = "w" => props'.h = props.h) /\ (axis = "h" => props'.w = props.w)
    BY <1>2 DEF Sizes
  <2>6. /\ sizing'.at \in {ok, failed} /\ sizing'.want = sizing.want
        /\ sizing'.found = sizing.found /\ sizing'.overlay = sizing.overlay
    BY <2>2
  <2>7. sizing'.undone = sizing.undone
    BY <2>2
  <2> QED
    BY <1>2, <2>3, <2>4, <2>5, <2>6, <2>7
<1> QED
  BY <1>1, <1>2 DEF SetProperty

\* A write goes on to the next axis or to the rollback.
LEMMA SetWidthKeeps == SizeIInv /\ SetWidth => SizeIInv'
<1> SUFFICES ASSUME SizeIInv, SetWidth PROVE SizeIInv'
  OBVIOUS
<1>1. CASE sizing.found.w = sizing.want.w
  BY <1>1 DEF SetWidth
<1>2. CASE SetProperty("w", sizing.want, "height", "unwidth")
  <2>1. SizeTyped /\ sizing.want \in Sizes
    OBVIOUS
  <2>2. /\ sizing' \in Sizings /\ sizing'.at \in {"height", "unwidth"}
        /\ sizing'.overlay = sizing.overlay /\ (sizing'.undone <=> sizing.undone)
        /\ props' \in Sizes /\ sizeFaults' \in Nat
    <3> HIDE DEF SizeIInv, SizeTyped, Sizings, Sizes
    <3> QED
      BY <1>2, <2>1, SetPropertyOutcomes DEF SizeStages
  <2> QED
    BY <2>2 DEF SetWidth
<1> QED
  BY <1>1, <1>2 DEF SetWidth

\* The same for the height.
LEMMA SetHeightKeeps == SizeIInv /\ SetHeight => SizeIInv'
<1> SUFFICES ASSUME SizeIInv, SetHeight PROVE SizeIInv'
  OBVIOUS
<1>1. CASE sizing.found.h = sizing.want.h
  BY <1>1 DEF SetHeight
<1>2. CASE SetProperty("h", sizing.want, "reread", "unwidth")
  <2>1. SizeTyped /\ sizing.want \in Sizes
    OBVIOUS
  <2>2. /\ sizing' \in Sizings /\ sizing'.at \in {"reread", "unwidth"}
        /\ sizing'.overlay = sizing.overlay /\ (sizing'.undone <=> sizing.undone)
        /\ props' \in Sizes /\ sizeFaults' \in Nat
    <3> HIDE DEF SizeIInv, SizeTyped, Sizings, Sizes
    <3> QED
      BY <1>2, <2>1, SetPropertyOutcomes DEF SizeStages
  <2> QED
    BY <2>2 DEF SetHeight
<1> QED
  BY <1>1, <1>2 DEF SetHeight

\* Reading the properties back changes nothing but the stage.
LEMMA RereadKeeps == SizeIInv /\ Reread => SizeIInv'
<1> SUFFICES ASSUME SizeIInv, Reread PROVE SizeIInv'
  OBVIOUS
<1>1. /\ SizingAt("reread")
      /\ SizingTo("stop") \/ SizingTo("unwidth")
      /\ sizeFaults' \in Nat
      /\ UNCHANGED <<props, android, session, nested>>
  BY DEF Reread
<1> QED
  BY <1>1

\* The width is restored, or the rollback is known to have failed.
LEMMA UndoWidthKeeps == SizeIInv /\ UndoWidth => SizeIInv'
<1> SUFFICES ASSUME SizeIInv, UndoWidth PROVE SizeIInv'
  OBVIOUS
<1>1. SetProperty("w", sizing.found, "unheight", "unheight")
  BY DEF UndoWidth
<1>2. SizeTyped /\ sizing.found \in Sizes /\ sizing.at = "unwidth" /\ ~sizing.undone
  BY DEF UndoWidth
<1>3. /\ sizing' \in Sizings /\ sizing'.at = "unheight" /\ (sizing'.undone <=> sizing.undone)
      /\ sizing'.found = sizing.found /\ sizing'.overlay = sizing.overlay
      /\ props' \in Sizes /\ sizeFaults' \in Nat
  <2> HIDE DEF SizeIInv, SizeTyped, Sizings, Sizes
  <2> QED
    BY <1>1, <1>2, SetPropertyOutcomes DEF SizeStages
<1>4. ~sizing'.tainted => props'.w = sizing'.found.w
  <2> HIDE DEF SizeIInv, SizeTyped, Sizings, Sizes
  <2> QED
    BY <1>1, <1>2, <1>3, SetPropertyOutcomes DEF SizeStages
<1> QED
  BY <1>2, <1>3, <1>4 DEF UndoWidth

\* And the height: both properties are the ones that were found.
LEMMA UndoHeightKeeps == SizeIInv /\ UndoHeight => SizeIInv'
<1> SUFFICES ASSUME SizeIInv, UndoHeight PROVE SizeIInv'
  OBVIOUS
<1>1. SetProperty("h", sizing.found, "undone", "undone")
  BY DEF UndoHeight
<1>2. /\ SizeTyped /\ sizing.found \in Sizes /\ sizing.at = "unheight" /\ ~sizing.undone
      /\ (~sizing.tainted => props.w = sizing.found.w)
  BY DEF UndoHeight
<1>3. /\ sizing' \in Sizings /\ sizing'.at = "undone" /\ (sizing'.undone <=> sizing.undone)
      /\ sizing'.found = sizing.found /\ sizing'.overlay = sizing.overlay
      /\ props' \in Sizes /\ sizeFaults' \in Nat
  <2> HIDE DEF SizeIInv, SizeTyped, Sizings, Sizes
  <2> QED
    BY <1>1, <1>2, SetPropertyOutcomes DEF SizeStages
<1>4. ~sizing'.tainted => props'.w = sizing'.found.w /\ props'.h = sizing'.found.h
  <2> HIDE DEF SizeIInv, SizeTyped, Sizings, Sizes
  <2> QED
    BY <1>1, <1>2, <1>3, SetPropertyOutcomes DEF SizeStages
<1>5. ~sizing'.tainted => props' = sizing'.found
  BY <1>2, <1>3, <1>4 DEF Sizes
<1> QED
  BY <1>2, <1>3, <1>5 DEF UndoHeight

\* configure_resolution hands its error up after the rollback.
LEMMA ConfigureFailsKeeps == SizeIInv /\ ConfigureFails => SizeIInv'
  BY DEF ConfigureFails

\* stop within restart takes Android and Gamescope down together.
LEMMA StopForRestartKeeps == SizeIInv /\ StopForRestart => SizeIInv'
<1> SUFFICES ASSUME SizeIInv, StopForRestart PROVE SizeIInv'
  OBVIOUS
<1>1. CASE UNCHANGED <<android, nested>> /\ SizingFails
  BY <1>1, SizingFailsKeeps DEF StopForRestart
<1>2. CASE /\ android' = AndroidDown /\ nested' = nested \ {session.display}
           /\ SizingTo("restart") /\ NoSizeFault
  BY <1>2 DEF StopForRestart, AndroidDown
<1> QED
  BY <1>1, <1>2 DEF StopForRestart

\* The new Android boots with the properties as they have been read back.
LEMMA RestartKeeps == SizeIInv /\ Restart => SizeIInv'
<1> SUFFICES ASSUME SizeIInv, Restart PROVE SizeIInv'
  OBVIOUS
<1>1. CASE StartPresented("again") /\ NoSizeFault
  BY <1>1, StartPresentedKeeps DEF Restart
<1>2. CASE SizingFails /\ UNCHANGED <<props, android, session, nested>>
  BY <1>2, SizingFailsKeeps DEF Restart
<1> QED
  BY <1>1, <1>2 DEF Restart

\* The first boot of a session.
LEMMA StartFirstKeeps == SizeIInv /\ StartFirst => SizeIInv'
  BY StartPresentedKeeps DEF StartFirst

\* Only the size that was asked for is confirmed.
LEMMA ConfirmKeeps == SizeIInv /\ Confirm => SizeIInv'
<1> SUFFICES ASSUME SizeIInv, Confirm PROVE SizeIInv'
  OBVIOUS
<1>1. CASE SizingFails
  BY <1>1, SizingFailsKeeps DEF Confirm
<1>2. CASE props = sizing.want /\ SizingTo("live") /\ NoSizeFault
  BY <1>2 DEF Confirm
<1>3. CASE props # sizing.want /\ SizingTo("ending") /\ NoSizeFault
  BY <1>3 DEF Confirm
<1> QED
  BY <1>1, <1>2, <1>3 DEF Confirm

\* The end of a session, of its worker, or of what it has left running.
LEMMA EndKeeps == SizeIInv /\ (EndSizing \/ WorkerKilled \/ UserStopsAndroid) => SizeIInv'
<1> SUFFICES ASSUME SizeIInv, EndSizing \/ WorkerKilled \/ UserStopsAndroid PROVE SizeIInv'
  OBVIOUS
<1>1. CASE EndSizing
  BY <1>1 DEF EndSizing, AndroidDown
<1>2. CASE WorkerKilled
  BY <1>2 DEF WorkerKilled
<1>3. CASE UserStopsAndroid
  BY <1>3 DEF UserStopsAndroid, AndroidDown
<1> QED
  BY <1>1, <1>2, <1>3

\* Every step of a session keeps the invariant.
LEMMA SizeStepKeeps == SizeIInv /\ [SizeNext]_sizeVars => SizeIInv'
<1> SUFFICES ASSUME SizeIInv, [SizeNext]_sizeVars PROVE SizeIInv'
  OBVIOUS
<1>1. CASE UNCHANGED sizeVars
  BY <1>1 DEF sizeVars
<1>2. CASE SizeNext
  BY <1>2, BeginSizingKeeps, StartFirstKeeps, LearnDisplayKeeps, AndroidIsReadyKeeps,
     AwaitAndroidKeeps, CompareKeeps, SetWidthKeeps, SetHeightKeeps, RereadKeeps,
     UndoWidthKeeps, UndoHeightKeeps, ConfigureFailsKeeps, StopForRestartKeeps,
     RestartKeeps, ConfirmKeeps, EndKeeps, Zenon
  DEF SizeNext
<1> QED
  BY <1>1, <1>2

\* The invariant gives the two halves of the property.
LEMMA SizeIInvSuffices == SizeIInv => RenderSizeHolds
  BY DEF RenderSizeHolds, GameHasItsSize

HIDE DEF SizeIInv, SizeTyped, Sizings, SizeStages, SizingAt, SizingTo, NoSizeFault,
         OneGamescope, AndroidFollowsStage, OverlayIsLearnt, ReadyIsHeard, SizeIsBooted,
         RollbackSoFar, SizeIsRolledBack

\* run_game_session hands a game over only on an Android that has booted with the size
\* asked for and on its own Gamescope, and configure_resolution_properties leaves the
\* size it has found when it fails, unless the rollback's own writes went wrong.
THEOREM RenderSizeIsKept == SizeSpec => []RenderSizeHolds
<1>1. SizeIInv /\ [SizeNext]_sizeVars => SizeIInv'
  BY SizeStepKeeps
<1> QED
  BY SizeInitHolds, <1>1, SizeIInvSuffices, PTL DEF SizeSpec

-----------------------------------------------------------------------------
(***************************************************************************)
(* DaemonUpgrade: one daemon serves and games of two daemons never run     *)
(* side by side, and no client queues SIGTERM for a daemon with a game     *)
(* unless somebody else has resumed the daemon it had frozen, for any      *)
(* number of clients, daemons, releases and crashes.                       *)
(***************************************************************************)

WroiddStages == {"none", "booting", "leased", "serving", "closing", "gone"}

ClientStages ==
  {"start", "spawn", "failed", "unreachable", "ready", "list", "verify", "freeze", "check",
   "terminate", "resume", "exit", "poll", "asked", "waiting", "over", "dead"}

WroiddRecords ==
  [at : WroiddStages, release : Releases, frozen : BOOLEAN, term : BOOLEAN,
   taken : Upgraders \cup {Nobody}, game : Upgraders \cup {Nobody}, stopping : BOOLEAN]

ClientRecords == [at : ClientStages, release : Releases, peer : Wroidds \cup {Nobody}]

WroiddsTyped == wroidd \in [Wroidds -> WroiddRecords]

ClientsTyped == client \in [Upgraders -> ClientRecords]

\* who has the lock, and which stages need it
LeaseHeld == \A d \in Wroidds : wroidd[d].at \in {"leased", "serving", "closing"} => leased = d

SocketIsOwn == \A d \in Wroidds : wroidd[d].at = "serving" => socket = d

GamesAreServed == \A d \in Wroidds : wroidd[d].game # Nobody => wroidd[d].at \in {"serving", "closing"}

SocketTyped == socket \in Wroidds \cup {Nobody}

ServingInv ==
  /\ WroiddsTyped /\ ClientsTyped /\ SocketTyped
  /\ LeaseHeld /\ SocketIsOwn /\ GamesAreServed

-----------------------------------------------------------------------------
(* Types *)

\* A field of a daemon is replaced by a value of its type.
LEMMA PutTyped ==
  ASSUME WroiddsTyped, NEW d,
         NEW field \in {"frozen", "term", "stopping", "taken", "game"},
         NEW value,
         value \in (IF field \in {"taken", "game"} THEN Upgraders \cup {Nobody} ELSE BOOLEAN)
  PROVE  Put(d, field, value) \in [Wroidds -> WroiddRecords]
<1>1. CASE d \in Wroidds
  <2> DEFINE r == [wroidd[d] EXCEPT ![field] = value]
  <2>1. r \in WroiddRecords
    BY <1>1 DEF WroiddsTyped, WroiddRecords
  <2>2. Put(d, field, value) = [wroidd EXCEPT ![d] = r]
    BY DEF Put
  <2> QED
    BY <2>1, <2>2 DEF WroiddsTyped
<1>2. CASE d \notin Wroidds
  BY <1>2 DEF Put, WroiddsTyped
<1> QED
  BY <1>1, <1>2

\* To moves a client to one of its stages.
LEMMA ToTyped ==
  ASSUME ClientsTyped, NEW c \in Upgraders, NEW at \in ClientStages, To(c, at)
  PROVE  ClientsTyped'
  BY DEF ClientsTyped, ClientRecords, To

\* What runs is a daemon.
LEMMA RunningIsDaemon ==
  ASSUME WroiddsTyped, SocketTyped, Runs(socket) PROVE socket \in Wroidds
  BY DEF Runs, SocketTyped

\* Every step of a client leaves typed clients: ensure_running and the game after it.
LEMMA UpgraderTyped ==
  ASSUME ServingInv, NEW c \in Upgraders, UpgraderStep(c)
  PROVE  ClientsTyped'
<1> USE DEF ServingInv, ClientStages
<1>1. CASE Ping(c)
  <2>1. CASE Answers
    <3>1. socket \in Wroidds
      BY <2>1, RunningIsDaemon DEF Answers, Serves
    <3>2. CASE client' = [client EXCEPT ![c].peer = socket,
             ![c].at = IF wroidd[socket].release = client[c].release THEN "ready" ELSE "list"]
      BY <3>1, <3>2 DEF ClientsTyped, ClientRecords
    <3>3. CASE To(c, "spawn")
      BY <3>3, ToTyped
    <3> QED
      BY <1>1, <2>1, <3>2, <3>3 DEF Ping
  <2>2. CASE ~Answers
    BY <1>1, <2>2, ToTyped DEF Ping
  <2> QED
    BY <2>1, <2>2
<1>2. CASE ListSessions(c)
  BY <1>2, ToTyped DEF ListSessions
<1>3. CASE ArmGuard(c)
  BY <1>3, ToTyped DEF ArmGuard
<1>4. CASE Freeze(c)
  BY <1>4, ToTyped DEF Freeze
<1>5. CASE CheckFrozen(c)
  BY <1>5, ToTyped DEF CheckFrozen
<1>6. CASE Terminate(c)
  BY <1>6, ToTyped DEF Terminate
<1>7. CASE Resume(c)
  BY <1>7, ToTyped DEF Resume
<1>8. CASE AwaitExit(c)
  BY <1>8, ToTyped DEF AwaitExit
<1>9. CASE SpawnDaemon(c)
  <2>1. PICK d \in Wroidds : client' = [client EXCEPT ![c].at = "poll", ![c].peer = d]
    BY <1>9, Zenon DEF SpawnDaemon
  <2> QED
    BY <2>1 DEF ClientsTyped, ClientRecords
<1>10. CASE PollDaemon(c)
  BY <1>10, ToTyped DEF PollDaemon
<1>11. CASE RequestLaunch(c)
  <2>1. CASE Runs(socket)
    <3>1. socket \in Wroidds
      BY <2>1, RunningIsDaemon
    <3> QED
      BY <1>11, <2>1, <3>1 DEF RequestLaunch, ClientsTyped, ClientRecords
  <2>2. CASE ~Runs(socket)
    BY <1>11, <2>2, ToTyped DEF RequestLaunch
  <2> QED
    BY <2>1, <2>2
<1>12. CASE LoseAnswer(c)
  BY <1>12, ToTyped DEF LoseAnswer
<1>13. CASE PollGame(c)
  BY <1>13, ToTyped DEF PollGame
<1> QED
  BY <1>1, <1>2, <1>3, <1>4, <1>5, <1>6, <1>7, <1>8, <1>9, <1>10, <1>11, <1>12, <1>13,
     Zenon DEF UpgraderStep

-----------------------------------------------------------------------------
(* Steps that leave the stages of the daemons alone *)

\* stages and lock as they were, and no game that was not there
NoWroiddMoves ==
  /\ \A d \in Wroidds : /\ wroidd'[d].at = wroidd[d].at
                        /\ wroidd'[d].game \in {wroidd[d].game, Nobody}
  /\ UNCHANGED <<leased, socket>>

\* They keep the invariant.
LEMMA QuietKeeps ==
  ASSUME ServingInv, NoWroiddMoves, WroiddsTyped', ClientsTyped'
  PROVE  ServingInv'
  BY DEF ServingInv, NoWroiddMoves, LeaseHeld, SocketIsOwn, GamesAreServed, SocketTyped

\* A signal, a request or a stop changes one field of one daemon.
LEMMA PutIsQuiet ==
  ASSUME ServingInv, NEW d, NEW field \in {"frozen", "term", "stopping", "taken"}, NEW value,
         value \in (IF field = "taken" THEN Upgraders \cup {Nobody} ELSE BOOLEAN),
         wroidd' = Put(d, field, value), UNCHANGED <<leased, socket>>
  PROVE  NoWroiddMoves /\ WroiddsTyped'
<1>1. WroiddsTyped'
  BY PutTyped DEF ServingInv, WroiddsTyped
<1>2. ASSUME NEW e \in Wroidds
      PROVE  wroidd'[e].at = wroidd[e].at /\ wroidd'[e].game = wroidd[e].game
  BY DEF Put, ServingInv, WroiddsTyped, WroiddRecords
<1> QED
  BY <1>1, <1>2 DEF NoWroiddMoves

\* A step that touches no daemon.
LEMMA IdleIsQuiet == ServingInv /\ DaemonIdle => NoWroiddMoves /\ WroiddsTyped'
  BY DEF ServingInv, NoWroiddMoves, DaemonIdle, WroiddsTyped

-----------------------------------------------------------------------------
(* Every step *)

\* The daemon's steps, which alone move the lock, the socket and the games.
LEMMA WroiddStepKeeps ==
  ASSUME ServingInv, NEW d \in Wroidds,
         \/ AcquireLease(d) \/ BindSocket(d) \/ DispatchLaunch(d) \/ LeaveServing(d)
         \/ CloseDaemon(d) \/ GameEnds(d) \/ KillDaemon(d) \/ StopDaemon(d)
  PROVE  ServingInv'
<1> USE UpgradeBounds
<1> DEFINE Gone == [NoDaemon EXCEPT !.at = "gone"]
<1>1. Gone \in WroiddRecords /\ Gone.at = "gone" /\ Gone.game = Nobody
  BY DEF NoDaemon, WroiddRecords, WroiddStages
<1> HIDE DEF Gone
<1> USE DEF ServingInv, ClientsIdle
<1>2. CASE AcquireLease(d)
  <2>1. PICK at \in {"leased", "gone"} :
           /\ wroidd' = Put(d, "at", at)
           /\ at = "leased" => leased = Nobody /\ leased' = d
           /\ at = "gone" => leased' = leased
    BY <1>2 DEF AcquireLease
  <2>2. WroiddsTyped' /\ ClientsTyped' /\ SocketTyped'
    BY <1>2, <2>1 DEF AcquireLease, Put, WroiddsTyped, WroiddRecords, WroiddStages, ClientsTyped, SocketTyped
  <2>3. /\ wroidd[d].at = "booting" /\ wroidd'[d].at = at /\ wroidd'[d].game = wroidd[d].game
        /\ \A e \in Wroidds \ {d} : wroidd'[e] = wroidd[e]
    BY <1>2, <2>1 DEF AcquireLease, Put, WroiddsTyped, WroiddRecords
  <2>4. Nobody \notin Wroidds
    BY DEF Wroidds
  <2>5. LeaseHeld'
    BY <2>1, <2>3, <2>4 DEF LeaseHeld
  <2>6. SocketIsOwn' /\ GamesAreServed'
    BY <1>2, <2>1, <2>3 DEF AcquireLease, SocketIsOwn, GamesAreServed
  <2> QED
    BY <2>2, <2>5, <2>6
<1>3. CASE BindSocket(d)
  BY <1>3 DEF BindSocket, Put, WroiddsTyped, WroiddRecords, WroiddStages, ClientsTyped,
       SocketTyped, LeaseHeld, SocketIsOwn, GamesAreServed
<1>4. CASE LeaveServing(d)
  BY <1>4 DEF LeaveServing, Serves, Put, WroiddsTyped, WroiddRecords, WroiddStages, ClientsTyped,
       SocketTyped, LeaseHeld, SocketIsOwn, GamesAreServed
<1>5. CASE CloseDaemon(d)
  <2>1. wroidd' = [wroidd EXCEPT ![d] = Gone] /\ leased' = Nobody /\ leased = d
    BY <1>5 DEF CloseDaemon, LeaseHeld, Gone
  <2>2. WroiddsTyped' /\ ClientsTyped' /\ SocketTyped'
    BY <1>1, <1>5, <2>1 DEF CloseDaemon, WroiddsTyped, ClientsTyped, SocketTyped
  <2>3. /\ wroidd'[d].at = "gone" /\ wroidd'[d].game = Nobody
        /\ \A e \in Wroidds \ {d} : wroidd'[e] = wroidd[e]
    BY <1>1, <2>1 DEF WroiddsTyped
  <2>4. LeaseHeld'
    BY <2>1, <2>3 DEF LeaseHeld
  <2>5. SocketIsOwn' /\ GamesAreServed'
    BY <1>5, <2>3 DEF CloseDaemon, SocketIsOwn, GamesAreServed
  <2> QED
    BY <2>2, <2>4, <2>5
<1>6. CASE KillDaemon(d)
  <2>1. wroidd' = [wroidd EXCEPT ![d] = Gone] /\ leased' = IF leased = d THEN Nobody ELSE leased
    BY <1>6 DEF KillDaemon, Gone
  <2>2. WroiddsTyped' /\ ClientsTyped' /\ SocketTyped'
    BY <1>1, <1>6, <2>1 DEF KillDaemon, WroiddsTyped, ClientsTyped, SocketTyped
  <2>3. /\ wroidd'[d].at = "gone" /\ wroidd'[d].game = Nobody
        /\ \A e \in Wroidds \ {d} : wroidd'[e] = wroidd[e]
    BY <1>1, <2>1 DEF WroiddsTyped
  <2>4. LeaseHeld'
    BY <2>1, <2>3 DEF LeaseHeld
  <2>5. SocketIsOwn' /\ GamesAreServed'
    BY <1>6, <2>3 DEF KillDaemon, SocketIsOwn, GamesAreServed
  <2> QED
    BY <2>2, <2>4, <2>5
<1>7. CASE GameEnds(d)
  <2>1. WroiddsTyped'
    BY <1>7, PutTyped DEF GameEnds, WroiddsTyped
  <2>2. NoWroiddMoves
    BY <1>7 DEF GameEnds, Put, NoWroiddMoves, WroiddsTyped, WroiddRecords
  <2> QED
    BY <1>7, <2>1, <2>2, QuietKeeps DEF GameEnds, ClientsTyped
<1>8. CASE StopDaemon(d)
  BY <1>8, PutIsQuiet, QuietKeeps DEF StopDaemon, ClientsTyped
<1>9. CASE DispatchLaunch(d)
  <2> DEFINE c == wroidd[d].taken
  <2>1. c \in Upgraders /\ wroidd[d].at = "serving"
    BY <1>9 DEF DispatchLaunch, Serves, WroiddsTyped, WroiddRecords
  <2>2. ClientsTyped'
    <3>1. client[c].at \in ClientStages
      BY <2>1 DEF ClientsTyped, ClientRecords
    <3> QED
      BY <1>9, <2>1, <3>1, ToTyped DEF DispatchLaunch, ClientStages
  <2>3. CASE wroidd[d].game = Nobody
    <3>1. wroidd' = [wroidd EXCEPT ![d].taken = Nobody, ![d].stopping = FALSE,
                       ![d].game = IF client[c].release = wroidd[d].release THEN c ELSE @]
      BY <1>9, <2>3 DEF DispatchLaunch
    <3>2. PICK g \in Upgraders \cup {Nobody} :
                 wroidd' = [wroidd EXCEPT ![d].taken = Nobody, ![d].stopping = FALSE, ![d].game = g]
      BY <2>1, <2>3, <3>1
    <3>3. WroiddsTyped'
      BY <3>2 DEF WroiddsTyped, WroiddRecords
    <3>4. \A e \in Wroidds : /\ wroidd'[e].at = wroidd[e].at
                             /\ e # d => wroidd'[e].game = wroidd[e].game
      BY <3>2 DEF WroiddsTyped, WroiddRecords
    <3> QED
      BY <1>9, <2>1, <2>2, <3>3, <3>4 DEF DispatchLaunch, LeaseHeld, SocketIsOwn, GamesAreServed, SocketTyped
  <2>4. CASE wroidd[d].game # Nobody
    BY <1>9, <2>2, <2>4, PutIsQuiet, QuietKeeps DEF DispatchLaunch
  <2> QED
    BY <2>3, <2>4
<1> QED
  BY <1>2, <1>3, <1>4, <1>5, <1>6, <1>7, <1>8, <1>9

\* A client's steps: it starts daemons, freezes, resumes and asks, and moves no lock.
LEMMA UpgraderStepKeeps ==
  ASSUME ServingInv, NEW c \in Upgraders, UpgraderStep(c)
  PROVE  ServingInv'
<1>1. ClientsTyped'
  BY UpgraderTyped
<1>2. CASE DaemonIdle
  BY <1>1, <1>2, IdleIsQuiet, QuietKeeps
<1>3. ASSUME NEW d, NEW field \in {"frozen", "term"}, NEW value \in BOOLEAN,
             wroidd' = Put(d, field, value), UNCHANGED <<leased, socket>>
      PROVE  ServingInv'
  BY <1>1, <1>3, PutIsQuiet, QuietKeeps
<1>4. CASE Ping(c) \/ ListSessions(c) \/ ArmGuard(c) \/ AwaitExit(c) \/ PollDaemon(c)
           \/ LoseAnswer(c) \/ PollGame(c)
  BY <1>2, <1>4 DEF Ping, ListSessions, ArmGuard, AwaitExit, PollDaemon, LoseAnswer, PollGame
<1>5. CASE Freeze(c)
  <2>1. CASE Runs(client[c].peer)
    BY <1>3, <1>5, <2>1 DEF Freeze
  <2>2. CASE ~Runs(client[c].peer)
    BY <1>2, <1>5, <2>2 DEF Freeze, DaemonIdle
  <2> QED
    BY <2>1, <2>2
<1>6. CASE CheckFrozen(c)
  <2>1. CASE Continue(c, client[c].peer)
    BY <1>3, <1>6, <2>1 DEF CheckFrozen, Continue
  <2>2. CASE ~Continue(c, client[c].peer)
    BY <1>2, <1>6, <2>2 DEF CheckFrozen, DaemonIdle
  <2> QED
    BY <2>1, <2>2
<1>7. CASE Terminate(c)
  <2>1. CASE Runs(client[c].peer)
    BY <1>3, <1>7, <2>1 DEF Terminate
  <2>2. CASE ~Runs(client[c].peer)
    BY <1>2, <1>7, <2>2 DEF Terminate, DaemonIdle
  <2> QED
    BY <2>1, <2>2
<1>8. CASE Resume(c)
  BY <1>3, <1>8 DEF Resume, Continue
<1>9. CASE SpawnDaemon(c)
  <2>1. PICK d \in Wroidds :
           /\ wroidd[d].at = "none"
           /\ wroidd' = [wroidd EXCEPT ![d].at = "booting", ![d].release = client[c].release]
    BY <1>9, Zenon DEF SpawnDaemon
  <2>2. client[c].release \in Releases /\ UNCHANGED <<leased, socket>>
    BY <1>9 DEF SpawnDaemon, ServingInv, ClientsTyped, ClientRecords
  <2>3. WroiddsTyped'
    BY <2>1, <2>2 DEF ServingInv, WroiddsTyped, WroiddRecords, WroiddStages
  <2>4. /\ wroidd'[d].at = "booting" /\ wroidd'[d].game = wroidd[d].game
        /\ \A e \in Wroidds \ {d} : wroidd'[e] = wroidd[e]
    BY <2>1, <2>2 DEF ServingInv, WroiddsTyped, WroiddRecords
  <2> QED
    BY <1>1, <2>1, <2>2, <2>3, <2>4
    DEF ServingInv, SocketTyped, LeaseHeld, SocketIsOwn, GamesAreServed
<1>10. CASE RequestLaunch(c)
  <2>1. CASE Runs(socket)
    BY <1>1, <1>10, <2>1, PutIsQuiet, QuietKeeps DEF RequestLaunch
  <2>2. CASE ~Runs(socket)
    BY <1>2, <1>10, <2>2 DEF RequestLaunch, DaemonIdle
  <2> QED
    BY <2>1, <2>2
<1> QED
  BY <1>4, <1>5, <1>6, <1>7, <1>8, <1>9, <1>10, Zenon DEF UpgraderStep

\* What happens to a client from outside, its watchdog, and StopGame.
LEMMA AroundUpgraderKeeps ==
  ASSUME ServingInv, NEW c \in Upgraders, WatchdogResumes(c) \/ StopGame(c) \/ KillClient(c)
  PROVE  ServingInv'
<1> USE DEF ServingInv
<1>1. CASE WatchdogResumes(c)
  BY <1>1, PutIsQuiet, QuietKeeps DEF WatchdogResumes, Continue, ClientsTyped
<1>2. CASE StopGame(c)
  BY <1>2, PutIsQuiet, QuietKeeps DEF StopGame, ClientsIdle, ClientsTyped
<1>3. CASE KillClient(c)
  <2>1. ClientsTyped'
    BY <1>3, ToTyped DEF KillClient, ClientStages
  <2> QED
    BY <1>3, <2>1, IdleIsQuiet, QuietKeeps DEF KillClient
<1> QED
  BY <1>1, <1>2, <1>3

\* The daemon that runs at first has the lock and the socket.
LEMMA UpgradeInitHolds == UpgradeInit => ServingInv
<1> SUFFICES ASSUME UpgradeInit PROVE ServingInv
  OBVIOUS
<1> USE UpgradeBounds DEF UpgradeInit
<1>1. 1 \in Wroidds
  BY DEF Wroidds
<1>2. WroiddsTyped
  BY DEF WroiddsTyped, WroiddRecords, WroiddStages, NoDaemon
<1>3. \A d \in Wroidds : /\ wroidd[d].at = IF d = 1 THEN "serving" ELSE "none"
                         /\ wroidd[d].game = Nobody
  BY DEF NoDaemon
<1>4. ClientsTyped
  BY DEF ClientsTyped, ClientRecords, ClientStages
<1> QED
  BY <1>1, <1>2, <1>3, <1>4 DEF ServingInv, SocketTyped, LeaseHeld, SocketIsOwn, GamesAreServed

\* Every step keeps the invariant.
LEMMA UpgradeStepKeeps == ServingInv /\ [UpgradeNext]_upgradeVars => ServingInv'
<1> SUFFICES ASSUME ServingInv, [UpgradeNext]_upgradeVars PROVE ServingInv'
  OBVIOUS
<1>1. CASE UNCHANGED upgradeVars
  BY <1>1, IdleIsQuiet, QuietKeeps DEF upgradeVars, ServingInv, DaemonIdle, ClientsTyped
<1>2. CASE UpgradeNext
  BY <1>2, WroiddStepKeeps, UpgraderStepKeeps, AroundUpgraderKeeps DEF UpgradeNext, WroiddStep
<1> QED
  BY <1>1, <1>2

\* A daemon that serves has the lease and its own socket, and games of two daemons never
\* run side by side (Drop of the server ends the workers before the lease, ipc.rs).
THEOREM OneDaemonAlwaysServes == UpgradeSpec => []OneDaemonServes
<1>1. ServingInv => OneDaemonServes
  BY DEF ServingInv, OneDaemonServes, LeaseHeld, SocketIsOwn, GamesAreServed
<1> QED
  BY UpgradeInitHolds, UpgradeStepKeeps, <1>1, PTL DEF UpgradeSpec

-----------------------------------------------------------------------------
(* No SIGTERM for a daemon with a game *)

FreezeStages == {"list", "verify", "freeze", "check", "terminate"}

\* a daemon that takes no launch
Held(d) == wroidd[d].frozen \/ wroidd[d].at = "gone"

PeerWasStarted(c) ==
  client[c].at \in FreezeStages => client[c].peer \in Wroidds /\ wroidd[client[c].peer].at # "none"

PeerIsHeld(c) ==
  client[c].at \in {"check", "terminate"} /\ c \notin thawed => Held(client[c].peer)

PeerIsIdle(c) ==
  client[c].at = "terminate" /\ c \notin thawed => wroidd[client[c].peer].game = Nobody

FreezeInv == \A c \in Upgraders : PeerWasStarted(c) /\ PeerIsHeld(c) /\ PeerIsIdle(c)

\* what a daemon that is held may do: no more than end
Holds(d) ==
  /\ wroidd[d].at # "none" => wroidd'[d].at # "none"
  /\ wroidd[d].at # "none" /\ Held(d) => Held(d)' /\ (wroidd[d].game = Nobody => wroidd'[d].game = Nobody)

\* A client that a step leaves alone keeps its part of the invariant, if its daemon stays
\* held or the step is put down to somebody else.
LEMMA OthersKeep ==
  ASSUME ServingInv, FreezeInv, NEW c \in Upgraders, client'[c] = client[c],
         \A d \in Wroidds : wroidd[d].at # "none" => wroidd'[d].at # "none",
         c \in thawed => c \in thawed',
         \/ c \in thawed' \/ client[c].at \notin {"check", "terminate"}
         \/ Holds(client[c].peer)
  PROVE  PeerWasStarted(c)' /\ PeerIsHeld(c)' /\ PeerIsIdle(c)'
<1>1. PeerWasStarted(c) /\ PeerIsHeld(c) /\ PeerIsIdle(c)
  BY DEF FreezeInv
<1>2. PeerWasStarted(c)'
  BY <1>1 DEF PeerWasStarted
<1>3. ASSUME client[c].at \in {"check", "terminate"}, c \notin thawed'
      PROVE  /\ Held(client[c].peer)'
             /\ client[c].at = "terminate" => wroidd'[client[c].peer].game = Nobody
  BY <1>1, <1>3 DEF PeerWasStarted, PeerIsHeld, PeerIsIdle, FreezeStages, Holds
<1> QED
  BY <1>2, <1>3 DEF PeerIsHeld, PeerIsIdle, Held

\* A client in another stage has nothing to keep.
LEMMA ElsewhereKeeps ==
  ASSUME NEW c \in Upgraders, client'[c].at \notin FreezeStages
  PROVE  PeerWasStarted(c)' /\ PeerIsHeld(c)' /\ PeerIsIdle(c)'
  BY DEF PeerWasStarted, PeerIsHeld, PeerIsIdle, FreezeStages

\* A step that touches no daemon but to end it or to start it.
LEMMA IdleHolds == ServingInv /\ UNCHANGED wroidd => \A d \in Wroidds : Holds(d)
  BY DEF Holds, Held

\* A frozen daemon dispatches nothing, and one that has ended stays so.
LEMMA WroiddHolds ==
  ASSUME ServingInv, NEW d \in Wroidds,
         \/ AcquireLease(d) \/ BindSocket(d) \/ DispatchLaunch(d) \/ LeaveServing(d)
         \/ CloseDaemon(d) \/ GameEnds(d) \/ KillDaemon(d) \/ StopDaemon(d)
  PROVE  \A e \in Wroidds : Holds(e)
<1> DEFINE Gone == [NoDaemon EXCEPT !.at = "gone"]
<1>1. Gone.at = "gone" /\ Gone.game = Nobody
  BY DEF NoDaemon
<1> HIDE DEF Gone
<1>2. CASE AcquireLease(d) \/ BindSocket(d) \/ LeaveServing(d) \/ StopDaemon(d) \/ GameEnds(d)
  BY <1>2 DEF AcquireLease, BindSocket, LeaveServing, StopDaemon, GameEnds, Serves, Runs, Put,
              Holds, Held, ServingInv, WroiddsTyped, WroiddRecords
<1>3. CASE CloseDaemon(d) \/ KillDaemon(d)
  <2>1. wroidd' = [wroidd EXCEPT ![d] = Gone]
    BY <1>3 DEF CloseDaemon, KillDaemon, Gone
  <2> QED
    BY <1>1, <2>1 DEF Holds, Held, ServingInv, WroiddsTyped
<1>4. CASE DispatchLaunch(d)
  <2>1. ~Held(d) /\ wroidd[d].at = "serving"
    BY <1>4 DEF DispatchLaunch, Serves, Held
  <2>2. \A e \in Wroidds : e # d => wroidd'[e] = wroidd[e]
    BY <1>4 DEF DispatchLaunch, Put, ServingInv, WroiddsTyped
  <2>3. wroidd'[d].at = wroidd[d].at
    BY <1>4 DEF DispatchLaunch, Put, ServingInv, WroiddsTyped, WroiddRecords
  <2> QED
    BY <2>1, <2>2, <2>3 DEF Holds, Held
<1> QED
  BY <1>2, <1>3, <1>4

\* The daemons leave the clients what they rely on.
LEMMA WroiddStepSpares ==
  ASSUME ServingInv, FreezeInv, NEW d \in Wroidds,
         \/ AcquireLease(d) \/ BindSocket(d) \/ DispatchLaunch(d) \/ LeaveServing(d)
         \/ CloseDaemon(d) \/ GameEnds(d) \/ KillDaemon(d) \/ StopDaemon(d)
  PROVE  FreezeInv'
<1>1. \A e \in Wroidds : Holds(e)
  BY WroiddHolds
<1>2. UNCHANGED thawed
  BY DEF AcquireLease, BindSocket, DispatchLaunch, LeaveServing, CloseDaemon, GameEnds,
         KillDaemon, StopDaemon, ClientsIdle
<1>3. ASSUME NEW b \in Upgraders
      PROVE  client'[b] = client[b] \/ client'[b].at \notin FreezeStages
  <2>1. CASE UNCHANGED client
    BY <2>1
  <2>2. CASE DispatchLaunch(d)
    <3>1. wroidd[d].taken \in Upgraders
      BY <2>2 DEF DispatchLaunch, ServingInv, WroiddsTyped, WroiddRecords
    <3>2. \E at \in {"waiting", "failed", client[wroidd[d].taken].at} :
            /\ client' = [client EXCEPT ![wroidd[d].taken].at = at]
            /\ client[wroidd[d].taken].at # "asked" => at = client[wroidd[d].taken].at
            /\ client[wroidd[d].taken].at = "asked" => at \in {"waiting", "failed"}
      BY <2>2 DEF DispatchLaunch, To
    <3> QED
      BY <3>1, <3>2 DEF ServingInv, ClientsTyped, ClientRecords, FreezeStages
  <2> QED
    BY <2>1, <2>2 DEF AcquireLease, BindSocket, LeaveServing, CloseDaemon, GameEnds,
                      KillDaemon, StopDaemon, ClientsIdle
<1>4. ASSUME NEW b \in Upgraders
      PROVE  PeerWasStarted(b)' /\ PeerIsHeld(b)' /\ PeerIsIdle(b)'
  <2>1. CASE client'[b].at \notin FreezeStages
    BY <2>1, ElsewhereKeeps
  <2>2. CASE client'[b] = client[b]
    <3>1. client[b].at \in {"check", "terminate"} => Holds(client[b].peer)
      BY <1>1 DEF FreezeInv, PeerWasStarted, FreezeStages
    <3>2. \A e \in Wroidds : wroidd[e].at # "none" => wroidd'[e].at # "none"
      BY <1>1 DEF Holds
    <3> QED
      BY <1>2, <2>2, <3>1, <3>2, OthersKeep
  <2> QED
    BY <1>3, <2>1, <2>2
<1> QED
  BY <1>4 DEF FreezeInv

\* A client that leaves the daemons alone, or starts or marks one, spares the peers of
\* the other clients.
LEMMA StepOfOneSpares ==
  ASSUME ServingInv, FreezeInv, NEW c \in Upgraders,
         \A b \in Upgraders \ {c} : client'[b] = client[b] /\ (b \in thawed => b \in thawed'),
         \A d \in Wroidds : Holds(d),
         PeerWasStarted(c)' /\ PeerIsHeld(c)' /\ PeerIsIdle(c)'
  PROVE  FreezeInv'
<1>1. ASSUME NEW b \in Upgraders \ {c}
      PROVE  PeerWasStarted(b)' /\ PeerIsHeld(b)' /\ PeerIsIdle(b)'
  <2>1. client[b].at \in {"check", "terminate"} => Holds(client[b].peer)
    BY DEF FreezeInv, PeerWasStarted, FreezeStages
  <2>2. \A e \in Wroidds : wroidd[e].at # "none" => wroidd'[e].at # "none"
    BY DEF Holds
  <2> QED
    BY <2>1, <2>2, OthersKeep
<1> QED
  BY <1>1 DEF FreezeInv

\* SIGCONT is put down to the clients it surprises.
LEMMA ContinueSpares ==
  ASSUME ServingInv, FreezeInv, NEW c \in Upgraders, NEW d, Continue(c, d),
         \A b \in Upgraders \ {c} : client'[b] = client[b],
         client'[c].at \notin FreezeStages
  PROVE  FreezeInv'
<1>1. /\ \A e \in Wroidds : wroidd'[e].at = wroidd[e].at /\ wroidd'[e].game = wroidd[e].game
      /\ \A e \in Wroidds \ {d} : wroidd'[e] = wroidd[e]
  BY DEF Continue, Put, ServingInv, WroiddsTyped, WroiddRecords
<1>2. ASSUME NEW b \in Upgraders \ {c}
      PROVE  PeerWasStarted(b)' /\ PeerIsHeld(b)' /\ PeerIsIdle(b)'
  <2>1. b \in thawed => b \in thawed'
    BY DEF Continue
  <2>2. ASSUME b \notin thawed', client[b].at \in {"check", "terminate"}
        PROVE  Holds(client[b].peer)
    <3>1. client[b].peer \in Wroidds
      BY <2>2 DEF FreezeInv, PeerWasStarted, FreezeStages
    <3>2. CASE client[b].peer # d
      BY <1>1, <3>1, <3>2 DEF Holds, Held
    <3>3. CASE client[b].peer = d
      <4>1. ~wroidd[d].frozen
        BY <2>2, <3>3 DEF Continue
      <4> QED
        BY <1>1, <3>1, <3>3, <4>1 DEF Holds, Held
    <3> QED
      BY <3>2, <3>3
  <2>3. \A e \in Wroidds : wroidd[e].at # "none" => wroidd'[e].at # "none"
    BY <1>1
  <2> QED
    BY <2>1, <2>2, <2>3, OthersKeep
<1> QED
  BY <1>2, ElsewhereKeeps DEF FreezeInv

\* To moves one client and no other.
LEMMA ToMovesOne ==
  ASSUME ServingInv, NEW c \in Upgraders, NEW at, To(c, at)
  PROVE  /\ client'[c].at = at /\ client'[c].peer = client[c].peer
         /\ \A b \in Upgraders \ {c} : client'[b] = client[b]
  BY DEF To, ServingInv, ClientsTyped, ClientRecords

\* ensure_running: the client that terminates has seen a frozen daemon without children.
LEMMA UpgraderStepSpares ==
  ASSUME ServingInv, FreezeInv, NEW c \in Upgraders, UpgraderStep(c)
  PROVE  FreezeInv'
<1> DEFINE d == client[c].peer
<1>1. PeerWasStarted(c) /\ PeerIsHeld(c) /\ PeerIsIdle(c)
  BY DEF FreezeInv
<1>2. CASE Ping(c)
  <2>1. \A e \in Wroidds : Holds(e)
    BY <1>2, IdleHolds DEF Ping, DaemonIdle
  <2>2. CASE Answers /\ ~To(c, "spawn")
    <3>1. socket \in Wroidds /\ wroidd[socket].at = "serving"
      BY <2>2, RunningIsDaemon DEF Answers, Serves, ServingInv
    <3>2. /\ client'[c].at \in {"ready", "list"} /\ client'[c].peer = socket
          /\ \A b \in Upgraders \ {c} : client'[b] = client[b]
      BY <1>2, <2>2 DEF Ping, ServingInv, ClientsTyped, ClientRecords
    <3>3. PeerWasStarted(c)' /\ PeerIsHeld(c)' /\ PeerIsIdle(c)'
      BY <1>2, <3>1, <3>2 DEF Ping, DaemonIdle, PeerWasStarted, PeerIsHeld, PeerIsIdle
    <3> QED
      BY <1>2, <2>1, <3>2, <3>3, StepOfOneSpares DEF Ping
  <2>3. CASE \E at \in {"spawn", "failed", "unreachable"} : To(c, at)
    BY <1>2, <2>1, <2>3, ToMovesOne, ElsewhereKeeps, StepOfOneSpares DEF Ping, FreezeStages
  <2> QED
    BY <1>2, <2>2, <2>3 DEF Ping
<1>3. CASE ListSessions(c) \/ ArmGuard(c)
  <2>1. PICK at \in {"verify", "failed", "freeze", "spawn"} : To(c, at)
    BY <1>3 DEF ListSessions, ArmGuard
  <2>2. client[c].at \in FreezeStages /\ UNCHANGED <<wroidd, thawed>>
    BY <1>3 DEF ListSessions, ArmGuard, DaemonIdle, FreezeStages
  <2>3. PeerWasStarted(c)' /\ PeerIsHeld(c)' /\ PeerIsIdle(c)'
    BY <1>1, <2>1, <2>2, ToMovesOne DEF PeerWasStarted, PeerIsHeld, PeerIsIdle, FreezeStages
  <2> QED
    BY <2>1, <2>2, <2>3, ToMovesOne, IdleHolds, StepOfOneSpares
<1>4. CASE Freeze(c)
  <2>1. d \in Wroidds /\ wroidd[d].at # "none"
    BY <1>1, <1>4 DEF Freeze, PeerWasStarted, FreezeStages
  <2>2. /\ \A e \in Wroidds : wroidd'[e].at = wroidd[e].at /\ wroidd'[e].game = wroidd[e].game
        /\ \A e \in Wroidds : wroidd[e].frozen => wroidd'[e].frozen
    BY <1>4 DEF Freeze, Put, ServingInv, WroiddsTyped, WroiddRecords
  <2>3. wroidd'[d].frozen \/ wroidd'[d].at = "gone"
    <3>1. CASE Runs(d)
      BY <1>4, <2>1, <3>1 DEF Freeze, Put, ServingInv, WroiddsTyped, WroiddRecords
    <3>2. CASE ~Runs(d)
      <4>1. Nobody \notin Wroidds
        BY UpgradeBounds DEF Wroidds
      <4> QED
        BY <2>1, <2>2, <3>2, <4>1 DEF Runs
    <3> QED
      BY <3>1, <3>2
  <2>4. \A e \in Wroidds : Holds(e)
    BY <2>2 DEF Holds, Held
  <2>5. To(c, "check") /\ \A b \in Upgraders \ {c} : b \in thawed => b \in thawed'
    BY <1>4 DEF Freeze
  <2>6. PeerWasStarted(c)' /\ PeerIsHeld(c)' /\ PeerIsIdle(c)'
    BY <2>1, <2>2, <2>3, <2>5, ToMovesOne DEF PeerWasStarted, PeerIsHeld, PeerIsIdle, Held
  <2> QED
    BY <2>4, <2>5, <2>6, ToMovesOne, StepOfOneSpares
<1>5. CASE CheckFrozen(c)
  <2>1. CASE /\ Runs(d) /\ wroidd[d].frozen /\ wroidd[d].game = Nobody
             /\ To(c, "terminate") /\ UNCHANGED <<wroidd, thawed, guard>>
    <3>1. PeerWasStarted(c)' /\ PeerIsHeld(c)' /\ PeerIsIdle(c)'
      BY <1>1, <1>5, <2>1, ToMovesOne
      DEF CheckFrozen, PeerWasStarted, PeerIsHeld, PeerIsIdle, Held, FreezeStages
    <3> QED
      BY <2>1, <3>1, ToMovesOne, IdleHolds, StepOfOneSpares
  <2>2. CASE (To(c, "failed") \/ To(c, "spawn")) /\ Continue(c, d)
    BY <2>2, ToMovesOne, ContinueSpares DEF FreezeStages
  <2> QED
    BY <1>5, <2>1, <2>2 DEF CheckFrozen
<1>6. CASE Terminate(c)
  <2>1. \A e \in Wroidds : Holds(e)
    BY <1>6 DEF Terminate, Put, Holds, Held, ServingInv, WroiddsTyped, WroiddRecords
  <2> QED
    BY <1>6, <2>1, ToMovesOne, ElsewhereKeeps, StepOfOneSpares DEF Terminate, FreezeStages
<1>7. CASE Resume(c)
  BY <1>7, ToMovesOne, ContinueSpares DEF Resume, FreezeStages
<1>8. CASE SpawnDaemon(c)
  <2>1. PICK e \in Wroidds :
           /\ wroidd[e].at = "none"
           /\ wroidd' = [wroidd EXCEPT ![e].at = "booting", ![e].release = client[c].release]
           /\ client' = [client EXCEPT ![c].at = "poll", ![c].peer = e]
    BY <1>8, Zenon DEF SpawnDaemon
  <2>2. \A f \in Wroidds : Holds(f)
    BY <2>1 DEF Holds, Held, ServingInv, WroiddsTyped, WroiddRecords
  <2>3. /\ client'[c].at = "poll" /\ UNCHANGED thawed
        /\ \A b \in Upgraders \ {c} : client'[b] = client[b]
    BY <1>8, <2>1 DEF SpawnDaemon, ServingInv, ClientsTyped, ClientRecords
  <2> QED
    BY <2>2, <2>3, ElsewhereKeeps, StepOfOneSpares DEF FreezeStages
<1>9. CASE AwaitExit(c) \/ PollDaemon(c) \/ LoseAnswer(c) \/ PollGame(c)
  <2>1. PICK at \in {"failed", "spawn", "ready", "over"} : To(c, at)
    BY <1>9 DEF AwaitExit, PollDaemon, LoseAnswer, PollGame
  <2>2. UNCHANGED <<wroidd, thawed>>
    BY <1>9 DEF AwaitExit, PollDaemon, LoseAnswer, PollGame, DaemonIdle
  <2> QED
    BY <2>1, <2>2, ToMovesOne, IdleHolds, ElsewhereKeeps, StepOfOneSpares DEF FreezeStages
<1>10. CASE RequestLaunch(c)
  <2>1. \A e \in Wroidds : Holds(e)
    BY <1>10 DEF RequestLaunch, Put, Holds, Held, ServingInv, WroiddsTyped, WroiddRecords
  <2>2. /\ client'[c].at \in {"asked", "failed"}
        /\ \A b \in Upgraders \ {c} : client'[b] = client[b]
    BY <1>10 DEF RequestLaunch, To, ServingInv, ClientsTyped, ClientRecords
  <2> QED
    BY <1>10, <2>1, <2>2, ElsewhereKeeps, StepOfOneSpares DEF RequestLaunch, FreezeStages
<1> QED
  BY <1>2, <1>3, <1>4, <1>5, <1>6, <1>7, <1>8, <1>9, <1>10, Zenon DEF UpgraderStep

\* The watchdog of a client that is dead, StopGame and a client that is killed.
LEMMA AroundUpgraderSpares ==
  ASSUME ServingInv, FreezeInv, NEW c \in Upgraders,
         WatchdogResumes(c) \/ StopGame(c) \/ KillClient(c)
  PROVE  FreezeInv'
<1>1. CASE WatchdogResumes(c)
  BY <1>1, ContinueSpares DEF WatchdogResumes, FreezeStages
<1>2. CASE StopGame(c)
  <2>1. \A e \in Wroidds : Holds(e)
    BY <1>2 DEF StopGame, Put, Holds, Held, ServingInv, WroiddsTyped, WroiddRecords
  <2> QED
    BY <1>2, <2>1, ElsewhereKeeps, StepOfOneSpares DEF StopGame, ClientsIdle, FreezeStages
<1>3. CASE KillClient(c)
  BY <1>3, ToMovesOne, IdleHolds, ElsewhereKeeps, StepOfOneSpares
  DEF KillClient, DaemonIdle, FreezeStages
<1> QED
  BY <1>1, <1>2, <1>3

\* Every step keeps both invariants.
LEMMA FreezeStepKeeps == ServingInv /\ FreezeInv /\ [UpgradeNext]_upgradeVars => FreezeInv'
<1> SUFFICES ASSUME ServingInv, FreezeInv, [UpgradeNext]_upgradeVars PROVE FreezeInv'
  OBVIOUS
<1>1. CASE UNCHANGED upgradeVars
  BY <1>1 DEF upgradeVars, FreezeInv, PeerWasStarted, PeerIsHeld, PeerIsIdle, Held
<1>2. CASE UpgradeNext
  BY <1>2, WroiddStepSpares, UpgraderStepSpares, AroundUpgraderSpares DEF UpgradeNext, WroiddStep
<1> QED
  BY <1>1, <1>2

\* SIGTERM is queued for a daemon with a game only when somebody else has resumed the
\* daemon this client had frozen (stop_authenticated_idle_daemon, runtime_daemon.rs).
THEOREM TermAlwaysSparesGames == UpgradeSpec => TermSparesGames
<1>1. UpgradeInit => FreezeInv
  BY DEF UpgradeInit, FreezeInv, PeerWasStarted, PeerIsHeld, PeerIsIdle, FreezeStages
<1>2. ServingInv /\ FreezeInv =>
        \A c \in Upgraders : client[c].at = "terminate" =>
          wroidd[client[c].peer].game = Nobody \/ c \in thawed
  BY DEF FreezeInv, PeerIsIdle
<1> DEFINE Spares == \A c \in Upgraders :
       client[c].at = "terminate" /\ client'[c].at = "resume" =>
         wroidd[client[c].peer].game = Nobody \/ c \in thawed
<1>3. ServingInv /\ FreezeInv => Spares
  BY <1>2
<1> HIDE DEF Spares
<1>4. UpgradeSpec => [][Spares]_upgradeVars
  BY UpgradeInitHolds, UpgradeStepKeeps, FreezeStepKeeps, <1>1, <1>3, PTL DEF UpgradeSpec
<1> QED
  BY <1>4 DEF TermSparesGames, Spares

-----------------------------------------------------------------------------
(***************************************************************************)
(* HelperInstall: an installer that succeeded under a target nobody else   *)
(* replaced has installed what it read, for any number of installers,      *)
(* editions and failures.                                                  *)
(***************************************************************************)

\* from the file install(1) has made to the end of the installer
InstallingAt == {"copying", "securing", "checking", "comparing", "done"}

InstallStages == {"idle", "opening", "reading", "authorizing", "failed"} \cup InstallingAt

Bytes == Editions \cup {Missing, Unwritten}

InstallRecords ==
  [at : InstallStages, kind : {"none", "sudo", "graphical"}, bytes : Bytes, source : Bytes, orphan : BOOLEAN]

HelperTyped ==
  /\ inst \in [Installers -> InstallRecords]
  /\ target \in [file : Installers \cup {Missing}, bytes : Bytes, safe : BOOLEAN]
  /\ staged \in [{"binary", "helper", "daemon"} -> Editions \cup {Missing}]
  /\ deploying \in [at : {"idle", "binary", "helper", "daemon"}, edition : Editions \cup {Missing}]

\* What an installer finds of its own work, if nobody has touched the target since.
TargetIsOwn(i) ==
  /\ target.file = i
  /\ inst[i].at # "copying" => target.bytes = inst[i].source
  /\ inst[i].at \in {"checking", "comparing", "done"} => target.safe
  /\ inst[i].at \in {"comparing", "done"} => target.bytes # Unwritten
  /\ inst[i].at = "done" => target.bytes = inst[i].bytes

OwnOrMeddled(i) == inst[i].at \in InstallingAt /\ i \notin meddled => TargetIsOwn(i)

HelperInv == HelperTyped /\ \A i \in Installers : OwnOrMeddled(i)

-----------------------------------------------------------------------------

\* A step that changes neither the target nor what is known of it: the installer has done
\* nothing, or ends, or goes on with what it has found.
LEMMA InstallerKeeps ==
  ASSUME HelperInv, NEW i \in Installers, NEW r \in InstallRecords, inst' = [inst EXCEPT ![i] = r],
         UNCHANGED <<target, staged, deploying>>, meddled \ {i} \subseteq meddled',
         r.at \in InstallingAt => i \in meddled \/ TargetIsOwn(i)',
         r.at \in InstallingAt => meddled \subseteq meddled'
  PROVE  HelperInv'
<1>1. HelperTyped'
  BY DEF HelperInv, HelperTyped
<1>2. inst'[i] = r /\ \A j \in Installers \ {i} : inst'[j] = inst[j]
  BY DEF HelperInv, HelperTyped
<1>3. \A j \in Installers \ {i} : OwnOrMeddled(j)'
  BY <1>2 DEF HelperInv, OwnOrMeddled, TargetIsOwn
<1>4. OwnOrMeddled(i)'
  BY <1>2 DEF OwnOrMeddled
<1> QED
  BY <1>1, <1>3, <1>4 DEF HelperInv

\* A step that changes the target is known to everybody else at work on it.
LEMMA TargetKeeps ==
  ASSUME HelperInv, NEW i \in Installers, NEW r \in InstallRecords, inst' = [inst EXCEPT ![i] = r],
         UNCHANGED <<staged, deploying>>, Meddle(i),
         target' \in [file : Installers \cup {Missing}, bytes : Bytes, safe : BOOLEAN],
         r.at \in InstallingAt => i \in meddled \/ TargetIsOwn(i)'
  PROVE  HelperInv'
<1>1. HelperTyped'
  BY DEF HelperInv, HelperTyped
<1>2. inst'[i] = r /\ \A j \in Installers \ {i} : inst'[j] = inst[j]
  BY DEF HelperInv, HelperTyped
<1>3. \A j \in Installers \ {i} : inst[j].at \in InstallingAt => j \in meddled'
  BY DEF Meddle, InstallingAt
<1>4. \A j \in Installers \ {i} : OwnOrMeddled(j)'
  BY <1>2, <1>3 DEF OwnOrMeddled
<1>5. OwnOrMeddled(i)'
  BY <1>2 DEF OwnOrMeddled, Meddle
<1> QED
  BY <1>1, <1>4, <1>5 DEF HelperInv

\* Releases come and go without a word to the installers.
LEMMA DeployKeeps ==
  ASSUME HelperInv, DeployStarts \/ DeployFile \/ DeployFails
  PROVE  HelperInv'
<1>1. UNCHANGED <<target, inst, meddled>>
  BY DEF DeployStarts, DeployFile, DeployFails
<1>2. staged' \in [{"binary", "helper", "daemon"} -> Editions \cup {Missing}]
  BY DEF DeployStarts, DeployFile, DeployFails, HelperInv, HelperTyped
<1>3. deploying' \in [at : {"idle", "binary", "helper", "daemon"}, edition : Editions \cup {Missing}]
  <2>1. CASE DeployStarts
    BY <2>1 DEF DeployStarts
  <2>2. CASE DeployFile
    <3>0. deploying \in [at : {"idle", "binary", "helper", "daemon"}, edition : Editions \cup {Missing}]
      BY DEF HelperInv, HelperTyped
    <3>1. AfterFile(deploying.at, deploying.edition) \in {"idle", "binary", "helper", "daemon"}
      BY <2>2, <3>0 DEF DeployFile, AfterFile
    <3> QED
      BY <2>2, <3>0, <3>1 DEF DeployFile, NotDeploying
  <2>3. CASE DeployFails
    BY <2>3 DEF DeployFails, NotDeploying
  <2> QED
    BY <2>1, <2>2, <2>3
<1> QED
  BY <1>1, <1>2, <1>3 DEF HelperInv, HelperTyped, OwnOrMeddled, TargetIsOwn

\* The steps of an installer that leave the target alone.
LEMMA QuietInstallerKeeps ==
  ASSUME HelperInv, NEW i \in Installers,
         \/ \E from \in {"hub", "terminal", "sudo"} : StartInstall(i, from)
         \/ TakeHelperLease(i) \/ ReadStaged(i) \/ Denied(i) \/ CheckTarget(i) \/ CompareTarget(i)
         \/ InstallReturns(i) \/ KillInstaller(i)
  PROVE  HelperInv'
<1>0. /\ inst \in [Installers -> InstallRecords] /\ inst[i] \in InstallRecords
      /\ staged["helper"] \in Bytes
      /\ inst[i].at \in InstallingAt => i \in meddled \/ TargetIsOwn(i)
  BY DEF HelperInv, HelperTyped, OwnOrMeddled, Bytes
<1>1. CASE UNCHANGED <<target, staged, deploying, meddled>> /\
           \E at \in {"opening", "reading", "failed"} : Instant(i, at)
  <2>1. PICK at \in {"opening", "reading", "failed"} : Instant(i, at)
    BY <1>1
  <2>2. [inst[i] EXCEPT !.at = at] \in InstallRecords /\ [inst[i] EXCEPT !.at = at].at \notin InstallingAt
    BY <1>0 DEF InstallRecords, InstallStages, InstallingAt
  <2>3. inst' = [inst EXCEPT ![i] = [inst[i] EXCEPT !.at = at]]
    BY <2>1, <1>0 DEF Instant
  <2> QED
    BY <1>1, <2>2, <2>3, InstallerKeeps
<1>2. CASE \E from \in {"hub", "terminal", "sudo"} : StartInstall(i, from)
  <2>1. PICK at \in {"opening", "reading"}, kind \in {"sudo", "graphical"} :
          inst' = [inst EXCEPT ![i].at = at, ![i].kind = kind]
    BY <1>2 DEF StartInstall
  <2>2. inst' = [inst EXCEPT ![i] = [inst[i] EXCEPT !.at = at, !.kind = kind]]
    BY <1>0, <2>1
  <2>3. /\ [inst[i] EXCEPT !.at = at, !.kind = kind] \in InstallRecords
        /\ [inst[i] EXCEPT !.at = at, !.kind = kind].at \notin InstallingAt
    BY <1>0 DEF InstallRecords, InstallStages, InstallingAt
  <2>4. UNCHANGED <<target, staged, deploying, meddled>>
    BY <1>2 DEF StartInstall
  <2> QED
    BY <2>2, <2>3, <2>4, InstallerKeeps
<1>3. CASE TakeHelperLease(i) \/ Denied(i)
  BY <1>1, <1>3 DEF TakeHelperLease, Denied, Quit
<1>4. CASE ReadStaged(i)
  <2>1. CASE staged["helper"] = Missing
    BY <1>1, <1>4, <2>1 DEF ReadStaged, Quit
  <2>2. CASE staged["helper"] # Missing
    <3>1. PICK source \in Bytes :
            inst' = [inst EXCEPT ![i].at = "authorizing", ![i].bytes = staged["helper"], ![i].source = source]
      BY <1>0, <1>4, <2>2 DEF ReadStaged, Bytes
    <3> DEFINE r == [inst[i] EXCEPT !.at = "authorizing", !.bytes = staged["helper"], !.source = source]
    <3>2. inst' = [inst EXCEPT ![i] = r]
      BY <1>0, <3>1
    <3>3. r \in InstallRecords /\ r.at \notin InstallingAt
      BY <1>0 DEF InstallRecords, InstallStages, InstallingAt
    <3>4. UNCHANGED <<target, staged, deploying, meddled>>
      BY <1>4 DEF ReadStaged
    <3> HIDE DEF r
    <3> QED
      BY <3>2, <3>3, <3>4, InstallerKeeps
  <2> QED
    BY <2>1, <2>2
<1>5. CASE CheckTarget(i)
  <2>1. CASE target.safe /\ target.bytes # Unwritten
    <3> DEFINE r == [inst[i] EXCEPT !.at = "comparing"]
    <3>1. inst' = [inst EXCEPT ![i] = r]
      BY <1>0, <1>5, <2>1 DEF CheckTarget, Instant
    <3>2. r \in InstallRecords /\ r.at = "comparing" /\ r.source = inst[i].source
      BY <1>0 DEF InstallRecords, InstallStages, InstallingAt
    <3>3. UNCHANGED <<target, staged, deploying, meddled>> /\ inst[i].at = "checking"
      BY <1>5 DEF CheckTarget
    <3>4. inst'[i] = r
      BY <1>0, <3>1
    <3> HIDE DEF r
    <3>5. i \in meddled \/ TargetIsOwn(i)'
      BY <1>0, <2>1, <3>2, <3>3, <3>4 DEF TargetIsOwn, InstallingAt
    <3> QED
      BY <3>1, <3>2, <3>3, <3>5, InstallerKeeps
  <2>2. CASE ~(target.safe /\ target.bytes # Unwritten)
    BY <1>1, <1>5, <2>2 DEF CheckTarget, Quit
  <2> QED
    BY <2>1, <2>2
<1>6. CASE CompareTarget(i)
  <2>1. CASE target.bytes = inst[i].bytes
    <3> DEFINE r == [inst[i] EXCEPT !.at = "done"]
    <3>1. inst' = [inst EXCEPT ![i] = r]
      BY <1>0, <1>6, <2>1 DEF CompareTarget, Quit, Instant
    <3>2. r \in InstallRecords /\ r.at = "done" /\ r.source = inst[i].source /\ r.bytes = inst[i].bytes
      BY <1>0 DEF InstallRecords, InstallStages, InstallingAt
    <3>3. UNCHANGED <<target, staged, deploying, meddled>> /\ inst[i].at = "comparing"
      BY <1>6 DEF CompareTarget
    <3>4. inst'[i] = r
      BY <1>0, <3>1
    <3> HIDE DEF r
    <3>5. i \in meddled \/ TargetIsOwn(i)'
      BY <1>0, <2>1, <3>2, <3>3, <3>4 DEF TargetIsOwn, InstallingAt
    <3> QED
      BY <3>1, <3>2, <3>3, <3>5, InstallerKeeps
  <2>2. CASE target.bytes # inst[i].bytes
    BY <1>1, <1>6, <2>2 DEF CompareTarget, Quit
  <2> QED
    BY <2>1, <2>2
<1>7. CASE InstallReturns(i)
  <2>1. NoInstall \in InstallRecords /\ NoInstall.at \notin InstallingAt
    BY DEF NoInstall, InstallRecords, InstallStages, InstallingAt, Bytes
  <2> QED
    BY <1>7, <2>1, InstallerKeeps DEF InstallReturns
<1>8. CASE KillInstaller(i)
  <2>1. UNCHANGED <<target, staged, deploying, meddled>>
    BY <1>8 DEF KillInstaller
  <2>2. CASE inst' = [inst EXCEPT ![i].at = "failed"]
    BY <1>1, <2>1, <2>2 DEF Instant
  <2>3. CASE inst' = [inst EXCEPT ![i].orphan = TRUE]
    <3> DEFINE r == [inst[i] EXCEPT !.orphan = TRUE]
    <3>1. inst' = [inst EXCEPT ![i] = r]
      BY <1>0, <2>3
    <3>2. r \in InstallRecords /\ r.at = inst[i].at /\ r.source = inst[i].source /\ r.bytes = inst[i].bytes
      BY <1>0 DEF InstallRecords
    <3>3. inst'[i] = r
      BY <1>0, <3>1
    <3> HIDE DEF r
    <3>4. r.at \in InstallingAt => i \in meddled \/ TargetIsOwn(i)'
      BY <1>0, <2>1, <3>2, <3>3 DEF TargetIsOwn
    <3> QED
      BY <2>1, <3>1, <3>2, <3>4, InstallerKeeps
  <2> QED
    BY <1>8, <2>2, <2>3 DEF KillInstaller
<1> QED
  BY <1>2, <1>3, <1>4, <1>5, <1>6, <1>7, <1>8

\* install(1) makes the file, fills it and secures it.
LEMMA CopyKeeps ==
  ASSUME HelperInv, NEW i \in Installers, InstallCreates(i) \/ InstallCopies(i) \/ InstallSecures(i)
  PROVE  HelperInv'
<1>0. /\ inst \in [Installers -> InstallRecords] /\ inst[i] \in InstallRecords
      /\ target \in [file : Installers \cup {Missing}, bytes : Bytes, safe : BOOLEAN]
      /\ staged["helper"] \in Bytes
      /\ inst[i].at \in InstallingAt => i \in meddled \/ TargetIsOwn(i)
  BY DEF HelperInv, HelperTyped, OwnOrMeddled, Bytes
<1>1. CASE InstallCreates(i)
  <2> DEFINE source == IF inst[i].kind = "sudo" THEN staged["helper"] ELSE inst[i].source
  <2>1. source \in Bytes
    BY <1>0 DEF InstallRecords
  <2>2. CASE source = Missing
    <3> DEFINE r == [inst[i] EXCEPT !.at = "failed"]
    <3>1. inst' = [inst EXCEPT ![i] = r] /\ UNCHANGED <<target, staged, deploying, meddled>>
      BY <1>0, <1>1, <2>2 DEF InstallCreates, Quit, Instant
    <3>2. r \in InstallRecords /\ r.at \notin InstallingAt
      BY <1>0 DEF InstallRecords, InstallStages, InstallingAt
    <3> HIDE DEF r
    <3> QED
      BY <3>1, <3>2, InstallerKeeps
  <2>3. CASE source # Missing
    <3> DEFINE r == [inst[i] EXCEPT !.at = "copying", !.source = source]
    <3>1. /\ inst' = [inst EXCEPT ![i].at = "copying", ![i].source = source]
          /\ target' = [file |-> i, bytes |-> Unwritten, safe |-> FALSE]
          /\ UNCHANGED <<staged, deploying>> /\ Meddle(i)
      BY <1>1, <2>3 DEF InstallCreates
    <3>2. inst' = [inst EXCEPT ![i] = r] /\ inst'[i] = r
      BY <1>0, <3>1
    <3>3. r \in InstallRecords /\ r.at = "copying"
      BY <1>0, <2>1 DEF InstallRecords, InstallStages, InstallingAt
    <3>4. target' \in [file : Installers \cup {Missing}, bytes : Bytes, safe : BOOLEAN]
      BY <3>1 DEF Bytes
    <3> HIDE DEF r
    <3>5. TargetIsOwn(i)'
      BY <3>1, <3>2, <3>3 DEF TargetIsOwn
    <3> QED
      BY <3>1, <3>2, <3>3, <3>4, <3>5, TargetKeeps
  <2> QED
    BY <2>2, <2>3
<1>2. CASE InstallCopies(i)
  <2> DEFINE r == [inst[i] EXCEPT !.at = "securing"]
  <2>1. /\ inst' = [inst EXCEPT ![i] = r] /\ inst'[i] = r
        /\ UNCHANGED <<staged, deploying>> /\ Meddle(i)
        /\ inst[i].at = "copying"
    BY <1>0, <1>2 DEF InstallCopies, Instant
  <2>2. r \in InstallRecords /\ r.at = "securing" /\ r.source = inst[i].source
    BY <1>0 DEF InstallRecords, InstallStages, InstallingAt
  <2>3. target' = IF target.file = i THEN [target EXCEPT !.bytes = inst[i].source] ELSE target
    BY <1>2 DEF InstallCopies
  <2>4. inst[i].source \in Bytes
    BY <1>0 DEF InstallRecords
  <2>5. target' \in [file : Installers \cup {Missing}, bytes : Bytes, safe : BOOLEAN]
    BY <1>0, <2>3, <2>4
  <2> HIDE DEF r
  <2>6. i \in meddled \/ TargetIsOwn(i)'
    BY <1>0, <2>1, <2>2, <2>3 DEF TargetIsOwn, InstallingAt
  <2> QED
    BY <2>1, <2>2, <2>5, <2>6, TargetKeeps
<1>3. CASE InstallSecures(i)
  <2>1. PICK at \in {"failed", "checking"} : Instant(i, at)
    BY <1>3 DEF InstallSecures
  <2> DEFINE r == [inst[i] EXCEPT !.at = at]
  <2>2. /\ inst' = [inst EXCEPT ![i] = r] /\ inst'[i] = r
        /\ UNCHANGED <<staged, deploying>> /\ Meddle(i)
        /\ inst[i].at = "securing"
    BY <1>0, <1>3, <2>1 DEF InstallSecures, Instant
  <2>3. r \in InstallRecords /\ r.at = at /\ r.source = inst[i].source
    BY <1>0 DEF InstallRecords, InstallStages, InstallingAt
  <2>4. target' = [target EXCEPT !.safe = TRUE]
    BY <1>3 DEF InstallSecures
  <2>5. target' \in [file : Installers \cup {Missing}, bytes : Bytes, safe : BOOLEAN]
    BY <1>0, <2>4
  <2>6. target'.file = target.file /\ target'.bytes = target.bytes /\ target'.safe
    BY <1>0, <2>4
  <2> HIDE DEF r
  <2>7. r.at \in InstallingAt => i \in meddled \/ TargetIsOwn(i)'
    BY <1>0, <2>2, <2>3, <2>6 DEF TargetIsOwn, InstallingAt
  <2> QED
    BY <2>2, <2>3, <2>5, <2>7, TargetKeeps
<1> QED
  BY <1>1, <1>2, <1>3

\* Nothing has been installed yet.
LEMMA HelperInitHolds == HelperInit => HelperInv
<1> SUFFICES ASSUME HelperInit PROVE HelperInv
  OBVIOUS
<1>1. HelperTyped
  BY HelperBounds DEF HelperInit, HelperTyped, NoInstall, NotDeploying, InstallRecords, InstallStages, InstallingAt, Bytes
<1>2. \A i \in Installers : inst[i].at = "idle"
  BY DEF HelperInit, NoInstall
<1> QED
  BY <1>1, <1>2 DEF HelperInv, OwnOrMeddled, InstallingAt

\* Every step keeps the invariant.
LEMMA HelperStepKeeps == HelperInv /\ [HelperNext]_helperVars => HelperInv'
<1> SUFFICES ASSUME HelperInv, [HelperNext]_helperVars PROVE HelperInv'
  OBVIOUS
<1>1. CASE UNCHANGED helperVars
  BY <1>1 DEF helperVars, HelperInv, HelperTyped, OwnOrMeddled, TargetIsOwn
<1> QED
  BY <1>1, DeployKeeps, QuietInstallerKeeps, CopyKeeps DEF HelperNext, InstallerStep

\* An installation that reports success has installed the bytes it has read, and readiness
\* says so, however many installers and releases come between
\* (validate_installed_release).
THEOREM InstalledIsAlwaysWhatWasRead == HelperSpec => []InstalledIsWhatWasRead
<1>1. HelperInv => InstalledIsWhatWasRead
  <2> SUFFICES ASSUME HelperInv, NEW i \in Installers, inst[i].at = "done", i \notin meddled
               PROVE  /\ target.bytes = inst[i].bytes
                      /\ Readiness \in {"installing", "ready"}
                                      \cup {s \in {"outdated"} : staged["helper"] # inst[i].bytes}
    BY DEF InstalledIsWhatWasRead
  <2>1. TargetIsOwn(i)
    BY DEF HelperInv, OwnOrMeddled, InstallingAt
  <2>2. target.file # Missing /\ target.safe /\ target.bytes # Unwritten /\ target.bytes = inst[i].bytes
    BY <2>1, MissingIsNobody DEF TargetIsOwn
  <2> QED
    BY <2>2 DEF Readiness
<1> QED
  BY HelperInitHolds, HelperStepKeeps, <1>1, PTL DEF HelperSpec

-----------------------------------------------------------------------------
(***************************************************************************)
(* ApkSideload: a package is decided once. The lock of a ticket has one    *)
(* owner; whoever finds the package inspected under it is the only one to  *)
(* decide, and the status stays decided until the ticket is given back.    *)
(* The invariant is a conjunction for each ticket, so that a step about    *)
(* one ticket is proved for this ticket alone.                             *)
(***************************************************************************)

ThreadStages == {"idle", "claim", "check", "unlock", "install", "spawn", "reset",
                 "discard", "forget", "release", "done", "failed"}

WorkerStages == {"none", "start", "install", "installed", "failed", "unlock good", "unlock bad",
                 "report good", "report bad"}

UploadStages == {"none", "receiving", "published", "staged", "accepted", "refused", "over"}

ThreadRecords == [kind : {"none", "install", "discard"}, ticket : Tickets \cup {None}, at : ThreadStages]

WorkerRecords == [at : WorkerStages, ticket : Tickets \cup {None}]

FilesTyped == files \in [Tickets -> SUBSET Names] /\ old \in [Tickets -> SUBSET Names]

SideloadTyped ==
  /\ FilesTyped
  /\ status \in [Tickets -> States]
  /\ upload \in [Tickets -> UploadStages]
  /\ thread \in [Threads -> ThreadRecords]
  /\ worker \in [Workers -> WorkerRecords]
  /\ intake.ticket \in Tickets \cup {None}
  /\ DOMAIN intake = {"state", "ticket", "awaits"}
  /\ cleaner \subseteq Tickets \X Names
  /\ installs \in [Tickets -> Nat]
  /\ told \subseteq Tickets
  /\ lost \in [Tickets -> BOOLEAN]

\* Threads and workers have a ticket while they are at work.
TicketsTaken ==
  /\ \A h \in Threads : thread[h].at = "idle" <=> thread[h].ticket = None
  /\ \A w \in Workers : worker[w].at = "none" <=> worker[w].ticket = None

ThreadsOf(t) == {h \in Threads : thread[h].ticket = t}
WorkersOf(t) == {w \in Workers : worker[w].ticket = t}

\* who has made the lock file and not given it away
HasLock(a) == a \in {"check", "unlock", "install", "spawn", "discard", "forget", "release"}
OwnsLock(a) == a \in {"start", "install", "installed", "failed", "unlock good", "unlock bad"}

\* who has found the package inspected, and what it was asked to do
Installs(a) == a \in {"install", "spawn", "reset"}
Discards(a) == a \in {"discard", "forget", "release"}
Decides(a) == Installs(a) \/ Discards(a)

\* Before the page has its ticket nobody asks for anything.
Fresh(t) ==
  /\ upload[t] # "over" =>
       /\ ThreadsOf(t) = {} /\ WorkersOf(t) = {} /\ installs[t] = 0
       /\ t \notin told /\ intake.ticket # t
  /\ upload[t] \in {"none", "receiving", "published", "staged"} => ~Has(t, "status")
  /\ upload[t] \in {"published", "staged"} /\ t \notin swept => Has(t, "apk")

\* The lock of a ticket has one owner at a time, and no Hub that starts takes it away.
OneOwner(t) ==
  /\ \A h \in ThreadsOf(t) : HasLock(thread[h].at) =>
       /\ Has(t, "lock") /\ "lock" \notin old[t]
       /\ \A g \in ThreadsOf(t) : HasLock(thread[g].at) => g = h
       /\ \A w \in WorkersOf(t) : ~OwnsLock(worker[w].at)
  /\ \A w \in WorkersOf(t) : OwnsLock(worker[w].at) => Has(t, "lock") /\ "lock" \notin old[t]

\* One of them decides: whoever found the package inspected.
OneDecides(t) ==
  /\ \A h \in ThreadsOf(t) : Decides(thread[h].at) =>
       /\ \A g \in ThreadsOf(t) : Decides(thread[g].at) => g = h
       /\ WorkersOf(t) = {}
  /\ \A v, w \in WorkersOf(t) : v = w

\* While it does, nobody else can find it inspected.
Undecided(t) ==
  /\ \A h \in ThreadsOf(t) : thread[h].at \in {"spawn", "reset"} => status[t] # "inspected"
  /\ WorkersOf(t) # {} => status[t] # "inspected"

KindsFit(t) ==
  \A h \in ThreadsOf(t) : /\ Installs(thread[h].at) => thread[h].kind = "install"
                          /\ Discards(thread[h].at) => thread[h].kind = "discard"
                          /\ thread[h].kind \in {"install", "discard"}

\* The package is there until it is decided.
PackageFollows(t) ==
  /\ t \notin swept =>
       /\ \A h \in ThreadsOf(t) : thread[h].at \in {"install", "spawn"} => Has(t, "apk")
       /\ \A w \in WorkersOf(t) : worker[w].at \in {"start", "install"} => Has(t, "apk")
  /\ \A h \in ThreadsOf(t) : thread[h].at \in {"forget", "release"} => ~Has(t, "apk")
  /\ \A w \in WorkersOf(t) :
       worker[w].at \in {"unlock good", "unlock bad", "report good", "report bad"} => ~Has(t, "apk")

\* The installer runs once.
RunsOnce(t) ==
  /\ installs[t] \in {0, 1}
  /\ installs[t] = 1 =>
       /\ status[t] # "inspected" /\ \A h \in ThreadsOf(t) : ~Decides(thread[h].at)
       /\ \A w \in WorkersOf(t) : worker[w].at \notin {"start", "install"}
  /\ \A w \in WorkersOf(t) :
       worker[w].at \in {"installed", "unlock good", "report good"} => installs[t] = 1

\* A discarded package is gone.
Discarded(t) ==
  t \in told \/ \E h \in ThreadsOf(t) : thread[h].kind = "discard" /\ thread[h].at = "done"

StaysDiscarded(t) ==
  Discarded(t) => /\ installs[t] = 0 /\ ~Has(t, "apk") /\ WorkersOf(t) = {}
                  /\ \A h \in ThreadsOf(t) : ~Decides(thread[h].at)

ResetIsLost(t) == \A h \in ThreadsOf(t) : thread[h].at = "reset" => lost[t]

StatusTrue(t) ==
  Has(t, "status") /\ ~lost[t] /\ t \notin swept =>
    /\ status[t] = "inspected" => Has(t, "apk") \/ \E h \in ThreadsOf(t) : thread[h].at = "forget"
    /\ status[t] \in {"queued", "installing"} =>
         \/ \E h \in ThreadsOf(t) : thread[h].at = "spawn"
         \/ WorkersOf(t) # {} /\ (Has(t, "apk") => Has(t, "lock"))
    /\ status[t] = "installed" => installs[t] = 1
    /\ status[t] = "failed" => ~Has(t, "apk")

TicketInv(t) ==
  /\ Fresh(t) /\ OneOwner(t) /\ OneDecides(t) /\ Undecided(t) /\ KindsFit(t)
  /\ PackageFollows(t) /\ RunsOnce(t) /\ StaysDiscarded(t) /\ ResetIsLost(t) /\ StatusTrue(t)

SideInv == SideloadTyped /\ TicketsTaken /\ \A t \in Tickets : TicketInv(t)

-----------------------------------------------------------------------------
(* One ticket at a time *)

\* what a ticket's invariant speaks of, but for threads, workers and the page
KeptOnDisk(t) ==
  UNCHANGED <<files[t], old[t], status[t], upload[t], installs[t], lost[t]>>

KeptInHistory(t) == (t \in told <=> t \in told') /\ (t \in swept <=> t \in swept')

KeptThreads(t) == ThreadsOf(t)' = ThreadsOf(t) /\ \A h \in ThreadsOf(t) : thread'[h] = thread[h]

KeptWorkers(t) == WorkersOf(t)' = WorkersOf(t) /\ \A w \in WorkersOf(t) : worker'[w] = worker[w]

\* the page does not learn of t too early
PageWaits(t) == intake'.ticket = t => upload'[t] = "over"

\* What is not touched keeps its invariant.
LEMMA KeptTicket ==
  ASSUME NEW t \in Tickets, TicketInv(t), KeptOnDisk(t), KeptInHistory(t), KeptThreads(t), KeptWorkers(t),
         PageWaits(t)
  PROVE  TicketInv(t)'
<1> USE DEF TicketInv, KeptOnDisk, KeptInHistory, KeptThreads, KeptWorkers, PageWaits, Has
<1>1. Fresh(t)'
  BY DEF Fresh
<1>2. OneOwner(t)' /\ OneDecides(t)'
  BY DEF OneOwner, OneDecides
<1>3. Undecided(t)' /\ KindsFit(t)' /\ PackageFollows(t)'
  BY DEF Undecided, KindsFit, PackageFollows
<1>4. RunsOnce(t)' /\ ResetIsLost(t)'
  BY DEF RunsOnce, ResetIsLost
<1>5. StaysDiscarded(t)'
  BY DEF StaysDiscarded, Discarded
<1>6. StatusTrue(t)'
  BY DEF StatusTrue
<1> QED
  BY <1>1, <1>2, <1>3, <1>4, <1>5, <1>6

\* a thread goes to another stage
Turns(h, t, at) ==
  /\ ThreadsOf(t)' = ThreadsOf(t) /\ h \in ThreadsOf(t)
  /\ thread'[h].at = at /\ thread'[h].kind = thread[h].kind
  /\ \A g \in ThreadsOf(t) : g # h => thread'[g] = thread[g]

\* no ticket but t is touched
OnlyTicket(t) ==
  \A u \in Tickets \ {t} : KeptOnDisk(u) /\ KeptInHistory(u) /\ KeptThreads(u) /\ KeptWorkers(u) /\ PageWaits(u)

\* A step about one ticket keeps the invariant if it does so for this ticket.
LEMMA OneTicketKeeps ==
  ASSUME SideInv, NEW t \in Tickets, SideloadTyped', TicketsTaken', OnlyTicket(t), TicketInv(t)'
  PROVE  SideInv'
<1>1. \A u \in Tickets \ {t} : TicketInv(u)'
  BY KeptTicket DEF SideInv, OnlyTicket
<1> QED
  BY <1>1 DEF SideInv

\* ThreadAt, of a thread with a ticket.
LEMMA ThreadTurns ==
  ASSUME SideInv, NEW h \in Threads, NEW t, thread[h].ticket = t,
         NEW at \in ThreadStages \ {"idle"}, ThreadAt(h, at), thread[h].at # "idle"
  PROVE  /\ t \in Tickets /\ upload[t] = "over" /\ Turns(h, t, at)
         /\ \A u \in Tickets \ {t} : KeptThreads(u)
         /\ thread' \in [Threads -> ThreadRecords]
         /\ UNCHANGED worker => TicketsTaken'
<1>1. thread \in [Threads -> ThreadRecords] /\ thread[h] \in ThreadRecords
  BY DEF SideInv, SideloadTyped
<1>2. t \in Tickets
  BY <1>1 DEF SideInv, TicketsTaken, ThreadRecords
<1>3. thread' = [thread EXCEPT ![h] = [thread[h] EXCEPT !.at = at]]
  BY <1>1 DEF ThreadAt
<1>4. /\ [thread[h] EXCEPT !.at = at] \in ThreadRecords
      /\ [thread[h] EXCEPT !.at = at].ticket = t
      /\ [thread[h] EXCEPT !.at = at].at = at
      /\ [thread[h] EXCEPT !.at = at].kind = thread[h].kind
  BY <1>1 DEF ThreadRecords
<1>5. /\ thread'[h].ticket = t /\ thread'[h].at = at /\ thread'[h].kind = thread[h].kind
      /\ \A g \in Threads : g # h => thread'[g] = thread[g]
      /\ thread' \in [Threads -> ThreadRecords]
  BY <1>1, <1>3, <1>4
<1>6. \A g \in Threads : thread'[g].ticket = thread[g].ticket
  BY <1>5
<1>7. h \in ThreadsOf(t) /\ \A u : ThreadsOf(u)' = ThreadsOf(u)
  BY <1>6 DEF ThreadsOf
<1>8. upload[t] = "over"
  BY <1>2, <1>7 DEF SideInv, TicketInv, Fresh
<1>9. \A u \in Tickets \ {t} : KeptThreads(u)
  BY <1>5, <1>7 DEF KeptThreads, ThreadsOf
<1>10. Turns(h, t, at)
  BY <1>5, <1>7 DEF Turns, ThreadsOf
<1>11. UNCHANGED worker => TicketsTaken'
  <2>1. at # "idle" /\ t # None
    BY <1>2, SideloadBounds
  <2> QED
    BY <2>1, <1>5, <1>6 DEF SideInv, TicketsTaken
<1> QED
  BY <1>2, <1>5, <1>8, <1>9, <1>10, <1>11

\* the files of other tickets stay
OtherFiles(t) == \A u \in Tickets \ {t} : UNCHANGED <<files[u], old[u]>>

\* Making a file.
LEMMA CreateEffect ==
  ASSUME FilesTyped, NEW t \in Tickets, NEW name \in Names, Create(t, name)
  PROVE  /\ files'[t] = files[t] \cup {name} /\ old'[t] = old[t] \ {name}
         /\ OtherFiles(t) /\ FilesTyped'
<1>1. files[t] \cup {name} \in SUBSET Names /\ old[t] \ {name} \in SUBSET Names
  BY DEF FilesTyped
<1> QED
  BY <1>1 DEF Create, FilesTyped, OtherFiles

\* Removing files.
LEMMA UnlinkEffect ==
  ASSUME FilesTyped, NEW t \in Tickets, NEW names, Unlink(t, names)
  PROVE  /\ files'[t] = files[t] \ names /\ old'[t] = old[t] \ names
         /\ OtherFiles(t) /\ FilesTyped'
<1>1. files[t] \ names \in SUBSET Names /\ old[t] \ names \in SUBSET Names
  BY DEF FilesTyped
<1> QED
  BY <1>1 DEF Unlink, FilesTyped, OtherFiles

\* Writing the status.
LEMMA StatusEffect ==
  ASSUME FilesTyped, status \in [Tickets -> States], NEW t \in Tickets, NEW state \in States,
         WriteStatus(t, state)
  PROVE  /\ files'[t] = files[t] \cup {"status"} /\ old'[t] = old[t] \ {"status"}
         /\ status'[t] = state /\ status' \in [Tickets -> States]
         /\ \A u \in Tickets \ {t} : UNCHANGED status[u]
         /\ OtherFiles(t) /\ FilesTyped'
<1>1. Create(t, "status") /\ status' = [status EXCEPT ![t] = state] /\ "status" \in Names
  BY DEF WriteStatus, Names
<1> QED
  BY <1>1, CreateEffect

\* A failing step loses its ticket.
LEMMA FaultEffect ==
  ASSUME SideloadTyped, NEW t \in Tickets, Fault(t) \/ NoFault
  PROVE  /\ lost' \in [Tickets -> BOOLEAN] /\ (lost[t] => lost'[t]) /\ (Fault(t) => lost'[t])
         /\ \A u \in Tickets \ {t} : UNCHANGED lost[u]
  BY DEF SideloadTyped, Fault, NoFault, boundVars

\* the disk of one ticket, typed
DiskOf(t) == /\ FilesTyped' /\ OtherFiles(t) /\ status' \in [Tickets -> States]
             /\ \A u \in Tickets \ {t} : UNCHANGED status[u]

\* what a step of a thread leaves to the ticket's own invariant
ThreadFrame(h, t, at) ==
  /\ t \in Tickets /\ Turns(h, t, at) /\ upload[t] = "over" /\ upload'[t] = "over"
  /\ WorkersOf(t)' = WorkersOf(t) /\ (\A w \in WorkersOf(t) : worker'[w] = worker[w])
  /\ installs'[t] = installs[t] /\ (t \in told' <=> t \in told) /\ (t \in swept' <=> t \in swept)
  /\ (lost[t] => lost'[t])
  /\ (Fault(t) => lost'[t])

\* A step of a thread is one about its ticket.
LEMMA ThreadSteps ==
  ASSUME SideInv, NEW h \in Threads, NEW t, thread[h].ticket = t,
         NEW at \in ThreadStages \ {"idle"}, ThreadAt(h, at),
         thread[h].at # "idle", ThreadOnly, DiskOf(t), NoFault \/ Fault(t)
  PROVE  /\ ThreadFrame(h, t, at) /\ TicketInv(t)
         /\ TicketInv(t)' => SideInv'
<1>1. /\ t \in Tickets /\ upload[t] = "over" /\ Turns(h, t, at)
      /\ \A u \in Tickets \ {t} : KeptThreads(u)
      /\ thread' \in [Threads -> ThreadRecords]
      /\ UNCHANGED worker => TicketsTaken'
  BY ThreadTurns
<1>2. UNCHANGED <<upload, worker, intake, cleaner, installs, told, swept>>
  BY DEF ThreadOnly, historyVars
<1>3. /\ lost' \in [Tickets -> BOOLEAN] /\ (lost[t] => lost'[t]) /\ (Fault(t) => lost'[t])
      /\ \A u \in Tickets \ {t} : UNCHANGED lost[u]
  BY <1>1, FaultEffect DEF SideInv
<1>4. TicketsTaken'
  BY <1>1, <1>2
<1>5. SideloadTyped'
  BY <1>1, <1>2, <1>3 DEF SideInv, SideloadTyped, DiskOf
<1>6. \A u : WorkersOf(u)' = WorkersOf(u) /\ \A w \in WorkersOf(u) : worker'[w] = worker[w]
  BY <1>2 DEF WorkersOf
<1>7. ASSUME NEW u \in Tickets \ {t}
      PROVE  KeptOnDisk(u) /\ KeptInHistory(u) /\ KeptThreads(u) /\ KeptWorkers(u) /\ PageWaits(u)
  <2>1. TicketInv(u)
    BY <1>7 DEF SideInv
  <2>2. KeptOnDisk(u)
    BY <1>2, <1>3, <1>7 DEF KeptOnDisk, DiskOf, OtherFiles
  <2>3. KeptInHistory(u) /\ KeptWorkers(u)
    BY <1>2, <1>6 DEF KeptInHistory, KeptWorkers
  <2>4. PageWaits(u)
    BY <1>2, <2>1 DEF PageWaits, TicketInv, Fresh
  <2> QED
    BY <1>1, <1>7, <2>2, <2>3, <2>4
<1>9. ThreadFrame(h, t, at)
  BY <1>1, <1>2, <1>3, <1>6 DEF ThreadFrame
<1>10. OnlyTicket(t)
  BY <1>7 DEF OnlyTicket
<1>11. TicketInv(t)' => SideInv'
  BY <1>1, <1>4, <1>5, <1>10, OneTicketKeeps
<1>12. TicketInv(t)
  BY <1>1 DEF SideInv
<1> QED
  BY <1>9, <1>11, <1>12

\* What the turns of threads have in common: the lock is taken where there is none, only
\* a check that finds the package decides, and no step but a reset makes it inspected again.
LawfulTurn(h, t, at) ==
  LET from == thread[h].at
      kind == thread[h].kind IN
  /\ HasLock(at) => Has(t, "lock")' /\ "lock" \notin old'[t] /\ (HasLock(from) \/ ~Has(t, "lock"))
  /\ ~HasLock(from) /\ ~HasLock(at) =>
       (Has(t, "lock") => Has(t, "lock")') /\ ("lock" \in old'[t] => "lock" \in old[t])
  /\ Decides(at) => Decides(from) \/ (from = "check" /\ Has(t, "apk") /\ status[t] = "inspected")
  /\ status'[t] = "inspected" => status[t] = "inspected" \/ (from = "reset" /\ at = "failed")
  /\ at \in {"spawn", "reset"} => status'[t] # "inspected"
  /\ Installs(at) => kind = "install"
  /\ Discards(at) => kind = "discard"
  /\ at \in {"install", "spawn"} => Has(t, "apk")' \/ t \in swept
  /\ at \in {"forget", "release"} => ~Has(t, "apk")'
  /\ Has(t, "apk")' => Has(t, "apk")
  /\ Has(t, "apk") => Has(t, "apk")' \/ from = "discard"
  /\ at = "done" => from = "release" \/ kind # "discard"
  /\ at = "reset" => lost'[t]

\* A lawful turn keeps what is not about the status file.
LEMMA LawfulTurnKeeps ==
  ASSUME NEW t, TicketInv(t), NEW h, NEW at, ThreadFrame(h, t, at), LawfulTurn(h, t, at), StatusTrue(t)'
  PROVE  TicketInv(t)'
<1>1. /\ Fresh(t) /\ OneOwner(t) /\ OneDecides(t) /\ Undecided(t) /\ KindsFit(t)
      /\ PackageFollows(t) /\ RunsOnce(t) /\ StaysDiscarded(t) /\ ResetIsLost(t)
  BY DEF TicketInv
<1>2. /\ h \in ThreadsOf(t) /\ ThreadsOf(t)' = ThreadsOf(t)
      /\ thread'[h].at = at /\ thread'[h].kind = thread[h].kind
      /\ \A g \in ThreadsOf(t) : g # h => thread'[g] = thread[g]
      /\ WorkersOf(t)' = WorkersOf(t) /\ \A w \in WorkersOf(t) : worker'[w] = worker[w]
  BY DEF ThreadFrame, Turns
<1>3. /\ installs'[t] = installs[t] /\ (t \in told' <=> t \in told) /\ (t \in swept' <=> t \in swept)
      /\ upload'[t] = "over" /\ (lost[t] => lost'[t])
  BY DEF ThreadFrame
<1>4. ASSUME Decides(at)
      PROVE  /\ \A g \in ThreadsOf(t) : g # h => ~Decides(thread[g].at)
             /\ WorkersOf(t) = {} /\ installs[t] = 0 /\ ~Discarded(t)
  <2>1. CASE Decides(thread[h].at)
    BY <1>1, <1>2, <2>1 DEF OneDecides, RunsOnce, StaysDiscarded
  <2>2. CASE thread[h].at = "check" /\ Has(t, "apk") /\ status[t] = "inspected"
    <3>1. WorkersOf(t) = {} /\ installs[t] = 0 /\ ~Discarded(t)
      BY <1>1, <2>2 DEF Undecided, RunsOnce, StaysDiscarded
    <3>2. ASSUME NEW g \in ThreadsOf(t), g # h
          PROVE  ~Decides(thread[g].at)
      <4>1. ~HasLock(thread[g].at)
        BY <1>1, <1>2, <2>2, <3>2 DEF OneOwner, HasLock
      <4>2. thread[g].at # "reset"
        BY <1>1, <2>2 DEF Undecided
      <4> QED
        BY <4>1, <4>2 DEF HasLock, Decides, Installs, Discards
    <3> QED
      BY <3>1, <3>2
  <2> QED
    BY <1>4, <2>1, <2>2 DEF LawfulTurn
<1>5. Fresh(t)'
  BY <1>3 DEF Fresh
<1>6. OneOwner(t)'
  BY <1>1, <1>2 DEF LawfulTurn, OneOwner
<1>7. OneDecides(t)'
  BY <1>1, <1>2, <1>4 DEF OneDecides
<1>8. Undecided(t)'
  <2>1. CASE thread[h].at = "reset" /\ at = "failed"
    BY <1>1, <1>2, <2>1 DEF Undecided, OneDecides, Decides, Installs
  <2>2. CASE status'[t] = "inspected" => status[t] = "inspected"
    BY <1>1, <1>2, <2>2 DEF LawfulTurn, Undecided
  <2> QED
    BY <2>1, <2>2 DEF LawfulTurn
<1>9. KindsFit(t)'
  BY <1>1, <1>2 DEF LawfulTurn, KindsFit
<1>10. PackageFollows(t)'
  <2>1. CASE thread[h].at = "discard"
    <3>1. /\ \A g \in ThreadsOf(t) : g # h => ~Decides(thread[g].at)
          /\ WorkersOf(t) = {}
      BY <1>1, <1>2, <2>1 DEF OneDecides, Decides, Discards
    <3>2. \A g \in ThreadsOf(t) : g # h => thread'[g].at \notin {"install", "spawn", "forget", "release"}
      BY <1>2, <3>1 DEF Decides, Installs, Discards
    <3> QED
      BY <1>2, <1>3, <3>1, <3>2 DEF LawfulTurn, PackageFollows
  <2>2. CASE Has(t, "apk")' <=> Has(t, "apk")
    BY <1>1, <1>2, <1>3, <2>2 DEF LawfulTurn, PackageFollows
  <2> QED
    BY <2>1, <2>2 DEF LawfulTurn
<1>11. RunsOnce(t)'
  <2>1. CASE thread[h].at = "reset" /\ at = "failed"
    BY <1>1, <1>2, <1>3, <2>1 DEF RunsOnce, Decides, Installs, Discards
  <2>2. CASE status'[t] = "inspected" => status[t] = "inspected"
    <3>1. installs[t] = 1 => \A g \in ThreadsOf(t) : ~Decides(thread'[g].at)
      BY <1>1, <1>2, <1>4 DEF RunsOnce
    <3>2. installs[t] = 1 => status'[t] # "inspected"
      BY <1>1, <2>2 DEF RunsOnce
    <3> QED
      BY <1>1, <1>2, <1>3, <3>1, <3>2 DEF RunsOnce
  <2> QED
    BY <2>1, <2>2 DEF LawfulTurn
<1>12. StaysDiscarded(t)'
  <2>1. CASE Discarded(t)
    BY <1>1, <1>2, <1>3, <1>4, <2>1 DEF StaysDiscarded, LawfulTurn
  <2>2. CASE thread[h].at = "release" /\ at = "done"
    <3>1. Decides(thread[h].at) /\ ~Decides(at)
      BY <2>2 DEF Decides, Discards, Installs
    <3>2. /\ \A g \in ThreadsOf(t) : g # h => ~Decides(thread[g].at)
          /\ WorkersOf(t) = {} /\ installs[t] = 0 /\ ~Has(t, "apk")
      BY <1>1, <1>2, <2>2, <3>1 DEF OneDecides, RunsOnce, PackageFollows
    <3> QED
      BY <1>2, <1>3, <3>1, <3>2 DEF StaysDiscarded, LawfulTurn
  <2>3. CASE ~Discarded(t) /\ ~(thread[h].at = "release" /\ at = "done")
    BY <1>2, <1>3, <2>3 DEF StaysDiscarded, Discarded, LawfulTurn
  <2> QED
    BY <2>1, <2>2, <2>3
<1>13. ResetIsLost(t)'
  BY <1>1, <1>2, <1>3 DEF ResetIsLost, LawfulTurn
<1> QED
  BY <1>5, <1>6, <1>7, <1>8, <1>9, <1>10, <1>11, <1>12, <1>13 DEF TicketInv

\* A lawful turn keeps the whole invariant.
LEMMA TurnKeeps ==
  ASSUME SideInv, NEW h \in Threads, NEW t, thread[h].ticket = t,
         NEW at \in ThreadStages \ {"idle"}, ThreadAt(h, at),
         thread[h].at # "idle", ThreadOnly, DiskOf(t), NoFault \/ Fault(t),
         LawfulTurn(h, t, at), ThreadFrame(h, t, at) => StatusTrue(t)'
  PROVE  SideInv'
<1>1. ThreadFrame(h, t, at) /\ TicketInv(t)
  BY ThreadSteps
<1>2. TicketInv(t)'
  BY <1>1, LawfulTurnKeeps
<1> QED
  BY <1>2, ThreadSteps

\* What a thread at work can rely on.
LEMMA ThreadKnows ==
  ASSUME SideInv, NEW h \in Threads, NEW t, thread[h].ticket = t, thread[h].at # "idle"
  PROVE  /\ t \in Tickets /\ FilesTyped /\ status \in [Tickets -> States]
         /\ h \in ThreadsOf(t) /\ upload[t] = "over"
         /\ Fresh(t) /\ OneOwner(t) /\ OneDecides(t) /\ Undecided(t) /\ KindsFit(t)
         /\ PackageFollows(t) /\ RunsOnce(t) /\ StaysDiscarded(t) /\ ResetIsLost(t) /\ StatusTrue(t)
         /\ HasLock(thread[h].at) => /\ Has(t, "lock") /\ "lock" \notin old[t]
                                     /\ (WorkersOf(t) # {} => ~Has(t, "apk"))
<1>1. thread[h] \in ThreadRecords /\ FilesTyped /\ status \in [Tickets -> States]
  BY DEF SideInv, SideloadTyped
<1>2. t \in Tickets /\ h \in ThreadsOf(t)
  BY <1>1 DEF SideInv, TicketsTaken, ThreadRecords, ThreadsOf
<1>3. TicketInv(t)
  BY <1>2 DEF SideInv
<1>4. upload[t] = "over"
  BY <1>2, <1>3 DEF TicketInv, Fresh
<1>5. HasLock(thread[h].at) => Has(t, "lock") /\ "lock" \notin old[t]
  BY <1>2, <1>3 DEF TicketInv, OneOwner
<1>6. \A w \in WorkersOf(t) : worker[w].at \in WorkerStages \ {"none"}
  BY <1>2, SideloadBounds DEF SideInv, SideloadTyped, TicketsTaken, WorkersOf, WorkerRecords
<1>7. ASSUME HasLock(thread[h].at), NEW w \in WorkersOf(t)
      PROVE  ~Has(t, "apk")
  <2>1. ~OwnsLock(worker[w].at)
    BY <1>2, <1>3, <1>7 DEF TicketInv, OneOwner
  <2>2. worker[w].at \in {"report good", "report bad"}
    BY <1>6, <2>1 DEF OwnsLock, WorkerStages
  <2> QED
    BY <1>3, <2>2 DEF TicketInv, PackageFollows
<1> QED
  BY <1>1, <1>2, <1>3, <1>4, <1>5, <1>7 DEF TicketInv

\* A file of the ticket is made, or not.
LEMMA DiskAfterCreate ==
  ASSUME FilesTyped, status \in [Tickets -> States], NEW t \in Tickets, NEW name \in Names,
         Create(t, name), status' = status
  PROVE  /\ DiskOf(t) /\ status'[t] = status[t]
         /\ files'[t] = files[t] \cup {name} /\ old'[t] = old[t] \ {name}
BY CreateEffect DEF DiskOf

\* Files of the ticket are removed.
LEMMA DiskAfterUnlink ==
  ASSUME FilesTyped, status \in [Tickets -> States], NEW t \in Tickets, NEW names,
         Unlink(t, names), status' = status
  PROVE  /\ DiskOf(t) /\ status'[t] = status[t]
         /\ files'[t] = files[t] \ names /\ old'[t] = old[t] \ names
BY UnlinkEffect DEF DiskOf

\* The status of the ticket is written.
LEMMA DiskAfterStatus ==
  ASSUME FilesTyped, status \in [Tickets -> States], NEW t \in Tickets, NEW state \in States,
         WriteStatus(t, state)
  PROVE  /\ DiskOf(t) /\ status'[t] = state
         /\ files'[t] = files[t] \cup {"status"} /\ old'[t] = old[t] \ {"status"}
BY StatusEffect DEF DiskOf

\* Nothing is written.
LEMMA DiskUntouched ==
  ASSUME FilesTyped, status \in [Tickets -> States], NEW t, UNCHANGED diskVars
  PROVE  DiskOf(t) /\ status'[t] = status[t] /\ files'[t] = files[t] /\ old'[t] = old[t]
BY DEF DiskOf, diskVars, FilesTyped, OtherFiles

\* The lock is taken by a thread that finds none, and that has decided nothing.
LEMMA ClaimKeeps ==
  ASSUME SideInv, NEW h \in Threads, Claim(h)
  PROVE  SideInv'
<1> PICK t : thread[h].ticket = t
  OBVIOUS
<1> DEFINE at == IF Has(t, "lock") THEN "failed" ELSE "check"
<1>1. /\ thread[h].at = "claim" /\ ThreadAt(h, at) /\ ThreadOnly /\ NoFault /\ status' = status
      /\ IF Has(t, "lock") THEN UNCHANGED <<files, old>> ELSE Create(t, "lock")
  BY DEF Claim
<1>2. /\ t \in Tickets /\ FilesTyped /\ status \in [Tickets -> States]
      /\ StatusTrue(t)
  BY <1>1, ThreadKnows
<1>3. /\ DiskOf(t) /\ status'[t] = status[t] /\ files'[t] = files[t] \cup {"lock"}
      /\ IF Has(t, "lock") THEN old'[t] = old[t] ELSE old'[t] = old[t] \ {"lock"}
  <2>1. CASE Has(t, "lock")
    BY <1>1, <1>2, <2>1, DiskUntouched DEF diskVars, Has
  <2>2. CASE ~Has(t, "lock")
    BY <1>1, <1>2, <2>2, DiskAfterCreate DEF Names
  <2> QED
    BY <2>1, <2>2
<1>4. LawfulTurn(h, t, at)
  BY <1>1, <1>3 DEF LawfulTurn, Has, HasLock, Decides, Installs, Discards
<1>5. ASSUME ThreadFrame(h, t, at)
      PROVE  StatusTrue(t)'
  BY <1>1, <1>2, <1>3, <1>5 DEF ThreadFrame, Turns, StatusTrue, Has
<1> QED
  BY <1>1, <1>3, <1>4, <1>5, TurnKeeps DEF ThreadStages

\* The lock goes with a thread that has decided nothing.
LEMMA UnlockKeeps ==
  ASSUME SideInv, NEW h \in Threads, Unlock(h)
  PROVE  SideInv'
<1> PICK t : thread[h].ticket = t
  OBVIOUS
<1>1. /\ thread[h].at = "unlock" /\ ThreadAt(h, "failed") /\ ThreadOnly /\ NoFault /\ status' = status
      /\ Unlink(t, {"lock"})
  BY DEF Unlock
<1>2. /\ t \in Tickets /\ FilesTyped /\ status \in [Tickets -> States] /\ h \in ThreadsOf(t)
      /\ StatusTrue(t) /\ (WorkersOf(t) # {} => ~Has(t, "apk"))
  BY <1>1, ThreadKnows DEF HasLock
<1>3. DiskOf(t) /\ status'[t] = status[t] /\ files'[t] = files[t] \ {"lock"} /\ old'[t] = old[t] \ {"lock"}
  BY <1>1, <1>2, DiskAfterUnlink
<1>4. LawfulTurn(h, t, "failed")
  BY <1>1, <1>3 DEF LawfulTurn, Has, HasLock, Decides, Installs, Discards
<1>5. ASSUME ThreadFrame(h, t, "failed")
      PROVE  StatusTrue(t)'
  BY <1>1, <1>2, <1>3, <1>5 DEF ThreadFrame, Turns, StatusTrue, Has
<1> QED
  BY <1>1, <1>3, <1>4, <1>5, TurnKeeps DEF ThreadStages

\* A check decides where the package is there and inspected.
LEMMA CheckKeeps ==
  ASSUME SideInv, NEW h \in Threads, Check(h)
  PROVE  SideInv'
<1> PICK t : thread[h].ticket = t
  OBVIOUS
<1> DEFINE at == IF Has(t, "apk") /\ Ready(t) THEN thread[h].kind ELSE "unlock"
<1>1. /\ thread[h].at = "check" /\ ThreadAt(h, at) /\ ThreadOnly /\ NoFault /\ UNCHANGED diskVars
  BY DEF Check
<1>2. /\ t \in Tickets /\ FilesTyped /\ status \in [Tickets -> States] /\ h \in ThreadsOf(t)
      /\ StatusTrue(t) /\ KindsFit(t) /\ Has(t, "lock") /\ "lock" \notin old[t]
  BY <1>1, ThreadKnows DEF HasLock
<1>3. DiskOf(t) /\ status'[t] = status[t] /\ files'[t] = files[t] /\ old'[t] = old[t]
  BY <1>1, <1>2, DiskUntouched
<1>4. thread[h].kind \in {"install", "discard"}
  BY <1>2 DEF KindsFit
<1>5. LawfulTurn(h, t, at)
  BY <1>1, <1>2, <1>3, <1>4 DEF LawfulTurn, Has, HasLock, Decides, Installs, Discards, Ready
<1>6. ASSUME ThreadFrame(h, t, at)
      PROVE  StatusTrue(t)'
  BY <1>1, <1>2, <1>3, <1>6 DEF ThreadFrame, Turns, StatusTrue, Has
<1> QED
  BY <1>1, <1>3, <1>4, <1>5, <1>6, TurnKeeps DEF ThreadStages

\* Whoever decided to install says so, or gives up.
LEMMA QueueKeeps ==
  ASSUME SideInv, NEW h \in Threads, Queue(h)
  PROVE  SideInv'
<1> PICK t : thread[h].ticket = t
  OBVIOUS
<1>1. thread[h].at = "install" /\ ThreadOnly
  BY DEF Queue
<1>2. /\ t \in Tickets /\ FilesTyped /\ status \in [Tickets -> States] /\ h \in ThreadsOf(t)
      /\ StatusTrue(t) /\ KindsFit(t) /\ PackageFollows(t) /\ Has(t, "lock") /\ "lock" \notin old[t]
  BY <1>1, ThreadKnows DEF HasLock
<1>3. thread[h].kind = "install" /\ (Has(t, "apk") \/ t \in swept)
  BY <1>1, <1>2 DEF KindsFit, PackageFollows, Installs
<1>4. CASE WriteStatus(t, "queued") /\ ThreadAt(h, "spawn") /\ NoFault
  <2>1. /\ DiskOf(t) /\ status'[t] = "queued"
        /\ files'[t] = files[t] \cup {"status"} /\ old'[t] = old[t] \ {"status"}
    BY <1>2, <1>4, DiskAfterStatus DEF States
  <2>2. LawfulTurn(h, t, "spawn")
    BY <1>1, <1>2, <1>3, <2>1 DEF LawfulTurn, Has, HasLock, Decides, Installs, Discards
  <2>3. ASSUME ThreadFrame(h, t, "spawn")
        PROVE  StatusTrue(t)'
    BY <2>1, <2>3 DEF ThreadFrame, Turns, StatusTrue
  <2> QED
    BY <1>1, <1>4, <2>1, <2>2, <2>3, TurnKeeps DEF ThreadStages
<1>5. CASE Fault(t) /\ ThreadAt(h, "unlock") /\ UNCHANGED diskVars
  <2>1. DiskOf(t) /\ status'[t] = status[t] /\ files'[t] = files[t] /\ old'[t] = old[t]
    BY <1>2, <1>5, DiskUntouched
  <2>2. LawfulTurn(h, t, "unlock")
    BY <1>1, <1>2, <2>1 DEF LawfulTurn, Has, HasLock, Decides, Installs, Discards
  <2>3. ASSUME ThreadFrame(h, t, "unlock")
        PROVE  StatusTrue(t)'
    BY <1>5, <2>3 DEF ThreadFrame, StatusTrue
  <2> QED
    BY <1>1, <1>5, <2>1, <2>2, <2>3, TurnKeeps DEF ThreadStages
<1> QED
  BY <1>4, <1>5 DEF Queue

\* The ticket is given back: the status says inspected again.
LEMMA ResetKeeps ==
  ASSUME SideInv, NEW h \in Threads, Reset(h)
  PROVE  SideInv'
<1> PICK t : thread[h].ticket = t
  OBVIOUS
<1>1. /\ thread[h].at = "reset" /\ ThreadAt(h, "failed") /\ ThreadOnly /\ NoFault
      /\ WriteStatus(t, "inspected")
  BY DEF Reset
<1>2. /\ t \in Tickets /\ FilesTyped /\ status \in [Tickets -> States] /\ h \in ThreadsOf(t)
      /\ ResetIsLost(t)
  BY <1>1, ThreadKnows
<1>3. /\ DiskOf(t) /\ status'[t] = "inspected"
      /\ files'[t] = files[t] \cup {"status"} /\ old'[t] = old[t] \ {"status"}
  BY <1>1, <1>2, DiskAfterStatus DEF States
<1>4. LawfulTurn(h, t, "failed")
  BY <1>1, <1>3 DEF LawfulTurn, Has, HasLock, Decides, Installs, Discards
<1>5. ASSUME ThreadFrame(h, t, "failed")
      PROVE  StatusTrue(t)'
  BY <1>1, <1>2, <1>5 DEF ThreadFrame, StatusTrue, ResetIsLost
<1> QED
  BY <1>1, <1>3, <1>4, <1>5, TurnKeeps DEF ThreadStages

\* The artifact of a discarded package is removed.
LEMMA DiscardArtifactKeeps ==
  ASSUME SideInv, NEW h \in Threads, DiscardArtifact(h)
  PROVE  SideInv'
<1> PICK t : thread[h].ticket = t
  OBVIOUS
<1> DEFINE at == IF Has(t, "apk") THEN "forget" ELSE "unlock"
<1>1. /\ thread[h].at = "discard" /\ ThreadAt(h, at) /\ ThreadOnly /\ NoFault /\ status' = status
      /\ IF Has(t, "apk") THEN Unlink(t, {"apk"}) ELSE UNCHANGED <<files, old>>
  BY DEF DiscardArtifact
<1>2. /\ t \in Tickets /\ FilesTyped /\ status \in [Tickets -> States] /\ h \in ThreadsOf(t)
      /\ StatusTrue(t) /\ KindsFit(t) /\ OneDecides(t) /\ Has(t, "lock") /\ "lock" \notin old[t]
  BY <1>1, ThreadKnows DEF HasLock
<1>3. /\ DiskOf(t) /\ status'[t] = status[t] /\ files'[t] = files[t] \ {"apk"}
      /\ "lock" \notin old'[t]
  <2>1. CASE Has(t, "apk")
    BY <1>1, <1>2, <2>1, DiskAfterUnlink
  <2>2. CASE ~Has(t, "apk")
    BY <1>1, <1>2, <2>2, DiskUntouched DEF diskVars, Has
  <2> QED
    BY <2>1, <2>2
<1>4. /\ thread[h].kind = "discard" /\ WorkersOf(t) = {}
      /\ \A g \in ThreadsOf(t) : thread[g].at # "spawn"
  BY <1>1, <1>2 DEF KindsFit, OneDecides, Decides, Installs, Discards
<1>5. LawfulTurn(h, t, at)
  BY <1>1, <1>2, <1>3, <1>4 DEF LawfulTurn, Has, HasLock, Decides, Installs, Discards
<1>6. ASSUME ThreadFrame(h, t, at)
      PROVE  StatusTrue(t)'
  BY <1>1, <1>2, <1>3, <1>4, <1>6 DEF ThreadFrame, Turns, StatusTrue, Has
<1> QED
  BY <1>1, <1>3, <1>5, <1>6, TurnKeeps DEF ThreadStages

\* So is its status.
LEMMA ForgetKeeps ==
  ASSUME SideInv, NEW h \in Threads, Forget(h)
  PROVE  SideInv'
<1> PICK t : thread[h].ticket = t
  OBVIOUS
<1> DEFINE at == IF Has(t, "status") THEN "release" ELSE "unlock"
<1>1. /\ thread[h].at = "forget" /\ ThreadAt(h, at) /\ ThreadOnly /\ NoFault /\ status' = status
      /\ IF Has(t, "status") THEN Unlink(t, {"status"}) ELSE UNCHANGED <<files, old>>
  BY DEF Forget
<1>2. /\ t \in Tickets /\ FilesTyped /\ status \in [Tickets -> States] /\ h \in ThreadsOf(t)
      /\ KindsFit(t) /\ PackageFollows(t) /\ Has(t, "lock") /\ "lock" \notin old[t]
  BY <1>1, ThreadKnows DEF HasLock
<1>3. /\ DiskOf(t) /\ status'[t] = status[t] /\ files'[t] = files[t] \ {"status"}
      /\ "lock" \notin old'[t]
  <2>1. CASE Has(t, "status")
    BY <1>1, <1>2, <2>1, DiskAfterUnlink
  <2>2. CASE ~Has(t, "status")
    BY <1>1, <1>2, <2>2, DiskUntouched DEF diskVars, Has
  <2> QED
    BY <2>1, <2>2
<1>4. thread[h].kind = "discard" /\ ~Has(t, "apk")
  BY <1>1, <1>2 DEF KindsFit, PackageFollows, Discards
<1>5. LawfulTurn(h, t, at)
  BY <1>1, <1>2, <1>3, <1>4 DEF LawfulTurn, Has, HasLock, Decides, Installs, Discards
<1>6. StatusTrue(t)'
  BY <1>3 DEF StatusTrue, Has
<1> QED
  BY <1>1, <1>3, <1>5, <1>6, TurnKeeps DEF ThreadStages

\* And last its lock.
LEMMA ReleaseKeeps ==
  ASSUME SideInv, NEW h \in Threads, Release(h)
  PROVE  SideInv'
<1> PICK t : thread[h].ticket = t
  OBVIOUS
<1> DEFINE at == IF Has(t, "lock") THEN "done" ELSE "failed"
<1>1. /\ thread[h].at = "release" /\ ThreadAt(h, at) /\ ThreadOnly /\ NoFault /\ status' = status
      /\ Unlink(t, {"lock"})
  BY DEF Release
<1>2. /\ t \in Tickets /\ FilesTyped /\ status \in [Tickets -> States] /\ h \in ThreadsOf(t)
      /\ StatusTrue(t) /\ PackageFollows(t)
  BY <1>1, ThreadKnows
<1>3. DiskOf(t) /\ status'[t] = status[t] /\ files'[t] = files[t] \ {"lock"} /\ old'[t] = old[t] \ {"lock"}
  BY <1>1, <1>2, DiskAfterUnlink
<1>4. ~Has(t, "apk")
  BY <1>1, <1>2 DEF PackageFollows
<1>5. LawfulTurn(h, t, at)
  BY <1>1, <1>3 DEF LawfulTurn, Has, HasLock, Decides, Installs, Discards
<1>6. ASSUME ThreadFrame(h, t, at)
      PROVE  StatusTrue(t)'
  BY <1>1, <1>2, <1>3, <1>4, <1>6 DEF ThreadFrame, Turns, StatusTrue, Has
<1> QED
  BY <1>1, <1>3, <1>5, <1>6, TurnKeeps DEF ThreadStages

\* The ticket goes to a worker, or back, the lock first.
LEMMA SpawnKeeps ==
  ASSUME SideInv, NEW h \in Threads, Spawn(h)
  PROVE  SideInv'
<1> PICK t : thread[h].ticket = t
  OBVIOUS
<1>1. thread[h].at = "spawn" /\ UNCHANGED <<upload, intake, cleaner, installs, told, swept>>
  BY DEF Spawn, historyVars
<1>2. /\ t \in Tickets /\ FilesTyped /\ status \in [Tickets -> States] /\ h \in ThreadsOf(t)
      /\ Fresh(t) /\ OneOwner(t) /\ OneDecides(t) /\ Undecided(t) /\ KindsFit(t)
      /\ PackageFollows(t) /\ RunsOnce(t) /\ StaysDiscarded(t) /\ ResetIsLost(t) /\ StatusTrue(t)
      /\ Has(t, "lock") /\ "lock" \notin old[t] /\ upload[t] = "over"
  BY <1>1, ThreadKnows DEF HasLock
<1>3. /\ thread[h].kind = "install" /\ status[t] # "inspected" /\ WorkersOf(t) = {} /\ installs[t] = 0
      /\ \A g \in ThreadsOf(t) : g # h => ~Decides(thread[g].at) /\ ~HasLock(thread[g].at)
      /\ (Has(t, "apk") \/ t \in swept) /\ ~Discarded(t)
  <2>1. Decides(thread[h].at) /\ Installs(thread[h].at) /\ HasLock(thread[h].at)
    BY <1>1 DEF Decides, Installs, HasLock
  <2>2. thread[h].kind = "install" /\ status[t] # "inspected"
    BY <1>1, <1>2, <2>1 DEF KindsFit, Undecided
  <2>3. WorkersOf(t) = {} /\ \A g \in ThreadsOf(t) : g # h => ~Decides(thread[g].at)
    BY <1>2, <2>1 DEF OneDecides
  <2>4. \A g \in ThreadsOf(t) : g # h => ~HasLock(thread[g].at)
    BY <1>2, <2>1 DEF OneOwner
  <2>5. installs[t] = 0 /\ ~Discarded(t)
    BY <1>2, <2>1 DEF RunsOnce, StaysDiscarded
  <2>6. Has(t, "apk") \/ t \in swept
    BY <1>1, <1>2 DEF PackageFollows
  <2> QED
    BY <2>2, <2>3, <2>4, <2>5, <2>6
<1>4. CASE Fault(t) /\ Unlink(t, {"lock"}) /\ ThreadAt(h, "reset") /\ UNCHANGED <<status, worker>>
  <2>1. DiskOf(t) /\ status'[t] = status[t] /\ files'[t] = files[t] \ {"lock"}
    BY <1>2, <1>4, DiskAfterUnlink
  <2>2. lost'[t] = TRUE
    BY <1>2, <1>4 DEF SideInv, SideloadTyped, Fault
  <2>3. LawfulTurn(h, t, "reset")
    BY <1>1, <1>3, <2>1, <2>2 DEF LawfulTurn, Has, HasLock, Decides, Installs, Discards
  <2>4. StatusTrue(t)'
    BY <2>2 DEF StatusTrue
  <2>5. ThreadOnly
    BY <1>1, <1>4 DEF ThreadOnly, historyVars
  <2> QED
    BY <1>1, <1>4, <2>1, <2>3, <2>4, <2>5, TurnKeeps DEF ThreadStages
<1>5. ASSUME NEW w \in Workers, worker[w].at = "none",
             worker' = [worker EXCEPT ![w] = [at |-> "start", ticket |-> t]],
             ThreadAt(h, "done"), UNCHANGED diskVars, NoFault
      PROVE  SideInv'
  <2>1. /\ Turns(h, t, "done") /\ thread' \in [Threads -> ThreadRecords]
        /\ \A u \in Tickets \ {t} : KeptThreads(u)
    BY <1>1, <1>5, ThreadTurns DEF ThreadStages
  <2>2. /\ worker \in [Workers -> WorkerRecords] /\ worker[w].ticket = None
        /\ [at |-> "start", ticket |-> t] \in WorkerRecords
    BY <1>2, <1>5 DEF SideInv, SideloadTyped, TicketsTaken, WorkerRecords, WorkerStages
  <2>3. /\ worker' \in [Workers -> WorkerRecords] /\ worker'[w].at = "start" /\ worker'[w].ticket = t
        /\ \A v \in Workers : v # w => worker'[v] = worker[v]
    BY <1>5, <2>2
  <2>4. t # None /\ \A u \in Tickets : u # None
    BY <1>2, SideloadBounds
  <2>5. TicketsTaken'
    <3>1. \A g \in Threads : thread'[g].at = "idle" <=> thread'[g].ticket = None
      <4>1. thread'[h].at = "done" /\ h \in ThreadsOf(t)' /\ ThreadsOf(t)' = ThreadsOf(t)
        BY <2>1 DEF Turns
      <4>2. thread'[h].ticket = t
        BY <4>1 DEF ThreadsOf
      <4>3. \A g \in Threads : g # h => thread'[g] = thread[g]
        BY <1>5 DEF ThreadAt, SideInv, SideloadTyped
      <4> QED
        BY <2>4, <4>1, <4>2, <4>3 DEF SideInv, TicketsTaken
    <3> QED
      BY <2>3, <2>4, <3>1 DEF SideInv, TicketsTaken
  <2>6. UNCHANGED <<files, old, status, lost>>
    BY <1>5 DEF diskVars, NoFault, boundVars
  <2>7. SideloadTyped'
    BY <1>1, <2>1, <2>3, <2>6 DEF SideInv, SideloadTyped, FilesTyped
  <2>8. ASSUME NEW u \in Tickets \ {t}
        PROVE  KeptOnDisk(u) /\ KeptInHistory(u) /\ KeptThreads(u) /\ KeptWorkers(u) /\ PageWaits(u)
    <3>1. KeptWorkers(u)
      BY <2>2, <2>3, <2>4 DEF KeptWorkers, WorkersOf
    <3>2. PageWaits(u)
      BY <1>1 DEF PageWaits, SideInv, TicketInv, Fresh
    <3> QED
      BY <1>1, <2>1, <2>6, <3>1, <3>2 DEF KeptOnDisk, KeptInHistory
  <2>9. WorkersOf(t)' = {w}
    BY <1>3, <2>3 DEF WorkersOf
  <2>10. /\ ThreadsOf(t)' = ThreadsOf(t) /\ thread'[h].at = "done" /\ thread'[h].kind = "install"
         /\ \A g \in ThreadsOf(t) : g # h => thread'[g] = thread[g]
    BY <1>3, <2>1 DEF Turns
  <2>11. \A g \in ThreadsOf(t) : ~HasLock(thread'[g].at) /\ ~Decides(thread'[g].at)
    BY <1>3, <2>10 DEF HasLock, Decides, Installs, Discards
  <2>12. TicketInv(t)'
    <3>1. Fresh(t)'
      BY <1>1, <1>2 DEF Fresh
    <3>2. OneOwner(t)' /\ OneDecides(t)'
      BY <1>2, <2>6, <2>9, <2>10, <2>11 DEF OneOwner, OneDecides, Has
    <3>3. Undecided(t)' /\ KindsFit(t)' /\ ResetIsLost(t)'
      BY <1>2, <1>3, <2>6, <2>10 DEF Undecided, KindsFit, ResetIsLost, Installs, Discards
    <3>4. PackageFollows(t)'
      BY <1>1, <1>2, <1>3, <2>3, <2>6, <2>9, <2>10 DEF PackageFollows, Has
    <3>5. RunsOnce(t)'
      <4>1. installs'[t] = 0 /\ installs'[t] \in {0, 1} /\ installs'[t] # 1
        BY <1>1, <1>3
      <4>2. \A v \in WorkersOf(t)' : worker'[v].at = "start"
        BY <2>3, <2>9
      <4> QED
        BY <4>1, <4>2 DEF RunsOnce
    <3>6. StaysDiscarded(t)'
      BY <1>1, <1>3, <2>10 DEF StaysDiscarded, Discarded
    <3>7. StatusTrue(t)'
      BY <1>1, <1>2, <1>3, <2>6, <2>9, <2>10 DEF StatusTrue, Has
    <3> QED
      BY <3>1, <3>2, <3>3, <3>4, <3>5, <3>6, <3>7 DEF TicketInv
  <2>13. OnlyTicket(t)
    BY <2>8 DEF OnlyTicket
  <2> QED
    BY <1>2, <2>5, <2>7, <2>12, <2>13, OneTicketKeeps
<1> QED
  BY <1>4, <1>5 DEF Spawn

-----------------------------------------------------------------------------
(* Workers *)

\* Worker w has gone from one stage to the next, or has ended ("none").
WorkerMoves(w, t, at) ==
  /\ w \in WorkersOf(t) /\ worker'[w].at = at
  /\ WorkersOf(t)' = IF at = "none" THEN WorkersOf(t) \ {w} ELSE WorkersOf(t)
  /\ ThreadsOf(t)' = ThreadsOf(t) /\ (\A h \in ThreadsOf(t) : thread'[h] = thread[h])
  /\ t \in Tickets /\ upload'[t] = "over"
  /\ (t \in told' <=> t \in told) /\ (t \in swept' <=> t \in swept)
  /\ (lost[t] => lost'[t])
  /\ (Fault(t) => lost'[t])

\* what a step of a worker does to its record
Goes(w, at) ==
  \/ at \in WorkerStages \ {"none"} /\ WorkerAt(w, at)
  \/ at = "none" /\ worker' = [worker EXCEPT ![w] = NoWorker]

\* A step of a worker is one about its ticket.
LEMMA WorkerSteps ==
  ASSUME SideInv, NEW w \in Workers, NEW t, worker[w].ticket = t, worker[w].at # "none",
         NEW at, Goes(w, at), WorkerOnly, DiskOf(t), NoFault \/ Fault(t),
         installs' \in [Tickets -> Nat], \A u \in Tickets \ {t} : UNCHANGED installs[u]
  PROVE  /\ WorkerMoves(w, t, at) /\ TicketInv(t)
         /\ TicketInv(t)' => SideInv'
<1>1. worker \in [Workers -> WorkerRecords] /\ worker[w] \in WorkerRecords
  BY DEF SideInv, SideloadTyped
<1>2. t \in Tickets /\ t # None /\ \A u \in Tickets : u # None
  BY <1>1, SideloadBounds DEF SideInv, TicketsTaken, WorkerRecords
<1>3. /\ worker'[w].at = at /\ worker'[w].ticket = (IF at = "none" THEN None ELSE t)
      /\ \A v \in Workers : v # w => worker'[v] = worker[v]
      /\ worker' \in [Workers -> WorkerRecords]
  <2>1. CASE at \in WorkerStages \ {"none"} /\ WorkerAt(w, at)
    <3>1. worker' = [worker EXCEPT ![w] = [worker[w] EXCEPT !.at = at]]
      BY <1>1, <2>1 DEF WorkerAt
    <3>2. /\ [worker[w] EXCEPT !.at = at] \in WorkerRecords
          /\ [worker[w] EXCEPT !.at = at].ticket = t /\ [worker[w] EXCEPT !.at = at].at = at
      BY <1>1, <2>1 DEF WorkerRecords
    <3> QED
      BY <1>1, <2>1, <3>1, <3>2
  <2>2. CASE at = "none" /\ worker' = [worker EXCEPT ![w] = NoWorker]
    <3>1. NoWorker \in WorkerRecords /\ NoWorker.at = "none" /\ NoWorker.ticket = None
      BY DEF NoWorker, WorkerRecords, WorkerStages
    <3> QED
      BY <1>1, <2>2, <3>1
  <2> QED
    BY <2>1, <2>2 DEF Goes
<1>4. UNCHANGED <<upload, thread, intake, cleaner, told, swept>>
  BY DEF WorkerOnly
<1>5. /\ lost' \in [Tickets -> BOOLEAN] /\ (lost[t] => lost'[t]) /\ (Fault(t) => lost'[t])
      /\ \A u \in Tickets \ {t} : UNCHANGED lost[u]
  BY <1>2, FaultEffect DEF SideInv
<1>6. TicketsTaken'
  BY <1>2, <1>3, <1>4 DEF SideInv, TicketsTaken
<1>7. SideloadTyped'
  BY <1>3, <1>4, <1>5 DEF SideInv, SideloadTyped, DiskOf
<1>8. \A u : ThreadsOf(u)' = ThreadsOf(u) /\ \A h \in ThreadsOf(u) : thread'[h] = thread[h]
  BY <1>4 DEF ThreadsOf
<1>9. OnlyTicket(t)
  <2>1. ASSUME NEW u \in Tickets \ {t}
        PROVE  KeptOnDisk(u) /\ KeptInHistory(u) /\ KeptThreads(u) /\ KeptWorkers(u) /\ PageWaits(u)
    <3>1. TicketInv(u)
      BY <2>1 DEF SideInv
    <3>2. KeptOnDisk(u)
      BY <1>4, <1>5, <2>1 DEF KeptOnDisk, DiskOf, OtherFiles
    <3>3. KeptInHistory(u) /\ KeptThreads(u)
      BY <1>4, <1>8 DEF KeptInHistory, KeptThreads
    <3>4. KeptWorkers(u)
      BY <1>2, <1>3, <2>1 DEF KeptWorkers, WorkersOf
    <3>5. PageWaits(u)
      BY <1>4, <3>1 DEF PageWaits, TicketInv, Fresh
    <3> QED
      BY <3>2, <3>3, <3>4, <3>5
  <2> QED
    BY <2>1 DEF OnlyTicket
<1>10. TicketInv(t)
  BY <1>2 DEF SideInv
<1>11. w \in WorkersOf(t) /\ upload'[t] = "over"
  BY <1>4, <1>10 DEF WorkersOf, TicketInv, Fresh
<1>12. WorkersOf(t)' = IF at = "none" THEN WorkersOf(t) \ {w} ELSE WorkersOf(t)
  BY <1>2, <1>3 DEF WorkersOf
<1>13. WorkerMoves(w, t, at)
  BY <1>2, <1>3, <1>4, <1>5, <1>8, <1>11, <1>12 DEF WorkerMoves
<1>14. TicketInv(t)' => SideInv'
  BY <1>2, <1>6, <1>7, <1>9, OneTicketKeeps
<1> QED
  BY <1>10, <1>13, <1>14

\* What the steps of workers have in common: a worker gives the lock away once and never
\* takes it, and only the installer counts.
LawfulWork(w, t, at) ==
  LET from == worker[w].at IN
  /\ OwnsLock(at) => OwnsLock(from)
  /\ OwnsLock(at) \/ ~OwnsLock(from) =>
       (Has(t, "lock") => Has(t, "lock")') /\ ("lock" \in old'[t] => "lock" \in old[t])
  /\ status'[t] # "inspected"
  /\ at \in {"start", "install"} => Has(t, "apk")' \/ t \in swept
  /\ at \in {"unlock good", "unlock bad", "report good", "report bad"} => ~Has(t, "apk")'
  /\ installs'[t] \in {0, 1}
  /\ at \in {"start", "install"} => installs'[t] # 1
  /\ at \in {"installed", "unlock good", "report good"} => installs'[t] = 1

\* Lawful work keeps what is not about the status file.
LEMMA LawfulWorkKeeps ==
  ASSUME NEW t, TicketInv(t), NEW w, NEW at, WorkerMoves(w, t, at), LawfulWork(w, t, at), StatusTrue(t)'
  PROVE  TicketInv(t)'
<1>1. /\ OneOwner(t) /\ OneDecides(t) /\ Undecided(t) /\ KindsFit(t)
      /\ PackageFollows(t) /\ RunsOnce(t) /\ StaysDiscarded(t) /\ ResetIsLost(t)
  BY DEF TicketInv
<1>2. /\ w \in WorkersOf(t) /\ WorkersOf(t) = {w}
      /\ \A h \in ThreadsOf(t) : ~Decides(thread[h].at)
  BY <1>1 DEF WorkerMoves, OneDecides
<1>3. /\ ThreadsOf(t)' = ThreadsOf(t) /\ \A h \in ThreadsOf(t) : thread'[h] = thread[h]
      /\ (t \in told' <=> t \in told) /\ (t \in swept' <=> t \in swept)
      /\ upload'[t] = "over" /\ (lost[t] => lost'[t])
  BY DEF WorkerMoves
<1>4. /\ WorkersOf(t)' = IF at = "none" THEN {} ELSE {w}
      /\ worker'[w].at = at
  BY <1>2 DEF WorkerMoves
<1>5. ~Discarded(t)' /\ ~Discarded(t)
  <2>1. ~Discarded(t)
    BY <1>1, <1>2 DEF StaysDiscarded
  <2> QED
    BY <1>3, <2>1 DEF Discarded
<1>6. Fresh(t)' /\ KindsFit(t)' /\ ResetIsLost(t)' /\ StaysDiscarded(t)'
  BY <1>1, <1>3, <1>5 DEF Fresh, KindsFit, ResetIsLost, StaysDiscarded
<1>7. OneOwner(t)'
  <2>1. ASSUME NEW h \in ThreadsOf(t), HasLock(thread[h].at)
        PROVE  /\ Has(t, "lock")' /\ "lock" \notin old'[t] /\ ~OwnsLock(at)
               /\ \A g \in ThreadsOf(t) : HasLock(thread[g].at) => g = h
    BY <1>1, <1>2, <2>1 DEF OneOwner, LawfulWork
  <2>2. OwnsLock(at) => Has(t, "lock")' /\ "lock" \notin old'[t]
    BY <1>1, <1>2 DEF OneOwner, LawfulWork
  <2> QED
    BY <1>3, <1>4, <2>1, <2>2 DEF OneOwner
<1>8. OneDecides(t)' /\ Undecided(t)'
  <2>1. \A u, v \in WorkersOf(t)' : u = v
    BY <1>4
  <2>2. \A h \in ThreadsOf(t)' : ~Decides(thread'[h].at)
    BY <1>2, <1>3
  <2>3. OneDecides(t)'
    BY <2>1, <2>2 DEF OneDecides
  <2> QED
    BY <2>3 DEF Undecided, LawfulWork
<1>9. PackageFollows(t)'
  <2>1. \A h \in ThreadsOf(t) : thread[h].at \notin {"install", "spawn", "forget", "release"}
    BY <1>2 DEF Decides, Installs, Discards
  <2> QED
    BY <1>3, <1>4, <2>1 DEF PackageFollows, LawfulWork
<1>10. RunsOnce(t)'
  <2>1. \A h \in ThreadsOf(t)' : ~Decides(thread'[h].at)
    BY <1>2, <1>3
  <2>2. \A v \in WorkersOf(t)' : worker'[v].at = at
    BY <1>4
  <2>3. /\ installs'[t] \in {0, 1} /\ status'[t] # "inspected"
        /\ at \in {"start", "install"} => installs'[t] # 1
        /\ at \in {"installed", "unlock good", "report good"} => installs'[t] = 1
    BY DEF LawfulWork
  <2> QED
    BY <2>1, <2>2, <2>3 DEF RunsOnce
<1> QED
  BY <1>6, <1>7, <1>8, <1>9, <1>10 DEF TicketInv

\* Lawful work keeps the whole invariant.
LEMMA WorkKeeps ==
  ASSUME SideInv, NEW w \in Workers, NEW t, worker[w].ticket = t, worker[w].at # "none",
         NEW at, Goes(w, at), WorkerOnly, DiskOf(t), NoFault \/ Fault(t),
         installs' \in [Tickets -> Nat], \A u \in Tickets \ {t} : UNCHANGED installs[u],
         LawfulWork(w, t, at), WorkerMoves(w, t, at) => StatusTrue(t)'
  PROVE  SideInv'
<1>1. WorkerMoves(w, t, at) /\ TicketInv(t)
  BY WorkerSteps
<1>2. TicketInv(t)'
  BY <1>1, LawfulWorkKeeps
<1> QED
  BY <1>2, WorkerSteps

\* What a worker can rely on.
LEMMA WorkerKnows ==
  ASSUME SideInv, NEW w \in Workers, NEW t, worker[w].ticket = t, worker[w].at # "none"
  PROVE  /\ t \in Tickets /\ FilesTyped /\ status \in [Tickets -> States]
         /\ installs \in [Tickets -> Nat] /\ lost \in [Tickets -> BOOLEAN]
         /\ WorkersOf(t) = {w} /\ StatusTrue(t)
         /\ worker[w].at \in WorkerStages \ {"none"} /\ status[t] # "inspected"
         /\ installs[t] \in {0, 1}
         /\ worker[w].at \in {"start", "install"} => installs[t] = 0
         /\ worker[w].at \in {"installed", "unlock good", "report good"} => installs[t] = 1
         /\ worker[w].at \in {"start", "install"} => Has(t, "apk") \/ t \in swept
         /\ worker[w].at \in {"unlock good", "unlock bad", "report good", "report bad"} => ~Has(t, "apk")
         /\ OwnsLock(worker[w].at) => Has(t, "lock") /\ "lock" \notin old[t]
         /\ \A h \in ThreadsOf(t) : thread[h].at # "spawn" /\ thread[h].at # "forget"
<1>1. worker[w] \in WorkerRecords /\ FilesTyped /\ status \in [Tickets -> States]
      /\ installs \in [Tickets -> Nat] /\ lost \in [Tickets -> BOOLEAN]
  BY DEF SideInv, SideloadTyped
<1>2. t \in Tickets /\ w \in WorkersOf(t)
  BY <1>1 DEF SideInv, TicketsTaken, WorkerRecords, WorkersOf
<1>3. TicketInv(t)
  BY <1>2 DEF SideInv
<1>4. WorkersOf(t) = {w} /\ \A h \in ThreadsOf(t) : ~Decides(thread[h].at)
  BY <1>2, <1>3 DEF TicketInv, OneDecides
<1>5. /\ \A h \in ThreadsOf(t) : thread[h].at # "spawn" /\ thread[h].at # "forget"
      /\ worker[w].at \in WorkerStages \ {"none"} /\ status[t] # "inspected" /\ StatusTrue(t)
  BY <1>1, <1>3, <1>4 DEF Decides, Installs, Discards, WorkerRecords, TicketInv, Undecided
<1>6. /\ installs[t] \in {0, 1} /\ (worker[w].at \in {"start", "install"} => installs[t] # 1)
      /\ worker[w].at \in {"installed", "unlock good", "report good"} => installs[t] = 1
  BY <1>2, <1>3 DEF TicketInv, RunsOnce
<1>7. /\ worker[w].at \in {"start", "install"} => Has(t, "apk") \/ t \in swept
      /\ worker[w].at \in {"unlock good", "unlock bad", "report good", "report bad"} => ~Has(t, "apk")
  BY <1>2, <1>3 DEF TicketInv, PackageFollows
<1>8. OwnsLock(worker[w].at) => Has(t, "lock") /\ "lock" \notin old[t]
  BY <1>2, <1>3 DEF TicketInv, OneOwner
<1> QED
  BY <1>1, <1>2, <1>4, <1>5, <1>6, <1>7, <1>8

\* A worker that ends without a word leaves the files as they are.
LEMMA WorkerEndsKeeps ==
  ASSUME SideInv, NEW w \in Workers, NEW t, worker[w].ticket = t, worker[w].at # "none",
         worker' = [worker EXCEPT ![w] = NoWorker], UNCHANGED <<diskVars, installs>>, WorkerOnly,
         Fault(t) \/ (~Has(t, "apk") /\ worker[w].at = "start" /\ NoFault)
  PROVE  SideInv'
<1>1. /\ t \in Tickets /\ FilesTyped /\ status \in [Tickets -> States]
      /\ installs \in [Tickets -> Nat] /\ lost \in [Tickets -> BOOLEAN] /\ status[t] # "inspected"
      /\ installs[t] \in {0, 1}
      /\ worker[w].at \in {"start", "install"} => Has(t, "apk") \/ t \in swept
  BY WorkerKnows
<1>2. DiskOf(t) /\ status'[t] = status[t] /\ files'[t] = files[t] /\ old'[t] = old[t]
  BY <1>1, DiskUntouched
<1>3. LawfulWork(w, t, "none")
  BY <1>1, <1>2 DEF LawfulWork, OwnsLock, Has
<1>4. ASSUME WorkerMoves(w, t, "none")
      PROVE  StatusTrue(t)'
  BY <1>1, <1>4 DEF WorkerMoves, StatusTrue
<1> QED
  BY <1>1, <1>2, <1>3, <1>4, WorkKeeps DEF Goes

\* run_apk_install_worker_with, step by step.
LEMMA WorkerStepKeeps ==
  ASSUME SideInv, NEW w \in Workers, WorkerStep(w) \/ WorkerDies(w)
  PROVE  SideInv'
<1> PICK t : worker[w].ticket = t
  OBVIOUS
<1>0. worker[w].at # "none"
  BY DEF WorkerStep, WorkerDies, WorkerStarts, Install, DropArtifact, DropLock, Report
<1>1. /\ t \in Tickets /\ FilesTyped /\ status \in [Tickets -> States]
      /\ installs \in [Tickets -> Nat] /\ lost \in [Tickets -> BOOLEAN]
      /\ WorkersOf(t) = {w} /\ StatusTrue(t)
      /\ worker[w].at \in WorkerStages \ {"none"} /\ status[t] # "inspected"
      /\ installs[t] \in {0, 1}
      /\ worker[w].at \in {"start", "install"} => installs[t] = 0
      /\ worker[w].at \in {"installed", "unlock good", "report good"} => installs[t] = 1
      /\ worker[w].at \in {"start", "install"} => Has(t, "apk") \/ t \in swept
      /\ worker[w].at \in {"unlock good", "unlock bad", "report good", "report bad"} => ~Has(t, "apk")
      /\ OwnsLock(worker[w].at) => Has(t, "lock") /\ "lock" \notin old[t]
      /\ \A h \in ThreadsOf(t) : thread[h].at # "spawn" /\ thread[h].at # "forget"
  BY <1>0, WorkerKnows
<1>2. CASE WorkerDies(w)
  BY <1>0, <1>2, WorkerEndsKeeps DEF WorkerDies
<1>3. CASE WorkerStarts(w)
  <2>1. CASE Has(t, "apk") /\ WriteStatus(t, "installing") /\ WorkerAt(w, "install") /\ NoFault
    <3>1. /\ DiskOf(t) /\ status'[t] = "installing"
          /\ files'[t] = files[t] \cup {"status"} /\ old'[t] = old[t] \ {"status"}
      BY <1>1, <2>1, DiskAfterStatus DEF States
    <3>2. worker[w].at = "start" /\ WorkerOnly /\ UNCHANGED installs
      BY <1>3 DEF WorkerStarts
    <3>3. LawfulWork(w, t, "install")
      BY <1>1, <2>1, <3>1, <3>2 DEF LawfulWork, OwnsLock, Has
    <3>4. ASSUME WorkerMoves(w, t, "install")
          PROVE  StatusTrue(t)'
      BY <1>1, <3>1, <3>2, <3>4 DEF WorkerMoves, StatusTrue, Has, OwnsLock
    <3> QED
      BY <1>0, <1>1, <2>1, <3>1, <3>2, <3>3, <3>4, WorkKeeps DEF Goes, WorkerStages
  <2>2. CASE /\ (~Has(t, "apk") /\ NoFault) \/ Fault(t)
             /\ worker' = [worker EXCEPT ![w] = NoWorker] /\ UNCHANGED diskVars
    BY <1>0, <1>3, <2>2, WorkerEndsKeeps DEF WorkerStarts
  <2> QED
    BY <1>3, <2>1, <2>2 DEF WorkerStarts
<1>4. CASE Install(w)
  <2>0. worker[w].at = "install" /\ WorkerOnly /\ NoFault /\ UNCHANGED diskVars
    BY <1>4 DEF Install
  <2>1. DiskOf(t) /\ status'[t] = status[t] /\ files'[t] = files[t] /\ old'[t] = old[t]
    BY <1>1, <2>0, DiskUntouched
  <2>2. CASE /\ Has(t, "apk") /\ WorkerAt(w, "installed")
             /\ installs' = [installs EXCEPT ![t] = IF @ < 2 THEN @ + 1 ELSE @]
    <3>1. /\ installs' \in [Tickets -> Nat] /\ installs'[t] = 1
          /\ \A u \in Tickets \ {t} : UNCHANGED installs[u]
      BY <1>1, <2>0, <2>2
    <3>2. LawfulWork(w, t, "installed")
      BY <1>1, <2>0, <2>1, <3>1 DEF LawfulWork, OwnsLock, Has
    <3>3. ASSUME WorkerMoves(w, t, "installed")
          PROVE  StatusTrue(t)'
      BY <1>1, <2>0, <2>1, <3>1, <3>3 DEF WorkerMoves, StatusTrue, Has
    <3> QED
      BY <1>0, <2>0, <2>1, <2>2, <3>1, <3>2, <3>3, WorkKeeps DEF Goes, WorkerStages
  <2>3. CASE WorkerAt(w, "failed") /\ UNCHANGED installs
    <3>1. LawfulWork(w, t, "failed")
      BY <1>1, <2>0, <2>1, <2>3 DEF LawfulWork, OwnsLock, Has
    <3>2. ASSUME WorkerMoves(w, t, "failed")
          PROVE  StatusTrue(t)'
      BY <1>1, <2>1, <2>3, <3>2 DEF WorkerMoves, StatusTrue, Has
    <3> QED
      BY <1>0, <1>1, <2>0, <2>1, <2>3, <3>1, <3>2, WorkKeeps DEF Goes, WorkerStages
  <2> QED
    BY <1>4, <2>2, <2>3 DEF Install
<1>5. ASSUME NEW outcome \in {"installed", "failed"}, DropArtifact(w, outcome)
      PROVE  SideInv'
  <2> DEFINE at == IF outcome = "installed" THEN "unlock good" ELSE "unlock bad"
  <2>0. /\ worker[w].at = outcome /\ WorkerOnly /\ NoFault /\ UNCHANGED <<status, installs>>
        /\ Unlink(t, {"apk"}) /\ WorkerAt(w, at)
    BY <1>5 DEF DropArtifact
  <2>1. DiskOf(t) /\ status'[t] = status[t] /\ files'[t] = files[t] \ {"apk"} /\ old'[t] = old[t] \ {"apk"}
    BY <1>1, <2>0, DiskAfterUnlink
  <2>2. LawfulWork(w, t, at)
    BY <1>1, <2>0, <2>1 DEF LawfulWork, OwnsLock, Has
  <2>3. at # "none" /\ at \in WorkerStages
    BY DEF WorkerStages
  <2> HIDE DEF at
  <2>4. ASSUME WorkerMoves(w, t, at)
        PROVE  StatusTrue(t)'
    BY <1>1, <2>0, <2>1, <2>3, <2>4 DEF WorkerMoves, StatusTrue, Has
  <2> QED
    BY <1>0, <1>1, <2>0, <2>1, <2>2, <2>3, <2>4, WorkKeeps DEF Goes
<1>6. CASE DropLock(w)
  <2> DEFINE at == IF worker[w].at = "unlock good" THEN "report good" ELSE "report bad"
  <2>0. /\ worker[w].at \in {"unlock good", "unlock bad"} /\ WorkerOnly /\ NoFault
        /\ UNCHANGED <<status, installs>> /\ Unlink(t, {"lock"}) /\ WorkerAt(w, at)
    BY <1>6 DEF DropLock
  <2>1. DiskOf(t) /\ status'[t] = status[t] /\ files'[t] = files[t] \ {"lock"} /\ old'[t] = old[t] \ {"lock"}
    BY <1>1, <2>0, DiskAfterUnlink
  <2>2. LawfulWork(w, t, at)
    BY <1>1, <2>0, <2>1 DEF LawfulWork, OwnsLock, Has
  <2>3. at # "none" /\ at \in WorkerStages
    BY DEF WorkerStages
  <2> HIDE DEF at
  <2>4. ASSUME WorkerMoves(w, t, at)
        PROVE  StatusTrue(t)'
    BY <1>1, <2>0, <2>1, <2>3, <2>4 DEF WorkerMoves, StatusTrue, Has
  <2> QED
    BY <1>0, <1>1, <2>0, <2>1, <2>2, <2>3, <2>4, WorkKeeps DEF Goes
<1>7. CASE Report(w)
  <2>0. /\ worker[w].at \in {"report good", "report bad"} /\ WorkerOnly /\ UNCHANGED installs
        /\ worker' = [worker EXCEPT ![w] = NoWorker]
    BY <1>7 DEF Report
  <2>1. CASE Fault(t) /\ UNCHANGED diskVars
    BY <1>0, <2>0, <2>1, WorkerEndsKeeps
  <2>2. ASSUME NEW state \in {"installed", "failed"}, WriteStatus(t, state), NoFault,
               state = "installed" <=> worker[w].at = "report good"
        PROVE  SideInv'
    <3>1. /\ DiskOf(t) /\ status'[t] = state
          /\ files'[t] = files[t] \cup {"status"} /\ old'[t] = old[t] \ {"status"}
      BY <1>1, <2>2, DiskAfterStatus DEF States
    <3>2. LawfulWork(w, t, "none")
      BY <1>1, <2>0, <2>2, <3>1 DEF LawfulWork, OwnsLock, Has
    <3>3. StatusTrue(t)'
      BY <1>1, <2>0, <2>2, <3>1 DEF StatusTrue, Has
    <3> QED
      BY <1>0, <1>1, <2>0, <2>2, <3>1, <3>2, <3>3, WorkKeeps DEF Goes
  <2> QED
    BY <1>7, <2>1, <2>2 DEF Report
<1> QED
  BY <1>2, <1>3, <1>4, <1>5, <1>6, <1>7 DEF WorkerStep

-----------------------------------------------------------------------------
(* Uploads *)

\* A step of an upload is one about its ticket, which no thread and no worker has.
LEMMA UploadSteps ==
  ASSUME SideInv, NEW t \in Tickets, upload[t] # "over", NEW at \in UploadStages, UploadTo(t, at),
         NoUpload, DiskOf(t), NoFault \/ Fault(t),
         intake'.ticket \in Tickets \cup {None}, DOMAIN intake' = {"state", "ticket", "awaits"},
         \A u \in Tickets : intake'.ticket = u => intake.ticket = u \/ (u = t /\ at = "over"),
         at \in {"none", "receiving", "published", "staged"} => ~Has(t, "status")',
         at \in {"published", "staged"} /\ t \notin swept => Has(t, "apk")',
         StatusTrue(t)'
  PROVE  SideInv'
<1>1. UNCHANGED <<thread, worker, cleaner, installs, told, swept>>
  BY DEF NoUpload, historyVars
<1>2. /\ lost' \in [Tickets -> BOOLEAN] /\ (lost[t] => lost'[t])
      /\ \A u \in Tickets \ {t} : UNCHANGED lost[u]
  BY FaultEffect DEF SideInv
<1>3. /\ upload' \in [Tickets -> UploadStages] /\ upload'[t] = at
      /\ \A u \in Tickets \ {t} : UNCHANGED upload[u]
  BY DEF SideInv, SideloadTyped, UploadTo
<1>4. SideloadTyped'
  BY <1>1, <1>2, <1>3 DEF SideInv, SideloadTyped, DiskOf
<1>5. TicketsTaken'
  BY <1>1 DEF SideInv, TicketsTaken
<1>6. \A u : ThreadsOf(u)' = ThreadsOf(u) /\ WorkersOf(u)' = WorkersOf(u)
  BY <1>1 DEF ThreadsOf, WorkersOf
<1>7. OnlyTicket(t)
  <2>1. ASSUME NEW u \in Tickets \ {t}
        PROVE  KeptOnDisk(u) /\ KeptInHistory(u) /\ KeptThreads(u) /\ KeptWorkers(u) /\ PageWaits(u)
    <3>1. TicketInv(u)
      BY <2>1 DEF SideInv
    <3>2. KeptOnDisk(u)
      BY <1>1, <1>2, <1>3, <2>1 DEF KeptOnDisk, DiskOf, OtherFiles
    <3>3. KeptInHistory(u) /\ KeptThreads(u) /\ KeptWorkers(u)
      BY <1>1, <1>6 DEF KeptInHistory, KeptThreads, KeptWorkers
    <3>4. PageWaits(u)
      BY <1>3, <2>1, <3>1 DEF PageWaits, TicketInv, Fresh
    <3> QED
      BY <3>2, <3>3, <3>4
  <2> QED
    BY <2>1 DEF OnlyTicket
<1>8. ThreadsOf(t) = {} /\ WorkersOf(t) = {} /\ installs[t] = 0 /\ t \notin told /\ intake.ticket # t
  BY DEF SideInv, TicketInv, Fresh
<1>9. TicketInv(t)'
  <2>1. Fresh(t)'
    BY <1>1, <1>3, <1>6, <1>8 DEF Fresh
  <2>2. OneOwner(t)' /\ OneDecides(t)' /\ Undecided(t)' /\ KindsFit(t)' /\ PackageFollows(t)' /\ ResetIsLost(t)'
    BY <1>6, <1>8 DEF OneOwner, OneDecides, Undecided, KindsFit, PackageFollows, ResetIsLost
  <2>3. installs'[t] \in {0, 1} /\ installs'[t] # 1
    BY <1>1, <1>8
  <2>4. RunsOnce(t)' /\ StaysDiscarded(t)'
    BY <1>1, <1>6, <1>8, <2>3 DEF RunsOnce, StaysDiscarded, Discarded
  <2> QED
    BY <2>1, <2>2, <2>4 DEF TicketInv
<1> QED
  BY <1>4, <1>5, <1>7, <1>9, OneTicketKeeps

\* What an upload can rely on.
LEMMA UploadKnows ==
  ASSUME SideInv, NEW t \in Tickets
  PROVE  /\ FilesTyped /\ status \in [Tickets -> States] /\ lost \in [Tickets -> BOOLEAN]
         /\ intake.ticket \in Tickets \cup {None} /\ DOMAIN intake = {"state", "ticket", "awaits"}
         /\ upload[t] \in {"none", "receiving", "published", "staged"} => ~Has(t, "status")
         /\ upload[t] \in {"published", "staged"} /\ t \notin swept => Has(t, "apk")
         /\ StatusTrue(t)
         /\ upload[t] # "over" => ThreadsOf(t) = {} /\ WorkersOf(t) = {}
BY DEF SideInv, SideloadTyped, TicketInv, Fresh

\* uploadApk and stage_apk_upload, step by step.
LEMMA UploadStepKeeps ==
  ASSUME SideInv, NEW t \in Tickets, UploadStarts(t) \/ UploadStep(t)
  PROVE  SideInv'
<1>0. /\ FilesTyped /\ status \in [Tickets -> States] /\ lost \in [Tickets -> BOOLEAN]
      /\ intake.ticket \in Tickets \cup {None} /\ DOMAIN intake = {"state", "ticket", "awaits"}
      /\ upload[t] \in {"none", "receiving", "published", "staged"} => ~Has(t, "status")
      /\ upload[t] \in {"published", "staged"} /\ t \notin swept => Has(t, "apk")
      /\ StatusTrue(t)
      /\ upload[t] # "over" => ThreadsOf(t) = {} /\ WorkersOf(t) = {}
  BY UploadKnows
<1>1. CASE UploadStarts(t)
  <2>1. /\ upload[t] = "none" /\ Create(t, "upload") /\ status' = status
        /\ UploadTo(t, "receiving") /\ NoFault /\ NoUpload
        /\ intake' = [state |-> "uploading", ticket |-> None, awaits |-> t]
    BY <1>1 DEF UploadStarts
  <2>2. DiskOf(t) /\ files'[t] = files[t] \cup {"upload"}
    BY <1>0, <2>1, DiskAfterCreate DEF Names
  <2>3. ~Has(t, "status")' /\ StatusTrue(t)'
    BY <1>0, <2>1, <2>2 DEF Has, StatusTrue
  <2>4. intake'.ticket = None /\ DOMAIN intake' = {"state", "ticket", "awaits"} /\ None \notin Tickets
    BY <2>1, SideloadBounds
  <2> QED
    BY <2>1, <2>2, <2>3, <2>4, UploadSteps DEF UploadStages
<1>2. CASE UploadFails(t)
  <2>1. /\ upload[t] \in {"receiving", "published"} /\ (NoFault \/ Fault(t))
        /\ Unlink(t, {"upload"}) /\ status' = status
        /\ UploadTo(t, "refused") /\ intake' = intake /\ NoUpload
    BY <1>2 DEF UploadFails
  <2>2. DiskOf(t) /\ files'[t] = files[t] \ {"upload"}
    BY <1>0, <2>1, DiskAfterUnlink
  <2>3. StatusTrue(t)'
    BY <1>0, <2>1, <2>2 DEF Has, StatusTrue
  <2> QED
    BY <1>0, <2>1, <2>2, <2>3, UploadSteps DEF UploadStages
<1>3. CASE Publish(t)
  <2>1. /\ upload[t] = "receiving" /\ NoFault /\ Create(t, "apk") /\ status' = status
        /\ UploadTo(t, "published") /\ intake' = intake /\ NoUpload
    BY <1>3 DEF Publish
  <2>2. DiskOf(t) /\ files'[t] = files[t] \cup {"apk"}
    BY <1>0, <2>1, DiskAfterCreate DEF Names
  <2>3. StatusTrue(t)' /\ ~Has(t, "status")' /\ Has(t, "apk")'
    BY <1>0, <2>1, <2>2 DEF Has, StatusTrue
  <2> QED
    BY <1>0, <2>1, <2>2, <2>3, UploadSteps DEF UploadStages
<1>4. CASE DropUpload(t)
  <2>1. /\ upload[t] = "published" /\ NoFault /\ Unlink(t, {"upload"}) /\ status' = status
        /\ UploadTo(t, "staged") /\ intake' = intake /\ NoUpload
    BY <1>4 DEF DropUpload
  <2>2. DiskOf(t) /\ files'[t] = files[t] \ {"upload"}
    BY <1>0, <2>1, DiskAfterUnlink
  <2>3. StatusTrue(t)' /\ ~Has(t, "status")' /\ (t \notin swept => Has(t, "apk")')
    BY <1>0, <2>1, <2>2 DEF Has, StatusTrue
  <2> QED
    BY <1>0, <2>1, <2>2, <2>3, UploadSteps DEF UploadStages
<1>5. CASE Inspect(t)
  <2>0. upload[t] = "staged" /\ intake' = intake /\ NoUpload
    BY <1>5 DEF Inspect
  <2>1. CASE WriteStatus(t, "inspected") /\ UploadTo(t, "accepted") /\ NoFault
    <3>1. DiskOf(t) /\ status'[t] = "inspected" /\ files'[t] = files[t] \cup {"status"}
      BY <1>0, <2>1, DiskAfterStatus DEF States
    <3>2. swept' = swept
      BY <2>0 DEF NoUpload, historyVars
    <3>3. StatusTrue(t)'
      BY <1>0, <2>0, <3>1, <3>2 DEF Has, StatusTrue
    <3> QED
      BY <1>0, <2>0, <2>1, <3>1, <3>3, UploadSteps DEF UploadStages
  <2>2. CASE Unlink(t, {"apk"}) /\ UNCHANGED status /\ UploadTo(t, "refused") /\ (NoFault \/ Fault(t))
    <3>1. DiskOf(t) /\ files'[t] = files[t] \ {"apk"}
      BY <1>0, <2>2, DiskAfterUnlink
    <3>2. StatusTrue(t)'
      BY <1>0, <2>0, <3>1 DEF Has, StatusTrue
    <3> QED
      BY <1>0, <2>0, <2>2, <3>1, <3>2, UploadSteps DEF UploadStages
  <2> QED
    BY <1>5, <2>1, <2>2 DEF Inspect
<1>6. CASE UploadReply(t)
  <2>1. /\ upload[t] \in {"accepted", "refused"} /\ UploadTo(t, "over")
        /\ UNCHANGED diskVars /\ NoFault /\ NoUpload
    BY <1>6 DEF UploadReply
  <2>2. DiskOf(t) /\ status'[t] = status[t] /\ files'[t] = files[t]
    BY <1>0, <2>1, DiskUntouched
  <2>3. UNCHANGED <<thread, worker, installs, swept, lost>>
    BY <2>1 DEF NoUpload, historyVars, NoFault, boundVars
  <2>4. StatusTrue(t)'
    BY <1>0, <2>2, <2>3 DEF StatusTrue, Has, ThreadsOf, WorkersOf
  <2>5. \/ intake' = intake
        \/ intake' = [state |-> "inspected", ticket |-> t, awaits |-> None]
        \/ intake' = [state |-> "failed", ticket |-> None, awaits |-> None]
    BY <1>6 DEF UploadReply
  <2>6. intake'.ticket \in {intake.ticket, t, None} /\ DOMAIN intake' = {"state", "ticket", "awaits"}
    BY <1>0, <2>5
  <2>7. /\ intake'.ticket \in Tickets \cup {None}
        /\ \A u \in Tickets : intake'.ticket = u => intake.ticket = u \/ u = t
    BY <1>0, <2>6, SideloadBounds
  <2> QED
    BY <2>1, <2>2, <2>4, <2>6, <2>7, UploadSteps DEF UploadStages
<1> QED
  BY <1>1, <1>2, <1>3, <1>4, <1>5, <1>6 DEF UploadStep

-----------------------------------------------------------------------------
(* The page, the Hub that ends, the Hub that starts *)

\* The page turns to another state or ticket it knows.
LEMMA PageKeeps ==
  ASSUME SideInv, UNCHANGED <<diskVars, upload, thread, worker, installs, told, swept>>,
         cleaner' \subseteq Tickets \X Names,
         lost' \in [Tickets -> BOOLEAN], \A t \in Tickets : lost[t] => lost'[t],
         intake'.ticket \in {intake.ticket, None}, DOMAIN intake' = {"state", "ticket", "awaits"}
  PROVE  SideInv'
<1>1. UNCHANGED <<files, old, status, upload, thread, worker, installs, told, swept>>
  BY DEF diskVars
<1>2. SideloadTyped'
  BY <1>1 DEF SideInv, SideloadTyped, FilesTyped
<1>3. TicketsTaken'
  BY <1>1 DEF SideInv, TicketsTaken
<1>4. ASSUME NEW t \in Tickets
      PROVE  TicketInv(t)'
  <2>1. /\ Fresh(t) /\ OneOwner(t) /\ OneDecides(t) /\ Undecided(t) /\ KindsFit(t)
        /\ PackageFollows(t) /\ RunsOnce(t) /\ StaysDiscarded(t) /\ ResetIsLost(t) /\ StatusTrue(t)
    BY <1>4 DEF SideInv, TicketInv
  <2>2. ThreadsOf(t)' = ThreadsOf(t) /\ WorkersOf(t)' = WorkersOf(t) /\ (lost[t] => lost'[t])
    BY <1>1, <1>4 DEF ThreadsOf, WorkersOf
  <2>3. intake'.ticket # t \/ intake'.ticket = intake.ticket
    BY <1>4, SideloadBounds
  <2>4. Fresh(t)'
    BY <1>1, <2>1, <2>2, <2>3 DEF Fresh, Has
  <2>5. OneOwner(t)' /\ OneDecides(t)' /\ Undecided(t)' /\ KindsFit(t)'
    BY <1>1, <2>1, <2>2 DEF OneOwner, OneDecides, Undecided, KindsFit, Has
  <2>6. PackageFollows(t)' /\ RunsOnce(t)'
    BY <1>1, <2>1, <2>2 DEF PackageFollows, RunsOnce, Has
  <2>7. StaysDiscarded(t)' /\ ResetIsLost(t)'
    BY <1>1, <2>1, <2>2 DEF StaysDiscarded, Discarded, ResetIsLost, Has
  <2>8. StatusTrue(t)'
    BY <1>1, <2>1, <2>2 DEF StatusTrue, Has
  <2> QED
    BY <2>4, <2>5, <2>6, <2>7, <2>8 DEF TicketInv
<1> QED
  BY <1>2, <1>3, <1>4 DEF SideInv

\* Aborted uploads, lost replies, polls and the listing of a Hub that starts.
LEMMA PageStepKeeps ==
  ASSUME SideInv, UploadAborted \/ LoseReply \/ Poll \/ HubStarts
  PROVE  SideInv'
<1>0. /\ FilesTyped /\ intake.ticket \in Tickets \cup {None} /\ DOMAIN intake = {"state", "ticket", "awaits"}
      /\ cleaner \subseteq Tickets \X Names /\ lost \in [Tickets -> BOOLEAN]
  BY DEF SideInv, SideloadTyped
<1>1. CASE UploadAborted
  <2>1. /\ UNCHANGED <<diskVars, upload, thread, worker, installs, told, swept, cleaner, lost>>
        /\ intake'.ticket = None /\ DOMAIN intake' = {"state", "ticket", "awaits"}
    BY <1>1 DEF UploadAborted, NoFault, boundVars, NoUpload, historyVars
  <2> QED
    BY <1>0, <2>1, PageKeeps
<1>2. CASE LoseReply
  <2>1. /\ UNCHANGED <<diskVars, upload, thread, worker, installs, told, swept, cleaner>>
        /\ intake' = [intake EXCEPT !.awaits = None, !.state = "inspected"]
        /\ intake.ticket \in Tickets /\ lost' = [lost EXCEPT ![intake.ticket] = TRUE]
    BY <1>0, <1>2 DEF LoseReply, Fault, historyVars
  <2>2. /\ lost' \in [Tickets -> BOOLEAN] /\ \A t \in Tickets : lost[t] => lost'[t]
        /\ intake'.ticket = intake.ticket /\ DOMAIN intake' = {"state", "ticket", "awaits"}
    BY <1>0, <2>1
  <2> QED
    BY <1>0, <2>1, <2>2, PageKeeps
<1>3. CASE Poll
  <2>1. /\ UNCHANGED <<diskVars, upload, thread, worker, installs, told, swept, cleaner, lost>>
        /\ intake' = [intake EXCEPT !.state = status[intake.ticket]]
    BY <1>3 DEF Poll, NoFault, boundVars, historyVars
  <2>2. intake'.ticket = intake.ticket /\ DOMAIN intake' = {"state", "ticket", "awaits"}
    BY <1>0, <2>1
  <2> QED
    BY <1>0, <2>1, <2>2, PageKeeps
<1>4. CASE HubStarts
  <2>1. /\ UNCHANGED <<diskVars, upload, thread, worker, installs, told, swept, intake, lost>>
        /\ cleaner' = Listed
    BY <1>4 DEF HubStarts, historyVars
  <2>2. cleaner' \subseteq Tickets \X Names
    BY <1>0, <2>1 DEF Listed, FilesTyped
  <2> QED
    BY <1>0, <2>1, <2>2, PageKeeps
<1> QED
  BY <1>1, <1>2, <1>3, <1>4

\* A day passes over files that nobody is working on.
LEMMA AgeKeeps ==
  ASSUME SideInv, NEW t \in Tickets, Age(t)
  PROVE  SideInv'
<1>1. /\ ThreadsOf(t) = {} /\ WorkersOf(t) = {} /\ old' = [old EXCEPT ![t] = files[t]]
      /\ UNCHANGED <<files, status, upload, thread, worker, intake, cleaner, installs, told, swept, lost>>
  BY DEF Age, ThreadsOf, WorkersOf, NoFault, boundVars, historyVars
<1>2. old' \in [Tickets -> SUBSET Names] /\ \A u \in Tickets \ {t} : UNCHANGED old[u]
  BY <1>1 DEF SideInv, SideloadTyped, FilesTyped
<1>3. SideloadTyped'
  BY <1>1, <1>2 DEF SideInv, SideloadTyped, FilesTyped
<1>4. TicketsTaken'
  BY <1>1 DEF SideInv, TicketsTaken
<1>5. \A u : ThreadsOf(u)' = ThreadsOf(u) /\ WorkersOf(u)' = WorkersOf(u)
  BY <1>1 DEF ThreadsOf, WorkersOf
<1>6. OnlyTicket(t)
  <2>1. \A u \in Tickets : PageWaits(u)
    BY <1>1 DEF SideInv, TicketInv, Fresh, PageWaits
  <2> QED
    BY <1>1, <1>2, <1>5, <2>1 DEF OnlyTicket, KeptOnDisk, KeptInHistory, KeptThreads, KeptWorkers
<1>7. TicketInv(t)'
  <2>1. /\ Fresh(t) /\ RunsOnce(t) /\ StaysDiscarded(t) /\ StatusTrue(t)
    BY DEF SideInv, TicketInv
  <2>2. /\ OneOwner(t)' /\ OneDecides(t)' /\ Undecided(t)' /\ KindsFit(t)' /\ PackageFollows(t)'
        /\ ResetIsLost(t)'
    BY <1>1, <1>5 DEF OneOwner, OneDecides, Undecided, KindsFit, PackageFollows, ResetIsLost
  <2>3. Fresh(t)' /\ RunsOnce(t)'
    BY <1>1, <1>5, <2>1 DEF Fresh, RunsOnce, Has
  <2>4. StaysDiscarded(t)' /\ StatusTrue(t)'
    BY <1>1, <1>5, <2>1 DEF StaysDiscarded, Discarded, StatusTrue, Has
  <2> QED
    BY <2>2, <2>3, <2>4 DEF TicketInv
<1> QED
  BY <1>3, <1>4, <1>6, <1>7, OneTicketKeeps

\* cleanup_stale_sideload takes only what is old, and a lock that is held is not.
LEMMA CleanKeeps ==
  ASSUME SideInv, Clean
  PROVE  SideInv'
<1>0. FilesTyped /\ cleaner \subseteq Tickets \X Names
  BY DEF SideInv, SideloadTyped
<1>1. PICK e \in cleaner :
        LET t == e[1]
            name == e[2] IN
        /\ IF Has(t, name)
           THEN /\ cleaner' = cleaner \ {e}
                /\ IF name \in old[t]
                   THEN Unlink(t, {name}) /\ swept' = swept \cup {t}
                   ELSE UNCHANGED <<files, old, swept>>
           ELSE cleaner' = {} /\ UNCHANGED <<files, old, swept>>
        /\ UNCHANGED <<status, upload, thread, worker, intake, installs, told>> /\ NoFault
  BY DEF Clean
<1>2. PICK t \in Tickets, name \in Names : e = <<t, name>>
  BY <1>0, <1>1
<1>3. /\ UNCHANGED <<status, upload, thread, worker, intake, installs, told, lost>>
      /\ cleaner' \subseteq Tickets \X Names
  BY <1>0, <1>1 DEF NoFault, boundVars
<1>4. CASE UNCHANGED <<files, old, swept>>
  <2>1. UNCHANGED <<diskVars, swept>> /\ lost' \in [Tickets -> BOOLEAN] /\ intake.ticket = intake'.ticket
        /\ DOMAIN intake' = {"state", "ticket", "awaits"}
    BY <1>3, <1>4 DEF diskVars, SideInv, SideloadTyped
  <2> QED
    BY <1>3, <2>1, PageKeeps
<1>5. CASE name \in old[t] /\ Unlink(t, {name}) /\ swept' = swept \cup {t}
  <2>1. /\ files'[t] = files[t] \ {name} /\ old'[t] = old[t] \ {name}
        /\ OtherFiles(t) /\ FilesTyped'
    BY <1>0, <1>5, UnlinkEffect
  <2>2. SideloadTyped'
    BY <1>3, <2>1 DEF SideInv, SideloadTyped
  <2>3. TicketsTaken'
    BY <1>3 DEF SideInv, TicketsTaken
  <2>4. \A u : ThreadsOf(u)' = ThreadsOf(u) /\ WorkersOf(u)' = WorkersOf(u)
    BY <1>3 DEF ThreadsOf, WorkersOf
  <2>5. OnlyTicket(t)
    <3>1. \A u \in Tickets : PageWaits(u)
      BY <1>3 DEF SideInv, TicketInv, Fresh, PageWaits
    <3>2. \A u \in Tickets \ {t} : KeptOnDisk(u)
      BY <1>3, <2>1 DEF KeptOnDisk, OtherFiles
    <3>3. \A u \in Tickets \ {t} : KeptInHistory(u) /\ KeptThreads(u) /\ KeptWorkers(u)
      BY <1>3, <1>5, <2>4 DEF KeptInHistory, KeptThreads, KeptWorkers
    <3> QED
      BY <3>1, <3>2, <3>3 DEF OnlyTicket
  <2>6. /\ (Has(t, "apk")' => Has(t, "apk")) /\ (Has(t, "status")' => Has(t, "status"))
        /\ (Has(t, "lock") /\ "lock" \notin old[t] => Has(t, "lock")' /\ "lock" \notin old'[t])
        /\ t \in swept'
    BY <1>5, <2>1 DEF Has
  <2>7. TicketInv(t)'
    <3>1. /\ Fresh(t) /\ OneOwner(t) /\ OneDecides(t) /\ Undecided(t) /\ KindsFit(t)
          /\ PackageFollows(t) /\ RunsOnce(t) /\ StaysDiscarded(t) /\ ResetIsLost(t)
      BY DEF SideInv, TicketInv
    <3>2. Fresh(t)'
      BY <1>3, <2>4, <2>6, <3>1 DEF Fresh
    <3>3. OneOwner(t)'
      BY <1>3, <2>4, <2>6, <3>1 DEF OneOwner
    <3>4. OneDecides(t)' /\ Undecided(t)' /\ KindsFit(t)' /\ ResetIsLost(t)'
      BY <1>3, <2>4, <3>1 DEF OneDecides, Undecided, KindsFit, ResetIsLost
    <3>5. PackageFollows(t)' /\ RunsOnce(t)'
      BY <1>3, <2>4, <2>6, <3>1 DEF PackageFollows, RunsOnce
    <3>6. StaysDiscarded(t)'
      BY <1>3, <2>4, <2>6, <3>1 DEF StaysDiscarded, Discarded
    <3>7. StatusTrue(t)'
      BY <2>6 DEF StatusTrue
    <3> QED
      BY <3>2, <3>3, <3>4, <3>5, <3>6, <3>7 DEF TicketInv
  <2> QED
    BY <2>2, <2>3, <2>5, <2>7, OneTicketKeeps
<1> QED
  BY <1>1, <1>2, <1>4, <1>5

\* The Hub ends with its threads; the workers go on.
LEMMA HubDiesKeeps ==
  ASSUME SideInv, HubDies
  PROVE  SideInv'
<1>1. /\ UNCHANGED <<files, old, status, worker, cleaner, installs, told, swept>>
      /\ lost' = [t \in Tickets |-> lost[t] \/ upload[t] \notin {"none", "over"}
                                            \/ \E h \in Threads : thread[h].ticket = t]
      /\ upload' = [t \in Tickets |-> IF upload[t] = "none" THEN "none" ELSE "over"]
      /\ thread' = [h \in Threads |-> NoThread]
      /\ intake' = [state |-> "none", ticket |-> None, awaits |-> None]
  BY DEF HubDies, diskVars, historyVars
<1>2. NoThread \in ThreadRecords /\ NoThread.at = "idle" /\ NoThread.ticket = None
  BY DEF NoThread, ThreadRecords, ThreadStages
<1>3. SideloadTyped'
  <2>1. upload' \in [Tickets -> UploadStages]
    BY <1>1 DEF UploadStages
  <2>2. lost' \in [Tickets -> BOOLEAN]
    BY <1>1
  <2>3. thread' \in [Threads -> ThreadRecords]
    BY <1>1, <1>2
  <2>4. intake'.ticket = None /\ DOMAIN intake' = {"state", "ticket", "awaits"}
    BY <1>1
  <2> QED
    BY <1>1, <2>1, <2>2, <2>3, <2>4 DEF SideInv, SideloadTyped, FilesTyped
<1>4. TicketsTaken'
  BY <1>1, <1>2 DEF SideInv, TicketsTaken
<1>5. ASSUME NEW t \in Tickets
      PROVE  TicketInv(t)'
  <2>1. t # None
    BY SideloadBounds
  <2>2. ThreadsOf(t)' = {} /\ WorkersOf(t)' = WorkersOf(t) /\ intake'.ticket # t
    BY <1>1, <1>2, <2>1 DEF ThreadsOf, WorkersOf
  <2>3. /\ upload'[t] # "over" => upload[t] = "none" /\ upload'[t] = "none"
        /\ ~lost'[t] => ~lost[t] /\ ThreadsOf(t) = {}
    BY <1>1, <1>5 DEF ThreadsOf
  <2>4. /\ Fresh(t) /\ OneOwner(t) /\ OneDecides(t) /\ Undecided(t)
        /\ PackageFollows(t) /\ RunsOnce(t) /\ StaysDiscarded(t) /\ StatusTrue(t)
    BY <1>5 DEF SideInv, TicketInv
  <2>5. Fresh(t)'
    BY <1>1, <2>2, <2>3, <2>4 DEF Fresh, Has
  <2>6. OneOwner(t)' /\ OneDecides(t)' /\ Undecided(t)' /\ KindsFit(t)' /\ ResetIsLost(t)'
    BY <1>1, <2>2, <2>4 DEF OneOwner, OneDecides, Undecided, KindsFit, ResetIsLost, Has
  <2>7. PackageFollows(t)' /\ RunsOnce(t)'
    BY <1>1, <2>2, <2>4 DEF PackageFollows, RunsOnce, Has
  <2>8. StaysDiscarded(t)'
    BY <1>1, <2>2, <2>4 DEF StaysDiscarded, Discarded, Has
  <2>9. StatusTrue(t)'
    BY <1>1, <2>2, <2>3, <2>4 DEF StatusTrue, Has
  <2> QED
    BY <2>5, <2>6, <2>7, <2>8, <2>9 DEF TicketInv
<1> QED
  BY <1>3, <1>4, <1>5 DEF SideInv

\* A request of the page: a thread that has found nothing yet.
LEMMA AskKeeps ==
  ASSUME SideInv, NEW h \in Threads, NEW kind \in {"install", "discard"}, Ask(h, kind)
  PROVE  SideInv'
<1> PICK t : t = intake.ticket
  OBVIOUS
<1> DEFINE new == [kind |-> kind, ticket |-> t, at |-> "claim"]
<1>1. /\ UNCHANGED <<files, old, status, upload, worker, cleaner, installs, told, swept, lost>>
      /\ t # None /\ thread[h] = NoThread /\ thread' = [thread EXCEPT ![h] = new]
      /\ intake' = [intake EXCEPT !.awaits = h, !.state = IF kind = "install" THEN "queued" ELSE @]
  BY DEF Ask, diskVars, historyVars, NoFault, boundVars
<1>2. /\ t \in Tickets /\ new \in ThreadRecords /\ DOMAIN intake = {"state", "ticket", "awaits"}
      /\ thread \in [Threads -> ThreadRecords]
  BY <1>1 DEF SideInv, SideloadTyped, ThreadRecords, ThreadStages
<1>3. /\ thread' \in [Threads -> ThreadRecords] /\ thread'[h] = new
      /\ \A g \in Threads : g # h => thread'[g] = thread[g]
  BY <1>1, <1>2
<1>4. thread'[h].at = "claim" /\ thread'[h].ticket = t /\ thread'[h].kind = kind
  BY <1>3
<1> HIDE DEF new
<1>5. intake'.ticket = t /\ DOMAIN intake' = {"state", "ticket", "awaits"}
  BY <1>1, <1>2
<1>6. SideloadTyped'
  BY <1>1, <1>2, <1>3, <1>5 DEF SideInv, SideloadTyped, FilesTyped
<1>7. TicketsTaken'
  BY <1>1, <1>3, <1>4 DEF SideInv, TicketsTaken
<1>8. thread[h].ticket = None /\ \A u \in Tickets : u # None
  BY <1>1, SideloadBounds DEF NoThread
<1>9. upload[t] = "over" /\ \A u \in Tickets : intake.ticket = u => upload[u] = "over"
  BY <1>2 DEF SideInv, TicketInv, Fresh
<1>10. \A u : WorkersOf(u)' = WorkersOf(u)
  BY <1>1 DEF WorkersOf
<1>11. OnlyTicket(t)
  <2>1. \A u \in Tickets \ {t} : KeptThreads(u)
    BY <1>3, <1>4, <1>8 DEF KeptThreads, ThreadsOf
  <2>2. \A u \in Tickets : KeptOnDisk(u) /\ KeptInHistory(u) /\ KeptWorkers(u)
    BY <1>1, <1>10 DEF KeptOnDisk, KeptInHistory, KeptWorkers
  <2>3. \A u \in Tickets \ {t} : PageWaits(u)
    BY <1>5 DEF PageWaits
  <2> QED
    BY <2>1, <2>2, <2>3 DEF OnlyTicket
<1>12. /\ ThreadsOf(t)' = ThreadsOf(t) \cup {h} /\ h \notin ThreadsOf(t)
       /\ \A g \in ThreadsOf(t) : thread'[g] = thread[g]
  BY <1>2, <1>3, <1>4, <1>8 DEF ThreadsOf
<1>13. TicketInv(t)'
  <2>1. /\ OneOwner(t) /\ OneDecides(t) /\ Undecided(t) /\ KindsFit(t)
        /\ PackageFollows(t) /\ RunsOnce(t) /\ StaysDiscarded(t) /\ ResetIsLost(t) /\ StatusTrue(t)
    BY <1>2 DEF SideInv, TicketInv
  <2>2. /\ ~HasLock(thread'[h].at) /\ ~Decides(thread'[h].at)
        /\ ~Installs(thread'[h].at) /\ ~Discards(thread'[h].at)
    BY <1>4 DEF HasLock, Decides, Installs, Discards
  <2>3. Fresh(t)'
    BY <1>1, <1>9 DEF Fresh
  <2>4. OneOwner(t)'
    BY <1>1, <1>10, <1>12, <2>1, <2>2 DEF OneOwner, Has
  <2>5. OneDecides(t)'
    BY <1>1, <1>10, <1>12, <2>1, <2>2 DEF OneDecides
  <2>6. Undecided(t)' /\ KindsFit(t)' /\ ResetIsLost(t)'
    BY <1>1, <1>4, <1>10, <1>12, <2>1, <2>2 DEF Undecided, KindsFit, ResetIsLost
  <2>7. PackageFollows(t)' /\ RunsOnce(t)'
    BY <1>1, <1>4, <1>10, <1>12, <2>1, <2>2 DEF PackageFollows, RunsOnce, Has
  <2>8. StaysDiscarded(t)'
    BY <1>1, <1>4, <1>10, <1>12, <2>1, <2>2 DEF StaysDiscarded, Discarded, Has
  <2>9. StatusTrue(t)'
    BY <1>1, <1>10, <1>12, <2>1 DEF StatusTrue, Has
  <2> QED
    BY <2>3, <2>4, <2>5, <2>6, <2>7, <2>8, <2>9 DEF TicketInv
<1> QED
  BY <1>2, <1>6, <1>7, <1>11, <1>13, OneTicketKeeps

\* The reply to a thread that is done: the page was told only what the thread did.
LEMMA ReplyKeeps ==
  ASSUME SideInv, NEW h \in Threads, Reply(h)
  PROVE  SideInv'
<1> PICK t : thread[h].ticket = t
  OBVIOUS
<1>1. /\ UNCHANGED <<files, old, status, upload, worker, cleaner, installs, swept, lost>>
      /\ thread[h].at \in {"done", "failed"} /\ thread' = [thread EXCEPT ![h] = NoThread]
      /\ told' = told \/ (told' = told \cup {t} /\ thread[h].at = "done" /\ thread[h].kind = "discard")
  BY DEF Reply, diskVars, NoFault, boundVars
<1>2. /\ t \in Tickets /\ h \in ThreadsOf(t) /\ upload[t] = "over"
      /\ OneOwner(t) /\ OneDecides(t) /\ Undecided(t) /\ KindsFit(t)
      /\ PackageFollows(t) /\ RunsOnce(t) /\ StaysDiscarded(t) /\ ResetIsLost(t) /\ StatusTrue(t)
  BY <1>1, ThreadKnows
<1>3. /\ intake.ticket \in Tickets \cup {None} /\ DOMAIN intake = {"state", "ticket", "awaits"}
      /\ thread \in [Threads -> ThreadRecords]
      /\ NoThread \in ThreadRecords /\ NoThread.at = "idle" /\ NoThread.ticket = None
  BY DEF SideInv, SideloadTyped, NoThread, ThreadRecords, ThreadStages
<1>4. \/ intake' = intake
      \/ intake' = [state |-> "none", ticket |-> None, awaits |-> None]
      \/ intake' = [intake EXCEPT !.awaits = None]
      \/ intake' = [intake EXCEPT !.awaits = None, !.state = "inspected"]
  <2>1. PICK A, B, C \in BOOLEAN :
          intake' = CASE A -> intake
                    [] B -> [state |-> "none", ticket |-> None, awaits |-> None]
                    [] C -> [intake EXCEPT !.awaits = None]
                    [] OTHER -> [intake EXCEPT !.awaits = None, !.state = "inspected"]
    BY DEF Reply
  <2> QED
    BY <2>1
<1>5. intake'.ticket \in {intake.ticket, None} /\ DOMAIN intake' = {"state", "ticket", "awaits"}
  <2>1. CASE intake' = intake
    BY <1>3, <2>1
  <2>2. CASE intake' = [state |-> "none", ticket |-> None, awaits |-> None]
    BY <2>2
  <2>3. CASE intake' = [intake EXCEPT !.awaits = None]
    BY <1>3, <2>3
  <2>4. CASE intake' = [intake EXCEPT !.awaits = None, !.state = "inspected"]
    BY <1>3, <2>4
  <2> QED
    BY <1>4, <2>1, <2>2, <2>3, <2>4
<1>6. /\ thread' \in [Threads -> ThreadRecords] /\ thread'[h] = NoThread
      /\ \A g \in Threads : g # h => thread'[g] = thread[g]
  BY <1>1, <1>3
<1>7. \A u \in Tickets : u # None
  BY SideloadBounds
<1>8. SideloadTyped'
  BY <1>1, <1>2, <1>3, <1>5, <1>6 DEF SideInv, SideloadTyped, FilesTyped
<1>9. TicketsTaken'
  BY <1>1, <1>3, <1>6 DEF SideInv, TicketsTaken
<1>10. \A u : WorkersOf(u)' = WorkersOf(u)
  BY <1>1 DEF WorkersOf
<1>11. OnlyTicket(t)
  <2>1. \A u \in Tickets \ {t} : KeptThreads(u)
    BY <1>3, <1>6, <1>7 DEF KeptThreads, ThreadsOf
  <2>2. \A u \in Tickets \ {t} : KeptOnDisk(u) /\ KeptInHistory(u) /\ KeptWorkers(u)
    BY <1>1, <1>10 DEF KeptOnDisk, KeptInHistory, KeptWorkers
  <2>3. \A u \in Tickets \ {t} : PageWaits(u)
    BY <1>1, <1>5, <1>7 DEF PageWaits, SideInv, TicketInv, Fresh
  <2> QED
    BY <2>1, <2>2, <2>3 DEF OnlyTicket
<1>12. /\ ThreadsOf(t)' = ThreadsOf(t) \ {h}
       /\ \A g \in ThreadsOf(t)' : thread'[g] = thread[g]
  BY <1>2, <1>3, <1>6, <1>7 DEF ThreadsOf
<1>13. Discarded(t)' => Discarded(t)
  BY <1>1, <1>2, <1>12 DEF Discarded
<1>14. TicketInv(t)'
  <2>1. Fresh(t)'
    BY <1>1, <1>2 DEF Fresh
  <2>2. OneOwner(t)' /\ OneDecides(t)'
    BY <1>1, <1>2, <1>10, <1>12 DEF OneOwner, OneDecides, Has
  <2>3. Undecided(t)' /\ KindsFit(t)' /\ ResetIsLost(t)'
    BY <1>1, <1>2, <1>10, <1>12 DEF Undecided, KindsFit, ResetIsLost
  <2>4. PackageFollows(t)' /\ RunsOnce(t)'
    BY <1>1, <1>2, <1>10, <1>12 DEF PackageFollows, RunsOnce, Has
  <2>5. StaysDiscarded(t)'
    BY <1>1, <1>2, <1>10, <1>12, <1>13 DEF StaysDiscarded, Has
  <2>6. StatusTrue(t)'
    BY <1>1, <1>2, <1>10, <1>12 DEF StatusTrue, Has
  <2> QED
    BY <2>1, <2>2, <2>3, <2>4, <2>5, <2>6 DEF TicketInv
<1> QED
  BY <1>2, <1>8, <1>9, <1>11, <1>14, OneTicketKeeps

-----------------------------------------------------------------------------

\* At first there is no upload and nobody at work.
LEMMA SideInitHolds == SideloadInit => SideInv
<1> SUFFICES ASSUME SideloadInit PROVE SideInv
  OBVIOUS
<1>0. /\ NoThread \in ThreadRecords /\ NoThread.at = "idle" /\ NoThread.ticket = None
      /\ NoWorker \in WorkerRecords /\ NoWorker.at = "none" /\ NoWorker.ticket = None
  BY DEF NoThread, ThreadRecords, ThreadStages, NoWorker, WorkerRecords, WorkerStages
<1>1. SideloadTyped
  BY <1>0 DEF SideloadInit, SideloadTyped, FilesTyped, States, UploadStages
<1>2. TicketsTaken
  BY <1>0 DEF SideloadInit, TicketsTaken
<1>3. ASSUME NEW t \in Tickets
      PROVE  TicketInv(t)
  <2>1. ThreadsOf(t) = {} /\ WorkersOf(t) = {} /\ intake.ticket # t
    BY <1>0, <1>3, SideloadBounds DEF SideloadInit, ThreadsOf, WorkersOf
  <2>2. upload[t] = "none" /\ files[t] = {} /\ t \notin told /\ installs[t] = 0
    BY <1>3 DEF SideloadInit
  <2>3. installs[t] \in {0, 1} /\ installs[t] # 1
    BY <2>2
  <2> QED
    BY <2>1, <2>2, <2>3 DEF TicketInv, Fresh, OneOwner, OneDecides, Undecided, KindsFit, PackageFollows,
       RunsOnce, StaysDiscarded, Discarded, ResetIsLost, StatusTrue, Has
<1> QED
  BY <1>1, <1>2, <1>3 DEF SideInv

\* Every step of threads, workers, uploads, page and Hub keeps the invariant.
LEMMA SideStepKeeps == SideInv /\ [SideloadNext]_sideloadVars => SideInv'
<1> SUFFICES ASSUME SideInv, [SideloadNext]_sideloadVars PROVE SideInv'
  OBVIOUS
<1>1. CASE UNCHANGED sideloadVars
  <2>1. /\ UNCHANGED <<diskVars, upload, thread, worker, installs, told, swept, cleaner, lost, intake>>
        /\ lost \in [Tickets -> BOOLEAN] /\ cleaner \subseteq Tickets \X Names
        /\ DOMAIN intake = {"state", "ticket", "awaits"}
    BY <1>1 DEF sideloadVars, historyVars, boundVars, SideInv, SideloadTyped
  <2> QED
    BY <2>1, PageKeeps
<1>2. ASSUME NEW h \in Threads, ThreadStep(h)
      PROVE  SideInv'
  BY <1>2, ClaimKeeps, UnlockKeeps, CheckKeeps, QueueKeeps, SpawnKeeps, ResetKeeps, DiscardArtifactKeeps,
     ForgetKeeps, ReleaseKeeps, ReplyKeeps DEF ThreadStep
<1>3. CASE SideloadNext
  BY <1>2, <1>3, UploadStepKeeps, AgeKeeps, AskKeeps, WorkerStepKeeps, PageStepKeeps, HubDiesKeeps, CleanKeeps
     DEF SideloadNext
<1> QED
  BY <1>1, <1>3

\* The invariant says what DecidedOnce says.
LEMMA SideInvDecides == SideInv => DecidedOnce
<1> SUFFICES ASSUME SideInv PROVE DecidedOnce
  OBVIOUS
<1>1. InstalledOnce
  <2>1. ASSUME NEW v \in Workers, NEW w \in Workers, Busy(v), Busy(w), worker[v].ticket = worker[w].ticket
        PROVE  v = w
    <3> PICK t : t = worker[w].ticket
      OBVIOUS
    <3>1. t \in Tickets /\ v \in WorkersOf(t) /\ w \in WorkersOf(t)
      BY <2>1 DEF Busy, SideInv, SideloadTyped, TicketsTaken, WorkerRecords, WorkersOf
    <3> QED
      BY <3>1 DEF SideInv, TicketInv, OneDecides
  <2>2. ASSUME NEW t \in Tickets
        PROVE  installs[t] <= 1
    <3>1. installs[t] \in {0, 1}
      BY <2>2 DEF SideInv, TicketInv, RunsOnce
    <3> QED
      BY <3>1
  <2> QED
    BY <2>1, <2>2 DEF InstalledOnce
<1>2. DiscardIsFinal
  <2>1. ASSUME NEW t \in told
        PROVE  installs[t] = 0 /\ ~Has(t, "apk") /\ \A w \in Workers : worker[w].ticket # t
    <3>1. t \in Tickets
      BY <2>1 DEF SideInv, SideloadTyped
    <3>2. installs[t] = 0 /\ ~Has(t, "apk") /\ WorkersOf(t) = {}
      BY <2>1, <3>1 DEF SideInv, TicketInv, StaysDiscarded, Discarded
    <3> QED
      BY <3>2 DEF WorkersOf
  <2> QED
    BY <2>1 DEF DiscardIsFinal
<1>3. StatusIsTrue
  <2>1. ASSUME NEW t \in Tickets, Has(t, "status") /\ ~lost[t] /\ t \notin swept
        PROVE  CASE status[t] = "inspected" ->
                      Has(t, "apk") \/ \E h \in Threads : thread[h].ticket = t /\ thread[h].at = "forget"
                 [] status[t] \in {"queued", "installing"} ->
                      \/ \E h \in Threads : thread[h].ticket = t /\ thread[h].at = "spawn"
                      \/ Busied(t) /\ (Has(t, "apk") => Has(t, "lock"))
                 [] status[t] = "installed" -> installs[t] = 1
                 [] OTHER -> ~Has(t, "apk")
    <3>1. /\ status[t] = "inspected" =>
               Has(t, "apk") \/ \E h \in Threads : thread[h].ticket = t /\ thread[h].at = "forget"
          /\ status[t] \in {"queued", "installing"} =>
               \/ \E h \in Threads : thread[h].ticket = t /\ thread[h].at = "spawn"
               \/ Busied(t) /\ (Has(t, "apk") => Has(t, "lock"))
          /\ status[t] = "installed" => installs[t] = 1
          /\ status[t] = "failed" => ~Has(t, "apk")
      BY <2>1 DEF SideInv, TicketInv, StatusTrue, ThreadsOf, WorkersOf, Busied
    <3>2. status[t] \in States
      BY <2>1 DEF SideInv, SideloadTyped
    <3> QED
      BY <3>1, <3>2 DEF States
  <2> QED
    BY <2>1 DEF StatusIsTrue
<1> QED
  BY <1>1, <1>2, <1>3 DEF DecidedOnce

\* A package that is uploaded is decided once (claim_apk_install, handle_apk_discard and
\* run_apk_install_worker_with): installed at most once or discarded for good, whichever
\* threads, workers and Hubs race for it, and its status says which.
THEOREM PackagesAreDecidedOnce == SideloadSpec => []DecidedOnce
<1>1. SideloadInit => SideInv
  BY SideInitHolds
<1>2. SideInv /\ [SideloadNext]_sideloadVars => SideInv'
  BY SideStepKeeps
<1>3. SideInv => DecidedOnce
  BY SideInvDecides
<1> QED
  BY <1>1, <1>2, <1>3, PTL DEF SideloadSpec

-----------------------------------------------------------------------------
(***************************************************************************)
(* LiveTools: however a live session ends, nothing is left unsaid, a tool  *)
(* plays on its own device, and its fingers are lifted, for any number of  *)
(* tools, runs, failures and kernel events.                                *)
(***************************************************************************)

Fingers == {"none", "left", "right", "aim"}

ToolRecords ==
  [at : Stages, ok : BOOLEAN, cleaning : BOOLEAN, active : BOOLEAN, again : BOOLEAN,
   interrupt : BOOLEAN, reader : {"none", "reading", "ended", "failed"}, grabbed : BOOLEAN,
   sent : Seq(KeyEvents \cup MouseEvents), seen : Nat, pending : Seq(MouseEvents),
   stuck : BOOLEAN, keys : SUBSET {"left", "right"}, finger : Fingers, tap : BOOLEAN,
   said : {"nothing", "success", "swept", "error", "killed"}, runs : Nat]

HostedTyped ==
  /\ holder \in Tools \cup {NoTool}
  /\ bridge \in [node : Tools \cup {NoTool}, include : BOOLEAN]
  /\ container \in [up : BOOLEAN, node : Tools \cup {NoTool}]
  /\ container.up = FALSE => container = Down

\* what the files and the container are while a process t, whose record is r, is at a stage
HostFollows(t, r) ==
  /\ r.at # "off" => holder = t
  /\ r.cleaning => r.at \in {"sweep", "unlink", "leave"}
  /\ r.at = "unlink" => ~bridge.include
  /\ r.at \in {"unlink", "open", "write", "include", "boot"} /\ ~r.cleaning => container = Down
  /\ r.at \in {"open", "write"} => bridge = NoBridge
  /\ r.at = "include" => bridge = [node |-> t, include |-> FALSE]
  /\ r.at \in {"boot", "ready", "grab", "live", "join", "lift", "stop"} =>
       bridge = [node |-> t, include |-> TRUE]
  /\ r.at \in {"ready", "grab", "live", "join", "lift", "stop"} =>
       container = [up |-> TRUE, node |-> t]
  /\ r.at \in {"exclude", "erase", "leave"} /\ r.ok /\ ~r.cleaning => container = Down
  /\ r.at = "leave" /\ r.ok => bridge.node = NoTool

\* LeftoversAreAdmitted, of a record
Admitted(t, r) ==
  /\ bridge.node = t => holder = t \/ r.said \in {"killed", "error"}
  /\ container.node = t => holder = t \/ r.said \in {"killed", "error", "swept"}

\* where the contacts of t are
FingersFollow(t, r) ==
  /\ r.at \in {"off", "sweep", "unlink", "open", "write", "include", "boot", "ready", "grab"} =>
       r.finger = "none" /\ r.keys = {}
  /\ t \in Keyboards /\ r.at \in {"live", "join"} => r.finger = Steer(r.keys)
  /\ r.at \in {"stop", "exclude", "erase", "leave"} /\ r.finger # "none" => r.stuck
  /\ r.tap => ~r.ok /\ r.at \in {"lift", "stop", "exclude", "erase", "leave"}
  /\ t \in Keyboards => r.sent \in Seq(KeyEvents)

Own(t, r) == r \in ToolRecords /\ HostFollows(t, r) /\ Admitted(t, r) /\ FingersFollow(t, r)

LiveInv ==
  /\ DOMAIN tool = Tools
  /\ HostedTyped
  /\ \A t \in Tools : Own(t, tool[t])

-----------------------------------------------------------------------------
(* One process at a time *)

\* A process that is not at work says what it has left.
LEMMA OthersAreOff ==
  ASSUME LiveInv, NEW t \in Tools, NEW u \in Tools \ {t}, holder \in {t, NoTool},
         holder' \in {t, NoTool},
         bridge'.node \in {bridge.node, t, NoTool},
         container'.node \in {container.node, t, NoTool},
         tool'[u] = tool[u]
  PROVE  Own(u, tool[u])'
<1>1. tool[u].at = "off" /\ Own(u, tool[u])
  BY LiveBounds DEF LiveInv, Own, HostFollows
<1> QED
  BY <1>1, LiveBounds DEF Own, HostFollows, Admitted, FingersFollow, ToolRecords

\* A step of one process keeps the invariant if it keeps the process's own part.
LEMMA StepOfOne ==
  ASSUME LiveInv, NEW t \in Tools, NEW r, Becomes(t, r), holder \in {t, NoTool},
         holder' \in {t, NoTool}, HostedTyped',
         bridge'.node \in {bridge.node, t, NoTool},
         container'.node \in {container.node, t, NoTool},
         Own(t, tool[t])'
  PROVE  LiveInv'
<1>1. tool' = [tool EXCEPT ![t] = r] /\ tool'[t] = r
  BY DEF Becomes, LiveInv
<1>2. ASSUME NEW u \in Tools \ {t} PROVE Own(u, tool[u])'
  BY <1>1, OthersAreOff DEF LiveInv
<1> QED
  BY <1>1, <1>2 DEF LiveInv

\* A step within a process, which leaves the files, the container and the lease alone.
LEMMA StepWithin ==
  ASSUME LiveInv, NEW t \in Tools, NEW r, Becomes(t, r), UNCHANGED Hosted,
         Own(t, r)
  PROVE  LiveInv'
<1>1. tool' = [tool EXCEPT ![t] = r] /\ tool'[t] = r
  BY DEF Becomes, LiveInv
<1>2. ASSUME NEW u \in Tools PROVE Own(u, tool[u])'
  <2>1. tool'[u] = IF u = t THEN r ELSE tool[u]
    BY <1>1 DEF LiveInv
  <2>2. Own(u, tool'[u])
    BY <2>1 DEF LiveInv
  <2> QED
    BY <2>2 DEF Own, HostFollows, Admitted, FingersFollow, Hosted
<1> QED
  BY <1>1, <1>2 DEF LiveInv, Hosted, HostedTyped

-----------------------------------------------------------------------------
(* Steps within a process *)

USE DEF Own, HostFollows, Admitted, FingersFollow

\* A step that moves a process on.
LEMMA GoesWithin ==
  ASSUME LiveInv, NEW t \in Tools, NEW stage, GoTo(t, stage), UNCHANGED Hosted,
         \/ tool[t].at = "ready" /\ stage = "grab"
         \/ tool[t].at = "live" /\ stage = "join"
         \/ tool[t].at = "join" /\ stage = "lift"
         \/ tool[t].at = "open" /\ stage = "write"
  PROVE  LiveInv'
<1> DEFINE r == [tool[t] EXCEPT !.at = stage]
<1>1. Own(t, tool[t])
  BY DEF LiveInv
<1>2. r \in ToolRecords
  BY <1>1 DEF ToolRecords, Stages
<1>3. Own(t, r)
  BY <1>1, <1>2 DEF ToolRecords
<1> QED
  BY <1>3, StepWithin DEF GoTo

\* A step that fails.
LEMMA FailsWithin ==
  ASSUME LiveInv, NEW t \in Tools, NEW stage, FailsTo(t, stage), UNCHANGED Hosted,
         \/ tool[t].at \in {"ready", "grab", "live"} /\ stage = "lift"
         \/ tool[t].at \in {"open", "write", "include", "sweep", "unlink"} /\ stage = "leave"
  PROVE  LiveInv'
<1> DEFINE r == [tool[t] EXCEPT !.at = stage, !.ok = FALSE]
<1>1. Own(t, tool[t])
  BY DEF LiveInv
<1>2. r \in ToolRecords
  BY <1>1 DEF ToolRecords, Stages
<1>3. r.ok = FALSE /\ r.at = stage
  BY <1>1 DEF ToolRecords
<1>4. HostFollows(t, r)
  BY <1>1, <1>3 DEF ToolRecords
<1>5. Admitted(t, r) /\ FingersFollow(t, r)
  BY <1>1, <1>3 DEF ToolRecords
<1> QED
  BY <1>2, <1>4, <1>5, StepWithin DEF FailsTo

\* A step that changes only what the reader thread, the queue or Ctrl+C has to say.
LEMMA ReaderWithin ==
  ASSUME LiveInv, NEW t \in Tools, NEW r \in ToolRecords, Becomes(t, r), UNCHANGED Hosted,
         r.at = tool[t].at, r.ok <=> tool[t].ok, r.cleaning <=> tool[t].cleaning,
         r.said = tool[t].said, r.finger = tool[t].finger, r.keys = tool[t].keys,
         r.tap <=> tool[t].tap, r.stuck <=> tool[t].stuck,
         t \in Keyboards => r.sent \in Seq(KeyEvents)
  PROVE  LiveInv'
<1>1. Own(t, tool[t])
  BY DEF LiveInv
<1>2. HostFollows(t, r)
  BY <1>1
<1>3. Admitted(t, r) /\ FingersFollow(t, r)
  BY <1>1
<1> QED
  BY <1>2, <1>3, StepWithin

\* The reader threads and the signal handler.
LEMMA ReadersKeep ==
  ASSUME LiveInv, NEW t \in Tools,
         ReadKey(t) \/ ReadMouse(t) \/ ReadFails(t) \/ ReaderLeftAlone(t) \/ Interrupt(t)
  PROVE  LiveInv'
<1>1. tool[t] \in ToolRecords /\ (t \in Keyboards => tool[t].sent \in Seq(KeyEvents))
  BY DEF LiveInv
<1>2. CASE ReadKey(t)
  <2>1. PICK e \in KeyEvents :
          LET r == [tool[t] EXCEPT !.sent = Append(@, e), !.seen = @ + 1]
          IN  Becomes(t, IF Exits(e) THEN ReaderEnds(t, "ended", r) ELSE r)
    BY <1>2 DEF ReadKey
  <2> DEFINE q == [tool[t] EXCEPT !.sent = Append(@, e), !.seen = @ + 1]
             r == IF Exits(e) THEN ReaderEnds(t, "ended", q) ELSE q
  <2>2. /\ t \in Keyboards /\ UNCHANGED Hosted /\ tool[t].seen + 1 \in Nat
        /\ tool[t].sent \in Seq(KeyEvents)
    <3>1. t \in Keyboards /\ UNCHANGED Hosted
      BY <1>2, Zenon DEF ReadKey
    <3>2. tool[t].seen + 1 \in Nat
      BY <1>1 DEF ToolRecords
    <3> QED
      BY <1>1, <3>1, <3>2
  <2>3. /\ Append(tool[t].sent, e) \in Seq(KeyEvents)
        /\ Append(tool[t].sent, e) \in Seq(KeyEvents \cup MouseEvents)
    BY <1>1, <2>2 DEF ToolRecords
  <2>4. \E grabbed \in BOOLEAN, reader \in {"ended", tool[t].reader} :
          r = [tool[t] EXCEPT !.sent = Append(tool[t].sent, e), !.seen = tool[t].seen + 1,
                              !.reader = reader, !.grabbed = grabbed]
    <3>1. CASE Exits(e)
      BY <3>1 DEF ReaderEnds
    <3>2. CASE ~Exits(e)
      <4>1. q = [tool[t] EXCEPT !.sent = Append(tool[t].sent, e), !.seen = tool[t].seen + 1,
                                !.reader = tool[t].reader, !.grabbed = tool[t].grabbed]
        BY <1>1 DEF ToolRecords
      <4> QED
        BY <1>1, <3>2, <4>1 DEF ToolRecords
    <3> QED
      BY <3>1, <3>2
  <2>5. Becomes(t, r)
    BY <2>1
  <2> HIDE DEF r
  <2>6. PICK grabbed \in BOOLEAN, reader \in {"ended", tool[t].reader} :
          r = [tool[t] EXCEPT !.sent = Append(tool[t].sent, e), !.seen = tool[t].seen + 1,
                              !.reader = reader, !.grabbed = grabbed]
    BY <2>4
  <2>7. /\ r \in ToolRecords /\ r.at = tool[t].at /\ (r.ok <=> tool[t].ok)
        /\ (r.cleaning <=> tool[t].cleaning) /\ r.said = tool[t].said
        /\ r.finger = tool[t].finger /\ r.keys = tool[t].keys
        /\ (r.tap <=> tool[t].tap) /\ (r.stuck <=> tool[t].stuck)
        /\ r.sent = Append(tool[t].sent, e)
    BY <1>1, <2>2, <2>3, <2>6 DEF ToolRecords
  <2> QED
    BY <2>2, <2>3, <2>5, <2>7, ReaderWithin
<1>3. CASE ReadMouse(t)
  <2>1. t \notin Keyboards /\ UNCHANGED Hosted
    BY <1>3, LiveBounds DEF ReadMouse
  <2>2. ASSUME NEW pending \in Seq(MouseEvents), NEW count \in Nat,
               NEW sent \in Seq(KeyEvents \cup MouseEvents),
               Becomes(t, [tool[t] EXCEPT !.sent = sent, !.pending = pending, !.seen = count])
        PROVE  LiveInv'
    <3> DEFINE r == [tool[t] EXCEPT !.sent = sent, !.pending = pending, !.seen = count]
    <3>1. /\ r \in ToolRecords /\ r.at = tool[t].at /\ (r.ok <=> tool[t].ok)
          /\ (r.cleaning <=> tool[t].cleaning) /\ r.said = tool[t].said
          /\ r.finger = tool[t].finger /\ r.keys = tool[t].keys
          /\ (r.tap <=> tool[t].tap) /\ (r.stuck <=> tool[t].stuck)
      BY <1>1 DEF ToolRecords
    <3>2. Becomes(t, r)
      BY <2>2
    <3> HIDE DEF r
    <3> QED
      BY <2>1, <3>1, <3>2, ReaderWithin
  <2>3. tool[t].pending \in Seq(MouseEvents) /\ tool[t].seen \in Nat
        /\ tool[t].sent \in Seq(KeyEvents \cup MouseEvents)
    BY <1>1 DEF ToolRecords
  <2>4. CASE \E e \in MouseEvents :
               Becomes(t, [tool[t] EXCEPT !.pending = Pushed(@, e), !.seen = @ + 1])
    <3>1. PICK e \in MouseEvents :
               Becomes(t, [tool[t] EXCEPT !.pending = Pushed(@, e), !.seen = @ + 1])
      BY <2>4
    <3>2. Pushed(tool[t].pending, e) \in Seq(MouseEvents)
      BY <2>3 DEF Pushed
    <3>3. [tool[t] EXCEPT !.pending = Pushed(@, e), !.seen = @ + 1]
            = [tool[t] EXCEPT !.sent = tool[t].sent, !.pending = Pushed(tool[t].pending, e),
                              !.seen = tool[t].seen + 1]
      BY <1>1 DEF ToolRecords
    <3>4. tool[t].seen + 1 \in Nat
      BY <2>3
    <3> QED
      BY <2>2, <2>3, <3>1, <3>2, <3>3, <3>4
  <2>5. CASE Becomes(t, [tool[t] EXCEPT !.sent = @ \o tool[t].pending, !.pending = <<>>])
    <3>1. tool[t].sent \o tool[t].pending \in Seq(KeyEvents \cup MouseEvents)
      BY <2>3
    <3>2. [tool[t] EXCEPT !.sent = @ \o tool[t].pending, !.pending = <<>>]
            = [tool[t] EXCEPT !.sent = tool[t].sent \o tool[t].pending, !.pending = <<>>,
                              !.seen = tool[t].seen]
      BY <1>1 DEF ToolRecords
    <3>3. <<>> \in Seq(MouseEvents)
      OBVIOUS
    <3> QED
      BY <2>2, <2>3, <2>5, <3>1, <3>2, <3>3
  <2>6. CASE Becomes(t, [tool[t] EXCEPT !.pending = <<>>])
    <3>1. [tool[t] EXCEPT !.pending = <<>>]
            = [tool[t] EXCEPT !.sent = tool[t].sent, !.pending = <<>>, !.seen = tool[t].seen]
      BY <1>1 DEF ToolRecords
    <3>2. <<>> \in Seq(MouseEvents)
      OBVIOUS
    <3> QED
      BY <2>2, <2>3, <2>6, <3>1, <3>2
  <2> QED
    BY <1>3, <2>4, <2>5, <2>6 DEF ReadMouse
<1>4. CASE ReadFails(t) \/ ReaderLeftAlone(t) \/ Interrupt(t)
  <2>1. PICK reader \in {"ended", "failed", tool[t].reader}, grabbed \in BOOLEAN, interrupt \in BOOLEAN :
          Becomes(t, [tool[t] EXCEPT !.reader = reader, !.grabbed = grabbed, !.interrupt = interrupt])
    <3>1. tool[t].reader = tool[t].reader /\ tool[t].grabbed \in BOOLEAN /\ tool[t].interrupt \in BOOLEAN
      BY <1>1 DEF ToolRecords
    <3>2. CASE Interrupt(t)
      <4>1. [tool[t] EXCEPT !.interrupt = TRUE]
              = [tool[t] EXCEPT !.reader = tool[t].reader, !.grabbed = tool[t].grabbed, !.interrupt = TRUE]
        BY <1>1 DEF ToolRecords
      <4> QED
        BY <3>1, <3>2, <4>1 DEF Interrupt
    <3>3. CASE ReadFails(t) \/ ReaderLeftAlone(t)
      <4>1. \A how \in {"ended", "failed"} : ReaderEnds(t, how, tool[t])
              = [tool[t] EXCEPT !.reader = how, !.grabbed = FALSE, !.interrupt = tool[t].interrupt]
        BY <1>1 DEF ToolRecords, ReaderEnds
      <4> QED
        BY <3>1, <3>3, <4>1 DEF ReadFails, ReaderLeftAlone
    <3> QED
      BY <1>4, <3>2, <3>3
  <2> DEFINE r == [tool[t] EXCEPT !.reader = reader, !.grabbed = grabbed, !.interrupt = interrupt]
  <2>2. /\ r \in ToolRecords /\ r.at = tool[t].at /\ (r.ok <=> tool[t].ok)
        /\ (r.cleaning <=> tool[t].cleaning) /\ r.said = tool[t].said
        /\ r.finger = tool[t].finger /\ r.keys = tool[t].keys
        /\ (r.tap <=> tool[t].tap) /\ (r.stuck <=> tool[t].stuck) /\ r.sent = tool[t].sent
    BY <1>1 DEF ToolRecords
  <2>3. Becomes(t, r) /\ UNCHANGED Hosted
    BY <1>4, <2>1 DEF ReadFails, ReaderLeftAlone, Interrupt
  <2> HIDE DEF r
  <2> QED
    BY <1>1, <2>2, <2>3, ReaderWithin
<1> QED
  BY <1>2, <1>3, <1>4

-----------------------------------------------------------------------------
(* Events become touches *)

\* The head and the tail of a queue that is not empty.
LEMMA QueueParts ==
  ASSUME NEW S, NEW q \in Seq(S), q # <<>>
  PROVE  Head(q) \in S /\ Tail(q) \in Seq(S)
  OBVIOUS

\* What remains of a process when the loop has received an event.
LEMMA RestOfLive ==
  ASSUME LiveInv, NEW t \in Tools, tool[t].at = "live", tool[t].sent # <<>>
  PROVE  /\ Rest(t) \in ToolRecords /\ Rest(t).at = "live" /\ (Rest(t).ok <=> tool[t].ok)
         /\ (Rest(t).cleaning <=> tool[t].cleaning) /\ Rest(t).said = tool[t].said
         /\ Rest(t).finger = tool[t].finger /\ Rest(t).keys = tool[t].keys
         /\ (Rest(t).tap <=> tool[t].tap) /\ (Rest(t).stuck <=> tool[t].stuck)
         /\ t \in Keyboards => Rest(t).sent \in Seq(KeyEvents) /\ Received(t) \in KeyEvents
<1>1. tool[t] \in ToolRecords
  BY DEF LiveInv
<1>2. tool[t].sent \in Seq(KeyEvents \cup MouseEvents)
  BY <1>1 DEF ToolRecords
<1>3. Tail(tool[t].sent) \in Seq(KeyEvents \cup MouseEvents)
  BY <1>2, QueueParts
<1>4. t \in Keyboards => Head(tool[t].sent) \in KeyEvents /\ Tail(tool[t].sent) \in Seq(KeyEvents)
  BY QueueParts DEF LiveInv
<1> QED
  BY <1>1, <1>3, <1>4 DEF ToolRecords, Rest, Received

\* A process that is live keeps the invariant whatever it touches and whichever frame is
\* refused, if its finger follows its keys.
LEMMA LiveWithin ==
  ASSUME LiveInv, NEW t \in Tools, tool[t].at = "live", NEW r \in ToolRecords,
         Becomes(t, r), UNCHANGED Hosted,
         ~r.cleaning, r.said = tool[t].said, r.at \in {"live", "join", "lift"},
         r.at \in {"live", "join"} => ~r.tap /\ (t \in Keyboards => r.finger = Steer(r.keys)),
         r.tap => ~r.ok,
         t \in Keyboards => r.sent \in Seq(KeyEvents)
  PROVE  LiveInv'
<1>1. Own(t, tool[t])
  BY DEF LiveInv
<1>2. HostFollows(t, r) /\ Admitted(t, r)
  BY <1>1
<1>3. FingersFollow(t, r)
  BY <1>1
<1> QED
  BY <1>2, <1>3, StepWithin

\* A frame is accepted or refused (TouchEngine on a uinput sink).
LEMMA TouchKeeps ==
  ASSUME LiveInv, NEW t \in Tools, tool[t].at = "live", NEW r \in ToolRecords,
         NEW finger \in Fingers, Touch(t, r, finger), UNCHANGED Hosted,
         r.at = "live", ~r.cleaning, r.said = tool[t].said, ~r.tap,
         t \in Keyboards => r.sent \in Seq(KeyEvents) /\ finger = Steer(r.keys)
  PROVE  LiveInv'
<1>1. CASE Becomes(t, [r EXCEPT !.finger = finger])
  <2> DEFINE q == [r EXCEPT !.finger = finger]
  <2>1. /\ q \in ToolRecords /\ q.at = "live" /\ ~q.cleaning /\ q.said = r.said /\ ~q.tap
        /\ q.sent = r.sent /\ q.finger = finger /\ q.keys = r.keys
    BY DEF ToolRecords
  <2>2. Becomes(t, q)
    BY <1>1
  <2> HIDE DEF q
  <2> QED
    BY <2>1, <2>2, LiveWithin
<1>2. CASE Becomes(t, [r EXCEPT !.at = "lift", !.ok = FALSE])
  <2> DEFINE q == [r EXCEPT !.at = "lift", !.ok = FALSE]
  <2>1. /\ q \in ToolRecords /\ q.at = "lift" /\ ~q.cleaning /\ q.said = r.said /\ ~q.tap
        /\ q.sent = r.sent
    BY DEF ToolRecords, Stages
  <2>2. Becomes(t, q)
    BY <1>2
  <2> HIDE DEF q
  <2> QED
    BY <2>1, <2>2, LiveWithin
<1> QED
  BY <1>1, <1>2 DEF Touch

\* A direction is one the fingers know.
LEMMA SteerIsFinger == \A keys : Steer(keys) \in Fingers
  BY DEF Steer, Fingers

\* handle_keyboard_event and MouseAimController::handle_event.
LEMMA HandlersKeep ==
  ASSUME LiveInv, NEW t \in Tools,
         HandleDirection(t) \/ HandleTap(t) \/ HandleEsc(t) \/ HandleAim(t)
  PROVE  LiveInv'
<1>1. tool[t].at = "live" /\ tool[t].sent # <<>> /\ UNCHANGED Hosted
  BY DEF HandleDirection, HandleTap, HandleEsc, HandleAim, Receives, IsAt
<1>2. Own(t, tool[t]) /\ ~tool[t].cleaning /\ ~tool[t].tap
      /\ (t \in Keyboards => tool[t].finger = Steer(tool[t].keys))
  BY <1>1 DEF LiveInv
<1> DEFINE r == Rest(t)
<1>3. /\ r \in ToolRecords /\ r.at = "live" /\ ~r.cleaning /\ r.said = tool[t].said
      /\ r.finger = tool[t].finger /\ r.keys = tool[t].keys /\ ~r.tap
      /\ t \in Keyboards => r.sent \in Seq(KeyEvents) /\ Received(t) \in KeyEvents
  BY <1>1, <1>2, RestOfLive
<1>4. r.finger \in Fingers
  BY <1>3 DEF ToolRecords
<1> HIDE DEF r
<1>5. CASE HandleDirection(t)
  <2> DEFINE keys == IF Received(t).press THEN tool[t].keys \cup {Received(t).key}
                                          ELSE tool[t].keys \ {Received(t).key}
             q == [r EXCEPT !.keys = keys]
  <2>1. keys \subseteq {"left", "right"}
    BY <1>2, <1>5 DEF HandleDirection, Receives, ToolRecords
  <2>2. Touch(t, q, Steer(keys))
    BY <1>5 DEF HandleDirection, r
  <2> HIDE DEF keys
  <2>3. /\ q \in ToolRecords /\ q.at = "live" /\ ~q.cleaning /\ q.said = tool[t].said
        /\ ~q.tap /\ q.keys = keys /\ q.sent = r.sent
    BY <1>3, <2>1 DEF ToolRecords
  <2> HIDE DEF q
  <2> QED
    BY <1>1, <1>3, <2>2, <2>3, SteerIsFinger, TouchKeeps
<1>6. CASE HandleTap(t)
  <2>1. CASE Becomes(t, r)
    BY <1>1, <1>2, <1>3, <2>1, LiveWithin
  <2>2. ASSUME NEW down \in BOOLEAN, Becomes(t, [r EXCEPT !.tap = down, !.at = "lift", !.ok = FALSE])
        PROVE  LiveInv'
    <3> DEFINE q == [r EXCEPT !.tap = down, !.at = "lift", !.ok = FALSE]
    <3>1. /\ q \in ToolRecords /\ q.at = "lift" /\ ~q.cleaning /\ q.said = tool[t].said
          /\ ~q.ok /\ q.sent = r.sent
      BY <1>3 DEF ToolRecords, Stages
    <3>2. Becomes(t, q)
      BY <2>2
    <3> HIDE DEF q
    <3> QED
      BY <1>1, <1>3, <3>1, <3>2, LiveWithin
  <2> QED
    BY <1>6, <2>1, <2>2 DEF HandleTap, r
<1>7. CASE HandleEsc(t)
  <2> DEFINE q == [r EXCEPT !.at = IF Exits(Received(t)) THEN "join" ELSE @]
  <2>1. PICK at \in {"join", "live"} : q = [r EXCEPT !.at = at]
    BY <1>3
  <2>2. Becomes(t, q)
    BY <1>7 DEF HandleEsc, r
  <2> HIDE DEF q
  <2>3. /\ q \in ToolRecords /\ q.at \in {"live", "join"} /\ ~q.cleaning /\ q.said = tool[t].said
        /\ ~q.tap /\ q.keys = r.keys /\ q.finger = r.finger /\ q.sent = r.sent
    BY <1>3, <2>1 DEF ToolRecords, Stages
  <2> QED
    BY <1>1, <1>2, <1>3, <2>2, <2>3, LiveWithin
<1>8. CASE HandleAim(t)
  <2>1. t \notin Keyboards
    BY <1>3, <1>8 DEF HandleAim, Receives, KeyEvents
  <2>2. CASE FailsTo(t, "lift")
    BY <1>1, <2>2, FailsWithin
  <2>3. CASE \E finger \in Fingers : Touch(t, r, finger)
    BY <1>1, <1>3, <2>1, <2>3, TouchKeeps
  <2>4. tool[t].finger \in Fingers /\ "aim" \in Fingers /\ "none" \in Fingers
    BY <1>3, <1>4 DEF Fingers
  <2> QED
    BY <1>8, <2>2, <2>3, <2>4 DEF HandleAim, r
<1> QED
  BY <1>5, <1>6, <1>7, <1>8

\* The end of the loop: the reader is gone, is joined, or is left to its read.
LEMMA LoopEndKeeps ==
  ASSUME LiveInv, NEW t \in Tools, NoticeInterrupt(t) \/ Disconnected(t) \/ Join(t)
  PROVE  LiveInv'
<1>1. Own(t, tool[t]) /\ UNCHANGED Hosted
  BY DEF LiveInv, NoticeInterrupt, Disconnected, Join
<1>2. CASE NoticeInterrupt(t)
  BY <1>1, <1>2, GoesWithin DEF NoticeInterrupt, IsAt
<1>3. ASSUME NEW ok \in BOOLEAN, tool[t].at \in {"live", "join"},
             Becomes(t, [tool[t] EXCEPT !.at = "lift", !.ok = ok])
      PROVE  LiveInv'
  <2> DEFINE r == [tool[t] EXCEPT !.at = "lift", !.ok = ok]
  <2>1. /\ r \in ToolRecords /\ r.at = "lift" /\ (r.cleaning <=> tool[t].cleaning)
        /\ r.said = tool[t].said /\ (r.tap <=> tool[t].tap) /\ r.sent = tool[t].sent
    BY <1>1 DEF ToolRecords, Stages
  <2>2. Becomes(t, r)
    BY <1>3
  <2> HIDE DEF r
  <2>3. ~r.tap /\ ~r.cleaning
    BY <1>1, <1>3, <2>1
  <2>4. HostFollows(t, r) /\ Admitted(t, r)
    BY <1>1, <1>3, <2>1, <2>3
  <2>5. FingersFollow(t, r)
    BY <1>1, <2>1, <2>3
  <2> QED
    BY <1>1, <2>1, <2>2, <2>4, <2>5, StepWithin
<1>4. CASE Disconnected(t)
  BY <1>3, <1>4 DEF Disconnected, IsAt
<1>5. CASE Join(t)
  <2>1. CASE GoTo(t, "lift")
    BY <1>1, <1>5, <2>1, GoesWithin DEF Join, IsAt
  <2>2. CASE Becomes(t, [tool[t] EXCEPT !.at = "lift", !.ok = tool[t].reader # "failed"])
    BY <1>3, <1>5, <2>2 DEF Join, IsAt
  <2> QED
    BY <1>5, <2>1, <2>2 DEF Join
<1> QED
  BY <1>2, <1>4, <1>5

\* What is before the session and after its loop, within the process.
LEMMA AroundLoopKeeps ==
  ASSUME LiveInv, NEW t \in Tools,
         OpenDevices(t) \/ AndroidBoots(t) \/ Grab(t) \/ Reaffirm(t) \/ Lift(t)
  PROVE  LiveInv'
<1>1. Own(t, tool[t]) /\ UNCHANGED Hosted
  BY DEF LiveInv, OpenDevices, AndroidBoots, Grab, Reaffirm, Lift
<1>2. CASE OpenDevices(t)
  BY <1>1, <1>2, GoesWithin, FailsWithin DEF OpenDevices, IsAt
<1>3. CASE AndroidBoots(t)
  BY <1>1, <1>3, GoesWithin, FailsWithin DEF AndroidBoots, IsAt
<1>4. CASE Reaffirm(t)
  BY <1>1, <1>4, FailsWithin DEF Reaffirm, IsAt
<1>5. CASE Grab(t)
  <2>1. tool[t].at = "grab"
    BY <1>5 DEF Grab, IsAt
  <2>2. ASSUME NEW grab \in BOOLEAN,
               Becomes(t, [tool[t] EXCEPT !.at = "live", !.grabbed = grab, !.reader = "reading"])
        PROVE  LiveInv'
    <3> DEFINE r == [tool[t] EXCEPT !.at = "live", !.grabbed = grab, !.reader = "reading"]
    <3>1. /\ r \in ToolRecords /\ r.at = "live" /\ (r.cleaning <=> tool[t].cleaning)
          /\ r.said = tool[t].said /\ (r.tap <=> tool[t].tap) /\ r.sent = tool[t].sent
          /\ r.keys = tool[t].keys /\ r.finger = tool[t].finger
      BY <1>1 DEF ToolRecords, Stages
    <3>2. Becomes(t, r)
      BY <2>2
    <3> HIDE DEF r
    <3>3. ~r.tap /\ ~r.cleaning
      BY <1>1, <2>1, <3>1
    <3>4. HostFollows(t, r) /\ Admitted(t, r)
      BY <1>1, <2>1, <3>1, <3>3
    <3>5. Steer({}) = "none"
      BY DEF Steer
    <3>6. FingersFollow(t, r)
      BY <1>1, <2>1, <3>1, <3>3, <3>5
    <3> QED
      BY <1>1, <3>1, <3>2, <3>4, <3>6, StepWithin
  <2> QED
    BY <1>1, <1>5, <2>1, <2>2, FailsWithin DEF Grab
<1>6. CASE Lift(t)
  <2>1. tool[t].at = "lift"
    BY <1>6 DEF Lift, IsAt
  <2>2. ASSUME NEW r \in ToolRecords, Becomes(t, r), r.at = "stop",
               r.cleaning <=> tool[t].cleaning, r.said = tool[t].said, r.tap <=> tool[t].tap,
               r.sent = tool[t].sent, r.ok => tool[t].ok, r.finger # "none" => r.stuck
        PROVE  LiveInv'
    <3>1. HostFollows(t, r) /\ Admitted(t, r)
      BY <1>1, <2>1, <2>2
    <3>2. FingersFollow(t, r)
      BY <1>1, <2>1, <2>2
    <3> QED
      BY <1>1, <2>2, <3>1, <3>2, StepWithin
  <2> DEFINE r == [tool[t] EXCEPT !.at = "stop", !.keys = {}]
             lifted == [r EXCEPT !.finger = "none"]
             stuck == [r EXCEPT !.stuck = TRUE, !.ok = FALSE]
  <2>3. Becomes(t, lifted) \/ Becomes(t, stuck)
    BY <1>6 DEF Lift
  <2>4. /\ lifted \in ToolRecords /\ lifted.at = "stop" /\ (lifted.cleaning <=> tool[t].cleaning)
        /\ lifted.said = tool[t].said /\ (lifted.tap <=> tool[t].tap)
        /\ lifted.sent = tool[t].sent /\ (lifted.ok => tool[t].ok) /\ lifted.finger = "none"
    BY <1>1 DEF ToolRecords, Stages, Fingers
  <2>5. /\ stuck \in ToolRecords /\ stuck.at = "stop" /\ (stuck.cleaning <=> tool[t].cleaning)
        /\ stuck.said = tool[t].said /\ (stuck.tap <=> tool[t].tap)
        /\ stuck.sent = tool[t].sent /\ ~stuck.ok /\ stuck.stuck
    BY <1>1 DEF ToolRecords, Stages
  <2> HIDE DEF lifted, stuck
  <2> QED
    BY <2>2, <2>3, <2>4, <2>5
<1> QED
  BY <1>2, <1>3, <1>4, <1>5, <1>6

-----------------------------------------------------------------------------
(* The files, the container and the lease *)

\* Becomes says what the process is.
LEMMA BecomesIs == \A r : \A t \in Tools : LiveInv /\ Becomes(t, r) => tool'[t] = r
  BY DEF LiveInv, Becomes

\* A process that is not at work.
AtRest(r, said) ==
  /\ r \in ToolRecords /\ r.at = "off" /\ r.said = said /\ r.cleaning = FALSE
  /\ r.finger = "none" /\ r.keys = {} /\ r.tap = FALSE /\ r.sent = <<>>

\* The tidy ends: a process that ends or is killed.
LEMMA NewToolIsOff ==
  \A said \in {"nothing", "success", "swept", "error", "killed"}, runs \in Nat :
    AtRest(NewTool(said, runs), said)
<1> TAKE said \in {"nothing", "success", "swept", "error", "killed"}, runs \in Nat
<1>1. <<>> \in Seq(KeyEvents \cup MouseEvents) /\ <<>> \in Seq(MouseEvents)
  OBVIOUS
<1> QED
  BY <1>1 DEF NewTool, ToolRecords, Stages, Fingers, AtRest

\* Before the loop nothing is touched.
Early == {"off", "sweep", "unlink", "open", "write", "include", "boot", "ready", "grab"}

\* A process that moves on.
Moved(q, at, ok, active, again) ==
  [q EXCEPT !.at = at, !.ok = ok, !.active = active, !.again = again]

\* What moving on changes.
MovedOn(r, q, at, ok) ==
  /\ r \in ToolRecords /\ r.at = at /\ (r.ok <=> ok) /\ (r.cleaning <=> q.cleaning)
  /\ r.said = q.said /\ r.finger = q.finger /\ r.keys = q.keys
  /\ (r.tap <=> q.tap) /\ (r.stuck <=> q.stuck) /\ r.sent = q.sent

\* What moving on changes in a process.
LEMMA MovedRecord ==
  \A q \in ToolRecords, at \in Stages, ok, active, again \in BOOLEAN :
    MovedOn(Moved(q, at, ok, active, again), q, at, ok)
<1> SUFFICES ASSUME NEW q \in ToolRecords, NEW at \in Stages,
                    NEW ok \in BOOLEAN, NEW active \in BOOLEAN, NEW again \in BOOLEAN
             PROVE  MovedOn(Moved(q, at, ok, active, again), q, at, ok)
  OBVIOUS
<1> DEFINE r == Moved(q, at, ok, active, again)
<1>1. r \in ToolRecords
  BY DEF ToolRecords, Moved
<1>2. r.at = at /\ (r.ok <=> ok) /\ (r.cleaning <=> q.cleaning)
  BY DEF ToolRecords, Moved
<1>3. r.said = q.said /\ r.finger = q.finger /\ r.keys = q.keys /\ r.sent = q.sent
  BY DEF ToolRecords, Moved
<1>4. (r.tap <=> q.tap) /\ (r.stuck <=> q.stuck)
  BY DEF ToolRecords, Moved
<1> QED
  BY <1>1, <1>2, <1>3, <1>4 DEF MovedOn

\* A step of a process at work that also changes the files or the container.
LEMMA HostMoves ==
  ASSUME LiveInv, NEW t \in Tools, NEW at \in Stages \ {"off"},
         NEW ok \in BOOLEAN, NEW r \in ToolRecords, Becomes(t, r),
         r.at = at, r.ok <=> ok, r.cleaning <=> tool[t].cleaning, r.said = tool[t].said,
         r.finger = tool[t].finger, r.keys = tool[t].keys, r.tap <=> tool[t].tap,
         r.stuck <=> tool[t].stuck, r.sent = tool[t].sent,
         tool[t].at # "off", UNCHANGED holder, HostedTyped',
         bridge'.node \in {bridge.node, t, NoTool},
         container'.node \in {container.node, t, NoTool},
         ok => tool[t].ok,
         \/ at \in Early /\ tool[t].at \in Early
         \/ at \in {"exclude", "erase", "leave"} /\ tool[t].at \notin {"live", "join", "lift"},
         tool[t].cleaning => at \in {"sweep", "unlink", "leave"},
         at = "unlink" => ~bridge'.include,
         at \in {"unlink", "open", "write", "include", "boot"} /\ ~tool[t].cleaning =>
           container' = Down,
         at \in {"open", "write"} => bridge' = NoBridge,
         at = "include" => bridge' = [node |-> t, include |-> FALSE],
         at \in {"boot", "ready", "grab"} => bridge' = [node |-> t, include |-> TRUE],
         at \in {"ready", "grab"} => container' = [up |-> TRUE, node |-> t],
         at \in {"exclude", "erase", "leave"} /\ ok /\ ~tool[t].cleaning => container' = Down,
         at = "leave" /\ ok => bridge'.node = NoTool
  PROVE  LiveInv'
<1>1. Own(t, tool[t])
  BY DEF LiveInv
<1>4. tool'[t] = r
  BY BecomesIs
<1>5. holder = t /\ holder' = t
  BY <1>1
<1>6. FingersFollow(t, r)
  <2>1. CASE at \in Early /\ tool[t].at \in Early
    BY <1>1, <2>1 DEF Early
  <2>2. CASE at \in {"exclude", "erase", "leave"} /\ tool[t].at \notin {"live", "join", "lift"}
    <3>1. tool[t].at \in Stages
      BY <1>1 DEF ToolRecords
    <3>2. CASE tool[t].at \in Early
      BY <1>1, <2>2, <3>2 DEF Early
    <3>3. CASE tool[t].at \in {"stop", "exclude", "erase", "leave"}
      BY <1>1, <2>2, <3>3
    <3> QED
      BY <2>2, <3>1, <3>2, <3>3 DEF Early, Stages
  <2> QED
    BY <2>1, <2>2
<1>7. /\ tool'[t].at = at /\ (tool'[t].ok <=> ok) /\ (tool'[t].cleaning <=> tool[t].cleaning)
      /\ tool'[t].said = tool[t].said
  BY <1>4
<1>8. HostFollows(t, tool[t])'
  <2>1. /\ tool'[t].at # "off" => holder' = t
        /\ tool'[t].cleaning => tool'[t].at \in {"sweep", "unlink", "leave"}
        /\ tool'[t].at = "unlink" => ~bridge'.include
    BY <1>5, <1>7
  <2>2. tool'[t].at \in {"unlink", "open", "write", "include", "boot"} /\ ~tool'[t].cleaning =>
          container' = Down
    BY <1>7
  <2>3. /\ tool'[t].at \in {"open", "write"} => bridge' = NoBridge
        /\ tool'[t].at = "include" => bridge' = [node |-> t, include |-> FALSE]
    BY <1>7
  <2>4. /\ tool'[t].at \in {"boot", "ready", "grab", "live", "join", "lift", "stop"} =>
             bridge' = [node |-> t, include |-> TRUE]
        /\ tool'[t].at \in {"ready", "grab", "live", "join", "lift", "stop"} =>
             container' = [up |-> TRUE, node |-> t]
    BY <1>7 DEF Early
  <2>5. /\ tool'[t].at \in {"exclude", "erase", "leave"} /\ tool'[t].ok /\ ~tool'[t].cleaning =>
             container' = Down
        /\ tool'[t].at = "leave" /\ tool'[t].ok => bridge'.node = NoTool
    BY <1>7
  <2> QED
    BY <2>1, <2>2, <2>3, <2>4, <2>5
<1>9. Own(t, tool[t])'
  <2>1. tool'[t] \in ToolRecords /\ FingersFollow(t, tool'[t])
    BY <1>4, <1>6, Zenon
  <2>2. Admitted(t, tool[t])'
    BY <1>5
  <2> QED
    BY <1>8, <2>1, <2>2
<1> QED
  BY <1>5, <1>9, StepOfOne

\* A step that leaves the other fields of a process as they are.
LEMMA SameFields ==
  ASSUME NEW q \in ToolRecords, NEW at
  PROVE  /\ [q EXCEPT !.at = at] = Moved(q, at, q.ok, q.active, q.again)
         /\ [q EXCEPT !.at = at, !.ok = FALSE] = Moved(q, at, FALSE, q.active, q.again)
         /\ q.ok \in BOOLEAN /\ q.active \in BOOLEAN /\ q.again \in BOOLEAN
  BY DEF ToolRecords, Moved

\* A process moves on.
LEMMA HostGoes ==
  ASSUME LiveInv, NEW t \in Tools, NEW at \in Stages \ {"off"}, GoTo(t, at),
         tool[t].at # "off", UNCHANGED holder, HostedTyped',
         bridge'.node \in {bridge.node, t, NoTool},
         container'.node \in {container.node, t, NoTool},
         \/ at \in Early /\ tool[t].at \in Early
         \/ at \in {"exclude", "erase", "leave"} /\ tool[t].at \notin {"live", "join", "lift"},
         tool[t].cleaning => at \in {"sweep", "unlink", "leave"},
         at = "unlink" => ~bridge'.include,
         at \in {"unlink", "open", "write", "include", "boot"} /\ ~tool[t].cleaning =>
           container' = Down,
         at \in {"open", "write"} => bridge' = NoBridge,
         at = "include" => bridge' = [node |-> t, include |-> FALSE],
         at \in {"boot", "ready", "grab"} => bridge' = [node |-> t, include |-> TRUE],
         at \in {"ready", "grab"} => container' = [up |-> TRUE, node |-> t],
         at \in {"exclude", "erase", "leave"} /\ tool[t].ok /\ ~tool[t].cleaning =>
           container' = Down,
         at = "leave" /\ tool[t].ok => bridge'.node = NoTool
  PROVE  LiveInv'
<1>1. tool[t] \in ToolRecords
  BY DEF LiveInv
<1>2. tool[t].ok \in BOOLEAN /\ tool[t].active \in BOOLEAN /\ tool[t].again \in BOOLEAN
  BY <1>1, SameFields
<1> DEFINE r == Moved(tool[t], at, tool[t].ok, tool[t].active, tool[t].again)
<1>3. Becomes(t, r)
  BY <1>1, SameFields DEF GoTo
<1>4. MovedOn(r, tool[t], at, tool[t].ok)
  BY <1>1, <1>2, MovedRecord
<1> HIDE DEF r
<1>5. PICK ok \in BOOLEAN : ok <=> tool[t].ok
  BY <1>2
<1>6. /\ r \in ToolRecords /\ r.at = at /\ (r.ok <=> ok) /\ (r.cleaning <=> tool[t].cleaning)
      /\ r.said = tool[t].said /\ r.finger = tool[t].finger /\ r.keys = tool[t].keys
      /\ (r.tap <=> tool[t].tap) /\ (r.stuck <=> tool[t].stuck) /\ r.sent = tool[t].sent
  BY <1>4, <1>5 DEF MovedOn
<1> QED
  BY <1>3, <1>5, <1>6, HostMoves

\* A process fails and goes to its end.
LEMMA HostFails ==
  ASSUME LiveInv, NEW t \in Tools, NEW at \in {"exclude", "erase", "leave"},
         NEW active \in BOOLEAN, NEW again \in BOOLEAN,
         Becomes(t, Moved(tool[t], at, FALSE, active, again)),
         tool[t].at \notin {"off", "live", "join", "lift"}, UNCHANGED holder, HostedTyped',
         bridge'.node \in {bridge.node, t, NoTool},
         container'.node \in {container.node, t, NoTool},
         tool[t].cleaning => at = "leave"
  PROVE  LiveInv'
<1>1. tool[t] \in ToolRecords /\ at \in Stages \ {"off"} /\ FALSE \in BOOLEAN
  BY DEF LiveInv, Stages
<1> DEFINE r == Moved(tool[t], at, FALSE, active, again)
<1>2. MovedOn(r, tool[t], at, FALSE) /\ Becomes(t, r)
  BY <1>1, MovedRecord
<1> HIDE DEF r
<1>3. /\ r \in ToolRecords /\ r.at = at /\ (r.ok <=> FALSE) /\ (r.cleaning <=> tool[t].cleaning)
      /\ r.said = tool[t].said /\ r.finger = tool[t].finger /\ r.keys = tool[t].keys
      /\ (r.tap <=> tool[t].tap) /\ (r.stuck <=> tool[t].stuck) /\ r.sent = tool[t].sent
  BY <1>2 DEF MovedOn
<1>4. at \notin Early /\ ~(at \in {"open", "write", "boot", "ready", "grab", "include", "unlink", "sweep"})
  BY DEF Early
<1> QED
  BY <1>1, <1>2, <1>3, <1>4, HostMoves

\* FailsTo, as HostFails has it.
LEMMA FailsMoved ==
  ASSUME LiveInv, NEW t \in Tools, NEW at, FailsTo(t, at)
  PROVE  /\ Becomes(t, Moved(tool[t], at, FALSE, tool[t].active, tool[t].again))
         /\ tool[t].active \in BOOLEAN /\ tool[t].again \in BOOLEAN
<1>1. tool[t] \in ToolRecords
  BY DEF LiveInv
<1> QED
  BY <1>1, SameFields, Zenon DEF FailsTo

\* The types of the files and the container after a step that sets them.
LEMMA HostedStays ==
  ASSUME LiveInv, NEW t \in Tools, UNCHANGED holder,
         \/ UNCHANGED bridge
         \/ bridge' = [bridge EXCEPT !.include = FALSE]
         \/ bridge' = [bridge EXCEPT !.include = TRUE]
         \/ bridge' = [bridge EXCEPT !.node = NoTool]
         \/ bridge' = [bridge EXCEPT !.node = t],
         container' \in {container, Booted, Down}
  PROVE  HostedTyped'
<1>1. bridge \in [node : Tools \cup {NoTool}, include : BOOLEAN] /\ HostedTyped
  BY DEF LiveInv, HostedTyped
<1>2. bridge' \in [node : Tools \cup {NoTool}, include : BOOLEAN]
  BY <1>1
<1>3. container' \in [up : BOOLEAN, node : Tools \cup {NoTool}]
  <2>1. CASE container' = container
    BY <1>1, <2>1 DEF HostedTyped
  <2>2. CASE container' = Booted
    <3>1. bridge.node \in Tools \cup {NoTool}
      BY <1>1
    <3>2. (IF bridge.include THEN bridge.node ELSE NoTool) \in Tools \cup {NoTool}
      BY <3>1
    <3> QED
      BY <2>2, <3>2 DEF Booted
  <2>3. CASE container' = Down
    BY <2>3 DEF Down
  <2> QED
    BY <2>1, <2>2, <2>3
<1>4. container'.up = FALSE => container' = Down
  <2>1. CASE container' = container
    BY <1>1, <2>1 DEF HostedTyped
  <2>2. CASE container' = Booted
    <3>1. Booted.up = TRUE
      BY DEF Booted
    <3> QED
      BY <2>2, <3>1
  <2>3. CASE container' = Down
    BY <2>3
  <2> QED
    BY <2>1, <2>2, <2>3
<1> QED
  BY <1>1, <1>2, <1>3, <1>4 DEF HostedTyped

\* The files and the container before the container is booted.
LEMMA InstallKeeps ==
  ASSUME LiveInv, NEW t \in Tools,
         Sweep(t) \/ SweepFile(t) \/ WriteNode(t) \/ WriteInclude(t)
  PROVE  LiveInv'
<1>1. /\ Own(t, tool[t]) /\ tool[t] \in ToolRecords /\ UNCHANGED <<holder, container>>
      /\ tool[t].ok \in BOOLEAN /\ tool[t].active \in BOOLEAN /\ tool[t].again \in BOOLEAN
      /\ tool[t].cleaning \in BOOLEAN
  BY DEF LiveInv, ToolRecords, Sweep, SweepFile, WriteNode, WriteInclude
<1>9. /\ tool[t].at = "unlink" => ~bridge.include /\ (~tool[t].cleaning => container = Down)
      /\ tool[t].at \in {"write", "include"} => container = Down /\ ~tool[t].cleaning
      /\ tool[t].at = "write" => bridge = NoBridge
      /\ tool[t].at = "include" => bridge = [node |-> t, include |-> FALSE]
  BY <1>1
<1> HIDE DEF Own, HostFollows, Admitted, FingersFollow
<1>2. /\ bridge \in [node : Tools \cup {NoTool}, include : BOOLEAN]
      /\ container.up = FALSE => container = Down
      /\ container.up \in BOOLEAN
  BY DEF LiveInv, HostedTyped
<1>3. CASE Sweep(t)
  <2>1. tool[t].at = "sweep" /\ tool[t].at \in Early
    BY <1>3 DEF Sweep, IsAt, Early
  <2>2. CASE /\ Becomes(t, [tool[t] EXCEPT !.at = "leave", !.ok = FALSE])
             /\ UNCHANGED bridge
    <3>1. Becomes(t, Moved(tool[t], "leave", FALSE, tool[t].active, tool[t].again))
      BY <1>1, <2>2, SameFields, Zenon
    <3>4. HostedTyped'
      BY <1>1, <2>2, HostedStays
    <3> QED
      BY <1>1, <2>1, <2>2, <3>1, <3>4, HostFails
  <2>3. CASE bridge' = [bridge EXCEPT !.include = FALSE] /\ GoTo(t, "unlink")
             /\ (~container.up \/ tool[t].cleaning)
    <3>1. /\ bridge'.include = FALSE /\ bridge'.node = bridge.node
          /\ "unlink" \in Stages \ {"off"} /\ "unlink" \in Early
          /\ ~tool[t].cleaning => container' = Down
      BY <1>1, <1>2, <2>3 DEF Stages, Early
    <3>2. HostedTyped'
      BY <1>1, <2>3, HostedStays
    <3> QED
      BY <1>1, <2>1, <2>3, <3>1, <3>2, <1>9, HostGoes
  <2>4. CASE UNCHANGED bridge /\ FailsTo(t, "leave")
    BY <1>1, <1>3, <2>1, <2>4, FailsWithin DEF Hosted
  <2> QED
    BY <1>3, <2>2, <2>3, <2>4 DEF Sweep
<1>4. CASE SweepFile(t)
  <2>1. tool[t].at = "unlink" /\ tool[t].at \in Early
    BY <1>4 DEF SweepFile, IsAt, Early
  <2>2. CASE bridge' = [bridge EXCEPT !.node = NoTool]
             /\ GoTo(t, IF tool[t].cleaning THEN "leave" ELSE "open")
    <3>1. bridge' = NoBridge /\ bridge'.node = NoTool
      BY <1>2, <1>9, <2>1, <2>2 DEF NoBridge
    <3>2. HostedTyped'
      BY <1>1, <2>2, HostedStays
    <3>3. CASE tool[t].cleaning
      <4>1. "leave" \in Stages \ {"off"} /\ GoTo(t, "leave")
        BY <2>2, <3>3 DEF Stages
      <4> QED
        BY <1>1, <2>1, <3>1, <3>2, <3>3, <4>1, <1>9, HostGoes
    <3>4. CASE ~tool[t].cleaning
      <4>1. "open" \in Stages \ {"off"} /\ "open" \in Early /\ GoTo(t, "open")
        BY <2>2, <3>4 DEF Stages, Early
      <4> QED
        BY <1>1, <2>1, <3>1, <3>2, <3>4, <4>1, <1>9, HostGoes
    <3> QED
      BY <3>3, <3>4
  <2>3. CASE UNCHANGED bridge /\ FailsTo(t, "leave")
    BY <1>1, <1>4, <2>1, <2>3, FailsWithin DEF Hosted
  <2> QED
    BY <1>4, <2>2, <2>3 DEF SweepFile
<1>5. CASE WriteNode(t)
  <2>1. tool[t].at = "write" /\ tool[t].at \in Early
    BY <1>5 DEF WriteNode, IsAt, Early
  <2>2. CASE bridge' = [bridge EXCEPT !.node = t] /\ GoTo(t, "include")
    <3>2. HostedTyped'
      BY <1>1, <2>2, HostedStays
    <3>1. bridge' = [node |-> t, include |-> FALSE]
      <4>1. bridge'.node = t /\ bridge'.include = FALSE
        BY <1>2, <1>9, <2>1, <2>2 DEF NoBridge
      <4>2. bridge' \in [node : Tools \cup {NoTool}, include : BOOLEAN]
        BY <3>2 DEF HostedTyped
      <4> QED
        BY <4>1, <4>2
    <3>3. "include" \in Stages \ {"off"} /\ "include" \in Early
      BY DEF Stages, Early
    <3> QED
      BY <1>1, <2>1, <2>2, <3>1, <3>2, <3>3, <1>9, HostGoes
  <2>3. CASE UNCHANGED bridge /\ FailsTo(t, "leave")
    BY <1>1, <1>5, <2>1, <2>3, FailsWithin DEF Hosted
  <2> QED
    BY <1>5, <2>2, <2>3 DEF WriteNode
<1>6. CASE WriteInclude(t)
  <2>1. tool[t].at = "include" /\ tool[t].at \in Early /\ ~tool[t].cleaning
    BY <1>6, <1>9 DEF WriteInclude, IsAt, Early
  <2>2. CASE bridge' = [bridge EXCEPT !.include = TRUE] /\ GoTo(t, "boot")
    <3>2. HostedTyped'
      BY <1>1, <2>2, HostedStays
    <3>1. bridge' = [node |-> t, include |-> TRUE]
      <4>1. bridge'.node = t /\ bridge'.include = TRUE
        BY <1>2, <1>9, <2>1, <2>2 DEF NoBridge
      <4>2. bridge' \in [node : Tools \cup {NoTool}, include : BOOLEAN]
        BY <3>2 DEF HostedTyped
      <4> QED
        BY <4>1, <4>2
    <3>3. "boot" \in Stages \ {"off"} /\ "boot" \in Early
      BY DEF Stages, Early
    <3> QED
      BY <1>1, <2>1, <2>2, <3>1, <3>2, <3>3, <1>9, HostGoes
  <2>3. CASE bridge' \in {bridge, [bridge EXCEPT !.node = NoTool]} /\ FailsTo(t, "leave")
    <3>1. bridge'.node \in {bridge.node, NoTool}
      BY <1>2, <2>3
    <3>2. HostedTyped'
      BY <1>1, <2>3, HostedStays
    <3> QED
      BY <1>1, <2>1, <2>3, <3>1, <3>2, FailsMoved, HostFails
  <2> QED
    BY <1>6, <2>2, <2>3 DEF WriteInclude
<1> QED
  BY <1>3, <1>4, <1>5, <1>6

\* The container after it is asked to stop.
LEMMA StopsAre ==
  ASSUME NEW o \in StopOutcomes
  PROVE  /\ o.ok \in BOOLEAN /\ o.active \in BOOLEAN
         /\ o.ok => Stopped(o) = Down
         /\ Stopped(o) \in {container, Down}
<1>1. o.ok \in BOOLEAN /\ o.active \in BOOLEAN /\ (o.ok => ~o.up)
  BY DEF StopOutcomes
<1> QED
  BY <1>1 DEF Stopped

\* The boot and the stop of the container, and the files' restoration.
LEMMA SessionKeeps ==
  ASSUME LiveInv, NEW t \in Tools,
         StartSession(t) \/ StopSession(t) \/ Exclude(t) \/ Erase(t)
  PROVE  LiveInv'
<1>1. /\ Own(t, tool[t]) /\ tool[t] \in ToolRecords /\ UNCHANGED holder
      /\ tool[t].ok \in BOOLEAN /\ tool[t].active \in BOOLEAN /\ tool[t].again \in BOOLEAN
      /\ tool[t].cleaning \in BOOLEAN
  BY DEF LiveInv, ToolRecords, StartSession, StopSession, Exclude, Erase
<1>2. /\ tool[t].at \in {"boot", "stop"} =>
           bridge = [node |-> t, include |-> TRUE] /\ ~tool[t].cleaning
      /\ tool[t].at \in {"exclude", "erase"} => ~tool[t].cleaning
      /\ tool[t].at \in {"exclude", "erase"} /\ tool[t].ok => container = Down
  BY <1>1
<1>3. bridge \in [node : Tools \cup {NoTool}, include : BOOLEAN]
  BY DEF LiveInv, HostedTyped
<1> HIDE DEF Own, HostFollows, Admitted, FingersFollow
<1>4. CASE StartSession(t)
  <2>1. tool[t].at = "boot" /\ tool[t].at \in Early /\ UNCHANGED bridge
    BY <1>4 DEF StartSession, IsAt, Early
  <2>2. Booted = [up |-> TRUE, node |-> t]
    <3>1. bridge.include = TRUE /\ bridge.node = t
      BY <1>2, <2>1
    <3> QED
      BY <3>1 DEF Booted
  <2>3. CASE container' = Booted /\ Becomes(t, [tool[t] EXCEPT !.at = "ready", !.active = TRUE])
    <3>1. [tool[t] EXCEPT !.at = "ready", !.active = TRUE]
            = Moved(tool[t], "ready", tool[t].ok, TRUE, tool[t].again)
      BY <1>1 DEF ToolRecords, Moved
    <3> DEFINE r == Moved(tool[t], "ready", tool[t].ok, TRUE, tool[t].again)
    <3>2. Becomes(t, r)
      BY <2>3, <3>1
    <3>3. "ready" \in Stages \ {"off"} /\ "ready" \in Early
      BY DEF Stages, Early
    <3>4. MovedOn(r, tool[t], "ready", tool[t].ok)
      BY <1>1, <3>3, MovedRecord
    <3> HIDE DEF r
    <3>5. PICK ok \in BOOLEAN : ok <=> tool[t].ok
      BY <1>1
    <3>6. /\ r \in ToolRecords /\ r.at = "ready" /\ (r.ok <=> ok) /\ (r.cleaning <=> tool[t].cleaning)
          /\ r.said = tool[t].said /\ r.finger = tool[t].finger /\ r.keys = tool[t].keys
          /\ (r.tap <=> tool[t].tap) /\ (r.stuck <=> tool[t].stuck) /\ r.sent = tool[t].sent
      BY <3>4, <3>5 DEF MovedOn
    <3>7. HostedTyped'
      BY <1>1, <2>1, <2>3, HostedStays
    <3>8. container' = [up |-> TRUE, node |-> t] /\ container'.node = t
          /\ bridge' = [node |-> t, include |-> TRUE] /\ bridge'.node = t /\ ~tool[t].cleaning
      BY <1>2, <2>1, <2>2, <2>3
    <3> QED
      BY <1>1, <2>1, <3>2, <3>3, <3>5, <3>6, <3>7, <3>8, HostMoves
  <2>4. ASSUME NEW active \in BOOLEAN, container' \in {Booted, Down},
               Becomes(t, [tool[t] EXCEPT !.at = "exclude", !.ok = FALSE, !.again = TRUE,
                                          !.active = active])
        PROVE  LiveInv'
    <3>1. [tool[t] EXCEPT !.at = "exclude", !.ok = FALSE, !.again = TRUE, !.active = active]
            = Moved(tool[t], "exclude", FALSE, active, TRUE)
      BY <1>1 DEF ToolRecords, Moved
    <3>2. Becomes(t, Moved(tool[t], "exclude", FALSE, active, TRUE))
      BY <2>4, <3>1
    <3>3. HostedTyped'
      BY <1>1, <2>1, <2>4, HostedStays
    <3>4. container'.node \in {t, NoTool}
      BY <2>2, <2>4 DEF Down
    <3> QED
      BY <1>1, <1>2, <2>1, <3>2, <3>3, <3>4, HostFails
  <2>5. CASE /\ container' \in {Booted, Down}
             /\ \E active \in {FALSE, container'.up} :
                  Becomes(t, [tool[t] EXCEPT !.at = "exclude", !.ok = FALSE, !.again = TRUE,
                                             !.active = active])
    <3>1. container'.up \in BOOLEAN
      <4>1. Booted.up = TRUE /\ Down.up = FALSE
        BY DEF Booted, Down
      <4> QED
        BY <2>5, <4>1
    <3> QED
      BY <2>4, <2>5, <3>1
  <2> QED
    BY <1>4, <2>3, <2>5 DEF StartSession
<1>5. CASE StopSession(t)
  <2>1. tool[t].at = "stop" /\ UNCHANGED bridge
    BY <1>5 DEF StopSession, IsAt
  <2>2. PICK o \in StopOutcomes :
          /\ container' = Stopped(o)
          /\ Becomes(t, [tool[t] EXCEPT !.at = "exclude", !.active = o.active, !.ok = @ /\ o.ok])
    BY <1>5, Zenon DEF StopSession
  <2>3. PICK ok \in BOOLEAN : ok <=> tool[t].ok /\ o.ok
    OBVIOUS
  <2>4. (tool[t].ok /\ o.ok) = ok
    BY <1>1, <2>3, StopsAre
  <2>5. [tool[t] EXCEPT !.at = "exclude", !.active = o.active, !.ok = @ /\ o.ok]
          = Moved(tool[t], "exclude", ok, o.active, tool[t].again)
    <3>1. [tool[t] EXCEPT !.at = "exclude", !.active = o.active, !.ok = ok]
            = Moved(tool[t], "exclude", ok, o.active, tool[t].again)
      BY <1>1 DEF ToolRecords, Moved
    <3>2. [tool[t] EXCEPT !.at = "exclude", !.active = o.active, !.ok = @ /\ o.ok]
            = [tool[t] EXCEPT !.at = "exclude", !.active = o.active, !.ok = tool[t].ok /\ o.ok]
      BY <1>1 DEF ToolRecords
    <3> QED
      BY <2>4, <3>1, <3>2
  <2> DEFINE r == Moved(tool[t], "exclude", ok, o.active, tool[t].again)
  <2>6. Becomes(t, r)
    BY <2>2, <2>5
  <2>7. "exclude" \in Stages \ {"off"} /\ o.active \in BOOLEAN
    BY StopsAre DEF Stages
  <2>8. MovedOn(r, tool[t], "exclude", ok)
    BY <1>1, <2>7, MovedRecord
  <2> HIDE DEF r
  <2>9. HostedTyped'
    BY <1>1, <2>1, <2>2, StopsAre, HostedStays
  <2>10. /\ container'.node \in {container.node, t, NoTool}
         /\ ok => container' = Down /\ tool[t].ok
    BY <2>2, <2>3, StopsAre DEF Down
  <2> QED
    BY <1>1, <1>2, <2>1, <2>6, <2>7, <2>8, <2>9, <2>10, HostMoves DEF MovedOn
<1>6. CASE Exclude(t)
  <2>1. tool[t].at = "exclude" /\ UNCHANGED container
    BY <1>6 DEF Exclude, IsAt
  <2>2. HostedTyped' /\ bridge'.node = bridge.node
    BY <1>1, <1>3, <1>6, HostedStays DEF Exclude
  <2>3. "erase" \in Stages \ {"off"}
    BY DEF Stages
  <2>4. CASE GoTo(t, "erase")
    BY <1>1, <1>2, <2>1, <2>2, <2>3, <2>4, HostGoes
  <2>5. CASE FailsTo(t, "erase")
    BY <1>1, <1>2, <2>1, <2>2, <2>5, FailsMoved, HostFails
  <2> QED
    BY <1>6, <2>4, <2>5 DEF Exclude
<1>7. CASE Erase(t)
  <2>1. tool[t].at = "erase" /\ UNCHANGED container
    BY <1>7 DEF Erase, IsAt
  <2>2. HostedTyped' /\ bridge'.node \in {bridge.node, NoTool} /\ bridge'.include \in BOOLEAN
    BY <1>1, <1>3, <1>7, HostedStays DEF Erase
  <2> DEFINE left == bridge'.include \/ bridge'.node # NoTool
  <2>3. PICK ok \in BOOLEAN : ok <=> tool[t].ok /\ ~left
    OBVIOUS
  <2>4. PICK at \in {"exclude", "leave"} : at = IF left /\ ~tool[t].again THEN "exclude" ELSE "leave"
    OBVIOUS
  <2>5. (tool[t].ok /\ ~left) = ok
    BY <1>1, <2>3
  <2>6. Becomes(t, [tool[t] EXCEPT !.at = at, !.again = TRUE, !.ok = @ /\ ~left])
    BY <1>7, <2>4 DEF Erase
  <2> HIDE DEF left
  <2>7. [tool[t] EXCEPT !.at = at, !.again = TRUE, !.ok = @ /\ ~left]
          = Moved(tool[t], at, ok, tool[t].active, TRUE)
    <3>1. [tool[t] EXCEPT !.at = at, !.again = TRUE, !.ok = ok]
            = Moved(tool[t], at, ok, tool[t].active, TRUE)
      BY <1>1 DEF ToolRecords, Moved
    <3>2. [tool[t] EXCEPT !.at = at, !.again = TRUE, !.ok = @ /\ ~left]
            = [tool[t] EXCEPT !.at = at, !.again = TRUE, !.ok = tool[t].ok /\ ~left]
      BY <1>1 DEF ToolRecords
    <3> QED
      BY <2>5, <3>1, <3>2
  <2> DEFINE r == Moved(tool[t], at, ok, tool[t].active, TRUE)
  <2>8. Becomes(t, r)
    BY <2>6, <2>7
  <2>9. at \in Stages \ {"off"} /\ at \in Stages
    BY DEF Stages
  <2>10. MovedOn(r, tool[t], at, ok)
    BY <1>1, <2>9, MovedRecord
  <2> HIDE DEF r
  <2>11. ok => tool[t].ok /\ bridge'.node = NoTool
    BY <2>3 DEF left
  <2> QED
    BY <1>1, <1>2, <2>1, <2>2, <2>8, <2>9, <2>10, <2>11, HostMoves DEF MovedOn
<1> QED
  BY <1>4, <1>5, <1>6, <1>7

-----------------------------------------------------------------------------
(* The start and the end of a process, and the user *)

\* A process that is off, or sweeping, keeps its part.
LEMMA SessionEndKeeps ==
  ASSUME LiveInv, NEW t \in Tools, Leave(t) \/ Kill(t)
  PROVE  LiveInv'
<1>1. /\ Own(t, tool[t]) /\ tool[t] \in ToolRecords /\ tool[t].runs \in Nat /\ tool[t].at # "off"
  BY DEF LiveInv, ToolRecords, Leave, Kill, IsAt
<1>2. holder = t /\ holder' = NoTool /\ UNCHANGED bridge
  BY <1>1 DEF Leave, Kill
<1>3. /\ tool[t].at = "leave" /\ tool[t].ok => bridge.node = NoTool
      /\ tool[t].at = "leave" /\ tool[t].ok /\ ~tool[t].cleaning => container = Down
  BY <1>1
<1> HIDE DEF Own, HostFollows, Admitted, FingersFollow
<1>4. container' \in {container, Down}
  BY Zenon, StopsAre DEF Leave, Kill
<1>5. ASSUME NEW said \in {"success", "swept", "error", "killed"},
             Becomes(t, NewTool(said, tool[t].runs)),
             bridge.node = t => said \in {"killed", "error"},
             container'.node = t => said \in {"killed", "error", "swept"}
      PROVE  LiveInv'
  <2> DEFINE r == NewTool(said, tool[t].runs)
  <2>1. /\ r \in ToolRecords /\ r.at = "off" /\ r.said = said /\ r.cleaning = FALSE
        /\ r.finger = "none" /\ r.keys = {} /\ r.tap = FALSE /\ r.sent = <<>>
    <3>1. said \in {"nothing", "success", "swept", "error", "killed"}
      OBVIOUS
    <3>2. AtRest(r, said)
      BY <1>1, <3>1, NewToolIsOff
    <3> HIDE DEF r
    <3> QED
      BY <3>2 DEF AtRest
  <2>2. Becomes(t, r)
    BY <1>5
  <2> HIDE DEF r
  <2>3. tool'[t] = r
    BY <2>2, BecomesIs
  <2>4. <<>> \in Seq(KeyEvents)
    OBVIOUS
  <2>5. HostFollows(t, tool[t])'
    BY <2>1, <2>3 DEF HostFollows
  <2>6. Admitted(t, tool[t])'
    BY <1>2, <1>5, <2>1, <2>3 DEF Admitted
  <2>7. FingersFollow(t, r)
    BY <2>1, <2>4 DEF FingersFollow
  <2>8. Own(t, tool[t])'
    BY <2>1, <2>3, <2>5, <2>6, <2>7 DEF Own, FingersFollow
  <2>9. HostedTyped'
    <3>1. HostedTyped /\ Down \in [up : BOOLEAN, node : Tools \cup {NoTool}]
      BY DEF LiveInv, Down
    <3>2. container' \in [up : BOOLEAN, node : Tools \cup {NoTool}]
      BY <1>4, <3>1 DEF HostedTyped
    <3>3. container'.up = FALSE => container' = Down
      BY <1>4, <3>1 DEF HostedTyped
    <3> QED
      BY <1>2, <3>1, <3>2, <3>3 DEF HostedTyped
  <2>10. container'.node \in {container.node, t, NoTool}
    BY <1>4 DEF Down
  <2> QED
    BY <1>2, <2>2, <2>8, <2>9, <2>10, StepOfOne
<1>6. CASE Kill(t)
  <2>1. Becomes(t, NewTool("killed", tool[t].runs))
    BY <1>6 DEF Kill
  <2> QED
    BY <1>5, <2>1
<1>7. CASE Leave(t)
  <2>1. tool[t].at = "leave" /\ t # NoTool
    BY <1>7, LiveBounds DEF Leave, IsAt
  <2>2. CASE ~tool[t].ok
    <3>1. Becomes(t, NewTool("error", tool[t].runs))
      BY <1>7, <2>2 DEF Leave
    <3> QED
      BY <1>5, <3>1
  <2>3. CASE tool[t].ok /\ tool[t].cleaning
    <3>1. Becomes(t, NewTool("swept", tool[t].runs))
      BY <1>7, <2>3 DEF Leave
    <3>2. bridge.node # t
      BY <1>3, <2>1, <2>3
    <3> QED
      BY <1>5, <3>1, <3>2
  <2>4. CASE tool[t].ok /\ ~tool[t].cleaning
    <3>1. Becomes(t, NewTool("success", tool[t].runs))
      BY <1>7, <2>4 DEF Leave
    <3>2. container'.node = NoTool
      BY <1>3, <1>4, <2>1, <2>4 DEF Down
    <3> QED
      BY <1>3, <1>5, <2>1, <2>4, <3>1, <3>2
  <2> QED
    BY <2>2, <2>3, <2>4
<1> QED
  BY <1>6, <1>7

\* A process starts with the lease, whatever was left.
LEMMA BeginKeeps ==
  ASSUME LiveInv, NEW t \in Tools, Begin(t)
  PROVE  LiveInv'
<1>1. /\ Own(t, tool[t]) /\ tool[t] \in ToolRecords /\ tool[t].runs + 1 \in Nat
  BY DEF LiveInv, ToolRecords
<1>2. holder = NoTool /\ holder' = t /\ UNCHANGED <<bridge, container>>
  BY DEF Begin
<1> HIDE DEF Own, HostFollows, Admitted, FingersFollow
<1>3. PICK cleaning \in BOOLEAN :
        Becomes(t, [NewTool("nothing", tool[t].runs + 1) EXCEPT !.at = "sweep", !.cleaning = cleaning])
  BY Zenon DEF Begin
<1> DEFINE q == NewTool("nothing", tool[t].runs + 1)
           r == [q EXCEPT !.at = "sweep", !.cleaning = cleaning]
<1>4. /\ q \in ToolRecords /\ q.said = "nothing"
      /\ q.finger = "none" /\ q.keys = {} /\ q.tap = FALSE /\ q.sent = <<>>
  <2>1. AtRest(q, "nothing")
    BY <1>1, NewToolIsOff
  <2> HIDE DEF q
  <2> QED
    BY <2>1 DEF AtRest
<1>5. Becomes(t, r)
  BY <1>3
<1> HIDE DEF q
<1>6. /\ r \in ToolRecords /\ r.at = "sweep" /\ (r.cleaning <=> cleaning)
      /\ r.finger = "none" /\ r.keys = {} /\ r.tap = FALSE /\ r.sent = <<>>
  BY <1>4 DEF ToolRecords, Stages
<1> HIDE DEF r
<1>7. tool'[t] = r
  BY <1>5, BecomesIs
<1>8. <<>> \in Seq(KeyEvents)
  OBVIOUS
<1>9. HostFollows(t, tool[t])'
  BY <1>2, <1>6, <1>7 DEF HostFollows
<1>10. Admitted(t, tool[t])'
  BY <1>2 DEF Admitted
<1>11. FingersFollow(t, r)
  BY <1>6, <1>8 DEF FingersFollow
<1>12. Own(t, tool[t])'
  BY <1>6, <1>7, <1>9, <1>10, <1>11 DEF Own, FingersFollow
<1>13. HostedTyped'
  BY <1>2 DEF LiveInv, HostedTyped
<1> QED
  BY <1>2, <1>5, <1>12, <1>13, StepOfOne

\* waydroid session stop, with no tool at work.
LEMMA UserKeeps ==
  ASSUME LiveInv, UserStopsWaydroid
  PROVE  LiveInv'
<1>1. UNCHANGED <<holder, bridge, tool>> /\ container' = Down /\ holder = NoTool
  BY DEF UserStopsWaydroid
<1>2. ASSUME NEW t \in Tools PROVE Own(t, tool[t])'
  <2>1. Own(t, tool[t]) /\ t # NoTool /\ tool'[t] = tool[t]
    BY <1>1, LiveBounds DEF LiveInv
  <2>2. tool[t].at = "off"
    BY <1>1, <2>1
  <2>3. container'.node = NoTool
    BY <1>1 DEF Down
  <2> QED
    BY <1>1, <2>1, <2>2, <2>3
<1> QED
  BY <1>1, <1>2 DEF LiveInv, HostedTyped, Down

\* Nothing is at work and nothing is left at first.
LEMMA LiveInitHolds == LiveInit => LiveInv
<1> SUFFICES ASSUME LiveInit PROVE LiveInv
  OBVIOUS
<1>1. ASSUME NEW t \in Tools PROVE Own(t, tool[t])
  <2> DEFINE r == NewTool("nothing", 0)
  <2>1. /\ r \in ToolRecords /\ r.at = "off" /\ r.said = "nothing" /\ r.cleaning = FALSE
        /\ r.finger = "none" /\ r.keys = {} /\ r.tap = FALSE /\ r.sent = <<>>
    <3>1. AtRest(r, "nothing")
      BY NewToolIsOff
    <3> HIDE DEF r
    <3> QED
      BY <3>1 DEF AtRest
  <2>2. tool[t] = r
    BY DEF LiveInit
  <2> HIDE DEF r
  <2>3. bridge.node = NoTool /\ container.node = NoTool /\ t # NoTool
    BY LiveBounds DEF LiveInit, NoBridge, Down
  <2>4. <<>> \in Seq(KeyEvents)
    OBVIOUS
  <2> QED
    BY <2>1, <2>2, <2>3, <2>4
<1>2. DOMAIN tool = Tools
  BY DEF LiveInit
<1>3. HostedTyped
  BY DEF LiveInit, HostedTyped, NoBridge, Down
<1> QED
  BY <1>1, <1>2, <1>3 DEF LiveInv

\* Every step keeps the invariant.
LEMMA LiveStepKeeps == LiveInv /\ [LiveNext]_liveVars => LiveInv'
<1> SUFFICES ASSUME LiveInv, [LiveNext]_liveVars PROVE LiveInv'
  OBVIOUS
<1>1. CASE UNCHANGED liveVars
  BY <1>1 DEF LiveInv, HostedTyped, liveVars
<1>2. ASSUME NEW t \in Tools, ToolStep(t) PROVE LiveInv'
  BY <1>2, InstallKeeps, SessionKeeps, HandlersKeep, LoopEndKeeps, AroundLoopKeeps, SessionEndKeeps,
     Zenon DEF ToolStep
<1>3. ASSUME NEW t \in Tools,
             \/ Begin(t) \/ ToolStep(t) \/ Interrupt(t) \/ Kill(t)
             \/ ReadKey(t) \/ ReadMouse(t) \/ ReadFails(t) \/ ReaderLeftAlone(t)
      PROVE  LiveInv'
  BY <1>2, <1>3, BeginKeeps, SessionEndKeeps, ReadersKeep, Zenon
<1>4. CASE UserStopsWaydroid
  BY <1>4, UserKeeps
<1> QED
  BY <1>1, <1>3, <1>4, Zenon DEF LiveNext

\* The invariant has what the property asks.
LEMMA LiveInvIsEnough == LiveInv => LiveSessionsAreWhole
<1> SUFFICES ASSUME LiveInv, NEW t \in Tools
             PROVE  LeftoversAreAdmitted(t) /\ PlaysItsOwnDevice(t) /\ FingersAreLifted(t)
  BY DEF LiveSessionsAreWhole
<1>1. Own(t, tool[t])
  BY DEF LiveInv
<1>2. LeftoversAreAdmitted(t)
  BY <1>1 DEF LeftoversAreAdmitted
<1>3. PlaysItsOwnDevice(t)
  BY <1>1 DEF PlaysItsOwnDevice, IsAt
<1>4. FingersAreLifted(t)
  BY <1>1 DEF FingersAreLifted, IsAt
<1> QED
  BY <1>2, <1>3, <1>4

HIDE DEF Own, HostFollows, Admitted, FingersFollow

\* However a live session ends, by Esc, Ctrl+C, a refused frame, a reader that fails, a
\* boot that does not come, a cleanup that fails or a kill, what is left in the bridge
\* files and the container is admitted, a tool plays on its own device, and its fingers
\* are lifted unless the frame that lifts them was refused.
THEOREM LiveSessionsStayWhole == LiveSpec => []LiveSessionsAreWhole
<1>1. LiveInit => LiveInv
  BY LiveInitHolds
<1>2. LiveInv /\ [LiveNext]_liveVars => LiveInv'
  BY LiveStepKeeps
<1>3. LiveInv => LiveSessionsAreWhole
  BY LiveInvIsEnough
<1> QED
  BY <1>1, <1>2, <1>3, PTL DEF LiveSpec

-----------------------------------------------------------------------------
(***************************************************************************)
(* HubPage: the page offers what the Hub would do, and keeps the chosen    *)
(* resolution, for every host and game and any number of choices.          *)
(***************************************************************************)

Loadings ==
  {l \in [at : {"idle", "asked", "answered"}, world : Worlds \cup {NoReport}, preset : Presets] :
     l.at = "answered" => l.world \in Worlds}

PageTyped ==
  /\ world \in Worlds /\ game \in Games /\ seen \in Worlds \cup {NoReport}
  /\ saved \in Presets /\ preset \in Presets /\ choice \in Presets
  /\ writes \in Seq(Presets) /\ overtaken \in BOOLEAN /\ loading \in Loadings

\* What is saved in the end is the choice.
ChoiceIsLast ==
  /\ writes = <<>> => saved = choice
  /\ writes # <<>> => writes[Len(writes)] = choice

\* A state that nobody has overtaken was asked for, and will be answered, with the choice.
LoadsTheChoice ==
  ~overtaken =>
    /\ preset = choice
    /\ loading.at # "idle" => writes = <<>>
    /\ loading.at = "answered" => loading.preset = choice

PageInv == PageTyped /\ ChoiceIsLast /\ LoadsTheChoice

-----------------------------------------------------------------------------

\* A step that leaves the resolution and the request of the state alone.
LEMMA HostStepKeeps ==
  ASSUME PageInv, world' \in Worlds, UNCHANGED <<saved, game, seen, loading, resolutionVars>>
  PROVE  PageInv'
BY DEF PageInv, PageTyped, ChoiceIsLast, LoadsTheChoice, resolutionVars

\* Actions and changes of the host keep it one of the known kind.
LEMMA WorldKeeps ==
  ASSUME PageInv,
         Click \/ ServeLaunch \/ ServeStop \/ ServeDesktop \/ ServeHelper \/ ActionReturns
           \/ SessionGoesOn \/ HelperInstallEnds \/ HostChanges
  PROVE  PageInv'
<1>0. world \in Worlds
  BY DEF PageInv, PageTyped
<1>1. CASE Click \/ ServeStop \/ ActionReturns
  BY <1>0, <1>1, HostStepKeeps DEF Click, ServeStop, ActionReturns, hostVars
<1>2. CASE ServeLaunch
  <2>1. world' \in Worlds
    BY <1>0, <1>2 DEF ServeLaunch, Worlds
  <2> QED
    BY <1>2, <2>1, HostStepKeeps DEF ServeLaunch
<1>3. CASE ServeDesktop
  <2>1. world' \in Worlds
    <3>1. CASE UNCHANGED world
      BY <1>0, <3>1
    <3>2. ASSUME NEW list \in {"early", "whole"},
                 world' = [world EXCEPT !.running = TRUE,
                             !.listing = IF world.running /\ @ = "whole" THEN @ ELSE list]
          PROVE  world' \in Worlds
      BY <1>0, <3>2 DEF Worlds
    <3> QED
      BY <1>3, <3>1, <3>2 DEF ServeDesktop
  <2> QED
    BY <1>3, <2>1, HostStepKeeps DEF ServeDesktop
<1>4. CASE ServeHelper
  <2>1. world' \in Worlds
    BY <1>0, <1>4 DEF ServeHelper, Worlds
  <2> QED
    BY <1>4, <2>1, HostStepKeeps DEF ServeHelper
<1>5. CASE SessionGoesOn
  <2>1. world' \in Worlds
    BY <1>0, <1>5 DEF SessionGoesOn, Worlds
  <2> QED
    BY <1>5, <2>1, HostStepKeeps DEF SessionGoesOn, HostKept
<1>6. CASE HelperInstallEnds
  <2>1. world' \in Worlds
    BY <1>0, <1>6 DEF HelperInstallEnds, Worlds
  <2> QED
    BY <1>6, <2>1, HostStepKeeps DEF HelperInstallEnds, HostKept
<1>7. CASE HostChanges
  <2>1. world' \in Worlds
    <3>1. CASE world' = [world EXCEPT !.running = ~@, !.listing = "none"]
      BY <1>0, <3>1 DEF Worlds
    <3>2. ASSUME NEW list \in {"early", "whole"}, world' = [world EXCEPT !.listing = list]
          PROVE  world' \in Worlds
      BY <1>0, <3>2 DEF Worlds
    <3>3. CASE world' = [world EXCEPT !.keyboard = ~@]
      BY <1>0, <3>3 DEF Worlds
    <3>4. CASE world' = [world EXCEPT !.session = "asked"]
      BY <1>0, <3>4 DEF Worlds
    <3> QED
      BY <1>7, <3>1, <3>2, <3>3, <3>4 DEF HostChanges
  <2> QED
    BY <1>7, <2>1, HostStepKeeps DEF HostChanges, HostKept
<1> QED
  BY <1>1, <1>2, <1>3, <1>4, <1>5, <1>6, <1>7

\* The state of the Hub is asked for, built, shown, or does not come.
LEMMA LoadKeeps ==
  ASSUME PageInv, LoadStarts \/ StateIsBuilt \/ StateArrives \/ StateFails
  PROVE  PageInv'
<1>0. PageTyped /\ loading \in Loadings /\ NotLoading \in Loadings /\ NotLoading.at = "idle"
  BY PageBounds DEF PageInv, PageTyped, NotLoading, Loadings
<1>1. CASE LoadStarts
  <2>1. loading' \in Loadings /\ loading'.at = "asked"
    BY <1>1, PageBounds DEF LoadStarts, NotLoading, Loadings
  <2>2. PageTyped'
    BY <1>0, <1>1, <2>1 DEF LoadStarts, PageTyped, hostVars
  <2> QED
    BY <1>0, <1>1, <2>1, <2>2
       DEF LoadStarts, PageInv, PageTyped, ChoiceIsLast, LoadsTheChoice, hostVars
<1>2. CASE StateIsBuilt
  <2>1. loading' \in Loadings /\ loading'.at = "answered" /\ loading'.preset = saved
    BY <1>0, <1>2 DEF StateIsBuilt, PageTyped, Loadings
  <2>2. PageTyped'
    BY <1>0, <1>2, <2>1 DEF StateIsBuilt, PageTyped, hostVars, resolutionVars
  <2> QED
    BY <1>0, <1>2, <2>1, <2>2
       DEF StateIsBuilt, PageInv, PageTyped, ChoiceIsLast, LoadsTheChoice, hostVars, resolutionVars
<1>3. CASE StateArrives
  <2>1. loading.world \in Worlds /\ loading.preset \in Presets
    BY <1>0, <1>3 DEF StateArrives, Loadings
  <2>2. PageTyped'
    BY <1>0, <1>3, <2>1 DEF StateArrives, PageTyped, hostVars
  <2> QED
    BY <1>0, <1>3, <2>2
       DEF StateArrives, PageInv, PageTyped, ChoiceIsLast, LoadsTheChoice, hostVars
<1>4. CASE StateFails
  <2>2. PageTyped'
    BY <1>0, <1>4 DEF StateFails, PageTyped, hostVars, resolutionVars
  <2> QED
    BY <1>0, <1>4, <2>2
       DEF StateFails, PageInv, PageTyped, ChoiceIsLast, LoadsTheChoice, hostVars, resolutionVars
<1> QED
  BY <1>1, <1>2, <1>3, <1>4

\* A choice is the last write, and whatever is being loaded is older.
LEMMA ChoosePresetKeeps ==
  ASSUME PageInv, NEW p \in Presets, ChoosePreset(p)
  PROVE  PageInv'
<1>0. writes \in Seq(Presets)
  BY DEF PageInv, PageTyped
<1>1. writes' \in Seq(Presets) /\ writes' # <<>> /\ writes'[Len(writes')] = p
  <2>1. Len(Append(writes, p)) = Len(writes) + 1 /\ Append(writes, p)[Len(writes) + 1] = p
    BY <1>0
  <2>2. Append(writes, p) # <<>>
    BY <1>0, <2>1
  <2> QED
    BY <1>0, <2>1, <2>2 DEF ChoosePreset
<1>2. PageTyped'
  BY <1>1 DEF ChoosePreset, PageInv, PageTyped, hostVars
<1> QED
  BY <1>1, <1>2 DEF ChoosePreset, PageInv, PageTyped, ChoiceIsLast, LoadsTheChoice, hostVars

\* A write is done; the last one writes the choice.
LEMMA PresetIsSavedKeeps ==
  ASSUME PageInv, PresetIsSaved
  PROVE  PageInv'
<1>0. writes \in Seq(Presets) /\ writes # <<>> /\ writes[Len(writes)] = choice
  BY DEF PageInv, PageTyped, PresetIsSaved, ChoiceIsLast
<1>1. Head(writes) \in Presets /\ Tail(writes) \in Seq(Presets)
        /\ Len(Tail(writes)) = Len(writes) - 1 /\ Head(writes) = writes[1]
        /\ Len(writes) \in Nat \ {0}
  BY <1>0
<1>2. CASE Len(writes) = 1
  <2>1. Len(Tail(writes)) = 0 /\ Head(writes) = choice
    BY <1>0, <1>1, <1>2
  <2>2. Tail(writes) = <<>>
    <3>1. PICK rest \in Seq(Presets) : rest = Tail(writes)
      BY <1>1
    <3>2. Len(rest) = 0
      BY <2>1, <3>1
    <3>3. rest = <<>>
      BY <3>2
    <3> QED
      BY <3>1, <3>3
  <2>3. PageTyped'
    BY <1>1 DEF PresetIsSaved, PageInv, PageTyped
  <2> QED
    BY <2>1, <2>2, <2>3 DEF PresetIsSaved, PageInv, PageTyped, ChoiceIsLast, LoadsTheChoice
<1>3. CASE Len(writes) # 1
  <2>1. PICK n \in Nat \ {0} : Len(writes) = n + 1
    <3>1. Len(writes) - 1 \in Nat \ {0} /\ Len(writes) = (Len(writes) - 1) + 1
      BY <1>1, <1>3
    <3> QED
      BY <3>1
  <2>2. Len(Tail(writes)) = n /\ Tail(writes)[n] = writes[n + 1]
    BY <1>0, <1>1, <2>1
  <2>3. Tail(writes) # <<>>
    BY <2>1, <2>2
  <2>4. Tail(writes)[Len(Tail(writes))] = choice
    BY <1>0, <2>1, <2>2
  <2>5. PageTyped'
    BY <1>1 DEF PresetIsSaved, PageInv, PageTyped
  <2> QED
    BY <1>0, <2>3, <2>4, <2>5 DEF PresetIsSaved, PageInv, PageTyped, ChoiceIsLast, LoadsTheChoice
<1> QED
  BY <1>2, <1>3

-----------------------------------------------------------------------------

\* Whether the root is seen does not depend on the package list that is looked at.
LEMMA RootIsTheOverlay ==
  ASSUME NEW w \in Worlds, NEW list
  PROVE  /\ (\E f \in CompatibilityFindings(w, list) : f.code = "android-root-detected")
              <=> w.overlay = "present"
         /\ RootAccess(w, list) = "detected" <=> w.overlay = "present"
<1>1. RootAccess(w, list) = "detected" <=> w.overlay = "present"
  BY DEF RootAccess
<1>2. w.overlay = "present" =>
        Finding("action", "android-root-detected") \in CompatibilityFindings(w, list)
  BY <1>1 DEF CompatibilityFindings, When
<1>3. ASSUME NEW f \in CompatibilityFindings(w, list), f.code = "android-root-detected"
      PROVE  w.overlay = "present"
  BY <1>1, <1>3 DEF CompatibilityFindings, When, Finding
<1> QED
  BY <1>1, <1>2, <1>3 DEF Finding

\* A page that has seen the host as it is offers what the Hub would do.
LEMMA ButtonIsRight ==
  ASSUME PageInv PROVE ButtonMatchesPreflight
<1> SUFFICES ASSUME Known, seen = world
             PROVE  ButtonMatchesPreflight
  BY DEF ButtonMatchesPreflight
<1>1. PICK w \in Worlds : w = world /\ w = seen
  BY DEF PageInv, PageTyped
<1>2. RootSeen <=> w.overlay = "present"
  BY <1>1, RootIsTheOverlay DEF RootSeen
<1>3. SeenList = ListNow(w)
  BY <1>1 DEF SeenList
<1>4. Installed(w, ListNow(w)) \in {"yes", "no", "unknown"}
  BY DEF Installed, Optional
<1>5. ASSUME Button = "launch"
      PROVE  /\ ~Owned(w) /\ GraphicsReady(w) /\ Installed(w, ListNow(w)) # "no"
             /\ Installed(w, ListNow(w)) = "yes" => ~RootSeen /\ w.helper = "ready"
  <2>1. ~Owned(w) /\ PrimaryAction = "launch" /\ Blockers(GraphicsFindings(w)) = {}
    BY <1>1, <1>5 DEF Button
  <2>2. Installed(w, ListNow(w)) # "no" /\ ~(Installed(w, ListNow(w)) = "yes" /\ RootSeen)
          /\ ~(Installed(w, ListNow(w)) = "yes" /\ w.helper # "ready")
    BY <1>1, <1>3, <2>1 DEF PrimaryAction
  <2> QED
    BY <2>1, <2>2 DEF GraphicsReady
<1>6. GameReady(w, game) \/ Installed(w, ListNow(w)) = "no" \/ w.overlay = "present"
  <2>1. Installed(w, ListNow(w)) # "no" => Installed(w, ReadyList(w)) # "no"
    BY DEF Installed, Optional, ReadyList
  <2> QED
    BY <2>1, RootIsTheOverlay DEF GameReady
<1>7. Button = "launch" =>
        LaunchPasses(w, game, w.keyboard) \/ w.session = "asked"
          \/ (Installed(w, ListNow(w)) = "unknown" /\ (w.helper # "ready" \/ RootSeen))
  <2>1. ~Owned(w) => w.session \in {"none", "asked"}
    BY DEF Owned, Worlds
  <2> QED
    BY <1>2, <1>4, <1>5, <1>6, <2>1 DEF LaunchPasses
<1>8. Button = "blocked" => ~LaunchPasses(w, game, w.keyboard) \/ (RootSeen /\ ~game.family)
  <2>1. Button = "blocked" => ~Owned(w) /\ (PrimaryAction = "root" \/ ~GraphicsReady(w) \/ PrimaryAction = "blocked")
    BY <1>1 DEF Button, GraphicsReady
  <2>2. PrimaryAction = "root" => RootSeen
    BY DEF PrimaryAction
  <2>3. PrimaryAction # "blocked"
    BY DEF PrimaryAction
  <2>4. RootSeen /\ game.family => ~GameReady(w, game)
    BY <1>2, RootIsTheOverlay DEF GameReady
  <2> QED
    BY <2>1, <2>2, <2>3, <2>4 DEF LaunchPasses, PageInv, PageTyped, Games
<1>9. Button = "store" => Installed(w, ListNow(w)) = "no"
  BY <1>1, <1>3 DEF Button, PrimaryAction
<1> QED
  BY <1>1, <1>3, <1>7, <1>8, <1>9 DEF ButtonMatchesPreflight

\* On every host the primary button of a page that is up to date matches the preflight, and
\* the resolution chosen last is the one that is saved and shown, however loads, choices
\* and writes overlap (primaryActionFor, renderHero, loadStateNow, savePreferences).
THEOREM PageAlwaysTellsTheTruth == PageSpec => []PageTellsTheTruth
<1>1. PageInit => PageInv
  <2> SUFFICES ASSUME PageInit PROVE PageInv
    OBVIOUS
  <2>1. world \in Worlds /\ game \in Games
    BY HostsAreWorlds DEF PageInit
  <2>2. NotLoading \in Loadings /\ NotLoading.at = "idle" /\ <<>> \in Seq(Presets)
    BY PageBounds DEF NotLoading, Loadings
  <2> QED
    BY <2>1, <2>2, PageBounds DEF PageInit, PageInv, PageTyped, ChoiceIsLast, LoadsTheChoice
<1>2. PageInv /\ [PageNext]_pageVars => PageInv'
  <2> SUFFICES ASSUME PageInv, [PageNext]_pageVars PROVE PageInv'
    OBVIOUS
  <2>1. CASE UNCHANGED pageVars
    BY <2>1 DEF pageVars, hostVars, resolutionVars, PageInv, PageTyped, ChoiceIsLast, LoadsTheChoice
  <2>2. CASE PageNext
    BY <2>2, WorldKeeps, LoadKeeps, ChoosePresetKeeps, PresetIsSavedKeeps DEF PageNext
  <2> QED
    BY <2>1, <2>2
<1>3. PageInv => PageTellsTheTruth
  BY ButtonIsRight DEF PageInv, ChoiceIsLast, LoadsTheChoice, PageTellsTheTruth, ChosenPresetIsUsed
<1> QED
  BY <1>1, <1>2, <1>3, PTL DEF PageSpec

-----------------------------------------------------------------------------
(***************************************************************************)
(* GpuSetup: a setup that nothing disturbs and that has no mishap is a     *)
(* transaction, for any machines, terminals and other users of Waydroid.   *)
(***************************************************************************)

EarlySetup == {"none", "open", "stop", "sudo", "check"}
LateSetup == {"copy", "copying", "write", "upgrade", "undo", "again", "restore", "verify"}
OverSetup == {"done", "failed", "killed"}

\* A terminal's record; it has read waydroid.cfg only after the check.
SetupTyped(r) ==
  /\ r = [at |-> r.at, device |-> r.device, restore |-> r.restore, original |-> r.original,
          good |-> r.good]
  /\ r.at \in EarlySetup \cup LateSetup \cup OverSetup
  /\ r.restore \in BOOLEAN /\ r.good \in BOOLEAN
  /\ r.at \in EarlySetup => r.original = NoNode

\* What a setup that is not disturbed knows of the configurations.
StageFacts(r, c, g, d) ==
  /\ r.at \in {"copy", "copying", "write", "again"} => c = r.original
  /\ r.at \in {"upgrade", "undo"} => c = r.device
  /\ r.at = "restore" => IF r.good THEN c = r.device /\ g = r.device
                                   ELSE r.original # NoNode => c = r.original
  /\ r.at = "verify" => c = r.device /\ g = r.device /\ d

\* The backup is made before the first change.
BackupAt(at, b, c) ==
  /\ b = NoNode \/ at = "copying" => c = Automatic
  /\ at = "copy" => b = NoNode
  /\ at \in {"write", "upgrade", "undo", "again"} => b = Automatic
  /\ at # "copying" => b \in {NoNode, Automatic}

GpuTyped ==
  /\ setup = [s \in Setups |-> setup[s]] /\ \A s \in Setups : SetupTyped(setup[s])
  /\ desktop \in BOOLEAN /\ disturbed \subseteq Setups /\ spoiled \subseteq Setups

\* Two setups at once disturb each other.
DisturbOneAnother == \A s, o \in Setups : s # o /\ Active(s) /\ Active(o) => s \in disturbed

StagesHold ==
  \A s \in Setups : Active(s) /\ s \notin disturbed \cup spoiled =>
    StageFacts(setup[s], config, generated, desktop)

BackupHolds ==
  disturbed \cup spoiled = {} =>
    /\ \A s \in Setups : Active(s) => BackupAt(setup[s].at, backup, config)
    /\ (\A s \in Setups : ~Active(s)) => BackupAt("none", backup, config)

GpuInv == GpuTyped /\ DisturbOneAnother /\ StagesHold /\ BackupHolds

-----------------------------------------------------------------------------

\* A step of an active setup is judged by that setup alone.
LEMMA SetupSteps ==
  ASSUME GpuInv, NEW s \in Setups, Active(s), NEW r, SetupTyped(r), r.at \notin {"none", "open"},
         setup' = [setup EXCEPT ![s] = r], desktop' \in BOOLEAN,
         UNCHANGED disturbed, spoiled' \in {spoiled, spoiled \cup {s}},
         s \notin disturbed \cup spoiled' => StageFacts(r, config', generated', desktop'),
         disturbed \cup spoiled' = {} => BackupAt(r.at, backup', config')
  PROVE  GpuInv'
<1>0. /\ GpuTyped /\ DisturbOneAnother /\ StagesHold /\ BackupHolds
      /\ \A o \in Setups : SetupTyped(setup[o])
  BY DEF GpuInv, GpuTyped
<1>1. setup'[s] = r /\ \A o \in Setups \ {s} : setup'[o] = setup[o]
  BY <1>0 DEF GpuTyped
<1>2. GpuTyped'
  <2>1. setup' = [o \in Setups |-> setup'[o]]
    BY <1>0 DEF GpuTyped
  <2>2. \A o \in Setups : SetupTyped(setup'[o])
    BY <1>0, <1>1
  <2>3. spoiled' \subseteq Setups
    BY <1>0 DEF GpuTyped
  <2> QED
    BY <1>0, <2>1, <2>2, <2>3 DEF GpuTyped
<1>3. \A o \in Setups \ {s} : Active(o)' <=> Active(o)
  BY <1>1 DEF Active, Before, Over
<1>4. \A o \in Setups \ {s} : Active(o) => s \in disturbed /\ o \in disturbed
  BY <1>0 DEF DisturbOneAnother
<1>5. DisturbOneAnother'
  BY <1>0, <1>3, <1>4 DEF DisturbOneAnother
<1>6. StagesHold'
  BY <1>1, <1>3, <1>4 DEF StagesHold
<1>7. BackupHolds'
  <2> SUFFICES ASSUME disturbed \cup spoiled' = {}
               PROVE  /\ \A o \in Setups : Active(o)' => BackupAt(setup'[o].at, backup', config')
                      /\ (\A o \in Setups : ~Active(o)') => BackupAt("none", backup', config')
    BY DEF BackupHolds
  <2>1. BackupAt(r.at, backup', config')
    OBVIOUS
  <2>2. \A o \in Setups : Active(o)' => o = s
    BY <1>3, <1>4
  <2>3. (\A o \in Setups : ~Active(o)') => r.at # "copying"
    BY <1>1 DEF Active, Before, Over
  <2> QED
    BY <1>1, <2>1, <2>2, <2>3 DEF BackupAt
<1> QED
  BY <1>2, <1>5, <1>6, <1>7 DEF GpuInv

\* ... and so is its end.
LEMMA OthersDoNotEnd ==
  ASSUME GpuInv, NEW s \in Setups, NEW r, setup' = [setup EXCEPT ![s] = r],
         r.at \notin OverSetup \/ s \in disturbed' \cup spoiled' \/ EndsAsPromised(s)
  PROVE  \A o \in Setups : EndsAsPromised(o)
<1>1. setup'[s] = r /\ \A o \in Setups \ {s} : setup'[o] = setup[o]
  BY DEF GpuInv, GpuTyped
<1>2. \A o \in Setups \ {s} : Over(o)' <=> Over(o)
  BY <1>1 DEF Over
<1>3. r.at \notin OverSetup => ~Over(s)'
  BY <1>1 DEF Over, OverSetup
<1> QED
  BY <1>2, <1>3 DEF EndsAsPromised

\* What Go makes of a record.
LEMMA Gone ==
  ASSUME NEW t, SetupTyped(t), NEW at \in LateSetup \cup OverSetup, NEW r, r = [t EXCEPT !.at = at]
  PROVE  /\ SetupTyped(r) /\ r.at = at /\ r.device = t.device /\ r.original = t.original
         /\ r.good = t.good /\ r.restore = t.restore
<1>1. PICK a, d, p, q, g :
        t = [at |-> a, device |-> d, restore |-> p, original |-> q, good |-> g]
  BY DEF SetupTyped
<1>2. r = [at |-> at, device |-> d, restore |-> p, original |-> q, good |-> g]
  BY <1>1
<1>3. p \in BOOLEAN /\ g \in BOOLEAN /\ at \notin EarlySetup
  BY <1>1 DEF SetupTyped, EarlySetup, LateSetup, OverSetup
<1> QED
  BY <1>1, <1>2, <1>3 DEF SetupTyped

\* What Ends makes of a record, with success.
LEMMA EndedWell ==
  ASSUME NEW t, SetupTyped(t), NEW r,
         r = [t EXCEPT !.at = "restore", !.good = TRUE]
  PROVE  /\ SetupTyped(r) /\ r.at = "restore" /\ r.device = t.device /\ r.original = t.original
         /\ r.good = TRUE /\ r.restore = t.restore
<1>1. PICK r1 : r1 = [t EXCEPT !.at = "restore"]
  OBVIOUS
<1>2. /\ SetupTyped(r1) /\ r1.at = "restore" /\ r1.device = t.device /\ r1.original = t.original
      /\ r1.restore = t.restore
  BY <1>1, Gone DEF LateSetup
<1>3. PICK d, p, q, g :
        r1 = [at |-> "restore", device |-> d, restore |-> p, original |-> q, good |-> g]
  BY <1>2 DEF SetupTyped
<1>4. r = [at |-> "restore", device |-> d, restore |-> p, original |-> q, good |-> TRUE]
  <2>1. r = [r1 EXCEPT !.good = TRUE]
    BY <1>1
  <2> QED
    BY <1>3, <2>1
<1> QED
  BY <1>2, <1>3, <1>4 DEF SetupTyped

\* ... without.
LEMMA EndedBadly ==
  ASSUME NEW t, SetupTyped(t), NEW r,
         r = [t EXCEPT !.at = "restore", !.good = FALSE]
  PROVE  /\ SetupTyped(r) /\ r.at = "restore" /\ r.device = t.device /\ r.original = t.original
         /\ r.good = FALSE /\ r.restore = t.restore
<1>1. PICK r1 : r1 = [t EXCEPT !.at = "restore"]
  OBVIOUS
<1>2. /\ SetupTyped(r1) /\ r1.at = "restore" /\ r1.device = t.device /\ r1.original = t.original
      /\ r1.restore = t.restore
  BY <1>1, Gone DEF LateSetup
<1>3. PICK d, p, q, g :
        r1 = [at |-> "restore", device |-> d, restore |-> p, original |-> q, good |-> g]
  BY <1>2 DEF SetupTyped
<1>4. r = [at |-> "restore", device |-> d, restore |-> p, original |-> q, good |-> FALSE]
  <2>1. r = [r1 EXCEPT !.good = FALSE]
    BY <1>1
  <2> QED
    BY <1>3, <2>1
<1> QED
  BY <1>2, <1>3, <1>4 DEF SetupTyped

\* An active setup knows what its stage says, if nothing disturbs it.
LEMMA StageOf ==
  ASSUME GpuInv, NEW s \in Setups, NEW at, setup[s].at = at, at \notin {"none", "open"} \cup OverSetup
  PROVE  /\ Active(s) /\ ~Over(s) /\ SetupTyped(setup[s])
         /\ s \notin disturbed \cup spoiled => StageFacts(setup[s], config, generated, desktop)
         /\ disturbed \cup spoiled = {} => BackupAt(at, backup, config)
         /\ desktop \in BOOLEAN /\ disturbed \subseteq Setups /\ spoiled \subseteq Setups
<1>1. Active(s) /\ ~Over(s)
  BY DEF Active, Before, Over, OverSetup
<1> QED
  BY <1>1 DEF GpuInv, GpuTyped, StagesHold, BackupHolds

\* The steps before the check change no file.
LEMMA EarlyStepsKeep ==
  ASSUME GpuInv, NEW s \in Setups, StopDesktop(s) \/ Authorize(s)
  PROVE  GpuInv' /\ \A o \in Setups : EndsAsPromised(o)
<1>1. setup[s].at \in {"stop", "sudo"}
  BY DEF StopDesktop, Authorize
<1>2. /\ Active(s) /\ ~Over(s) /\ SetupTyped(setup[s])
      /\ disturbed \cup spoiled = {} => BackupAt(setup[s].at, backup, config)
      /\ desktop \in BOOLEAN /\ disturbed \subseteq Setups /\ spoiled \subseteq Setups
      /\ setup[s].original = NoNode
  <2>1. setup[s].at \in EarlySetup /\ setup[s].at \notin {"none", "open"} \cup OverSetup
    BY <1>1 DEF EarlySetup, OverSetup
  <2> QED
    BY <2>1, StageOf DEF SetupTyped
<1>3. ASSUME NEW at \in {"sudo", "check"}, Go(s, at), desktop' \in BOOLEAN, FilesKept,
             NoMishap, UNCHANGED disturbed
      PROVE  GpuInv' /\ \A o \in Setups : EndsAsPromised(o)
  <2>1. PICK r : r = [setup[s] EXCEPT !.at = at]
    OBVIOUS
  <2>2. SetupTyped(r) /\ r.at = at
    <3>1. PICK d, p, q, g :
            setup[s] = [at |-> setup[s].at, device |-> d, restore |-> p, original |-> q, good |-> g]
      BY <1>2 DEF SetupTyped
    <3>2. r = [at |-> at, device |-> d, restore |-> p, original |-> q, good |-> g]
      BY <2>1, <3>1
    <3>3. p \in BOOLEAN /\ g \in BOOLEAN /\ q = NoNode
      BY <1>2, <3>1 DEF SetupTyped
    <3>4. at \in EarlySetup
      BY DEF EarlySetup
    <3> QED
      BY <3>2, <3>3, <3>4 DEF SetupTyped
  <2>3. setup' = [setup EXCEPT ![s] = r]
    BY <1>3, <2>1 DEF Go
  <2>4. StageFacts(r, config', generated', desktop')
    BY <2>2 DEF StageFacts
  <2>5. disturbed \cup spoiled' = {} => BackupAt(r.at, backup', config')
    BY <1>1, <1>2, <1>3, <2>2 DEF BackupAt, FilesKept, NoMishap
  <2>6. r.at \notin OverSetup
    BY <2>2 DEF OverSetup
  <2> QED
    BY <1>2, <1>3, <2>2, <2>3, <2>4, <2>5, <2>6, SetupSteps, OthersDoNotEnd DEF NoMishap
<1>4. ASSUME NEW r, SetupTyped(r), setup' = [setup EXCEPT ![s] = r], desktop' = desktop,
             FilesKept, UNCHANGED disturbed, spoiled' \in {spoiled, spoiled \cup {s}},
             \/ r.at = "failed" /\ s \in spoiled'
             \/ r.at = "restore" /\ r.good = FALSE /\ r.original = NoNode
      PROVE  GpuInv' /\ \A o \in Setups : EndsAsPromised(o)
  <2>1. r.at \notin {"none", "open"} /\ (r.at \notin OverSetup \/ s \in disturbed' \cup spoiled')
    BY <1>4 DEF OverSetup
  <2>2. s \notin disturbed \cup spoiled' => StageFacts(r, config', generated', desktop')
    BY <1>4 DEF StageFacts
  <2>3. disturbed \cup spoiled' = {} => BackupAt(r.at, backup', config')
    BY <1>1, <1>2, <1>4 DEF BackupAt, FilesKept
  <2> QED
    BY <1>2, <1>4, <2>1, <2>2, <2>3, SetupSteps, OthersDoNotEnd
<1>5. CASE StopDesktop(s)
  <2>1. CASE Go(s, "sudo") /\ desktop' = FALSE /\ NoMishap
    BY <1>3, <1>5, <2>1 DEF StopDesktop
  <2>2. CASE Go(s, "failed") /\ Mishap(s) /\ UNCHANGED desktop
    <3>1. PICK r : r = [setup[s] EXCEPT !.at = "failed"]
      OBVIOUS
    <3>2. SetupTyped(r) /\ r.at = "failed"
      BY <1>2, <3>1, Gone DEF OverSetup
    <3> QED
      BY <1>4, <1>5, <2>2, <3>1, <3>2 DEF StopDesktop, Go, Mishap
  <2> QED
    BY <1>5, <2>1, <2>2 DEF StopDesktop
<1>6. CASE Authorize(s)
  <2>1. CASE Go(s, "check")
    BY <1>2, <1>3, <1>6, <2>1 DEF Authorize
  <2>2. CASE Ends(s, FALSE)
    <3>1. PICK r : r = [setup[s] EXCEPT !.at = "restore", !.good = FALSE]
      OBVIOUS
    <3>2. SetupTyped(r) /\ r.at = "restore" /\ r.good = FALSE /\ r.original = NoNode
      BY <1>2, <3>1, EndedBadly
    <3>3. setup' = [setup EXCEPT ![s] = r]
      BY <2>2, <3>1 DEF Ends
    <3> QED
      BY <1>4, <1>6, <3>2, <3>3 DEF Authorize, NoMishap
  <2> QED
    BY <1>6, <2>1, <2>2 DEF Authorize
<1> QED
  BY <1>5, <1>6

\* A step that ends with Go, or with Ends, keeps the invariant if what it leaves fits the
\* stage it goes to.
LEMMA StageKeeps ==
  ASSUME GpuInv, NEW s \in Setups, NEW at, setup[s].at = at,
         at \notin {"none", "open"} \cup OverSetup, NEW r, SetupTyped(r),
         r.at \in LateSetup, r.device = setup[s].device,
         setup' = [setup EXCEPT ![s] = r], desktop' \in BOOLEAN, UNCHANGED disturbed,
         spoiled' \in {spoiled, spoiled \cup {s}},
         s \notin disturbed \cup spoiled' => StageFacts(r, config', generated', desktop'),
         disturbed \cup spoiled' = {} => BackupAt(r.at, backup', config')
  PROVE  GpuInv' /\ \A o \in Setups : EndsAsPromised(o)
<1>1. r.at \notin {"none", "open"} \cup OverSetup
  BY DEF LateSetup, OverSetup
<1> QED
  BY <1>1, StageOf, SetupSteps, OthersDoNotEnd

\* The check refuses, or reads what it will change.
LEMMA SetupCheckKeeps ==
  ASSUME GpuInv, NEW s \in Setups, CheckStopped(s)
  PROVE  GpuInv' /\ \A o \in Setups : EndsAsPromised(o)
<1>1. /\ setup[s].at = "check" /\ SetupTyped(setup[s]) /\ setup[s].original = NoNode
      /\ disturbed \cup spoiled = {} => BackupAt("check", backup, config)
      /\ desktop \in BOOLEAN
  <2>1. setup[s].at = "check" /\ "check" \notin {"none", "open"} \cup OverSetup
    BY DEF CheckStopped, OverSetup
  <2> QED
    BY <2>1, StageOf DEF SetupTyped, EarlySetup
<1>2. CASE Ends(s, FALSE)
  <2>1. PICK r : r = [setup[s] EXCEPT !.at = "restore", !.good = FALSE]
    OBVIOUS
  <2>2. SetupTyped(r) /\ r.at = "restore" /\ r.good = FALSE /\ r.original = NoNode
          /\ r.device = setup[s].device
    BY <1>1, <2>1, EndedBadly
  <2>3. setup' = [setup EXCEPT ![s] = r]
    BY <1>2, <2>1 DEF Ends
  <2>4. StageFacts(r, config', generated', desktop')
    BY <2>2 DEF StageFacts
  <2>5. disturbed \cup spoiled = {} => BackupAt(r.at, backup, config)
    BY <1>1, <2>2 DEF BackupAt
  <2> QED
    BY <1>1, <2>2, <2>3, <2>4, <2>5, StageKeeps DEF CheckStopped, FilesKept, NoMishap, OverSetup, LateSetup
<1>3. ASSUME NEW at, at = (IF backup = NoNode THEN "copy" ELSE "write"),
             setup' = [setup EXCEPT ![s].original = config, ![s].at = at]
      PROVE  GpuInv' /\ \A o \in Setups : EndsAsPromised(o)
  <2>1. PICK t : t = setup[s]
    OBVIOUS
  <2>2. PICK r : r = [t EXCEPT !.original = config, !.at = at]
    OBVIOUS
  <2>3. r = [at |-> at, device |-> t.device, restore |-> t.restore, original |-> config, good |-> t.good]
    <3>1. PICK r1 : r1 = [t EXCEPT !.original = config]
      OBVIOUS
    <3>2. r1 = [at |-> t.at, device |-> t.device, restore |-> t.restore, original |-> config, good |-> t.good]
      BY <1>1, <2>1, <3>1 DEF SetupTyped
    <3> QED
      BY <2>2, <3>1, <3>2
  <2>4. SetupTyped(r) /\ r.at = at /\ r.original = config /\ r.device = t.device
    BY <1>1, <1>3, <2>1, <2>3 DEF SetupTyped, EarlySetup, LateSetup
  <2>5. setup' = [setup EXCEPT ![s] = r]
    BY <1>3, <2>1, <2>2
  <2>6. StageFacts(r, config, generated, desktop)
    BY <1>3, <2>4 DEF StageFacts
  <2>7. disturbed \cup spoiled = {} => BackupAt(r.at, backup, config)
    BY <1>1, <1>3, <2>4 DEF BackupAt
  <2> QED
    BY <1>1, <1>3, <2>1, <2>4, <2>5, <2>6, <2>7, StageKeeps
       DEF CheckStopped, FilesKept, NoMishap, OverSetup, LateSetup
<1> QED
  BY <1>2, <1>3 DEF CheckStopped

\* Going on to another stage.
LEMMA GoKeeps ==
  ASSUME GpuInv, NEW s \in Setups, setup[s].at \in LateSetup, NEW at \in LateSetup, Go(s, at),
         desktop' \in BOOLEAN, UNCHANGED disturbed, spoiled' \in {spoiled, spoiled \cup {s}},
         ASSUME NEW r, r.at = at, r.device = setup[s].device, r.original = setup[s].original,
                r.good = setup[s].good, s \notin disturbed \cup spoiled
         PROVE  StageFacts(r, config', generated', desktop'),
         disturbed \cup spoiled = {} => BackupAt(at, backup', config')
  PROVE  GpuInv' /\ \A o \in Setups : EndsAsPromised(o)
<1>1. PICK t : t = setup[s]
  OBVIOUS
<1>2. t.at \notin {"none", "open"} \cup OverSetup /\ SetupTyped(t)
  BY <1>1 DEF LateSetup, OverSetup, GpuInv, GpuTyped
<1>3. PICK r : r = [t EXCEPT !.at = at]
  OBVIOUS
<1>4. /\ SetupTyped(r) /\ r.at = at /\ r.device = t.device /\ r.original = t.original
      /\ r.good = t.good
  BY <1>2, <1>3, Gone
<1>5. setup' = [setup EXCEPT ![s] = r]
  BY <1>1, <1>3 DEF Go
<1>6. s \notin disturbed \cup spoiled' => StageFacts(r, config', generated', desktop')
  BY <1>1, <1>4
<1>7. disturbed \cup spoiled' = {} => BackupAt(r.at, backup', config')
  BY <1>4
<1> QED
  BY <1>1, <1>2, <1>4, <1>5, <1>6, <1>7, StageKeeps

\* The end of the part that needs authorization, with success.
LEMMA EndsWellKeeps ==
  ASSUME GpuInv, NEW s \in Setups, setup[s].at \in LateSetup, Ends(s, TRUE),
         desktop' \in BOOLEAN, UNCHANGED disturbed, spoiled' \in {spoiled, spoiled \cup {s}},
         s \notin disturbed \cup spoiled' =>
           config' = setup[s].device /\ generated' = setup[s].device,
         disturbed \cup spoiled' = {} => BackupAt("restore", backup', config')
  PROVE  GpuInv' /\ \A o \in Setups : EndsAsPromised(o)
<1>1. PICK t : t = setup[s]
  OBVIOUS
<1>2. t.at \notin {"none", "open"} \cup OverSetup /\ SetupTyped(t)
  BY <1>1 DEF LateSetup, OverSetup, GpuInv, GpuTyped
<1>3. PICK r : r = [t EXCEPT !.at = "restore", !.good = TRUE]
  OBVIOUS
<1>4. /\ SetupTyped(r) /\ r.at = "restore" /\ r.device = t.device /\ r.original = t.original
      /\ r.good = TRUE
  BY <1>2, <1>3, EndedWell
<1>5. setup' = [setup EXCEPT ![s] = r]
  BY <1>1, <1>3 DEF Ends
<1>6. s \notin disturbed \cup spoiled' => StageFacts(r, config', generated', desktop')
  BY <1>1, <1>4 DEF StageFacts
<1>7. disturbed \cup spoiled' = {} => BackupAt(r.at, backup', config')
  BY <1>4
<1>8. r.at \in LateSetup
  BY <1>4 DEF LateSetup
<1> QED
  BY <1>1, <1>2, <1>4, <1>5, <1>6, <1>7, <1>8, StageKeeps

\* ... without success.
LEMMA EndsBadlyKeeps ==
  ASSUME GpuInv, NEW s \in Setups, setup[s].at \in LateSetup, Ends(s, FALSE),
         desktop' \in BOOLEAN, UNCHANGED disturbed, spoiled' \in {spoiled, spoiled \cup {s}},
         s \notin disturbed \cup spoiled' =>
           (setup[s].original # NoNode => config' = setup[s].original),
         disturbed \cup spoiled' = {} => BackupAt("restore", backup', config')
  PROVE  GpuInv' /\ \A o \in Setups : EndsAsPromised(o)
<1>1. PICK t : t = setup[s]
  OBVIOUS
<1>2. t.at \notin {"none", "open"} \cup OverSetup /\ SetupTyped(t)
  BY <1>1 DEF LateSetup, OverSetup, GpuInv, GpuTyped
<1>3. PICK r : r = [t EXCEPT !.at = "restore", !.good = FALSE]
  OBVIOUS
<1>4. /\ SetupTyped(r) /\ r.at = "restore" /\ r.device = t.device /\ r.original = t.original
      /\ r.good = FALSE
  BY <1>2, <1>3, EndedBadly
<1>5. setup' = [setup EXCEPT ![s] = r]
  BY <1>1, <1>3 DEF Ends
<1>6. s \notin disturbed \cup spoiled' => StageFacts(r, config', generated', desktop')
  BY <1>1, <1>4 DEF StageFacts
<1>7. disturbed \cup spoiled' = {} => BackupAt(r.at, backup', config')
  BY <1>4
<1>8. r.at \in LateSetup
  BY <1>4 DEF LateSetup
<1> QED
  BY <1>1, <1>2, <1>4, <1>5, <1>6, <1>7, <1>8, StageKeeps

\* The backup is copied.
LEMMA SetupCopyKeeps ==
  ASSUME GpuInv, NEW s \in Setups, CopyBegins(s) \/ CopyEnds(s)
  PROVE  GpuInv' /\ \A o \in Setups : EndsAsPromised(o)
<1>1. PICK at \in {"copy", "copying"} : setup[s].at = at
  BY DEF CopyBegins, CopyEnds
<1>2. /\ at \in LateSetup /\ desktop \in BOOLEAN
      /\ s \notin disturbed \cup spoiled => StageFacts(setup[s], config, generated, desktop)
      /\ disturbed \cup spoiled = {} => BackupAt(at, backup, config)
  BY <1>1, StageOf DEF LateSetup, OverSetup
<1>3. UNCHANGED <<config, desktop, disturbed, spoiled>>
  BY DEF CopyBegins, CopyEnds, NoMishap
<1>4. ASSUME NEW new \in {"copying", "write"}, Go(s, new),
             new = "copying" => at = "copy",
             new = "write" => backup' = config /\ at = "copying"
      PROVE  GpuInv' /\ \A o \in Setups : EndsAsPromised(o)
  <2>1. new \in LateSetup
    BY DEF LateSetup
  <2>2. ASSUME NEW r, r.at = new, r.original = setup[s].original, s \notin disturbed \cup spoiled
        PROVE  StageFacts(r, config', generated', desktop')
    BY <1>1, <1>2, <1>3, <2>2 DEF StageFacts
  <2>3. disturbed \cup spoiled = {} => BackupAt(new, backup', config')
    BY <1>2, <1>3, <1>4 DEF BackupAt
  <2> QED
    BY <1>1, <1>2, <1>3, <1>4, <2>1, <2>2, <2>3, GoKeeps
<1> QED
  BY <1>1, <1>4 DEF CopyBegins, CopyEnds

\* waydroid.cfg is written, or not.
LEMMA WriteKeeps ==
  ASSUME GpuInv, NEW s \in Setups, WriteConfig(s)
  PROVE  GpuInv' /\ \A o \in Setups : EndsAsPromised(o)
<1>1. /\ setup[s].at = "write" /\ "write" \in LateSetup /\ "upgrade" \in LateSetup
      /\ desktop \in BOOLEAN
      /\ s \notin disturbed \cup spoiled => StageFacts(setup[s], config, generated, desktop)
      /\ disturbed \cup spoiled = {} => BackupAt("write", backup, config)
  BY StageOf DEF LateSetup, OverSetup, WriteConfig
<1>2. UNCHANGED <<backup, generated, desktop, disturbed>>
  BY DEF WriteConfig
<1>3. CASE config' = setup[s].device /\ Go(s, "upgrade") /\ NoMishap
  <2>1. ASSUME NEW r, r.at = "upgrade", r.device = setup[s].device
        PROVE  StageFacts(r, config', generated', desktop')
    BY <1>3, <2>1 DEF StageFacts
  <2>2. disturbed \cup spoiled = {} => BackupAt("upgrade", backup', config')
    BY <1>1, <1>2, AutomaticIsSomething DEF BackupAt
  <2> QED
    BY <1>1, <1>2, <1>3, <2>1, <2>2, GoKeeps DEF NoMishap
<1>4. CASE Mishap(s) /\ Ends(s, FALSE)
  BY <1>1, <1>2, <1>4, EndsBadlyKeeps DEF Mishap
<1> QED
  BY <1>3, <1>4 DEF WriteConfig

\* waydroid upgrade -o succeeds, fails, or is not even started.
LEMMA UpgradeKeeps ==
  ASSUME GpuInv, NEW s \in Setups, Upgrade(s)
  PROVE  GpuInv' /\ \A o \in Setups : EndsAsPromised(o)
<1>1. /\ setup[s].at = "upgrade" /\ "upgrade" \in LateSetup /\ "undo" \in LateSetup
      /\ desktop \in BOOLEAN
      /\ s \notin disturbed \cup spoiled => StageFacts(setup[s], config, generated, desktop)
      /\ disturbed \cup spoiled = {} => BackupAt("upgrade", backup, config)
  BY StageOf DEF LateSetup, OverSetup, Upgrade
<1>2. UNCHANGED <<config, backup, desktop, disturbed>>
  BY DEF Upgrade
<1>3. s \notin disturbed \cup spoiled => config' = setup[s].device
  BY <1>1, <1>2 DEF StageFacts
<1>4. disturbed \cup spoiled = {} => BackupAt("restore", backup', config') /\ BackupAt("undo", backup', config')
  BY <1>1, <1>2 DEF BackupAt
<1>5. CASE generated' = config /\ Ends(s, TRUE) /\ NoMishap
  <2>1. s \notin disturbed \cup spoiled => generated' = setup[s].device
    BY <1>2, <1>3, <1>5
  <2> QED
    BY <1>1, <1>2, <1>3, <1>4, <1>5, <2>1, EndsWellKeeps DEF NoMishap
<1>6. CASE Go(s, "undo") /\ UNCHANGED generated /\ NoMishap
  <2>1. ASSUME NEW r, r.at = "undo", r.device = setup[s].device, s \notin disturbed \cup spoiled
        PROVE  StageFacts(r, config', generated', desktop')
    BY <1>3, <2>1 DEF StageFacts
  <2> QED
    BY <1>1, <1>2, <1>4, <1>6, <2>1, GoKeeps DEF NoMishap
<1>7. CASE Mishap(s) /\ Ends(s, FALSE)
  <2>1. s \in spoiled' /\ spoiled' = spoiled \cup {s}
    BY <1>7 DEF Mishap
  <2> QED
    BY <1>1, <1>2, <1>4, <1>7, <2>1, EndsBadlyKeeps
<1> QED
  BY <1>5, <1>6, <1>7 DEF Upgrade

\* waydroid.cfg is put back, or not.
LEMMA RollBackKeeps ==
  ASSUME GpuInv, NEW s \in Setups, RollBack(s)
  PROVE  GpuInv' /\ \A o \in Setups : EndsAsPromised(o)
<1>1. /\ setup[s].at = "undo" /\ "undo" \in LateSetup /\ "again" \in LateSetup
      /\ desktop \in BOOLEAN
      /\ disturbed \cup spoiled = {} => BackupAt("undo", backup, config)
  BY StageOf DEF LateSetup, OverSetup, RollBack
<1>2. UNCHANGED <<backup, generated, desktop, disturbed>>
  BY DEF RollBack
<1>3. CASE config' = setup[s].original /\ Go(s, "again") /\ NoMishap
  <2>1. ASSUME NEW r, r.at = "again", r.original = setup[s].original
        PROVE  StageFacts(r, config', generated', desktop')
    BY <1>3, <2>1 DEF StageFacts
  <2>2. disturbed \cup spoiled = {} => BackupAt("again", backup', config')
    BY <1>1, <1>2, AutomaticIsSomething DEF BackupAt
  <2> QED
    BY <1>1, <1>2, <1>3, <2>1, <2>2, GoKeeps DEF NoMishap
<1>4. CASE Mishap(s) /\ Ends(s, FALSE)
  <2>1. s \in spoiled' /\ spoiled' = spoiled \cup {s}
    BY <1>4 DEF Mishap
  <2> QED
    BY <1>1, <1>2, <1>4, <2>1, EndsBadlyKeeps
<1> QED
  BY <1>3, <1>4 DEF RollBack

\* The second upgrade leaves waydroid.cfg as it was before the first.
LEMMA UpgradeAgainKeeps ==
  ASSUME GpuInv, NEW s \in Setups, UpgradeAgain(s)
  PROVE  GpuInv' /\ \A o \in Setups : EndsAsPromised(o)
<1>1. /\ setup[s].at = "again" /\ "again" \in LateSetup /\ desktop \in BOOLEAN
      /\ s \notin disturbed \cup spoiled => StageFacts(setup[s], config, generated, desktop)
      /\ disturbed \cup spoiled = {} => BackupAt("again", backup, config)
  BY StageOf DEF LateSetup, OverSetup, UpgradeAgain
<1>2. UNCHANGED <<config, backup, desktop, disturbed, spoiled>>
  BY DEF UpgradeAgain, NoMishap
<1>3. s \notin disturbed \cup spoiled => config' = setup[s].original
  BY <1>1, <1>2 DEF StageFacts
<1>4. disturbed \cup spoiled = {} => BackupAt("restore", backup', config')
  BY <1>1, <1>2 DEF BackupAt
<1> QED
  BY <1>1, <1>2, <1>3, <1>4, EndsBadlyKeeps DEF UpgradeAgain

\* A setup that ends has kept its promise, or is disturbed or spoiled.
LEMMA SetupEndKeeps ==
  ASSUME GpuInv, NEW s \in Setups, NEW was, setup[s].at = was,
         was \notin {"none", "open"} \cup OverSetup,
         NEW at \in OverSetup, Go(s, at), desktop' \in BOOLEAN, FilesKept,
         UNCHANGED disturbed, spoiled' \in {spoiled, spoiled \cup {s}},
         was = "copying" => s \in spoiled',
         \/ s \in disturbed \cup spoiled'
         \/ /\ at = "done" => config = setup[s].device /\ generated = setup[s].device
            /\ at = "failed" /\ setup[s].original # NoNode => config = setup[s].original
            /\ setup[s].restore => desktop'
  PROVE  GpuInv' /\ \A o \in Setups : EndsAsPromised(o)
<1>0. PICK t : t = setup[s]
  OBVIOUS
<1>1. /\ Active(s) /\ SetupTyped(t)
      /\ disturbed \cup spoiled = {} => BackupAt(was, backup, config)
  BY <1>0, StageOf
<1>2. PICK r : r = [t EXCEPT !.at = at]
  OBVIOUS
<1>3. /\ SetupTyped(r) /\ r.at = at /\ r.device = t.device /\ r.original = t.original
      /\ r.restore = t.restore
  BY <1>1, <1>2, Gone
<1>4. setup' = [setup EXCEPT ![s] = r]
  BY <1>0, <1>2 DEF Go
<1>5. setup'[s] = r
  BY <1>4 DEF GpuInv, GpuTyped
<1>6. StageFacts(r, config', generated', desktop')
  BY <1>3 DEF StageFacts, OverSetup
<1>7. disturbed \cup spoiled' = {} => BackupAt(at, backup', config')
  BY <1>1 DEF BackupAt, OverSetup, FilesKept
<1>8. s \in disturbed' \cup spoiled' \/ EndsAsPromised(s)
  <2>1. ASSUME s \notin disturbed \cup spoiled'
        PROVE  /\ r.at = "done" => config' = r.device /\ generated' = r.device
               /\ r.at = "failed" /\ r.original # NoNode => config' = r.original
               /\ r.restore => desktop'
    BY <1>0, <1>3, <2>1 DEF FilesKept
  <2>2. disturbed \cup spoiled' = {} => backup' \in {NoNode, Automatic}
    BY <1>7 DEF BackupAt, OverSetup
  <2> QED
    BY <1>5, <2>1, <2>2 DEF EndsAsPromised
<1>9. r.at \notin {"none", "open"}
  BY <1>3 DEF OverSetup
<1> QED
  BY <1>1, <1>3, <1>4, <1>6, <1>7, <1>8, <1>9, SetupSteps, OthersDoNotEnd

\* The desktop session is started again, if it ran before.
LEMMA RestoreKeeps ==
  ASSUME GpuInv, NEW s \in Setups, Restore(s)
  PROVE  GpuInv' /\ \A o \in Setups : EndsAsPromised(o)
<1>1. PICK t : t = setup[s]
  OBVIOUS
<1>2. /\ t.at = "restore" /\ "restore" \in LateSetup /\ "verify" \in LateSetup
      /\ desktop \in BOOLEAN /\ t.good \in BOOLEAN /\ t.restore \in BOOLEAN
      /\ s \notin disturbed \cup spoiled => StageFacts(t, config, generated, desktop)
      /\ disturbed \cup spoiled = {} => BackupAt("restore", backup, config)
  <2>1. setup[s].at = "restore" /\ "restore" \notin {"none", "open"} \cup OverSetup
    BY DEF Restore, OverSetup
  <2> QED
    BY <1>1, <2>1, StageOf DEF SetupTyped, LateSetup
<1>3. UNCHANGED <<config, backup, generated, disturbed>> /\ FilesKept
  BY DEF Restore, FilesKept
<1>4. s \notin disturbed \cup spoiled =>
        IF t.good THEN config = t.device /\ generated = t.device
        ELSE t.original # NoNode => config = t.original
  BY <1>2 DEF StageFacts
<1>5. CASE t.restore /\ desktop' = TRUE /\ NoMishap /\ Go(s, IF t.good THEN "verify" ELSE "failed")
  <2>1. CASE t.good
    <3>1. ASSUME NEW r, r.at = "verify", r.device = t.device, s \notin disturbed \cup spoiled
          PROVE  StageFacts(r, config', generated', desktop')
      BY <1>3, <1>4, <1>5, <2>1, <3>1 DEF StageFacts
    <3>2. disturbed \cup spoiled = {} => BackupAt("verify", backup', config')
      BY <1>2, <1>3 DEF BackupAt
    <3>3. Go(s, "verify") /\ desktop' \in BOOLEAN /\ spoiled' = spoiled
      BY <1>5, <2>1 DEF NoMishap
    <3> QED
      BY <1>1, <1>2, <1>3, <3>1, <3>2, <3>3, GoKeeps
  <2>2. CASE ~t.good
    <3>1. Go(s, "failed") /\ desktop' \in BOOLEAN /\ desktop' /\ spoiled' = spoiled
      BY <1>5, <2>2 DEF NoMishap
    <3>2. s \notin disturbed \cup spoiled => (t.original # NoNode => config = t.original)
      BY <1>4, <2>2
    <3> QED
      BY <1>1, <1>2, <1>3, <3>1, <3>2, SetupEndKeeps DEF OverSetup
  <2> QED
    BY <2>1, <2>2
<1>6. CASE t.restore /\ Mishap(s) /\ Go(s, "failed") /\ UNCHANGED desktop
  BY <1>1, <1>2, <1>3, <1>6, SetupEndKeeps DEF OverSetup, Mishap
<1>7. CASE ~t.restore /\ Go(s, IF t.good THEN "done" ELSE "failed") /\ UNCHANGED desktop /\ NoMishap
  <2>1. spoiled' = spoiled /\ desktop' \in BOOLEAN
    BY <1>2, <1>7 DEF NoMishap
  <2>2. CASE t.good
    <3>1. Go(s, "done")
      BY <1>7, <2>2
    <3>2. s \notin disturbed \cup spoiled => config = t.device /\ generated = t.device
      BY <1>4, <2>2
    <3> QED
      BY <1>1, <1>2, <1>3, <1>7, <2>1, <3>1, <3>2, SetupEndKeeps DEF OverSetup
  <2>3. CASE ~t.good
    <3>1. Go(s, "failed")
      BY <1>7, <2>3
    <3>2. s \notin disturbed \cup spoiled => (t.original # NoNode => config = t.original)
      BY <1>4, <2>3
    <3> QED
      BY <1>1, <1>2, <1>3, <1>7, <2>1, <3>1, <3>2, SetupEndKeeps DEF OverSetup
  <2> QED
    BY <2>2, <2>3
<1> QED
  BY <1>1, <1>5, <1>6, <1>7 DEF Restore

\* What runs is what was generated, if nobody has disturbed the setup.
LEMMA VerifyKeeps ==
  ASSUME GpuInv, NEW s \in Setups, VerifyGpu(s)
  PROVE  GpuInv' /\ \A o \in Setups : EndsAsPromised(o)
<1>1. /\ setup[s].at = "verify" /\ "verify" \notin {"none", "open"} \cup OverSetup
      /\ desktop \in BOOLEAN /\ desktop' = desktop /\ FilesKept
      /\ UNCHANGED <<disturbed, spoiled>>
      /\ s \notin disturbed \cup spoiled => StageFacts(setup[s], config, generated, desktop)
  <2>1. setup[s].at = "verify" /\ "verify" \notin {"none", "open"} \cup OverSetup
    BY DEF VerifyGpu, OverSetup
  <2> QED
    BY <2>1, StageOf DEF VerifyGpu, NoMishap
<1>2. s \notin disturbed \cup spoiled =>
        config = setup[s].device /\ generated = setup[s].device /\ desktop
  BY <1>1 DEF StageFacts
<1>3. CASE Current = setup[s].device
  <2>1. Go(s, "done")
    BY <1>3 DEF VerifyGpu
  <2> QED
    BY <1>1, <1>2, <2>1, SetupEndKeeps DEF OverSetup
<1>4. CASE Current # setup[s].device
  <2>1. Go(s, "failed") /\ s \in disturbed \cup spoiled
    BY <1>2, <1>4 DEF VerifyGpu, Current
  <2> QED
    BY <1>1, <2>1, SetupEndKeeps DEF OverSetup
<1> QED
  BY <1>3, <1>4

\* A terminal that is closed.
LEMMA KillKeeps ==
  ASSUME GpuInv, NEW s \in Setups, KillSetup(s)
  PROVE  GpuInv' /\ \A o \in Setups : EndsAsPromised(o)
<1>1. setup[s].at \notin {"none", "open"} \cup OverSetup
  BY DEF KillSetup, Active, Before, Over, OverSetup
<1>2. desktop' = desktop /\ desktop \in BOOLEAN
  BY DEF KillSetup, GpuInv, GpuTyped
<1> QED
  BY <1>1, <1>2, SetupEndKeeps DEF KillSetup, Mishap, OverSetup

\* A terminal that is opened has changed nothing yet.
LEMMA OpenKeeps ==
  ASSUME GpuInv, NEW s \in Setups, OpenSetup(s)
  PROVE  GpuInv' /\ \A o \in Setups : EndsAsPromised(o)
<1>1. PICK t : t = setup[s]
  OBVIOUS
<1>2. PICK r : r = [t EXCEPT !.at = "open", !.device = Recommended]
  OBVIOUS
<1>3. SetupTyped(t) /\ t.at = "none" /\ t.original = NoNode
  BY <1>1 DEF OpenSetup, GpuInv, GpuTyped, SetupTyped, EarlySetup
<1>4. SetupTyped(r) /\ r.at = "open"
  <2>1. PICK r1 : r1 = [t EXCEPT !.at = "open"]
    OBVIOUS
  <2>2. r1 = [at |-> "open", device |-> t.device, restore |-> t.restore, original |-> t.original,
              good |-> t.good]
    BY <1>3, <2>1 DEF SetupTyped
  <2>3. r = [at |-> "open", device |-> Recommended, restore |-> t.restore, original |-> t.original,
             good |-> t.good]
    BY <1>2, <2>1, <2>2
  <2> QED
    BY <1>3, <2>3 DEF SetupTyped, EarlySetup
<1>5. setup' = [setup EXCEPT ![s] = r]
  BY <1>1, <1>2 DEF OpenSetup
<1>6. setup'[s] = r /\ (\A o \in Setups \ {s} : setup'[o] = setup[o])
        /\ setup' = [o \in Setups |-> setup'[o]]
  BY <1>5 DEF GpuInv, GpuTyped
<1>7. \A o \in Setups : (Active(o)' <=> Active(o)) /\ (Active(o) => setup'[o] = setup[o])
  BY <1>1, <1>3, <1>4, <1>6 DEF Active, Before, Over
<1>8. UNCHANGED <<config, backup, generated, desktop, disturbed, spoiled>>
  BY DEF OpenSetup, FilesKept, NoMishap
<1>9. GpuTyped'
  <2>1. \A o \in Setups : SetupTyped(setup'[o])
    BY <1>4, <1>6 DEF GpuInv, GpuTyped
  <2> QED
    BY <1>6, <1>8, <2>1 DEF GpuInv, GpuTyped
<1>10. DisturbOneAnother' /\ StagesHold' /\ BackupHolds'
  BY <1>7, <1>8 DEF GpuInv, DisturbOneAnother, StagesHold, BackupHolds
<1>11. r.at \notin OverSetup
  BY <1>4 DEF OverSetup
<1> QED
  BY <1>5, <1>9, <1>10, <1>11, OthersDoNotEnd DEF GpuInv

\* A setup that begins while another one is active disturbs it, and is disturbed.
LEMMA SetupBeginKeeps ==
  ASSUME GpuInv, NEW s \in Setups, BeginSetup(s)
  PROVE  GpuInv' /\ \A o \in Setups : EndsAsPromised(o)
<1>1. PICK t : t = setup[s]
  OBVIOUS
<1>2. PICK at \in {"stop", "sudo"} : at = IF desktop THEN "stop" ELSE "sudo"
  OBVIOUS
<1>3. PICK r : r = [t EXCEPT !.at = at, !.restore = desktop]
  OBVIOUS
<1>4. SetupTyped(t) /\ t.at = "open" /\ t.original = NoNode /\ desktop \in BOOLEAN
  BY <1>1 DEF BeginSetup, GpuInv, GpuTyped, SetupTyped, EarlySetup
<1>5. SetupTyped(r) /\ r.at = at
  <2>1. PICK r1 : r1 = [t EXCEPT !.at = at]
    OBVIOUS
  <2>2. r1 = [at |-> at, device |-> t.device, restore |-> t.restore, original |-> t.original,
              good |-> t.good]
    BY <1>4, <2>1 DEF SetupTyped
  <2>3. r = [at |-> at, device |-> t.device, restore |-> desktop, original |-> t.original,
             good |-> t.good]
    BY <1>3, <2>1, <2>2
  <2>4. t.good \in BOOLEAN
    BY <1>4 DEF SetupTyped
  <2> QED
    BY <1>4, <2>3, <2>4 DEF SetupTyped, EarlySetup
<1>6. setup' = [setup EXCEPT ![s] = r]
  BY <1>1, <1>2, <1>3 DEF BeginSetup
<1>7. setup'[s] = r /\ (\A o \in Setups \ {s} : setup'[o] = setup[o])
        /\ setup' = [o \in Setups |-> setup'[o]]
  BY <1>6 DEF GpuInv, GpuTyped
<1>8. UNCHANGED <<config, backup, generated, desktop, spoiled>>
  BY DEF BeginSetup, FilesKept, NoMishap
<1>9. disturbed' = disturbed \cup
        (IF \E o \in Setups : Active(o) THEN {o \in Setups : Active(o)} \cup {s} ELSE {})
  BY DEF BeginSetup
<1>10. GpuTyped'
  <2>1. \A o \in Setups : SetupTyped(setup'[o])
    BY <1>5, <1>7 DEF GpuInv, GpuTyped
  <2> QED
    BY <1>7, <1>8, <1>9, <2>1 DEF GpuInv, GpuTyped
<1>11. \A o \in Setups \ {s} : Active(o)' <=> Active(o)
  BY <1>7 DEF Active, Before, Over
<1>12. \A o \in Setups : Active(o) => o \in disturbed' /\ s \in disturbed'
  BY <1>9
<1>13. disturbed \subseteq disturbed'
  BY <1>9
<1>14. DisturbOneAnother'
  BY <1>11, <1>12, <1>13 DEF GpuInv, DisturbOneAnother
<1>15. StagesHold'
  <2>1. StageFacts(r, config', generated', desktop')
    BY <1>5 DEF StageFacts
  <2> QED
    BY <1>7, <1>8, <1>11, <1>13, <2>1 DEF GpuInv, StagesHold
<1>16. BackupHolds'
  <2> SUFFICES ASSUME disturbed' \cup spoiled' = {}
               PROVE  /\ \A o \in Setups : Active(o)' => BackupAt(setup'[o].at, backup', config')
                      /\ (\A o \in Setups : ~Active(o)') => BackupAt("none", backup', config')
    BY DEF BackupHolds
  <2>1. disturbed \cup spoiled = {} /\ \A o \in Setups : ~Active(o)
    BY <1>8, <1>12, <1>13
  <2>2. BackupAt("none", backup, config)
    BY <2>1 DEF GpuInv, BackupHolds
  <2>3. BackupAt(at, backup', config')
    BY <1>8, <2>2 DEF BackupAt
  <2> QED
    BY <1>5, <1>7, <1>8, <1>11, <2>1, <2>2, <2>3
<1>17. r.at \notin OverSetup
  BY <1>5 DEF OverSetup
<1> QED
  BY <1>6, <1>10, <1>14, <1>15, <1>16, <1>17, OthersDoNotEnd DEF GpuInv

\* Whoever starts or stops Waydroid disturbs the setups that are active.
LEMMA WaydroidUsersKeep ==
  ASSUME GpuInv, OthersUseWaydroid
  PROVE  GpuInv' /\ \A o \in Setups : EndsAsPromised(o)
<1>1. UNCHANGED <<config, backup, generated, setup, spoiled>> /\ desktop' \in BOOLEAN
        /\ disturbed' = disturbed \cup {s \in Setups : Active(s)}
  BY DEF OthersUseWaydroid, FilesKept, NoMishap
<1>2. \A s \in Setups : (Active(s)' <=> Active(s)) /\ (Over(s)' <=> Over(s))
  BY <1>1 DEF Active, Before, Over
<1>3. GpuTyped'
  BY <1>1 DEF GpuInv, GpuTyped
<1>4. DisturbOneAnother' /\ StagesHold'
  BY <1>1, <1>2 DEF DisturbOneAnother, StagesHold
<1>5. BackupHolds'
  BY <1>1, <1>2 DEF GpuInv, BackupHolds
<1> QED
  BY <1>2, <1>3, <1>4, <1>5 DEF GpuInv, EndsAsPromised

\* A setup that nothing disturbs and that meets no mishap is a transaction, for any
\* machines, terminals and starts of Waydroid (configure_waydroid_gpu,
\* setup_gpu_interactive_inner).
THEOREM SetupIsAlwaysATransaction == GpuSpec => SetupIsATransaction
<1>1. GpuInit => GpuInv
  <2> SUFFICES ASSUME GpuInit PROVE GpuInv
    OBVIOUS
  <2>1. SetupTyped(NoSetup) /\ NoSetup.at = "none"
    BY DEF SetupTyped, NoSetup, EarlySetup
  <2>2. \A s \in Setups : setup[s] = NoSetup /\ ~Active(s)
    BY <2>1 DEF GpuInit, Active, Before
  <2>3. GpuTyped
    BY <2>1, <2>2 DEF GpuInit, GpuTyped
  <2>4. BackupAt("none", backup, config)
    BY DEF GpuInit, BackupAt
  <2> QED
    BY <2>2, <2>3, <2>4 DEF GpuInv, DisturbOneAnother, StagesHold, BackupHolds
<1>2. GpuInv /\ [GpuNext]_gpuVars => GpuInv' /\ [\A s \in Setups : EndsAsPromised(s)]_gpuVars
  <2>1. ASSUME GpuInv, GpuNext PROVE GpuInv' /\ \A s \in Setups : EndsAsPromised(s)
    BY <2>1, OpenKeeps, SetupBeginKeeps, EarlyStepsKeep, SetupCheckKeeps, SetupCopyKeeps, WriteKeeps,
       UpgradeKeeps, RollBackKeeps, UpgradeAgainKeeps, RestoreKeeps, VerifyKeeps, KillKeeps,
       WaydroidUsersKeep DEF GpuNext
  <2>2. ASSUME GpuInv, UNCHANGED gpuVars PROVE GpuInv'
    BY <2>2 DEF gpuVars, GpuInv, GpuTyped, DisturbOneAnother, StagesHold, BackupHolds, Active,
       Before, Over
  <2> QED
    BY <2>1, <2>2
<1> QED
  BY <1>1, <1>2, PTL DEF GpuSpec, SetupIsATransaction

=============================================================================
