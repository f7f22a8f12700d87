----------------------------- MODULE RenderSize -----------------------------
(***************************************************************************)
(* The render size of a game session: game_session.rs boots Waydroid,      *)
(* compares the two persisted properties with the size that was asked for, *)
(* writes them and boots again when they differ, and goes on when they     *)
(* read back right (waydroid_session.rs).  Android takes its size from the *)
(* properties when it boots, a session object hears "ready" from the       *)
(* output of its own child, and nested Gamescope publishes the name of its *)
(* display there.                                                          *)
(***************************************************************************)
EXTENDS Naturals, FiniteSets

CONSTANTS
  Widths, Heights,
  Displays,     \* names of nested displays, in the order Gamescope tries them
  MaxSizings,   \* sessions
  MaxSizeFaults

ASSUME SizeBounds ==
  /\ MaxSizings \in Nat /\ MaxSizeFaults \in Nat
  /\ Displays \subseteq Nat /\ Cardinality(Displays) >= 2

VARIABLES
  sizing,    \* where the session is, the size it wants, the size it has found
  props,     \* persist.waydroid.width and .height
  android,   \* the size Android has booted with, and whether it has said "ready"
  session,   \* DesktopWaydroidSession: what it has heard, and the child's output
  nested,    \* displays of running Gamescopes
  sizeFaults

sizeVars == <<sizing, props, android, session, nested, sizeFaults>>

Sizes == [w : Widths, h : Heights]

SizingAt(stage) == sizing.at = stage

SizingTo(stage) == sizing' = [sizing EXCEPT !.at = stage]

\* the error ends the session, which stops Waydroid
SizingFails ==
  /\ sizeFaults < MaxSizeFaults /\ sizeFaults' = sizeFaults + 1
  /\ SizingTo("ending")

NoSizeFault == UNCHANGED sizeFaults

FreeDisplay(taken) == CHOOSE d \in Displays \ taken : \A e \in Displays \ taken : d <= e

\* what `*self = replacement` gives a session that starts
NewSession(display) ==
  [display |-> display, heard |-> FALSE, said |-> FALSE]

\* start_presented: Gamescope takes the first free display, and Android boots in it
StartPresented(stage) ==
  /\ session' = NewSession(FreeDisplay(nested))
  /\ nested' = nested \cup {FreeDisplay(nested)}
  /\ android' = [up |-> TRUE, size |-> props, ready |-> FALSE]
  /\ SizingTo(stage)
  /\ UNCHANGED props

\* ensure_container_stopped turns a session away from a container that is up
BeginSizing ==
  /\ SizingAt("off") /\ sizing.runs < MaxSizings /\ ~android.up
  /\ \E want \in Sizes :
       sizing' = [at |-> "start", want |-> want, found |-> want, overlay |-> 0,
                  undone |-> FALSE, tainted |-> FALSE, runs |-> sizing.runs + 1]
  /\ UNCHANGED <<props, android, session, nested>> /\ NoSizeFault

StartFirst ==
  /\ SizingAt("start")
  /\ StartPresented("display")
  /\ NoSizeFault

\* gamescope_wayland_display, whose answer the cursor overlay is given later
LearnDisplay ==
  /\ SizingAt("display")
  /\ \/ sizing' = [sizing EXCEPT !.at = "await", !.overlay = session.display] /\ NoSizeFault
     \/ SizingFails
  /\ UNCHANGED <<props, android, session, nested>>

\* forward_session_output finds "Android with user 0 is ready"
AndroidIsReady ==
  /\ android.up /\ ~android.ready
  /\ android' = [android EXCEPT !.ready = TRUE]
  /\ session' = [session EXCEPT !.said = TRUE]
  /\ UNCHANGED <<sizing, props, nested>> /\ NoSizeFault

\* wait_until_android_user_ready, before and after the restart
AwaitAndroid ==
  /\ sizing.at \in {"await", "again"}
  /\ \/ /\ session.heard \/ session.said
        /\ session' = [session EXCEPT !.heard = TRUE]
        /\ SizingTo(IF SizingAt("await") THEN "compare" ELSE "confirm") /\ NoSizeFault
     \/ SizingFails /\ UNCHANGED session
  /\ UNCHANGED <<props, android, nested>>

-----------------------------------------------------------------------------
(* configure_resolution_properties *)

Compare ==
  /\ SizingAt("compare")
  /\ \/ sizing' = [sizing EXCEPT !.found = props,
                                 !.at = IF props = sizing.want THEN "confirm" ELSE "width"]
        /\ NoSizeFault
     \/ SizingFails
  /\ UNCHANGED <<props, android, session, nested>>

\* set_property: it may fail, and it may succeed without an effect
SetProperty(axis, size, ok, failed) ==
  \/ props' = [props EXCEPT ![axis] = size[axis]] /\ SizingTo(ok) /\ NoSizeFault
  \/ /\ sizeFaults < MaxSizeFaults /\ sizeFaults' = sizeFaults + 1
     /\ props' \in {props, [props EXCEPT ![axis] = size[axis]]}
     /\ sizing' = [sizing EXCEPT !.at = failed, !.tainted = @ \/ SizingAt("unwidth") \/ SizingAt("unheight")]
  \/ /\ sizeFaults < MaxSizeFaults /\ sizeFaults' = sizeFaults + 1
     /\ UNCHANGED props
     /\ sizing' = [sizing EXCEPT !.at = ok, !.tainted = @ \/ SizingAt("unwidth") \/ SizingAt("unheight")]

\* an axis that is right already is not written
SetWidth ==
  /\ SizingAt("width")
  /\ IF sizing.found.w = sizing.want.w
     THEN SizingTo("height") /\ UNCHANGED props /\ NoSizeFault
     ELSE SetProperty("w", sizing.want, "height", "unwidth")
  /\ UNCHANGED <<android, session, nested>>

SetHeight ==
  /\ SizingAt("height")
  /\ IF sizing.found.h = sizing.want.h
     THEN SizingTo("reread") /\ UNCHANGED props /\ NoSizeFault
     ELSE SetProperty("h", sizing.want, "reread", "unwidth")
  /\ UNCHANGED <<android, session, nested>>

\* mutant: what reads back right needs no restart
RereadIsEnough ==
  /\ SizingAt("reread")
  /\ \/ SizingTo(IF props = sizing.want THEN "confirm" ELSE "unwidth") /\ NoSizeFault
     \/ /\ sizeFaults < MaxSizeFaults /\ sizeFaults' = sizeFaults + 1
        /\ SizingTo("unwidth")
  /\ UNCHANGED <<props, android, session, nested>>

Reread ==
  /\ SizingAt("reread")
  /\ \/ SizingTo(IF props = sizing.want THEN "stop" ELSE "unwidth") /\ NoSizeFault
     \/ /\ sizeFaults < MaxSizeFaults /\ sizeFaults' = sizeFaults + 1
        /\ SizingTo("unwidth")
  /\ UNCHANGED <<props, android, session, nested>>

\* restore_resolution_properties: the height is restored though the width was not
UndoWidth ==
  /\ SizingAt("unwidth")
  /\ SetProperty("w", sizing.found, "unheight", "unheight")
  /\ UNCHANGED <<android, session, nested>>

UndoHeight ==
  /\ SizingAt("unheight")
  /\ SetProperty("h", sizing.found, "undone", "undone")
  /\ UNCHANGED <<android, session, nested>>

ConfigureFails ==
  /\ SizingAt("undone")
  /\ sizing' = [sizing EXCEPT !.at = "ending", !.undone = TRUE]
  /\ UNCHANGED <<props, android, session, nested>> /\ NoSizeFault

-----------------------------------------------------------------------------
(* restart, confirm and the overlay *)

AndroidDown == [android EXCEPT !.up = FALSE, !.ready = FALSE]

\* stop within restart: the container is down and the child, with its display, gone
StopForRestart ==
  /\ SizingAt("stop")
  /\ \/ /\ android' = AndroidDown /\ nested' = nested \ {session.display}
        /\ SizingTo("restart") /\ NoSizeFault
     \/ UNCHANGED <<android, nested>> /\ SizingFails
  /\ UNCHANGED <<props, session>>

Restart ==
  /\ SizingAt("restart")
  /\ \/ StartPresented("again") /\ NoSizeFault
     \/ SizingFails /\ UNCHANGED <<props, android, session, nested>>

\* confirm_resolution_properties
Confirm ==
  /\ SizingAt("confirm")
  /\ \/ /\ props = sizing.want
        /\ SizingTo("live") /\ NoSizeFault
     \/ /\ props # sizing.want
        /\ SizingTo("ending") /\ NoSizeFault
     \/ SizingFails
  /\ UNCHANGED <<props, android, session, nested>>

\* the game ends, or the session has failed: stop, and Drop if stop was cut short
EndSizing ==
  /\ sizing.at \in {"live", "ending"}
  /\ android' = AndroidDown /\ nested' = nested \ {session.display}
  /\ SizingTo("off")
  /\ UNCHANGED <<props, session>> /\ NoSizeFault

\* the worker is killed, between the two writes if it must be: Gamescope and Android
\* live on, and the size may be half of one and half of another
WorkerKilled ==
  /\ ~SizingAt("off")
  /\ sizeFaults < MaxSizeFaults /\ sizeFaults' = sizeFaults + 1
  /\ SizingTo("off")
  /\ UNCHANGED <<props, android, session, nested>>

\* waydroid session stop, which the next session asks for
UserStopsAndroid ==
  /\ SizingAt("off") /\ android.up
  /\ android' = AndroidDown /\ nested' = nested \ {session.display}
  /\ UNCHANGED <<sizing, props, session>> /\ NoSizeFault

SizeInit ==
  /\ props \in Sizes
  /\ sizing = [at |-> "off", want |-> props, found |-> props, overlay |-> 0,
               undone |-> FALSE, tainted |-> FALSE, runs |-> 0]
  /\ android = [up |-> FALSE, size |-> props, ready |-> FALSE]
  /\ session = NewSession(FreeDisplay({}))
  /\ nested = {}
  /\ sizeFaults = 0

SizeNext ==
  \/ BeginSizing \/ StartFirst \/ LearnDisplay \/ AndroidIsReady \/ AwaitAndroid
  \/ Compare \/ SetWidth \/ SetHeight \/ Reread \/ UndoWidth \/ UndoHeight \/ ConfigureFails
  \/ StopForRestart \/ Restart \/ Confirm \/ EndSizing \/ WorkerKilled \/ UserStopsAndroid

SizeSpec == SizeInit /\ [][SizeNext]_sizeVars

-----------------------------------------------------------------------------
(* Properties *)

\* A game starts on an Android that has booted with the size that was asked for, has
\* said so itself, and shows its cursor overlay on the display of its own Gamescope,
\* though the name of the display was learnt before the restart.
GameHasItsSize ==
  SizingAt("live") => /\ android.up /\ android.ready /\ android.size = sizing.want
                      /\ sizing.overlay = session.display /\ session.display \in nested

\* A size that could not be written leaves the one that was found, unless a write of
\* the rollback itself went wrong.
SizeIsRolledBack ==
  SizingAt("ending") /\ sizing.undone /\ ~sizing.tainted => props = sizing.found

RenderSizeHolds == GameHasItsSize /\ SizeIsRolledBack

=============================================================================
