--------------------------- MODULE CursorOverlay ---------------------------
(***************************************************************************)
(* The cursor overlay of a game session (wroid-inject/cursor_overlay.rs):  *)
(* a thread with a Wayland surface over the nested Gamescope.  The session *)
(* starts it, commands it and waits for its answers; Gamescope configures  *)
(* the surface and may send it the pointer, whose left button becomes a    *)
(* touch.  One axis of the surface is modelled.                            *)
(***************************************************************************)
EXTENDS Integers, Sequences

CONSTANTS
  Extents,         \* what a configure may give the surface
  Spots,           \* where the session has its virtual cursor
  Sprite,          \* the extent of the arrow
  NoExtent,
  MaxRoundtrips,   \* roundtrips that wait for the first configure
  MaxAsks, MaxSent \* commands, and events of Gamescope

VARIABLES
  handle,     \* CursorOverlay: where the session is with it, what it has asked, and
              \* what may have become of it: [at, asks, regions, cursors]
  control,    \* commands on their way
  answered,   \* the last command that was answered
  overlay,    \* the thread: OverlayState and where it is
  readiness,  \* what the thread has sent about its start
  committed,  \* the surface, as Gamescope has it: [region, buffer, spot]
  wire,       \* Gamescope's events on their way
  seat,       \* Gamescope's pointer: [present, over, down, sent]
  touch,      \* the thread has told the session of a press, and of no release since
  orphaned    \* history: the pointer was taken away while its button was down

overlayVars ==
  <<handle, control, answered, overlay, readiness, committed, wire, seat, touch, orphaned>>

NoSurface == [region |-> "none", buffer |-> "none", spot |-> 0]

Hidden == [shown |-> FALSE, spot |-> 0]
Cursors == {Hidden} \cup [shown : {TRUE}, spot : Spots]

InLoop == overlay.at \in {"drain", "dispatch"}

-----------------------------------------------------------------------------
(* The sprite and the input region *)

\* draw_cursor: i32::clamp panics when the surface is narrower than the sprite
Fits == overlay.size >= Sprite

Clamped(x, extent) == IF x > extent - Sprite THEN extent - Sprite ELSE x

\* the two copies of the arrow alternate, hiding attaches the transparent buffer
DrawCursor(c) ==
  LET next == IF overlay.index = "first" THEN "second" ELSE "first"
  IN  /\ overlay' = [overlay EXCEPT !.visible = c.shown, !.index = IF c.shown THEN next ELSE @]
      /\ committed' =
           CASE c.shown -> [committed EXCEPT !.buffer = next,
                                             !.spot = Clamped(c.spot, overlay.size)]
             [] ~c.shown /\ overlay.visible -> [committed EXCEPT !.buffer = "blank", !.spot = 0]
             [] OTHER -> committed

InputRegion(enabled) == IF enabled THEN "everything" ELSE "nothing"

-----------------------------------------------------------------------------
(* The thread *)

\* run_overlay returns: the channels close, the surface goes with the connection
OverlayEnds ==
  /\ overlay' = [overlay EXCEPT !.at = "ended"]
  /\ control' = <<>> /\ wire' = <<>> /\ committed' = NoSurface
  /\ seat' = [seat EXCEPT !.over = FALSE, !.down = FALSE]
  /\ UNCHANGED <<handle, answered, touch, orphaned>>

ThreadUnchanged == UNCHANGED <<handle, control, answered, touch, orphaned>>

\* the display's socket and the handshake
ConnectOverlay ==
  /\ overlay.at = "connect" /\ UNCHANGED readiness
  /\ \/ /\ overlay' = [overlay EXCEPT !.at = "globals"]
        /\ UNCHANGED <<committed, wire, seat>> /\ ThreadUnchanged
     \/ OverlayEnds

\* the roundtrip that lists the globals
LearnGlobals ==
  /\ overlay.at = "globals"
  /\ \/ /\ overlay' = [overlay EXCEPT !.at = "configure"]
        /\ UNCHANGED <<readiness, committed, wire, seat>> /\ ThreadUnchanged
     \/ OverlayEnds /\ readiness' \in {"failed", readiness}

\* the end of a roundtrip after the first commit
AwaitConfigure ==
  /\ overlay.at = "configure"
  /\ \/ /\ overlay.size # NoExtent
        /\ overlay' = [overlay EXCEPT !.at = "map"]
        /\ UNCHANGED <<readiness, committed, wire, seat>> /\ ThreadUnchanged
     \/ /\ overlay.size = NoExtent /\ overlay.rounds + 1 < MaxRoundtrips
        /\ overlay' = [overlay EXCEPT !.rounds = @ + 1]
        /\ UNCHANGED <<readiness, committed, wire, seat>> /\ ThreadUnchanged
     \/ /\ overlay.size = NoExtent /\ overlay.rounds + 1 = MaxRoundtrips
        /\ OverlayEnds /\ readiness' = "failed"
     \/ OverlayEnds /\ UNCHANGED readiness

\* create_and_attach_buffer, create_cursor_buffers and the first input region; memory
\* may be refused
MapSurface ==
  /\ overlay.at = "map"
  /\ \/ /\ overlay' = [overlay EXCEPT !.at = "drain"]
        /\ committed' = [region |-> InputRegion(overlay.enabled), buffer |-> "blank", spot |-> 0]
        /\ readiness' = "ok"
        /\ UNCHANGED <<wire, seat>> /\ ThreadUnchanged
     \/ OverlayEnds /\ UNCHANGED readiness

Answers(c) == control' = Tail(control) /\ answered' = c.ask

DrainCommand ==
  /\ overlay.at = "drain" /\ control # <<>>
  /\ LET c == Head(control)
     IN  \/ c.what = "stop" /\ OverlayEnds
         \/ /\ c.what = "region" /\ Answers(c)
            /\ overlay' = [overlay EXCEPT !.enabled = c.enabled]
            /\ committed' = [committed EXCEPT !.region = InputRegion(c.enabled)]
            /\ UNCHANGED <<handle, wire, seat, touch, orphaned>>
         \/ /\ c.what = "cursor" /\ Fits /\ Answers(c) /\ DrawCursor(c.cursor)
            /\ UNCHANGED <<handle, wire, seat, touch, orphaned>>
         \* a release build aborts: the whole session goes
         \/ /\ c.what = "cursor" /\ ~Fits
            /\ overlay' = [overlay EXCEPT !.at = "ended"]
            /\ handle' = [handle EXCEPT !.at = "aborted"]
            /\ control' = <<>> /\ wire' = <<>> /\ committed' = NoSurface
            /\ seat' = [seat EXCEPT !.over = FALSE, !.down = FALSE]
            /\ touch' = FALSE /\ UNCHANGED <<answered, orphaned>>
  /\ UNCHANGED readiness

Drained ==
  /\ overlay.at = "drain" /\ control = <<>>
  /\ overlay' = [overlay EXCEPT !.at = "dispatch"]
  /\ UNCHANGED <<readiness, committed, wire, seat>> /\ ThreadUnchanged

\* poll has returned; or reading, flushing or dispatching failed, or the surface was closed
NextTurn ==
  /\ overlay.at = "dispatch" /\ UNCHANGED readiness
  /\ \/ /\ ~overlay.closed
        /\ overlay' = [overlay EXCEPT !.at = "drain"]
        /\ UNCHANGED <<committed, wire, seat>> /\ ThreadUnchanged
     \/ OverlayEnds

-----------------------------------------------------------------------------
(* Events of Gamescope, as the thread dispatches them *)

\* wl_seat: the pointer is taken or released.  No event of one that was lost follows: it
\* enters again when the seat's changes have been dispatched.
SeatChanged(e) ==
  /\ overlay' = [overlay EXCEPT !.pointer = e.present]
  /\ orphaned' = (orphaned \/ (~e.present /\ overlay.left))
  /\ wire' = Tail(wire) /\ UNCHANGED touch

LeftButton(pressed) ==
  /\ overlay' = [overlay EXCEPT !.left = pressed]
  /\ touch' = pressed
  /\ orphaned' = (orphaned /\ pressed)
  /\ wire' = Tail(wire)

\* mutant: a pointer that leaves is forgotten, and its press with it
PointerLeftQuietly ==
  overlay' = [overlay EXCEPT !.left = FALSE] /\ wire' = Tail(wire) /\ UNCHANGED <<touch, orphaned>>

\* "Release any held contact so we never leave a stuck touch."
PointerLeft ==
  IF overlay.left THEN LeftButton(FALSE)
  ELSE wire' = Tail(wire) /\ UNCHANGED <<overlay, touch, orphaned>>

SurfaceEvent(e) ==
  /\ overlay' = IF e.what = "configure" THEN [overlay EXCEPT !.size = e.extent]
                                        ELSE [overlay EXCEPT !.closed = TRUE]
  /\ wire' = Tail(wire) /\ UNCHANGED <<touch, orphaned>>

DispatchEvent ==
  /\ overlay.at \in {"configure", "dispatch"} /\ wire # <<>>
  /\ LET e == Head(wire)
     IN  \/ e.what \in {"configure", "closed"} /\ SurfaceEvent(e)
         \/ e.what = "capabilities" /\ SeatChanged(e)
         \/ e.what \in {"press", "release"} /\ LeftButton(e.what = "press")
         \/ e.what = "leave" /\ PointerLeft
  /\ UNCHANGED <<handle, control, answered, readiness, committed, seat>>

-----------------------------------------------------------------------------
(* Gamescope *)

Connected == overlay.at \in {"configure", "map", "drain", "dispatch"}

Sends(e) ==
  /\ Connected /\ seat.sent < MaxSent
  /\ wire' = Append(wire, e)
  /\ UNCHANGED <<handle, control, answered, overlay, readiness, committed, touch, orphaned>>

Counted(s) == seat' = [s EXCEPT !.sent = @ + 1]

Configures == \E x \in Extents : Sends([what |-> "configure", extent |-> x]) /\ Counted(seat)
Closes == Sends([what |-> "closed"]) /\ Counted(seat)

SeatGains ==
  /\ ~seat.present /\ Sends([what |-> "capabilities", present |-> TRUE])
  /\ Counted([seat EXCEPT !.present = TRUE])

SeatLoses ==
  /\ seat.present /\ Sends([what |-> "capabilities", present |-> FALSE])
  /\ Counted([seat EXCEPT !.present = FALSE, !.over = FALSE, !.down = FALSE])

\* the pointer is sent to a client that has asked for it, where its surface takes input
Enters ==
  /\ seat.present /\ ~seat.over /\ overlay.pointer
  /\ \A n \in DOMAIN wire : wire[n].what # "capabilities"
  /\ committed.region = "everything"
  /\ seat' = [seat EXCEPT !.over = TRUE]
  /\ UNCHANGED <<handle, control, answered, overlay, readiness, committed, wire, touch, orphaned>>

Presses ==
  seat.over /\ ~seat.down /\ Sends([what |-> "press"]) /\ Counted([seat EXCEPT !.down = TRUE])

Releases ==
  seat.down /\ Sends([what |-> "release"]) /\ Counted([seat EXCEPT !.down = FALSE])

Leaves ==
  /\ seat.over /\ Sends([what |-> "leave"])
  /\ Counted([seat EXCEPT !.over = FALSE, !.down = FALSE])

-----------------------------------------------------------------------------
(* The session *)

HandleAt(place) == handle' = [handle EXCEPT !.at = place]

HandleOnly ==
  UNCHANGED <<answered, overlay, readiness, committed, wire, seat, touch, orphaned>>

\* spawn, from the wait for the thread on: a thread that ended says nothing more
Spawned ==
  /\ handle.at = "starting"
  /\ \/ readiness = "ok" /\ HandleAt("up") /\ UNCHANGED control
     \/ readiness = "failed" /\ HandleAt("joining") /\ UNCHANGED control
     \/ /\ readiness = "none" /\ HandleAt("joining")
        /\ control' = IF overlay.at = "ended" THEN <<>> ELSE Append(control, [what |-> "stop"])
  /\ HandleOnly

Ask(c, known) ==
  /\ handle.at = "up" /\ handle.asks < MaxAsks
  /\ \/ /\ overlay.at # "ended"
        /\ control' = Append(control, c)
        /\ handle' = [known EXCEPT !.at = "asking", !.asks = @ + 1]
     \/ /\ overlay.at = "ended"
        /\ handle' = [handle EXCEPT !.asks = @ + 1] /\ UNCHANGED control
  /\ HandleOnly

SetEnabled(on) ==
  Ask([what |-> "region", ask |-> handle.asks + 1, enabled |-> on],
      [handle EXCEPT !.regions = @ \cup {on}, !.last = <<"region", on>>])

SetCursor(c) ==
  Ask([what |-> "cursor", ask |-> handle.asks + 1, cursor |-> c],
      [handle EXCEPT !.cursors = @ \cup {c}, !.last = <<"cursor", c>>])

\* the reply: what was asked is now so
Answered ==
  /\ handle.at = "asking" /\ answered = handle.asks
  /\ handle' = IF handle.last[1] = "region"
               THEN [handle EXCEPT !.at = "up", !.regions = {handle.last[2]}]
               ELSE [handle EXCEPT !.at = "up", !.cursors = {handle.last[2]}]
  /\ UNCHANGED control /\ HandleOnly

\* no reply within CONTROL_TIMEOUT, or never: the command may still be carried out
Unanswered ==
  /\ handle.at = "asking" /\ answered # handle.asks
  /\ HandleAt("up") /\ UNCHANGED control /\ HandleOnly

DropOverlay ==
  /\ handle.at = "up" /\ HandleAt("joining")
  /\ control' = IF overlay.at = "ended" THEN <<>> ELSE Append(control, [what |-> "stop"])
  /\ HandleOnly

JoinOverlay ==
  /\ handle.at = "joining" /\ overlay.at = "ended"
  /\ HandleAt("gone") /\ UNCHANGED control /\ HandleOnly

-----------------------------------------------------------------------------

\* the session starts the overlay disabled
OverlayInit ==
  /\ handle = [at |-> "starting", asks |-> 0, regions |-> {FALSE}, cursors |-> {Hidden},
               last |-> <<>>]
  /\ control = <<>> /\ answered = 0
  /\ overlay = [at |-> "connect", rounds |-> 0, enabled |-> FALSE, size |-> NoExtent,
                pointer |-> FALSE, left |-> FALSE, visible |-> FALSE, index |-> "first",
                closed |-> FALSE]
  /\ readiness = "none" /\ committed = NoSurface /\ wire = <<>>
  /\ seat = [present |-> FALSE, over |-> FALSE, down |-> FALSE, sent |-> 0]
  /\ touch = FALSE /\ orphaned = FALSE

OverlayNext ==
  \/ ConnectOverlay \/ LearnGlobals \/ AwaitConfigure \/ MapSurface
  \/ DrainCommand \/ Drained \/ NextTurn \/ DispatchEvent
  \/ Configures \/ Closes \/ SeatGains \/ SeatLoses
  \/ Enters \/ Presses \/ Releases \/ Leaves
  \/ Spawned \/ Answered \/ Unanswered \/ DropOverlay \/ JoinOverlay
  \/ \E on \in BOOLEAN : SetEnabled(on)
  \/ \E c \in Cursors : SetCursor(c)

OverlaySpec == OverlayInit /\ [][OverlayNext]_overlayVars

-----------------------------------------------------------------------------
(* What the session may rely on *)

\* What Gamescope shows is what the session was told, or what it has asked for since and
\* had no answer to: a command that timed out is carried out, or not, but in order.
ShowsWhatWasAsked ==
  InLoop =>
    /\ \E on \in handle.regions : committed.region = InputRegion(on)
    /\ \E c \in handle.cursors :
         IF c.shown THEN \E x \in Extents : committed.spot = Clamped(c.spot, x)
                    ELSE committed.buffer = "blank"

\* A contact that the overlay has put down is explained: the button is down over the
\* surface, its release, the pointer's leave or its loss is on the way, the pointer was
\* taken away with the button down, or the overlay has ended.
TouchIsExplained ==
  touch => \/ seat.down \/ orphaned \/ overlay.at = "ended"
           \/ \E n \in DOMAIN wire :
                wire[n].what \in {"release", "leave"} \/ wire[n] = [what |-> "capabilities", present |-> FALSE]

\* No thread and no surface is left when spawn has failed or the handle was dropped.
NothingIsLeftOver == handle.at = "gone" => overlay.at = "ended" /\ committed = NoSurface

\* Two frames with the arrow never share a buffer ("alternating the two copies defeats
\* Gamescope's identical-buffer dedupe").
ArrowAlternates ==
  /\ committed.buffer \in {"first", "second"} /\ committed'.buffer \in {"first", "second"}
  /\ answered' # answered /\ Head(control).what = "cursor"
  => committed'.buffer # committed.buffer

\* The overlay, through late answers, a surface that is closed or resized and a pointer
\* that comes and goes, does what the session asked for, holds no contact without a cause
\* and leaves nothing behind (cursor_overlay.rs).
OverlayIsTrue ==
  /\ [](ShowsWhatWasAsked /\ TouchIsExplained /\ NothingIsLeftOver)
  /\ [][ArrowAlternates]_overlayVars
=============================================================================
