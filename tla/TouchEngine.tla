---------------------------- MODULE TouchEngine ----------------------------
(***************************************************************************)
(* The multitouch state machine of wroid-runtime (src/lib.rs): the last    *)
(* committed contacts, the validation of a frame against them, and the     *)
(* commit of an accepted frame.  These are operators on a touch state; the *)
(* modules that own an engine (TouchPipeline, MouseAim, InputSession) keep *)
(* it in a variable of their own.                                          *)
(***************************************************************************)
EXTENDS Naturals, Sequences

CONSTANTS
  Contacts,   \* contact ids a profile's controls use
  Points,     \* coordinates a control can ask for
  NoPoint     \* "this contact is not active" in a touch state

ASSUME NoPointAssumption == NoPoint \notin Points

TouchEvents ==
  [contact : Contacts, phase : {"Down", "Move", "Up", "Cancel"}, position : Points]

TouchEvent(c, ph, p) == [contact |-> c, phase |-> ph, position |-> p]

Lifts(e) == e.phase \in {"Up", "Cancel"}

\* BTreeMap<ContactId, Point>, with absent contacts mapped to NoPoint
TouchStates == [Contacts -> Points \cup {NoPoint}]

EmptyTouchState == [c \in Contacts |-> NoPoint]

IsActive(st, c) == st[c] # NoPoint

ActiveContacts(st) == {c \in Contacts : IsActive(st, c)}

\* Every event is judged against the state before the frame, and a contact may
\* appear in a frame only once.
ValidFrame(st, frame) ==
  /\ frame # <<>>
  /\ \A i, j \in DOMAIN frame : frame[i].contact = frame[j].contact => i = j
  /\ \A i \in DOMAIN frame : frame[i].phase = "Down" <=> ~IsActive(st, frame[i].contact)

\* Only used on valid frames, where a contact has one event at most.
ApplyFrame(st, frame) ==
  [c \in Contacts |->
     IF \E i \in DOMAIN frame : frame[i].contact = c
     THEN LET e == frame[CHOOSE i \in DOMAIN frame : frame[i].contact = c]
          IN  IF Lifts(e) THEN NoPoint ELSE e.position
     ELSE st[c]]

=============================================================================
