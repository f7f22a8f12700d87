--------------------------- MODULE TouchPipeline ---------------------------
(***************************************************************************)
(* One touch frame on its way from the runtime to Android: the engine of   *)
(* wroid-runtime validates it, the session's metrics wrapper passes it on, *)
(* the injector of wroid-inject plans slot assignments and emits evdev     *)
(* events, and the kernel's uinput device applies them.  Each layer keeps  *)
(* its own copy of "which contacts are down"; nothing but the order of     *)
(* these calls keeps the copies equal, and the emit may fail.              *)
(*                                                                         *)
(* Frames are the three shapes the code builds: a single event, the        *)
(* two-event recentering frame of mouse aim, and the frame that cancels    *)
(* every active contact.                                                   *)
(***************************************************************************)
EXTENDS TouchEngine, Integers, FiniteSets

CONSTANTS
  OnScreen,   \* the points inside width x height of the DeviceConfig
  SlotCount,  \* DeviceConfig.slot_count
  NoContact   \* a free slot; tracking id -1 on the device

ASSUME SlotCountAssumption == SlotCount \in Nat \ {0}
ASSUME ContactsAssumption == IsFiniteSet(Contacts) /\ NoContact \notin Contacts
ASSUME OnScreenAssumption == OnScreen \subseteq Points

Slots == 0 .. SlotCount - 1

VARIABLES
  active,     \* TouchEngine.state
  slots,      \* UinputTouchInjector.state
  metrics,    \* SessionMetricsInjector's contacts and their peak number
  device,     \* the kernel's view of the virtual touchscreen
  result      \* what the last submit returned

vars == <<active, slots, metrics, device, result>>

-----------------------------------------------------------------------------
(* SlotState and its transition function *)

SlotStates ==
  [contact : [Slots -> Contacts \cup {NoContact}],
   pos     : [Slots -> Points \cup {NoPoint}],
   count   : 0 .. SlotCount]

EmptySlots ==
  [contact |-> [i \in Slots |-> NoContact],
   pos     |-> [i \in Slots |-> NoPoint],
   count   |-> 0]

Lowest(S) == CHOOSE i \in S : \A j \in S : i <= j

Holding(st, c) == {i \in Slots : st.contact[i] = c}

Occupied(st) == {i \in Slots : st.contact[i] # NoContact}

ActiveSlot(st, c) == Lowest(Holding(st, c))

FreeSlot(st) == Lowest(Holding(st, NoContact))

EventError(st, e) ==
  IF ~Lifts(e) /\ e.position \notin OnScreen THEN "range"
  ELSE IF (e.phase = "Down") = (Holding(st, e.contact) # {}) THEN "bookkeeping"
  ELSE IF e.phase = "Down" /\ Holding(st, NoContact) = {} THEN "no_slot"
  ELSE "ok"

PutSlot(st, i, c, p, n) ==
  [contact |-> [st.contact EXCEPT ![i] = c],
   pos     |-> [st.pos EXCEPT ![i] = p],
   count   |-> n]

EventApply(st, e) ==
  IF e.phase = "Down"
    THEN PutSlot(st, FreeSlot(st), e.contact, e.position, st.count + 1)
  ELSE IF e.phase = "Move"
    THEN PutSlot(st, ActiveSlot(st, e.contact), e.contact, e.position, st.count)
  ELSE PutSlot(st, ActiveSlot(st, e.contact), NoContact, NoPoint, st.count - 1)

\* next_state: the events in order, each on the result of the previous one
NextState(st, frame) ==
  IF Len(frame) = 1 THEN EventApply(st, frame[1])
                    ELSE EventApply(EventApply(st, frame[1]), frame[2])

NextStateError(st, frame) ==
  IF EventError(st, frame[1]) # "ok" \/ Len(frame) = 1
  THEN EventError(st, frame[1])
  ELSE EventError(EventApply(st, frame[1]), frame[2])

\* next_state of the frame that cancels the contacts in C
CancelState(st, C) ==
  [contact |-> [i \in Slots |-> IF st.contact[i] \in C THEN NoContact ELSE st.contact[i]],
   pos     |-> [i \in Slots |-> IF st.contact[i] \in C THEN NoPoint ELSE st.pos[i]],
   count   |-> st.count - Cardinality(C)]

-----------------------------------------------------------------------------
(* Translation to evdev events, and the device that receives them *)

Devices ==
  [track   : [Slots -> Contacts \cup {NoContact}],
   pos     : [Slots -> Points \cup {NoPoint}],
   touch   : BOOLEAN,
   primary : Points \cup {NoPoint}]

NewDevice ==
  [track   |-> [i \in Slots |-> NoContact],
   pos     |-> [i \in Slots |-> NoPoint],
   touch   |-> FALSE,
   primary |-> NoPoint]

\* Mutant of EmitSlots: the slot of a lifted contact is looked up after the frame,
\* and falls back to the slot the next new contact would take.
EmitSlots_AfterFrame(cur, nxt, e) ==
  IF Holding(nxt, e.contact) # {} THEN Holding(nxt, e.contact) ELSE Holding(nxt, NoContact)

\* ABS_MT_SLOT of an event: a new contact is looked up after the frame, a lifted
\* one before it
EmitSlots(cur, nxt, e) ==
  IF e.phase = "Down" THEN Holding(nxt, e.contact)
  ELSE IF Lifts(e) \/ Holding(cur, e.contact) # {} THEN Holding(cur, e.contact)
  ELSE Holding(nxt, e.contact)

\* the tracking id and position events after an ABS_MT_SLOT, applied by the kernel
DeviceEvent(d, i, e) ==
  IF Lifts(e) THEN [d EXCEPT !.track[i] = NoContact]
  ELSE IF e.phase = "Down" THEN [d EXCEPT !.track[i] = e.contact, !.pos[i] = e.position]
  ELSE [d EXCEPT !.pos[i] = e.position]

\* BTN_TOUCH changes with the first and the last contact; ABS_X/ABS_Y follow the
\* lowest occupied slot
DeviceTouch(d, cur, nxt) ==
  [d EXCEPT !.touch = IF cur.count = 0 /\ nxt.count > 0 THEN TRUE
                      ELSE IF cur.count > 0 /\ nxt.count = 0 THEN FALSE ELSE @,
            !.primary = IF Occupied(nxt) # {} THEN nxt.pos[Lowest(Occupied(nxt))] ELSE @]

EmitFrame(d, cur, nxt, frame) ==
  LET EmitEvent(x, e) == DeviceEvent(x, Lowest(EmitSlots(cur, nxt, e)), e)
      d1 == EmitEvent(DeviceTouch(d, cur, nxt), frame[1])
  IN  IF Len(frame) = 1 THEN d1 ELSE EmitEvent(d1, frame[2])

EmitCancel(d, cur, nxt, C) ==
  [DeviceTouch(d, cur, nxt) EXCEPT
     !.track = [i \in Slots |-> IF cur.contact[i] \in C THEN NoContact ELSE @[i]]]

\* inject_frame up to the emit: planning, then a slot for every event
InjectError(st, frame) ==
  IF NextStateError(st, frame) # "ok" THEN NextStateError(st, frame)
  ELSE IF \E i \in DOMAIN frame : EmitSlots(st, NextState(st, frame), frame[i]) = {}
       THEN "bookkeeping" ELSE "ok"

-----------------------------------------------------------------------------
(* SessionMetricsInjector *)

CountMetrics(m, C) ==
  [contacts |-> C, peak |-> IF Cardinality(C) > m.peak THEN Cardinality(C) ELSE m.peak]

MetricsAfter(m, frame) ==
  LET put(ph) == {frame[i].contact : i \in {j \in DOMAIN frame : frame[j].phase \in ph}}
  IN  CountMetrics(m, (m.contacts \cup put({"Down"})) \ put({"Up", "Cancel"}))

-----------------------------------------------------------------------------
(* The engine's operations *)

Rejected(why) ==
  /\ result' = why
  /\ UNCHANGED <<active, slots, metrics, device>>

\* submit: validate, inject through the wrapper, then commit
Submit(frame) ==
  \/ ~ValidFrame(active, frame) /\ Rejected("invalid")
  \/ /\ ValidFrame(active, frame)
     /\ InjectError(slots, frame) # "ok"
     /\ Rejected(InjectError(slots, frame))
  \/ /\ ValidFrame(active, frame)
     /\ InjectError(slots, frame) = "ok"
     /\ \/ Rejected("emit")
        \/ /\ device' = EmitFrame(device, slots, NextState(slots, frame), frame)
           /\ slots' = NextState(slots, frame)
           /\ metrics' = MetricsAfter(metrics, frame)
           /\ active' = ApplyFrame(active, frame)
           /\ result' = "ok"

BeginContact(c, p) == Submit(<<TouchEvent(c, "Down", p)>>)

MoveContact(c, p) == Submit(<<TouchEvent(c, "Move", p)>>)

\* end_contact needs the committed position before it builds its frame
EndContact(c) ==
  IF IsActive(active, c) THEN Submit(<<TouchEvent(c, "Up", active[c])>>)
                         ELSE Rejected("invalid")

\* MouseAim's cancel: a Cancel frame for one contact, nothing if it is not active
CancelContact(c) ==
  /\ IsActive(active, c)
  /\ Submit(<<TouchEvent(c, "Cancel", active[c])>>)

\* MouseAimController.recenter without a gap
Recenter(new, old, origin) ==
  /\ IsActive(active, old)
  /\ Submit(<<TouchEvent(new, "Down", origin), TouchEvent(old, "Up", active[old])>>)

\* cancel_all; with nothing active it returns before building a frame.  Its
\* frame is valid, and next_state refuses it if a contact holds no slot.
CancelAll ==
  LET C == ActiveContacts(active)
      next == CancelState(slots, C)
      held == \A c \in C : Holding(slots, c) # {}
  IN  /\ C # {}
      /\ \/ Rejected(IF held THEN "emit" ELSE "bookkeeping")
         \/ /\ held
            /\ device' = EmitCancel(device, slots, next, C)
            /\ slots' = next
            /\ metrics' = CountMetrics(metrics, metrics.contacts \ C)
            /\ active' = EmptyTouchState
            /\ result' = "ok"

-----------------------------------------------------------------------------
Init ==
  /\ active = EmptyTouchState
  /\ slots = EmptySlots
  /\ metrics = [contacts |-> {}, peak |-> 0]
  /\ device = NewDevice
  /\ result = "ok"

Next ==
  \/ \E c \in Contacts, p \in Points : BeginContact(c, p)
  \/ \E c \in Contacts, p \in Points : MoveContact(c, p)
  \/ \E c \in Contacts : EndContact(c)
  \/ \E c \in Contacts : CancelContact(c)
  \/ \E new, old \in Contacts, p \in Points : Recenter(new, old, p)
  \/ CancelAll

Spec == Init /\ [][Next]_vars

-----------------------------------------------------------------------------
(* Properties *)

Agree(act, st) ==
  /\ \A c \in Contacts : IsActive(act, c) <=> \E i \in Slots : st.contact[i] = c
  /\ \A i, j \in Occupied(st) : st.contact[i] = st.contact[j] => i = j
  /\ \A i \in Occupied(st) : st.pos[i] = act[st.contact[i]]

Counted(st) == st.count = Cardinality(Occupied(st))

Shows(d, st) ==
  /\ d.track = st.contact
  /\ \A i \in Occupied(st) : d.pos[i] = st.pos[i]
  /\ d.touch <=> st.count > 0
  /\ Occupied(st) # {} => d.primary = st.pos[Lowest(Occupied(st))]

\* The variables range over the types of the structures they stand for.
TypeOK ==
  /\ active \in TouchStates
  /\ slots \in SlotStates
  /\ metrics \in [contacts : SUBSET Contacts, peak : Nat]
  /\ device \in Devices
  /\ result \in {"ok", "invalid", "bookkeeping", "no_slot", "range", "emit"}

\* The injector's slot table holds exactly the contacts the engine has committed,
\* each in one slot and at the committed position, whatever mix of rejected,
\* failed and accepted frames came before ("Runtime state changes only after the
\* injection backend accepts a frame").
EngineMatchesSlots == Agree(active, slots)

\* active_count, from which BTN_TOUCH is derived, is the number of occupied slots.
CountMatchesSlots == Counted(slots)

\* What Android sees through the kernel device is the injector's slot table: the
\* tracking ids and positions per slot, BTN_TOUCH exactly while a contact is
\* down, and the single-touch axes at the lowest occupied slot.
DeviceMatchesSlots == Shows(device, slots)

\* The three layers agree: what the engine has committed is what the injector holds,
\* and that is what Android sees, though each of them commits a frame by itself.
LayersAgree == EngineMatchesSlots /\ DeviceMatchesSlots

\* A frame the engine lets through is never refused by the injector's own
\* bookkeeping, so lifting contacts can only fail on I/O; NoFreeSlot is reported
\* only when every slot is really taken.
RejectionsAreResourceLimits ==
  /\ result # "bookkeeping"
  /\ result = "no_slot" => Occupied(slots) = Slots

\* The session report's contact set is the engine's, and its peak bounds it.
MetricsMatchEngine ==
  /\ metrics.contacts = ActiveContacts(active)
  /\ Cardinality(metrics.contacts) <= metrics.peak

=============================================================================
