------------------------ MODULE TouchPipelineProofs ------------------------
(* For any number of contacts, points and slots, the engine's contacts, the
   injector's slot table and the kernel device agree. *)
EXTENDS TouchPipeline, TLAPS, FiniteSetTheorems, WellFoundedInduction

\* A non-empty set of slot numbers has a lowest element, and Lowest finds it.
LEMMA LowestIn ==
  ASSUME NEW S, S \subseteq Nat, S # {}
  PROVE  Lowest(S) \in S /\ \A j \in S : Lowest(S) <= j
<1> DEFINE R == {ss \in Nat \X Nat : ss[1] < ss[2]}
<1>1. IsWellFoundedOn(R, Nat)
  BY NatLessThanWellFounded, Zenon DEF OpToRel
<1>2. PICK i \in S : \A j \in S : ~(<<j, i>> \in R)
  BY <1>1, WFMin
<1>3. ASSUME NEW j \in S PROVE i <= j
  <2>1. i \in Nat /\ j \in Nat
    OBVIOUS
  <2>2. j < i => <<j, i>> \in R
    BY <2>1
  <2> QED
    BY <1>2, <2>1, <2>2
<1> QED
  BY <1>3 DEF Lowest

\* The slots are finite.
LEMMA SlotsFinite ==
  /\ IsFiniteSet(Slots)
  /\ Cardinality(Slots) = SlotCount
  /\ Slots \subseteq Nat
<1>1. 0 \in Int /\ SlotCount - 1 \in Int
  BY SlotCountAssumption
<1>2. IsFiniteSet(0 .. SlotCount - 1) /\ Cardinality(0 .. SlotCount - 1) = SlotCount
  BY <1>1, FS_Interval, SlotCountAssumption
<1> QED
  BY <1>2, SlotCountAssumption DEF Slots

\* The engine's map after one event.
After(act, e) == [act EXCEPT ![e.contact] = IF Lifts(e) THEN NoPoint ELSE e.position]

\* What the proofs need of the slot table: it agrees with the engine and counts
\* its occupied slots.
SlotsOK(act, st) == act \in TouchStates /\ st \in SlotStates /\ Agree(act, st) /\ Counted(st)

\* Occupied slots are finitely many, and no more than SlotCount.
LEMMA OccupiedFinite ==
  ASSUME NEW st
  PROVE  /\ IsFiniteSet(Occupied(st))
         /\ Cardinality(Occupied(st)) \in 0 .. SlotCount
         /\ Cardinality(Occupied(st)) = 0 <=> Occupied(st) = {}
<1>1. Occupied(st) \in SUBSET Slots
  BY DEF Occupied
<1>2. IsFiniteSet(Occupied(st)) /\ Cardinality(Occupied(st)) <= SlotCount
  BY <1>1, SlotsFinite, FS_Subset
<1>3. Cardinality(Occupied(st)) \in Nat
  BY <1>2, FS_CardinalityType
<1> QED
  BY <1>2, <1>3, FS_EmptySet, SlotCountAssumption

\* A new contact takes the lowest free slot; everything still agrees.
LEMMA DownStep ==
  ASSUME NEW act, NEW st, SlotsOK(act, st),
         NEW e \in TouchEvents, e.phase = "Down", ~IsActive(act, e.contact),
         EventError(st, e) = "ok"
  PROVE  /\ FreeSlot(st) \in Slots /\ st.contact[FreeSlot(st)] = NoContact
         /\ SlotsOK(After(act, e), EventApply(st, e))
         /\ EventApply(st, e).count > 0
<1> DEFINE f == FreeSlot(st)
           nx == EventApply(st, e)
           af == After(act, e)
<1>1. f \in Slots /\ st.contact[f] = NoContact
  <2>1. Holding(st, NoContact) # {} /\ Holding(st, NoContact) \subseteq Nat
    BY SlotsFinite DEF EventError, Holding, Lifts
  <2> QED
    BY <2>1, LowestIn DEF FreeSlot, Holding
<1> HIDE DEF f
<1>2. nx = PutSlot(st, f, e.contact, e.position, st.count + 1)
  BY DEF EventApply, f
<1>3. Occupied(nx) = Occupied(st) \cup {f} /\ f \notin Occupied(st)
  BY <1>1, <1>2, ContactsAssumption DEF PutSlot, Occupied, SlotsOK, SlotStates, TouchEvents
<1>4. Counted(nx)
  BY <1>2, <1>3, OccupiedFinite, FS_AddElement DEF Counted, SlotsOK, PutSlot
<1>5. nx.count \in 0 .. SlotCount /\ nx.count > 0
  BY <1>2, <1>4, OccupiedFinite DEF Counted, PutSlot, SlotsOK, SlotStates
<1>6. nx \in SlotStates
  BY <1>1, <1>2, <1>5 DEF PutSlot, SlotsOK, SlotStates, TouchEvents
<1>7. af \in TouchStates
  BY DEF After, Lifts, SlotsOK, TouchStates, TouchEvents
<1>8. Agree(af, nx)
  <2>1. \A i \in Slots : nx.contact[i] = IF i = f THEN e.contact ELSE st.contact[i]
    BY <1>1, <1>2 DEF PutSlot, SlotsOK, SlotStates
  <2>2. \A i \in Slots : nx.pos[i] = IF i = f THEN e.position ELSE st.pos[i]
    BY <1>1, <1>2 DEF PutSlot, SlotsOK, SlotStates
  <2>3. e.contact \in Contacts /\ e.contact # NoContact /\ e.position # NoPoint
    BY ContactsAssumption, NoPointAssumption DEF TouchEvents
  <2>4. \A c \in Contacts : af[c] = IF c = e.contact THEN e.position ELSE act[c]
    BY DEF After, Lifts, SlotsOK, TouchStates
  <2>5. \A i \in Slots : st.contact[i] # e.contact
    BY <2>3 DEF SlotsOK, Agree
  <2>6. ASSUME NEW c \in Contacts
        PROVE  IsActive(af, c) <=> \E i \in Slots : nx.contact[i] = c
    <3>1. c # NoContact
      BY ContactsAssumption
    <3> QED
      BY <1>1, <2>1, <2>3, <2>4, <3>1 DEF SlotsOK, Agree, IsActive
  <2>7. \A i, j \in Occupied(nx) : nx.contact[i] = nx.contact[j] => i = j
    BY <1>1, <2>1, <2>3, <2>5 DEF SlotsOK, Agree, Occupied
  <2>8. \A i \in Occupied(nx) : nx.pos[i] = af[nx.contact[i]]
    BY <1>1, <2>1, <2>2, <2>3, <2>4, <2>5 DEF SlotsOK, Agree, Occupied, SlotStates
  <2> QED
    BY <2>6, <2>7, <2>8 DEF Agree
<1> QED
  BY <1>1, <1>4, <1>5, <1>6, <1>7, <1>8 DEF SlotsOK, f

\* A moved contact keeps its slot.
LEMMA MoveStep ==
  ASSUME NEW act, NEW st, SlotsOK(act, st),
         NEW e \in TouchEvents, e.phase = "Move", IsActive(act, e.contact)
  PROVE  /\ ActiveSlot(st, e.contact) \in Slots
         /\ st.contact[ActiveSlot(st, e.contact)] = e.contact
         /\ SlotsOK(After(act, e), EventApply(st, e))
         /\ EventApply(st, e).contact = st.contact
         /\ EventApply(st, e).count = st.count
<1> DEFINE f == ActiveSlot(st, e.contact)
           nx == EventApply(st, e)
           af == After(act, e)
<1>1. f \in Slots /\ st.contact[f] = e.contact
  <2>1. Holding(st, e.contact) # {} /\ Holding(st, e.contact) \subseteq Nat
    BY SlotsFinite DEF Holding, SlotsOK, Agree, TouchEvents
  <2> QED
    BY <2>1, LowestIn DEF ActiveSlot, Holding
<1> HIDE DEF f
<1>2. nx = PutSlot(st, f, e.contact, e.position, st.count)
  BY DEF EventApply, f
<1>3. nx.contact = st.contact /\ nx.count = st.count
  BY <1>1, <1>2 DEF PutSlot, SlotsOK, SlotStates
<1>4. Occupied(nx) = Occupied(st)
  BY <1>3 DEF Occupied
<1>5. nx \in SlotStates
  BY <1>1, <1>2 DEF PutSlot, SlotsOK, SlotStates, TouchEvents
<1>6. af \in TouchStates
  BY DEF After, Lifts, SlotsOK, TouchStates, TouchEvents
<1>7. Agree(af, nx)
  <2>1. \A i \in Slots : nx.pos[i] = IF i = f THEN e.position ELSE st.pos[i]
    BY <1>1, <1>2 DEF PutSlot, SlotsOK, SlotStates
  <2>2. e.contact \in Contacts /\ e.position # NoPoint
    BY NoPointAssumption DEF TouchEvents
  <2>3. \A c \in Contacts : af[c] = IF c = e.contact THEN e.position ELSE act[c]
    BY DEF After, Lifts, SlotsOK, TouchStates
  <2>4. ASSUME NEW c \in Contacts
        PROVE  IsActive(af, c) <=> \E i \in Slots : nx.contact[i] = c
    BY <1>1, <1>3, <2>2, <2>3 DEF SlotsOK, Agree, IsActive
  <2>5. \A i, j \in Occupied(nx) : nx.contact[i] = nx.contact[j] => i = j
    BY <1>3, <1>4 DEF SlotsOK, Agree
  <2>6. \A i \in Occupied(nx) : nx.contact[i] \in Contacts
    BY <1>5 DEF Occupied, SlotStates
  <2>7. \A i \in Occupied(nx) : nx.contact[i] = e.contact => i = f
    BY <1>1, <1>3, <2>2, <2>5, ContactsAssumption DEF Occupied
  <2>8. \A i \in Occupied(nx) : nx.pos[i] = af[nx.contact[i]]
    BY <1>1, <1>3, <1>4, <2>1, <2>3, <2>6, <2>7 DEF SlotsOK, Agree, Occupied
  <2> QED
    BY <2>4, <2>5, <2>8 DEF Agree
<1> QED
  BY <1>1, <1>3, <1>4, <1>5, <1>6, <1>7 DEF SlotsOK, Counted, f

\* A lifted contact's slot is freed, and only that one.
LEMMA LiftStep ==
  ASSUME NEW act, NEW st, SlotsOK(act, st),
         NEW e \in TouchEvents, Lifts(e), IsActive(act, e.contact)
  PROVE  /\ ActiveSlot(st, e.contact) \in Slots
         /\ st.contact[ActiveSlot(st, e.contact)] = e.contact
         /\ SlotsOK(After(act, e), EventApply(st, e))
<1> DEFINE f == ActiveSlot(st, e.contact)
           nx == EventApply(st, e)
           af == After(act, e)
<1>1. f \in Slots /\ st.contact[f] = e.contact
  <2>1. Holding(st, e.contact) # {} /\ Holding(st, e.contact) \subseteq Nat
    BY SlotsFinite DEF Holding, SlotsOK, Agree, TouchEvents
  <2> QED
    BY <2>1, LowestIn DEF ActiveSlot, Holding
<1> HIDE DEF f
<1>2. nx = PutSlot(st, f, NoContact, NoPoint, st.count - 1)
  BY DEF EventApply, Lifts, f
<1>3. e.contact \in Contacts /\ e.contact # NoContact
  BY ContactsAssumption DEF TouchEvents
<1>4. Occupied(nx) = Occupied(st) \ {f} /\ f \in Occupied(st)
  BY <1>1, <1>2, <1>3 DEF PutSlot, Occupied, SlotsOK, SlotStates
<1>5. Counted(nx)
  BY <1>2, <1>4, OccupiedFinite, FS_RemoveElement DEF Counted, SlotsOK, PutSlot
<1>6. nx \in SlotStates
  <2>1. nx.count \in 0 .. SlotCount
    BY <1>5, OccupiedFinite DEF Counted
  <2> QED
    BY <1>1, <1>2, <2>1 DEF PutSlot, SlotsOK, SlotStates
<1>7. af \in TouchStates
  BY DEF After, SlotsOK, TouchStates, TouchEvents
<1>8. Agree(af, nx)
  <2>1. \A i \in Slots : nx.contact[i] = IF i = f THEN NoContact ELSE st.contact[i]
    BY <1>1, <1>2 DEF PutSlot, SlotsOK, SlotStates
  <2>2. \A i \in Slots : i # f => nx.pos[i] = st.pos[i]
    BY <1>1, <1>2 DEF PutSlot, SlotsOK, SlotStates
  <2>3. \A c \in Contacts : af[c] = IF c = e.contact THEN NoPoint ELSE act[c]
    BY DEF After, SlotsOK, TouchStates
  <2>4. \A i \in Slots : st.contact[i] = e.contact => i = f
    BY <1>1, <1>3 DEF SlotsOK, Agree, Occupied
  <2>5. ASSUME NEW c \in Contacts
        PROVE  IsActive(af, c) <=> \E i \in Slots : nx.contact[i] = c
    <3>1. c # NoContact
      BY ContactsAssumption
    <3> QED
      BY <1>1, <2>1, <2>3, <2>4, <3>1 DEF SlotsOK, Agree, IsActive
  <2>6. \A i, j \in Occupied(nx) : nx.contact[i] = nx.contact[j] => i = j
    BY <1>4, <2>1 DEF SlotsOK, Agree, Occupied
  <2>7. \A i \in Occupied(st) : st.contact[i] \in Contacts
    BY DEF SlotsOK, Occupied, SlotStates
  <2>8. \A i \in Occupied(nx) : nx.pos[i] = af[nx.contact[i]]
    BY <1>4, <2>1, <2>2, <2>3, <2>4, <2>7 DEF SlotsOK, Agree, Occupied
  <2> QED
    BY <2>5, <2>6, <2>8 DEF Agree
<1> QED
  BY <1>1, <1>5, <1>6, <1>7, <1>8 DEF SlotsOK, f

-----------------------------------------------------------------------------
(* The device *)

\* BTN_TOUCH and the single-touch axes follow the slot table.
LEMMA TouchStep ==
  ASSUME NEW d \in Devices, NEW cur \in SlotStates, NEW nxt \in SlotStates,
         Counted(nxt), Shows(d, cur)
  PROVE  /\ DeviceTouch(d, cur, nxt) \in Devices
         /\ DeviceTouch(d, cur, nxt).track = d.track
         /\ DeviceTouch(d, cur, nxt).pos = d.pos
         /\ DeviceTouch(d, cur, nxt).touch <=> nxt.count > 0
         /\ Occupied(nxt) # {} =>
              DeviceTouch(d, cur, nxt).primary = nxt.pos[Lowest(Occupied(nxt))]
<1>1. Occupied(nxt) # {} => Lowest(Occupied(nxt)) \in Slots
  BY SlotsFinite, LowestIn DEF Occupied
<1>2. cur.count \in Nat /\ nxt.count \in Nat
  BY SlotCountAssumption DEF SlotStates
<1>3. d.touch \in BOOLEAN /\ (d.touch <=> cur.count > 0)
  BY DEF Devices, Shows
<1> DEFINE t == IF cur.count = 0 /\ nxt.count > 0 THEN TRUE
                ELSE IF cur.count > 0 /\ nxt.count = 0 THEN FALSE ELSE d.touch
           p == IF Occupied(nxt) # {} THEN nxt.pos[Lowest(Occupied(nxt))] ELSE d.primary
<1>4. t \in BOOLEAN /\ (t <=> nxt.count > 0)
  <2> DEFINE rises == cur.count = 0 /\ nxt.count > 0
             falls == cur.count > 0 /\ nxt.count = 0
  <2>1. t = IF rises THEN TRUE ELSE IF falls THEN FALSE ELSE d.touch
    OBVIOUS
  <2>2. rises => nxt.count > 0
    OBVIOUS
  <2>3. ~rises /\ falls => ~(nxt.count > 0)
    BY <1>2
  <2>4. ~rises /\ ~falls => (cur.count > 0 <=> nxt.count > 0)
    BY <1>2
  <2> HIDE DEF t, rises, falls
  <2> QED
    BY <1>3, <2>1, <2>2, <2>3, <2>4, Zenon
<1>5. p \in Points \cup {NoPoint}
  BY <1>1 DEF Devices, SlotStates
<1>6. DeviceTouch(d, cur, nxt) = [d EXCEPT !.touch = t, !.primary = p]
  BY DEF DeviceTouch
<1> HIDE DEF t, p
<1> QED
  BY <1>4, <1>5, <1>6 DEF Devices, p

\* A device that shows the slot table after one event, if it showed the table
\* before and the event went to the slot the table used.
LEMMA DeviceStep ==
  ASSUME NEW act, NEW st, SlotsOK(act, st), NEW d \in Devices,
         NEW e \in TouchEvents, e.phase = "Down" <=> ~IsActive(act, e.contact),
         EventError(st, e) = "ok",
         d.track = st.contact,
         \A i \in Occupied(st) : d.pos[i] = st.pos[i],
         NEW k, k = IF e.phase = "Down" THEN FreeSlot(st) ELSE ActiveSlot(st, e.contact)
  PROVE  LET nx == EventApply(st, e)
             dv == DeviceEvent(d, k, e)
         IN  /\ SlotsOK(After(act, e), nx)
             /\ k \in Slots
             /\ st.contact[k] = IF e.phase = "Down" THEN NoContact ELSE e.contact
             /\ \A i \in Slots : nx.contact[i] = IF i # k THEN st.contact[i]
                                                 ELSE IF Lifts(e) THEN NoContact ELSE e.contact
             /\ dv \in Devices
             /\ dv.track = nx.contact
             /\ \A i \in Occupied(nx) : dv.pos[i] = nx.pos[i]
             /\ dv.touch = d.touch
             /\ dv.primary = d.primary
<1> DEFINE nx == EventApply(st, e)
           dv == DeviceEvent(d, k, e)
<1>1. CASE e.phase = "Down"
  <2>1. k \in Slots /\ st.contact[k] = NoContact /\ SlotsOK(After(act, e), nx)
    BY <1>1, DownStep
  <2>2. nx = PutSlot(st, k, e.contact, e.position, st.count + 1)
    BY <1>1 DEF EventApply
  <2>3. dv = [d EXCEPT !.track[k] = e.contact, !.pos[k] = e.position]
    BY <1>1 DEF DeviceEvent, Lifts
  <2>4. ~Lifts(e)
    BY <1>1 DEF Lifts
  <2>5. nx.contact = [st.contact EXCEPT ![k] = e.contact]
    BY <2>2 DEF PutSlot
  <2>6. nx.pos = [st.pos EXCEPT ![k] = e.position]
    BY <2>2 DEF PutSlot
  <2>7. /\ dv.track = [d.track EXCEPT ![k] = e.contact]
        /\ dv.pos = [d.pos EXCEPT ![k] = e.position]
        /\ dv.touch = d.touch /\ dv.primary = d.primary
        /\ dv = [track |-> dv.track, pos |-> dv.pos, touch |-> dv.touch, primary |-> dv.primary]
    BY <2>3 DEF Devices
  <2>8. dv \in Devices /\ dv.track = nx.contact /\ dv.touch = d.touch /\ dv.primary = d.primary
    BY <2>1, <2>5, <2>7 DEF Devices, TouchEvents
  <2>9. \A i \in Slots : nx.contact[i] = IF i # k THEN st.contact[i] ELSE e.contact
    BY <2>1, <2>5 DEF SlotsOK, SlotStates
  <2>10. \A i \in Occupied(nx) : dv.pos[i] = nx.pos[i]
    BY <2>1, <2>7, <2>6, <2>9 DEF Devices, SlotsOK, SlotStates, Occupied
  <2> QED
    BY <1>1, <2>1, <2>4, <2>8, <2>9, <2>10
<1>2. CASE e.phase = "Move"
  <2>1. /\ k \in Slots /\ st.contact[k] = e.contact
        /\ SlotsOK(After(act, e), nx)
        /\ nx.contact = st.contact
    BY <1>2, MoveStep
  <2>2. nx = PutSlot(st, k, e.contact, e.position, st.count)
    BY <1>2 DEF EventApply
  <2>3. dv = [d EXCEPT !.pos[k] = e.position]
    BY <1>2 DEF DeviceEvent, Lifts
  <2>4. ~Lifts(e)
    BY <1>2 DEF Lifts
  <2>5. nx.pos = [st.pos EXCEPT ![k] = e.position]
    BY <2>2 DEF PutSlot
  <2>6. dv \in Devices /\ dv.track = nx.contact /\ dv.touch = d.touch /\ dv.primary = d.primary
    BY <2>1, <2>3 DEF Devices, TouchEvents
  <2>7. \A i \in Occupied(nx) : dv.pos[i] = nx.pos[i]
    BY <2>1, <2>3, <2>5 DEF Devices, SlotsOK, SlotStates, Occupied
  <2> QED
    BY <1>2, <2>1, <2>4, <2>6, <2>7
<1>3. CASE Lifts(e)
  <2>1. e.phase # "Down" /\ e.phase # "Move"
    BY <1>3 DEF Lifts
  <2>2. k \in Slots /\ st.contact[k] = e.contact /\ SlotsOK(After(act, e), nx)
    BY <1>3, <2>1, LiftStep
  <2>3. nx = PutSlot(st, k, NoContact, NoPoint, st.count - 1)
    BY <2>1 DEF EventApply
  <2>4. dv = [d EXCEPT !.track[k] = NoContact]
    BY <1>3 DEF DeviceEvent
  <2>5. nx.contact = [st.contact EXCEPT ![k] = NoContact]
    BY <2>3 DEF PutSlot
  <2>6. nx.pos = [st.pos EXCEPT ![k] = NoPoint]
    BY <2>3 DEF PutSlot
  <2>7. dv \in Devices /\ dv.track = nx.contact /\ dv.touch = d.touch /\ dv.primary = d.primary
    BY <2>2, <2>4, <2>5 DEF Devices
  <2>8. \A i \in Slots : nx.contact[i] = IF i # k THEN st.contact[i] ELSE NoContact
    BY <2>2, <2>5 DEF SlotsOK, SlotStates
  <2>9. \A i \in Occupied(nx) : dv.pos[i] = nx.pos[i]
    BY <2>2, <2>4, <2>6, <2>8 DEF Devices, SlotsOK, SlotStates, Occupied
  <2> QED
    BY <1>3, <2>1, <2>2, <2>7, <2>8, <2>9
<1> QED
  BY <1>1, <1>2, <1>3 DEF TouchEvents, Lifts

-----------------------------------------------------------------------------
(* Frames *)

\* The engine's commit of a one-event frame.
LEMMA ApplySingle ==
  ASSUME NEW act \in TouchStates, NEW e \in TouchEvents
  PROVE  ApplyFrame(act, <<e>>) = After(act, e)
<1>1. \A c \in Contacts : (CHOOSE i \in {1} : <<e>>[i].contact = c) = 1
                          \/ <<e>>[1].contact # c
  OBVIOUS
<1>2. DOMAIN <<e>> = {1} /\ <<e>>[1] = e
  OBVIOUS
<1> QED
  BY <1>1, <1>2 DEF ApplyFrame, After, TouchStates, TouchEvents

\* The engine's commit of the recentering frame.
LEMMA ApplyPair ==
  ASSUME NEW act \in TouchStates, NEW d \in TouchEvents, NEW u \in TouchEvents,
         d.contact # u.contact
  PROVE  ApplyFrame(act, <<d, u>>) = After(After(act, d), u)
<1> DEFINE fr == <<d, u>>
<1>1. DOMAIN fr = {1, 2} /\ fr[1] = d /\ fr[2] = u
  OBVIOUS
<1> HIDE DEF fr
<1>2. d.contact \in Contacts /\ u.contact \in Contacts
  BY DEF TouchEvents
<1>3. (CHOOSE i \in DOMAIN fr : fr[i].contact = d.contact) = 1
  BY <1>1
<1>4. (CHOOSE i \in DOMAIN fr : fr[i].contact = u.contact) = 2
  BY <1>1
<1>5. ASSUME NEW c \in Contacts
      PROVE  ApplyFrame(act, fr)[c] = After(After(act, d), u)[c]
  <2>1. After(After(act, d), u)[c] =
          IF c = u.contact THEN IF Lifts(u) THEN NoPoint ELSE u.position
          ELSE IF c = d.contact THEN IF Lifts(d) THEN NoPoint ELSE d.position
          ELSE act[c]
    BY <1>2 DEF After, TouchStates
  <2>2. CASE c = d.contact
    BY <1>1, <1>3, <2>1, <2>2 DEF ApplyFrame
  <2>3. CASE c = u.contact
    BY <1>1, <1>4, <2>1, <2>3 DEF ApplyFrame
  <2>4. CASE c # d.contact /\ c # u.contact
    BY <1>1, <2>1, <2>4 DEF ApplyFrame
  <2> QED
    BY <2>2, <2>3, <2>4
<1>6. ApplyFrame(act, fr) = [c \in Contacts |-> ApplyFrame(act, fr)[c]]
  BY DEF ApplyFrame
<1>7. After(After(act, d), u) = [c \in Contacts |-> After(After(act, d), u)[c]]
  BY DEF After, TouchStates
<1> QED
  BY <1>5, <1>6, <1>7 DEF fr

\* The injector's planning cannot contradict the engine: an event that is valid
\* for the engine is refused only for lack of a slot or an off-screen position.
LEMMA NoBookkeepingError ==
  ASSUME NEW act, NEW st, SlotsOK(act, st), NEW e \in TouchEvents,
         e.phase = "Down" <=> ~IsActive(act, e.contact)
  PROVE  /\ EventError(st, e) \in {"ok", "range", "no_slot"}
         /\ Lifts(e) => EventError(st, e) = "ok"
         /\ EventError(st, e) = "no_slot" => Occupied(st) = Slots
<1>1. e.phase = "Down" <=> Holding(st, e.contact) = {}
  BY DEF SlotsOK, Agree, Holding, TouchEvents
<1>2. Lifts(e) => e.phase # "Down"
  BY DEF Lifts
<1>3. Holding(st, NoContact) = {} => Occupied(st) = Slots
  BY DEF Holding, Occupied
<1> QED
  BY <1>1, <1>2, <1>3 DEF EventError

\* A contact's slot is found whenever it has one.
LEMMA HoldingIs ==
  ASSUME NEW act, NEW st, SlotsOK(act, st), NEW c \in Contacts,
         NEW k \in Slots, st.contact[k] = c
  PROVE  Holding(st, c) = {k} /\ Lowest(Holding(st, c)) = k
<1>1. c # NoContact
  BY ContactsAssumption
<1>2. \A j \in Slots : st.contact[j] = c => j = k
  BY <1>1 DEF SlotsOK, Agree, Occupied
<1>3. Holding(st, c) = {k}
  BY <1>2 DEF Holding
<1>4. {k} \subseteq Nat /\ {k} # {}
  BY SlotsFinite
<1>5. Lowest({k}) = k
  BY <1>4, LowestIn
<1> QED
  BY <1>3, <1>5

\* What a frame accepted by the engine does to the other layers.
FrameOK(act, st, d, frame) ==
  LET nx == NextState(st, frame)
      dv == EmitFrame(d, st, nx, frame)
  IN  /\ InjectError(st, frame) \in {"ok", "range", "no_slot"}
      /\ InjectError(st, frame) = "no_slot" => Occupied(st) = Slots
      /\ InjectError(st, frame) = "ok" =>
           SlotsOK(ApplyFrame(act, frame), nx) /\ dv \in Devices /\ Shows(dv, nx)

\* A one-event frame the engine finds valid and the injector plans keeps engine,
\* slot table and device together.
LEMMA SingleFrame ==
  ASSUME NEW act, NEW st, SlotsOK(act, st), NEW d \in Devices, Shows(d, st),
         NEW e \in TouchEvents, e.phase = "Down" <=> ~IsActive(act, e.contact)
  PROVE  FrameOK(act, st, d, <<e>>)
<1> DEFINE k == IF e.phase = "Down" THEN FreeSlot(st) ELSE ActiveSlot(st, e.contact)
           nx == EventApply(st, e)
           d1 == DeviceTouch(d, st, nx)
<1>1. NextState(st, <<e>>) = nx
  BY DEF NextState
<1>2. NextStateError(st, <<e>>) = EventError(st, e)
  BY DEF NextStateError
<1>3. /\ EventError(st, e) \in {"ok", "range", "no_slot"}
      /\ EventError(st, e) = "no_slot" => Occupied(st) = Slots
  BY NoBookkeepingError
<1>4. CASE EventError(st, e) # "ok"
  <2>1. InjectError(st, <<e>>) = EventError(st, e)
    BY <1>2, <1>4 DEF InjectError
  <2> QED
    BY <1>3, <1>4, <2>1 DEF FrameOK
<1>5. CASE EventError(st, e) = "ok"
  <2>1. e.contact \in Contacts /\ e.contact # NoContact
    BY ContactsAssumption DEF TouchEvents
  <2>2. /\ SlotsOK(After(act, e), nx) /\ k \in Slots
        /\ st.contact[k] = IF e.phase = "Down" THEN NoContact ELSE e.contact
        /\ \A i \in Slots : nx.contact[i] = IF i # k THEN st.contact[i]
                                            ELSE IF Lifts(e) THEN NoContact ELSE e.contact
    BY <1>5, DeviceStep DEF Shows
  <2>3. /\ d1 \in Devices /\ d1.track = st.contact
        /\ \A i \in Occupied(st) : d1.pos[i] = st.pos[i]
        /\ d1.touch <=> nx.count > 0
        /\ Occupied(nx) # {} => d1.primary = nx.pos[Lowest(Occupied(nx))]
    <3>1. Counted(nx) /\ nx \in SlotStates /\ st \in SlotStates
      BY <2>2 DEF SlotsOK
    <3> QED
      BY <3>1, TouchStep DEF Shows
  <2>4. EmitSlots(st, nx, e) # {} /\ Lowest(EmitSlots(st, nx, e)) = k
    <3>1. CASE e.phase = "Down"
      <4>1. nx.contact[k] = e.contact
        BY <2>2, <3>1 DEF Lifts
      <4> QED
        BY <2>1, <2>2, <3>1, <4>1, HoldingIs DEF EmitSlots
    <3>2. CASE e.phase # "Down"
      <4>1. Holding(st, e.contact) = {k} /\ Lowest(Holding(st, e.contact)) = k
        BY <2>1, <2>2, <3>2, HoldingIs
      <4> QED
        BY <3>2, <4>1 DEF EmitSlots
    <3> QED
      BY <3>1, <3>2
  <2>5. InjectError(st, <<e>>) = "ok"
    BY <1>1, <1>2, <1>5, <2>4 DEF InjectError
  <2>6. EmitFrame(d, st, nx, <<e>>) = DeviceEvent(d1, k, e)
    BY <2>4 DEF EmitFrame
  <2> DEFINE dv == DeviceEvent(d1, k, e)
  <2>7. /\ dv \in Devices /\ dv.track = nx.contact
        /\ \A i \in Occupied(nx) : dv.pos[i] = nx.pos[i]
        /\ dv.touch = d1.touch /\ dv.primary = d1.primary
    BY <1>5, <2>3, DeviceStep
  <2>8. Shows(dv, nx)
    BY <2>3, <2>7 DEF Shows
  <2>9. ApplyFrame(act, <<e>>) = After(act, e)
    BY ApplySingle DEF SlotsOK
  <2> HIDE DEF dv, nx
  <2> QED
    BY <1>1, <2>2, <2>5, <2>6, <2>7, <2>8, <2>9 DEF FrameOK, dv
<1> QED
  BY <1>4, <1>5

\* The recentering frame: the new contact goes down before the old one is lifted,
\* so it never takes over the old contact's slot.
LEMMA PairFrame ==
  ASSUME NEW act, NEW st, SlotsOK(act, st), NEW d \in Devices, Shows(d, st),
         NEW dn \in TouchEvents, NEW up \in TouchEvents,
         dn.phase = "Down", up.phase = "Up", dn.contact # up.contact,
         ~IsActive(act, dn.contact), IsActive(act, up.contact)
  PROVE  FrameOK(act, st, d, <<dn, up>>)
<1> DEFINE fr == <<dn, up>>
           st1 == EventApply(st, dn)
           act1 == After(act, dn)
           nx == EventApply(st1, up)
           d0 == DeviceTouch(d, st, nx)
           k1 == FreeSlot(st)
           k2 == ActiveSlot(st1, up.contact)
<1>1. fr[1] = dn /\ fr[2] = up /\ Len(fr) = 2 /\ DOMAIN fr = {1, 2}
  OBVIOUS
<1>2. NextState(st, fr) = nx
  BY <1>1 DEF NextState
<1>3. dn.contact \in Contacts /\ up.contact \in Contacts /\ Lifts(up) /\ ~Lifts(dn)
  BY DEF TouchEvents, Lifts
<1>4. /\ EventError(st, dn) \in {"ok", "range", "no_slot"}
      /\ EventError(st, dn) = "no_slot" => Occupied(st) = Slots
  BY NoBookkeepingError
<1>5. CASE EventError(st, dn) # "ok"
  <2>1. NextStateError(st, fr) = EventError(st, dn)
    BY <1>1, <1>5 DEF NextStateError
  <2>2. InjectError(st, fr) = EventError(st, dn)
    BY <1>5, <2>1 DEF InjectError
  <2> QED
    BY <1>4, <1>5, <2>2 DEF FrameOK
<1>6. CASE EventError(st, dn) = "ok"
  <2>1. /\ SlotsOK(act1, st1) /\ k1 \in Slots /\ st.contact[k1] = NoContact
        /\ \A i \in Slots : st1.contact[i] = IF i # k1 THEN st.contact[i] ELSE dn.contact
    BY <1>3, <1>6, DeviceStep DEF Shows
  <2>2. IsActive(act1, up.contact)
    BY <1>3 DEF IsActive, After, SlotsOK, TouchStates
  <2>3. EventError(st1, up) = "ok"
    BY <1>3, <2>1, <2>2, NoBookkeepingError
  <2>4. NextStateError(st, fr) = "ok"
    BY <1>1, <1>6, <2>3 DEF NextStateError
  <2>5. /\ SlotsOK(After(act1, up), nx) /\ k2 \in Slots /\ st1.contact[k2] = up.contact
    BY <1>3, <2>1, <2>2, LiftStep
  <2>6. k1 # k2 /\ st.contact[k2] = up.contact
    BY <2>1, <2>5
  <2>7. nx = PutSlot(st1, k2, NoContact, NoPoint, st1.count - 1)
    BY DEF EventApply
  <2>8. nx.contact[k1] = dn.contact
    BY <2>1, <2>5, <2>6, <2>7 DEF PutSlot, SlotsOK, SlotStates
  <2>9. EmitSlots(st, nx, dn) # {} /\ Lowest(EmitSlots(st, nx, dn)) = k1
    BY <1>3, <2>1, <2>5, <2>8, HoldingIs DEF EmitSlots
  <2>10. EmitSlots(st, nx, up) # {} /\ Lowest(EmitSlots(st, nx, up)) = k2
    BY <1>3, <2>5, <2>6, HoldingIs DEF EmitSlots
  <2>11. InjectError(st, fr) = "ok"
    BY <1>1, <1>2, <2>4, <2>9, <2>10 DEF InjectError
  <2> DEFINE d1 == DeviceEvent(d0, k1, dn)
             dv == DeviceEvent(d1, k2, up)
  <2>12. EmitFrame(d, st, nx, fr) = dv
    BY <1>1, <2>9, <2>10 DEF EmitFrame
  <2>13. /\ d0 \in Devices /\ d0.track = st.contact
         /\ \A i \in Occupied(st) : d0.pos[i] = st.pos[i]
         /\ d0.touch <=> nx.count > 0
         /\ Occupied(nx) # {} => d0.primary = nx.pos[Lowest(Occupied(nx))]
    <3>1. Counted(nx) /\ nx \in SlotStates /\ st \in SlotStates
      BY <2>5 DEF SlotsOK
    <3> QED
      BY <3>1, TouchStep DEF Shows
  <2> HIDE DEF d0
  <2>14. /\ d1 \in Devices /\ d1.track = st1.contact
         /\ \A i \in Occupied(st1) : d1.pos[i] = st1.pos[i]
         /\ d1.touch = d0.touch /\ d1.primary = d0.primary
    BY <1>6, <2>13, DeviceStep
  <2> HIDE DEF d1, st1, act1
  <2>15. /\ dv \in Devices /\ dv.track = nx.contact
         /\ \A i \in Occupied(nx) : dv.pos[i] = nx.pos[i]
         /\ dv.touch = d1.touch /\ dv.primary = d1.primary
    BY <2>1, <2>2, <2>3, <2>14, DeviceStep
  <2>16. Shows(dv, nx)
    BY <2>13, <2>14, <2>15 DEF Shows
  <2>17. ApplyFrame(act, fr) = After(act1, up)
    BY ApplyPair DEF SlotsOK, act1
  <2> HIDE DEF dv, nx, fr
  <2> QED
    BY <1>2, <2>5, <2>11, <2>12, <2>15, <2>16, <2>17 DEF FrameOK, fr
<1> QED
  BY <1>5, <1>6

\* The frame that cancels every active contact empties the slot table.
LEMMA CancelFrame ==
  ASSUME NEW act, NEW st, SlotsOK(act, st), NEW d \in Devices, Shows(d, st),
         NEW C, C = ActiveContacts(act)
  PROVE  LET nx == CancelState(st, C)
             dv == EmitCancel(d, st, nx, C)
         IN  /\ \A c \in C : Holding(st, c) # {}
             /\ SlotsOK(EmptyTouchState, nx)
             /\ dv \in Devices
             /\ Shows(dv, nx)
<1> DEFINE nx == CancelState(st, C)
           dv == EmitCancel(d, st, nx, C)
           O == Occupied(st)
           f == [i \in O |-> st.contact[i]]
<1>1. \A c \in C : Holding(st, c) # {}
  BY DEF SlotsOK, Agree, Holding, ActiveContacts
<1>2. \A i \in O : st.contact[i] \in C
  BY DEF SlotsOK, Agree, Occupied, ActiveContacts, SlotStates
<1>3. Cardinality(C) = Cardinality(O)
  <2>1. f \in [O -> C] /\ \A i, j \in O : f[i] = f[j] => i = j
    BY <1>2 DEF SlotsOK, Agree
  <2>2. \A c \in C : \E i \in O : f[i] = c
    BY ContactsAssumption DEF SlotsOK, Agree, Occupied, ActiveContacts
  <2>3. f \in Bijection(O, C)
    BY <2>1, <2>2 DEF Bijection, Injection, IsInjective, Surjection
  <2>4. ExistsBijection(O, C)
    BY <2>3 DEF ExistsBijection
  <2> QED
    BY <2>4, OccupiedFinite, FS_Bijection
<1>4. nx.count = 0
  BY <1>3, OccupiedFinite DEF SlotsOK, Counted, CancelState
<1>5. nx.contact = [i \in Slots |-> NoContact] /\ nx.pos \in [Slots -> Points \cup {NoPoint}]
  BY <1>2 DEF CancelState, Occupied, SlotsOK, SlotStates
<1>6. Occupied(nx) = {}
  BY <1>5 DEF Occupied
<1>7. nx \in SlotStates /\ Counted(nx)
  <2>1. nx = [contact |-> nx.contact, pos |-> nx.pos, count |-> nx.count]
    BY DEF CancelState
  <2>2. nx \in SlotStates
    BY <1>4, <1>5, <2>1, SlotCountAssumption DEF SlotStates
  <2> HIDE DEF nx
  <2> QED
    BY <1>4, <1>6, <2>2, FS_EmptySet DEF Counted
<1>8. SlotsOK(EmptyTouchState, nx)
  BY <1>5, <1>6, <1>7, ContactsAssumption
     DEF SlotsOK, Agree, EmptyTouchState, TouchStates, IsActive
<1> DEFINE d0 == DeviceTouch(d, st, nx)
<1>9. d0 \in Devices /\ d0.track = st.contact /\ (d0.touch <=> nx.count > 0)
  BY <1>7, TouchStep DEF SlotsOK, Shows
<1> HIDE DEF d0, nx
<1>10. dv = [d0 EXCEPT !.track = [i \in Slots |-> IF st.contact[i] \in C THEN NoContact
                                                   ELSE d0.track[i]]]
  BY DEF EmitCancel, d0
<1>11. dv \in Devices /\ dv.track = nx.contact /\ dv.touch = d0.touch
  BY <1>2, <1>5, <1>9, <1>10 DEF Devices, Occupied, SlotsOK, SlotStates
<1>12. Shows(dv, nx)
  BY <1>6, <1>9, <1>11 DEF Shows
<1> QED
  BY <1>1, <1>8, <1>11, <1>12 DEF nx

-----------------------------------------------------------------------------
(* The invariant *)

\* The conjunction of the invariants is inductive: no layer's agreement survives a
\* step without the others, since each layer plans from its own copy.
PipelineInv ==
  /\ TypeOK
  /\ EngineMatchesSlots
  /\ CountMatchesSlots
  /\ DeviceMatchesSlots
  /\ RejectionsAreResourceLimits
  /\ MetricsMatchEngine

\* A fresh session satisfies the invariant.
LEMMA InitInv == Init => PipelineInv
<1> SUFFICES ASSUME Init PROVE PipelineInv
  OBVIOUS
<1>1. Occupied(slots) = {} /\ Cardinality({}) = 0
  BY FS_EmptySet DEF Init, EmptySlots, Occupied
<1>2. TypeOK
  BY SlotCountAssumption
     DEF Init, TypeOK, EmptyTouchState, TouchStates, EmptySlots, SlotStates, NewDevice, Devices
<1>3. EngineMatchesSlots
  BY <1>1, ContactsAssumption
     DEF Init, EngineMatchesSlots, Agree, EmptyTouchState, EmptySlots, IsActive
<1>4. CountMatchesSlots
  BY <1>1 DEF Init, CountMatchesSlots, Counted, EmptySlots
<1>5. DeviceMatchesSlots
  BY <1>1 DEF Init, DeviceMatchesSlots, Shows, NewDevice, EmptySlots
<1>6. RejectionsAreResourceLimits
  BY DEF Init, RejectionsAreResourceLimits
<1>7. MetricsMatchEngine
  BY <1>1 DEF Init, MetricsMatchEngine, ActiveContacts, IsActive, EmptyTouchState
<1> QED
  BY <1>2, <1>3, <1>4, <1>5, <1>6, <1>7 DEF PipelineInv

\* A rejected frame leaves every layer alone.
LEMMA RejectedInv ==
  ASSUME PipelineInv, NEW why, Rejected(why),
         why \in {"ok", "invalid", "no_slot", "range", "emit"},
         why = "no_slot" => Occupied(slots) = Slots
  PROVE  PipelineInv'
BY DEF PipelineInv, Rejected, TypeOK, EngineMatchesSlots, CountMatchesSlots,
       DeviceMatchesSlots, RejectionsAreResourceLimits, MetricsMatchEngine

\* The session's contact set after C were put down and lifted.
LEMMA MetricsInv ==
  ASSUME NEW m \in [contacts : SUBSET Contacts, peak : Nat], NEW C \in SUBSET Contacts
  PROVE  /\ CountMetrics(m, C) \in [contacts : SUBSET Contacts, peak : Nat]
         /\ CountMetrics(m, C).contacts = C
         /\ Cardinality(C) <= CountMetrics(m, C).peak
<1>1. Cardinality(C) \in Nat
  BY ContactsAssumption, FS_Subset, FS_CardinalityType
<1> QED
  BY <1>1 DEF CountMetrics

\* A frame the engine finds valid preserves the invariant, however it ends.
LEMMA SubmitInv ==
  ASSUME PipelineInv, NEW frame, Submit(frame),
         ValidFrame(active, frame) => FrameOK(active, slots, device, frame),
         ValidFrame(active, frame) =>
           /\ MetricsAfter(metrics, frame) \in [contacts : SUBSET Contacts, peak : Nat]
           /\ MetricsAfter(metrics, frame).contacts = ActiveContacts(ApplyFrame(active, frame))
           /\ Cardinality(MetricsAfter(metrics, frame).contacts)
                <= MetricsAfter(metrics, frame).peak
  PROVE  PipelineInv'
<1>1. CASE ~ValidFrame(active, frame) /\ Rejected("invalid")
  BY <1>1, RejectedInv
<1>2. CASE ValidFrame(active, frame) /\ Rejected(InjectError(slots, frame))
  BY <1>2, RejectedInv DEF FrameOK
<1>3. CASE Rejected("emit")
  BY <1>3, RejectedInv
<1>4. CASE /\ ValidFrame(active, frame)
           /\ InjectError(slots, frame) = "ok"
           /\ device' = EmitFrame(device, slots, NextState(slots, frame), frame)
           /\ slots' = NextState(slots, frame)
           /\ metrics' = MetricsAfter(metrics, frame)
           /\ active' = ApplyFrame(active, frame)
           /\ result' = "ok"
  <2>1. SlotsOK(active', slots') /\ device' \in Devices /\ Shows(device', slots')
    BY <1>4 DEF FrameOK
  <2>2. MetricsMatchEngine' /\ metrics' \in [contacts : SUBSET Contacts, peak : Nat]
    BY <1>4 DEF MetricsMatchEngine
  <2> QED
    BY <1>4, <2>1, <2>2
       DEF PipelineInv, TypeOK, EngineMatchesSlots, CountMatchesSlots, DeviceMatchesSlots,
           RejectionsAreResourceLimits, SlotsOK
<1> QED
  BY <1>1, <1>2, <1>3, <1>4 DEF Submit

\* One-event frames.
LEMMA SingleInv ==
  ASSUME PipelineInv, NEW e \in TouchEvents, Submit(<<e>>)
  PROVE  PipelineInv'
<1> DEFINE fr == <<e>>
<1>1. fr[1] = e /\ DOMAIN fr = {1}
  OBVIOUS
<1>2. SlotsOK(active, slots) /\ device \in Devices /\ Shows(device, slots)
  BY DEF PipelineInv, TypeOK, SlotsOK, EngineMatchesSlots, CountMatchesSlots, DeviceMatchesSlots
<1>3. ValidFrame(active, fr) => (e.phase = "Down" <=> ~IsActive(active, e.contact))
  BY <1>1 DEF ValidFrame
<1>4. ValidFrame(active, fr) => FrameOK(active, slots, device, fr)
  BY <1>2, <1>3, SingleFrame
<1>5. ASSUME ValidFrame(active, fr)
      PROVE  /\ MetricsAfter(metrics, fr) \in [contacts : SUBSET Contacts, peak : Nat]
             /\ MetricsAfter(metrics, fr).contacts = ActiveContacts(ApplyFrame(active, fr))
             /\ Cardinality(MetricsAfter(metrics, fr).contacts) <= MetricsAfter(metrics, fr).peak
  <2> DEFINE C == (metrics.contacts \cup {c \in {e.contact} : e.phase = "Down"})
                    \ {c \in {e.contact} : Lifts(e)}
  <2>1. MetricsAfter(metrics, fr) = CountMetrics(metrics, C)
    BY <1>1 DEF MetricsAfter, Lifts
  <2>2. e.contact \in Contacts /\ e.position # NoPoint
    BY NoPointAssumption DEF TouchEvents
  <2>3. active \in TouchStates /\ metrics.contacts = ActiveContacts(active)
    BY DEF PipelineInv, TypeOK, MetricsMatchEngine
  <2>4. ApplyFrame(active, fr) = After(active, e)
    BY <2>3, ApplySingle
  <2>5. C = ActiveContacts(After(active, e))
    BY <1>3, <1>5, <2>2, <2>3 DEF ActiveContacts, After, IsActive, Lifts, TouchStates, TouchEvents
  <2>6. C \in SUBSET Contacts /\ metrics \in [contacts : SUBSET Contacts, peak : Nat]
    BY <2>5 DEF ActiveContacts, PipelineInv, TypeOK
  <2> HIDE DEF C, fr
  <2> QED
    BY <2>1, <2>4, <2>5, <2>6, MetricsInv
<1> HIDE DEF fr
<1> QED
  BY <1>4, <1>5, SubmitInv DEF fr

\* The recentering frame.
LEMMA PairInv ==
  ASSUME PipelineInv, NEW dn \in TouchEvents, NEW up \in TouchEvents,
         dn.phase = "Down", up.phase = "Up", Submit(<<dn, up>>)
  PROVE  PipelineInv'
<1> DEFINE fr == <<dn, up>>
<1>1. fr[1] = dn /\ fr[2] = up /\ DOMAIN fr = {1, 2}
  OBVIOUS
<1>2. SlotsOK(active, slots) /\ device \in Devices /\ Shows(device, slots)
  BY DEF PipelineInv, TypeOK, SlotsOK, EngineMatchesSlots, CountMatchesSlots, DeviceMatchesSlots
<1>3. ValidFrame(active, fr) =>
        ~IsActive(active, dn.contact) /\ IsActive(active, up.contact) /\ dn.contact # up.contact
  BY <1>1 DEF ValidFrame
<1>4. ValidFrame(active, fr) => FrameOK(active, slots, device, fr)
  BY <1>2, <1>3, PairFrame
<1>5. ASSUME ValidFrame(active, fr)
      PROVE  /\ MetricsAfter(metrics, fr) \in [contacts : SUBSET Contacts, peak : Nat]
             /\ MetricsAfter(metrics, fr).contacts = ActiveContacts(ApplyFrame(active, fr))
             /\ Cardinality(MetricsAfter(metrics, fr).contacts) <= MetricsAfter(metrics, fr).peak
  <2> DEFINE C == (metrics.contacts \cup {dn.contact}) \ {up.contact}
  <2>1. MetricsAfter(metrics, fr) = CountMetrics(metrics, C)
    <3>1. {j \in DOMAIN fr : fr[j].phase \in {"Down"}} = {1}
      BY <1>1
    <3>2. {j \in DOMAIN fr : fr[j].phase \in {"Up", "Cancel"}} = {2}
      BY <1>1
    <3> QED
      BY <1>1, <3>1, <3>2 DEF MetricsAfter
  <2>2. dn.contact \in Contacts /\ dn.position # NoPoint /\ up.contact \in Contacts
    BY NoPointAssumption DEF TouchEvents
  <2>3. active \in TouchStates /\ metrics.contacts = ActiveContacts(active)
    BY DEF PipelineInv, TypeOK, MetricsMatchEngine
  <2>4. ApplyFrame(active, fr) = After(After(active, dn), up)
    BY <1>3, <1>5, <2>3, ApplyPair
  <2>5. C = ActiveContacts(After(After(active, dn), up))
    BY <1>3, <1>5, <2>2, <2>3 DEF ActiveContacts, After, IsActive, Lifts, TouchStates
  <2>6. C \in SUBSET Contacts /\ metrics \in [contacts : SUBSET Contacts, peak : Nat]
    BY <2>5 DEF ActiveContacts, PipelineInv, TypeOK
  <2> HIDE DEF C, fr
  <2> QED
    BY <2>1, <2>4, <2>5, <2>6, MetricsInv
<1> HIDE DEF fr
<1> QED
  BY <1>4, <1>5, SubmitInv DEF fr

\* cancel_all.
LEMMA CancelAllInv ==
  ASSUME PipelineInv, CancelAll
  PROVE  PipelineInv'
<1> DEFINE C == ActiveContacts(active)
           next == CancelState(slots, C)
<1>1. SlotsOK(active, slots) /\ device \in Devices /\ Shows(device, slots)
  BY DEF PipelineInv, TypeOK, SlotsOK, EngineMatchesSlots, CountMatchesSlots, DeviceMatchesSlots
<1>2. /\ \A c \in C : Holding(slots, c) # {}
      /\ SlotsOK(EmptyTouchState, next)
      /\ EmitCancel(device, slots, next, C) \in Devices
      /\ Shows(EmitCancel(device, slots, next, C), next)
  BY <1>1, CancelFrame
<1>3. CASE Rejected("emit")
  BY <1>3, RejectedInv
<1>4. CASE /\ device' = EmitCancel(device, slots, next, C)
           /\ slots' = next
           /\ metrics' = CountMetrics(metrics, metrics.contacts \ C)
           /\ active' = EmptyTouchState
           /\ result' = "ok"
  <2>1. metrics \in [contacts : SUBSET Contacts, peak : Nat] /\ metrics.contacts \ C = {}
    BY DEF PipelineInv, TypeOK, MetricsMatchEngine
  <2>2. ActiveContacts(EmptyTouchState) = {}
    BY DEF ActiveContacts, EmptyTouchState, IsActive
  <2>3. MetricsMatchEngine' /\ metrics' \in [contacts : SUBSET Contacts, peak : Nat]
    BY <1>4, <2>1, <2>2, MetricsInv DEF MetricsMatchEngine
  <2> QED
    BY <1>2, <1>4, <2>3
       DEF PipelineInv, TypeOK, EngineMatchesSlots, CountMatchesSlots, DeviceMatchesSlots,
           RejectionsAreResourceLimits, SlotsOK
<1> QED
  BY <1>2, <1>3, <1>4 DEF CancelAll

\* Every operation of the engine preserves the invariant.
LEMMA NextInv == PipelineInv /\ [Next]_vars => PipelineInv'
<1> SUFFICES ASSUME PipelineInv, [Next]_vars PROVE PipelineInv'
  OBVIOUS
<1>1. \A c \in Contacts : IsActive(active, c) => active[c] \in Points
  BY DEF PipelineInv, TypeOK, TouchStates, IsActive
<1>2. ASSUME NEW c \in Contacts, NEW p \in Points, BeginContact(c, p)
      PROVE  PipelineInv'
  BY <1>2, SingleInv DEF BeginContact, TouchEvent, TouchEvents
<1>3. ASSUME NEW c \in Contacts, NEW p \in Points, MoveContact(c, p)
      PROVE  PipelineInv'
  BY <1>3, SingleInv DEF MoveContact, TouchEvent, TouchEvents
<1>4. ASSUME NEW c \in Contacts, EndContact(c)
      PROVE  PipelineInv'
  <2>1. CASE IsActive(active, c)
    BY <1>1, <1>4, <2>1, SingleInv DEF EndContact, TouchEvent, TouchEvents
  <2>2. CASE ~IsActive(active, c)
    BY <1>4, <2>2, RejectedInv DEF EndContact
  <2> QED
    BY <2>1, <2>2
<1>5. ASSUME NEW c \in Contacts, CancelContact(c)
      PROVE  PipelineInv'
  BY <1>1, <1>5, SingleInv DEF CancelContact, TouchEvent, TouchEvents
<1>6. ASSUME NEW new \in Contacts, NEW old \in Contacts, NEW p \in Points,
             Recenter(new, old, p)
      PROVE  PipelineInv'
  <2> DEFINE dn == TouchEvent(new, "Down", p)
             up == TouchEvent(old, "Up", active[old])
  <2>1. dn \in TouchEvents /\ up \in TouchEvents /\ dn.phase = "Down" /\ up.phase = "Up"
    BY <1>1, <1>6 DEF Recenter, TouchEvent, TouchEvents
  <2>2. Submit(<<dn, up>>)
    BY <1>6 DEF Recenter
  <2> QED
    BY <2>1, <2>2, PairInv
<1>7. CASE CancelAll
  BY <1>7, CancelAllInv
<1>8. CASE UNCHANGED vars
  BY <1>8 DEF vars, PipelineInv, TypeOK, EngineMatchesSlots, CountMatchesSlots,
             DeviceMatchesSlots, RejectionsAreResourceLimits, MetricsMatchEngine
<1> QED
  BY <1>2, <1>3, <1>4, <1>5, <1>6, <1>7, <1>8 DEF Next

\* The conjunction of the invariants holds in every reachable state.
THEOREM PipelineInvariant == Spec => []PipelineInv
BY InitInv, NextInv, PTL DEF Spec

\* Type correctness; in particular active_count stays within the slot count.
THEOREM TypeCorrect == Spec => []TypeOK
<1>1. PipelineInv => TypeOK
  BY DEF PipelineInv
<1> QED
  BY <1>1, PipelineInvariant, PTL

\* After any sequence of accepted, refused and failed frames, for any number of
\* contacts and slots, the injector's slot table is the engine's contact map.
THEOREM EngineAgreement == Spec => []EngineMatchesSlots
<1>1. PipelineInv => EngineMatchesSlots
  BY DEF PipelineInv
<1> QED
  BY <1>1, PipelineInvariant, PTL

\* ... and the kernel device shows exactly that table.
THEOREM DeviceAgreement == Spec => []DeviceMatchesSlots
<1>1. PipelineInv => DeviceMatchesSlots
  BY DEF PipelineInv
<1> QED
  BY <1>1, PipelineInvariant, PTL

\* Engine, slot table and kernel device agree at once.
THEOREM LayersAlwaysAgree == Spec => []LayersAgree
<1>1. PipelineInv => LayersAgree
  BY DEF PipelineInv, LayersAgree
<1> QED
  BY <1>1, PipelineInvariant, PTL

\* A frame the engine lets through is refused only for a full slot table, an
\* off-screen position or an I/O error.
THEOREM ResourceRejections == Spec => []RejectionsAreResourceLimits
<1>1. PipelineInv => RejectionsAreResourceLimits
  BY DEF PipelineInv
<1> QED
  BY <1>1, PipelineInvariant, PTL

=============================================================================
