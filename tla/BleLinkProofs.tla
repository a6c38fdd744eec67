--------------------------- MODULE BleLinkProofs ---------------------------
(***************************************************************************)
(* Theorems about BleLink, for any number of handles, slots, connections,  *)
(* waiting events and resets.                                              *)
(*                                                                         *)
(* What the host does not know yet is in `events'.  The invariant behind   *)
(* the theorems says that the handles the host will believe connected, as  *)
(* it handles one waiting event after the other, lead from the slots that  *)
(* are taken now to the links that the controller has now.                 *)
(***************************************************************************)
EXTENDS BleLink, SequenceTheorems, FiniteSetTheorems, TLAPS

Event  == [type: {"connect", "disconnect", "adv"}, conn: Handle \union {NoConn}]
Record == [conn: Handle \union {NoConn}, data: Written]

TypeInv ==
    /\ link \subseteq Handle /\ adv \in BOOLEAN /\ synced \in BOOLEAN
    /\ events \in Seq(Event)
    /\ slots \in [Slot -> Record]
    /\ walk \in 0..NumSlots /\ term \subseteq link /\ resets \in 0..MaxResets
    /\ wrote \in [Handle -> Written]

\* A connection has one slot.
OneSlotEach ==
    \A i, j \in Slot : slots[i].conn = slots[j].conn /\ slots[i].conn \in Handle => i = j

\* What the controller can hold.
Holdable(set) == IsFiniteSet(set) /\ Cardinality(set) <= MaxConnections

\* Event e leads from the connections s to the connections t.
Follows(s, e, t) ==
    \/ e.type = "adv" /\ t = s
    \/ e.type = "connect" /\ e.conn \in Handle \ s /\ t = s \union {e.conn}
    \/ e.type = "disconnect" /\ e.conn \in s /\ t = s \ {e.conn}

\* V[k] is what the host believes connected after k events of es.
Views(V, es, first, last) ==
    /\ V \in [0..Len(es) -> SUBSET Handle]
    /\ V[0] = first /\ V[Len(es)] = last
    /\ \A k \in 0..Len(es) : Holdable(V[k])
    /\ \A k \in 1..Len(es) : Follows(V[k - 1], es[k], V[k])

EventsLead == \E V : Views(V, events, Taken, link)

CountedRight    == active = Cardinality(Taken)
RoomToAdvertise == adv => Cardinality(link) < MaxConnections

Inv == TypeInv /\ OneSlotEach /\ EventsLead /\ CountedRight /\ RoomToAdvertise

-----------------------------------------------------------------------------
(* Sequences of events.                                                    *)

(* One more event adds one more view.                                      *)
LEMMA Extended ==
    ASSUME NEW es \in Seq(Event), NEW first, NEW last, NEW V, Views(V, es, first, last),
           NEW e \in Event, NEW new \in SUBSET Handle,
           Holdable(new), Follows(last, e, new)
    PROVE  \E W : Views(W, Append(es, e), first, new)
<1>1. PICK n \in Nat : Len(es) = n
  BY LenProperties
<1> DEFINE W == [k \in 0..(n + 1) |-> IF k <= n THEN V[k] ELSE new]
           more == Append(es, e)
<1>2. Len(more) = n + 1 /\ more[n + 1] = e /\ \A k \in 1..n : more[k] = es[k]
  BY <1>1
<1>3. /\ V \in [0..n -> SUBSET Handle] /\ V[0] = first /\ V[n] = last
      /\ \A k \in 0..n : Holdable(V[k])
      /\ \A k \in 1..n : Follows(V[k - 1], es[k], V[k])
  BY <1>1 DEF Views
<1> HIDE DEF more
<1>4. \A k \in 0..(n + 1) : W[k] = IF k <= n THEN V[k] ELSE new
  OBVIOUS
<1>5. W \in [0..(n + 1) -> SUBSET Handle] /\ W[0] = first /\ W[n + 1] = new
  BY <1>3
<1> HIDE DEF W
<1>6. \A k \in 0..(n + 1) : Holdable(W[k])
  BY <1>3, <1>4
<1>7. \A k \in 1..(n + 1) : Follows(W[k - 1], more[k], W[k])
  <2> TAKE k \in 1..(n + 1)
  <2>1. CASE k \in 1..n
    <3>1. W[k - 1] = V[k - 1] /\ W[k] = V[k] /\ more[k] = es[k]
      BY <1>2, <1>4, <2>1
    <3> QED
      BY <1>3, <2>1, <3>1
  <2>2. CASE k = n + 1
    <3>1. W[k - 1] = last /\ W[k] = new /\ more[k] = e
      BY <1>2, <1>3, <1>4, <2>2
    <3> QED
      BY <3>1
  <2> QED
    BY <2>1, <2>2
<1>8. Views(W, more, first, new)
  BY <1>2, <1>5, <1>6, <1>7 DEF Views
<1> QED
  BY <1>8 DEF more

(* Handling the first event leaves the later views.                        *)
LEMMA Shifted ==
    ASSUME NEW es \in Seq(Event), es # <<>>, NEW first, NEW last, NEW V,
           Views(V, es, first, last)
    PROVE  /\ V[1] \subseteq Handle /\ Holdable(V[1]) /\ Follows(first, Head(es), V[1])
           /\ \E W : Views(W, Tail(es), V[1], last)
<1>1. PICK n \in Nat : Len(es) = n
  BY LenProperties
<1> DEFINE W == [k \in 0..(n - 1) |-> V[k + 1]]
           rest == Tail(es)
<1>2. n >= 1 /\ Head(es) = es[1]
  BY <1>1, EmptySeq
<1>3. Len(rest) = n - 1 /\ \A k \in 1..(n - 1) : rest[k] = es[k + 1]
  BY <1>1, HeadTailProperties
<1>4. /\ V \in [0..n -> SUBSET Handle] /\ V[0] = first /\ V[n] = last
      /\ \A k \in 0..n : Holdable(V[k])
      /\ \A k \in 1..n : Follows(V[k - 1], es[k], V[k])
  BY <1>1 DEF Views
<1> HIDE DEF rest
<1>5. \A k \in 0..(n - 1) : W[k] = V[k + 1]
  OBVIOUS
<1>6. W \in [0..(n - 1) -> SUBSET Handle] /\ W[0] = V[1] /\ W[n - 1] = last
  BY <1>2, <1>4
<1> HIDE DEF W
<1>7. \A k \in 0..(n - 1) : Holdable(W[k])
  BY <1>4, <1>5
<1>8. \A k \in 1..(n - 1) : Follows(W[k - 1], rest[k], W[k])
  <2> TAKE k \in 1..(n - 1)
  <2>1. W[k - 1] = V[k] /\ W[k] = V[k + 1] /\ rest[k] = es[k + 1]
    BY <1>3, <1>5
  <2>2. k + 1 \in 1..n /\ (k + 1) - 1 = k
    BY <1>2
  <2>3. Follows(V[(k + 1) - 1], es[k + 1], V[k + 1])
    BY <1>4, <2>2
  <2> QED
    BY <2>1, <2>2, <2>3
<1>9. Views(W, rest, V[1], last)
  BY <1>3, <1>6, <1>7, <1>8 DEF Views
<1>10. Follows(V[0], es[1], V[1]) /\ 1 \in 0..n
  <2>1. 1 \in 1..n /\ 1 - 1 = 0
    BY <1>2
  <2> QED
    BY <1>4, <2>1
<1> QED
  BY <1>2, <1>4, <1>9, <1>10 DEF rest

(* SetToSeq enumerates a finite set.                                       *)
LEMMA Enumerates ==
    ASSUME NEW S, IsFiniteSet(S)
    PROVE  /\ Cardinality(S) \in Nat
           /\ SetToSeq(S) \in [1..Cardinality(S) -> S]
           /\ \A i, j \in 1..Cardinality(S) : SetToSeq(S)[i] = SetToSeq(S)[j] => i = j
           /\ \A x \in S : \E i \in 1..Cardinality(S) : SetToSeq(S)[i] = x
<1> DEFINE n == Cardinality(S)
           q == SetToSeq(S)
<1>1. n \in Nat /\ ExistsBijection(1..n, S)
  BY FS_CardinalityType
<1>2. PICK f : f \in [1..n -> S] /\ IsInjective(f)
  BY <1>1 DEF ExistsBijection, Bijection, Injection
<1>3. q \in [1..n -> S] /\ IsInjective(q)
  BY <1>2 DEF SetToSeq
<1> HIDE DEF q, n
<1>4. q \in Injection(1..n, S)
  BY <1>3 DEF Injection
<1>5. Cardinality(1..n) = n /\ IsFiniteSet(1..n)
  <2>1. 1 \in Int /\ n \in Int
    BY <1>1
  <2> QED
    BY <1>1, <2>1, FS_Interval
<1>6. q \in Surjection(1..n, S)
  BY <1>4, <1>5, FS_Injection DEF n
<1>7. \A x \in S : \E i \in 1..n : q[i] = x
  BY <1>6 DEF Surjection
<1>8. \A i, j \in 1..n : q[i] = q[j] => i = j
  BY <1>3 DEF IsInjective
<1> QED
  BY <1>1, <1>3, <1>7, <1>8 DEF n, q

(* The disconnections that a reset of the stack reports lead to no         *)
(* connection at all.                                                      *)
LEMMA Drained ==
    ASSUME NEW S \in SUBSET Handle, Holdable(S)
    PROVE  LET es == [i \in DOMAIN SetToSeq(S) |->
                        [type |-> "disconnect", conn |-> SetToSeq(S)[i]]]
           IN  es \in Seq(Event) /\ \E W : Views(W, es, S, {})
<1> DEFINE q == SetToSeq(S)
           n == Cardinality(S)
           es == [i \in DOMAIN q |-> [type |-> "disconnect", conn |-> q[i]]]
           gone(k) == { q[i] : i \in 1..k }
           W == [k \in 0..n |-> S \ gone(k)]
<1>1. /\ n \in Nat /\ n <= MaxConnections /\ IsFiniteSet(S)
      /\ q \in [1..n -> S]
      /\ \A i, j \in 1..n : q[i] = q[j] => i = j
      /\ \A x \in S : \E i \in 1..n : q[i] = x
  BY Enumerates DEF Holdable
<1> HIDE DEF q
<1>2. /\ es \in Seq(Event) /\ Len(es) = n
      /\ \A i \in 1..n : es[i] = [type |-> "disconnect", conn |-> q[i]]
  <2>1. \A i \in 1..n : [type |-> "disconnect", conn |-> q[i]] \in Event
    BY <1>1 DEF Event
  <2>2. es = [i \in 1..n |-> [type |-> "disconnect", conn |-> q[i]]]
    BY <1>1
  <2> QED
    BY <1>1, <2>1, <2>2
<1> HIDE DEF es
<1>3. \A k \in 0..n : W[k] = S \ gone(k)
  OBVIOUS
<1>4. W \in [0..n -> SUBSET Handle]
  OBVIOUS
<1> HIDE DEF W
<1>5. W[0] = S /\ W[n] = {}
  <2>1. gone(0) = {} /\ gone(n) = S /\ 0 \in 0..n /\ n \in 0..n
    BY <1>1
  <2> HIDE DEF gone
  <2> QED
    BY <1>3, <2>1
<1>6. \A k \in 0..n : Holdable(W[k])
  <2> TAKE k \in 0..n
  <2>1. W[k] \in SUBSET S
    BY <1>3
  <2>2. /\ IsFiniteSet(W[k]) /\ Cardinality(W[k]) <= n
    BY <1>1, <2>1, FS_Subset
  <2>3. Cardinality(W[k]) \in Nat
    BY <2>2, FS_CardinalityType
  <2> QED
    BY <1>1, <2>2, <2>3, SlotsAssumption DEF Holdable
<1>7. \A k \in 1..n : Follows(W[k - 1], es[k], W[k])
  <2> TAKE k \in 1..n
  <2>1. gone(k) = gone(k - 1) \union {q[k]} /\ q[k] \notin gone(k - 1) /\ q[k] \in S
    BY <1>1
  <2>2. k - 1 \in 0..n /\ k \in 0..n
    BY <1>1
  <2>3. W[k - 1] = S \ gone(k - 1) /\ W[k] = S \ gone(k)
    BY <1>3, <2>2
  <2> HIDE DEF gone
  <2>4. q[k] \in W[k - 1] /\ W[k] = W[k - 1] \ {q[k]}
    BY <2>1, <2>3
  <2>5. es[k].type = "disconnect" /\ es[k].conn = q[k]
    BY <1>2
  <2> QED
    BY <2>4, <2>5 DEF Follows
<1>8. Views(W, es, S, {})
  BY <1>2, <1>4, <1>5, <1>6, <1>7 DEF Views
<1> QED
  BY <1>2, <1>8 DEF es, q

-----------------------------------------------------------------------------
(* The slots.                                                              *)

(* The connections that have a slot depend on the slots alone.             *)
LEMMA SlotsKept ==
    ASSUME UNCHANGED slots
    PROVE  Taken' = Taken /\ (OneSlotEach => OneSlotEach')
BY DEF Taken, Held, OneSlotEach

(* A connection that takes a free slot is one more.                        *)
LEMMA Occupying ==
    ASSUME TypeInv, OneSlotEach, NEW h \in Handle \ Taken, NEW i \in Slot,
           slots[i].conn = NoConn, slots' = Occupied(i, h)
    PROVE  /\ slots' \in [Slot -> Record] /\ OneSlotEach'
           /\ Taken' = Taken \union {h}
<1> DEFINE new == [Free EXCEPT !.conn = h]
<1>1. new \in Record /\ new.conn = h
  BY DEF Free, Unset, Record, Written
<1>2. slots' = [slots EXCEPT ![i] = new]
  BY DEF Occupied
<1> HIDE DEF new
<1>3. /\ slots' \in [Slot -> Record]
      /\ \A j \in Slot : slots'[j] = IF j = i THEN new ELSE slots[j]
  BY <1>1, <1>2 DEF TypeInv
<1>4. \A j \in Slot : slots[j].conn # h
  BY DEF Taken, Held
<1>5. OneSlotEach'
  BY <1>1, <1>3, <1>4 DEF OneSlotEach
<1>6. Taken' = Taken \union {h}
  BY <1>1, <1>3, NoConnAssumption DEF Taken, Held
<1> QED
  BY <1>3, <1>5, <1>6

(* A connection whose slot is released is one less.                        *)
LEMMA Releasing ==
    ASSUME TypeInv, OneSlotEach, NEW h \in Handle, slots' = Released(h)
    PROVE  /\ slots' \in [Slot -> Record] /\ OneSlotEach'
           /\ Taken' = Taken \ {h}
<1>1. /\ slots' \in [Slot -> Record]
      /\ \A j \in Slot : slots'[j].conn = IF slots[j].conn = h THEN NoConn ELSE slots[j].conn
  BY DEF Released, TypeInv, Record
<1>2. OneSlotEach'
  BY <1>1, NoConnAssumption DEF OneSlotEach
<1>3. Taken' = Taken \ {h}
  BY <1>1, NoConnAssumption DEF Taken, Held
<1> QED
  BY <1>1, <1>2, <1>3

(* What a client writes goes to the slot of its connection.                *)
LEMMA Writing ==
    ASSUME TypeInv, OneSlotEach, NEW h \in Handle, NEW i \in Slot, NEW data \in Written,
           Put(h, i, data)
    PROVE  /\ slots' \in [Slot -> Record] /\ OneSlotEach' /\ Taken' = Taken
           /\ wrote' \in [Handle -> Written]
<1> DEFINE new == [slots[i] EXCEPT !.data = data]
<1>1. new \in Record /\ new.conn = slots[i].conn
  BY DEF TypeInv, Record
<1>2. slots' = [slots EXCEPT ![i] = new] /\ wrote' = [wrote EXCEPT ![h] = data]
  BY DEF Put
<1> HIDE DEF new
<1>3. /\ slots' \in [Slot -> Record]
      /\ \A j \in Slot : slots'[j].conn = slots[j].conn
  BY <1>1, <1>2 DEF TypeInv
<1>4. OneSlotEach' /\ Taken' = Taken
  BY <1>3 DEF OneSlotEach, Taken, Held
<1> QED
  BY <1>2, <1>3, <1>4 DEF TypeInv

(* While the controller holds fewer connections than there are slots, one  *)
(* is free: DkAuth_OnConnect never finds the array full.                   *)
LEMMA SlotIsFree ==
    ASSUME TypeInv, OneSlotEach, IsFiniteSet(Taken), Cardinality(Taken) < NumSlots
    PROVE  Held(NoConn) # {}
<1> SUFFICES ASSUME Held(NoConn) = {} PROVE FALSE
  OBVIOUS
<1> DEFINE f == [i \in Slot |-> slots[i].conn]
<1>1. \A i \in Slot : slots[i].conn \in Taken
  BY DEF TypeInv, Record, Taken, Held
<1>2. f \in [Slot -> Taken] /\ \A i, j \in Slot : f[i] = f[j] => i = j
  BY <1>1 DEF OneSlotEach, Taken
<1> HIDE DEF f
<1>3. f \in Injection(Slot, Taken)
  BY <1>2 DEF Injection, IsInjective
<1>4. Cardinality(Slot) <= Cardinality(Taken)
  BY <1>3, FS_Injection
<1>5. Cardinality(Slot) = NumSlots
  <2>1. 1 \in Int /\ NumSlots \in Int /\ NumSlots > 0
    BY SlotsAssumption
  <2> QED
    BY <2>1, FS_Interval DEF Slot
<1>6. Cardinality(Taken) \in Nat /\ NumSlots \in Nat
  BY FS_CardinalityType, SlotsAssumption
<1> QED
  BY <1>4, <1>5, <1>6

-----------------------------------------------------------------------------
(* The steps.                                                              *)

(* The connections of the slots and those of the controller are few.       *)
LEMMA Bounded ==
    ASSUME Inv
    PROVE  /\ Holdable(Taken) /\ Cardinality(Taken) \in Nat
           /\ Holdable(link) /\ Cardinality(link) \in Nat
<1>1. PICK V : Views(V, events, Taken, link)
  BY DEF Inv, EventsLead
<1>2. Len(events) \in Nat
  BY LenProperties DEF Inv, TypeInv
<1>3. Holdable(Taken) /\ Holdable(link)
  BY <1>1, <1>2 DEF Views
<1> QED
  BY <1>3, FS_CardinalityType DEF Holdable

(* Advertising starts only where there is room.                            *)
LEMMA Starting ==
    ASSUME Inv, NEW n, StartAdvertising(n), UNCHANGED link
    PROVE  adv' \in BOOLEAN /\ RoomToAdvertise'
BY DEF StartAdvertising, RoomToAdvertise, Inv, TypeInv

(* Something happens that the host is told later.                          *)
LEMMA Telling ==
    ASSUME Inv, NEW type \in {"connect", "disconnect", "adv"}, NEW h \in Handle \union {NoConn},
           Happens(type, h), UNCHANGED slots, link' \subseteq Handle, Holdable(link'),
           Follows(link, [type |-> type, conn |-> h], link')
    PROVE  events' \in Seq(Event) /\ EventsLead'
<1> DEFINE e == [type |-> type, conn |-> h]
<1>1. PICK V : Views(V, events, Taken, link)
  BY DEF Inv, EventsLead
<1>2. e \in Event /\ events \in Seq(Event)
  BY DEF Event, Inv, TypeInv
<1>3. events' = Append(events, e)
  BY DEF Happens
<1> HIDE DEF e
<1>4. \E W : Views(W, Append(events, e), Taken, link')
  BY <1>1, <1>2, Extended DEF e
<1> QED
  BY <1>2, <1>3, <1>4, SlotsKept DEF EventsLead

(* The host handles an event, and its connections are those of the next    *)
(* view.                                                                   *)
LEMMA Handling ==
    ASSUME Inv, NEW type, NEW h, Handles(type, h)
    PROVE  /\ events' \in Seq(Event)
           /\ \E next \in SUBSET Handle :
                 /\ Holdable(next) /\ Follows(Taken, [type |-> type, conn |-> h], next)
                 /\ Taken' = next => EventsLead'
<1>1. PICK V : Views(V, events, Taken, link)
  BY DEF Inv, EventsLead
<1>2. /\ events \in Seq(Event) /\ events # <<>> /\ events' = Tail(events) /\ link' = link
      /\ Head(events) = [type |-> type, conn |-> h]
  BY DEF Inv, TypeInv, Handles
<1>3. /\ V[1] \subseteq Handle /\ Holdable(V[1]) /\ Follows(Taken, Head(events), V[1])
      /\ \E W : Views(W, Tail(events), V[1], link)
  BY <1>1, <1>2, Shifted
<1>4. Tail(events) \in Seq(Event)
  BY <1>2, HeadTailProperties
<1>5. Taken' = V[1] => EventsLead'
  BY <1>2, <1>3 DEF EventsLead
<1> QED
  BY <1>2, <1>3, <1>4, <1>5

(* DkAuth_OnConnect has a slot for the connection that it is told about.   *)
LEMMA ConnectFindsSlot ==
    ASSUME Inv, NEW h \in Handle,
           events # <<>>, Head(events) = [type |-> "connect", conn |-> h]
    PROVE  Held(NoConn) # {}
<1>0. PICK V : Views(V, events, Taken, link)
  BY DEF Inv, EventsLead
<1>1. PICK next \in SUBSET Handle :
        Holdable(next) /\ Follows(Taken, [type |-> "connect", conn |-> h], next)
  BY <1>0, Shifted DEF Inv, TypeInv
<1>2. h \notin Taken /\ next = Taken \union {h}
  BY <1>1 DEF Follows
<1>3. Holdable(Taken) /\ Cardinality(Taken) \in Nat
  BY Bounded
<1>4. Cardinality(Taken) + 1 <= MaxConnections
  BY <1>1, <1>2, <1>3, FS_AddElement DEF Holdable
<1>5. Cardinality(Taken) < NumSlots
  BY <1>3, <1>4, SlotsAssumption
<1> QED
  BY <1>3, <1>5, SlotIsFree DEF Holdable, Inv

(* Events of the controller.                                               *)
LEMMA ControllerKeeps ==
    ASSUME Inv, Controller
    PROVE  Inv'
<1>0. /\ TypeInv /\ OneSlotEach /\ CountedRight /\ RoomToAdvertise
      /\ Holdable(link) /\ Cardinality(link) \in Nat
      /\ Holdable(Taken)
  BY Bounded DEF Inv
<1>1. ASSUME NEW h \in Handle, Arrive(h) PROVE Inv'
  <2>1. link' = link \union {h} /\ h \notin link /\ adv /\ link' \subseteq Handle
    BY <1>0, <1>1 DEF Arrive, TypeInv
  <2>2. Holdable(link')
    <3>1. IsFiniteSet(link') /\ Cardinality(link') = Cardinality(link) + 1
      BY <1>0, <2>1, FS_AddElement DEF Holdable
    <3> QED
      BY <1>0, <2>1, <3>1, SlotsAssumption DEF RoomToAdvertise, Holdable
  <2>3. events' \in Seq(Event) /\ EventsLead'
    <3>1. Follows(link, [type |-> "connect", conn |-> h], link')
      BY <2>1 DEF Follows
    <3> QED
      BY <1>1, <2>1, <2>2, <3>1, Telling DEF Arrive
  <2>4. TypeInv'
    BY <1>0, <1>1, <2>1, <2>3 DEF TypeInv, Arrive, walkVars
  <2> QED
    BY <1>0, <1>1, <2>3, <2>4, SlotsKept DEF Inv, Arrive, CountedRight, RoomToAdvertise
<1>2. CASE AdvEnds
  <2>1. events' \in Seq(Event) /\ EventsLead'
    <3>1. Follows(link, [type |-> "adv", conn |-> NoConn], link')
      BY <1>2 DEF Follows, AdvEnds
    <3> QED
      BY <1>0, <1>2, <3>1, Telling DEF AdvEnds, TypeInv
  <2>2. TypeInv'
    BY <1>0, <1>2, <2>1 DEF TypeInv, AdvEnds, walkVars
  <2> QED
    BY <1>0, <1>2, <2>1, <2>2, SlotsKept DEF Inv, AdvEnds, CountedRight, RoomToAdvertise
<1>3. ASSUME NEW h \in Handle, Depart(h) PROVE Inv'
  <2>1. link' = link \ {h} /\ h \in link /\ link' \subseteq Handle
    BY <1>0, <1>3 DEF Depart, TypeInv
  <2>2. IsFiniteSet(link') /\ Cardinality(link') = Cardinality(link) - 1
    BY <1>0, <2>1, FS_RemoveElement DEF Holdable
  <2>3. Holdable(link') /\ RoomToAdvertise'
    BY <1>0, <1>3, <2>2, SlotsAssumption DEF Holdable, RoomToAdvertise, Depart
  <2>4. events' \in Seq(Event) /\ EventsLead'
    <3>1. Follows(link, [type |-> "disconnect", conn |-> h], link')
      BY <2>1 DEF Follows
    <3> QED
      BY <1>3, <2>1, <2>3, <3>1, Telling DEF Depart
  <2>5. TypeInv'
    BY <1>0, <1>3, <2>1, <2>4 DEF TypeInv, Depart
  <2> QED
    BY <1>0, <1>3, <2>3, <2>4, <2>5, SlotsKept DEF Inv, Depart, CountedRight
<1>4. CASE StackReset
  <2>1. events' \in Seq(Event) /\ \E W : Views(W, events', Taken, {})
    <3>1. Taken \in SUBSET Handle
      BY DEF Taken
    <3> QED
      BY <1>0, <1>4, <3>1, Drained DEF StackReset
  <2>2. Taken' = Taken /\ OneSlotEach'
    BY <1>0, <1>4, SlotsKept DEF StackReset
  <2>3. EventsLead'
    BY <1>4, <2>1, <2>2 DEF EventsLead, StackReset
  <2>4. TypeInv'
    <3>1. /\ link' = {} /\ term' = {} /\ adv' = FALSE /\ synced' = FALSE
          /\ resets' \in 0..MaxResets
          /\ UNCHANGED <<slots, walk, wrote>>
      BY <1>0, <1>4, SlotsAssumption DEF StackReset, TypeInv
    <3> QED
      BY <1>0, <2>1, <3>1 DEF TypeInv
  <2> QED
    BY <1>0, <1>4, <2>2, <2>3, <2>4 DEF Inv, StackReset, CountedRight, RoomToAdvertise
<1> QED
  BY <1>1, <1>2, <1>3, <1>4 DEF Controller

(* The host's handlers.                                                    *)
LEMMA HostKeeps ==
    ASSUME Inv, HostStep
    PROVE  Inv'
<1>0. /\ TypeInv /\ OneSlotEach /\ CountedRight
      /\ Holdable(Taken) /\ Cardinality(Taken) \in Nat
  BY Bounded DEF Inv
<1>1. CASE OnAdvEnd
  <2>1. adv' \in BOOLEAN /\ RoomToAdvertise'
    BY <1>1, Starting DEF OnAdvEnd, Handles
  <2>2. PICK next \in SUBSET Handle :
          /\ Follows(Taken, [type |-> "adv", conn |-> NoConn], next)
          /\ Taken' = next => EventsLead'
    BY <1>1, Handling DEF OnAdvEnd
  <2>3. Taken' = next /\ OneSlotEach'
    BY <1>0, <1>1, <2>2, SlotsKept DEF OnAdvEnd, Follows
  <2>4. events' \in Seq(Event)
    BY <1>1, Handling DEF OnAdvEnd
  <2>5. TypeInv'
    BY <1>0, <1>1, <2>1, <2>4 DEF TypeInv, OnAdvEnd, Handles, walkVars
  <2>6. CountedRight'
    BY <1>0, <1>1, SlotsKept DEF OnAdvEnd, CountedRight
  <2> QED
    BY <2>1, <2>2, <2>3, <2>5, <2>6 DEF Inv
<1>2. CASE OnStackSync
  <2>1. adv' \in BOOLEAN /\ RoomToAdvertise'
    BY <1>2, Starting DEF OnStackSync
  <2>2. TypeInv'
    BY <1>0, <1>2, <2>1 DEF TypeInv, OnStackSync, walkVars
  <2>3. EventsLead'
    BY <1>2, SlotsKept DEF OnStackSync, EventsLead, Inv
  <2>4. OneSlotEach' /\ CountedRight'
    BY <1>0, <1>2, SlotsKept DEF OnStackSync, CountedRight
  <2> QED
    BY <2>1, <2>2, <2>3, <2>4 DEF Inv
<1>3. ASSUME NEW h \in Handle, OnConnect(h) PROVE Inv'
  <2>1. Handles("connect", h) /\ active' = active + 1 /\ StartAdvertising(active')
    BY <1>3 DEF OnConnect
  <2>2. adv' \in BOOLEAN /\ RoomToAdvertise'
    BY <2>1, Starting DEF Handles
  <2>3. PICK next \in SUBSET Handle :
          /\ Holdable(next) /\ Follows(Taken, [type |-> "connect", conn |-> h], next)
          /\ Taken' = next => EventsLead'
    BY <2>1, Handling
  <2>4. h \in Handle \ Taken /\ next = Taken \union {h}
    BY <2>3 DEF Follows
  <2>5. Cardinality(next) = Cardinality(Taken) + 1
    BY <1>0, <2>4, FS_AddElement DEF Holdable
  <2>6. Held(NoConn) # {}
    BY <2>1, ConnectFindsSlot DEF Handles
  <2>7. PICK i \in Slot : slots[i].conn = NoConn /\ slots' = Occupied(i, h)
    BY <1>3, <2>6 DEF OnConnect, FirstFree
  <2>8. slots' \in [Slot -> Record] /\ OneSlotEach' /\ Taken' = next
    BY <1>0, <2>4, <2>7, Occupying
  <2>9. CountedRight'
    BY <1>0, <2>1, <2>5, <2>8 DEF CountedRight
  <2>10. wrote' \in [Handle -> Written] /\ events' \in Seq(Event)
    BY <1>0, <1>3, <2>1, Handling DEF OnConnect, TypeInv, Unset, Written
  <2>11. TypeInv'
    BY <1>0, <2>1, <2>2, <2>8, <2>10 DEF TypeInv, Handles, walkVars
  <2> QED
    BY <2>2, <2>3, <2>8, <2>9, <2>11 DEF Inv
<1>4. ASSUME NEW h \in Handle, OnDisconnect(h) PROVE Inv'
  <2>1. Handles("disconnect", h) /\ active' = CountDown /\ StartAdvertising(active')
    BY <1>4 DEF OnDisconnect
  <2>2. adv' \in BOOLEAN /\ RoomToAdvertise'
    BY <2>1, Starting DEF Handles
  <2>3. PICK next \in SUBSET Handle :
          /\ Follows(Taken, [type |-> "disconnect", conn |-> h], next)
          /\ Taken' = next => EventsLead'
    BY <2>1, Handling
  <2>4. h \in Taken /\ next = Taken \ {h}
    BY <2>3 DEF Follows
  <2>5. Cardinality(next) = Cardinality(Taken) - 1 /\ Cardinality(next) \in Nat
    <3>1. IsFiniteSet(next) /\ Cardinality(next) = Cardinality(Taken) - 1
      BY <1>0, <2>4, FS_RemoveElement DEF Holdable
    <3> QED
      BY <3>1, FS_CardinalityType
  <2>6. slots' \in [Slot -> Record] /\ OneSlotEach' /\ Taken' = next
    BY <1>0, <1>4, <2>4, Releasing DEF OnDisconnect
  <2>7. CountedRight'
    BY <1>0, <2>1, <2>5, <2>6 DEF CountedRight, CountDown
  <2>8. events' \in Seq(Event)
    BY <2>1, Handling
  <2>9. TypeInv'
    BY <1>0, <1>4, <2>1, <2>2, <2>6, <2>8 DEF TypeInv, Handles, walkVars, OnDisconnect
  <2> QED
    BY <2>2, <2>3, <2>6, <2>7, <2>9 DEF Inv
<1> QED
  BY <1>1, <1>2, <1>3, <1>4 DEF HostStep

(* What a client does to its slot.                                         *)
LEMMA Putting ==
    ASSUME TypeInv, NEW h \in Handle, NEW i \in Slot, Client(h, i)
    PROVE  \E data \in Written : Put(h, i, data)
<1>1. slots[i].data \in Written
  BY DEF TypeInv, Record
<1> QED
  BY <1>1 DEF Client, OnSubscribe, WriteDeviceAuth, ReadDeviceAuth, Written

(* Every step keeps the invariant.                                         *)
LEMMA InvInductive == Inv /\ [Next]_vars => Inv'
<1> SUFFICES ASSUME Inv, [Next]_vars PROVE Inv'
  OBVIOUS
<1>0. TypeInv /\ OneSlotEach /\ CountedRight /\ RoomToAdvertise /\ EventsLead
  BY DEF Inv
<1>1. ASSUME NEW h \in Handle, NEW i \in Slot, Client(h, i) PROVE Inv'
  <2>1. PICK data \in Written : Put(h, i, data)
    BY <1>0, <1>1, Putting
  <2>2. /\ slots' \in [Slot -> Record] /\ OneSlotEach' /\ Taken' = Taken
        /\ wrote' \in [Handle -> Written]
    BY <1>0, <2>1, Writing
  <2> QED
    BY <1>0, <2>1, <2>2
       DEF Put, stackVars, walkVars, Inv, TypeInv, EventsLead, CountedRight, RoomToAdvertise
<1>2. CASE FactoryReset
  <2>1. TypeInv'
    BY <1>0, <1>2, SlotsAssumption DEF FactoryReset, stackVars, TypeInv
  <2> QED
    BY <1>0, <1>2, <2>1, SlotsKept
       DEF FactoryReset, stackVars, Inv, EventsLead, CountedRight, RoomToAdvertise
<1>3. CASE TerminateSlot
  <2>1. TypeInv'
    BY <1>0, <1>3, SlotsAssumption
       DEF TerminateSlot, Terminated, LastSlot, Slot, stackVars, TypeInv
  <2> QED
    BY <1>0, <1>3, <2>1, SlotsKept
       DEF TerminateSlot, stackVars, Inv, EventsLead, CountedRight, RoomToAdvertise
<1>4. CASE UNCHANGED vars
  <2>1. TypeInv'
    BY <1>0, <1>4 DEF vars, stackVars, walkVars, TypeInv
  <2> QED
    BY <1>0, <1>4, <2>1, SlotsKept
       DEF vars, stackVars, walkVars, Inv, EventsLead, CountedRight, RoomToAdvertise
<1> QED
  BY <1>1, <1>2, <1>3, <1>4, ControllerKeeps, HostKeeps DEF Next

(* A controller without links, and nothing to tell.                        *)
LEMMA InitInv == Init => Inv
<1> SUFFICES ASSUME Init PROVE Inv
  OBVIOUS
<1>1. TypeInv
  <2>1. <<>> \in Seq(Event) /\ 0 \in 0..NumSlots /\ 0 \in 0..MaxResets
    BY SlotsAssumption
  <2>2. Free \in Record /\ Unset \in Written
    BY DEF Free, Record, Unset, Written
  <2> QED
    BY <2>1, <2>2 DEF Init, TypeInv
<1>2. Taken = {} /\ OneSlotEach
  BY NoConnAssumption DEF Init, Free, Taken, Held, OneSlotEach
<1>3. Holdable({}) /\ Cardinality({}) = 0 /\ 0 < MaxConnections
  BY FS_EmptySet, SlotsAssumption DEF Holdable
<1>4. EventsLead
  <2> DEFINE V == [k \in 0..0 |-> {}]
  <2>1. V \in [0..0 -> SUBSET Handle] /\ \A k \in 0..0 : V[k] = {}
    OBVIOUS
  <2> HIDE DEF V
  <2>2. Len(events) = 0 /\ link = {}
    BY DEF Init
  <2>3. Views(V, events, Taken, link)
    BY <1>2, <1>3, <2>1, <2>2 DEF Views
  <2> QED
    BY <2>3 DEF EventsLead
<1> QED
  BY <1>1, <1>2, <1>3, <1>4 DEF Init, Inv, CountedRight, RoomToAdvertise

LEMMA Invariant == Spec => []Inv
BY InitInv, InvInductive, PTL DEF Spec

-----------------------------------------------------------------------------
(* The theorems.                                                           *)

(* Every variable keeps its type, the slot walk of the timer task and the  *)
(* connection count included: s_active_connections never exceeds what the  *)
(* controller can hold, although it counts events and not links.           *)
THEOREM BleTypeCorrect == Spec => []BleTypeOK
<1>1. Inv => BleTypeOK
  <2> SUFFICES ASSUME Inv PROVE BleTypeOK
    OBVIOUS
  <2>1. active \in 0..MaxConnections
    BY Bounded, SlotsAssumption DEF Inv, CountedRight, Holdable
  <2> QED
    BY <2>1 DEF Inv, TypeInv, BleTypeOK, Event, Record
<1> QED
  BY <1>1, Invariant, PTL

(* After the last event each link has exactly one slot, each slot a link,  *)
(* and the count is right.                                                 *)
THEOREM SlotsFollow == Spec => []SlotsFollowLinks
<1>1. Inv => SlotsFollowLinks
  <2> SUFFICES ASSUME Inv, events = <<>> PROVE SlotsFollowLinks
    BY DEF SlotsFollowLinks
  <2>1. PICK V : Views(V, events, Taken, link)
    BY DEF Inv, EventsLead
  <2>2. Taken = link
    BY <2>1 DEF Views
  <2>3. ASSUME NEW h \in link PROVE Cardinality(Held(h)) = 1
    <3>1. PICK i \in Slot : slots[i].conn = h /\ h \in Handle
      BY <2>2, <2>3 DEF Taken, Held
    <3>2. Held(h) = {i}
      BY <3>1 DEF Held, Inv, OneSlotEach
    <3> QED
      BY <3>2, FS_Singleton
  <2> QED
    BY <2>2, <2>3 DEF SlotsFollowLinks, Inv, CountedRight
<1> QED
  BY <1>1, Invariant, PTL

(* A connection is never left without a slot, although a slot is released  *)
(* only when its disconnection is handled: "no free connection slots"      *)
(* (dk_auth.c:200) is never logged.                                        *)
THEOREM NoConnectionUnserved ==
    Spec => [](\A h \in Handle :
                  events # <<>> /\ Head(events) = [type |-> "connect", conn |-> h]
                     => \E i \in Slot : slots[i].conn = NoConn)
<1> DEFINE Served == \A h \in Handle :
                  events # <<>> /\ Head(events) = [type |-> "connect", conn |-> h]
                     => \E i \in Slot : slots[i].conn = NoConn
<1>1. Inv => Served
  <2> SUFFICES ASSUME Inv, NEW h \in Handle, events # <<>>,
                      Head(events) = [type |-> "connect", conn |-> h]
               PROVE  \E i \in Slot : slots[i].conn = NoConn
    OBVIOUS
  <2> QED
    BY ConnectFindsSlot DEF Held
<1> QED
  BY <1>1, Invariant, PTL

(* No start of advertising is lost: while the host has something to be     *)
(* told, it will start again; when it has not, the count is right.         *)
THEOREM AdvertisingResumes == Spec => []AdvertisesWhenFree
<1>1. Init => AdvertisesWhenFree
  BY DEF Init, AdvertisesWhenFree
<1>2. Inv /\ Inv' /\ SlotsFollowLinks' /\ AdvertisesWhenFree /\ [Next]_vars => AdvertisesWhenFree'
  <2> SUFFICES ASSUME Inv, Inv', SlotsFollowLinks', AdvertisesWhenFree, [Next]_vars,
                      synced', events' = <<>>
               PROVE  adv' \/ Cardinality(link') = MaxConnections
    BY DEF AdvertisesWhenFree
  <2>1. active' = Cardinality(link')
    BY DEF SlotsFollowLinks
  <2>2. Cardinality(link') \in Nat /\ Cardinality(link') <= MaxConnections
    <3>1. PICK V : Views(V, events', Taken', link')
      BY DEF Inv, EventsLead
    <3>2. Holdable(link')
      BY <3>1 DEF Views
    <3> QED
      BY <3>2, FS_CardinalityType DEF Holdable
  <2>3. ASSUME NEW n, n = Cardinality(link'), link' = link, StartAdvertising(n)
        PROVE  adv' \/ Cardinality(link') = MaxConnections
    <3>1. n < MaxConnections \/ Cardinality(link') = MaxConnections
      BY <2>2, <2>3, SlotsAssumption
    <3>2. n = Cardinality(link)
      BY <2>3
    <3> QED
      BY <2>3, <3>1, <3>2, Zenon DEF StartAdvertising
  <2>4. CASE HostStep
    <3>1. CASE OnAdvEnd
      BY <2>1, <2>3, <3>1 DEF OnAdvEnd, Handles
    <3>2. CASE OnStackSync
      BY <2>1, <2>3, <3>2 DEF OnStackSync
    <3>3. ASSUME NEW h \in Handle, OnConnect(h) \/ OnDisconnect(h)
          PROVE  adv' \/ Cardinality(link') = MaxConnections
      BY <2>1, <2>3, <3>3 DEF OnConnect, OnDisconnect, Handles
    <3> QED
      BY <2>4, <3>1, <3>2, <3>3 DEF HostStep
  <2>5. ASSUME NEW type, NEW h, Happens(type, h) PROVE FALSE
    <3>1. events \in Seq(Event) /\ events' = Append(events, [type |-> type, conn |-> h])
      BY <2>5 DEF Inv, TypeInv, Happens
    <3> QED
      BY <3>1
  <2>6. CASE Controller
    BY <2>5, <2>6 DEF Controller, Arrive, AdvEnds, Depart, StackReset
  <2>7. CASE UNCHANGED stackVars
    BY <2>7 DEF stackVars, AdvertisesWhenFree
  <2>8. ASSUME NEW h \in Handle, NEW i \in Slot, Client(h, i) PROVE UNCHANGED stackVars
    BY <2>8 DEF Client, OnSubscribe, WriteDeviceAuth, ReadDeviceAuth, Put
  <2> QED
    BY <2>4, <2>6, <2>7, <2>8 DEF Next, FactoryReset, TerminateSlot, vars
<1> QED
  BY <1>1, <1>2, Invariant, SlotsFollow, PTL DEF Spec

(* What a slot holds for a connection was written over that connection.    *)
THEOREM SessionsInheritNothing == Spec => []NothingInherited
<1>1. Init => NothingInherited
  BY NoConnAssumption DEF Init, NothingInherited, Held, Free
<1>2. Inv /\ NothingInherited /\ [Next]_vars => NothingInherited'
  <2> SUFFICES ASSUME Inv, NothingInherited, [Next]_vars PROVE NothingInherited'
    OBVIOUS
  <2>0. TypeInv /\ OneSlotEach /\ \A h \in Handle, i \in Slot :
           slots[i].conn = h => slots[i].data = wrote[h]
    BY DEF Inv, NothingInherited, Held
  <2>1. SUFFICES ASSUME NEW g \in Handle, NEW j \in Slot, slots'[j].conn = g
                 PROVE  slots'[j].data = wrote'[g]
    BY DEF NothingInherited, Held
  <2>2. CASE UNCHANGED <<slots, wrote>>
    BY <2>0, <2>1, <2>2
  <2>3. ASSUME NEW h \in Handle, OnConnect(h) PROVE slots'[j].data = wrote'[g]
    <3>1. wrote' = [wrote EXCEPT ![h] = Unset]
      BY <2>3 DEF OnConnect
    <3>2. h \notin Taken
      <4>1. PICK next : Follows(Taken, [type |-> "connect", conn |-> h], next)
        BY <2>3, Handling DEF OnConnect
      <4> QED
        BY <4>1 DEF Follows
    <3>3. CASE UNCHANGED slots
      BY <2>0, <2>1, <3>1, <3>2, <3>3 DEF TypeInv, Taken, Held
    <3>4. ASSUME NEW i \in Slot, slots' = Occupied(i, h) PROVE slots'[j].data = wrote'[g]
      <4> DEFINE new == [Free EXCEPT !.conn = h]
      <4>1. new.conn = h /\ new.data = Unset /\ slots' = [slots EXCEPT ![i] = new]
        BY <3>4 DEF Occupied, Free
      <4> HIDE DEF new
      <4> QED
        BY <2>0, <2>1, <3>1, <3>2, <4>1 DEF TypeInv, Taken, Held
    <3> QED
      BY <2>3, <3>3, <3>4 DEF OnConnect
  <2>4. ASSUME NEW h \in Handle, OnDisconnect(h) PROVE slots'[j].data = wrote'[g]
    BY <2>0, <2>1, <2>4, NoConnAssumption DEF OnDisconnect, Released, TypeInv, Record
  <2>5. ASSUME NEW h \in Handle, NEW i \in Slot, Client(h, i) PROVE slots'[j].data = wrote'[g]
    <3>1. PICK data \in Written : Put(h, i, data)
      BY <2>0, <2>5, Putting
    <3> DEFINE new == [slots[i] EXCEPT !.data = data]
    <3>2. slots[i] \in Record /\ slots[i].conn = h
      BY <2>0, <3>1 DEF TypeInv, Put, Held
    <3>3. new.conn = h /\ new.data = data
      BY <3>2 DEF Record
    <3>4. slots' = [slots EXCEPT ![i] = new] /\ wrote' = [wrote EXCEPT ![h] = data]
      BY <3>1 DEF Put
    <3> HIDE DEF new
    <3> QED
      BY <2>0, <2>1, <3>2, <3>3, <3>4 DEF TypeInv, OneSlotEach
  <2>6. CASE Controller
    BY <2>2, <2>6 DEF Controller, Arrive, AdvEnds, Depart, StackReset
  <2>7. CASE OnAdvEnd \/ OnStackSync
    BY <2>2, <2>7 DEF OnAdvEnd, OnStackSync
  <2>8. CASE FactoryReset \/ TerminateSlot \/ UNCHANGED vars
    BY <2>2, <2>8 DEF FactoryReset, TerminateSlot, vars
  <2> QED
    BY <2>3, <2>4, <2>5, <2>6, <2>7, <2>8 DEF Next, HostStep
<1> QED
  BY <1>1, <1>2, Invariant, PTL DEF Spec
=============================================================================
