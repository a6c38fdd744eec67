------------------------------ MODULE BleLink ------------------------------
(***************************************************************************)
(* BLE connections of the vehicle: advertising and GAP events              *)
(* (firmware/components/ble_stack/src/ble_stack.c), the slots that         *)
(* connections occupy (dk_auth.c), what a client leaves in its slot        *)
(* (dk_service.c, main.c), and the factory reset that walks over the slots *)
(* on another task (dk_button.c).                                          *)
(*                                                                         *)
(* Controller and NimBLE are external: they hand their events to the host  *)
(* task in order, each some time after it happened; they keep no more than *)
(* MaxConnections links and refuse to advertise beyond, and a connection   *)
(* ends advertising.  After a reset of the stack NimBLE reports its        *)
(* connections as disconnected, forgets every other event, and             *)
(* synchronises again.                                                     *)
(*                                                                         *)
(* Bounds, not in the code: advertising succeeds or ends only while fewer  *)
(* than MaxEvents events wait; MaxResets resets of the stack and by the    *)
(* button together.                                                        *)
(***************************************************************************)
EXTENDS Integers, SequencesExt

CONSTANTS
    Handle,          \* connection handles of the controller
    NoConn,          \* 0xFFFF
    NumSlots,        \* DK_MAX_CONNECTIONS
    MaxConnections,  \* CONFIG_BT_NIMBLE_MAX_CONNECTIONS
    Challenge,       \* challenges that clients write
    NoChallenge,     \* device_challenge_valid is false
    MaxEvents,
    MaxResets

ASSUME NoConnAssumption == NoConn \notin Handle /\ NoChallenge \notin Challenge
ASSUME SlotsAssumption  ==
    NumSlots \in Nat /\ MaxConnections \in 1..NumSlots /\ MaxEvents \in Nat /\ MaxResets \in Nat

VARIABLES
    link,          \* controller: handles that are connected
    adv,           \* controller: it advertises
    events,        \* what the host task has still to be told, in order
    synced,        \* the host is in sync with the controller
    active,        \* s_active_connections
    slots,         \* s_conns: connection, subscription, device challenge
    walk,          \* timer task: the slot DisconnectAll looks at next, or 0
    term,          \* handles that are told to terminate
    resets,        \* resets so far
    wrote          \* history: what the client of a handle wrote last

stackVars == <<link, adv, events, synced>>
walkVars  == <<walk, term, resets>>
vars == <<stackVars, active, slots, walkVars, wrote>>

Slot    == 1..NumSlots
Written == [sub: BOOLEAN, dev: Challenge \union {NoChallenge}]
Unset   == [sub |-> FALSE, dev |-> NoChallenge]
Free    == [conn |-> NoConn, data |-> Unset]

Init ==
    /\ link = {} /\ adv = FALSE /\ events = <<>> /\ synced = FALSE
    /\ active = 0
    /\ slots = [i \in Slot |-> Free]
    /\ walk = 0 /\ term = {} /\ resets = 0
    /\ wrote = [h \in Handle |-> Unset]

-----------------------------------------------------------------------------
(* The controller.                                                         *)

Happens(type, h) == events' = Append(events, [type |-> type, conn |-> h])

Arrive(h) ==
    /\ adv /\ h \notin link
    /\ Len(events) < MaxEvents
    /\ link' = link \union {h}
    /\ adv' = FALSE
    /\ Happens("connect", h)
    /\ UNCHANGED <<synced, active, slots, walkVars, wrote>>

\* A connection attempt fails, or advertising ends by itself.
AdvEnds ==
    /\ adv
    /\ Len(events) < MaxEvents
    /\ adv' = FALSE
    /\ Happens("adv", NoConn)
    /\ UNCHANGED <<link, synced, active, slots, walkVars, wrote>>

Depart(h) ==
    /\ h \in link
    /\ link' = link \ {h}
    /\ term' = term \ {h}
    /\ Happens("disconnect", h)
    /\ UNCHANGED <<adv, synced, active, slots, walk, resets, wrote>>

Held(h) == { i \in Slot : slots[i].conn = h }
Taken   == { h \in Handle : Held(h) # {} }

StackReset ==
    /\ synced /\ resets < MaxResets
    /\ resets' = resets + 1
    /\ synced' = FALSE /\ adv' = FALSE /\ link' = {} /\ term' = {}
    /\ events' = [i \in DOMAIN SetToSeq(Taken) |->
                    [type |-> "disconnect", conn |-> SetToSeq(Taken)[i]]]
    /\ UNCHANGED <<active, slots, walk, wrote>>

-----------------------------------------------------------------------------
(* The host task.                                                          *)

\* BleStack_StartAdvertising with `n' connections counted.
StartAdvertising(n) ==
    adv' = (adv \/ (n < MaxConnections /\ synced' /\ Cardinality(link) < MaxConnections))

OnStackSync ==
    /\ ~synced /\ events = <<>>
    /\ synced' = TRUE
    /\ StartAdvertising(active)
    /\ UNCHANGED <<link, events, active, slots, walkVars, wrote>>

Handles(type, h) ==
    /\ events # <<>> /\ Head(events) = [type |-> type, conn |-> h]
    /\ events' = Tail(events)
    /\ UNCHANGED <<link, synced, walkVars>>

\* Seeded fault: the slot is taken without clearing it.
MutOccupied(i, h) == [slots EXCEPT ![i].conn = h]

\* DkAuth_OnConnect: memset, then the handle.
Occupied(i, h) == [slots EXCEPT ![i] = [Free EXCEPT !.conn = h]]

\* The first free slot.
FirstFree(i) == slots[i].conn = NoConn /\ \A j \in 1..(i - 1) : slots[j].conn # NoConn

OnConnect(h) ==
    /\ Handles("connect", h)
    /\ active' = active + 1
    /\ \/ \E i \in Slot : FirstFree(i) /\ slots' = Occupied(i, h)
       \/ Held(NoConn) = {} /\ UNCHANGED slots
    /\ StartAdvertising(active')
    /\ wrote' = [wrote EXCEPT ![h] = Unset]

\* Seeded fault: the first slot in use is released, whoever has it.
MutReleased(h) ==
    LET InUse == { i \in Slot : slots[i].conn # NoConn }
    IN  [i \in Slot |-> IF i \in InUse /\ \A j \in InUse : i <= j
                          THEN [slots[i] EXCEPT !.conn = NoConn] ELSE slots[i]]

\* DkAuth_OnDisconnect: the contents of the slot stay.
Released(h) ==
    [i \in Slot |-> IF slots[i].conn = h THEN [slots[i] EXCEPT !.conn = NoConn] ELSE slots[i]]

CountDown == IF active > 0 THEN active - 1 ELSE 0

OnDisconnect(h) ==
    /\ Handles("disconnect", h)
    /\ active' = CountDown
    /\ slots' = Released(h)
    /\ StartAdvertising(active')
    /\ UNCHANGED wrote

\* Seeded fault: a failed connection does not start advertising again.
MutOnAdvEnd == Handles("adv", NoConn) /\ UNCHANGED <<adv, active, slots, wrote>>

OnAdvEnd ==
    /\ Handles("adv", NoConn)
    /\ StartAdvertising(active)
    /\ UNCHANGED <<active, slots, wrote>>

HostStep == OnAdvEnd \/ OnStackSync \/ \E h \in Handle : OnConnect(h) \/ OnDisconnect(h)

\* What the client of connection h writes to its slot.
Put(h, i, data) ==
    /\ i \in Held(h)
    /\ slots' = [slots EXCEPT ![i].data = data]
    /\ wrote' = [wrote EXCEPT ![h] = data]
    /\ UNCHANGED <<stackVars, active, walkVars>>

OnSubscribe(h, i, on) == Put(h, i, [slots[i].data EXCEPT !.sub = on])

WriteDeviceAuth(h, i, c) == Put(h, i, [slots[i].data EXCEPT !.dev = c])

\* The challenge is signed, or the signature fails; it is used up either way.
ReadDeviceAuth(h, i) ==
    /\ slots[i].data.dev # NoChallenge
    /\ Put(h, i, [slots[i].data EXCEPT !.dev = NoChallenge])

-----------------------------------------------------------------------------
(* The timer task: factory_reset calls DkAuth_DisconnectAll.               *)

FactoryReset ==
    /\ walk = 0 /\ resets < MaxResets
    /\ walk' = 1
    /\ resets' = resets + 1
    /\ UNCHANGED <<stackVars, active, slots, term, wrote>>

\* Seeded fault: the loop leaves out the last slot.
MutLastSlot == NumSlots - 1

LastSlot == NumSlots

\* Seeded fault: free slots are not passed over.
MutTerminated(i) == {slots[i].conn}

\* What ble_gap_terminate is called for; an unknown connection is an error
\* that is ignored.
Terminated(i) == {slots[i].conn} \intersect link

TerminateSlot ==
    /\ walk \in Slot
    /\ term' = term \union Terminated(walk)
    /\ walk' = IF walk < LastSlot THEN walk + 1 ELSE 0
    /\ UNCHANGED <<stackVars, active, slots, resets, wrote>>

-----------------------------------------------------------------------------
Controller == AdvEnds \/ StackReset \/ \E h \in Handle : Arrive(h) \/ Depart(h)

Client(h, i) ==
    \/ \E on \in BOOLEAN : OnSubscribe(h, i, on)
    \/ \E c \in Challenge : WriteDeviceAuth(h, i, c)
    \/ ReadDeviceAuth(h, i)

Next ==
    \/ Controller \/ HostStep
    \/ \E h \in Handle, i \in Slot : Client(h, i)
    \/ FactoryReset \/ TerminateSlot

Spec == Init /\ [][Next]_vars

(* Both tasks run on, and a link that is told to terminate ends.           *)
Fairness ==
    /\ WF_vars(HostStep) /\ WF_vars(TerminateSlot)
    /\ \A h \in Handle : WF_vars(h \in term /\ Depart(h))

FairSpec == Spec /\ Fairness
-----------------------------------------------------------------------------
(* Each variable has its type; no more connections are counted than may be.*)
BleTypeOK ==
    /\ link \subseteq Handle /\ adv \in BOOLEAN /\ synced \in BOOLEAN
    /\ events \in Seq([type: {"connect", "disconnect", "adv"}, conn: Handle \union {NoConn}])
    /\ active \in 0..MaxConnections
    /\ slots \in [Slot -> [conn: Handle \union {NoConn}, data: Written]]
    /\ walk \in 0..NumSlots /\ term \subseteq link /\ resets \in 0..MaxResets
    /\ wrote \in [Handle -> Written]

(* When every event is handled, each link has a slot of its own, no slot   *)
(* belongs to a link that is gone, and the counter that decides about      *)
(* advertising is right: connections that came and went faster than their  *)
(* events, and resets of the stack, leave no trace.                        *)
SlotsFollowLinks ==
    events = <<>> =>
       /\ Taken = link /\ \A h \in link : Cardinality(Held(h)) = 1
       /\ active = Cardinality(link)

(* "Restart advertising (call after disconnect if multi-conn slots         *)
(* available)" (ble_stack.h:17): once every event is handled, the vehicle  *)
(* can be found unless it is full.  A start that the controller refused    *)
(* because of a connection not yet reported is made good by a later one.   *)
AdvertisesWhenFree ==
    synced /\ events = <<>> => adv \/ Cardinality(link) = MaxConnections

(* What a slot holds for a connection was written over that connection:    *)
(* no session answers to, or is notified because of, what another left in  *)
(* the slot or on the handle before.                                       *)
NothingInherited == \A h \in Handle : \A i \in Held(h) : slots[i].data = wrote[h]

(* "Terminate all active BLE connections" (dk_auth.h:55): a connection     *)
(* that has a slot when the factory reset begins ends, although the slots  *)
(* change hands while the loop looks at them.                              *)
ResetEndsConnections == \A h \in Handle : walk = 1 /\ h \in Taken ~> h \notin Taken
=============================================================================
