---------------------------- MODULE PassiveEntry ----------------------------
(***************************************************************************)
(* Passive entry: the RSSI poll that locks and unlocks the vehicle         *)
(* (firmware/main/dk_proximity.c, dk_lock.c), the button that resets it    *)
(* (dk_button.c) and the LED that both drive (dk_led.c).                   *)
(*                                                                         *)
(* Poll and button are callbacks of one timer task and never overlap; BLE  *)
(* events (dk_auth.c) happen between any two connections of a poll, and    *)
(* while the poll waits for the RSSI of one.  A handle keeps its slot of   *)
(* s_conns, so that what is per slot in the code is per handle here: the   *)
(* next session in the slot has the same handle.  The filter of the        *)
(* samples is in MedianFilter.                                             *)
(*                                                                         *)
(* Bounds, not in the code: rssi_idx wraps at IdxMod, which must leave the *)
(* same remainder as the 256 of the firmware's uint8_t; the button's tick  *)
(* counter stops at LongPress, beyond which the code compares it with      *)
(* nothing; and the counter of the specification that follows the          *)
(* evaluations stops at RunCap.                                            *)
(***************************************************************************)
EXTENDS MedianFilter, Sequences

CONSTANTS
    Conns,         \* number of connection handles polled, 0 .. Conns - 1
    Sample,        \* the RSSI values that are read
    IdxMod,        \* the modulus of rssi_idx
    HoldTicks,     \* DK_ZONE_HOLD_TICKS
    LongPress,     \* LONG_PRESS_TICKS
    RunCap         \* bound of the history variable `run'

ASSUME ConnsAssumption  == Conns \in Nat
ASSUME SampleAssumption == Sample \subseteq -128..127
ASSUME IdxModAssumption ==
    IdxMod \in Nat /\ IdxMod > Window /\ IdxMod % Window = 256 % Window
ASSUME TicksAssumption ==
    HoldTicks \in Nat \ {0} /\ LongPress \in Nat /\ LongPress > 2 /\ RunCap \in Nat

VARIABLES
    rssi,          \* per connection, what its RSSI is read as
    auth,          \* auth_state: "disconnected", "connected" or "ok"
    rssi_buf,      \* per connection, the samples by place
    rssi_idx,      \* per connection, samples taken, modulo IdxMod
    prev_zone,     \* per connection, the zone of the last evaluation
    hold,          \* per connection, zone_hold_count
    term,          \* connections that the factory reset terminates
    lock,          \* s_state of dk_lock.c
    led,           \* the colour shown
    press_ticks,   \* s_press_ticks
    reset_done,    \* s_reset_done
    poll,          \* the handle that rssi_poll_cb looks at next
    reading,       \* what it has read of it and not yet put into the slot
    last,          \* history: the samples of the connection, newest last
    run            \* history: evaluations in a row with zone IMMEDIATE

slotVars   == <<auth, rssi_buf, rssi_idx, prev_zone, hold, term>>
lockVars   == <<lock, led>>
buttonVars == <<press_ticks, reset_done>>
pollVars   == <<poll, reading>>
history    == <<last, run>>
vars == <<rssi, slotVars, lockVars, buttonVars, pollVars, history>>

Conn  == 0..(Conns - 1)

Cleared == [p \in Place |-> 0]

\* No int8_t reads 128.
NoReading == [rssi |-> 128, own |-> FALSE]

Init ==
    /\ rssi \in [Conn -> Sample]
    /\ auth = [h \in Conn |-> "disconnected"]
    /\ rssi_buf = [h \in Conn |-> Cleared]
    /\ rssi_idx = [h \in Conn |-> 0]
    /\ prev_zone = [h \in Conn |-> NONE]
    /\ hold = [h \in Conn |-> 0]
    /\ term = {}
    /\ lock = "locked" /\ led = "off"
    /\ press_ticks = 0 /\ reset_done = FALSE
    /\ poll = Conns /\ reading = NoReading
    /\ last = [h \in Conn |-> <<>>]
    /\ run = [h \in Conn |-> 0]

-----------------------------------------------------------------------------
(* The phone moves; the BLE host task reports what its session does.       *)

Move(h, s) ==
    /\ rssi[h] # s
    /\ rssi' = [rssi EXCEPT ![h] = s]
    /\ UNCHANGED <<slotVars, lockVars, buttonVars, pollVars, history>>

\* Seeded fault: the samples of the former session are still counted.
MutConnect(h) ==
    /\ auth[h] = "disconnected"
    /\ auth' = [auth EXCEPT ![h] = "connected"]
    /\ rssi_buf' = [rssi_buf EXCEPT ![h] = Cleared]
    /\ prev_zone' = [prev_zone EXCEPT ![h] = NONE]
    /\ hold' = [hold EXCEPT ![h] = 0]
    /\ last' = [last EXCEPT ![h] = <<>>]
    /\ run' = [run EXCEPT ![h] = 0]
    /\ UNCHANGED <<rssi, rssi_idx, term, lockVars, buttonVars, pollVars>>

\* DkAuth_OnConnect clears the slot.
Connect(h) ==
    /\ auth[h] = "disconnected"
    /\ auth' = [auth EXCEPT ![h] = "connected"]
    /\ rssi_buf' = [rssi_buf EXCEPT ![h] = Cleared]
    /\ rssi_idx' = [rssi_idx EXCEPT ![h] = 0]
    /\ prev_zone' = [prev_zone EXCEPT ![h] = NONE]
    /\ hold' = [hold EXCEPT ![h] = 0]
    /\ last' = [last EXCEPT ![h] = <<>>]
    /\ run' = [run EXCEPT ![h] = 0]
    /\ UNCHANGED <<rssi, term, lockVars, buttonVars, pollVars>>

\* A response verified, and a challenge read again by the same session.
Authenticate(h) ==
    /\ auth[h] = "connected"
    /\ auth' = [auth EXCEPT ![h] = "ok"]
    /\ UNCHANGED <<rssi, rssi_buf, rssi_idx, prev_zone, hold, term, lockVars,
                   buttonVars, pollVars, history>>

ReadChallenge(h) ==
    /\ auth[h] = "ok"
    /\ auth' = [auth EXCEPT ![h] = "connected"]
    /\ UNCHANGED <<rssi, rssi_buf, rssi_idx, prev_zone, hold, term, lockVars,
                   buttonVars, pollVars, history>>

\* A reading that waits for this slot is now that of a former session.
Disconnect(h) ==
    /\ auth[h] # "disconnected"
    /\ auth' = [auth EXCEPT ![h] = "disconnected"]
    /\ term' = term \ {h}
    /\ reading' = IF poll = h /\ reading # NoReading
                  THEN [rssi |-> reading.rssi, own |-> FALSE] ELSE reading
    /\ UNCHANGED <<rssi, rssi_buf, rssi_idx, prev_zone, hold, lockVars,
                   buttonVars, poll, history>>

-----------------------------------------------------------------------------
(* rssi_poll_cb, one connection at a time.                                 *)

\* DkProximity_GetZone of a connection that exists.
Zone(h) == IF rssi_idx[h] < Window THEN FAR ELSE ZoneFromRssi(MedianOf(rssi_buf[h]))

LedOf(l) == IF l = "unlocked" THEN "green" ELSE "off"

SetLock(l) == lock' = l /\ led' = LedOf(l)

\* Seeded fault: the count has to exceed the hold time, which it never does.
MutActTooLate(h, zone, held) ==
    IF held > HoldTicks /\ zone = IMMEDIATE THEN SetLock("unlocked") ELSE UNCHANGED lockVars

\* Seeded fault: only a phone that is far away locks the vehicle.
MutActOnlyFar(h, zone, held) ==
    IF held # HoldTicks THEN UNCHANGED lockVars
    ELSE IF zone = IMMEDIATE /\ lock = "locked" /\ Zone(h)' >= NEAR
         THEN SetLock("unlocked")
         ELSE IF zone < NEAR /\ lock = "unlocked"
              THEN SetLock("locked")
              ELSE UNCHANGED lockVars

\* The end of check_auto_lock, with what DkLock_Command checks again: the
\* session is still authenticated, and to unlock its zone is near enough.
Act(h, zone, held) ==
    IF held # HoldTicks THEN UNCHANGED lockVars
    ELSE IF zone = IMMEDIATE /\ lock = "locked" /\ Zone(h)' >= NEAR
         THEN SetLock("unlocked")
         ELSE IF zone # IMMEDIATE /\ lock = "unlocked"
              THEN SetLock("locked")
              ELSE UNCHANGED lockVars

Evaluated(h, zone) ==
    run' = [run EXCEPT ![h] = IF zone # IMMEDIATE THEN 0
                              ELSE IF @ < RunCap THEN @ + 1 ELSE @]

\* Seeded fault: the count has no limit.
MutCountUp(n) == n + 1

CountUp(n) == IF n < HoldTicks THEN n + 1 ELSE n

\* Seeded fault: a change of zone does not restart the count.
MutCheckAutoLock(h, zone) ==
    IF auth[h] # "ok"
    THEN UNCHANGED <<prev_zone, hold, lockVars, run>>
    ELSE /\ Evaluated(h, zone)
         /\ prev_zone' = [prev_zone EXCEPT ![h] = zone]
         /\ hold' = [hold EXCEPT ![h] = CountUp(@)]
         /\ Act(h, zone, hold'[h])

CheckAutoLock(h, zone) ==
    IF auth[h] # "ok"
    THEN UNCHANGED <<prev_zone, hold, lockVars, run>>
    ELSE /\ Evaluated(h, zone)
         /\ \/ /\ zone = prev_zone[h]
               /\ hold' = [hold EXCEPT ![h] = CountUp(@)]
               /\ Act(h, zone, hold'[h])
               /\ UNCHANGED prev_zone
            \/ /\ zone # prev_zone[h]
               /\ prev_zone' = [prev_zone EXCEPT ![h] = zone]
               /\ hold' = [hold EXCEPT ![h] = 0]
               /\ UNCHANGED lockVars

StartPoll ==
    /\ poll = Conns
    /\ poll' = 0
    /\ UNCHANGED <<rssi, slotVars, lockVars, buttonVars, reading, history>>

\* No such connection, or its RSSI cannot be read.
SkipConn(h) ==
    /\ poll = h /\ reading = NoReading
    /\ poll' = h + 1
    /\ UNCHANGED <<rssi, slotVars, lockVars, buttonVars, reading, history>>

\* ble_gap_conn_rssi waits for the controller; the BLE task goes on.
ReadRssi(h) ==
    /\ poll = h /\ reading = NoReading
    /\ auth[h] # "disconnected"
    /\ reading' = [rssi |-> rssi[h], own |-> TRUE]
    /\ UNCHANGED <<rssi, slotVars, lockVars, buttonVars, poll, history>>

\* The slot found before the wait gets the sample, whoever has it now.
ApplySample(h) ==
    /\ poll = h /\ reading # NoReading
    /\ rssi_buf' = [rssi_buf EXCEPT ![h][rssi_idx[h] % Window] = reading.rssi]
    /\ rssi_idx' = [rssi_idx EXCEPT ![h] = (@ + 1) % IdxMod]
    /\ last' = [last EXCEPT ![h] =
                  Append(IF Len(@) = Window THEN Tail(@) ELSE @, reading)]
    /\ IF rssi_idx'[h] >= Window
       THEN CheckAutoLock(h, ZoneFromRssi(MedianOf(rssi_buf'[h])))
       ELSE UNCHANGED <<prev_zone, hold, lockVars, run>>
    /\ poll' = h + 1
    /\ reading' = NoReading
    /\ UNCHANGED <<rssi, auth, term, buttonVars>>

-----------------------------------------------------------------------------
(* button_poll_cb, between two RSSI polls of the same task.                *)

NextTicks == IF press_ticks < LongPress THEN press_ticks + 1 ELSE press_ticks

HoldButton ==
    /\ poll = Conns
    /\ press_ticks' = NextTicks
    /\ press_ticks' < LongPress \/ reset_done
    /\ led' = IF ~reset_done /\ press_ticks' >= 2 THEN "yellow" ELSE led
    /\ UNCHANGED <<rssi, slotVars, lock, reset_done, pollVars, history>>

\* factory_reset: the sessions are told to go, the lock and the LED are
\* restored.  (The key store that it erases is in KeystoreNvs.)
FactoryReset ==
    /\ poll = Conns
    /\ press_ticks' = NextTicks
    /\ press_ticks' = LongPress
    /\ ~reset_done /\ reset_done' = TRUE
    /\ term' = term \union { h \in Conn : auth[h] # "disconnected" }
    /\ SetLock("locked")
    /\ UNCHANGED <<rssi, auth, rssi_buf, rssi_idx, prev_zone, hold, pollVars, history>>

\* Seeded fault: a short press leaves the LED as it is.
MutReleaseButton ==
    /\ poll = Conns
    /\ press_ticks > 0
    /\ press_ticks' = 0 /\ reset_done' = FALSE
    /\ UNCHANGED <<rssi, slotVars, lockVars, pollVars, history>>

ReleaseButton ==
    /\ poll = Conns
    /\ press_ticks > 0
    /\ led' = IF press_ticks < LongPress /\ ~reset_done THEN LedOf(lock) ELSE led
    /\ press_ticks' = 0 /\ reset_done' = FALSE
    /\ UNCHANGED <<rssi, slotVars, lock, pollVars, history>>

-----------------------------------------------------------------------------
PollStep == StartPoll \/ \E h \in Conn : SkipConn(h) \/ ReadRssi(h) \/ ApplySample(h)

Phone(h) ==
    \/ \E s \in Sample : Move(h, s)
    \/ Connect(h) \/ Authenticate(h) \/ ReadChallenge(h) \/ Disconnect(h)

Button == HoldButton \/ FactoryReset \/ ReleaseButton

Next == PollStep \/ Button \/ \E h \in Conn : Phone(h)

Spec == Init /\ [][Next]_vars

(* The timer keeps polling, and the RSSI of a connection that stays is     *)
(* read again and again.  A termination that was requested is completed.   *)
Fairness ==
    /\ WF_vars(PollStep)
    /\ \A h \in Conn : SF_vars(ReadRssi(h)) /\ WF_vars(h \in term /\ Disconnect(h))

FairSpec == Spec /\ Fairness
-----------------------------------------------------------------------------
(* Each variable has its type.                                             *)
PassiveTypeOK ==
    /\ rssi \in [Conn -> Sample]
    /\ auth \in [Conn -> {"disconnected", "connected", "ok"}]
    /\ rssi_buf \in [Conn -> [Place -> Sample \union {0}]]
    /\ rssi_idx \in [Conn -> 0..(IdxMod - 1)]
    /\ prev_zone \in [Conn -> NONE..IMMEDIATE]
    /\ hold \in [Conn -> 0..HoldTicks]
    /\ term \subseteq { h \in Conn : auth[h] # "disconnected" }
    /\ lock \in {"locked", "unlocked"} /\ led \in {"off", "green", "yellow"}
    /\ press_ticks \in 0..LongPress /\ reset_done \in BOOLEAN
    /\ poll \in 0..Conns
    /\ reading = NoReading \/ reading \in [rssi: Sample, own: BOOLEAN]
    /\ \A h \in Conn : Len(last[h]) <= Window
    /\ run \in [Conn -> 0..RunCap]

(* The LED shows the state of the lock whenever the button is not being    *)
(* held towards a reset: the poll and the button both drive it, and every  *)
(* press, short, long or repeated, leaves it right (dk_button.c:66-78).    *)
LedShowsLock == press_ticks < 2 \/ reset_done => led = LedOf(lock)

\* The places of the history with samples of the session itself.
Own(h) == { i \in 1..Len(last[h]) : last[h][i].own }

(* Each evaluation of a zone is of the median of the last Window samples   *)
(* in the slot, and at most one of them is from an earlier session, which  *)
(* ended while the poll waited for its RSSI: the exchange sort finds the   *)
(* median, the ring buffer is never evaluated half filled, also not after  *)
(* rssi_idx wraps from 255 to 0, when two samples in a row go to the same  *)
(* place, and the slot is really cleared (dk_proximity.c:74-84).           *)
EvaluatesLastSamples ==
    \A h \in Conn : auth[h] # "disconnected" /\ rssi_idx[h] >= Window =>
       /\ Len(last[h]) = Window
       /\ IsMedian(MedianOf(rssi_buf[h]), [i \in 1..Window |-> last[h][i].rssi])
       /\ Cardinality(Own(h)) >= Window - 1

(* The vehicle unlocks only for a connection that is authenticated then,   *)
(* whose last evaluations while it was authenticated, more than            *)
(* DK_ZONE_HOLD_TICKS of them, were all immediate, and with an immediate   *)
(* sample of this very connection in its window: no single evaluation      *)
(* opens it, and no readings of another connection.  Samples from before   *)
(* the authentication do count, since the poll stores those of every       *)
(* connection (dk_proximity.c:81-86).                                      *)
OnlySteadyImmediateUnlocks ==
    [][lock = "locked" /\ lock' = "unlocked" =>
         \E h \in Conn :
            /\ auth[h] = "ok" /\ run'[h] > HoldTicks
            /\ \E i \in Own(h)' : ZoneFromRssi(last'[h][i].rssi) = IMMEDIATE
      ]_vars

\* A phone is the only one and stays authenticated, with one RSSI.
Stays(s) == Conn = {0} /\ auth[0] = "ok" /\ rssi[0] = s

(* With one phone connected, authenticated and staying immediate, the      *)
(* vehicle is unlocked for good, whatever was sampled before and whatever  *)
(* is done with the button meanwhile.                                      *)
UnlocksWhenNear ==
    \A s \in Sample :
       ZoneFromRssi(s) = IMMEDIATE => (<>[]Stays(s) => <>[](lock = "unlocked"))

(* The same for a phone that stays at a place that is not immediate.  One  *)
(* that moves between two such zones is not covered: every change of zone  *)
(* restarts the count.                                                     *)
LocksWhenAway ==
    \A s \in Sample :
       ZoneFromRssi(s) # IMMEDIATE => (<>[]Stays(s) => <>[](lock = "locked"))
=============================================================================
