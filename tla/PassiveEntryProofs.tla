------------------------- MODULE PassiveEntryProofs -------------------------
(***************************************************************************)
(* Theorems about PassiveEntry, for any number of connections, any odd     *)
(* window, any thresholds, hold time and length of a long press.           *)
(***************************************************************************)
EXTENDS PassiveEntry, MedianFilterProofs, SequenceTheorems, TLAPS

(* The window has a place, and a slot its index.                           *)
LEMMA WindowPositive ==
    /\ Window \in Nat /\ Window > 0
    /\ \A n \in Nat : n % Window \in Place
    /\ 0 \in 0..(IdxMod - 1) /\ \A n \in Nat : n % IdxMod \in 0..(IdxMod - 1)
<1>1. Window # 0
  BY WindowAssumption, SMT
<1>2. Window \in Nat /\ Window > 0 /\ IdxMod \in Nat /\ IdxMod > 0
  BY <1>1, WindowAssumption, IdxModAssumption
<1>3. \A n \in Nat : n % Window \in 0..(Window - 1) /\ n % IdxMod \in 0..(IdxMod - 1)
  BY <1>2
<1> QED
  BY <1>2, <1>3 DEF Place

(* Whatever is read, its zone is one of the four.                          *)
LEMMA ZoneType == \A s : ZoneFromRssi(s) \in NONE..IMMEDIATE
BY DEF ZoneFromRssi, NONE, FAR, NEAR, IMMEDIATE

(* The end of check_auto_lock leaves the LED to the lock, or both alone.   *)
LEMMA ActSetsBoth ==
    ASSUME NEW h, NEW zone, NEW held, Act(h, zone, held)
    PROVE  \/ UNCHANGED lockVars
           \/ lock' \in {"locked", "unlocked"} /\ led' = LedOf(lock')
<1>1. CASE SetLock("unlocked")
  BY <1>1 DEF SetLock
<1>2. CASE SetLock("locked")
  BY <1>2 DEF SetLock
<1>3. CASE UNCHANGED lockVars
  BY <1>3
<1> QED
  BY <1>1, <1>2, <1>3 DEF Act

(* What a sample does to the lock and its LED.                             *)
LEMMA SampleSetsBoth ==
    ASSUME NEW h \in Conn, ApplySample(h)
    PROVE  \/ UNCHANGED lockVars
           \/ lock' \in {"locked", "unlocked"} /\ led' = LedOf(lock')
<1> DEFINE zone == ZoneFromRssi(MedianOf(rssi_buf'[h]))
<1>1. CASE UNCHANGED lockVars
  BY <1>1
<1>2. CASE Act(h, zone, hold'[h])
  <2> HIDE DEF zone
  <2> QED
    BY <1>2, ActSetsBoth
<1>3. UNCHANGED lockVars \/ CheckAutoLock(h, zone)
  BY DEF ApplySample
<1>4. ASSUME CheckAutoLock(h, zone)
      PROVE  UNCHANGED lockVars \/ Act(h, zone, hold'[h])
  <2> HIDE DEF zone
  <2> QED
    BY <1>4 DEF CheckAutoLock
<1> QED
  BY <1>1, <1>2, <1>3, <1>4

-----------------------------------------------------------------------------
(* PassiveTypeOK says how long the history of samples is; that it is a     *)
(* sequence is what makes it inductive.                                    *)
TypeInv ==
    /\ PassiveTypeOK
    /\ last \in [Conn -> Seq([rssi: Sample, own: BOOLEAN])]

LEMMA TypeInvariant == Spec => []TypeInv
<1>1. Init => TypeInv
  <2> SUFFICES ASSUME Init PROVE TypeInv
    OBVIOUS
  <2> USE ConnsAssumption, IdxModAssumption, TicksAssumption
  <2>1. last \in [Conn -> Seq([rssi: Sample, own: BOOLEAN])] /\ \A h \in Conn : Len(last[h]) <= Window
    BY WindowAssumption DEF Init
  <2>2. rssi_buf \in [Conn -> [Place -> Sample \union {0}]]
    BY DEF Init, Cleared
  <2>3. rssi_idx \in [Conn -> 0..(IdxMod - 1)]
    BY WindowPositive DEF Init
  <2>4. prev_zone \in [Conn -> NONE..IMMEDIATE] /\ hold \in [Conn -> 0..HoldTicks] /\ run \in [Conn -> 0..RunCap]
    BY DEF Init, NONE, IMMEDIATE
  <2>5. press_ticks \in 0..LongPress /\ poll \in 0..Conns
    BY DEF Init
  <2> QED
    BY <2>1, <2>2, <2>3, <2>4, <2>5 DEF Init, TypeInv, PassiveTypeOK
<1>2. TypeInv /\ [Next]_vars => TypeInv'
  <2> SUFFICES ASSUME TypeInv, [Next]_vars PROVE TypeInv'
    OBVIOUS
  <2> USE DEF TypeInv, PassiveTypeOK
  <2>1. CASE UNCHANGED vars
    BY <2>1 DEF vars, slotVars, lockVars, buttonVars, pollVars, history
  <2>2. ASSUME NEW h \in Conn, NEW s \in Sample, Move(h, s) PROVE TypeInv'
    BY <2>2 DEF Move, slotVars, lockVars, buttonVars, pollVars, history
  <2>3. ASSUME NEW h \in Conn, Connect(h) PROVE TypeInv'
    <3>1. rssi_buf' \in [Conn -> [Place -> Sample \union {0}]]
      BY <2>3 DEF Connect, Cleared
    <3>2. last' \in [Conn -> Seq([rssi: Sample, own: BOOLEAN])] /\ \A c \in Conn : Len(last'[c]) <= Window
      <4>1. last' = [last EXCEPT ![h] = <<>>]
        BY <2>3 DEF Connect
      <4>2. <<>> \in Seq([rssi: Sample, own: BOOLEAN]) /\ Len(<<>>) <= Window
        BY WindowPositive
      <4> QED
        BY <4>1, <4>2
    <3>3. /\ rssi_idx' \in [Conn -> 0..(IdxMod - 1)] /\ prev_zone' \in [Conn -> NONE..IMMEDIATE]
          /\ hold' \in [Conn -> 0..HoldTicks] /\ run' \in [Conn -> 0..RunCap]
      <4>1. 0 \in 0..(IdxMod - 1) /\ NONE \in NONE..IMMEDIATE /\ 0 \in 0..HoldTicks /\ 0 \in 0..RunCap
        BY WindowPositive, TicksAssumption DEF NONE, IMMEDIATE
      <4> QED
        BY <2>3, <4>1 DEF Connect
    <3>4. /\ auth' \in [Conn -> {"disconnected", "connected", "ok"}]
          /\ term' \subseteq { c \in Conn : auth'[c] # "disconnected" }
      BY <2>3 DEF Connect
    <3>5. UNCHANGED <<rssi, lockVars, buttonVars, pollVars>>
      BY <2>3 DEF Connect
    <3> QED
      BY <3>1, <3>2, <3>3, <3>4, <3>5 DEF lockVars, buttonVars, pollVars
  <2>4. ASSUME NEW h \in Conn, Authenticate(h) \/ ReadChallenge(h) PROVE TypeInv'
    BY <2>4 DEF Authenticate, ReadChallenge, lockVars, buttonVars, pollVars, history
  <2>5. ASSUME NEW h \in Conn, Disconnect(h) PROVE TypeInv'
    <3>1. reading' = NoReading \/ reading' \in [rssi: Sample, own: BOOLEAN]
      BY <2>5 DEF Disconnect
    <3> QED
      BY <2>5, <3>1 DEF Disconnect, lockVars, buttonVars, history
  <2>6. CASE StartPoll
    <3>1. poll' \in 0..Conns
      BY <2>6, ConnsAssumption DEF StartPoll
    <3> QED
      BY <2>6, <3>1 DEF StartPoll, slotVars, lockVars, buttonVars, history
  <2>7. ASSUME NEW h \in Conn, SkipConn(h) PROVE TypeInv'
    <3>1. poll' \in 0..Conns
      BY <2>7, ConnsAssumption DEF SkipConn, Conn
    <3> QED
      BY <2>7, <3>1 DEF SkipConn, slotVars, lockVars, buttonVars, history
  <2>8. ASSUME NEW h \in Conn, ReadRssi(h) PROVE TypeInv'
    BY <2>8 DEF ReadRssi, slotVars, lockVars, buttonVars, history
  <2>9. ASSUME NEW h \in Conn, ApplySample(h) PROVE TypeInv'
    <3> DEFINE zone == ZoneFromRssi(MedianOf(rssi_buf'[h]))
    <3>1. reading \in [rssi: Sample, own: BOOLEAN] /\ rssi_idx[h] \in Nat
      BY <2>9, IdxModAssumption DEF ApplySample
    <3>2. rssi_buf' \in [Conn -> [Place -> Sample \union {0}]]
      <4>1. rssi_idx[h] % Window \in Place
        BY <3>1, WindowPositive
      <4> QED
        BY <2>9, <3>1, <4>1 DEF ApplySample
    <3>3. rssi_idx' \in [Conn -> 0..(IdxMod - 1)]
      <4>1. (rssi_idx[h] + 1) % IdxMod \in 0..(IdxMod - 1)
        <5>1. rssi_idx[h] + 1 \in Nat
          BY <3>1
        <5> QED
          BY <5>1, WindowPositive
      <4> QED
        BY <2>9, <4>1 DEF ApplySample
    <3>4. /\ last' \in [Conn -> Seq([rssi: Sample, own: BOOLEAN])]
          /\ \A c \in Conn : Len(last'[c]) <= Window
      <4> DEFINE S == [rssi: Sample, own: BOOLEAN]
                 old == IF Len(last[h]) = Window THEN Tail(last[h]) ELSE last[h]
                 new == Append(old, reading)
      <4>1. last[h] \in Seq(S) /\ Len(last[h]) <= Window /\ Window \in Nat /\ Window # 0
        <5>1. last[h] \in Seq(S)
          OBVIOUS
        <5>2. Len(last[h]) <= Window
          OBVIOUS
        <5> QED
          BY <5>1, <5>2, WindowPositive
      <4>2. old \in Seq(S) /\ Len(old) < Window
        <5>1. CASE Len(last[h]) = Window
          <6>1. last[h] # <<>>
            BY <4>1, <5>1, EmptySeq
          <6> QED
            BY <4>1, <5>1, <6>1, HeadTailProperties
        <5>2. CASE Len(last[h]) # Window
          BY <4>1, <5>2, LenProperties
        <5> QED
          BY <5>1, <5>2
      <4>3. new \in Seq(S) /\ Len(new) <= Window
        <5> HIDE DEF old, S
        <5>1. reading \in S
          BY <3>1 DEF S
        <5> QED
          BY <4>1, <4>2, <5>1, AppendProperties, LenProperties
      <4>4. last' = [last EXCEPT ![h] = new]
        BY <2>9 DEF ApplySample
      <4> HIDE DEF new, old
      <4> QED
        BY <4>3, <4>4
    <3>5. /\ prev_zone' \in [Conn -> NONE..IMMEDIATE]
          /\ hold' \in [Conn -> 0..HoldTicks]
          /\ run' \in [Conn -> 0..RunCap]
      <4>1. zone \in NONE..IMMEDIATE
        BY ZoneType
      <4> HIDE DEF zone
      <4>2. UNCHANGED <<prev_zone, hold, run>> \/ CheckAutoLock(h, zone)
        BY <2>9 DEF ApplySample, zone
      <4>3. ASSUME CheckAutoLock(h, zone), auth[h] = "ok"
            PROVE  /\ prev_zone' \in [Conn -> NONE..IMMEDIATE]
                   /\ hold' \in [Conn -> 0..HoldTicks]
                   /\ run' \in [Conn -> 0..RunCap]
        <5>1. run' \in [Conn -> 0..RunCap]
          <6> DEFINE r == IF zone # IMMEDIATE THEN 0 ELSE IF run[h] < RunCap THEN run[h] + 1 ELSE run[h]
          <6>1. r \in 0..RunCap
            BY TicksAssumption
          <6>2. run' = [run EXCEPT ![h] = r]
            BY <4>3 DEF CheckAutoLock, Evaluated
          <6> HIDE DEF r
          <6> QED
            BY <6>1, <6>2
        <5>2. CountUp(hold[h]) \in 0..HoldTicks
          BY TicksAssumption DEF CountUp
        <5>3. hold' \in [Conn -> 0..HoldTicks]
          <6>1. 0 \in 0..HoldTicks
            BY TicksAssumption
          <6> HIDE DEF CountUp
          <6> QED
            BY <4>3, <5>2, <6>1 DEF CheckAutoLock
        <5>4. prev_zone' \in [Conn -> NONE..IMMEDIATE]
          BY <4>1, <4>3 DEF CheckAutoLock
        <5> QED
          BY <5>1, <5>3, <5>4
      <4>4. ASSUME CheckAutoLock(h, zone), auth[h] # "ok"
            PROVE  UNCHANGED <<prev_zone, hold, run>>
        BY <4>4 DEF CheckAutoLock
      <4> QED
        BY <4>2, <4>3, <4>4
    <3>6. lock' \in {"locked", "unlocked"} /\ led' \in {"off", "green", "yellow"}
      BY <2>9, SampleSetsBoth DEF lockVars, LedOf
    <3>7. UNCHANGED <<rssi, auth, term, press_ticks, reset_done>> /\ reading' = NoReading
      BY <2>9 DEF ApplySample, buttonVars
    <3>8. poll' \in 0..Conns
      BY <2>9, ConnsAssumption DEF ApplySample, Conn
    <3> QED
      BY <3>2, <3>3, <3>4, <3>5, <3>6, <3>7, <3>8
  <2>10. CASE HoldButton
    <3>1. press_ticks' \in 0..LongPress
      BY <2>10, TicksAssumption DEF HoldButton, NextTicks
    <3> QED
      BY <2>10, <3>1 DEF HoldButton, slotVars, pollVars, history
  <2>11. CASE FactoryReset
    <3>1. press_ticks' \in 0..LongPress
      BY <2>11, TicksAssumption DEF FactoryReset, NextTicks
    <3>2. term' \subseteq { c \in Conn : auth'[c] # "disconnected" }
      BY <2>11 DEF FactoryReset
    <3>3. lock' \in {"locked", "unlocked"} /\ led' \in {"off", "green", "yellow"}
      BY <2>11 DEF FactoryReset, SetLock, LedOf
    <3> QED
      BY <2>11, <3>1, <3>2, <3>3 DEF FactoryReset, pollVars, history
  <2>12. CASE ReleaseButton
    <3>1. press_ticks' \in 0..LongPress
      BY <2>12, TicksAssumption DEF ReleaseButton
    <3> QED
      BY <2>12, <3>1 DEF ReleaseButton, LedOf, slotVars, pollVars, history
  <2> QED
    BY <2>1, <2>2, <2>3, <2>4, <2>5, <2>6, <2>7, <2>8, <2>9, <2>10, <2>11, <2>12
    DEF Next, PollStep, Button, Phone
<1> QED
  BY <1>1, <1>2, PTL DEF Spec

(* Every variable keeps its type; the hold count and the counter of the    *)
(* button stop where they should, and no sample falls outside the ring     *)
(* buffer of its slot (dk_proximity.c:82, :47-50, dk_button.c:54).         *)
THEOREM PassiveTypeCorrect == Spec => []PassiveTypeOK
<1>1. TypeInv => PassiveTypeOK
  BY DEF TypeInv
<1> QED
  BY <1>1, TypeInvariant, PTL

-----------------------------------------------------------------------------
(* LedShowsLock is not inductive: a release after a long press leaves the  *)
(* LED alone, and only because the press has been a reset is it right.     *)
LedInv ==
    /\ LedShowsLock
    /\ press_ticks < LongPress \/ reset_done

(* With however many sessions that lock and unlock between the ticks of    *)
(* the button, the LED shows the lock whenever no press is on its way to a *)
(* reset (dk_led.c:32-41, dk_button.c:49-79).                              *)
THEOREM LedIsRight == Spec => []LedShowsLock
<1>1. Init => LedInv
  BY TicksAssumption DEF Init, LedInv, LedShowsLock, LedOf
<1>2. PassiveTypeOK /\ LedInv /\ [Next]_vars => LedInv'
  <2> SUFFICES ASSUME press_ticks \in 0..LongPress, LedInv, [Next]_vars PROVE LedInv'
    BY DEF PassiveTypeOK
  <2> USE DEF LedInv, LedShowsLock
  <2>1. ASSUME UNCHANGED <<lockVars, buttonVars>> PROVE LedInv'
    BY <2>1 DEF lockVars, buttonVars, LedOf
  <2>2. ASSUME UNCHANGED buttonVars, led' = LedOf(lock') PROVE LedInv'
    BY <2>2 DEF buttonVars, LedOf
  <2>3. CASE UNCHANGED vars \/ StartPoll
    BY <2>1, <2>3 DEF vars, StartPoll
  <2>4. ASSUME NEW h \in Conn, Phone(h) PROVE LedInv'
    BY <2>1, <2>4 DEF Phone, Move, Connect, Authenticate, ReadChallenge, Disconnect
  <2>5. ASSUME NEW h \in Conn, SkipConn(h) \/ ReadRssi(h) PROVE LedInv'
    BY <2>1, <2>5 DEF SkipConn, ReadRssi
  <2>6. ASSUME NEW h \in Conn, ApplySample(h) PROVE LedInv'
    <3>1. UNCHANGED buttonVars
      BY <2>6 DEF ApplySample
    <3> QED
      BY <2>1, <2>2, <2>6, <3>1, SampleSetsBoth
  <2>7. CASE HoldButton
    BY <2>7, TicksAssumption DEF HoldButton, NextTicks, LedOf
  <2>8. CASE FactoryReset
    BY <2>8 DEF FactoryReset, SetLock, LedOf
  <2>9. CASE ReleaseButton
    BY <2>9, TicksAssumption DEF ReleaseButton, LedOf
  <2> QED
    BY <2>3, <2>4, <2>5, <2>6, <2>7, <2>8, <2>9 DEF Next, PollStep, Button
<1>3. LedInv => LedShowsLock
  BY DEF LedInv
<1> QED
  BY <1>1, <1>2, <1>3, PassiveTypeCorrect, PTL DEF Spec

-----------------------------------------------------------------------------
(* The window of a slot.                                                   *)

Reading == [rssi: Sample, own: BOOLEAN]

\* The history after one more reading.
Slid(s, r) == Append(IF Len(s) = Window THEN Tail(s) ELSE s, r)

(* The newest is r; counted from the newest, the others move up by one.    *)
LEMMA Slides ==
    ASSUME NEW s \in Seq(Reading), Len(s) <= Window, NEW r \in Reading
    PROVE  LET t == Slid(s, r)
           IN  /\ Len(t) \in Nat /\ Len(t) >= 1 /\ t[Len(t)] = r
               /\ \A d \in 1..Len(s) : d < Window =>
                     d < Len(t) /\ t[Len(t) - d] = s[Len(s) - (d - 1)]
               /\ \A i \in 1..Len(t) : i < Len(t) => \E k \in {i, i + 1} :
                     k \in 1..Len(s) /\ t[i] = s[k]
               /\ s = <<>> => Len(t) = 1
<1> DEFINE t == Slid(s, r)
<1>0. PICK n \in Nat : Len(s) = n /\ DOMAIN s = 1..n
  BY LenProperties
<1>1. CASE n = Window
  <2>0. s # <<>>
    BY <1>0, <1>1, WindowPositive, EmptySeq
  <2>1. Tail(s) \in Seq(Reading) /\ Len(Tail(s)) = n - 1 /\ \A i \in 1..(n - 1) : Tail(s)[i] = s[i + 1]
    BY <1>0, <2>0, HeadTailProperties
  <2>2. t = Append(Tail(s), r)
    BY <1>0, <1>1 DEF Slid
  <2>3. Len(t) = n /\ t[n] = r /\ \A i \in 1..(n - 1) : t[i] = s[i + 1]
    BY <1>0, <2>1, <2>2, AppendProperties
  <2> HIDE DEF t
  <2>4. n >= 1
    BY <1>1, WindowPositive
  <2>5. ASSUME NEW d \in 1..n, d < Window PROVE d < n /\ t[n - d] = s[n - (d - 1)]
    <3>1. n - d \in 1..(n - 1) /\ (n - d) + 1 = n - (d - 1)
      BY <1>0, <1>1, <2>5
    <3> QED
      BY <1>1, <2>3, <2>5, <3>1
  <2>6. ASSUME NEW i \in 1..n, i < n PROVE i + 1 \in 1..n /\ t[i] = s[i + 1]
    BY <2>3, <2>6
  <2> QED
    BY <1>0, <2>0, <2>3, <2>4, <2>5, <2>6 DEF t
<1>2. CASE n # Window
  <2>1. t = Append(s, r)
    BY <1>0, <1>2 DEF Slid
  <2>2. Len(t) = n + 1 /\ t[n + 1] = r /\ \A i \in 1..n : t[i] = s[i]
    BY <1>0, <2>1, AppendProperties
  <2> HIDE DEF t
  <2>3. ASSUME NEW d \in 1..n PROVE d < n + 1 /\ t[(n + 1) - d] = s[n - (d - 1)]
    <3>1. (n + 1) - d \in 1..n /\ (n + 1) - d = n - (d - 1)
      BY <1>0, <2>3
    <3> QED
      BY <2>2, <2>3, <3>1
  <2>4. ASSUME NEW i \in 1..(n + 1), i < n + 1 PROVE i \in 1..n /\ t[i] = s[i]
    BY <1>0, <2>2, <2>4
  <2>5. s = <<>> => n + 1 = 1
    BY <1>0
  <2> QED
    BY <1>0, <2>2, <2>3, <2>4, <2>5 DEF t
<1> QED
  BY <1>0, <1>1, <1>2

(* Fewer than Window indices in a row have different places.               *)
LEMMA PlacesDiffer ==
    ASSUME NEW a \in Nat, NEW b \in Nat, a < b, b < a + Window
    PROVE  a % Window # b % Window
<1>1. Window \in Nat /\ Window > 0
  BY WindowPositive
<1> DEFINE q == a \div Window
           r == b \div Window
<1>2. q \in Int /\ a = Window * q + (a % Window)
  BY <1>1
<1>3. r \in Int /\ b = Window * r + (b % Window)
  BY <1>1
<1> HIDE DEF q, r
<1>4. SUFFICES ASSUME a % Window = b % Window PROVE FALSE
  OBVIOUS
<1>5. b - a = Window * (r - q)
  BY <1>1, <1>2, <1>3, <1>4
<1>6. \A k \in Int : (k <= 0 => Window * k <= 0) /\ (k >= 1 => Window * k >= Window)
  BY <1>1
<1>7. r - q \in Int
  BY <1>2, <1>3
<1> QED
  BY <1>1, <1>5, <1>6, <1>7

\* What was put at the places of the last Window indices is in the history,
\* as far back as there are indices: after a wrap, one has to be at least
\* Window again.
HoldsLast(h) ==
    \A n \in 0..(rssi_idx[h] - 1) : n >= rssi_idx[h] - Window =>
       LET d == rssi_idx[h] - 1 - n
       IN  /\ d < Len(last[h])
           /\ rssi_buf[h][n % Window] = last[h][Len(last[h]) - d].rssi

\* Only the first sample of a session may be of another one ...
OwnAfterFirst(h) == auth[h] # "disconnected" => \A i \in 2..Len(last[h]) : last[h][i].own

\* ... because a reading from before the session can only come first.
ForeignIsFirst ==
    reading # NoReading =>
       /\ poll \in Conn
       /\ ~reading.own /\ auth[poll] # "disconnected" => last[poll] = <<>>

WindowInv == (\A h \in Conn : HoldsLast(h) /\ OwnAfterFirst(h)) /\ ForeignIsFirst

LEMMA SampleKeepsWindow ==
    ASSUME TypeInv, WindowInv, NEW h \in Conn, ApplySample(h)
    PROVE  HoldsLast(h)' /\ OwnAfterFirst(h)'
<1> DEFINE x == rssi_idx[h]
           s == last[h]
           t == Slid(s, reading)
           old == rssi_buf[h]
           new == rssi_buf'[h]
<1>1. /\ x \in 0..(IdxMod - 1) /\ s \in Seq(Reading) /\ Len(s) <= Window
      /\ reading \in Reading /\ old \in [Place -> Sample \union {0}]
  <2>1. x \in 0..(IdxMod - 1) /\ Len(s) <= Window /\ old \in [Place -> Sample \union {0}]
    BY DEF TypeInv, PassiveTypeOK
  <2>2. s \in Seq(Reading)
    BY DEF TypeInv, Reading
  <2>3. reading \in Reading
    BY DEF TypeInv, PassiveTypeOK, Reading, ApplySample
  <2> QED
    BY <2>1, <2>2, <2>3
<1>2. last'[h] = t /\ rssi_idx'[h] = (x + 1) % IdxMod /\ auth' = auth
  BY DEF ApplySample, Slid, TypeInv, PassiveTypeOK
<1>3. x \in Nat /\ IdxMod \in Nat /\ x < IdxMod /\ x % Window \in Place
  <2>1. x \in Nat /\ IdxMod \in Nat /\ x < IdxMod
    BY <1>1, IdxModAssumption
  <2> QED
    BY <2>1, WindowPositive
<1>4. new = [old EXCEPT ![x % Window] = reading.rssi]
  BY DEF ApplySample, TypeInv, PassiveTypeOK
<1>5. HoldsLast(h) /\ OwnAfterFirst(h) /\ ForeignIsFirst /\ poll = h /\ reading # NoReading
  BY DEF WindowInv, ApplySample
<1>6. /\ Len(t) \in Nat /\ Len(t) >= 1 /\ t[Len(t)] = reading
      /\ \A d \in 1..Len(s) : d < Window => d < Len(t) /\ t[Len(t) - d] = s[Len(s) - (d - 1)]
      /\ \A i \in 1..Len(t) : i < Len(t) => \E k \in {i, i + 1} : k \in 1..Len(s) /\ t[i] = s[k]
      /\ s = <<>> => Len(t) = 1
  <2> HIDE DEF s
  <2> QED
    BY <1>1, Slides
<1>7. PICK m \in Nat : Len(s) = m
  BY <1>1, LenProperties
<1>8. HoldsLast(h)'
  <2> DEFINE y == rssi_idx'[h]
  <2>1. CASE x + 1 = IdxMod
    <3>1. y = 0
      BY <1>2, <1>3, <2>1
    <3> QED
      BY <3>1 DEF HoldsLast
  <2>2. CASE x + 1 # IdxMod
    <3>1. y = x + 1
      BY <1>2, <1>3, <2>2
    <3>2. ASSUME NEW n \in 0..x, n >= x + 1 - Window
          PROVE  LET d == x - n IN d < Len(t) /\ new[n % Window] = t[Len(t) - d].rssi
      <4>1. CASE n = x
        BY <1>1, <1>3, <1>4, <1>6, <4>1
      <4>2. CASE n # x
        <5>1. n \in 0..(x - 1) /\ n >= x - Window /\ n < x /\ x < n + Window /\ n \in Nat
          BY <1>3, <3>2, <4>2, WindowPositive
        <5>2. LET d == x - 1 - n IN d < m /\ old[n % Window] = s[m - d].rssi
          BY <1>5, <1>7, <5>1 DEF HoldsLast
        <5>3. n % Window # x % Window /\ n % Window \in Place
          BY <1>3, <5>1, PlacesDiffer, WindowPositive
        <5>4. new[n % Window] = old[n % Window]
          <6> HIDE DEF old, new
          <6> QED
            BY <1>1, <1>4, <5>3
        <5>5. /\ x - n \in 1..m /\ x - n < Window /\ (x - n) - 1 = x - 1 - n
          BY <1>3, <5>1, <5>2, WindowPositive
        <5>6. x - n < Len(t) /\ t[Len(t) - (x - n)] = s[m - ((x - n) - 1)]
          <6> HIDE DEF s, t
          <6> QED
            BY <1>6, <1>7, <5>5
        <5> HIDE DEF s, t, old, new
        <5> QED
          BY <5>2, <5>4, <5>5, <5>6
      <4> QED
        BY <4>1, <4>2
    <3> HIDE DEF x, t
    <3>3. (x + 1) - 1 = x /\ \A n \in 0..x : (x + 1) - 1 - n = x - n
      BY <1>3
    <3>4. y = x + 1 /\ last'[h] = t
      BY <1>2, <3>1
    <3> HIDE DEF y, new
    <3>5. ASSUME NEW n \in 0..(y - 1), n >= y - Window
          PROVE  LET d == y - 1 - n IN d < Len(t) /\ new[n % Window] = t[Len(t) - d].rssi
      <4>1. n \in 0..x /\ n >= x + 1 - Window /\ y - 1 - n = x - n
        BY <1>3, <3>4, <3>5, WindowPositive
      <4> QED
        BY <3>2, <4>1
    <3> QED
      BY <3>4, <3>5 DEF HoldsLast, y, new
  <2> QED
    BY <2>1, <2>2
<1>9. OwnAfterFirst(h)'
  <2> SUFFICES ASSUME auth[h] # "disconnected", NEW i \in 2..Len(t) PROVE t[i].own
    BY <1>2 DEF OwnAfterFirst
  <2>1. CASE i = Len(t)
    <3>1. s # <<>>
      BY <1>6, <2>1
    <3> QED
      BY <1>5, <1>6, <2>1, <3>1 DEF ForeignIsFirst
  <2>2. CASE i # Len(t)
    <3>1. PICK k \in {i, i + 1} : k \in 1..Len(s) /\ t[i] = s[k]
      <4>1. i \in 1..Len(t) /\ i < Len(t)
        BY <1>6, <2>2
      <4> QED
        BY <1>6, <4>1
    <3>2. k \in 2..Len(s)
      BY <1>7, <3>1
    <3> QED
      BY <1>5, <3>1, <3>2 DEF OwnAfterFirst
  <2> QED
    BY <2>1, <2>2
<1> QED
  BY <1>8, <1>9

LEMMA WindowKept ==
    ASSUME TypeInv, WindowInv, [Next]_vars
    PROVE  WindowInv'
<1> USE DEF WindowInv
<1>0. /\ auth \in [Conn -> {"disconnected", "connected", "ok"}]
      /\ rssi_idx \in [Conn -> 0..(IdxMod - 1)] /\ DOMAIN last = Conn
      /\ \A h \in Conn : h # Conns /\ h \in Int
  BY ConnsAssumption DEF TypeInv, PassiveTypeOK, Conn
<1>1. ASSUME NEW h \in Conn,
             rssi_idx'[h] = rssi_idx[h], rssi_buf'[h] = rssi_buf[h], last'[h] = last[h],
             auth[h] = "disconnected" => auth'[h] = "disconnected"
      PROVE  HoldsLast(h)' /\ OwnAfterFirst(h)'
  BY <1>1 DEF HoldsLast, OwnAfterFirst
<1>2. ASSUME UNCHANGED <<auth, rssi_buf, rssi_idx, last>>, ForeignIsFirst' PROVE WindowInv'
  BY <1>1, <1>2
<1>3. ASSUME UNCHANGED <<auth, rssi_buf, rssi_idx, last, pollVars>> PROVE WindowInv'
  BY <1>2, <1>3 DEF pollVars, ForeignIsFirst
<1>4. CASE UNCHANGED vars
  BY <1>3, <1>4 DEF vars, slotVars, history
<1>5. CASE Button
  BY <1>3, <1>5 DEF Button, HoldButton, FactoryReset, ReleaseButton, slotVars, history
<1>6. ASSUME NEW h \in Conn, NEW s \in Sample, Move(h, s) PROVE WindowInv'
  BY <1>3, <1>6 DEF Move, slotVars, history
<1>7. ASSUME NEW h \in Conn, Connect(h) PROVE WindowInv'
  <2>1. rssi_idx'[h] = 0 /\ last'[h] = <<>>
    BY <1>0, <1>7 DEF Connect
  <2>2. HoldsLast(h)' /\ OwnAfterFirst(h)'
    BY <2>1 DEF HoldsLast, OwnAfterFirst
  <2>3. ASSUME NEW c \in Conn, c # h PROVE HoldsLast(c)' /\ OwnAfterFirst(c)'
    BY <1>0, <1>1, <1>7, <2>3 DEF Connect
  <2>4. ForeignIsFirst'
    BY <1>0, <1>7, <2>1 DEF Connect, ForeignIsFirst, pollVars
  <2> QED
    BY <2>2, <2>3, <2>4
<1>8. ASSUME NEW h \in Conn, Authenticate(h) \/ ReadChallenge(h) PROVE WindowInv'
  <2>1. \A c \in Conn : auth'[c] = "disconnected" <=> auth[c] = "disconnected"
    BY <1>0, <1>8 DEF Authenticate, ReadChallenge
  <2>2. UNCHANGED <<rssi_buf, rssi_idx, last, poll, reading>>
    BY <1>8 DEF Authenticate, ReadChallenge, history, pollVars
  <2>3. ForeignIsFirst'
    BY <2>1, <2>2 DEF ForeignIsFirst
  <2> QED
    BY <1>1, <2>1, <2>2, <2>3
<1>9. ASSUME NEW h \in Conn, Disconnect(h) PROVE WindowInv'
  <2>1. auth'[h] = "disconnected" /\ \A c \in Conn : c # h => auth'[c] = auth[c]
    BY <1>0, <1>9 DEF Disconnect
  <2>2. UNCHANGED <<rssi_buf, rssi_idx, last, poll>>
    BY <1>9 DEF Disconnect, history
  <2>3. ForeignIsFirst'
    <3>1. CASE poll = h
      BY <2>1, <2>2, <3>1 DEF ForeignIsFirst
    <3>2. CASE poll # h
      BY <1>9, <2>1, <2>2, <3>2 DEF Disconnect, ForeignIsFirst
    <3> QED
      BY <3>1, <3>2
  <2>4. \A c \in Conn : auth[c] = "disconnected" => auth'[c] = "disconnected"
    BY <2>1
  <2> QED
    BY <1>1, <2>2, <2>3, <2>4
<1>10. CASE StartPoll
  <2>1. reading = NoReading /\ reading' = reading
    BY <1>0, <1>10 DEF StartPoll, ForeignIsFirst
  <2> QED
    BY <1>2, <1>10, <2>1 DEF StartPoll, slotVars, history, ForeignIsFirst
<1>11. ASSUME NEW h \in Conn, SkipConn(h) PROVE WindowInv'
  BY <1>2, <1>11 DEF SkipConn, slotVars, history, ForeignIsFirst
<1>12. ASSUME NEW h \in Conn, ReadRssi(h) PROVE WindowInv'
  BY <1>2, <1>12 DEF ReadRssi, slotVars, history, ForeignIsFirst
<1>13. ASSUME NEW h \in Conn, ApplySample(h) PROVE WindowInv'
  <2>1. ASSUME NEW c \in Conn, c # h PROVE HoldsLast(c)' /\ OwnAfterFirst(c)'
    BY <1>1, <1>13, <2>1 DEF ApplySample, TypeInv, PassiveTypeOK
  <2>2. ForeignIsFirst'
    BY <1>13 DEF ApplySample, ForeignIsFirst
  <2> QED
    BY <1>13, <2>1, <2>2, SampleKeepsWindow
<1> QED
  BY <1>4, <1>5, <1>6, <1>7, <1>8, <1>9, <1>10, <1>11, <1>12, <1>13 DEF Next, PollStep, Phone

LEMMA WindowInvariant == Spec => []WindowInv
<1>1. Init => WindowInv
  BY DEF Init, WindowInv, HoldsLast, OwnAfterFirst, ForeignIsFirst
<1> QED
  BY <1>1, WindowKept, TypeInvariant, PTL DEF Spec

-----------------------------------------------------------------------------
\* The samples of the history, oldest first.
LastSamples(h) == [i \in 1..Window |-> last[h][i].rssi]

(* Once the index has reached Window, ring buffer and history have the     *)
(* same samples.                                                           *)
LEMMA BufferIsHistory ==
    ASSUME TypeInv, NEW h \in Conn, HoldsLast(h), rssi_idx[h] >= Window
    PROVE  Len(last[h]) = Window /\ Rearranges(LastSamples(h), rssi_buf[h])
<1> DEFINE x == rssi_idx[h]
           buf == rssi_buf[h]
           g == [i \in 1..Window |-> ((x - Window - 1) + i) % Window]
<1>0. /\ Window \in Nat /\ Window >= 1 /\ x \in Nat /\ x >= Window
      /\ \A n \in Nat : n % Window \in Place
  BY WindowPositive, IdxModAssumption DEF TypeInv, PassiveTypeOK
<1>1. Len(last[h]) \in Nat /\ Len(last[h]) <= Window /\ DOMAIN buf = Place
  BY LenProperties DEF TypeInv, PassiveTypeOK
<1>2. ASSUME NEW i \in 1..Window
      PROVE  /\ (x - Window - 1) + i \in 0..(x - 1)
             /\ (x - Window - 1) + i >= x - Window
             /\ x - 1 - ((x - Window - 1) + i) = Window - i
  <2>1. Window \in Nat /\ Window >= 1 /\ x \in Nat /\ x >= Window
    BY <1>0
  <2> HIDE DEF x
  <2> QED
    BY <2>1
<1>3. Len(last[h]) = Window
  <2>1. 1 \in 1..Window
    BY <1>0
  <2>2. Window - 1 < Len(last[h])
    BY <1>2, <2>1 DEF HoldsLast
  <2> QED
    BY <1>0, <1>1, <2>2
<1>4. ASSUME NEW i \in 1..Window PROVE last[h][i].rssi = buf[g[i]]
  <2>1. buf[((x - Window - 1) + i) % Window] = last[h][Len(last[h]) - (Window - i)].rssi
    BY <1>2 DEF HoldsLast
  <2>2. Len(last[h]) - (Window - i) = i
    BY <1>0, <1>3
  <2> QED
    BY <2>1, <2>2
<1>5. g \in Injection(1..Window, Place)
  <2>1. \A i \in 1..Window : (x - Window - 1) + i \in Nat
    BY <1>0
  <2>2. g \in [1..Window -> Place]
    BY <1>0, <2>1
  <2>3. ASSUME NEW i \in 1..Window, NEW j \in 1..Window, i < j PROVE g[i] # g[j]
    <3>1. /\ (x - Window - 1) + i < (x - Window - 1) + j
          /\ (x - Window - 1) + j < ((x - Window - 1) + i) + Window
      BY <1>0, <2>3
    <3> QED
      BY <2>1, <3>1, PlacesDiffer
  <2>4. \A i, j \in 1..Window : i < j \/ j < i \/ i = j
    BY <1>0
  <2> HIDE DEF g
  <2>5. \A i, j \in 1..Window : g[i] = g[j] => i = j
    BY <2>3, <2>4
  <2> QED
    BY <2>2, <2>5 DEF Injection, IsInjective
<1>6. g \in Bijection(1..Window, Place)
  <2>1. /\ IsFiniteSet(Place) /\ Cardinality(Place) = Window
        /\ IsFiniteSet(1..Window) /\ Cardinality(1..Window) = Window
    <3>1. Cardinality(0..(Window - 1)) = Window /\ Cardinality(1..Window) = Window
      <4>1. \A a, b \in Int : Cardinality(a..b) = IF a > b THEN 0 ELSE b - a + 1
        BY FS_Interval
      <4> QED
        BY <1>0, <4>1
    <3>2. IsFiniteSet(0..(Window - 1)) /\ IsFiniteSet(1..Window)
      BY <1>0, FS_Interval
    <3> QED
      BY <3>1, <3>2 DEF Place
  <2> HIDE DEF g
  <2>2. g \in Surjection(1..Window, Place)
    BY <1>5, <2>1, FS_Injection
  <2> QED
    BY <1>5, <2>2 DEF Bijection
<1> HIDE DEF g
<1> QED
  BY <1>1, <1>3, <1>4, <1>6 DEF Rearranges, LastSamples

\* What the poll evaluates is a median of the last samples.
MedianInv ==
    \A h \in Conn : rssi_idx[h] >= Window =>
       /\ Len(last[h]) = Window /\ LastSamples(h) \in [1..Window -> Int]
       /\ MedianOf(rssi_buf[h]) \in Int /\ IsMedian(MedianOf(rssi_buf[h]), LastSamples(h))

LEMMA MedianEvaluated == TypeInv /\ WindowInv => MedianInv
<1> SUFFICES ASSUME TypeInv, WindowInv, NEW h \in Conn, rssi_idx[h] >= Window
             PROVE  /\ Len(last[h]) = Window /\ LastSamples(h) \in [1..Window -> Int]
                    /\ MedianOf(rssi_buf[h]) \in Int
                    /\ IsMedian(MedianOf(rssi_buf[h]), LastSamples(h))
  BY DEF MedianInv
<1>1. Len(last[h]) = Window /\ Rearranges(LastSamples(h), rssi_buf[h])
  BY BufferIsHistory DEF WindowInv
<1>0. \A s \in Sample \union {0} : s \in Int
  BY SampleAssumption
<1>2. rssi_buf[h] \in [Place -> Int]
  <2>1. rssi_buf[h] \in [Place -> Sample \union {0}]
    BY DEF TypeInv, PassiveTypeOK
  <2> QED
    BY <1>0, <2>1
<1>3. LastSamples(h) \in [1..Window -> Int]
  <2>1. \A i \in 1..Window : last[h][i] \in Reading
    BY <1>1, ElementOfSeq DEF TypeInv, Reading
  <2>2. \A i \in 1..Window : last[h][i].rssi \in Int
    BY <1>0, <2>1 DEF Reading
  <2> QED
    BY <2>2 DEF LastSamples
<1>4. IsFiniteSet(DOMAIN LastSamples(h))
  BY WindowPositive, FS_Interval DEF LastSamples
<1>5. MedianOf(rssi_buf[h]) \in Int /\ IsMedian(MedianOf(rssi_buf[h]), rssi_buf[h])
  BY <1>2, MedianIsMedian
<1>6. \A p \in DOMAIN rssi_buf[h] : rssi_buf[h][p] \in Int
  BY <1>2
<1> QED
  BY <1>1, <1>3, <1>4, <1>5, <1>6, MedianRearranged

(* Whatever sessions follow each other in a slot, the poll evaluates it    *)
(* only when its ring buffer holds the last samples, all of them, with at  *)
(* most one of a former session, and takes their median, across every wrap *)
(* of the index (dk_proximity.c:74-84).                                    *)
THEOREM LastSamplesDecide == Spec => []EvaluatesLastSamples
<1>1. TypeInv /\ WindowInv => EvaluatesLastSamples
  <2> SUFFICES ASSUME TypeInv, WindowInv, NEW h \in Conn, auth[h] # "disconnected", rssi_idx[h] >= Window
               PROVE  /\ Len(last[h]) = Window
                      /\ IsMedian(MedianOf(rssi_buf[h]), LastSamples(h))
                      /\ Cardinality(Own(h)) >= Window - 1
    BY DEF EvaluatesLastSamples, LastSamples
  <2>0. Window \in Nat /\ Window >= 1
    BY WindowPositive
  <2>1. OwnAfterFirst(h)
    BY DEF WindowInv
  <2>2. Len(last[h]) = Window /\ IsMedian(MedianOf(rssi_buf[h]), LastSamples(h))
    BY MedianEvaluated DEF MedianInv
  <2>3. 2..Window \subseteq Own(h)
    BY <2>1, <2>2 DEF OwnAfterFirst, Own
  <2>4. IsFiniteSet(Own(h))
    <3>1. Own(h) \subseteq 1..Window
      BY <2>2 DEF Own
    <3>2. IsFiniteSet(1..Window)
      BY <2>0, FS_Interval
    <3> QED
      BY <3>1, <3>2, FS_Subset
  <2>5. Cardinality(2..Window) = Window - 1
    <3>1. Cardinality(2..Window) = IF 2 > Window THEN 0 ELSE Window - 2 + 1
      BY <2>0, FS_Interval
    <3>2. CASE Window = 1
      BY <3>1, <3>2
    <3>3. CASE Window > 1
      BY <2>0, <3>1, <3>3
    <3> QED
      BY <2>0, <3>2, <3>3
  <2>6. Cardinality(2..Window) <= Cardinality(Own(h))
    BY <2>3, <2>4, FS_Subset
  <2>7. Cardinality(Own(h)) \in Nat
    BY <2>4, FS_CardinalityType
  <2> QED
    BY <2>2, <2>5, <2>6, <2>7, WindowPositive
<1> QED
  BY <1>1, TypeInvariant, WindowInvariant, PTL

-----------------------------------------------------------------------------
(* Unlocking.                                                              *)

\* The hold count of an immediate slot is behind the evaluations in a row, and
\* an evaluation needs a sample.
RunInv ==
    \A h \in Conn :
       /\ prev_zone[h] = IMMEDIATE => run[h] > hold[h]
       /\ run[h] > 0 => last[h] # <<>>

LEMMA SampleKeepsRun ==
    ASSUME HoldTicks < RunCap, TypeInv, RunInv, NEW h \in Conn, ApplySample(h)
    PROVE  RunInv'
<1> DEFINE zone == ZoneFromRssi(MedianOf(rssi_buf'[h]))
<1>0. /\ prev_zone \in [Conn -> NONE..IMMEDIATE] /\ hold \in [Conn -> 0..HoldTicks]
      /\ run \in [Conn -> 0..RunCap] /\ DOMAIN last = Conn
      /\ HoldTicks \in Nat /\ RunCap \in Nat
  BY TicksAssumption DEF TypeInv, PassiveTypeOK
<1>1. UNCHANGED <<prev_zone, hold, run>> \/ (auth[h] = "ok" /\ CheckAutoLock(h, zone))
  BY DEF ApplySample, CheckAutoLock
<1> HIDE DEF zone
<1>2. ASSUME NEW c \in Conn, c # h
      PROVE  /\ prev_zone'[c] = prev_zone[c] /\ hold'[c] = hold[c] /\ run'[c] = run[c]
             /\ last'[c] = last[c]
  <2>1. last'[c] = last[c]
    BY <1>0, <1>2 DEF ApplySample
  <2>2. prev_zone'[c] = prev_zone[c] /\ hold'[c] = hold[c] /\ run'[c] = run[c]
    BY <1>0, <1>1, <1>2 DEF CheckAutoLock, Evaluated
  <2> QED
    BY <2>1, <2>2
<1>3. last'[h] # <<>>
  <2>1. last'[h] = Slid(last[h], reading)
    BY <1>0 DEF ApplySample, Slid
  <2>2. last[h] \in Seq(Reading) /\ Len(last[h]) <= Window /\ reading \in Reading
    BY DEF ApplySample, TypeInv, PassiveTypeOK, Reading
  <2>3. Len(last'[h]) >= 1
    BY <2>1, <2>2, Slides
  <2> QED
    BY <2>3
<1>4. ASSUME auth[h] = "ok", CheckAutoLock(h, zone), prev_zone'[h] = IMMEDIATE
      PROVE  run'[h] > hold'[h]
  <2>1. /\ run[h] \in 0..RunCap /\ hold[h] \in 0..HoldTicks
        /\ prev_zone[h] = IMMEDIATE => run[h] > hold[h]
    BY <1>0 DEF RunInv
  <2>2. zone = IMMEDIATE
    BY <1>0, <1>4 DEF CheckAutoLock
  <2>3. run'[h] = IF run[h] < RunCap THEN run[h] + 1 ELSE run[h]
    BY <1>0, <1>4, <2>2 DEF CheckAutoLock, Evaluated
  <2>4. \/ prev_zone[h] = IMMEDIATE /\ hold'[h] = CountUp(hold[h])
        \/ hold'[h] = 0
    BY <1>0, <1>4, <2>2 DEF CheckAutoLock
  <2> QED
    BY <1>0, <2>1, <2>3, <2>4 DEF CountUp
<1>5. prev_zone'[h] = IMMEDIATE => run'[h] > hold'[h]
  BY <1>1, <1>4 DEF RunInv
<1> QED
  BY <1>2, <1>3, <1>5 DEF RunInv

LEMMA RunInvariant ==
    ASSUME HoldTicks < RunCap
    PROVE  Spec => []RunInv
<1>1. Init => RunInv
  BY DEF Init, RunInv, NONE, IMMEDIATE
<1>2. TypeInv /\ RunInv /\ [Next]_vars => RunInv'
  <2> SUFFICES ASSUME TypeInv, RunInv, [Next]_vars PROVE RunInv'
    OBVIOUS
  <2>1. ASSUME UNCHANGED <<prev_zone, hold, run, last>> PROVE RunInv'
    BY <2>1 DEF RunInv
  <2>2. ASSUME NEW h \in Conn, Connect(h) PROVE RunInv'
    <3>1. prev_zone'[h] = NONE /\ run'[h] = 0
      BY <2>2 DEF Connect, TypeInv, PassiveTypeOK
    <3>2. \A c \in Conn : c # h => /\ prev_zone'[c] = prev_zone[c] /\ hold'[c] = hold[c]
                                   /\ run'[c] = run[c] /\ last'[c] = last[c]
      BY <2>2 DEF Connect, TypeInv, PassiveTypeOK
    <3> QED
      BY <3>1, <3>2 DEF RunInv, NONE, IMMEDIATE
  <2>3. ASSUME NEW h \in Conn, Phone(h) PROVE RunInv'
    BY <2>1, <2>2, <2>3 DEF Phone, Move, Authenticate, ReadChallenge, Disconnect, slotVars, history
  <2>4. CASE PollStep
    BY <2>1, <2>4, SampleKeepsRun DEF PollStep, StartPoll, SkipConn, ReadRssi, slotVars, history
  <2>5. CASE Button
    BY <2>1, <2>5 DEF Button, HoldButton, FactoryReset, ReleaseButton, slotVars, history
  <2>6. CASE UNCHANGED vars
    BY <2>1, <2>6 DEF vars, slotVars, history
  <2> QED
    BY <2>3, <2>4, <2>5, <2>6 DEF Next
<1> QED
  BY <1>1, <1>2, TypeInvariant, PTL DEF Spec

(* Only the poll of an authenticated session in its hold time unlocks.     *)
LEMMA OnlySamplesUnlock ==
    ASSUME [Next]_vars, lock = "locked", lock' = "unlocked"
    PROVE  \E h \in Conn :
              /\ ApplySample(h) /\ auth[h] = "ok" /\ rssi_idx'[h] >= Window
              /\ CheckAutoLock(h, IMMEDIATE) /\ prev_zone[h] = IMMEDIATE
              /\ hold'[h] = HoldTicks /\ hold' = [hold EXCEPT ![h] = CountUp(@)]
              /\ ZoneFromRssi(MedianOf(rssi_buf'[h])) = IMMEDIATE
<1>1. lock' # lock
  OBVIOUS
<1>2. PICK h \in Conn : ApplySample(h)
  BY <1>1 DEF Next, PollStep, StartPoll, SkipConn, ReadRssi, Button, HoldButton, FactoryReset,
              ReleaseButton, SetLock, Phone, Move, Connect, Authenticate, ReadChallenge, Disconnect,
              vars, lockVars
<1> DEFINE zone == ZoneFromRssi(MedianOf(rssi_buf'[h]))
<1>3. rssi_idx'[h] >= Window /\ CheckAutoLock(h, zone)
  BY <1>1, <1>2 DEF ApplySample, lockVars
<1> HIDE DEF zone
<1>4. auth[h] = "ok"
  BY <1>1, <1>3 DEF CheckAutoLock, lockVars
<1>5. zone = prev_zone[h] /\ hold' = [hold EXCEPT ![h] = CountUp(@)] /\ Act(h, zone, hold'[h])
  BY <1>1, <1>3, <1>4 DEF CheckAutoLock, lockVars
<1>6. hold'[h] = HoldTicks /\ zone = IMMEDIATE
  BY <1>1, <1>5 DEF Act, SetLock, lockVars
<1> QED
  BY <1>2, <1>3, <1>4, <1>5, <1>6 DEF zone

(* A median of a window whose later samples are all not immediate is not   *)
(* immediate, unless the window has one place.                             *)
LEMMA ImmediateMedian ==
    ASSUME NEW s \in [1..Window -> Int], NEW m \in Int, IsMedian(m, s), ZoneFromRssi(m) = IMMEDIATE
    PROVE  \/ Window = 1 /\ ZoneFromRssi(s[1]) = IMMEDIATE
           \/ \E i \in 2..Window : ZoneFromRssi(s[i]) = IMMEDIATE
<1>0. Window = 2 * Half + 1 /\ Half \in Nat
  BY WindowFacts DEF Place
<1>1. \A v \in Int : ZoneFromRssi(v) = IMMEDIATE <=> v > ThresholdImm
  BY ThresholdAssumption DEF ZoneFromRssi, IMMEDIATE, NEAR, FAR
<1>2. CASE Half = 0
  <2>1. PICK p \in 1..Window : s[p] = m
    BY DEF IsMedian
  <2> QED
    BY <1>0, <1>2, <2>1
<1>3. CASE Half # 0
  <2> SUFFICES ASSUME \A i \in 2..Window : ZoneFromRssi(s[i]) # IMMEDIATE PROVE FALSE
    OBVIOUS
  <2> DEFINE Less == { p \in 1..Window : s[p] < m }
  <2>1. 2..Window \subseteq Less
    <3> SUFFICES ASSUME NEW i \in 2..Window PROVE i \in 1..Window /\ s[i] < m
      OBVIOUS
    <3>1. i \in 1..Window /\ s[i] \in Int
      BY <1>0
    <3>2. ~(s[i] > ThresholdImm) /\ m > ThresholdImm
      BY <1>1, <3>1
    <3> QED
      BY <3>1, <3>2, ThresholdAssumption
  <2>2. Cardinality(Less) <= Half
    BY DEF IsMedian
  <2>3. IsFiniteSet(Less)
    <3>1. IsFiniteSet(1..Window)
      BY <1>0, FS_Interval
    <3> QED
      BY <3>1, FS_Subset
  <2> HIDE DEF Less
  <2>4. Cardinality(2..Window) <= Cardinality(Less) /\ Cardinality(Less) \in Nat
    BY <2>1, <2>3, FS_Subset, FS_CardinalityType
  <2>5. Cardinality(2..Window) = 2 * Half
    <3>1. Cardinality(2..Window) = IF 2 > Window THEN 0 ELSE Window - 2 + 1
      BY <1>0, FS_Interval
    <3> QED
      BY <1>0, <1>3, <3>1
  <2> QED
    BY <1>0, <1>3, <2>2, <2>4, <2>5
<1> QED
  BY <1>2, <1>3

(* The vehicle unlocks only for a connection that is authenticated, was    *)
(* evaluated as immediate more than DK_ZONE_HOLD_TICKS times in a row      *)
(* while it was, and has an immediate sample of its own in its window,     *)
(* taken before or after the authentication, whatever slots changed hands  *)
(* while the poll waited for the radio (dk_proximity.c:43-69).  The        *)
(* history has to be able to count that far.                               *)
THEOREM OnlySteadyUnlocks ==
    ASSUME HoldTicks < RunCap
    PROVE  Spec => OnlySteadyImmediateUnlocks
<1> DEFINE Unlock ==
      lock = "locked" /\ lock' = "unlocked" =>
         \E h \in Conn :
            /\ auth[h] = "ok" /\ run'[h] > HoldTicks
            /\ \E i \in Own(h)' : ZoneFromRssi(last'[h][i].rssi) = IMMEDIATE
<1>1. /\ TypeInv /\ WindowInv /\ WindowInv' /\ MedianInv' /\ RunInv /\ [Next]_vars
      => Unlock
  <2> SUFFICES ASSUME TypeInv, WindowInv, WindowInv', MedianInv', RunInv, [Next]_vars,
                      lock = "locked", lock' = "unlocked"
               PROVE  \E h \in Conn :
                         /\ auth[h] = "ok" /\ run'[h] > HoldTicks
                         /\ \E i \in Own(h)' : ZoneFromRssi(last'[h][i].rssi) = IMMEDIATE
    OBVIOUS
  <2>1. PICK h \in Conn :
           /\ ApplySample(h) /\ auth[h] = "ok" /\ rssi_idx'[h] >= Window
           /\ CheckAutoLock(h, IMMEDIATE) /\ prev_zone[h] = IMMEDIATE
           /\ hold'[h] = HoldTicks /\ hold' = [hold EXCEPT ![h] = CountUp(@)]
           /\ ZoneFromRssi(MedianOf(rssi_buf'[h])) = IMMEDIATE
    BY OnlySamplesUnlock
  <2>2. run'[h] > HoldTicks /\ last[h] # <<>>
    <3>1. /\ run \in [Conn -> 0..RunCap] /\ hold \in [Conn -> 0..HoldTicks]
          /\ RunCap \in Nat /\ HoldTicks \in Nat
      BY TicksAssumption DEF TypeInv, PassiveTypeOK
    <3>2. run[h] > hold[h] /\ (run[h] > 0 => last[h] # <<>>)
      BY <2>1 DEF RunInv
    <3>3. run'[h] = IF run[h] < RunCap THEN run[h] + 1 ELSE run[h]
      BY <2>1, <3>1 DEF CheckAutoLock, Evaluated
    <3>4. CountUp(hold[h]) = HoldTicks
      BY <2>1, <3>1
    <3>5. run[h] \in 0..RunCap /\ hold[h] \in 0..HoldTicks
      BY <3>1
    <3> QED
      BY <3>1, <3>2, <3>3, <3>4, <3>5 DEF CountUp
  <2>3. /\ Len(last'[h]) = Window /\ LastSamples(h)' \in [1..Window -> Int]
        /\ MedianOf(rssi_buf'[h]) \in Int /\ IsMedian(MedianOf(rssi_buf'[h]), LastSamples(h)')
    BY <2>1 DEF MedianInv
  <2>4. \A i \in 1..Window : LastSamples(h)'[i] = last'[h][i].rssi
    BY DEF LastSamples
  <2>5. \A i \in 2..Window : last'[h][i].own
    <3>1. OwnAfterFirst(h)' /\ auth' = auth
      BY <2>1 DEF WindowInv, ApplySample
    <3> QED
      BY <2>1, <2>3, <3>1 DEF OwnAfterFirst
  <2>6. Window = 1 => last'[h][1].own
    <3>1. last'[h] = Slid(last[h], reading) /\ reading.own
      BY <2>1, <2>2 DEF ApplySample, Slid, WindowInv, ForeignIsFirst, TypeInv, PassiveTypeOK
    <3>2. last[h] \in Seq(Reading) /\ Len(last[h]) <= Window /\ reading \in Reading
      BY <2>1 DEF ApplySample, TypeInv, PassiveTypeOK, Reading
    <3>3. last'[h][Len(last'[h])] = reading
      BY <3>1, <3>2, Slides
    <3> QED
      BY <2>3, <3>1, <3>3
  <2>7. CASE Window = 1 /\ ZoneFromRssi(LastSamples(h)'[1]) = IMMEDIATE
    <3>1. 1 \in Own(h)' /\ ZoneFromRssi(last'[h][1].rssi) = IMMEDIATE
      BY <2>3, <2>4, <2>6, <2>7 DEF Own
    <3> QED
      BY <2>1, <2>2, <3>1
  <2>8. ASSUME NEW i \in 2..Window, ZoneFromRssi(LastSamples(h)'[i]) = IMMEDIATE
        PROVE  i \in Own(h)' /\ ZoneFromRssi(last'[h][i].rssi) = IMMEDIATE
    <3>1. i \in 1..Window
      BY <2>8, WindowPositive
    <3> QED
      BY <2>3, <2>4, <2>5, <2>8, <3>1 DEF Own
  <2> QED
    BY <2>1, <2>2, <2>3, <2>7, <2>8, ImmediateMedian
<1>2. Spec => [][Unlock]_vars
  BY <1>1, TypeInvariant, WindowInvariant, MedianEvaluated, RunInvariant, PTL DEF Spec
<1> QED
  BY <1>2 DEF OnlySteadyImmediateUnlocks
=============================================================================
