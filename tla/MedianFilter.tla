---------------------------- MODULE MedianFilter ----------------------------
(***************************************************************************)
(* The filter of the RSSI samples (firmware/main/dk_proximity.c), as       *)
(* operators: the exchange sort of median_of_5 and the zone of an RSSI.    *)
(* The window, five in the firmware, is a constant.                        *)
(***************************************************************************)
EXTENDS Integers, FiniteSets

CONSTANTS
    Window,        \* DK_RSSI_WINDOW_SIZE
    ThresholdFar,  \* DK_RSSI_THRESHOLD_FAR
    ThresholdImm   \* DK_RSSI_THRESHOLD_IMMEDIATE

ASSUME WindowAssumption == Window \in Nat /\ Window % 2 = 1
ASSUME ThresholdAssumption ==
    ThresholdFar \in Int /\ ThresholdImm \in Int /\ ThresholdFar <= ThresholdImm

Place == 0..(Window - 1)
Half  == (Window - 1) \div 2

\* One comparison of the inner loop.
Exchange(buf, i, j) ==
    IF buf[j] < buf[i] THEN [buf EXCEPT ![i] = buf[j], ![j] = buf[i]] ELSE buf

\* Between two comparisons: the copy, and what the two loops look at.
Loop == [buf: [Place -> Int], i: 0..Window, j: 0..(Window + 1)]

\* What becomes of the copy when the inner loop is about to compare place j.
Sort[l \in Loop] ==
    IF l.i >= Window - 1 THEN l.buf
    ELSE IF l.j >= Window
         THEN Sort[[l EXCEPT !.i = @ + 1, !.j = l.i + 2]]
         ELSE Sort[[l EXCEPT !.buf = Exchange(@, l.i, l.j), !.j = @ + 1]]

MedianOf(buf) == Sort[[buf |-> buf, i |-> 0, j |-> 1]][Half]

NONE == 0
FAR  == 1
NEAR == 2
IMMEDIATE == 3

ZoneFromRssi(rssi) ==
    IF rssi > ThresholdImm THEN IMMEDIATE ELSE IF rssi > ThresholdFar THEN NEAR ELSE FAR

\* What a median is: no more than half of the samples lie on either side.
IsMedian(m, s) ==
    /\ \E p \in DOMAIN s : s[p] = m
    /\ Cardinality({ p \in DOMAIN s : s[p] < m }) <= Half
    /\ Cardinality({ p \in DOMAIN s : s[p] > m }) <= Half
=============================================================================
