---------------------------- MODULE WebAuthProofs ---------------------------
(***************************************************************************)
(* Theorems about WebAuth, for any number of stations, computers, keys,    *)
(* commands and aborted passes.                                            *)
(***************************************************************************)
EXTENDS WebAuth, SequenceTheorems, TLAPS

USE DEF serverVars, vehicleVars, procVars, counters, history

Label   == {"idle", "register", "connect", "bind", "read", "write", "state", "verify", "manage"}
Signing == {"read", "write", "state", "verify", "manage"}
Entry   == [id: Key, of: Computer]
Session == [auth: {"disconnected", "connected", "challenge", "ok", "failed"},
            key: Key \union {None}, chal: Proc \union {None}]

ServerType ==
    /\ srv \in Seq(Key) /\ minted \subseteq Key /\ Range(srv) \subseteq minted
    /\ pub \in [Key -> Computer \union {None}]

TableType == tab \in Seq(Entry)

\* A session that is authenticated has a key.
Coherent(v) ==
    /\ v \in Session
    /\ v.chal # None <=> v.auth = "challenge"
    /\ v.auth = "ok" => v.key # None

SessionType == sess \in [Station -> Session] /\ \A s \in Station : Coherent(sess[s])

\* Where a process may be, and with which key.
Placed(p, l, k, files) ==
    /\ k = None <=> l = "idle"
    /\ l \in Signing => k \in files[Home[p[1]]]
    /\ l \in {"register", "bind", "verify"} => p[2] = "pass"
    /\ l = "manage" => p[2] = "command"
    /\ l = "connect" /\ p[2] = "command" => p[1] \in Cli /\ k \in files[Home[p[1]]]

ProcType ==
    /\ at \in [Proc -> Label] /\ key \in [Proc -> Key \union Local \union {None}]
    /\ pem \in [Computer -> SUBSET (Key \union Local)]
    /\ \A p \in Proc : Placed(p, at[p], key[p], pem)

HistoryType ==
    /\ mark \in [Web -> {"none", "verified", "aborted"}]
    /\ proven \in [Station -> SUBSET Proc]
    /\ commands \in 0..MaxCommands /\ aborts \in 0..MaxAborts

TypeInv == ServerType /\ TableType /\ SessionType /\ ProcType /\ HistoryType

-----------------------------------------------------------------------------
(* What the parameters are.                                                *)

(* A process is the pass of a dk-web or the command of a station.          *)
LEMMA Processes ==
    /\ \A p \in Proc : /\ p[1] \in Station /\ Home[p[1]] \in Computer
                       /\ p[2] \in {"pass", "command"}
                       /\ p[2] = "pass" => p[1] \in Web /\ p = <<p[1], "pass">>
    /\ \A s \in Web : <<s, "pass">> \in Proc /\ s \in Station
    /\ \A s \in Web : s \notin Cli
BY HomeAssumption DEF Proc, Station

(* A sequence without one of its elements has no other ones.               *)
LEMMA Removed ==
    ASSUME NEW S, NEW t \in Seq(S), NEW i \in 1..Len(t)
    PROVE  /\ RemoveAt(t, i) \in Seq(S)
           /\ \A j \in DOMAIN RemoveAt(t, i) : \E m \in DOMAIN t : RemoveAt(t, i)[j] = t[m]
<1> DEFINE front == SubSeq(t, 1, i - 1)
           back  == SubSeq(t, i + 1, Len(t))
<1>1. PICK n \in Nat : Len(t) = n /\ DOMAIN t = 1..n
  BY LenProperties
<1>2. i \in 1..n /\ \A j \in 1..n : t[j] \in S
  BY <1>1, ElementOfSeq
<1>3. /\ front \in Seq(S)
      /\ Len(front) = i - 1
      /\ \A j \in 1..(i - 1) : front[j] = t[j]
  <2>1. \A j \in 1..(i - 1) : t[j] \in S
    BY <1>2
  <2>2. 1 \in Int /\ i - 1 \in Int
    OBVIOUS
  <2> QED
    BY <2>1, <2>2, SubSeqProperties
<1>4. /\ back \in Seq(S)
      /\ Len(back) = n - i
      /\ \A j \in 1..(n - i) : back[j] = t[i + j]
  <2>1. \A j \in (i + 1)..n : t[j] \in S
    BY <1>2
  <2>2. i + 1 \in Int /\ n \in Int
    BY <1>2
  <2>3. /\ back \in Seq(S)
        /\ Len(back) = IF i + 1 <= n THEN n - (i + 1) + 1 ELSE 0
        /\ \A j \in 1..(n - (i + 1) + 1) : back[j] = t[i + 1 + j - 1]
    BY <1>1, <2>1, <2>2, SubSeqProperties
  <2> HIDE DEF back
  <2>4. n - (i + 1) + 1 = n - i /\ (~(i + 1 <= n) => n - i = 0)
    BY <1>2
  <2>5. \A j \in 1..(n - i) : i + 1 + j - 1 = i + j
    BY <1>2
  <2> QED
    BY <2>3, <2>4, <2>5
<1>5. RemoveAt(t, i) = front \o back
  BY DEF RemoveAt
<1> HIDE DEF front, back
<1>6. /\ front \o back \in Seq(S)
      /\ Len(front \o back) = n - 1
      /\ \A j \in 1..(n - 1) :
            (front \o back)[j] = IF j <= i - 1 THEN front[j] ELSE back[j - (i - 1)]
  <2>1. /\ front \o back \in Seq(S)
        /\ Len(front \o back) = Len(front) + Len(back)
        /\ \A j \in 1..(Len(front) + Len(back)) :
              (front \o back)[j] = IF j <= Len(front) THEN front[j] ELSE back[j - Len(front)]
    BY <1>3, <1>4, ConcatProperties
  <2> QED
    BY <1>2, <1>3, <1>4, <2>1
<1>7. ASSUME NEW j \in 1..(n - 1) PROVE \E m \in 1..n : (front \o back)[j] = t[m]
  <2>1. CASE j <= i - 1
    <3>1. j \in 1..(i - 1) /\ j \in 1..n
      BY <1>2, <2>1
    <3> QED
      BY <1>3, <1>6, <2>1, <3>1
  <2>2. CASE ~(j <= i - 1)
    <3>1. j - (i - 1) \in 1..(n - i) /\ i + (j - (i - 1)) \in 1..n
      BY <1>2, <2>2
    <3> QED
      BY <1>4, <1>6, <2>2, <3>1
  <2> QED
    BY <2>1, <2>2
<1>8. DOMAIN (front \o back) = 1..(n - 1)
  BY <1>6, LenProperties
<1> QED
  BY <1>1, <1>5, <1>6, <1>7, <1>8

(* A sequence with one element more has only that one more.                *)
LEMMA Appended ==
    ASSUME NEW S, NEW t \in Seq(S), NEW e \in S
    PROVE  /\ Append(t, e) \in Seq(S)
           /\ \A j \in DOMAIN Append(t, e) :
                 Append(t, e)[j] = e \/ \E m \in DOMAIN t : Append(t, e)[j] = t[m]
BY AppendProperties, LenProperties

-----------------------------------------------------------------------------
(* Each step keeps the type of each part of the state.                     *)

LEMMA ServerKept == ASSUME TypeInv, Next PROVE ServerType'
<1> USE DEF TypeInv, ServerType
<1>1. ASSUME NEW k \in Key, Mint(k) PROVE ServerType'
  <2>1. srv' = Append(srv, k) /\ minted' = minted \union {k} /\ pub' = pub
    BY <1>1 DEF Mint
  <2>2. /\ srv' \in Seq(Key)
        /\ \A j \in DOMAIN srv' : srv'[j] = k \/ \E m \in DOMAIN srv : srv'[j] = srv[m]
    BY <2>1, Appended
  <2> QED
    BY <2>1, <2>2 DEF Range
<1>2. ASSUME NEW i \in DOMAIN srv, Withdraw(i) PROVE ServerType'
  <2>1. srv' = RemoveAt(srv, i) /\ minted' = minted /\ pub' = pub
    BY <1>2 DEF Withdraw
  <2>2. i \in 1..Len(srv)
    BY LenProperties
  <2>3. srv' \in Seq(Key) /\ \A j \in DOMAIN srv' : \E m \in DOMAIN srv : srv'[j] = srv[m]
    BY <2>1, <2>2, Removed
  <2> QED
    BY <2>1, <2>3 DEF Range
<1>3. ASSUME NEW p \in Proc, Register(p) PROVE ServerType'
  <2>1. srv' = srv /\ minted' = minted
    BY <1>3 DEF Register
  <2>2. pub' \in [Key -> Computer \union {None}]
    BY <1>3, Processes DEF Register
  <2> QED
    BY <2>1, <2>2
<1>4. CASE UNCHANGED serverVars
  BY <1>4
<1> QED
  BY <1>1, <1>2, <1>3, <1>4
     DEF Next, Dealer, Poll, PassStep, GattStep, Provision, Revoke, Find, Connect,
         ConnectFails, Bind, NotAuthorized, DeviceVerified, DeviceNotVerified, ReadChallenge,
         Accepted, Refused, ReadState, Manage, ManageCli, LeaveCli, LinkGone, StartCommand,
         StartCli, Chooses, Abort, LinkDrops

LEMMA TableKept == ASSUME TypeInv, Next PROVE TableType'
<1> USE DEF TypeInv, TableType
<1>1. ASSUME NEW i \in DOMAIN srv, Provision(i) PROVE TableType'
  <2>1. srv[i] \in Key /\ pub[srv[i]] \in Computer
    BY <1>1, ElementOfSeq, LenProperties DEF Provision, Served, ServerType
  <2>2. [id |-> srv[i], of |-> pub[srv[i]]] \in Entry
    BY <2>1 DEF Entry
  <2> QED
    BY <1>1, <2>2, Appended DEF Provision
<1>2. ASSUME NEW i \in DOMAIN tab, tab' = RemoveAt(tab, i) PROVE TableType'
  BY <1>2, Removed, LenProperties
<1>3. ASSUME NEW s, Obeys(s) PROVE TableType'
  BY <1>2, <1>3 DEF Obeys
<1>4. CASE UNCHANGED tab
  BY <1>4
<1> QED
  BY <1>1, <1>2, <1>3, <1>4
     DEF Next, Dealer, Poll, PassStep, GattStep, Mint, Withdraw, Revoke, Find, Register, Connect,
         ConnectFails, Bind, NotAuthorized, DeviceVerified, DeviceNotVerified, ReadChallenge,
         Accepted, Refused, ReadState, Manage, ManageCli, LeaveCli, LinkGone, StartCommand,
         StartCli, Chooses, Abort, LinkDrops

(* A session that takes a coherent value leaves the sessions coherent.     *)
LEMMA SetSession ==
    ASSUME SessionType, NEW s \in Station, NEW v, Coherent(v), sess' = [sess EXCEPT ![s] = v]
    PROVE  SessionType'
BY DEF SessionType, Coherent

(* None is no process and no key.                                          *)
LEMMA NoneIsNothing ==
    None \notin Proc /\ None \notin Key /\ None \notin Local /\ None \notin Computer
BY NoneAssumption

(* A closed session and a fresh one are coherent.                          *)
LEMMA NewSessions == Coherent(Closed) /\ Coherent(Fresh)
BY DEF Coherent, Session, Closed, Fresh

LEMMA HangUpKept ==
    ASSUME SessionType, NEW s \in Station, HangUp(s)
    PROVE  SessionType'
BY SetSession, NewSessions DEF HangUp

LEMMA FailsKept ==
    ASSUME SessionType, NEW p \in Proc, Fails(p)
    PROVE  SessionType'
<1>1. CASE HangUp(p[1])
  BY <1>1, HangUpKept, Processes
<1>2. CASE UNCHANGED sess
  BY <1>2 DEF SessionType
<1> QED
  BY <1>1, <1>2 DEF Fails

(* A key of the table is a minted one.                                     *)
LEMMA VerifiesKey ==
    ASSUME TableType, NEW p, NEW id, Verifies(p, id)
    PROVE  id \in Key
<1>1. PICK e \in Range(tab) : e = [id |-> id, of |-> Home[p[1]]]
  BY DEF Verifies
<1>2. e \in Entry
  BY ElementOfSeq, LenProperties DEF Range, TableType
<1> QED
  BY <1>1, <1>2 DEF Entry

LEMMA SessionKept == ASSUME TypeInv, Next PROVE SessionType'
<1>0. SessionType /\ TableType /\ ProcType
  BY DEF TypeInv
<1>1. ASSUME NEW i \in DOMAIN tab, Revoke(i) PROVE SessionType'
  <2>1. sess' = [s \in Station |->
                  IF sess[s].auth = "ok" /\ sess[s].key = tab[i].id THEN Closed ELSE sess[s]]
    BY <1>1 DEF Revoke
  <2>2. Closed \in Session
    BY NewSessions DEF Coherent
  <2>3. sess' \in [Station -> Session]
    BY <1>0, <2>1, <2>2 DEF SessionType
  <2>4. ASSUME NEW s \in Station PROVE Coherent(sess'[s])
    <3>1. sess'[s] = Closed \/ sess'[s] = sess[s]
      BY <2>1
    <3> QED
      BY <1>0, <3>1, NewSessions DEF SessionType
  <2> QED
    BY <2>3, <2>4 DEF SessionType
<1>2. ASSUME NEW s \in Station, HangUp(s) PROVE SessionType'
  BY <1>0, <1>2, HangUpKept
<1>3. ASSUME NEW p \in Proc, HangUp(p[1]) PROVE SessionType'
  BY <1>2, <1>3, Processes
<1>4. ASSUME NEW p \in Proc, sess' = [sess EXCEPT ![p[1]] = Fresh] PROVE SessionType'
  BY <1>0, <1>4, SetSession, NewSessions, Processes
<1>5. ASSUME NEW p \in Proc, Fails(p) PROVE SessionType'
  BY <1>0, <1>5, FailsKept
<1>6. ASSUME NEW p \in Proc, ReadChallenge(p) PROVE SessionType'
  <2> DEFINE v == [auth |-> "challenge", key |-> None, chal |-> p]
  <2>1. Coherent(v)
    BY NoneIsNothing DEF Coherent, Session
  <2>2. sess' = [sess EXCEPT ![p[1]] = v]
    BY <1>6 DEF ReadChallenge
  <2> HIDE DEF v
  <2> QED
    BY <1>0, <2>1, <2>2, SetSession, Processes
<1>7. ASSUME NEW p \in Proc, Accepted(p) PROVE SessionType'
  <2> DEFINE v == [auth |-> "ok", key |-> key[p], chal |-> None]
  <2>1. key[p] \in Key
    BY <1>0, <1>7, VerifiesKey DEF Accepted
  <2>2. Coherent(v)
    BY <2>1, NoneIsNothing DEF Coherent, Session
  <2>3. sess' = [sess EXCEPT ![p[1]] = v]
    BY <1>7 DEF Accepted
  <2> HIDE DEF v
  <2> QED
    BY <1>0, <2>2, <2>3, SetSession, Processes
<1>8. ASSUME NEW p \in Proc,
             sess' = [sess EXCEPT ![p[1]].auth = "failed", ![p[1]].chal = None]
      PROVE  SessionType'
  <2> DEFINE v == [sess[p[1]] EXCEPT !.auth = "failed", !.chal = None]
  <2>1. sess[p[1]] \in Session
    BY <1>0, Processes DEF SessionType
  <2>2. Coherent(v)
    BY <2>1 DEF Coherent, Session
  <2>3. sess' = [sess EXCEPT ![p[1]] = v]
    BY <1>0, <1>8, <2>1, Processes DEF SessionType, Session
  <2> HIDE DEF v
  <2> QED
    BY <1>0, <2>2, <2>3, SetSession, Processes
<1>9. ASSUME NEW p \in Proc, Refused(p) PROVE SessionType'
  BY <1>3, <1>5, <1>8, <1>9 DEF Refused
<1>10. ASSUME NEW p \in Proc, ReadState(p) PROVE SessionType'
  <2>1. CASE UNCHANGED sess
    BY <1>0, <2>1 DEF SessionType
  <2> QED
    BY <1>5, <1>10, <2>1 DEF ReadState
<1>11. CASE UNCHANGED sess
  BY <1>0, <1>11 DEF SessionType
<1> QED
  BY <1>1, <1>2, <1>3, <1>4, <1>5, <1>6, <1>7, <1>9, <1>10, <1>11
     DEF Next, Dealer, Poll, PassStep, GattStep, Mint, Withdraw, Provision, Find, Register,
         Connect, ConnectFails, Bind, NotAuthorized, DeviceVerified, DeviceNotVerified,
         Manage, ManageCli, LeaveCli, LinkGone, StartCommand, StartCli, Chooses, Abort, LinkDrops

(* A process that goes somewhere with a key, while files are only added.   *)
LEMMA MoveProc ==
    ASSUME ProcType, NEW p \in Proc, NEW l \in Label, NEW k \in Key \union Local \union {None},
           at' = [at EXCEPT ![p] = l], key' = [key EXCEPT ![p] = k],
           pem' \in [Computer -> SUBSET (Key \union Local)],
           \A c \in Computer : pem[c] \subseteq pem'[c],
           Placed(p, l, k, pem')
    PROVE  ProcType'
<1>1. at' \in [Proc -> Label] /\ key' \in [Proc -> Key \union Local \union {None}]
  BY DEF ProcType
<1>2. ASSUME NEW q \in Proc PROVE Placed(q, at'[q], key'[q], pem')
  <2>1. CASE q = p
    BY <2>1 DEF ProcType
  <2>2. CASE q # p
    <3>1. at'[q] = at[q] /\ key'[q] = key[q] /\ Placed(q, at[q], key[q], pem)
      BY <2>2 DEF ProcType
    <3>2. pem[Home[q[1]]] \subseteq pem'[Home[q[1]]]
      BY Processes
    <3> QED
      BY <3>1, <3>2 DEF Placed
  <2> QED
    BY <2>1, <2>2
<1> QED
  BY <1>1, <1>2 DEF ProcType

LEMMA GotoProc ==
    ASSUME ProcType, NEW p \in Proc, NEW l \in Label, Goto(p, l), UNCHANGED <<key, pem>>,
           Placed(p, l, key[p], pem)
    PROVE  ProcType'
<1>1. key' = [key EXCEPT ![p] = key[p]] /\ key[p] \in Key \union Local \union {None}
  BY DEF ProcType
<1>2. /\ pem' \in [Computer -> SUBSET (Key \union Local)]
      /\ \A c \in Computer : pem[c] \subseteq pem'[c]
      /\ Placed(p, l, key[p], pem')
  BY DEF ProcType
<1> QED
  BY <1>1, <1>2, MoveProc DEF Goto

LEMMA EndsProc ==
    ASSUME ProcType, NEW p \in Proc, Ends(p), UNCHANGED pem
    PROVE  ProcType'
<1>1. /\ pem' \in [Computer -> SUBSET (Key \union Local)]
      /\ \A c \in Computer : pem[c] \subseteq pem'[c]
  BY DEF ProcType
<1>2. Placed(p, "idle", None, pem')
  BY DEF Placed, Signing
<1>3. "idle" \in Label
  BY DEF Label
<1> QED
  BY <1>1, <1>2, <1>3, MoveProc DEF Ends, Goto

LEMMA FailsProc ==
    ASSUME ProcType, NEW p \in Proc, at[p] \in {"read", "write", "state", "manage"}, Fails(p),
           UNCHANGED pem
    PROVE  ProcType'
<1>1. CASE Ends(p)
  BY <1>1, EndsProc
<1>2. CASE p[2] = "pass" /\ Goto(p, "verify") /\ UNCHANGED key
  <2>1. Placed(p, "verify", key[p], pem)
    BY <1>2 DEF ProcType, Placed, Signing
  <2>2. "verify" \in Label
    BY DEF Label
  <2> QED
    BY <1>2, <2>1, <2>2, GotoProc
<1> QED
  BY <1>1, <1>2 DEF Fails

LEMMA ProcKept == ASSUME TypeInv, Next PROVE ProcType'
<1>0. ProcType /\ ServerType
  BY DEF TypeInv
<1>1. ASSUME NEW p \in Proc, NEW k, Find(p, k) PROVE ProcType'
  <2>1. k \in Key /\ p[2] = "pass" /\ pem' = pem
    BY <1>0, <1>1, ElementOfSeq, LenProperties DEF Find, Range, ServerType
  <2>2. PICK l \in {"register", "connect"} : Goto(p, l)
    BY <1>1 DEF Find
  <2>3. Placed(p, l, k, pem')
    BY <2>1, NoneIsNothing DEF Placed, Signing
  <2>4. l \in Label
    BY DEF Label
  <2> QED
    BY <1>0, <1>1, <2>1, <2>2, <2>3, <2>4, MoveProc DEF Find, Goto, ProcType
<1>2. ASSUME NEW p \in Proc, Register(p) PROVE ProcType'
  <2>1. key' = [key EXCEPT ![p] = key[p]] /\ key[p] \in Key \union Local
        /\ p[2] = "pass" /\ key[p] # None
    BY <1>0, <1>2 DEF Register, ProcType, Placed
  <2>2. /\ pem' \in [Computer -> SUBSET (Key \union Local)]
        /\ \A c \in Computer : pem[c] \subseteq pem'[c]
    BY <1>0, <1>2, <2>1, Processes DEF Register, ProcType
  <2>3. Placed(p, "connect", key[p], pem')
    BY <2>1 DEF Placed, Signing
  <2>4. "connect" \in Label
    BY DEF Label
  <2> QED
    BY <1>0, <1>2, <2>1, <2>2, <2>3, <2>4, MoveProc DEF Register, Goto
<1>3. ASSUME NEW p \in Proc, Connect(p) PROVE ProcType'
  <2>1. at[p] = "connect" /\ UNCHANGED <<key, pem>> /\ Placed(p, at[p], key[p], pem)
    BY <1>0, <1>3 DEF Connect, ProcType
  <2>2. CASE p[2] = "pass" /\ Goto(p, "bind")
    <3>1. Placed(p, "bind", key[p], pem) /\ "bind" \in Label
      BY <2>1, <2>2 DEF Placed, Signing, Label
    <3> QED
      BY <1>0, <2>1, <2>2, <3>1, GotoProc
  <2>3. CASE p[2] = "command" /\ Goto(p, "read")
    <3>1. Placed(p, "read", key[p], pem) /\ "read" \in Label
      BY <2>1, <2>3 DEF Placed, Signing, Label
    <3> QED
      BY <1>0, <2>1, <2>3, <3>1, GotoProc
  <2> QED
    BY <1>3, <2>2, <2>3 DEF Connect
<1>4. ASSUME NEW p \in Proc, Ends(p), UNCHANGED pem PROVE ProcType'
  BY <1>0, <1>4, EndsProc
<1>5. ASSUME NEW p \in Proc, NEW k \in Key, Bind(p, k) PROVE ProcType'
  <2>1. Placed(p, "bind", key[p], pem)
    BY <1>0, <1>5 DEF Bind, ProcType
  <2>2. /\ pem' \in [Computer -> SUBSET (Key \union Local)]
        /\ \A c \in Computer : pem[c] \subseteq pem'[c]
        /\ k \in pem'[Home[p[1]]]
    BY <1>0, <1>5, Processes DEF Bind, ProcType
  <2>3. Placed(p, "read", k, pem') /\ "read" \in Label
    BY <2>1, <2>2, NoneIsNothing DEF Placed, Signing, Label
  <2> QED
    BY <1>0, <1>5, <2>2, <2>3, MoveProc DEF Bind, Goto
<1>6. ASSUME NEW p \in Proc, ReadChallenge(p) \/ Accepted(p) PROVE ProcType'
  <2>1. at[p] \in {"read", "write"} /\ UNCHANGED <<key, pem>> /\ Placed(p, at[p], key[p], pem)
    BY <1>0, <1>6 DEF ReadChallenge, Accepted, ProcType
  <2>2. PICK l \in {"write", "state"} : Goto(p, l)
    BY <1>6 DEF ReadChallenge, Accepted
  <2>3. Placed(p, l, key[p], pem) /\ l \in Label
    BY <2>1, <2>2 DEF Placed, Signing, Label
  <2> QED
    BY <1>0, <2>1, <2>2, <2>3, GotoProc
<1>7. ASSUME NEW p \in Proc, at[p] \in {"read", "write", "state", "manage"}, Fails(p), UNCHANGED pem
      PROVE  ProcType'
  BY <1>0, <1>7, FailsProc
<1>8. ASSUME NEW p \in Proc, at[p] \in {"write", "state"}, p[2] = "pass", Goto(p, "verify"),
             UNCHANGED <<key, pem>>
      PROVE  ProcType'
  <2>1. Placed(p, "verify", key[p], pem) /\ "verify" \in Label
    BY <1>0, <1>8 DEF ProcType, Placed, Signing, Label
  <2> QED
    BY <1>0, <1>8, <2>1, GotoProc
<1>9. ASSUME NEW p \in Proc, Refused(p) PROVE ProcType'
  BY <1>4, <1>7, <1>8, <1>9 DEF Refused
<1>10. ASSUME NEW p \in Proc, ReadState(p) PROVE ProcType'
  <2>1. CASE p[2] = "command" /\ Goto(p, "manage") /\ UNCHANGED key
    <3>1. Placed(p, "manage", key[p], pem) /\ "manage" \in Label
      BY <1>0, <1>10, <2>1 DEF ReadState, ProcType, Placed, Signing, Label
    <3> QED
      BY <1>0, <1>10, <2>1, <3>1, GotoProc DEF ReadState
  <2> QED
    BY <1>7, <1>8, <1>10, <2>1 DEF ReadState
<1>11. ASSUME NEW p \in Proc, NEW k \in Key \union Local, NEW l \in {"read", "connect"},
              Chooses(p, k), Goto(p, l), l = "connect" => p[1] \in Cli
       PROVE  ProcType'
  <2>1. p[2] = "command" /\ k # None
    BY <1>11, NoneIsNothing DEF Chooses
  <2>2. /\ pem' \in [Computer -> SUBSET (Key \union Local)]
        /\ \A c \in Computer : pem[c] \subseteq pem'[c]
        /\ k \in pem'[Home[p[1]]]
    <3>1. Home[p[1]] \in Computer
      BY Processes
    <3> DEFINE c == Home[p[1]]
    <3>2. CASE k \in pem[c] /\ UNCHANGED pem
      BY <1>0, <3>2 DEF ProcType
    <3>3. CASE pem[c] = {} /\ pem' = [pem EXCEPT ![c] = {k}]
      BY <1>0, <3>1, <3>3 DEF ProcType
    <3> QED
      BY <1>11, <3>2, <3>3 DEF Chooses, FirstKey
  <2>3. Placed(p, l, k, pem') /\ l \in Label
    BY <1>11, <2>1, <2>2 DEF Placed, Signing, Label
  <2> QED
    BY <1>0, <1>11, <2>2, <2>3, MoveProc DEF Chooses, Goto
<1>12. CASE UNCHANGED <<at, key, pem>>
  BY <1>0, <1>12 DEF ProcType
<1>13. ASSUME NEW p \in Proc, NEW k \in Key \union Local, StartCommand(p, k) \/ StartCli(p, k)
       PROVE  ProcType'
  BY <1>11, <1>13 DEF StartCommand, StartCli
<1>14. ASSUME NEW p \in Proc, LinkGone(p) PROVE ProcType'
  BY <1>7, <1>14 DEF LinkGone
<1> QED
  BY <1>1, <1>2, <1>3, <1>4, <1>5, <1>6, <1>9, <1>10, <1>12, <1>13, <1>14
     DEF Next, Dealer, Poll, PassStep, GattStep, Mint, Withdraw, Provision, Revoke,
         ConnectFails, NotAuthorized, DeviceVerified, DeviceNotVerified, Manage, ManageCli,
         LeaveCli, Abort, LinkDrops

LEMMA HistoryKept == ASSUME TypeInv, Next PROVE HistoryType'
<1> USE DEF TypeInv, HistoryType
<1>1. ASSUME NEW p \in Proc, Connect(p) PROVE HistoryType'
  BY <1>1, Processes DEF Connect
<1>2. ASSUME NEW p \in Proc, DeviceVerified(p) PROVE HistoryType'
  BY <1>2 DEF DeviceVerified
<1>3. ASSUME NEW p \in Proc, Accepted(p) PROVE HistoryType'
  BY <1>3, Processes DEF Accepted
<1>4. ASSUME NEW p \in Proc, Abort(p) PROVE HistoryType'
  <2>1. aborts' \in 0..MaxAborts /\ commands' \in 0..MaxCommands
    BY <1>4, LimitAssumption DEF Abort
  <2>2. mark' \in [Web -> {"none", "verified", "aborted"}]
    BY <1>4 DEF Abort
  <2>3. proven' \in [Station -> SUBSET Proc]
    BY <1>4 DEF Abort
  <2> QED
    BY <2>1, <2>2, <2>3
<1>5. ASSUME NEW p, NEW k, Chooses(p, k) PROVE HistoryType'
  BY <1>5, LimitAssumption DEF Chooses
<1>6. CASE UNCHANGED <<history, counters>>
  BY <1>6
<1> QED
  BY <1>1, <1>2, <1>3, <1>4, <1>5, <1>6
     DEF Next, Dealer, Poll, PassStep, GattStep, Mint, Withdraw, Provision, Revoke, Find,
         Register, ConnectFails, Bind, NotAuthorized, DeviceNotVerified, ReadChallenge,
         Refused, ReadState, Manage, ManageCli, LeaveCli, LinkGone, StartCommand, StartCli,
         LinkDrops

-----------------------------------------------------------------------------
(* The type of every part of the state is kept for ever.                   *)
LEMMA Typing == Spec => []TypeInv
<1>1. Init => TypeInv
  <2> SUFFICES ASSUME Init PROVE TypeInv
    OBVIOUS
  <2>1. ServerType
    BY DEF Init, ServerType, Range
  <2>2. TableType
    BY DEF Init, TableType
  <2>3. SessionType
    <3>1. sess = [s \in Station |-> Closed]
      BY DEF Init
    <3> QED
      BY <3>1, NewSessions DEF SessionType, Coherent
  <2>4. ProcType
    <3>1. ASSUME NEW p \in Proc PROVE Placed(p, "idle", None, pem)
      BY DEF Placed, Signing
    <3> QED
      BY <3>1 DEF Init, ProcType, Label
  <2>5. HistoryType
    BY LimitAssumption DEF Init, HistoryType
  <2> QED
    BY <2>1, <2>2, <2>3, <2>4, <2>5 DEF TypeInv
<1>2. TypeInv /\ [Next]_vars => TypeInv'
  <2>1. CASE Next
    BY <2>1, ServerKept, TableKept, SessionKept, ProcKept, HistoryKept DEF TypeInv
  <2>2. CASE UNCHANGED vars
    BY <2>2 DEF vars, TypeInv, ServerType, TableType, SessionType, ProcType, HistoryType
  <2> QED
    BY <2>1, <2>2
<1> QED
  BY <1>1, <1>2, PTL DEF Spec

(* Each variable has its type; a process that signs has the file of its    *)
(* key, and a challenge is pending in one state of a session only          *)
(* (crypto.py:37-47, dk_auth.c:130).                                       *)
THEOREM WebAuthTypeCorrect == Spec => []WebAuthTypeOK
<1>1. TypeInv => WebAuthTypeOK
  <2> SUFFICES ASSUME TypeInv PROVE WebAuthTypeOK
    OBVIOUS
  <2> USE DEF TypeInv
  <2>1. /\ srv \in Seq(Key) /\ minted \subseteq Key /\ Range(srv) \subseteq minted
        /\ pub \in [Key -> Computer \union {None}]
    BY DEF ServerType
  <2>2. tab \in Seq([id: Key, of: Computer])
    BY DEF TableType, Entry
  <2>3. /\ sess \in [Station -> [auth: {"disconnected", "connected", "challenge", "ok", "failed"},
                                 key: Key \union {None}, chal: Proc \union {None}]]
        /\ \A s \in Station : sess[s].chal # None <=> sess[s].auth = "challenge"
    BY DEF SessionType, Session, Coherent
  <2>4. /\ pem \in [Computer -> SUBSET (Key \union Local)]
        /\ at \in [Proc -> {"idle", "register", "connect", "bind", "read", "write",
                            "state", "verify", "manage"}]
        /\ \A p \in Proc :
             /\ key[p] = None <=> at[p] = "idle"
             /\ at[p] \in {"read", "write", "state", "verify", "manage"}
                  => key[p] \in pem[Home[p[1]]]
    BY DEF ProcType, Placed, Label, Signing
  <2>5. /\ mark \in [Web -> {"none", "verified", "aborted"}]
        /\ proven \in [Station -> SUBSET Proc]
        /\ commands \in 0..MaxCommands /\ aborts \in 0..MaxAborts
    BY DEF HistoryType
  <2> QED
    BY <2>1, <2>2, <2>3, <2>4, <2>5 DEF WebAuthTypeOK
<1> QED
  BY <1>1, Typing, PTL

-----------------------------------------------------------------------------
(* The link of a dk-web: a pass that has not connected yet has none, and   *)
(* one that is left up was verified or belongs to an aborted pass.         *)
LinkOf(s) ==
    /\ at[<<s, "pass">>] \in {"register", "connect"} => ~Up(s)
    /\ Up(s) /\ at[<<s, "pass">>] = "idle" => mark[s] # "none"

LinkInv == \A s \in Web : LinkOf(s)

(* What the type says of a dk-web and its pass.                            *)
LEMMA PassTyped ==
    ASSUME TypeInv
    PROVE  /\ at \in [Proc -> Label] /\ sess \in [Station -> Session]
           /\ mark \in [Web -> {"none", "verified", "aborted"}]
           /\ proven \in [Station -> SUBSET Proc]
           /\ \A p \in Proc : /\ at[p] \in {"register", "bind", "verify"} => p[2] = "pass"
                              /\ at[p] = "manage" => p[2] = "command"
                              /\ at[p] = "connect" /\ p[2] = "command" => p[1] \in Cli
BY DEF TypeInv, SessionType, ProcType, HistoryType, Placed

(* A step that leaves the pass of a dk-web where it is, and does not bring *)
(* its link up.                                                            *)
Calm(s) ==
    /\ at'[<<s, "pass">>] = at[<<s, "pass">>] /\ mark'[s] = mark[s]
    /\ Up(s)' => Up(s)

LEMMA LinkKept == ASSUME TypeInv, LinkInv, Next PROVE LinkInv'
<1> SUFFICES ASSUME NEW s \in Web PROVE LinkOf(s)'
  BY DEF LinkInv
<1> DEFINE q == <<s, "pass">>
<1>0. /\ LinkOf(s) /\ q \in Proc /\ s \in Station /\ s \notin Cli /\ q[1] = s /\ q[2] = "pass"
      /\ \A p \in Proc : p[1] = s /\ p[2] = "pass" => p = q
      /\ \A p \in Proc : p[1] \in Station
  BY Processes DEF LinkInv
<1>1. CASE Calm(s)
  BY <1>0, <1>1 DEF Calm, LinkOf
<1> HIDE DEF q
<1>2. ASSUME NEW p \in Proc, NEW k, Find(p, k) PROVE LinkOf(s)'
  BY <1>0, <1>2, PassTyped DEF Find, Goto, LinkOf, Up, q
<1>3. ASSUME NEW p \in Proc, Register(p) PROVE LinkOf(s)'
  BY <1>0, <1>3, PassTyped DEF Register, Goto, LinkOf, Up, q
<1>4. ASSUME NEW p \in Proc, Connect(p) PROVE LinkOf(s)'
  BY <1>0, <1>4, PassTyped DEF Connect, Goto, LinkOf, Up, q
<1>5. ASSUME NEW p \in Proc, ConnectFails(p) PROVE LinkOf(s)'
  BY <1>0, <1>5, PassTyped DEF ConnectFails, Ends, Goto, LinkOf, Up, q
<1>6. ASSUME NEW p \in Proc, NEW k, Bind(p, k) PROVE LinkOf(s)'
  BY <1>0, <1>6, PassTyped DEF Bind, Goto, LinkOf, Up, q
<1>7. ASSUME NEW p \in Proc, NotAuthorized(p) PROVE LinkOf(s)'
  BY <1>0, <1>7, PassTyped DEF NotAuthorized, HangUp, Closed, Ends, Goto, LinkOf, Up, q
<1>8. ASSUME NEW p \in Proc, DeviceVerified(p) PROVE LinkOf(s)'
  BY <1>0, <1>8, PassTyped DEF DeviceVerified, Ends, Goto, LinkOf, Up, q
<1>9. ASSUME NEW p \in Proc, DeviceNotVerified(p) PROVE LinkOf(s)'
  BY <1>0, <1>9, PassTyped DEF DeviceNotVerified, HangUp, Closed, Ends, Goto, LinkOf, Up, q
<1>10. ASSUME NEW p \in Proc, Abort(p) PROVE LinkOf(s)'
  BY <1>0, <1>10, PassTyped DEF Abort, Ends, Goto, LinkOf, Up, q
<1>11. ASSUME NEW p \in Proc, LinkGone(p) PROVE LinkOf(s)'
  BY <1>0, <1>11, PassTyped DEF LinkGone, Fails, HangUp, Closed, Ends, Goto, LinkOf, Up, q
<1>12. ASSUME NEW p \in Proc, ReadChallenge(p) PROVE LinkOf(s)'
  BY <1>0, <1>12, PassTyped DEF ReadChallenge, Goto, LinkOf, Up, q
<1>13. ASSUME NEW p \in Proc, Accepted(p) PROVE LinkOf(s)'
  BY <1>0, <1>13, PassTyped DEF Accepted, Goto, LinkOf, Up, q
<1>14. ASSUME NEW p \in Proc, Refused(p) PROVE LinkOf(s)'
  BY <1>0, <1>14, PassTyped DEF Refused, Fails, HangUp, Closed, Ends, Goto, LinkOf, Up, q
<1>15. ASSUME NEW p \in Proc, ReadState(p) PROVE LinkOf(s)'
  BY <1>0, <1>15, PassTyped DEF ReadState, Fails, HangUp, Closed, Ends, Goto, LinkOf, Up, q
<1>16. ASSUME NEW p \in Proc, Manage(p) \/ ManageCli(p) \/ LeaveCli(p) PROVE LinkOf(s)'
  BY <1>0, <1>16, PassTyped
     DEF Manage, ManageCli, LeaveCli, HangUp, Closed, Ends, Goto, LinkOf, Up, q
<1>17. ASSUME NEW p \in Proc, NEW k, StartCommand(p, k) \/ StartCli(p, k) PROVE LinkOf(s)'
  BY <1>0, <1>17, PassTyped DEF StartCommand, StartCli, Chooses, Goto, LinkOf, Up, q
<1>18. ASSUME NEW t \in Station, LinkDrops(t) PROVE LinkOf(s)'
  BY <1>0, <1>18, PassTyped DEF LinkDrops, HangUp, Closed, LinkOf, Up, q
<1>19. ASSUME NEW i, Revoke(i) PROVE LinkOf(s)'
  BY <1>0, <1>19, PassTyped DEF Revoke, Closed, LinkOf, Up, q
<1>20. CASE UNCHANGED <<at, sess, mark>>
  BY <1>1, <1>20 DEF Calm, Up
<1> QED
  BY <1>1, <1>2, <1>3, <1>4, <1>5, <1>6, <1>7, <1>8, <1>9, <1>10, <1>11,
     <1>12, <1>13, <1>14, <1>15, <1>16, <1>17, <1>18, <1>19, <1>20
     DEF Next, Dealer, Poll, PassStep, GattStep, Mint, Withdraw, Provision

(* "Disconnecting - device not verified" (websocket.py:624): a dk-web that *)
(* is connected and has no pass under way has verified the vehicle, unless *)
(* its last pass was cancelled or raised.                                  *)
THEOREM UnverifiedOnlyAfterAbort == Spec => []UnverifiedOnlyIfAborted
<1>1. Init => LinkInv
  <2> SUFFICES ASSUME Init, NEW s \in Web PROVE LinkOf(s)
    BY DEF LinkInv
  <2>1. ~Up(s)
    BY Processes DEF Init, Up, Closed
  <2> QED
    BY <2>1 DEF LinkOf
<1>2. TypeInv /\ LinkInv /\ [Next]_vars => LinkInv'
  <2>1. CASE UNCHANGED vars
    BY <2>1 DEF vars, LinkInv, LinkOf, Up
  <2> QED
    BY <2>1, LinkKept
<1>3. LinkInv => UnverifiedOnlyIfAborted
  BY DEF LinkInv, LinkOf, UnverifiedOnlyIfAborted
<1> QED
  BY <1>1, <1>2, <1>3, Typing, PTL DEF Spec

-----------------------------------------------------------------------------
(* A pass that is about to read the state has proven its key on this link. *)
ProvenInv == \A s \in Web : at[<<s, "pass">>] = "state" => <<s, "pass">> \in proven[s]

LEMMA ProvenKept == ASSUME TypeInv, ProvenInv, Next PROVE ProvenInv'
<1> SUFFICES ASSUME NEW s \in Web, at'[<<s, "pass">>] = "state"
             PROVE  <<s, "pass">> \in proven'[s]
  BY DEF ProvenInv
<1> DEFINE q == <<s, "pass">>
<1>0. /\ at[q] = "state" => q \in proven[s]
      /\ q \in Proc /\ s \in Station /\ s \notin Cli /\ q[1] = s /\ q[2] = "pass"
      /\ \A p \in Proc : p[1] = s /\ p[2] = "pass" => p = q
      /\ \A p \in Proc : p[1] \in Station
  BY Processes DEF ProvenInv
<1> HIDE DEF q
<1>1. ASSUME NEW p \in Proc, Accepted(p) PROVE q \in proven'[s]
  BY <1>0, <1>1, PassTyped DEF Accepted, Goto, q
<1>2. ASSUME NEW p \in Proc, Connect(p) \/ Abort(p) PROVE q \in proven'[s]
  BY <1>0, <1>2, PassTyped DEF Connect, Abort, Ends, Goto, q
<1>3. ASSUME NEW p \in Proc, NEW l \in Label, l # "state", Goto(p, l), UNCHANGED proven
      PROVE  q \in proven'[s]
  BY <1>0, <1>3, PassTyped DEF Goto, q
<1>4. ASSUME NEW p \in Proc, Ends(p), UNCHANGED proven PROVE q \in proven'[s]
  BY <1>3, <1>4 DEF Ends, Label
<1>5. ASSUME NEW p \in Proc, Fails(p), UNCHANGED proven PROVE q \in proven'[s]
  BY <1>3, <1>4, <1>5 DEF Fails, Label
<1>6. CASE UNCHANGED <<at, proven>>
  BY <1>0, <1>6 DEF q
<1>7. ASSUME NEW p \in Proc, NEW k, Find(p, k) \/ StartCommand(p, k) \/ StartCli(p, k) \/ Bind(p, k)
      PROVE  q \in proven'[s]
  BY <1>3, <1>7 DEF Find, StartCommand, StartCli, Chooses, Bind, Label
<1>8. ASSUME NEW p \in Proc, Register(p) \/ ReadChallenge(p) PROVE q \in proven'[s]
  BY <1>3, <1>8 DEF Register, ReadChallenge, Label
<1>9. ASSUME NEW p \in Proc, Refused(p) \/ ReadState(p) \/ LinkGone(p) PROVE q \in proven'[s]
  BY <1>3, <1>4, <1>5, <1>9 DEF Refused, ReadState, LinkGone, Label
<1> QED
  BY <1>1, <1>2, <1>4, <1>6, <1>7, <1>8, <1>9
     DEF Next, Dealer, Poll, PassStep, GattStep, Mint, Withdraw, Provision, Revoke,
         ConnectFails, NotAuthorized, DeviceVerified, DeviceNotVerified, Manage, ManageCli,
         LeaveCli, LinkDrops, q

(* A pass that reads "authenticated" and reports so to dk-server with its  *)
(* key id (websocket.py:555-563) has proven that key itself on this link.  *)
THEOREM ReportsAreTrue == Spec => ReportedAuthHappened
<1>1. Init => ProvenInv
  BY Processes DEF Init, ProvenInv
<1>2. TypeInv /\ ProvenInv /\ [Next]_vars => ProvenInv'
  <2>1. CASE UNCHANGED vars
    BY <2>1 DEF vars, ProvenInv
  <2> QED
    BY <2>1, ProvenKept
<1>3. ProvenInv => \A s \in Web :
          at[<<s, "pass">>] = "state" /\ at'[<<s, "pass">>] = "verify"
             /\ sess[s].auth = "ok" => <<s, "pass">> \in proven[s]
  BY DEF ProvenInv
<1> QED
  BY <1>1, <1>2, <1>3, Typing, PTL DEF Spec, ReportedAuthHappened

-----------------------------------------------------------------------------
(* Whose key it is: an entry of the table and a session that is            *)
(* authenticated name the computer that registered the key at dk-server,   *)
(* which never registers another one for it.                               *)
HolderInv ==
    /\ \A i \in DOMAIN tab : tab[i].of = pub[tab[i].id]
    /\ \A s \in Station : sess[s].auth = "ok" => pub[sess[s].key] = Home[s]

(* A public key that dk-server has stays.                                  *)
LEMMA PubStays ==
    ASSUME TypeInv, Next
    PROVE  \A k \in Key : pub[k] # None => pub'[k] = pub[k]
<1>1. ASSUME NEW p \in Proc, Register(p) PROVE \A k \in Key : pub[k] # None => pub'[k] = pub[k]
  BY <1>1 DEF Register, Accepts, TypeInv, ServerType
<1>2. CASE UNCHANGED pub
  BY <1>2
<1> QED
  BY <1>1, <1>2
     DEF Next, Dealer, Poll, PassStep, GattStep, Mint, Withdraw, Provision, Revoke, Find, Connect,
         ConnectFails, Bind, NotAuthorized, DeviceVerified, DeviceNotVerified, ReadChallenge,
         Accepted, Refused, ReadState, Manage, ManageCli, LeaveCli, LinkGone, StartCommand,
         StartCli, Chooses, Abort, LinkDrops

(* A computer that holds a key is a computer.                              *)
LEMMA Holders ==
    ASSUME TypeInv
    PROVE  /\ \A i \in DOMAIN tab : tab[i].id \in Key /\ tab[i].of \in Computer /\ tab[i].of # None
           /\ \A s \in Station : sess[s].auth = "ok" => sess[s].key \in Key
           /\ \A s \in Station : Home[s] \in Computer /\ Home[s] # None
<1>1. ASSUME NEW i \in DOMAIN tab PROVE tab[i] \in Entry
  BY ElementOfSeq, LenProperties DEF TypeInv, TableType
<1> QED
  BY <1>1, NoneIsNothing, HomeAssumption DEF Entry, TypeInv, SessionType, Session, Coherent

(* Only an accepted response authenticates a session.                      *)
LEMMA OnlyAccepted ==
    ASSUME TypeInv, Next
    PROVE  \/ \E p \in Proc : Accepted(p)
           \/ \A s \in Station : sess'[s].auth = "ok" => sess[s] = sess'[s]
<1> DEFINE Kept == \A s \in Station : sess'[s].auth = "ok" => sess[s] = sess'[s]
<1>0. sess \in [Station -> Session]
  BY DEF TypeInv, SessionType
<1>1. ASSUME NEW i, Revoke(i) PROVE Kept
  BY <1>1 DEF Revoke, Closed
<1>2. ASSUME NEW s, HangUp(s) PROVE Kept
  BY <1>0, <1>2 DEF HangUp, Closed
<1>3. ASSUME NEW p \in Proc, Fails(p) PROVE Kept
  <2>1. CASE UNCHANGED sess
    BY <2>1
  <2> QED
    BY <1>2, <1>3, <2>1 DEF Fails
<1>4. ASSUME NEW s, sess' = [sess EXCEPT ![s] = Fresh] PROVE Kept
  BY <1>0, <1>4 DEF Fresh, Closed
<1>5. ASSUME NEW p \in Proc, ReadChallenge(p) PROVE Kept
  BY <1>0, <1>5 DEF ReadChallenge
<1>6. ASSUME NEW p \in Proc, Refused(p) PROVE Kept
  <2>1. CASE sess' = [sess EXCEPT ![p[1]].auth = "failed", ![p[1]].chal = None]
    BY <1>0, <2>1 DEF Session
  <2> QED
    BY <1>2, <1>3, <1>6, <2>1 DEF Refused
<1>7. ASSUME UNCHANGED sess PROVE Kept
  BY <1>7
<1>8. ASSUME NEW p \in Proc, ReadState(p) PROVE Kept
  BY <1>3, <1>7, <1>8 DEF ReadState
<1> HIDE DEF Kept
<1>9. ASSUME Dealer \/ Poll \/ \E s \in Station : LinkDrops(s) PROVE Kept
  BY <1>1, <1>2, <1>7, <1>9 DEF Dealer, Poll, Mint, Withdraw, Provision, LinkDrops
<1>10. ASSUME NEW p \in Proc, PassStep(p) PROVE Kept
  BY <1>2, <1>4, <1>7, <1>10
     DEF PassStep, Register, Connect, ConnectFails, Bind, NotAuthorized, DeviceVerified,
         DeviceNotVerified
<1>11. ASSUME NEW p \in Proc, GattStep(p), ~Accepted(p) PROVE Kept
  BY <1>2, <1>3, <1>5, <1>6, <1>7, <1>8, <1>11 DEF GattStep, Manage, ManageCli, LeaveCli, LinkGone
<1>12. ASSUME NEW p \in Proc, NEW k, Find(p, k) \/ StartCommand(p, k) \/ StartCli(p, k) PROVE Kept
  BY <1>7, <1>12 DEF Find, StartCommand, StartCli, Chooses
<1>13. ASSUME NEW p \in Proc, Abort(p) PROVE Kept
  BY <1>4, <1>7, <1>13 DEF Abort
<1>14. Kept \/ \E p \in Proc : Accepted(p)
  BY <1>9, <1>10, <1>11, <1>12, <1>13 DEF Next
<1> QED
  BY <1>14 DEF Kept

LEMMA HolderKept == ASSUME TypeInv, HolderInv, Next PROVE HolderInv'
<1>1. ASSUME NEW i \in DOMAIN tab' PROVE tab'[i].of = pub'[tab'[i].id]
  <2>1. ASSUME NEW m \in DOMAIN tab, tab'[i] = tab[m] PROVE tab'[i].of = pub'[tab'[i].id]
    BY <2>1, PubStays, Holders DEF HolderInv
  <2>2. ASSUME NEW j \in DOMAIN tab, tab' = RemoveAt(tab, j) PROVE tab'[i].of = pub'[tab'[i].id]
    <3>1. tab \in Seq(Entry) /\ j \in 1..Len(tab)
      BY <2>2, LenProperties DEF TypeInv, TableType
    <3>2. \E m \in DOMAIN tab : tab'[i] = tab[m]
      BY <2>2, <3>1, Removed
    <3> QED
      BY <2>1, <3>2
  <2>3. CASE UNCHANGED tab
    BY <2>1, <2>3
  <2>4. ASSUME NEW s, Obeys(s) PROVE tab'[i].of = pub'[tab'[i].id]
    BY <2>2, <2>3, <2>4 DEF Obeys
  <2>5. ASSUME NEW j \in DOMAIN srv, Provision(j) PROVE tab'[i].of = pub'[tab'[i].id]
    <3> DEFINE e == [id |-> srv[j], of |-> pub[srv[j]]]
    <3>1. srv[j] \in Key /\ pub[srv[j]] \in Computer /\ pub' = pub
      BY <2>5, ElementOfSeq, LenProperties DEF Provision, Served, TypeInv, ServerType
    <3>2. e \in Entry /\ tab \in Seq(Entry) /\ tab' = Append(tab, e)
      BY <2>5, <3>1 DEF Entry, TypeInv, TableType, Provision
    <3>3. tab'[i] = e \/ \E m \in DOMAIN tab : tab'[i] = tab[m]
      <4> HIDE DEF e
      <4> QED
        BY <3>2, Appended
    <3> QED
      BY <2>1, <3>1, <3>3
  <2>6. ASSUME NEW j \in DOMAIN tab, Revoke(j) PROVE tab'[i].of = pub'[tab'[i].id]
    BY <2>2, <2>6 DEF Revoke
  <2> QED
    BY <2>3, <2>4, <2>5, <2>6
       DEF Next, Dealer, Poll, PassStep, GattStep, Mint, Withdraw, Find, Register, Connect,
           ConnectFails, Bind, NotAuthorized, DeviceVerified, DeviceNotVerified, ReadChallenge,
           Accepted, Refused, ReadState, Manage, ManageCli, LeaveCli, LinkGone, StartCommand,
           StartCli, Chooses, Abort, LinkDrops
<1>2. ASSUME NEW s \in Station, sess'[s].auth = "ok" PROVE pub'[sess'[s].key] = Home[s]
  <2>1. CASE sess'[s] = sess[s]
    BY <1>2, <2>1, PubStays, Holders DEF HolderInv
  <2>2. ASSUME NEW p \in Proc, Accepted(p), p[1] = s PROVE pub'[sess'[s].key] = Home[s]
    <3>1. PICK m \in DOMAIN tab : tab[m] = [id |-> key[p], of |-> Home[s]]
      BY <2>2 DEF Accepted, Verifies, Range
    <3>2. pub[key[p]] = Home[s] /\ pub' = pub
      BY <2>2, <3>1 DEF HolderInv, Accepted
    <3>3. sess'[s] = [auth |-> "ok", key |-> key[p], chal |-> None]
      BY <2>2 DEF Accepted, TypeInv, SessionType
    <3> QED
      BY <3>2, <3>3
  <2>3. ASSUME NEW p \in Proc, Accepted(p), p[1] # s PROVE sess'[s] = sess[s]
    BY <2>3 DEF Accepted, TypeInv, SessionType
  <2> QED
    BY <1>2, <2>1, <2>2, <2>3, OnlyAccepted
<1> QED
  BY <1>1, <1>2 DEF HolderInv

(* A key opens the vehicle for one computer only (store.py:98): no two     *)
(* computers are ever authenticated with the same key.                     *)
THEOREM KeysHaveOneHolder == Spec => []OneHolder
<1>1. Init => HolderInv
  BY DEF Init, HolderInv, Closed
<1>2. TypeInv /\ HolderInv /\ [Next]_vars => HolderInv'
  <2>1. CASE UNCHANGED vars
    BY <2>1 DEF vars, HolderInv
  <2> QED
    BY <2>1, HolderKept
<1>3. HolderInv => OneHolder
  BY DEF HolderInv, OneHolder
<1> QED
  BY <1>1, <1>2, <1>3, Typing, PTL DEF Spec
=============================================================================
