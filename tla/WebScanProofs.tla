--------------------------- MODULE WebScanProofs ---------------------------
(***************************************************************************)
(* Theorems about WebScan, for any browsers and task identities, and any   *)
(* bounds on connections and lost links.                                   *)
(***************************************************************************)
EXTENDS WebScan, FiniteSetTheorems, TLAPS

Label == {"done", "sleep", "scan", "connect", "bind", "verify"}

BrowserType ==
    /\ clients \subseteq Client
    /\ ws \in [Client -> {"closed", "starting", "open", "stopping"}]
    /\ awaited \in [Client -> ScanTask \union {NoTask}]
    /\ opens \in 0..MaxOpens

\* A CancelledError is under way to a task that is not done, and only a task
\* between two broadcasts can have missed a change of the dict.
TaskType ==
    /\ current \in ScanTask \union {NoTask}
    /\ pc \in [ScanTask -> Label]
    /\ cancelled \subseteq Live /\ changed \subseteq Broadcasting
    /\ caller \in [ScanTask -> Client \union {NoClient}]

\* A query has one record in the cache or none.
Cached == cache \in [Query -> SUBSET Vehicles] /\ \A q \in Query : Cardinality(cache[q]) <= 1

ServerType == server \in Vehicles /\ Cached

LinkType ==
    /\ link \in {"none", "down", "up"} /\ callback \in BOOLEAN
    /\ drops \in 0..MaxDrops

-----------------------------------------------------------------------------
LEMMA FetchCaches ==
    ASSUME ServerType, NEW q \in Query, NEW v \in Vehicles, Fetch(q, v)
    PROVE  Cached'
<1>1. CASE UNCHANGED cache
  BY <1>1 DEF ServerType, Cached
<1>2. CASE cache' = [cache EXCEPT ![q] = {v}]
  <2>1. Cardinality({v}) = 1
    BY FS_Singleton
  <2> QED
    BY <1>2, <2>1 DEF ServerType, Cached
<1> QED
  BY <1>1, <1>2 DEF Fetch

LEMMA ExpiryCaches ==
    ASSUME ServerType, NEW q \in Query, Expire(q)
    PROVE  Cached'
<1>1. Cardinality({}) = 0
  BY FS_EmptySet
<1> QED
  BY <1>1 DEF ServerType, Cached, Expire

-----------------------------------------------------------------------------
(* The steps, one part of the state after the other.                       *)

TypeInv == BrowserType /\ TaskType /\ ServerType /\ LinkType

USE DEF taskVars, serverVars, linkVars, browserVars, vars, Live, Broadcasting

LEMMA BrowserKept ==
    ASSUME TypeInv, [Next]_vars
    PROVE  BrowserType'
<1> USE DEF TypeInv, BrowserType
<1>1. ASSUME NEW c \in Client, Browser(c) PROVE BrowserType'
  <2>1. CASE Open(c)
    <3>1. opens' \in 0..MaxOpens
      BY <2>1, BoundAssumption DEF Open
    <3> QED
      BY <2>1, <3>1 DEF Open, ClientsBecome
  <2>2. CASE Leave(c)
    BY <2>2 DEF Leave, ClientsBecome, TaskType
  <2>3. CASE Start(c) \/ Forget(c) \/ StopReturns(c) \/ UserDisconnects(c)
    BY <2>3 DEF Start, Forget, StopReturns, UserDisconnects, ClientsBecome
  <2> QED
    BY <1>1, <2>1, <2>2, <2>3 DEF Browser
<1>2. CASE UNCHANGED browserVars
  BY <1>2
<1>3. ASSUME NEW t \in ScanTask, ScanStep(t) PROVE UNCHANGED browserVars
  BY <1>3 DEF ScanStep, Wake, ScanFinds, ScanFindsNothing, Connected, ConnectFails,
              KeyFound, NotAuthorized, DeviceVerified, DeviceNotVerified,
              BroadcastRaises, Resume
<1> QED
  BY <1>1, <1>2, <1>3 DEF Next, CancelArrives, Expire, ShowVehicles, ServerChanges,
                          Drop, OnBleDisconnect

(* A new task has no CancelledError under way, and is at no broadcast.     *)
LEMMA Starting ==
    ASSUME TaskType, StartAutoScan,
           changed' = changed \/ changed' = {} \/ changed' = Broadcasting
    PROVE  TaskType'
<1>1. CASE UNCHANGED taskVars
  BY <1>1 DEF TaskType
<1>2. ASSUME NEW t \in ScanTask, NewTask(t) PROVE TaskType'
  <2>1. pc' \in [ScanTask -> Label]
    BY <1>2 DEF NewTask, TaskType, Label
  <2>2. t \notin Broadcasting /\ \A s \in ScanTask : s # t => pc'[s] = pc[s]
    BY <1>2 DEF NewTask, TaskType
  <2>3. pc[t] = "done" /\ pc'[t] = "sleep"
    BY <1>2 DEF NewTask, TaskType
  <2> QED
    BY <1>2, <2>1, <2>2, <2>3 DEF NewTask, TaskType
<1> QED
  BY <1>1, <1>2 DEF StartAutoScan

(* A task that goes on is not being cancelled, and has seen the dict.      *)
LEMMA Resuming ==
    ASSUME TaskType, NEW t \in ScanTask, NEW from \in Label \ {"done"}, NEW to \in Label \ {"done"},
           Resume(t, from, to), caller' \in [ScanTask -> Client \union {NoClient}]
    PROVE  TaskType'
<1>1. pc' \in [ScanTask -> Label]
  BY DEF Resume, TaskType
<1>2. \A s \in ScanTask : s # t => pc'[s] = pc[s]
  BY DEF Resume, TaskType
<1>3. pc'[t] = to /\ t \notin changed'
  BY DEF Resume, TaskType
<1> QED
  BY <1>1, <1>2, <1>3 DEF Resume, TaskType

LEMMA ScanStepResumes ==
    ASSUME TypeInv, NEW t \in ScanTask, ScanStep(t)
    PROVE  TaskType'
<1> USE DEF TypeInv
<1>0. caller \in [ScanTask -> Client \union {NoClient}]
  BY DEF TaskType
<1>1. ASSUME NEW from \in Label \ {"done"}, Resume(t, from, "sleep") PROVE TaskType'
  <2>1. caller' \in [ScanTask -> Client \union {NoClient}]
    BY <1>0, <1>1 DEF Resume
  <2> QED
    BY <1>1, <2>1, Resuming DEF Label
<1>2. CASE Wake(t)
  <2>1. caller' \in [ScanTask -> Client \union {NoClient}]
    BY <1>0, <1>2 DEF Wake, BrowserType
  <2>2. Resume(t, "sleep", "scan")
    BY <1>2 DEF Wake
  <2> QED
    BY <2>1, <2>2, Resuming DEF Label
<1>3. CASE ScanFinds(t)
  <2>1. caller' \in [ScanTask -> Client \union {NoClient}] /\ Resume(t, "scan", "connect")
    BY <1>0, <1>3 DEF ScanFinds
  <2> QED
    BY <2>1, Resuming DEF Label
<1>4. CASE Connected(t)
  <2>1. caller' \in [ScanTask -> Client \union {NoClient}] /\ Resume(t, "connect", "bind")
    BY <1>0, <1>4 DEF Connected
  <2> QED
    BY <2>1, Resuming DEF Label
<1>5. CASE KeyFound(t)
  <2>1. caller' \in [ScanTask -> Client \union {NoClient}] /\ Resume(t, "bind", "verify")
    BY <1>0, <1>5 DEF KeyFound
  <2> QED
    BY <2>1, Resuming DEF Label
<1>6. CASE ScanFindsNothing(t) \/ ConnectFails(t) \/ NotAuthorized(t)
             \/ DeviceVerified(t) \/ DeviceNotVerified(t) \/ BroadcastRaises(t)
  <2>1. \E from \in Label \ {"done"} : Resume(t, from, "sleep")
    BY <1>6 DEF ScanFindsNothing, ConnectFails, NotAuthorized, DeviceVerified,
                DeviceNotVerified, BroadcastRaises, Label
  <2> QED
    BY <1>1, <2>1
<1> QED
  BY <1>2, <1>3, <1>4, <1>5, <1>6 DEF ScanStep

LEMMA TaskKept ==
    ASSUME TypeInv, [Next]_vars
    PROVE  TaskType'
<1> USE DEF TypeInv
<1>1. ASSUME NEW c \in Client, Browser(c) PROVE TaskType'
  <2>1. ASSUME UNCHANGED taskVars, changed' = changed \/ changed' = Broadcasting
        PROVE  TaskType'
    BY <2>1 DEF TaskType
  <2>2. CASE Leave(c)
    BY <2>2 DEF Leave, ClientsBecome, Stoppable, TaskType
  <2>3. CASE Open(c)
    BY <2>1, <2>3, Starting DEF Open, ClientsBecome
  <2>4. CASE Start(c)
    BY <2>4, Starting DEF Start
  <2>5. CASE StopReturns(c)
    BY <2>5 DEF StopReturns, TaskType
  <2>6. CASE Forget(c) \/ UserDisconnects(c)
    BY <2>1, <2>6 DEF Forget, UserDisconnects, ClientsBecome
  <2> QED
    BY <1>1, <2>2, <2>3, <2>4, <2>5, <2>6 DEF Browser
<1>2. ASSUME NEW t \in ScanTask, CancelArrives(t) PROVE TaskType'
  <2>1. pc' \in [ScanTask -> Label] /\ caller' \in [ScanTask -> Client \union {NoClient}]
    BY <1>2 DEF CancelArrives, TaskType, Label
  <2>2. \A s \in ScanTask : s # t => pc'[s] = pc[s]
    BY <1>2 DEF CancelArrives, TaskType
  <2> QED
    BY <1>2, <2>1, <2>2 DEF CancelArrives, TaskType
<1>3. CASE UNCHANGED <<taskVars, changed>>
  BY <1>3 DEF TaskType
<1>4. CASE OnBleDisconnect
  BY <1>3, <1>4, Starting DEF OnBleDisconnect
<1> QED
  BY <1>1, <1>2, <1>3, <1>4, ScanStepResumes
     DEF Next, Expire, ShowVehicles, ServerChanges, Drop

LEMMA ServerKept ==
    ASSUME TypeInv, [Next]_vars
    PROVE  ServerType'
<1> USE DEF TypeInv
<1>1. ASSUME NEW q \in Query, NEW v \in Vehicles, Fetch(q, v), UNCHANGED server
      PROVE  ServerType'
  BY <1>1, FetchCaches DEF ServerType
<1>2. CASE UNCHANGED serverVars
  BY <1>2 DEF ServerType, Cached
<1>3. ASSUME NEW t \in ScanTask, ScanStep(t) PROVE ServerType'
  <2>1. UNCHANGED server
    BY <1>3 DEF ScanStep, Wake, ScanFinds, ScanFindsNothing, Connected, ConnectFails,
                KeyFound, NotAuthorized, DeviceVerified, DeviceNotVerified,
                BroadcastRaises, Resume
  <2>2. UNCHANGED cache \/ \E q \in Query, v \in Vehicles : Fetch(q, v)
    BY <1>3 DEF ScanStep, Wake, ScanFinds, ScanFindsNothing, Connected, ConnectFails,
                KeyFound, NotAuthorized, DeviceVerified, DeviceNotVerified,
                BroadcastRaises, FetchFails, Query
  <2> QED
    BY <1>1, <1>2, <2>1, <2>2
<1>4. ASSUME NEW q \in Query, Expire(q) PROVE ServerType'
  BY <1>4, ExpiryCaches DEF Expire, ServerType
<1>5. CASE ShowVehicles
  BY <1>1, <1>5 DEF ShowVehicles, Query
<1>6. CASE ServerChanges
  <2>1. server' \in Vehicles
    BY <1>6 DEF ServerChanges, ServerType, Vehicles
  <2> QED
    BY <1>6, <2>1 DEF ServerChanges, ServerType, Cached
<1> QED
  BY <1>2, <1>3, <1>4, <1>5, <1>6
     DEF Next, Browser, Open, Start, Forget, Leave, StopReturns, UserDisconnects,
         CancelArrives, Drop, OnBleDisconnect

LEMMA LinkKept ==
    ASSUME TypeInv, [Next]_vars
    PROVE  LinkType'
<1> USE DEF TypeInv, LinkType
<1>1. CASE UNCHANGED linkVars
  BY <1>1
<1>2. ASSUME Disconnect PROVE link' \in {"none", "down", "up"} /\ callback' \in BOOLEAN
  BY <1>2 DEF Disconnect
<1>3. ASSUME drops < MaxDrops, drops' = drops + 1 PROVE drops' \in 0..MaxDrops
  BY <1>3, BoundAssumption
<1>4. ASSUME NEW t \in ScanTask, ScanStep(t) PROVE LinkType'
  <2>1. UNCHANGED drops
    BY <1>4 DEF ScanStep, Wake, ScanFinds, ScanFindsNothing, Connected, ConnectFails,
                KeyFound, NotAuthorized, DeviceVerified, DeviceNotVerified,
                BroadcastRaises, Resume
  <2>2. CASE ScanFinds(t)
    BY <2>1, <2>2 DEF ScanFinds
  <2>3. CASE Connected(t)
    BY <2>1, <2>3 DEF Connected
  <2>4. CASE Disconnect
    BY <1>2, <2>1, <2>4
  <2> QED
    BY <1>4, <2>1, <2>2, <2>3, <2>4
       DEF ScanStep, Wake, ScanFindsNothing, ConnectFails, KeyFound, NotAuthorized,
           DeviceVerified, DeviceNotVerified, BroadcastRaises
<1>5. ASSUME NEW c \in Client, UserDisconnects(c) PROVE LinkType'
  BY <1>2, <1>3, <1>5 DEF UserDisconnects
<1>6. CASE Drop
  BY <1>2, <1>3, <1>6 DEF Drop
<1>7. CASE OnBleDisconnect
  BY <1>7 DEF OnBleDisconnect
<1> QED
  BY <1>1, <1>4, <1>5, <1>6, <1>7
     DEF Next, Browser, Open, Start, Forget, Leave, StopReturns, CancelArrives, Expire,
         ShowVehicles, ServerChanges

LEMMA InitType == Init => TypeInv
<1> SUFFICES ASSUME Init PROVE TypeInv
  OBVIOUS
<1>1. BrowserType
  BY BoundAssumption DEF Init, BrowserType
<1>4. LinkType
  <2>1. 0 \in 0..MaxDrops
    BY BoundAssumption
  <2> QED
    BY <2>1, Zenon DEF Init, LinkType
<1>2. TaskType
  BY DEF Init, TaskType, Label
<1>3. ServerType
  BY FS_EmptySet DEF Init, ServerType, Cached
<1> QED
  BY <1>1, <1>2, <1>3, <1>4 DEF TypeInv

(* The endpoints, the scan tasks and the cache keep their types: a         *)
(* CancelledError is only ever under way to a task that still runs, a pass *)
(* that goes on has none, and no query has two records in the cache        *)
(* (websocket.py:249-270, :48-62).                                         *)
THEOREM WebTypeCorrect == Spec => []WebTypeOK
<1>1. TypeInv /\ [Next]_vars => TypeInv'
  BY BrowserKept, TaskKept, ServerKept, LinkKept DEF TypeInv
<1>2. TypeInv => WebTypeOK
  BY DEF TypeInv, BrowserType, TaskType, ServerType, Cached, LinkType, WebTypeOK, Label
<1> QED
  BY <1>1, <1>2, InitType, PTL DEF Spec
=============================================================================
