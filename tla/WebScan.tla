------------------------------ MODULE WebScan ------------------------------
(***************************************************************************)
(* dk-web: the background task that scans for the vehicle and connects to  *)
(* it, and the browser connections that start and stop this task           *)
(* (client/dk_client/server/websocket.py).                                 *)
(*                                                                         *)
(* All of it runs on one asyncio loop: a step of this module is what a     *)
(* coroutine does between two awaits that may suspend it, and a coroutine  *)
(* that is cancelled does nothing more until the CancelledError reaches it.*)
(* Awaits whose results change nothing in the flow, such as the            *)
(* authentication of the phone, are part of the next one.  There is one    *)
(* account with one vehicle.                                               *)
(*                                                                         *)
(* Bounds, not in the code: MaxOpens and MaxDrops, and the number of       *)
(* ScanTask identities, which are used again once a task is done.          *)
(***************************************************************************)
EXTENDS Integers, FiniteSets

CONSTANTS
    Client,        \* browsers
    ScanTask,      \* identities of asyncio tasks that run _auto_scan_loop
    NoTask,        \* None
    NoClient,      \* no client
    MaxOpens,      \* bound on the websocket connections
    MaxDrops       \* bound on the disconnections by vehicle or user

ASSUME TaskAssumption  == NoTask \notin ScanTask /\ NoClient \notin Client
ASSUME BoundAssumption == MaxOpens \in Nat /\ MaxDrops \in Nat

VARIABLES
    clients,       \* the keys of the dict `clients'
    ws,            \* per browser, where its websocket_endpoint is
    awaited,       \* per browser, the task that its _stop_auto_scan awaits
    current,       \* _auto_scan_task
    pc,            \* per task, what _auto_scan_loop awaits
    cancelled,     \* tasks whose CancelledError is under way
    caller,        \* per task, first_client_id of its pass
    changed,       \* tasks that were suspended while `clients' changed
    server,        \* dk-server: the account has a key, the device key is known
    cache,         \* _vehicle_cache, per query: {} or {a record of `server'}
    link,          \* ble_client: "none", "down" or "up"
    callback,      \* an _on_ble_disconnect is scheduled
    opens, drops   \* how often browsers connected and links dropped

taskVars   == <<current, pc, cancelled, caller>>
serverVars == <<server, cache>>
linkVars   == <<link, callback, drops>>
browserVars == <<clients, ws, awaited, opens>>
vars == <<browserVars, taskVars, changed, serverVars, linkVars>>

Query    == {"account", "all"}
Vehicles == [bound: BOOLEAN, dev: BOOLEAN]
Unknown  == [bound |-> FALSE, dev |-> FALSE]
Live     == { t \in ScanTask : pc[t] # "done" }

Init ==
    /\ clients = {} /\ ws = [c \in Client |-> "closed"]
    /\ awaited = [c \in Client |-> NoTask]
    /\ current = NoTask /\ pc = [t \in ScanTask |-> "done"] /\ cancelled = {}
    /\ caller = [t \in ScanTask |-> NoClient] /\ changed = {}
    /\ server \in Vehicles /\ cache = [q \in Query |-> {}]
    /\ link = "none" /\ callback = FALSE
    /\ opens = 0 /\ drops = 0

-----------------------------------------------------------------------------
(* Starting and stopping the task.                                         *)

NewTask(t) ==
    /\ pc[t] = "done"
    /\ current' = t
    /\ pc' = [pc EXCEPT ![t] = "sleep"]
    /\ UNCHANGED <<cancelled, caller>>

StartAutoScan ==
    IF current \in Live THEN UNCHANGED taskVars ELSE \E t \in ScanTask : NewTask(t)

\* Tasks that may be in the middle of a broadcast.
Broadcasting == { t \in ScanTask : pc[t] \notin {"done", "sleep", "connect"} }

ClientsBecome(set) ==
    /\ clients' = set
    /\ changed' = IF set = clients THEN changed ELSE Broadcasting

\* A browser connects.  Only when the vehicle is connected does the endpoint
\* wait, for the subscription, before it starts the scan.
Open(c) ==
    /\ ws[c] = "closed"
    /\ opens < MaxOpens /\ opens' = opens + 1
    /\ ClientsBecome(clients \union {c})
    /\ \/ link = "up" /\ ws' = [ws EXCEPT ![c] = "starting"] /\ UNCHANGED taskVars
       \/ link # "up" /\ ws' = [ws EXCEPT ![c] = "open"] /\ StartAutoScan
    /\ UNCHANGED <<awaited, serverVars, linkVars>>

Start(c) ==
    /\ ws[c] = "starting"
    /\ ws' = [ws EXCEPT ![c] = "open"]
    /\ StartAutoScan
    /\ UNCHANGED <<clients, awaited, opens, changed, serverVars, linkVars>>

\* broadcast forgets a client that it cannot reach.
Forget(c) ==
    /\ c \in clients
    /\ ClientsBecome(clients \ {c})
    /\ UNCHANGED <<ws, awaited, opens, taskVars, serverVars, linkVars>>

\* Seeded fault: the stop cancels whatever task the variable names.
MutStoppable == TRUE

\* "if _auto_scan_task and not _auto_scan_task.done()"
Stoppable == current \in Live

\* The endpoint ends; the last one stops the task and waits for its end.
Leave(c) ==
    /\ ws[c] = "open"
    /\ ClientsBecome(clients \ {c})
    /\ \/ /\ clients' = {} /\ Stoppable
          /\ cancelled' = cancelled \union {current}
          /\ awaited' = [awaited EXCEPT ![c] = current]
          /\ ws' = [ws EXCEPT ![c] = "stopping"]
          /\ UNCHANGED current
       \/ /\ clients' # {} \/ ~Stoppable
          /\ current' = IF clients' = {} THEN NoTask ELSE current
          /\ ws' = [ws EXCEPT ![c] = "closed"]
          /\ UNCHANGED <<cancelled, awaited>>
    /\ UNCHANGED <<opens, pc, caller, serverVars, linkVars>>

StopReturns(c) ==
    /\ ws[c] = "stopping"
    /\ awaited[c] \notin Live
    /\ current' = NoTask
    /\ ws' = [ws EXCEPT ![c] = "closed"]
    /\ awaited' = [awaited EXCEPT ![c] = NoTask]
    /\ UNCHANGED <<clients, opens, pc, cancelled, caller, changed, serverVars, linkVars>>

-----------------------------------------------------------------------------
(* fetch_registered_vehicles: what a query may return, and the cache then. *)

\* The caller of the "account" query does not look at the device key.
UsedOf(q) == IF q = "account" THEN [server EXCEPT !.dev = FALSE] ELSE server

Fetch(q, v) ==
    \/ v \in cache[q] /\ UNCHANGED cache
    \/ cache[q] = {} /\ v = UsedOf(q) /\ cache' = [cache EXCEPT ![q] = {v}]

FetchFails(q) == cache[q] = {} /\ UNCHANGED cache

\* Seeded fault: every use of a record renews its time.
MutExpire(q) == cache[q] # {} /\ UNCHANGED vars

Expire(q) ==
    /\ cache[q] # {}
    /\ cache' = [cache EXCEPT ![q] = {}]
    /\ UNCHANGED <<browserVars, taskVars, changed, server, linkVars>>

\* status_update_loop, and an endpoint for its first message, fetch the
\* vehicles of a client only to show them; the scan finds them in the cache.
ShowVehicles ==
    /\ clients # {}
    /\ cache["account"] = {}
    /\ \E v \in Vehicles : Fetch("account", v)
    /\ UNCHANGED <<browserVars, taskVars, changed, server, linkVars>>

\* Dealer and vehicle change the record of dk-server.
ServerChanges ==
    /\ \/ server' = [server EXCEPT !.bound = ~@]
       \/ ~server.dev /\ server' = [server EXCEPT !.dev = TRUE]
    /\ UNCHANGED <<browserVars, taskVars, changed, cache, linkVars>>

-----------------------------------------------------------------------------
(* _auto_scan_loop and, inside it, _connect_and_auth.                      *)

\* Task t ends one await and comes to the next.
Resume(t, from, to) ==
    /\ pc[t] = from
    /\ t \notin cancelled
    /\ pc' = [pc EXCEPT ![t] = to]
    /\ changed' = changed \ {t}
    /\ to \in {"sleep", "done"} => caller' = [caller EXCEPT ![t] = NoClient]
    /\ UNCHANGED <<browserVars, current, cancelled, server, drops>>

Disconnect == link' = (IF link = "up" THEN "down" ELSE link)
              /\ callback' = (callback \/ link = "up")

\* The top of the loop; with a link or without clients it sleeps again.
Wake(t) ==
    /\ link # "up" /\ clients # {}
    /\ Resume(t, "sleep", "scan")
    /\ \E c \in clients : caller' = [caller EXCEPT ![t] = c]
    /\ UNCHANGED <<cache, link, callback>>

\* _pre_register_pubkey follows, whatever its result, and the connection is
\* begun; an open one is closed first.
ScanFinds(t) ==
    /\ Resume(t, "scan", "connect")
    /\ \E v \in Vehicles : v.bound /\ Fetch("account", v)
    /\ link' = "down"
    /\ callback' = (callback \/ link = "up")
    /\ UNCHANGED caller

\* No such vehicle for the account, or none in range.
ScanFindsNothing(t) ==
    /\ Resume(t, "scan", "sleep")
    /\ FetchFails("account") \/ \E v \in Vehicles : Fetch("account", v)
    /\ UNCHANGED <<link, callback>>

Connected(t) ==
    /\ Resume(t, "connect", "bind")
    /\ link' = "up"
    /\ UNCHANGED <<caller, cache, callback>>

ConnectFails(t) ==
    /\ Resume(t, "connect", "sleep")
    /\ UNCHANGED <<cache, link, callback>>

KeyFound(t) ==
    /\ Resume(t, "bind", "verify")
    /\ \E v \in Vehicles : v.bound /\ Fetch("all", v)
    /\ UNCHANGED <<caller, link, callback>>

\* No key: the record has none, dk-server does not answer, or the client of
\* this pass is gone and with it the account.
NotAuthorized(t) ==
    /\ Resume(t, "bind", "sleep")
    /\ \/ FetchFails("all")
       \/ \E v \in Vehicles : Fetch("all", v) /\ (~v.bound \/ caller[t] \notin clients)
    /\ Disconnect

\* After the authentication of the phone, with either result, the device proves
\* that it has the key that dk-server knows; the status subscription that
\* follows ignores its errors.
DeviceVerified(t) ==
    /\ Resume(t, "verify", "sleep")
    /\ link = "up"
    /\ \E v \in Vehicles : v.dev /\ Fetch("all", v)
    /\ UNCHANGED <<link, callback>>

DeviceNotVerified(t) ==
    /\ Resume(t, "verify", "sleep")
    /\ FetchFails("all") \/ \E v \in Vehicles : Fetch("all", v)
    /\ Disconnect

\* A broadcast iterates over `clients' while it changes: the RuntimeError ends
\* the pass where it is, the link stays, and the loop sleeps.
BroadcastRaises(t) ==
    /\ t \in changed
    /\ \E from \in {"scan", "bind", "verify"} : Resume(t, from, "sleep")
    /\ UNCHANGED <<cache, link, callback>>

CancelArrives(t) ==
    /\ t \in cancelled
    /\ pc' = [pc EXCEPT ![t] = "done"]
    /\ cancelled' = cancelled \ {t}
    /\ caller' = [caller EXCEPT ![t] = NoClient]
    /\ changed' = changed \ {t}
    /\ UNCHANGED <<browserVars, current, serverVars, linkVars>>

-----------------------------------------------------------------------------
(* The link ends: by the vehicle, or by a "disconnect" message.            *)

Drop ==
    /\ link = "up"
    /\ drops < MaxDrops /\ drops' = drops + 1
    /\ Disconnect
    /\ UNCHANGED <<browserVars, taskVars, changed, serverVars>>

\* The endpoint waits for the disconnection and starts the scan then.
UserDisconnects(c) ==
    /\ ws[c] = "open"
    /\ drops < MaxDrops /\ drops' = drops + 1
    /\ Disconnect
    /\ ws' = [ws EXCEPT ![c] = "starting"]
    /\ UNCHANGED <<clients, awaited, opens, taskVars, changed, serverVars>>

\* It reports the loss first; when the broadcast raises, nothing is started.
OnBleDisconnect ==
    /\ callback
    /\ callback' = FALSE
    /\ StartAutoScan \/ UNCHANGED taskVars
    /\ UNCHANGED <<browserVars, changed, serverVars, link, drops>>

-----------------------------------------------------------------------------
Browser(c) == Open(c) \/ Start(c) \/ Forget(c) \/ Leave(c) \/ StopReturns(c) \/ UserDisconnects(c)

ScanStep(t) ==
    \/ Wake(t) \/ ScanFinds(t) \/ ScanFindsNothing(t) \/ Connected(t)
    \/ ConnectFails(t) \/ KeyFound(t) \/ NotAuthorized(t)
    \/ DeviceVerified(t) \/ DeviceNotVerified(t) \/ BroadcastRaises(t)

Next ==
    \/ \E c \in Client : Browser(c)
    \/ \E t \in ScanTask : ScanStep(t) \/ CancelArrives(t)
    \/ \E q \in Query : Expire(q)
    \/ ShowVehicles \/ ServerChanges \/ Drop \/ OnBleDisconnect

Spec == Init /\ [][Next]_vars

(* Scheduling.  Every await of a coroutine ends, a cancelled one included, *)
(* and five seconds pass.  A vehicle in range is found, connected and      *)
(* verified if this is tried again and again.                              *)
Fairness ==
    /\ \A t \in ScanTask : WF_vars(ScanStep(t) \/ CancelArrives(t))
    /\ SF_vars(\E t \in ScanTask : ScanFinds(t)) /\ SF_vars(\E t \in ScanTask : Connected(t))
    /\ SF_vars(\E t \in ScanTask : KeyFound(t))
    /\ SF_vars(\E t \in ScanTask : DeviceVerified(t))
    /\ \A c \in Client : WF_vars(Start(c) \/ StopReturns(c))
    /\ \A q \in Query : WF_vars(Expire(q))
    /\ WF_vars(OnBleDisconnect)

FairSpec == Spec /\ Fairness
-----------------------------------------------------------------------------
(* Each variable has its type.                                             *)
WebTypeOK ==
    /\ clients \subseteq Client
    /\ ws \in [Client -> {"closed", "starting", "open", "stopping"}]
    /\ awaited \in [Client -> ScanTask \union {NoTask}]
    /\ current \in ScanTask \union {NoTask}
    /\ pc \in [ScanTask -> {"done", "sleep", "scan", "connect", "bind", "verify"}]
    /\ cancelled \subseteq Live /\ changed \subseteq Broadcasting
    /\ caller \in [ScanTask -> Client \union {NoClient}]
    /\ server \in Vehicles
    /\ cache \in [Query -> SUBSET Vehicles] /\ \A q \in Query : Cardinality(cache[q]) <= 1
    /\ link \in {"none", "down", "up"} /\ callback \in BOOLEAN
    /\ opens \in 0..MaxOpens /\ drops \in 0..MaxDrops

ScanRuns == Live \ cancelled # {}

\* Not always so: a task that is created after the one being stopped is done,
\* but before _stop_auto_scan forgets it, runs unknown beside the next one.
OneScanTask == Cardinality(Live) <= 1

(* While somebody looks on, one scan runs, the account has a key and       *)
(* dk-server knows the device key, the vehicle in range ends up connected  *)
(* for good: cancelled passes, exceptions, cached records that are stale   *)
(* and clients that left during a pass delay it only.                      *)
VehicleGetsConnected ==
    LET Served == clients # {} /\ ScanRuns /\ OneScanTask /\ server.bound /\ server.dev
    IN  <>[]Served => <>[](link = "up")

(* "Continuously scan for registered vehicles and auto-connect"            *)
(* (websocket.py:273): a client that is there is served by a running scan. *)
ScanServesClients == clients # {} ~> (clients = {} \/ ScanRuns)
=============================================================================
