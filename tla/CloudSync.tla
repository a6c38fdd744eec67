----------------------------- MODULE CloudSync -----------------------------
(***************************************************************************)
(* Key provisioning: the keys that dk-server keeps for one vehicle         *)
(* (client/dk_client/server/store.py, reg_app.py), the task of the         *)
(* firmware that copies them into the key store (dk_cloud.c), the BLE      *)
(* sessions that are authenticated against the key store (dk_auth.c,       *)
(* dk_service.c), and the factory reset (dk_button.c).                     *)
(*                                                                         *)
(* The key store and its saves are those of KeystoreNvs; a task whose call *)
(* is still saving is inside that call and takes no other step.            *)
(* Bounds, not in the code: every key id is minted at most once, and       *)
(* Budget limits the commands of the owner, the resets of the button and   *)
(* the vehicles that the dealer registers.                                 *)
(***************************************************************************)
EXTENDS KeystoreNvs

CONSTANTS
    Handle,        \* BLE connection handles
    Budget         \* [mgmt, resets, vehicles], how often each may happen

ASSUME BudgetAssumption == Budget \in [mgmt: Nat, resets: Nat, vehicles: Nat]

VARIABLES
    srv,           \* dk-server: the keys of the vehicle, in the order added
    minted,        \* dk-server: key ids generated so far, never generated again
    vehicle,       \* dk-server: a vehicle with this BLE address is registered
    dev_key,       \* dk-server: it has the device public key
    torn,          \* dk-server: vehicles.json is half written
    pc,            \* dk_cloud task: where it is
    resp,          \* dk_cloud task: the key ids of the last response
    idx,           \* dk_cloud task: loop index
    kid,           \* dk_cloud task: the key being revoked
    sess,          \* s_conns: authentication state and key id per connection
    term,          \* connections whose termination has been requested
    verifying,     \* BLE host task: the response it is verifying
    resetting,     \* timer task: inside factory_reset, before EraseAll
    budget         \* what is left of Budget

serverVars == <<srv, minted, vehicle, dev_key, torn>>
syncVars   == <<pc, resp, idx, kid>>
bleVars    == <<sess, term, verifying>>
vars == <<keystoreVars, serverVars, syncVars, bleVars, resetting, budget>>

NoKey    == ZeroId
Nothing  == [conn |-> "none", key_id |-> NoKey]
Closed   == [auth |-> "disconnected", key_id |-> NoKey]
AuthState == {"disconnected", "connected", "challenge", "ok", "failed"}

CloudInit ==
    /\ Init
    /\ srv = <<>> /\ minted = {} /\ vehicle = TRUE /\ dev_key = FALSE /\ torn = FALSE
    /\ pc = "boot" /\ resp = <<>> /\ idx = 0 /\ kid = NoKey
    /\ sess = [h \in Handle |-> Closed]
    /\ term = {}
    /\ verifying = Nothing
    /\ resetting = FALSE
    /\ budget = Budget

Spend(item) == budget[item] > 0 /\ budget' = [budget EXCEPT ![item] = @ - 1]

-----------------------------------------------------------------------------
(* dk-server.  Every request handler runs to completion before the next;   *)
(* it loads vehicles.json, changes the list and writes the file in place.  *)

\* save_vehicles truncates the file: a crash in between leaves no complete
\* JSON value, and from then on every handler that loads the file fails.
\* srv stands for what the file held last.
SrvCrashInSave ==
    /\ ~torn
    /\ torn' = TRUE
    /\ UNCHANGED <<keystoreVars, srv, minted, vehicle, dev_key, syncVars, bleVars, resetting, budget>>

SrvAddKey(id) ==
    /\ ~torn
    /\ vehicle
    /\ id \notin minted
    /\ minted' = minted \union {id}
    /\ srv' = Append(srv, [key_id |-> id, pub |-> FALSE])
    /\ UNCHANGED <<keystoreVars, vehicle, dev_key, torn, syncVars, bleVars, resetting, budget>>

\* update_key_pubkey: write-once.
SrvRegisterPubkey(i) ==
    /\ ~torn
    /\ i \in DOMAIN srv
    /\ ~srv[i].pub
    /\ srv' = [srv EXCEPT ![i].pub = TRUE]
    /\ UNCHANGED <<keystoreVars, minted, vehicle, dev_key, torn, syncVars, bleVars, resetting, budget>>

SrvDeleteKey(i) ==
    /\ ~torn
    /\ i \in DOMAIN srv
    /\ srv' = RemoveAt(srv, i)
    /\ UNCHANGED <<keystoreVars, minted, vehicle, dev_key, torn, syncVars, bleVars, resetting, budget>>

SrvDeleteVehicle ==
    /\ ~torn
    /\ vehicle
    /\ vehicle' = FALSE /\ dev_key' = FALSE /\ srv' = <<>>
    /\ UNCHANGED <<keystoreVars, minted, torn, syncVars, bleVars, resetting, budget>>

SrvAddVehicle ==
    /\ ~torn
    /\ ~vehicle
    /\ Spend("vehicles")
    /\ vehicle' = TRUE
    /\ UNCHANGED <<keystoreVars, srv, minted, dev_key, torn, syncVars, bleVars, resetting>>

\* api_provision: only the keys that have a public key, in order.
Ready == { i \in DOMAIN srv : srv[i].pub }

ReadyUpTo(i) == Cardinality({ j \in Ready : j <= i })

Served == [n \in 1..Cardinality(Ready) |->
             srv[CHOOSE i \in Ready : ReadyUpTo(i) = n].key_id]

-----------------------------------------------------------------------------
(* The dk_cloud task.                                                      *)

Goto(label) == pc' = label

\* register_device_pubkey, at boot and when the server has lost the key.
\* Its result is only logged: a lost answer is no different from a success.
AfterRegister == IF pc = "boot" THEN "fetch" ELSE "add"

RegisterSucceeds ==
    /\ pc \in {"boot", "reregister"}
    /\ ~torn
    /\ vehicle
    /\ dev_key' = TRUE
    /\ Goto(AfterRegister)
    /\ UNCHANGED <<keystoreVars, srv, minted, vehicle, torn, resp, idx, kid, bleVars, resetting, budget>>

\* The request is lost, or dk-server does not know the vehicle.
RegisterFails ==
    /\ pc \in {"boot", "reregister"}
    /\ Goto(AfterRegister)
    /\ UNCHANGED <<keystoreVars, serverVars, resp, idx, kid, bleVars, resetting, budget>>

\* Seeded fault: a lost device key is not noticed.
MutReceived(keys) ==
    /\ resp' = keys
    /\ idx' = 1
    /\ Goto("add")
    /\ UNCHANGED <<keystoreVars, serverVars, kid, bleVars, resetting, budget>>

Received(keys) ==
    /\ resp' = keys
    /\ idx' = 1
    /\ Goto(IF dev_key THEN "add" ELSE "reregister")
    /\ UNCHANGED <<keystoreVars, serverVars, kid, bleVars, resetting, budget>>

\* Seeded fault: an unreadable file is served as one without vehicles.
MutFetch ==
    /\ pc \in {"fetch", "poll"}
    /\ Received(IF torn THEN <<>> ELSE Served)

Fetch ==
    /\ pc \in {"fetch", "poll"}
    /\ ~torn
    /\ Received(Served)

\* A failed request, a truncated body or a parse error ends sync_keys with
\* nothing changed.
FetchFails ==
    /\ pc \in {"fetch", "poll"}
    /\ UNCHANGED vars

\* server_ids holds the first DK_MAX_KEYS ids of the response.
ServerIds == { resp[i] : i \in { j \in DOMAIN resp : j <= DK_MAX_KEYS } }

\* Every served public key is one that dk-web wrote, which decodes.
AddItem ==
    /\ pc = "add"
    /\ idx <= Len(resp)
    /\ CallAddKey("cloud", resp[idx])
    /\ IF saving'["cloud"] = "count" THEN Goto("added") /\ idx' = idx
                                     ELSE Goto("add") /\ idx' = idx + 1
    /\ UNCHANGED <<serverVars, resp, kid, bleVars, resetting, budget>>

\* Seeded fault: a key that went in is not approved.
MutSkipApproval ==
    /\ pc = "added"
    /\ saving["cloud"] = "no"
    /\ Goto("add")
    /\ idx' = idx + 1
    /\ UNCHANGED <<keystoreVars, serverVars, resp, kid, bleVars, resetting, budget>>

ApproveItem ==
    /\ pc = "added"
    /\ saving["cloud"] = "no"
    /\ \/ ret["cloud"] = "OK" /\ CallApproveKey("cloud", resp[idx])
       \/ ret["cloud"] # "OK" /\ UNCHANGED keystoreVars
    /\ Goto("add")
    /\ idx' = idx + 1
    /\ UNCHANGED <<serverVars, resp, kid, bleVars, resetting, budget>>

\* Seeded fault: the walk starts before the last entry.
MutStartRevoking ==
    /\ pc = "add"
    /\ saving["cloud"] = "no"
    /\ idx > Len(resp)
    /\ Goto("check")
    /\ idx' = IF s_keys = <<>> THEN 0 ELSE Len(s_keys) - 1
    /\ UNCHANGED <<keystoreVars, serverVars, resp, kid, bleVars, resetting, budget>>

\* The deletion loop walks from the last entry to the first; idx is the
\* 1-based place of the entry it looks at next.
StartRevoking ==
    /\ pc = "add"
    /\ saving["cloud"] = "no"
    /\ idx > Len(resp)
    /\ Goto("check")
    /\ idx' = Len(s_keys)
    /\ UNCHANGED <<keystoreVars, serverVars, resp, kid, bleVars, resetting, budget>>

CheckLocal ==
    /\ pc = "check"
    /\ saving["cloud"] = "no"
    /\ idx > 0
    /\ \/ /\ idx <= Len(s_keys)
          /\ s_keys[idx].key_id \notin ServerIds
          /\ kid' = s_keys[idx].key_id
          /\ Goto("kick")
          /\ UNCHANGED idx
       \/ /\ idx <= Len(s_keys) => s_keys[idx].key_id \in ServerIds
          /\ idx' = idx - 1
          /\ UNCHANGED <<pc, kid>>
    /\ UNCHANGED <<keystoreVars, serverVars, resp, bleVars, resetting, budget>>

\* Seeded fault: the terminations are not requested.
MutDisconnectNone(id) == {}

\* DkAuth_DisconnectByKey: the connections that it terminates.
DisconnectByKey(id) ==
    { h \in Handle : sess[h].auth = "ok" /\ sess[h].key_id = id }

Kick ==
    /\ pc = "kick"
    /\ term' = term \union DisconnectByKey(kid)
    /\ Goto("remove")
    /\ UNCHANGED <<keystoreVars, serverVars, resp, idx, kid, sess, verifying, resetting, budget>>

\* Seeded fault: after a deletion the walk steps over one entry.
MutRemoveLocalSkips ==
    /\ pc = "remove"
    /\ CallDeleteKey("cloud", kid)
    /\ Goto("check")
    /\ idx' = IF idx > 1 THEN idx - 2 ELSE 0
    /\ UNCHANGED <<serverVars, resp, kid, bleVars, resetting, budget>>

RemoveLocal ==
    /\ pc = "remove"
    /\ CallDeleteKey("cloud", kid)
    /\ Goto("check")
    /\ idx' = idx - 1
    /\ UNCHANGED <<serverVars, resp, kid, bleVars, resetting, budget>>

EndPass ==
    /\ pc = "check"
    /\ saving["cloud"] = "no"
    /\ idx = 0
    /\ Goto("poll")
    /\ UNCHANGED <<keystoreVars, serverVars, resp, idx, kid, bleVars, resetting, budget>>

CloudStep ==
    \/ RegisterFails \/ Fetch \/ FetchFails \/ AddItem \/ ApproveItem
    \/ StartRevoking \/ CheckLocal \/ Kick \/ RemoveLocal \/ EndPass

-----------------------------------------------------------------------------
(* The BLE host task: one event at a time.  The key id of a session is     *)
(* read only while the session is authenticated and is kept only then.     *)

HostIdle == verifying = Nothing /\ saving["nimble"] = "no"

Connect(h) ==
    /\ HostIdle
    /\ sess[h].auth = "disconnected"
    /\ sess' = [sess EXCEPT ![h].auth = "connected"]
    /\ UNCHANGED <<keystoreVars, serverVars, syncVars, term, verifying, resetting, budget>>

Disconnect(h) ==
    /\ HostIdle
    /\ sess[h].auth # "disconnected"
    /\ sess' = [sess EXCEPT ![h] = Closed]
    /\ term' = term \ {h}
    /\ UNCHANGED <<keystoreVars, serverVars, syncVars, verifying, resetting, budget>>

\* Reading the challenge restarts authentication, also of a session that
\* was authenticated.
ReadChallenge(h) ==
    /\ HostIdle
    /\ sess[h].auth # "disconnected"
    /\ sess' = [sess EXCEPT ![h] = [auth |-> "challenge", key_id |-> NoKey]]
    /\ UNCHANGED <<keystoreVars, serverVars, syncVars, term, verifying, resetting, budget>>

\* DkAuth_VerifyResponse up to the public key that it copies out of the
\* table.  A response in another state changes nothing; one that is too
\* short fails like one with an unknown key.
WriteResponse(h, id) ==
    /\ HostIdle
    /\ sess[h].auth = "challenge"
    /\ \/ /\ HasPubkey(s_keys, id)
          /\ verifying' = [conn |-> h, key_id |-> id]
          /\ UNCHANGED sess
       \/ /\ ~HasPubkey(s_keys, id)
          /\ sess' = [sess EXCEPT ![h].auth = "failed"]
          /\ UNCHANGED verifying
    /\ UNCHANGED <<keystoreVars, serverVars, syncVars, term, resetting, budget>>

\* The signature check on the copy, and the new state of the session.
FinishVerify ==
    /\ verifying # Nothing
    /\ \E h \in Handle :
         /\ h = verifying.conn
         /\ \/ sess' = [sess EXCEPT ![h] = [auth |-> "ok", key_id |-> verifying.key_id]]
            \/ sess' = [sess EXCEPT ![h].auth = "failed"]
    /\ verifying' = Nothing
    /\ UNCHANGED <<keystoreVars, serverVars, syncVars, term, resetting, budget>>

\* key_mgmt_access: the owner deletes or approves a key.
KeyMgmt(h, id) ==
    /\ HostIdle
    /\ sess[h].auth = "ok" /\ IsOwner(s_keys, sess[h].key_id)
    /\ Spend("mgmt")
    /\ CallDeleteKey("nimble", id) \/ CallApproveKey("nimble", id)
    /\ UNCHANGED <<serverVars, syncVars, bleVars, resetting>>

-----------------------------------------------------------------------------
(* The factory reset on the timer task, and a power loss.                  *)

ResetDisconnectAll ==
    /\ ~resetting /\ ~erasing
    /\ Spend("resets")
    /\ resetting' = TRUE
    /\ term' = term \union { h \in Handle : sess[h].auth # "disconnected" }
    /\ UNCHANGED <<keystoreVars, serverVars, syncVars, sess, verifying>>

ResetEraseNvs ==
    /\ resetting
    /\ EraseNvs
    /\ resetting' = FALSE
    /\ UNCHANGED <<serverVars, syncVars, bleVars, budget>>

ResetEraseRam ==
    /\ EraseRam
    /\ UNCHANGED <<serverVars, syncVars, bleVars, resetting, budget>>

PowerLoss ==
    /\ Reboot
    /\ pc' = "boot" /\ resp' = <<>> /\ idx' = 0 /\ kid' = NoKey
    /\ sess' = [h \in Handle |-> Closed]
    /\ term' = {} /\ verifying' = Nothing /\ resetting' = FALSE
    /\ UNCHANGED <<serverVars, budget>>

SaveStep(t) ==
    /\ Save(t)
    /\ UNCHANGED <<serverVars, syncVars, bleVars, resetting, budget>>

-----------------------------------------------------------------------------
Dealer ==
    \/ \E id \in KeyId : SrvAddKey(id)
    \/ \E i \in DOMAIN srv : SrvRegisterPubkey(i) \/ SrvDeleteKey(i)
    \/ SrvDeleteVehicle
    \/ SrvAddVehicle
    \/ SrvCrashInSave

Phone ==
    \E h \in Handle :
       \/ Connect(h) \/ Disconnect(h) \/ ReadChallenge(h)
       \/ \E id \in KeyId : WriteResponse(h, id) \/ KeyMgmt(h, id)

Reset == ResetDisconnectAll \/ ResetEraseNvs \/ ResetEraseRam

CloudNext ==
    \/ Dealer \/ Phone
    \/ RegisterSucceeds \/ CloudStep \/ FinishVerify
    \/ \E t \in Task : SaveStep(t)
    \/ Reset \/ PowerLoss

CloudSpec == CloudInit /\ [][CloudNext]_vars
-----------------------------------------------------------------------------
(* Scheduling.  Every task of the firmware runs on; a poll is eventually   *)
(* answered (WiFi is up again and again and the poll is repeated every two *)
(* seconds), and of repeated registrations one eventually succeeds.  A     *)
(* requested termination is eventually reported as a disconnection.        *)
Fairness ==
    /\ WF_vars(CloudStep)
    /\ SF_vars(RegisterSucceeds)
    /\ WF_vars(FinishVerify)
    /\ \A t \in Task : WF_vars(SaveStep(t))
    /\ WF_vars(ResetEraseNvs) /\ WF_vars(ResetEraseRam)
    /\ \A h \in Handle : WF_vars(h \in term /\ Disconnect(h))

FairSpec == CloudSpec /\ Fairness

\* The part of it that ends the sessions of a revoked key.
TerminationFairness ==
    /\ WF_vars(Kick)
    /\ WF_vars(FinishVerify)
    /\ WF_vars(SaveStep("nimble"))
    /\ \A h \in Handle : WF_vars(h \in term /\ Disconnect(h))

TerminationSpec == CloudSpec /\ TerminationFairness

-----------------------------------------------------------------------------
(* Each variable has its type, those of the key store included.            *)
SyncTypeOK ==
    /\ TypeOK
    /\ srv \in Seq([key_id: KeyId, pub: BOOLEAN])
    /\ minted \subseteq KeyId
    /\ vehicle \in BOOLEAN /\ dev_key \in BOOLEAN /\ torn \in BOOLEAN
    /\ pc \in {"boot", "fetch", "reregister", "add", "added", "check", "kick",
               "remove", "poll"}
    /\ resp \in Seq(KeyId)
    /\ idx \in Nat
    /\ kid \in KeyId \union {ZeroId}
    /\ sess \in [Handle -> [auth: AuthState, key_id: KeyId \union {NoKey}]]
    /\ term \subseteq Handle
    /\ verifying = Nothing \/ verifying \in [conn: Handle, key_id: KeyId]
    /\ resetting \in BOOLEAN
    /\ \A item \in {"mgmt", "resets", "vehicles"} : budget[item] \in 0..Budget[item]

(* A pass of sync_keys over the table removes every key that its response  *)
(* did not list: the backward walk misses none, whatever the owner deletes *)
(* or the button erases while the loop runs.  This is the revocation flow  *)
(* of architecture.md.                                                     *)
PassLeavesOnlyServerKeys ==
    pc = "poll" => Ids(s_keys) \subseteq { resp[i] : i \in DOMAIN resp }

(* A key that came from the server is usable when the pass is over: the    *)
(* approval that follows the addition (dk_cloud.c:213) covers every key of *)
(* the table, in whatever order keys arrive and owners delete.             *)
PassApprovesKeys ==
    pc = "poll" => \A i \in 1..Len(s_keys) : ~s_keys[i].pending

(* "Delete local keys that are no longer on server" (dk_cloud.c:217): the  *)
(* sync removes only keys that the server has withdrawn for good, as long  *)
(* as its response fits the table.  A pass that works from an old          *)
(* response, a failed request and a server that lost its file in a crash   *)
(* cost nobody the key.                                                    *)
RevokesOnlyWithdrawn ==
    [][pc = "remove" /\ pc' = "check" /\ Len(resp) <= DK_MAX_KEYS =>
         (Ids(s_keys) \ Ids(s_keys')) \intersect { Served[i] : i \in DOMAIN Served } = {}
      ]_vars

(* "Disconnect any connection authenticated with the given key_id"         *)
(* (dk_auth.h:58): when a pass is over and no response is being verified,  *)
(* no session that was left alone is authenticated with a key that the     *)
(* pass removed.                                                           *)
NoSessionOfRevokedKey ==
    pc = "poll" /\ HostIdle =>
       \A h \in Handle \ term :
          sess[h].auth = "ok" => sess[h].key_id \in Ids(s_keys)

(* A session that is authenticated with a key when the sync is about to    *)
(* revoke that key does not stay authenticated with it.                    *)
RevokedSessionEnds ==
    \A h \in Handle, id \in KeyId :
       pc = "kick" /\ kid = id /\ sess[h] = [auth |-> "ok", key_id |-> id]
          ~> sess[h] # [auth |-> "ok", key_id |-> id]

(* Once the dealer, the owner and the button are quiet, the vehicle ends   *)
(* up with exactly the keys that the server provisions, if they fit the    *)
(* table: through power losses in the middle of a save, failed writes and  *)
(* resets, because the next poll repairs what the last one left.           *)
IdsConverge ==
    <>[](~torn /\ Len(Served) <= DK_MAX_KEYS =>
            Ids(s_keys) = { Served[i] : i \in DOMAIN Served })

(* A vehicle that stays registered ends up with the device public key,     *)
(* also when the vehicle was deleted and registered again or a request     *)
(* failed (dk_cloud.c:160).                                                *)
DeviceKeyConverges == <>[](~torn /\ vehicle => dev_key)
=============================================================================
