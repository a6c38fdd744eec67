-------------------------- MODULE CloudSyncProofs --------------------------
(***************************************************************************)
(* Theorems about CloudSync, for any set of key ids, any table size, any   *)
(* connections, any budget and any number of power losses, with and        *)
(* without NVS failures unless a theorem says otherwise.                   *)
(***************************************************************************)
EXTENDS CloudSync, KeystoreRefinementProofs, FiniteSetTheorems

ServerKey == [key_id: KeyId, pub: BOOLEAN]

ServerType ==
    /\ srv \in Seq(ServerKey)
    /\ minted \subseteq KeyId
    /\ vehicle \in BOOLEAN /\ dev_key \in BOOLEAN /\ torn \in BOOLEAN

\* Where the task is in its pass, and that its index is in range there.
PassType ==
    /\ pc \in {"boot", "fetch", "reregister", "add", "added", "check", "kick",
               "remove", "poll"}
    /\ resp \in Seq(KeyId)
    /\ idx \in Nat
    /\ kid \in KeyId \union {ZeroId}
    /\ pc \in {"reregister", "add", "added", "kick", "remove"} => idx >= 1
    /\ pc = "added" => idx <= Len(resp)

BleType ==
    /\ sess \in [Handle -> [auth: AuthState, key_id: KeyId \union {NoKey}]]
    /\ term \subseteq Handle
    /\ verifying = Nothing \/ verifying \in [conn: Handle, key_id: KeyId]
    /\ resetting \in BOOLEAN

BudgetType ==
    /\ budget \in [mgmt: Nat, resets: Nat, vehicles: Nat]
    /\ \A item \in {"mgmt", "resets", "vehicles"} : budget[item] \in 0..Budget[item]

TypeInv == TypeOK /\ ServerType /\ PassType /\ BleType /\ BudgetType

-----------------------------------------------------------------------------
(* The steps of the composition, seen from its parts.                      *)

USE DEF serverVars, syncVars, bleVars

(* Every step of the composition is a step of the key store, or none: what *)
(* holds of KeystoreNvs holds here.                                        *)
LEMMA KeystoreStep ==
    ASSUME TypeInv, [CloudNext]_vars
    PROVE  [Next]_keystoreVars
<1>1. CASE UNCHANGED keystoreVars
  BY <1>1
<1>2. CASE AddItem
  <2>1. idx \in 1..Len(resp)
    BY <1>2, LenProperties DEF AddItem, TypeInv, PassType
  <2>2. resp[idx] \in KeyId
    BY <2>1, ElementOfSeq DEF TypeInv, PassType
  <2> QED
    BY <1>2, <2>2 DEF AddItem, Next
<1>3. CASE ApproveItem
  <2>1. pc = "added"
    BY <1>3 DEF ApproveItem
  <2>2. idx \in 1..Len(resp)
    BY <2>1, LenProperties DEF TypeInv, PassType
  <2>3. resp[idx] \in KeyId
    BY <2>2, ElementOfSeq DEF TypeInv, PassType
  <2> QED
    BY <1>3, <2>3 DEF ApproveItem, Next, Task
<1>4. CASE RemoveLocal
  BY <1>4 DEF RemoveLocal, TypeInv, PassType, Next, Task
<1>5. ASSUME NEW h \in Handle, NEW id \in KeyId, KeyMgmt(h, id) PROVE [Next]_keystoreVars
  BY <1>5 DEF KeyMgmt, Next, Task
<1>6. ASSUME NEW t \in Task, SaveStep(t) PROVE [Next]_keystoreVars
  BY <1>6 DEF SaveStep, Next
<1>7. CASE ResetEraseNvs \/ ResetEraseRam \/ PowerLoss
  BY <1>7 DEF ResetEraseNvs, ResetEraseRam, PowerLoss, Next
<1>8. CASE Dealer
  BY <1>1, <1>8 DEF Dealer, SrvAddKey, SrvRegisterPubkey, SrvDeleteKey, SrvDeleteVehicle,
                    SrvAddVehicle, SrvCrashInSave
<1>9. ASSUME NEW h \in Handle, NEW id \in KeyId,
             \/ Connect(h) \/ Disconnect(h) \/ ReadChallenge(h) \/ WriteResponse(h, id)
      PROVE  [Next]_keystoreVars
  BY <1>1, <1>9 DEF Connect, Disconnect, ReadChallenge, WriteResponse
<1>10. ASSUME NEW h \in Handle, Connect(h) \/ Disconnect(h) \/ ReadChallenge(h)
       PROVE  [Next]_keystoreVars
  BY <1>1, <1>10 DEF Connect, Disconnect, ReadChallenge
<1>11. CASE RegisterSucceeds \/ RegisterFails \/ Fetch \/ FetchFails \/ FinishVerify
  BY <1>1, <1>11 DEF RegisterSucceeds, RegisterFails, Fetch, Received, FetchFails,
                     FinishVerify, vars
<1>12. CASE StartRevoking \/ CheckLocal \/ Kick \/ EndPass \/ ResetDisconnectAll
  BY <1>1, <1>12 DEF StartRevoking, CheckLocal, Kick, EndPass, ResetDisconnectAll
<1>13. CASE UNCHANGED vars
  BY <1>1, <1>13 DEF vars
<1> QED
  BY <1>2, <1>3, <1>4, <1>5, <1>6, <1>7, <1>8, <1>9, <1>10, <1>11, <1>12, <1>13
     DEF CloudNext, Phone, CloudStep, Reset

(* What dk-server keeps changes in its own handlers only.                  *)
LEMMA ServerStep ==
    ASSUME [CloudNext]_vars
    PROVE  Dealer \/ RegisterSucceeds \/ UNCHANGED serverVars
<1>1. ASSUME NEW h \in Handle, NEW id \in KeyId, WriteResponse(h, id) \/ KeyMgmt(h, id)
      PROVE  UNCHANGED serverVars
  BY <1>1 DEF WriteResponse, KeyMgmt
<1>2. ASSUME NEW h \in Handle, Connect(h) \/ Disconnect(h) \/ ReadChallenge(h)
      PROVE  UNCHANGED serverVars
  BY <1>2 DEF Connect, Disconnect, ReadChallenge
<1>3. CASE CloudStep
  BY <1>3 DEF CloudStep, RegisterFails, Fetch, Received, FetchFails, AddItem, ApproveItem,
              StartRevoking, CheckLocal, Kick, RemoveLocal, EndPass, vars
<1>4. ASSUME NEW t \in Task, SaveStep(t) PROVE UNCHANGED serverVars
  BY <1>4 DEF SaveStep
<1>5. CASE FinishVerify \/ Reset \/ PowerLoss \/ UNCHANGED vars
  BY <1>5 DEF FinishVerify, Reset, ResetDisconnectAll, ResetEraseNvs, ResetEraseRam,
              PowerLoss, vars
<1> QED
  BY <1>1, <1>2, <1>3, <1>4, <1>5 DEF CloudNext, Phone

(* Where the task is in its pass changes in its own steps and at a power   *)
(* loss only.                                                              *)
LEMMA PassStep ==
    ASSUME [CloudNext]_vars
    PROVE  RegisterSucceeds \/ CloudStep \/ PowerLoss \/ UNCHANGED syncVars
<1>1. ASSUME NEW h \in Handle, NEW id \in KeyId, WriteResponse(h, id) \/ KeyMgmt(h, id)
      PROVE  UNCHANGED syncVars
  BY <1>1 DEF WriteResponse, KeyMgmt
<1>2. ASSUME NEW h \in Handle, Connect(h) \/ Disconnect(h) \/ ReadChallenge(h)
      PROVE  UNCHANGED syncVars
  BY <1>2 DEF Connect, Disconnect, ReadChallenge
<1>3. CASE Dealer
  BY <1>3 DEF Dealer, SrvAddKey, SrvRegisterPubkey, SrvDeleteKey, SrvDeleteVehicle,
              SrvAddVehicle, SrvCrashInSave
<1>4. ASSUME NEW t \in Task, SaveStep(t) PROVE UNCHANGED syncVars
  BY <1>4 DEF SaveStep
<1>5. CASE FinishVerify \/ Reset \/ UNCHANGED vars
  BY <1>5 DEF FinishVerify, Reset, ResetDisconnectAll, ResetEraseNvs, ResetEraseRam, vars
<1> QED
  BY <1>1, <1>2, <1>3, <1>4, <1>5 DEF CloudNext, Phone

(* While the task is not adding, the table only loses entries: another     *)
(* task deletes one, approves one or erases all.                           *)
LEMMA TableStep ==
    ASSUME TypeInv, [CloudNext]_vars
    PROVE  \/ AddItem \/ PowerLoss
           \/ s_keys' = s_keys
           \/ s_keys' = <<>>
           \/ \E i \in 1..Len(s_keys) : s_keys' \in {ApproveAt(s_keys, i), DeleteAt(s_keys, i)}
<1> DEFINE Goal == \/ s_keys' = s_keys
                   \/ s_keys' = <<>>
                   \/ \E i \in 1..Len(s_keys) :
                        s_keys' \in {ApproveAt(s_keys, i), DeleteAt(s_keys, i)}
<1>1. CASE UNCHANGED keystoreVars
  BY <1>1 DEF keystoreVars
<1>2. ASSUME NEW t, NEW id, CallApproveKey(t, id) \/ CallDeleteKey(t, id) PROVE Goal
  BY <1>2 DEF CallApproveKey, CallDeleteKey, Changed, Returned
<1>3. ASSUME NEW h \in Handle, NEW id \in KeyId, KeyMgmt(h, id) PROVE Goal
  BY <1>2, <1>3 DEF KeyMgmt
<1>4. CASE ApproveItem \/ RemoveLocal
  BY <1>2, <1>4 DEF ApproveItem, RemoveLocal, keystoreVars
<1>5. ASSUME NEW t \in Task, SaveStep(t) PROVE Goal
  BY <1>5 DEF SaveStep, Save, SaveOpenFails, Evaluate, SaveCount, SaveBlob
<1>6. CASE Reset
  BY <1>6 DEF Reset, ResetDisconnectAll, ResetEraseNvs, ResetEraseRam, EraseNvs, EraseRam,
              keystoreVars
<1> HIDE DEF Goal
<1>8. CASE Dealer
  BY <1>8 DEF Dealer, SrvAddKey, SrvRegisterPubkey, SrvDeleteKey, SrvDeleteVehicle,
                    SrvAddVehicle, SrvCrashInSave, keystoreVars
<1>9. ASSUME NEW h \in Handle, NEW id \in KeyId, WriteResponse(h, id)
      PROVE  Goal
  BY <1>9 DEF WriteResponse, keystoreVars, Goal
<1>10. ASSUME NEW h \in Handle, Connect(h) \/ Disconnect(h) \/ ReadChallenge(h)
       PROVE  Goal
  BY <1>10 DEF Connect, Disconnect, ReadChallenge, keystoreVars, Goal
<1>11. CASE RegisterSucceeds \/ RegisterFails \/ Fetch \/ FetchFails \/ FinishVerify
  BY <1>11 DEF RegisterSucceeds, RegisterFails, Fetch, Received, FetchFails,
                     FinishVerify, vars, keystoreVars
<1>12. CASE StartRevoking \/ CheckLocal \/ Kick \/ EndPass
  BY <1>12 DEF StartRevoking, CheckLocal, Kick, EndPass, keystoreVars
<1>13. CASE UNCHANGED vars
  BY <1>13 DEF vars, keystoreVars
<1> QED
  BY <1>3, <1>4, <1>5, <1>6, <1>8, <1>9, <1>10, <1>11, <1>12, <1>13
     DEF CloudNext, Phone, CloudStep, Goal

-----------------------------------------------------------------------------
(* What api_provision serves.                                              *)

(* The places of the keys that have a public key are counted off, without  *)
(* a gap and without a tie.                                                *)
LEMMA ReadyRanks ==
    ASSUME ServerType
    PROVE  /\ Ready \subseteq DOMAIN srv /\ Cardinality(Ready) \in Nat
           /\ \A i, j \in Ready : ReadyUpTo(i) = ReadyUpTo(j) => i = j
           /\ \A i \in Ready : ReadyUpTo(i) \in 1..Cardinality(Ready)
           /\ \A n \in 1..Cardinality(Ready) : \E i \in Ready : ReadyUpTo(i) = n
<1> DEFINE n == Cardinality(Ready)
           upTo(i) == { j \in Ready : j <= i }
           rank == [i \in Ready |-> ReadyUpTo(i)]
<1>1. PICK m \in Nat : DOMAIN srv = 1..m
  BY LenProperties DEF ServerType
<1>2. Ready \subseteq 1..m /\ \A i \in Ready : i \in Nat
  BY <1>1 DEF Ready
<1>3. IsFiniteSet(Ready) /\ n \in Nat
  <2>1. 1 \in Int /\ m \in Int
    OBVIOUS
  <2>2. IsFiniteSet(1..m)
    BY <2>1, FS_Interval
  <2> QED
    BY <1>2, <2>2, FS_Subset, FS_CardinalityType
<1>4. \A i \in Ready : /\ upTo(i) \in SUBSET Ready /\ i \in upTo(i)
                       /\ IsFiniteSet(upTo(i))
                       /\ Cardinality(upTo(i)) \in Nat
                       /\ ReadyUpTo(i) = Cardinality(upTo(i))
  <2> TAKE i \in Ready
  <2>1. upTo(i) \in SUBSET Ready /\ i \in upTo(i)
    BY <1>2
  <2>2. IsFiniteSet(upTo(i))
    BY <1>3, <2>1, FS_Subset
  <2> QED
    BY <2>1, <2>2, FS_CardinalityType DEF ReadyUpTo
<1>5. \A i \in Ready : ReadyUpTo(i) \in 1..n
  <2> TAKE i \in Ready
  <2>1. Cardinality(upTo(i)) <= n
    BY <1>3, <1>4, FS_Subset
  <2>2. Cardinality(upTo(i)) # 0
    BY <1>4, FS_EmptySet
  <2> QED
    BY <1>3, <1>4, <2>1, <2>2
<1>6. \A i, j \in Ready : ReadyUpTo(i) = ReadyUpTo(j) => i = j
  <2>1. ASSUME NEW i \in Ready, NEW j \in Ready, i < j PROVE ReadyUpTo(i) # ReadyUpTo(j)
    <3>1. upTo(i) \in SUBSET upTo(j) /\ upTo(i) # upTo(j)
      <4>1. i \in Nat /\ j \in Nat /\ \A k \in Ready : k \in Nat
        BY <1>2
      <4>2. j \in upTo(j) /\ j \notin upTo(i)
        BY <2>1, <4>1
      <4>3. \A k \in upTo(i) : k \in upTo(j)
        BY <2>1, <4>1
      <4> QED
        BY <4>2, <4>3
    <3> HIDE DEF upTo
    <3>2. Cardinality(upTo(i)) # Cardinality(upTo(j))
      BY <1>4, <3>1, FS_Subset
    <3> QED
      BY <1>4, <3>2
  <2>2. \A i, j \in Ready : i < j \/ j < i \/ i = j
    BY <1>2
  <2> QED
    BY <2>1, <2>2
<1> HIDE DEF upTo, n
<1>7. rank \in Injection(Ready, 1..n)
  BY <1>5, <1>6 DEF Injection, IsInjective
<1>8. rank \in Surjection(Ready, 1..n)
  <2>1. 1 \in Int /\ n \in Int
    BY <1>3
  <2>2. IsFiniteSet(1..n) /\ Cardinality(1..n) = n
    BY <1>3, <2>1, FS_Interval
  <2> QED
    BY <1>7, <2>2, FS_Injection DEF n
<1> QED
  BY <1>1, <1>2, <1>3, <1>5, <1>6, <1>8 DEF Surjection, n

(* What is served are the ids of exactly the keys with a public key.       *)
LEMMA ServedIds ==
    ASSUME ServerType
    PROVE  /\ Served \in Seq(KeyId)
           /\ DOMAIN Served = 1..Cardinality(Ready)
           /\ \A n \in DOMAIN Served : \E i \in Ready : Served[n] = srv[i].key_id
           /\ \A i \in Ready : \E n \in DOMAIN Served : Served[n] = srv[i].key_id
<1> DEFINE at(n) == CHOOSE i \in Ready : ReadyUpTo(i) = n
<1>1. /\ Ready \subseteq DOMAIN srv /\ Cardinality(Ready) \in Nat
      /\ \A i, j \in Ready : ReadyUpTo(i) = ReadyUpTo(j) => i = j
      /\ \A i \in Ready : ReadyUpTo(i) \in 1..Cardinality(Ready)
      /\ \A n \in 1..Cardinality(Ready) : \E i \in Ready : ReadyUpTo(i) = n
  BY ReadyRanks
<1>2. \A i \in Ready : srv[i].key_id \in KeyId
  <2>1. srv \in Seq(ServerKey) /\ DOMAIN srv = 1..Len(srv)
    BY LenProperties DEF ServerType
  <2>2. \A i \in Ready : srv[i] \in ServerKey
    BY <1>1, <2>1, ElementOfSeq
  <2> QED
    BY <2>2 DEF ServerKey
<1>3. \A n \in 1..Cardinality(Ready) : at(n) \in Ready /\ ReadyUpTo(at(n)) = n
  BY <1>1
<1>4. Served = [n \in 1..Cardinality(Ready) |-> srv[at(n)].key_id]
  BY DEF Served
<1> HIDE DEF at
<1>5. Served \in Seq(KeyId)
  BY <1>1, <1>2, <1>3, <1>4
<1>6. \A i \in Ready : at(ReadyUpTo(i)) = i
  BY <1>1, <1>3
<1> QED
  BY <1>1, <1>3, <1>4, <1>5, <1>6

-----------------------------------------------------------------------------
(* Type correctness.                                                       *)

LEMMA ServerTypeKept ==
    ASSUME TypeInv, [CloudNext]_vars
    PROVE  ServerType'
<1>0. ServerType
  BY DEF TypeInv
<1>1. ASSUME NEW id \in KeyId, SrvAddKey(id) PROVE ServerType'
  <2>1. [key_id |-> id, pub |-> FALSE] \in ServerKey
    BY DEF ServerKey
  <2> QED
    BY <1>0, <1>1, <2>1 DEF SrvAddKey, ServerType
<1>2. ASSUME NEW i \in DOMAIN srv, SrvRegisterPubkey(i) PROVE ServerType'
  <2> DEFINE new == [srv[i] EXCEPT !.pub = TRUE]
  <2>1. i \in 1..Len(srv) /\ srv[i] \in ServerKey
    BY <1>0, LenProperties, ElementOfSeq DEF ServerType
  <2>2. new \in ServerKey /\ srv' = [srv EXCEPT ![i] = new]
    BY <1>2, <2>1 DEF ServerKey, SrvRegisterPubkey
  <2> HIDE DEF new
  <2>3. srv' \in Seq(ServerKey)
    BY <1>0, <2>1, <2>2, ExceptSeq DEF ServerType
  <2> QED
    BY <1>0, <1>2, <2>3 DEF SrvRegisterPubkey, ServerType
<1>3. ASSUME NEW i \in DOMAIN srv, SrvDeleteKey(i) PROVE ServerType'
  <2>1. i \in 1..Len(srv)
    BY <1>0, LenProperties DEF ServerType
  <2>2. srv' \in Seq(ServerKey)
    BY <1>0, <1>3, <2>1, RemovedAt DEF SrvDeleteKey, ServerType
  <2> QED
    BY <1>0, <1>3, <2>2 DEF SrvDeleteKey, ServerType
<1>4. CASE SrvDeleteVehicle \/ SrvAddVehicle \/ SrvCrashInSave
  <2>1. <<>> \in Seq(ServerKey)
    OBVIOUS
  <2> QED
    BY <1>0, <1>4, <2>1 DEF SrvDeleteVehicle, SrvAddVehicle, SrvCrashInSave, ServerType
<1>5. CASE RegisterSucceeds
  BY <1>0, <1>5 DEF RegisterSucceeds, ServerType
<1>6. CASE UNCHANGED serverVars
  BY <1>0, <1>6 DEF ServerType
<1> QED
  BY <1>1, <1>2, <1>3, <1>4, <1>5, <1>6, ServerStep DEF Dealer

LEMMA PassTypeKept ==
    ASSUME TypeInv, [CloudNext]_vars
    PROVE  PassType'
<1>0. PassType /\ Len(resp) \in Nat
  BY LenProperties DEF TypeInv, PassType
<1>1. CASE RegisterSucceeds \/ RegisterFails
  BY <1>0, <1>1 DEF RegisterSucceeds, RegisterFails, Goto, AfterRegister, PassType
<1>2. CASE Fetch
  <2>1. Served \in Seq(KeyId)
    BY ServedIds DEF TypeInv
  <2> QED
    BY <1>0, <1>2, <2>1 DEF Fetch, Received, Goto, PassType
<1>3. CASE AddItem
  BY <1>0, <1>3 DEF AddItem, Goto, PassType
<1>4. CASE ApproveItem
  BY <1>0, <1>4 DEF ApproveItem, Goto, PassType
<1>5. CASE StartRevoking
  <2>1. Len(s_keys) \in Nat
    BY TableFacts, MaxKeysAssumption DEF TypeInv, TypeOK
  <2> QED
    BY <1>0, <1>5, <2>1 DEF StartRevoking, Goto, PassType
<1>6. CASE CheckLocal
  <2>1. idx <= Len(s_keys) => s_keys[idx].key_id \in KeyId \union {ZeroId}
    BY <1>0, <1>6, TableFacts DEF CheckLocal, TypeInv, TypeOK, StoredKey, PassType
  <2> QED
    BY <1>0, <1>6, <2>1 DEF CheckLocal, Goto, PassType
<1>7. CASE Kick \/ RemoveLocal \/ EndPass
  BY <1>0, <1>7 DEF Kick, RemoveLocal, EndPass, Goto, PassType
<1>8. CASE PowerLoss
  BY <1>0, <1>8 DEF PowerLoss, NoKey, PassType
<1>9. CASE FetchFails \/ UNCHANGED syncVars
  BY <1>0, <1>9 DEF FetchFails, vars, PassType
<1> QED
  BY <1>1, <1>2, <1>3, <1>4, <1>5, <1>6, <1>7, <1>8, <1>9, PassStep DEF CloudStep

LEMMA BleTypeKept ==
    ASSUME TypeInv, [CloudNext]_vars
    PROVE  BleType'
<1>0. BleType
  BY DEF TypeInv
<1> USE DEF AuthState, NoKey, Closed
<1>1. ASSUME NEW h \in Handle, Connect(h) \/ Disconnect(h) \/ ReadChallenge(h) PROVE BleType'
  BY <1>0, <1>1 DEF Connect, Disconnect, ReadChallenge, BleType
<1>2. ASSUME NEW h \in Handle, NEW id \in KeyId, WriteResponse(h, id) PROVE BleType'
  BY <1>0, <1>2 DEF WriteResponse, BleType
<1>3. CASE FinishVerify
  BY <1>0, <1>3 DEF FinishVerify, BleType
<1>4. CASE Kick
  BY <1>0, <1>4 DEF Kick, DisconnectByKey, BleType
<1>5. CASE Reset
  BY <1>0, <1>5 DEF Reset, ResetDisconnectAll, ResetEraseNvs, ResetEraseRam, BleType
<1>6. CASE PowerLoss
  BY <1>0, <1>6 DEF PowerLoss, BleType
<1>7. CASE UNCHANGED <<bleVars, resetting>>
  BY <1>0, <1>7 DEF BleType
<1>8. ASSUME NEW h \in Handle, NEW id \in KeyId, KeyMgmt(h, id) PROVE BleType'
  BY <1>7, <1>8 DEF KeyMgmt
<1>9. ASSUME NEW t \in Task, SaveStep(t) PROVE BleType'
  BY <1>7, <1>9 DEF SaveStep
<1>10. CASE Dealer
  BY <1>7, <1>10 DEF Dealer, SrvAddKey, SrvRegisterPubkey, SrvDeleteKey, SrvDeleteVehicle,
                     SrvAddVehicle, SrvCrashInSave
<1>11. CASE RegisterSucceeds \/ RegisterFails \/ Fetch \/ FetchFails \/ AddItem \/ ApproveItem
  BY <1>7, <1>11 DEF RegisterSucceeds, RegisterFails, Fetch, Received, FetchFails, AddItem,
                     ApproveItem, vars
<1>12. CASE StartRevoking \/ CheckLocal \/ RemoveLocal \/ EndPass \/ UNCHANGED vars
  BY <1>7, <1>12 DEF StartRevoking, CheckLocal, RemoveLocal, EndPass, vars
<1> QED
  BY <1>1, <1>2, <1>3, <1>4, <1>5, <1>6, <1>8, <1>9, <1>10, <1>11, <1>12
     DEF CloudNext, Phone, CloudStep

(* What is left of the budget only shrinks.                                *)
LEMMA BudgetTypeKept ==
    ASSUME TypeInv, [CloudNext]_vars
    PROVE  BudgetType'
<1>0. BudgetType
  BY DEF TypeInv
<1>1. ASSUME NEW item \in {"mgmt", "resets", "vehicles"}, Spend(item) PROVE BudgetType'
  BY <1>0, <1>1, BudgetAssumption DEF Spend, BudgetType
<1>2. CASE UNCHANGED budget
  BY <1>0, <1>2 DEF BudgetType
<1>3. ASSUME NEW h \in Handle, NEW id \in KeyId, KeyMgmt(h, id) PROVE BudgetType'
  BY <1>1, <1>3 DEF KeyMgmt
<1>4. CASE SrvAddVehicle \/ ResetDisconnectAll
  BY <1>1, <1>4 DEF SrvAddVehicle, ResetDisconnectAll
<1>5. ASSUME NEW h \in Handle, NEW id \in KeyId, WriteResponse(h, id) PROVE BudgetType'
  BY <1>2, <1>5 DEF WriteResponse
<1>6. ASSUME NEW h \in Handle, Connect(h) \/ Disconnect(h) \/ ReadChallenge(h)
      PROVE  BudgetType'
  BY <1>2, <1>6 DEF Connect, Disconnect, ReadChallenge
<1>7. CASE RegisterSucceeds \/ RegisterFails \/ Fetch \/ FetchFails \/ AddItem \/ ApproveItem
  BY <1>2, <1>7 DEF RegisterSucceeds, RegisterFails, Fetch, Received, FetchFails, AddItem,
                    ApproveItem, vars
<1>8. CASE \/ StartRevoking \/ CheckLocal \/ Kick \/ RemoveLocal \/ EndPass \/ FinishVerify
           \/ ResetEraseNvs \/ ResetEraseRam \/ PowerLoss \/ UNCHANGED vars
  BY <1>2, <1>8 DEF StartRevoking, CheckLocal, Kick, RemoveLocal, EndPass, FinishVerify,
                    ResetEraseNvs, ResetEraseRam, PowerLoss, vars
<1>9. ASSUME NEW t \in Task, SaveStep(t) PROVE BudgetType'
  BY <1>2, <1>9 DEF SaveStep
<1>10. ASSUME NEW id \in KeyId, SrvAddKey(id) PROVE BudgetType'
  BY <1>2, <1>10 DEF SrvAddKey
<1>11. ASSUME NEW i, SrvRegisterPubkey(i) \/ SrvDeleteKey(i) PROVE BudgetType'
  BY <1>2, <1>11 DEF SrvRegisterPubkey, SrvDeleteKey
<1>12. CASE SrvDeleteVehicle \/ SrvCrashInSave
  BY <1>2, <1>12 DEF SrvDeleteVehicle, SrvCrashInSave
<1> QED
  BY <1>3, <1>4, <1>5, <1>6, <1>7, <1>8, <1>9, <1>10, <1>11, <1>12
     DEF CloudNext, Phone, CloudStep, Dealer, Reset

LEMMA InitType == CloudInit => TypeInv
<1> SUFFICES ASSUME CloudInit PROVE TypeInv
  OBVIOUS
<1>1. Init => TypeOK
  BY InitTypeOK
<1>2. BudgetType
  BY BudgetAssumption DEF CloudInit, BudgetType
<1>3. ServerType /\ PassType
  <2>1. <<>> \in Seq(ServerKey) /\ <<>> \in Seq(KeyId)
    OBVIOUS
  <2> QED
    BY <2>1 DEF CloudInit, ServerType, PassType, NoKey
<1>4. BleType
  BY DEF CloudInit, BleType, NoKey, Closed, AuthState
<1> QED
  BY <1>1, <1>2, <1>3, <1>4 DEF CloudInit, TypeInv

LEMMA TypeInvariant == CloudSpec => []TypeInv
<1>1. TypeInv /\ [CloudNext]_vars => TypeInv'
  <2> SUFFICES ASSUME TypeInv, [CloudNext]_vars PROVE TypeInv'
    OBVIOUS
  <2>1. TypeOK'
    BY KeystoreStep, TypeInductive DEF TypeInv
  <2> QED
    BY <2>1, ServerTypeKept, PassTypeKept, BleTypeKept, BudgetTypeKept DEF TypeInv
<1> QED
  BY <1>1, InitType, PTL DEF CloudSpec

(* Every variable of the composition keeps its type; the sync indexes its  *)
(* response only within bounds.                                            *)
THEOREM SyncTypeCorrect == CloudSpec => []SyncTypeOK
<1>1. TypeInv => SyncTypeOK
  BY DEF TypeInv, ServerType, ServerKey, PassType, BleType, BudgetType, SyncTypeOK
<1> QED
  BY <1>1, TypeInvariant, PTL

(* The sync, the owner's commands and the factory reset use the key store  *)
(* as KeystoreNvs describes it: the composition implements that module,    *)
(* and so what is proved of it holds here.                                 *)
THEOREM CloudUsesKeystore == CloudSpec => Spec
<1>1. CloudInit => Init
  BY DEF CloudInit
<1>2. TypeInv /\ [CloudNext]_vars => [Next]_keystoreVars
  BY KeystoreStep
<1> QED
  BY <1>1, <1>2, TypeInvariant, PTL DEF CloudSpec, Spec

(* Hence the table that the sync, the owner and the button work on, with   *)
(* all their interleaved saves, is the list with one stored copy that      *)
(* dk_keystore.h promises, and at rest a boot would find nothing but what  *)
(* is in the table, unless the last write of the blob went wrong.          *)
THEOREM SyncImplementsRegistry == CloudSpec => ImplementsRegistry /\ []DurableAtRest
<1> QED
  BY CloudUsesKeystore, StoreImplementsRegistry, SavesAreDurable

-----------------------------------------------------------------------------
(* What happens to the table.                                              *)

(* Apart from additions and reboots, each entry was there before, one      *)
(* place further on if an earlier one was deleted, and nothing becomes     *)
(* pending again.                                                          *)
LEMMA OnlyLosses ==
    ASSUME TypeInv, [CloudNext]_vars, ~AddItem, ~PowerLoss
    PROVE  \A j \in 1..Len(s_keys') : \E m \in {j, j + 1} :
              /\ m \in 1..Len(s_keys)
              /\ s_keys'[j].key_id = s_keys[m].key_id
              /\ s_keys'[j].pending => s_keys[m].pending
<1> SUFFICES ASSUME NEW j \in 1..Len(s_keys')
             PROVE  \E m \in {j, j + 1} :
                       /\ m \in 1..Len(s_keys)
                       /\ s_keys'[j].key_id = s_keys[m].key_id
                       /\ s_keys'[j].pending => s_keys[m].pending
  OBVIOUS
<1>0. s_keys \in Table /\ Len(s_keys) \in Nat
  BY TableFacts, MaxKeysAssumption DEF TypeInv, TypeOK
<1>1. CASE s_keys' = s_keys
  BY <1>1
<1>2. CASE s_keys' = <<>>
  BY <1>2
<1>3. ASSUME NEW i \in 1..Len(s_keys), s_keys' = ApproveAt(s_keys, i)
      PROVE  \E m \in {j, j + 1} :
                /\ m \in 1..Len(s_keys)
                /\ s_keys'[j].key_id = s_keys[m].key_id
                /\ s_keys'[j].pending => s_keys[m].pending
  BY <1>0, <1>3, ApproveAtTable
<1>4. ASSUME NEW i \in 1..Len(s_keys), s_keys' = DeleteAt(s_keys, i)
      PROVE  \E m \in {j, j + 1} :
                /\ m \in 1..Len(s_keys)
                /\ s_keys'[j].key_id = s_keys[m].key_id
                /\ s_keys'[j].pending => s_keys[m].pending
  <2>1. j \in 1..(Len(s_keys) - 1)
    BY <1>0, <1>4, DeleteAtTable
  <2>2. s_keys'[j] = IF j < i THEN s_keys[j] ELSE s_keys[j + 1]
    BY <1>0, <1>4, <2>1, DeleteAtTable
  <2> QED
    BY <1>0, <2>1, <2>2
<1> QED
  BY <1>1, <1>2, <1>3, <1>4, TableStep

(* A successful addition puts the id behind the others.                    *)
LEMMA Additions ==
    ASSUME TypeInv, AddItem
    PROVE  /\ resp[idx] \in KeyId /\ idx \in 1..Len(resp)
           /\ \/ s_keys' = s_keys
              \/ /\ Len(s_keys') = Len(s_keys) + 1
                 /\ \A j \in 1..Len(s_keys) : s_keys'[j] = s_keys[j]
                 /\ s_keys'[Len(s_keys) + 1].key_id = resp[idx]
                 /\ saving'["cloud"] = "count"
<1>1. idx \in 1..Len(resp)
  BY LenProperties DEF AddItem, TypeInv, PassType
<1>2. resp[idx] \in KeyId
  BY <1>1, ElementOfSeq DEF TypeInv, PassType
<1>3. s_keys \in Table /\ saving \in [Task -> {"no", "count", "set_count", "keys", "set_keys"}]
  BY DEF TypeInv, TypeOK
<1>4. \/ CanAdd(s_keys, resp[idx]) /\ Changed("cloud", AddKey(s_keys, resp[idx]))
      \/ s_keys' = s_keys
  BY DEF AddItem, CallAddKey, Returned
<1>5. CanAdd(s_keys, resp[idx]) =>
         /\ Len(AddKey(s_keys, resp[idx])) = Len(s_keys) + 1
         /\ \A j \in 1..Len(s_keys) : AddKey(s_keys, resp[idx])[j] = s_keys[j]
         /\ AddKey(s_keys, resp[idx])[Len(s_keys) + 1].key_id = resp[idx]
  BY <1>2, <1>3, AddKeyTable DEF CanAdd
<1>6. Changed("cloud", AddKey(s_keys, resp[idx])) => saving'["cloud"] = "count"
  BY <1>3 DEF Changed, Task
<1> QED
  BY <1>1, <1>2, <1>4, <1>5, <1>6 DEF Changed

-----------------------------------------------------------------------------
(* The walk that revokes.                                                  *)

\* What lies behind the walk is listed; while a key is being revoked, the
\* entry under the walk is that key, if it is still there, or a listed one.
Walked ==
    pc \in {"check", "kick", "remove"} =>
       \A j \in 1..Len(s_keys) : j > idx => s_keys[j].key_id \in ServerIds

Revoking ==
    pc \in {"kick", "remove"} =>
       /\ kid \notin ServerIds
       /\ \A j \in 1..Len(s_keys) : j = idx => s_keys[j].key_id \in ServerIds \union {kid}

Done == pc = "poll" => \A j \in 1..Len(s_keys) : s_keys[j].key_id \in ServerIds

WalkInv == Walked /\ Revoking /\ Done

(* The owner and the button only move what is left of the table towards    *)
(* the front, where the walk has still to look.                            *)
LEMMA OthersKeepWalk ==
    ASSUME TypeInv, WalkInv, [CloudNext]_vars, UNCHANGED syncVars, ~AddItem, ~PowerLoss
    PROVE  WalkInv'
<1>1. ServerIds' = ServerIds
  BY DEF ServerIds
<1>2. idx \in Nat
  BY DEF TypeInv, PassType
<1>3. \A j \in 1..Len(s_keys') : \E m \in {j, j + 1} :
         m \in 1..Len(s_keys) /\ s_keys'[j].key_id = s_keys[m].key_id
  BY OnlyLosses
<1>4. Walked'
  BY <1>1, <1>2, <1>3 DEF WalkInv, Walked
<1>5. Revoking'
  <2> SUFFICES ASSUME pc \in {"kick", "remove"}, NEW j \in 1..Len(s_keys'), j = idx
               PROVE  s_keys'[j].key_id \in ServerIds \union {kid}
    BY <1>1 DEF WalkInv, Revoking
  <2>1. PICK m \in {j, j + 1} : m \in 1..Len(s_keys) /\ s_keys'[j].key_id = s_keys[m].key_id
    BY <1>3
  <2>2. m = idx \/ m > idx
    BY <1>2, <2>1
  <2> QED
    BY <2>1, <2>2 DEF WalkInv, Walked, Revoking
<1>6. Done'
  BY <1>1, <1>3 DEF WalkInv, Done
<1> QED
  BY <1>4, <1>5, <1>6 DEF WalkInv

(* After the deletion what lies at the walk's place was behind it before.  *)
LEMMA RemovalKeepsWalk ==
    ASSUME TypeInv, WalkInv, RemoveLocal
    PROVE  WalkInv'
<1>0. /\ s_keys \in Table /\ Len(s_keys) \in Nat /\ idx \in Nat /\ pc = "remove"
      /\ pc' = "check" /\ idx' = idx - 1 /\ ServerIds' = ServerIds /\ kid \notin ServerIds
      /\ \A j \in 1..Len(s_keys) : j > idx => s_keys[j].key_id \in ServerIds
      /\ \A j \in 1..Len(s_keys) : j = idx => s_keys[j].key_id \in ServerIds \union {kid}
  BY TableFacts, MaxKeysAssumption
     DEF RemoveLocal, Goto, TypeInv, TypeOK, PassType, ServerIds, WalkInv, Walked, Revoking
<1>1. SUFFICES ASSUME NEW j \in 1..Len(s_keys'), j > idx - 1
               PROVE  s_keys'[j].key_id \in ServerIds
  BY <1>0 DEF WalkInv, Walked, Revoking, Done
<1>2. ASSUME NEW i \in 1..Len(s_keys), s_keys[i].key_id = kid, s_keys' = DeleteAt(s_keys, i)
      PROVE  s_keys'[j].key_id \in ServerIds
  <2>1. i <= idx
    BY <1>0, <1>2
  <2>2. j \in 1..(Len(s_keys) - 1)
    BY <1>0, <1>1, <1>2, DeleteAtTable
  <2>3. s_keys'[j] = s_keys[j + 1]
    <3>1. ~(j < i) /\ i \in 1..Len(s_keys)
      BY <1>0, <1>1, <2>1, <2>2
    <3>2. DeleteAt(s_keys, i)[j] = IF j < i THEN s_keys[j] ELSE s_keys[j + 1]
      BY <1>0, <2>2, DeleteAtTable
    <3> QED
      BY <1>2, <3>1, <3>2
  <2>4. j + 1 \in 1..Len(s_keys) /\ j + 1 > idx
    BY <1>0, <1>1, <2>2
  <2> QED
    BY <1>0, <2>3, <2>4
<1>3. CASE s_keys' = s_keys /\ kid \notin Ids(s_keys)
  <2>1. j = idx \/ j > idx
    BY <1>0, <1>1
  <2>2. s_keys[j].key_id # kid
    BY <1>3 DEF Ids
  <2> QED
    BY <1>0, <1>1, <1>3, <2>1, <2>2
<1> QED
  BY <1>2, <1>3 DEF RemoveLocal, CallDeleteKey, Changed, Returned, FirstAt

LEMMA WalkKept ==
    ASSUME TypeInv, WalkInv, [CloudNext]_vars
    PROVE  WalkInv'
<1>0. idx \in Nat /\ Len(s_keys) \in Nat
  BY TableFacts, MaxKeysAssumption DEF TypeInv, TypeOK, PassType
<1>1. CASE pc' \in {"boot", "fetch", "reregister", "add", "added"}
  BY <1>1 DEF WalkInv, Walked, Revoking, Done
<1>2. CASE StartRevoking
  BY <1>0, <1>2 DEF StartRevoking, Goto, keystoreVars, WalkInv, Walked, Revoking, Done
<1>3. CASE CheckLocal
  <2>1. pc = "check" /\ UNCHANGED <<s_keys, resp>> /\ ServerIds' = ServerIds
    BY <1>3 DEF CheckLocal, keystoreVars, ServerIds
  <2>2. CASE pc' = "kick"
    BY <1>0, <1>3, <2>1, <2>2 DEF CheckLocal, WalkInv, Walked, Revoking, Done
  <2>3. CASE pc' = "check"
    <3>1. idx' = idx - 1 /\ (idx <= Len(s_keys) => s_keys[idx].key_id \in ServerIds)
      BY <1>3, <2>1, <2>3 DEF CheckLocal, Goto
    <3>2. Walked'
      BY <1>0, <2>1, <3>1 DEF WalkInv, Walked
    <3> QED
      BY <2>3, <3>2 DEF WalkInv, Revoking, Done
  <2> QED
    BY <1>3, <2>1, <2>2, <2>3 DEF CheckLocal, Goto
<1>4. CASE Kick
  BY <1>0, <1>4 DEF Kick, Goto, keystoreVars, ServerIds, WalkInv, Walked, Revoking, Done
<1>5. CASE RemoveLocal
  BY <1>5, RemovalKeepsWalk
<1>6. CASE EndPass
  BY <1>0, <1>6 DEF EndPass, Goto, keystoreVars, ServerIds, WalkInv, Walked, Revoking, Done
<1>7. CASE UNCHANGED syncVars /\ ~AddItem /\ ~PowerLoss
  BY <1>7, OthersKeepWalk
<1>8. CASE FetchFails
  BY <1>8 DEF FetchFails, vars, keystoreVars, ServerIds, WalkInv, Walked, Revoking, Done
<1>9. CASE RegisterSucceeds \/ RegisterFails \/ Fetch \/ AddItem \/ ApproveItem \/ PowerLoss
  BY <1>1, <1>9 DEF RegisterSucceeds, RegisterFails, AfterRegister, Fetch, Received, AddItem,
                    ApproveItem, PowerLoss, Goto
<1> QED
  BY <1>2, <1>3, <1>4, <1>5, <1>6, <1>7, <1>8, <1>9, PassStep DEF CloudStep

LEMMA WalkInvariant == CloudSpec => []WalkInv
<1>1. CloudInit => WalkInv
  BY DEF CloudInit, WalkInv, Walked, Revoking, Done
<1>2. TypeInv /\ WalkInv /\ [CloudNext]_vars => WalkInv'
  BY WalkKept
<1> QED
  BY <1>1, <1>2, TypeInvariant, PTL DEF CloudSpec

(* A pass leaves no key in the table that its response did not list: the   *)
(* backward walk of sync_keys misses none, although deletions by the       *)
(* owner shift the table while it runs.                                    *)
THEOREM PassRevokes == CloudSpec => []PassLeavesOnlyServerKeys
<1>1. WalkInv => PassLeavesOnlyServerKeys
  BY DEF WalkInv, Done, PassLeavesOnlyServerKeys, Ids, ServerIds
<1> QED
  BY <1>1, WalkInvariant, PTL

-----------------------------------------------------------------------------
(* What the server knows of the keys of the vehicle.                       *)

\* Each key of the server was minted, and is in its list once.
ServerInv ==
    /\ \A i \in DOMAIN srv : srv[i].key_id \in minted
    /\ \A i, j \in DOMAIN srv : srv[i].key_id = srv[j].key_id => i = j

\* The server has served id: it got its public key and keeps it as long as
\* it is listed.
Known(id) ==
    /\ id \in minted
    /\ \A i \in DOMAIN srv : srv[i].key_id = id => srv[i].pub

\* Only what was served is in the vehicle.
Past ==
    \A id \in KeyId :
       id \in Ids(s_keys) \union Ids(nvs.keys) \union Range(resp) => Known(id)

\* During a pass, a key of the table that the server still lists is in the
\* response.
PassInv ==
    pc \in {"reregister", "add", "added", "check", "kick", "remove"} =>
       \A i \in DOMAIN srv : srv[i].key_id \in Ids(s_keys) => srv[i].key_id \in Range(resp)

KnowledgeInv == ServerInv /\ Past /\ PassInv

(* The server mints new ids, keeps a public key that it has, and otherwise *)
(* only drops keys.                                                        *)
LEMMA ServerEntries ==
    ASSUME TypeInv, ServerInv, [CloudNext]_vars
    PROVE  /\ ServerInv' /\ minted \subseteq minted'
           /\ \A j \in DOMAIN srv' :
                 \/ srv'[j].key_id \notin minted
                 \/ \E i \in DOMAIN srv : /\ srv'[j].key_id = srv[i].key_id
                                          /\ srv[i].pub => srv'[j].pub
<1> DEFINE Kept == /\ ServerInv' /\ minted \subseteq minted'
                   /\ \A j \in DOMAIN srv' :
                         \/ srv'[j].key_id \notin minted
                         \/ \E i \in DOMAIN srv : /\ srv'[j].key_id = srv[i].key_id
                                                  /\ srv[i].pub => srv'[j].pub
<1>0. PICK n \in Nat : Len(srv) = n /\ DOMAIN srv = 1..n /\ srv \in Seq(ServerKey)
  BY LenProperties DEF TypeInv, ServerType
<1>1. ASSUME NEW id \in KeyId, SrvAddKey(id) PROVE Kept
  <2> DEFINE new == [key_id |-> id, pub |-> FALSE]
  <2>1. srv' = Append(srv, new) /\ minted' = minted \union {id} /\ id \notin minted
    BY <1>1 DEF SrvAddKey
  <2>2. new.key_id = id
    OBVIOUS
  <2> HIDE DEF new
  <2>3. /\ DOMAIN srv' = 1..(n + 1) /\ srv'[n + 1] = new
        /\ \A i \in 1..n : srv'[i] = srv[i]
    BY <1>0, <2>1
  <2>4. \A j \in DOMAIN srv' : j \in 1..n \/ j = n + 1
    BY <2>3
  <2> QED
    BY <1>0, <2>1, <2>2, <2>3, <2>4 DEF ServerInv
<1>2. ASSUME NEW k \in DOMAIN srv, SrvRegisterPubkey(k) PROVE Kept
  <2> DEFINE new == [srv[k] EXCEPT !.pub = TRUE]
  <2>1. srv[k] \in ServerKey
    BY <1>0, ElementOfSeq
  <2>2. new.key_id = srv[k].key_id /\ new.pub /\ srv' = [srv EXCEPT ![k] = new]
        /\ minted' = minted
    BY <1>2, <2>1 DEF ServerKey, SrvRegisterPubkey
  <2> HIDE DEF new
  <2>3. DOMAIN srv' = DOMAIN srv /\ \A j \in DOMAIN srv : srv'[j] = IF j = k THEN new ELSE srv[j]
    BY <2>2
  <2>4. \A j \in DOMAIN srv : srv'[j].key_id = srv[j].key_id /\ (srv[j].pub => srv'[j].pub)
    BY <2>2, <2>3
  <2>5. DOMAIN srv' = DOMAIN srv
    BY <2>2
  <2> QED
    BY <2>2, <2>4, <2>5 DEF ServerInv
<1>3. ASSUME NEW k \in DOMAIN srv, SrvDeleteKey(k) PROVE Kept
  <2> DEFINE was == [j \in 1..(n - 1) |-> IF j < k THEN j ELSE j + 1]
  <2>1. srv' = RemoveAt(srv, k) /\ minted' = minted /\ k \in 1..n
    BY <1>0, <1>3 DEF SrvDeleteKey
  <2>2. /\ DOMAIN srv' = 1..(n - 1)
        /\ \A j \in 1..(n - 1) : srv'[j] = IF j < k THEN srv[j] ELSE srv[j + 1]
    <3>1. /\ srv' \in Seq(ServerKey) /\ Len(srv') = n - 1
          /\ \A j \in 1..(n - 1) : srv'[j] = IF j < k THEN srv[j] ELSE srv[j + 1]
      BY <1>0, <2>1, RemovedAt
    <3> QED
      BY <3>1, LenProperties
  <2>3. \A j \in 1..(n - 1) : was[j] \in 1..n /\ srv'[j] = srv[was[j]]
    BY <2>1, <2>2
  <2>4. \A i, j \in 1..(n - 1) : was[i] = was[j] => i = j
    BY <2>1
  <2> HIDE DEF was
  <2>5. DOMAIN srv' = 1..(n - 1)
    BY <2>2
  <2>6. ServerInv'
    BY <1>0, <2>1, <2>3, <2>4, <2>5 DEF ServerInv
  <2> QED
    BY <1>0, <2>1, <2>3, <2>5, <2>6
<1>4. CASE SrvDeleteVehicle
  BY <1>4 DEF SrvDeleteVehicle, ServerInv
<1>5. CASE UNCHANGED <<srv, minted>>
  BY <1>5 DEF ServerInv
<1>6. CASE SrvAddVehicle \/ SrvCrashInSave \/ RegisterSucceeds \/ UNCHANGED serverVars
  BY <1>5, <1>6 DEF SrvAddVehicle, SrvCrashInSave, RegisterSucceeds
<1> QED
  BY <1>1, <1>2, <1>3, <1>4, <1>6, ServerStep DEF Dealer

(* What was served stays served.                                           *)
LEMMA KnownForever ==
    ASSUME TypeInv, ServerInv, [CloudNext]_vars, NEW id, Known(id)
    PROVE  Known(id)'
BY ServerEntries DEF Known

(* Where the ids of the table and of its stored copy come from.            *)
LEMMA IdsStep ==
    ASSUME TypeInv, [CloudNext]_vars
    PROVE  /\ Ids(s_keys') \subseteq Ids(s_keys) \union Ids(nvs.keys) \union Range(resp)
                                        \union {ZeroId}
           /\ ~PowerLoss => Ids(s_keys') \subseteq Ids(s_keys) \union Range(resp)
           /\ ~PowerLoss /\ ~AddItem => Ids(s_keys') \subseteq Ids(s_keys)
           /\ Ids(nvs'.keys) \subseteq Ids(nvs.keys) \union Ids(s_keys) \union {ZeroId}
<1>1. ~PowerLoss /\ ~AddItem => Ids(s_keys') \subseteq Ids(s_keys)
  BY OnlyLosses DEF Ids
<1>2. AddItem => Ids(s_keys') \subseteq Ids(s_keys) \union Range(resp)
  <2> SUFFICES ASSUME AddItem PROVE Ids(s_keys') \subseteq Ids(s_keys) \union Range(resp)
    OBVIOUS
  <2>1. resp[idx] \in Range(resp)
    BY Additions, LenProperties DEF Range, TypeInv, PassType
  <2>2. Len(s_keys) \in Nat
    BY TableFacts, MaxKeysAssumption DEF TypeInv, TypeOK
  <2> QED
    BY <2>1, <2>2, Additions DEF Ids
<1>3. PowerLoss => Ids(s_keys') \subseteq Ids(nvs.keys) \union {ZeroId}
  <2> SUFFICES ASSUME PowerLoss PROVE Ids(s_keys') \subseteq Ids(nvs.keys) \union {ZeroId}
    OBVIOUS
  <2>0. nvs.count \in 0..DK_MAX_KEYS /\ nvs.keys \in Table /\ Len(nvs.keys) \in Nat
    BY TableFacts, MaxKeysAssumption DEF TypeInv, TypeOK
  <2>1. ASSUME NEW blob \in {nvs.keys, <<>>}
        PROVE  Ids(LoadKeys(nvs.count, blob)) \subseteq Ids(nvs.keys) \union {ZeroId}
    <3>1. blob \in Table /\ Len(blob) \in Nat /\ Ids(blob) \subseteq Ids(nvs.keys)
      BY <2>0, EmptyTable DEF Ids
    <3>2. /\ Len(LoadKeys(nvs.count, blob)) = nvs.count
          /\ \A i \in 1..nvs.count :
               \/ LoadKeys(nvs.count, blob)[i].key_id = ZeroId
               \/ i \in 1..Len(blob) /\ LoadKeys(nvs.count, blob)[i] = blob[i]
      BY <2>0, <3>1, LoadKeysTable DEF ZeroKey
    <3> QED
      BY <3>1, <3>2 DEF Ids
  <2>2. Ids(<<>>) = {}
    BY DEF Ids
  <2> QED
    BY <2>1, <2>2 DEF PowerLoss, Reboot
<1>4. Ids(nvs'.keys) \subseteq Ids(nvs.keys) \union Ids(s_keys) \union {ZeroId}
  <2> DEFINE Goal == \/ nvs'.keys \in {nvs.keys, <<>>}
                     \/ \E n \in 0..DK_MAX_KEYS : nvs'.keys = FirstPlaces(s_keys, n)
  <2>1. Goal
    <3>1. nvs = [count |-> nvs.count, keys |-> nvs.keys] /\ arg \in [Task -> 0..DK_MAX_KEYS]
      BY DEF TypeInv, TypeOK
    <3>2. ASSUME NEW t \in Task, Save(t) PROVE Goal
      <4>1. arg[t] \in 0..DK_MAX_KEYS
        BY <3>1
      <4>2. nvs'.keys \in {nvs.keys, FirstPlaces(s_keys, arg[t])}
        BY <3>1, <3>2
           DEF Save, SaveOpenFails, Evaluate, SaveCount, SaveBlob, NotWritten
      <4> QED
        BY <4>1, <4>2
    <3>3. ASSUME NEW t, NEW id,
                 CallAddKey(t, id) \/ CallApproveKey(t, id) \/ CallDeleteKey(t, id)
          PROVE  Goal
      BY <3>3 DEF CallAddKey, CallApproveKey, CallDeleteKey, Changed, Returned
    <3>4. CASE EraseNvs \/ EraseRam \/ Reboot \/ UNCHANGED keystoreVars
      BY <3>1, <3>4 DEF EraseNvs, EraseRam, Reboot, keystoreVars
    <3> QED
      BY <3>2, <3>3, <3>4, KeystoreStep DEF Next
  <2>2. Ids(<<>>) = {}
    BY DEF Ids
  <2>3. ASSUME NEW n \in 0..DK_MAX_KEYS
        PROVE  Ids(FirstPlaces(s_keys, n)) \subseteq Ids(s_keys) \union {ZeroId}
    <3>1. s_keys \in Table /\ Len(s_keys) \in Nat
      BY TableFacts, MaxKeysAssumption DEF TypeInv, TypeOK
    <3>2. /\ Len(FirstPlaces(s_keys, n)) = n
          /\ \A i \in 1..n :
               \/ FirstPlaces(s_keys, n)[i].key_id = ZeroId
               \/ i \in 1..Len(s_keys) /\ FirstPlaces(s_keys, n)[i] = s_keys[i]
      BY <3>1, FirstPlacesTable DEF ZeroKey
    <3> QED
      BY <3>1, <3>2 DEF Ids
  <2> QED
    BY <2>1, <2>2, <2>3
<1> QED
  BY <1>1, <1>2, <1>3, <1>4

LEMMA PastKept ==
    ASSUME TypeInv, KnowledgeInv, [CloudNext]_vars
    PROVE  Past'
<1> SUFFICES ASSUME NEW id \in KeyId,
                    id \in Ids(s_keys') \union Ids(nvs'.keys) \union Range(resp')
             PROVE  Known(id)'
  BY DEF Past
<1>1. id \in Ids(s_keys) \union Ids(nvs.keys) \union Range(resp) => Known(id)'
  BY KnownForever DEF KnowledgeInv, Past
<1>2. CASE id \in Ids(s_keys') \union Ids(nvs'.keys)
  BY <1>1, <1>2, IdsStep, ZeroIdAssumption
<1>3. CASE id \in Range(resp')
  <2>1. CASE resp' = resp
    BY <1>1, <1>3, <2>1
  <2>2. CASE Fetch
    <3>1. resp' = Served /\ UNCHANGED serverVars
      BY <2>2 DEF Fetch, Received
    <3>2. PICK i \in Ready : id = srv[i].key_id
      BY <1>3, <3>1, ServedIds DEF Range, TypeInv
    <3> QED
      BY <3>1, <3>2 DEF Known, Ready, KnowledgeInv, ServerInv
  <2>3. CASE PowerLoss
    BY <1>3, <2>3 DEF PowerLoss, Range
  <2>4. CASE UNCHANGED syncVars
    BY <2>1, <2>4
  <2>5. CASE RegisterSucceeds \/ RegisterFails \/ FetchFails \/ AddItem \/ ApproveItem
    BY <2>1, <2>5 DEF RegisterSucceeds, RegisterFails, FetchFails, AddItem, ApproveItem, vars
  <2>6. CASE StartRevoking \/ CheckLocal \/ Kick \/ RemoveLocal \/ EndPass
    BY <2>1, <2>6 DEF StartRevoking, CheckLocal, Kick, RemoveLocal, EndPass
  <2> QED
    BY <2>2, <2>3, <2>4, <2>5, <2>6, PassStep DEF CloudStep
<1> QED
  BY <1>2, <1>3

LEMMA PassInvKept ==
    ASSUME TypeInv, KnowledgeInv, [CloudNext]_vars
    PROVE  PassInv'
<1> SUFFICES ASSUME pc' \in {"reregister", "add", "added", "check", "kick", "remove"},
                    NEW j \in DOMAIN srv', srv'[j].key_id \in Ids(s_keys')
             PROVE  srv'[j].key_id \in Range(resp')
  BY DEF PassInv
<1>0. ~PowerLoss
  BY DEF PowerLoss
<1>1. CASE Fetch
  <2>1. resp' = Served /\ UNCHANGED <<srv, s_keys>>
    BY <1>1 DEF Fetch, Received, keystoreVars
  <2>2. srv[j].key_id \in KeyId
    <3>1. srv[j] \in ServerKey
      BY <2>1, LenProperties, ElementOfSeq DEF TypeInv, ServerType
    <3> QED
      BY <3>1 DEF ServerKey
  <2>3. Known(srv[j].key_id)
    BY <2>1, <2>2 DEF KnowledgeInv, Past
  <2>4. j \in Ready
    BY <2>1, <2>3 DEF Known, Ready
  <2> QED
    BY <2>1, <2>4, ServedIds DEF Range, TypeInv
<1>2. CASE ~Fetch
  <2>1. resp' = resp /\ pc \in {"reregister", "add", "added", "check", "kick", "remove"}
    <3>1. CASE UNCHANGED syncVars
      BY <3>1
    <3>2. CASE RegisterSucceeds \/ RegisterFails
      BY <3>2 DEF RegisterSucceeds, RegisterFails, AfterRegister, Goto
    <3>3. CASE FetchFails
      BY <3>3 DEF FetchFails, vars
    <3>4. CASE AddItem \/ ApproveItem \/ StartRevoking \/ CheckLocal
      BY <3>4 DEF AddItem, ApproveItem, StartRevoking, CheckLocal
    <3>5. CASE Kick \/ RemoveLocal \/ EndPass
      BY <3>5 DEF Kick, RemoveLocal, EndPass
    <3> QED
      BY <1>0, <1>2, <3>1, <3>2, <3>3, <3>4, <3>5, PassStep DEF CloudStep
  <2>2. srv'[j].key_id \in Ids(s_keys) \union Range(resp)
    BY <1>0, IdsStep
  <2>3. srv'[j].key_id \in KeyId
    <3>1. srv'[j] \in ServerKey
      BY ServerTypeKept, LenProperties, ElementOfSeq DEF ServerType
    <3> QED
      BY <3>1 DEF ServerKey
  <2>4. srv'[j].key_id \in minted
    BY <2>2, <2>3 DEF KnowledgeInv, Past, Known
  <2>5. \E i \in DOMAIN srv : srv[i].key_id = srv'[j].key_id
    BY <2>4, ServerEntries DEF KnowledgeInv
  <2> QED
    BY <2>1, <2>2, <2>5 DEF KnowledgeInv, PassInv
<1> QED
  BY <1>1, <1>2

LEMMA KnowledgeInvariant == CloudSpec => []KnowledgeInv
<1>1. CloudInit => KnowledgeInv
  BY DEF CloudInit, Init, KnowledgeInv, ServerInv, Past, PassInv, Ids, Range
<1>2. TypeInv /\ KnowledgeInv /\ [CloudNext]_vars => KnowledgeInv'
  BY PastKept, PassInvKept, ServerEntries DEF KnowledgeInv
<1> QED
  BY <1>1, <1>2, TypeInvariant, PTL DEF CloudSpec

(* As long as the response fits the table, the sync deletes only keys that *)
(* the server has withdrawn: what it still serves it served before, so it  *)
(* is in the response, from whenever that is.                              *)
THEOREM RevocationIsJustified == CloudSpec => RevokesOnlyWithdrawn
<1> DEFINE Justified ==
      pc = "remove" /\ pc' = "check" /\ Len(resp) <= DK_MAX_KEYS =>
         (Ids(s_keys) \ Ids(s_keys')) \intersect { Served[i] : i \in DOMAIN Served } = {}
<1>1. TypeInv /\ WalkInv /\ KnowledgeInv /\ [CloudNext]_vars => [Justified]_vars
  <2> SUFFICES ASSUME TypeInv, WalkInv, KnowledgeInv, [CloudNext]_vars,
                      pc = "remove", pc' = "check", Len(resp) <= DK_MAX_KEYS,
                      NEW id \in Ids(s_keys) \ Ids(s_keys'),
                      NEW n \in DOMAIN Served, Served[n] = id
               PROVE  FALSE
    OBVIOUS
  <2>1. RemoveLocal
    BY PassStep DEF CloudStep, RegisterSucceeds, RegisterFails, Fetch, FetchFails, AddItem,
                    ApproveItem, StartRevoking, CheckLocal, Kick, EndPass, PowerLoss, vars
  <2>2. id = kid
    <3>1. s_keys \in Table /\ Len(s_keys) \in Nat
      BY TableFacts, MaxKeysAssumption DEF TypeInv, TypeOK
    <3>2. PICK m \in 1..Len(s_keys) : id = s_keys[m].key_id
      BY DEF Ids
    <3>3. s_keys' # s_keys
      OBVIOUS
    <3>4. PICK i \in 1..Len(s_keys) : s_keys[i].key_id = kid /\ s_keys' = DeleteAt(s_keys, i)
      BY <2>1, <3>3 DEF RemoveLocal, CallDeleteKey, Changed, Returned, FirstAt
    <3>5. /\ Len(s_keys') = Len(s_keys) - 1
          /\ \A j \in 1..(Len(s_keys) - 1) :
                s_keys'[j] = IF j < i THEN s_keys[j] ELSE s_keys[j + 1]
      BY <3>1, <3>4, DeleteAtTable
    <3>6. ASSUME m < i PROVE FALSE
      <4>1. m \in 1..(Len(s_keys) - 1)
        BY <3>1, <3>6
      <4>2. s_keys'[m] = s_keys[m]
        BY <3>5, <3>6, <4>1
      <4> QED
        BY <3>2, <3>5, <4>1, <4>2 DEF Ids
    <3>7. ASSUME m > i PROVE FALSE
      <4>1. m - 1 \in 1..(Len(s_keys) - 1) /\ ~(m - 1 < i) /\ (m - 1) + 1 = m
        BY <3>1, <3>7
      <4>2. s_keys'[m - 1] = s_keys[m]
        BY <3>5, <4>1
      <4> QED
        BY <3>2, <3>5, <4>1, <4>2 DEF Ids
    <3>8. m = i
      BY <3>6, <3>7
    <3> QED
      BY <3>2, <3>4, <3>8
  <2>3. id \in Range(resp)
    <3>1. PICK i \in Ready : srv[i].key_id = id
      BY ServedIds DEF TypeInv
    <3> QED
      BY <3>1 DEF Ready, KnowledgeInv, PassInv
  <2>4. Range(resp) \subseteq ServerIds
    <3>1. DOMAIN resp = 1..Len(resp) /\ Len(resp) \in Nat
      BY LenProperties DEF TypeInv, PassType
    <3>2. \A j \in DOMAIN resp : j <= DK_MAX_KEYS
      BY <3>1, MaxKeysAssumption
    <3> QED
      BY <3>2 DEF Range, ServerIds
  <2> QED
    BY <2>2, <2>3, <2>4 DEF WalkInv, Revoking
<1> QED
  BY <1>1, TypeInvariant, WalkInvariant, KnowledgeInvariant, PTL
     DEF CloudSpec, RevokesOnlyWithdrawn

-----------------------------------------------------------------------------
(* Approval.  A power loss between the two calls for a new key, or a       *)
(* failed save, leaves it pending; nothing else does.                      *)

\* A pending entry is the one that the task has just added.
PendingIsNew ==
    \A j \in 1..Len(s_keys) : s_keys[j].pending => pc = "added" /\ s_keys[j].key_id = resp[idx]

\* The addition of that entry was successful.
AddedOK == pc = "added" /\ saving["cloud"] = "no" => ret["cloud"] = "OK"

ApprovalInv == boots = 0 => PendingIsNew /\ AddedOK

(* The ids stay unique, as in the key store alone.                         *)
LEMMA SyncIdsStayUnique == CloudSpec => []NoDuplicateIds
BY CloudUsesKeystore, IdsStayUnique, PTL

(* The approval finds the new entry.                                       *)
LEMMA ApprovalClearsPending ==
    ASSUME TypeInv, NoDuplicateIds, PendingIsNew, AddedOK, ApproveItem
    PROVE  \A j \in 1..Len(s_keys') : ~s_keys'[j].pending
<1>1. /\ s_keys \in Table /\ pc = "added"
      /\ CallApproveKey("cloud", resp[idx])
  BY DEF TypeInv, TypeOK, ApproveItem, AddedOK
<1>2. resp[idx] \in KeyId
  <2>1. idx \in 1..Len(resp)
    BY <1>1, LenProperties DEF TypeInv, PassType
  <2> QED
    BY <2>1, ElementOfSeq DEF TypeInv, PassType
<1>3. \A i, j \in 1..Len(s_keys) :
         s_keys[i].key_id = resp[idx] /\ s_keys[j].key_id = resp[idx] => i = j
  BY <1>2, ZeroIdAssumption DEF NoDuplicateIds, UniqueIds
<1>4. ASSUME NEW i \in 1..Len(s_keys), s_keys[i].key_id = resp[idx],
             s_keys' = ApproveAt(s_keys, i)
      PROVE  \A j \in 1..Len(s_keys') : ~s_keys'[j].pending
  <2> TAKE j \in 1..Len(s_keys')
  <2>1. j \in 1..Len(s_keys) /\ (s_keys'[j].pending => j # i /\ s_keys[j].pending)
    BY <1>1, <1>4, ApproveAtTable
  <2> QED
    BY <1>3, <1>4, <2>1 DEF PendingIsNew
<1>5. ASSUME NEW i \in 1..Len(s_keys), s_keys[i].key_id = resp[idx],
             ~s_keys[i].pending, s_keys' = s_keys
      PROVE  \A j \in 1..Len(s_keys') : ~s_keys'[j].pending
  BY <1>3, <1>5 DEF PendingIsNew
<1>6. ASSUME resp[idx] \notin Ids(s_keys), s_keys' = s_keys
      PROVE  \A j \in 1..Len(s_keys') : ~s_keys'[j].pending
  BY <1>6 DEF PendingIsNew, Ids
<1> QED
  BY <1>1, <1>4, <1>5, <1>6 DEF CallApproveKey, Changed, Returned, FirstAt

(* Other tasks leave the results of the cloud task's calls alone.          *)
LEMMA CloudReturns ==
    ASSUME TypeInv, [CloudNext]_vars, ~NvsMayFail, AddedOK, pc = "added", pc' = "added"
    PROVE  AddedOK'
<1>0. saving \in [Task -> {"no", "count", "set_count", "keys", "set_keys"}] /\ ret \in [Task -> {"OK", "FAIL"}]
  BY DEF TypeInv, TypeOK
<1>1. ASSUME NEW h \in Handle, NEW id \in KeyId, KeyMgmt(h, id) PROVE AddedOK'
  BY <1>0, <1>1 DEF KeyMgmt, CallApproveKey, CallDeleteKey, Changed, Returned, saveVars, AddedOK, Task
<1>2. ASSUME NEW t \in Task, SaveStep(t) PROVE AddedOK'
  <2>1. CASE SaveCount(t)
    BY <1>0, <2>1 DEF SaveCount, AddedOK
  <2>2. CASE SaveBlob(t)
    BY <1>0, <2>2 DEF SaveBlob, AddedOK
  <2>3. CASE Evaluate(t)
    <3>1. ret' = ret /\ (saving'["cloud"] = "no" => saving["cloud"] = "no")
      BY <1>0, <2>3 DEF Evaluate, Task
    <3> QED
      BY <3>1 DEF AddedOK
  <2> QED
    BY <1>2, <2>1, <2>2, <2>3 DEF SaveStep, Save, SaveOpenFails
<1>3. CASE UNCHANGED keystoreVars \/ EraseNvs \/ EraseRam
  BY <1>3 DEF keystoreVars, saveVars, EraseNvs, EraseRam, AddedOK
<1>4. ASSUME NEW h \in Handle, NEW id \in KeyId, WriteResponse(h, id) PROVE AddedOK'
  BY <1>3, <1>4 DEF WriteResponse
<1>5. ASSUME NEW h \in Handle, Connect(h) \/ Disconnect(h) \/ ReadChallenge(h) PROVE AddedOK'
  BY <1>3, <1>5 DEF Connect, Disconnect, ReadChallenge
<1>6. CASE Dealer \/ Reset \/ FinishVerify \/ UNCHANGED vars
  BY <1>3, <1>6 DEF Dealer, SrvAddKey, SrvRegisterPubkey, SrvDeleteKey, SrvDeleteVehicle,
                    SrvAddVehicle, SrvCrashInSave, Reset, ResetDisconnectAll,
                    ResetEraseNvs, ResetEraseRam, FinishVerify, vars
<1>7. ~CloudStep /\ ~RegisterSucceeds /\ ~PowerLoss
  BY DEF CloudStep, RegisterSucceeds, RegisterFails, Fetch, FetchFails, AddItem, ApproveItem,
         StartRevoking, CheckLocal, Kick, RemoveLocal, EndPass, PowerLoss, Goto
<1> QED
  BY <1>1, <1>2, <1>4, <1>5, <1>6, <1>7 DEF CloudNext, Phone

LEMMA ApprovalKept ==
    ASSUME TypeInv, NoDuplicateIds, ApprovalInv, [CloudNext]_vars, ~NvsMayFail
    PROVE  ApprovalInv'
<1>1. SUFFICES ASSUME boots' = 0 PROVE PendingIsNew' /\ AddedOK'
  BY DEF ApprovalInv
<1>2. boots = 0 /\ ~PowerLoss
  <2>1. boots \in Nat /\ (PowerLoss => boots' = boots + 1)
    BY MaxRebootsAssumption DEF TypeInv, TypeOK, PowerLoss, Reboot
  <2>2. ~PowerLoss
    BY <1>1, <2>1
  <2>3. boots' = boots
    <3>1. ASSUME NEW t, NEW id,
                 CallAddKey(t, id) \/ CallApproveKey(t, id) \/ CallDeleteKey(t, id)
          PROVE  boots' = boots
      BY <3>1 DEF CallAddKey, CallApproveKey, CallDeleteKey, Changed, Returned
    <3>2. CASE UNCHANGED keystoreVars
      BY <3>2 DEF keystoreVars
    <3>3. CASE EraseNvs \/ EraseRam
      BY <3>3 DEF EraseNvs, EraseRam
    <3>4. ASSUME NEW t, Save(t) PROVE boots' = boots
      BY <3>4 DEF Save, SaveOpenFails, Evaluate, SaveCount, SaveBlob
    <3>5. Reboot => boots' = boots + 1
      BY DEF Reboot
    <3>6. ~Reboot
      BY <1>1, <2>1, <3>5
    <3> QED
      BY <3>1, <3>2, <3>3, <3>4, <3>6, KeystoreStep DEF Next
  <2> QED
    BY <1>1, <2>2, <2>3
<1>3. PendingIsNew /\ AddedOK
  BY <1>2 DEF ApprovalInv
<1>4. CASE AddItem
  <2>1. pc = "add" /\ \A j \in 1..Len(s_keys) : ~s_keys[j].pending
    BY <1>3, <1>4 DEF AddItem, PendingIsNew
  <2>2. Len(s_keys) \in Nat
    BY TableFacts, MaxKeysAssumption DEF TypeInv, TypeOK
  <2>3. CASE s_keys' = s_keys
    <3>1. PendingIsNew'
      BY <2>1, <2>3 DEF PendingIsNew
    <3>2. AddedOK'
      BY <1>4 DEF AddItem, Goto, AddedOK
    <3> QED
      BY <3>1, <3>2
  <2>4. CASE /\ Len(s_keys') = Len(s_keys) + 1
             /\ \A j \in 1..Len(s_keys) : s_keys'[j] = s_keys[j]
             /\ s_keys'[Len(s_keys) + 1].key_id = resp[idx]
             /\ saving'["cloud"] = "count"
    <3>1. pc' = "added" /\ idx' = idx /\ resp' = resp
      BY <1>4, <2>4 DEF AddItem, Goto
    <3>2. \A j \in 1..Len(s_keys') : j \in 1..Len(s_keys) \/ j = Len(s_keys) + 1
      BY <2>2, <2>4
    <3>3. PendingIsNew'
      BY <2>1, <2>4, <3>1, <3>2 DEF PendingIsNew
    <3> QED
      BY <2>4, <3>3 DEF AddedOK
  <2> QED
    BY <1>4, <2>3, <2>4, Additions
<1>5. CASE ApproveItem
  BY <1>3, <1>5, ApprovalClearsPending DEF ApproveItem, Goto, PendingIsNew, AddedOK
<1>6. CASE ~AddItem /\ ~ApproveItem
  <2>1. \A j \in 1..Len(s_keys') : s_keys'[j].pending =>
           \E m \in 1..Len(s_keys) :
              s_keys[m].pending /\ s_keys'[j].key_id = s_keys[m].key_id
    BY <1>2, <1>6, OnlyLosses
  <2>2. CASE pc # "added"
    <3>1. pc' # "added"
      BY <1>2, <1>6, <2>2, PassStep
         DEF CloudStep, RegisterSucceeds, RegisterFails, AfterRegister, Fetch, Received,
             FetchFails, StartRevoking, CheckLocal, Kick, RemoveLocal, EndPass, Goto, vars
    <3> QED
      BY <1>3, <2>1, <2>2, <3>1 DEF PendingIsNew, AddedOK
  <2>3. CASE pc = "added"
    <3>1. UNCHANGED syncVars
      BY <1>2, <1>6, <2>3, PassStep
         DEF CloudStep, RegisterSucceeds, RegisterFails, Fetch,
             FetchFails, StartRevoking, CheckLocal, Kick, RemoveLocal, EndPass
    <3>2. AddedOK'
      BY <1>3, <2>3, <3>1, CloudReturns
    <3> QED
      BY <1>3, <2>1, <3>1, <3>2 DEF PendingIsNew
  <2> QED
    BY <2>2, <2>3
<1> QED
  BY <1>4, <1>5, <1>6

(* Before the first power loss, and as long as NVS does not fail, every    *)
(* key is approved when a pass is over: the call that follows the addition *)
(* (dk_cloud.c:213) reaches the entry wherever the owner's deletions have  *)
(* moved it.                                                               *)
THEOREM PassApproves ==
    ASSUME ~NvsMayFail
    PROVE  CloudSpec => [](boots = 0 => PassApprovesKeys)
<1>1. CloudInit => ApprovalInv
  BY DEF CloudInit, Init, ApprovalInv, PendingIsNew, AddedOK
<1>2. TypeInv /\ NoDuplicateIds /\ ApprovalInv /\ [CloudNext]_vars => ApprovalInv'
  BY ApprovalKept
<1>3. ApprovalInv => (boots = 0 => PassApprovesKeys)
  BY DEF ApprovalInv, PendingIsNew, PassApprovesKeys
<1> QED
  BY <1>1, <1>2, <1>3, TypeInvariant, SyncIdsStayUnique, PTL DEF CloudSpec
=============================================================================
