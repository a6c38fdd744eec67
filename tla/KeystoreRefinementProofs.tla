---------------------- MODULE KeystoreRefinementProofs ----------------------
(***************************************************************************)
(* The key table with its interleaved saves implements the list of         *)
(* KeyRegistry, for any set of key ids, any table size and any number of   *)
(* power losses, with and without NVS failures.                            *)
(***************************************************************************)
EXTENDS KeystoreRefinement, KeystoreNvsProofs

(* Both modules speak of the same tables.                                  *)
LEMMA SameTables ==
    /\ Registry!Table = Table
    /\ \A keys : Registry!Ids(keys) = Ids(keys)
    /\ \A keys, i : Registry!RemoveAt(keys, i) = DeleteAt(keys, i)
    /\ \A copy, keys : Registry!PartOf(copy, keys) = PartOf(copy, keys)
<1>1. Registry!StoredKey = StoredKey
  BY DEF Registry!StoredKey, StoredKey
<1> QED
  BY <1>1 DEF Registry!Table, Table, Registry!Ids, Ids,
              Registry!RemoveAt, RemoveAt, DeleteAt,
              Registry!PartOf, PartOf, Registry!ZeroKey, ZeroKey

(* The vehicle starts with an empty list and the same copy.                *)
LEMMA InitRefines == Init => Registry!Init
<1>1. LoadKeys(0, <<>>) = <<>>
  BY EmptyTable, LoadKeysExact
<1> QED
  BY <1>1 DEF Init, Registry!Init, Trust, AtRest

(* A change of the table is the change of the list and of nothing else.    *)
LEMMA ChangedRefines ==
    ASSUME TypeOK, NEW t \in Task, NEW keys, Changed(t, keys)
    PROVE  Registry!Changed(keys)
<1>1. saving'[t] = "count"
  BY DEF Changed, TypeOK
<1> QED
  BY <1>1 DEF Changed, Registry!Changed, Trust, AtRest

(* A refused call is invisible.                                            *)
LEMMA ReturnedRefines ==
    ASSUME NEW t \in Task, NEW r, Returned(t, r)
    PROVE  UNCHANGED Registry!registryVars
  BY DEF Returned, Registry!registryVars, saveVars, markVars, Trust, AtRest

(* A step that leaves the table alone and keeps the invariants writes some *)
(* part of the copy, provided that it does not begin and end at rest.      *)
LEMMA StoreRefines ==
    ASSUME TypeOK', SaveInv', UNCHANGED s_keys, Trust = "nothing" \/ Trust' = "nothing"
    PROVE  Registry!Store
<1>1. LoadKeys(nvs'.count, nvs'.keys) \in Table
  BY LoadKeysTable DEF TypeOK
<1>2. Registry!Deserved(Trust', LoadKeys(nvs'.count, nvs'.keys), s_keys)
  BY SameTables DEF Registry!Deserved, Trust, SaveInv, ExactAtRest, DurableAtRest
<1> QED
  BY <1>1, <1>2, SameTables DEF Registry!Store

(* Every step of the key store is a step of the registry or invisible.     *)
LEMMA StepRefines ==
    TypeOK /\ SaveInv /\ TypeOK' /\ SaveInv' /\ [Next]_keystoreVars
       => [Registry!Next]_(Registry!registryVars)
<1> SUFFICES ASSUME TypeOK, SaveInv, TypeOK', SaveInv', [Next]_keystoreVars
             PROVE  Registry!Next \/ UNCHANGED Registry!registryVars
  OBVIOUS
<1>0. s_keys \in Table /\ nvs.keys \in Table /\ nvs.count \in 0..DK_MAX_KEYS
  BY DEF TypeOK
<1>1. ASSUME NEW id \in KeyId, CallAddKey("cloud", id)
      PROVE  Registry!Next \/ UNCHANGED Registry!registryVars
  <2>1. CASE CanAdd(s_keys, id) /\ Changed("cloud", AddKey(s_keys, id))
    <3>1. Registry!Changed(AddKey(s_keys, id))
      BY <2>1, ChangedRefines DEF Task
    <3>2. Registry!Add(id)
      BY <2>1, <3>1, SameTables DEF Registry!Add, CanAdd, AddKey
    <3> QED
      BY <3>2 DEF Registry!Next
  <2>2. CASE Returned("cloud", "FAIL")
    BY <2>2, ReturnedRefines DEF Task
  <2> QED
    BY <1>1, <2>1, <2>2 DEF CallAddKey
<1>2. ASSUME NEW t \in Task, NEW id \in KeyId \union {ZeroId}, CallApproveKey(t, id)
      PROVE  Registry!Next \/ UNCHANGED Registry!registryVars
  <2>1. ASSUME NEW i \in 1..Len(s_keys), FirstAt(s_keys, id, i),
               Changed(t, ApproveAt(s_keys, i))
        PROVE  Registry!Next
    <3>1. Registry!Changed(ApproveAt(s_keys, i))
      BY <2>1, ChangedRefines
    <3>2. Registry!Approve(id)
      BY <2>1, <3>1 DEF Registry!Approve, FirstAt, ApproveAt
    <3> QED
      BY <3>2 DEF Registry!Next
  <2>2. ASSUME NEW r, Returned(t, r) PROVE UNCHANGED Registry!registryVars
    BY <2>2, ReturnedRefines
  <2> QED
    BY <1>2, <2>1, <2>2 DEF CallApproveKey
<1>3. ASSUME NEW t \in Task, NEW id \in KeyId \union {ZeroId}, CallDeleteKey(t, id)
      PROVE  Registry!Next \/ UNCHANGED Registry!registryVars
  <2>1. ASSUME NEW i \in 1..Len(s_keys), FirstAt(s_keys, id, i),
               Changed(t, DeleteAt(s_keys, i))
        PROVE  Registry!Next
    <3>1. Registry!Changed(DeleteAt(s_keys, i))
      BY <2>1, ChangedRefines
    <3>2. Registry!Delete(id)
      BY <2>1, <3>1, SameTables DEF Registry!Delete, FirstAt
    <3> QED
      BY <3>2 DEF Registry!Next
  <2>2. ASSUME NEW r, Returned(t, r) PROVE UNCHANGED Registry!registryVars
    BY <2>2, ReturnedRefines
  <2> QED
    BY <1>3, <2>1, <2>2 DEF CallDeleteKey
<1>4. ASSUME NEW t \in Task, Save(t) PROVE Registry!Next
  <2>1. UNCHANGED s_keys /\ Trust = "nothing"
    BY <1>4 DEF Save, SaveOpenFails, Evaluate, SaveCount, SaveBlob, Trust, AtRest
  <2>2. Registry!Store
    BY <2>1, StoreRefines
  <2> QED
    BY <2>2 DEF Registry!Next
<1>5. CASE EraseNvs
  <2>1. UNCHANGED s_keys /\ Trust' = "nothing"
    BY <1>5 DEF EraseNvs, Trust, AtRest
  <2>2. Registry!Store
    BY <2>1, StoreRefines
  <2> QED
    BY <2>2 DEF Registry!Next
<1>6. CASE EraseRam
  <2>1. Registry!Deserved(Trust', LoadKeys(nvs'.count, nvs'.keys), s_keys')
    BY SameTables DEF Registry!Deserved, Trust, SaveInv, ExactAtRest, DurableAtRest
  <2>2. Registry!Erase
    BY <1>6, <2>1 DEF Registry!Erase, EraseRam, Trust, AtRest
  <2> QED
    BY <2>2 DEF Registry!Next
<1>7. CASE Reboot
  <2>1. CASE s_keys' = LoadKeys(nvs.count, nvs.keys) /\ stale' = {}
    <3>1. Registry!Boot
      BY <1>7, <2>1 DEF Reboot, Registry!Boot, Trust, AtRest
    <3> QED
      BY <3>1 DEF Registry!Next
  <2>2. CASE s_keys' \in {<<>>, LoadKeys(nvs.count, <<>>)} /\ stale' = Item
    <3>1. s_keys' \in Table
      BY DEF TypeOK
    <3>2. Ids(s_keys') \subseteq {ZeroId}
      <4>1. \A i \in 1..Len(s_keys') : s_keys'[i] = ZeroKey
        BY <1>0, <2>2, EmptyTable, LoadKeysTable
      <4> QED
        BY <4>1 DEF Ids, ZeroKey
    <3>3. Trust' = "nothing"
      BY <2>2 DEF Trust, Item
    <3>4. Registry!BlindBoot
      BY <1>7, <3>1, <3>2, <3>3, SameTables DEF Reboot, Registry!BlindBoot
    <3> QED
      BY <3>4 DEF Registry!Next
  <2> QED
    BY <1>7, <2>1, <2>2 DEF Reboot
<1>8. CASE UNCHANGED keystoreVars
  BY <1>8 DEF keystoreVars, saveVars, markVars, Registry!registryVars, Trust, AtRest
<1> QED
  BY <1>1, <1>2, <1>3, <1>4, <1>5, <1>6, <1>7, <1>8 DEF Next, Task

(* The key store behaves like the list that dk_keystore.h describes,       *)
(* whatever the tasks, NVS and the power supply do.                        *)
THEOREM StoreImplementsRegistry == Spec => ImplementsRegistry
<1> QED
  BY InitRefines, StepRefines, TypeCorrect, SavesInvariant, PTL
     DEF Spec, ImplementsRegistry, Registry!Spec
=============================================================================
