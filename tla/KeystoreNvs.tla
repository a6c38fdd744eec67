---------------------------- MODULE KeystoreNvs ----------------------------
(***************************************************************************)
(* The key table in RAM, its copy in NVS, and the tasks that change both   *)
(* (firmware/main/dk_keystore.c).  No lock guards the table.  Three tasks  *)
(* of the firmware reach it:                                               *)
(*   "cloud"   the provisioning task adds, approves and deletes            *)
(*             (dk_cloud.c, sync_keys);                                    *)
(*   "nimble"  the BLE host task approves and deletes for the owner        *)
(*             (dk_service.c, key_mgmt_access);                            *)
(*   the timer task erases everything (dk_button.c, factory_reset).        *)
(* A call changes the table and then saves it in two NVS writes, the count *)
(* and the blob of entries.  The arguments of a write, which come from     *)
(* s_key_count, are evaluated before NVS takes its lock: the other task    *)
(* may change the table, and save it, before the write happens.  One       *)
(* change of the table is one step: torn reads of the array by another     *)
(* core are not in this module.                                            *)
(*                                                                         *)
(* NVS itself is external (ESP-IDF): a write of one item is atomic, also   *)
(* under a power loss, copies the entries under the lock, and is in flash  *)
(* when the call returns.                                                  *)
(***************************************************************************)
EXTENDS DkKeystore

CONSTANTS
    NvsMayFail,    \* whether the calls of NVS may fail
    MaxReboots     \* bound on the power losses of a behaviour

ASSUME NvsMayFailAssumption == NvsMayFail \in BOOLEAN
ASSUME MaxRebootsAssumption == MaxReboots \in Nat

VARIABLES
    s_keys,        \* s_keys[0 .. s_key_count - 1]
    nvs,           \* the two items of the namespace "dk_keys"
    saving,        \* per task, where it is in save_keys
    arg,           \* per task, s_key_count as evaluated for the write that is next
    ret,           \* per task, what its last call returned
    erasing,       \* the timer task is between the two halves of EraseAll
    stale,         \* history: items whose last write failed or met a reset
    late,          \* history: items whose last write had an outdated argument
    boots          \* power losses so far

saveVars     == <<saving, arg>>
markVars     == <<stale, late>>
keystoreVars == <<s_keys, nvs, saveVars, ret, erasing, markVars, boots>>

Task == {"cloud", "nimble"}
Item == {"count", "keys"}

Init ==
    /\ s_keys = <<>>
    /\ nvs = [count |-> 0, keys |-> <<>>]
    /\ saving = [t \in Task |-> "no"]
    /\ arg = [t \in Task |-> 0]
    /\ ret = [t \in Task |-> "OK"]
    /\ erasing = FALSE
    /\ stale = {} /\ late = {}
    /\ boots = 0

-----------------------------------------------------------------------------
(* The calls: a change of the table, then save_keys; or a refusal.         *)

Changed(t, keys) ==
    /\ s_keys' = keys
    /\ saving' = [saving EXCEPT ![t] = "count"]
    /\ UNCHANGED <<nvs, arg, ret, erasing, markVars, boots>>

Returned(t, r) ==
    /\ ret' = [ret EXCEPT ![t] = r]
    /\ UNCHANGED <<s_keys, nvs, saveVars, erasing, markVars, boots>>

\* Seeded fault: the call looks for neither a free entry nor a duplicate.
MutAddUnchecked(t, id) ==
    /\ saving[t] = "no"
    /\ Changed(t, AddKey(s_keys, id))

\* Seeded fault: the call looks for a free entry and not for a duplicate.
MutAddDuplicate(t, id) ==
    /\ saving[t] = "no"
    /\ \/ Len(s_keys) < DK_MAX_KEYS /\ Changed(t, AddKey(s_keys, id))
       \/ Len(s_keys) >= DK_MAX_KEYS /\ Returned(t, "FAIL")

CallAddKey(t, id) ==
    /\ saving[t] = "no"
    /\ \/ CanAdd(s_keys, id) /\ Changed(t, AddKey(s_keys, id))
       \/ ~CanAdd(s_keys, id) /\ Returned(t, "FAIL")

CallApproveKey(t, id) ==
    /\ saving[t] = "no"
    /\ \/ \E i \in 1..Len(s_keys) :
            /\ FirstAt(s_keys, id, i)
            /\ \/ s_keys[i].pending /\ Changed(t, ApproveAt(s_keys, i))
               \/ ~s_keys[i].pending /\ Returned(t, "OK")
       \/ id \notin Ids(s_keys) /\ Returned(t, "FAIL")

\* Seeded fault: the entry is removed from the array and nothing is saved.
MutDeleteUnsaved(t, id) ==
    /\ saving[t] = "no"
    /\ \E i \in 1..Len(s_keys) :
         /\ FirstAt(s_keys, id, i)
         /\ s_keys' = DeleteAt(s_keys, i)
         /\ UNCHANGED <<nvs, saveVars, ret, erasing, markVars, boots>>

CallDeleteKey(t, id) ==
    /\ saving[t] = "no"
    /\ \/ \E i \in 1..Len(s_keys) :
            FirstAt(s_keys, id, i) /\ Changed(t, DeleteAt(s_keys, i))
       \/ id \notin Ids(s_keys) /\ Returned(t, "FAIL")

-----------------------------------------------------------------------------
(* save_keys: two writes, each after the evaluation of its argument.  The  *)
(* results of the writes are ignored; only a failed open and the result of *)
(* the commit reach the caller.                                            *)

SaveOpenFails(t) ==
    /\ NvsMayFail
    /\ saving[t] = "count"
    /\ saving' = [saving EXCEPT ![t] = "no"]
    /\ ret' = [ret EXCEPT ![t] = "FAIL"]
    /\ stale' = Item
    /\ UNCHANGED <<s_keys, nvs, arg, erasing, late, boots>>

\* s_key_count, the value of the one write and the length of the other.
Evaluate(t) ==
    /\ \/ saving[t] = "count" /\ saving' = [saving EXCEPT ![t] = "set_count"]
       \/ saving[t] = "keys" /\ saving' = [saving EXCEPT ![t] = "set_keys"]
    /\ arg' = [arg EXCEPT ![t] = Len(s_keys)]
    /\ UNCHANGED <<s_keys, nvs, ret, erasing, markVars, boots>>

\* A write renews its item, unless EraseAll clears the table it is about;
\* its argument is outdated when the table has another length by now.
Written(t, item) ==
    /\ stale' = IF erasing THEN stale \union {item} ELSE stale \ {item}
    /\ late' = IF arg[t] = Len(s_keys) THEN late \ {item} ELSE late \union {item}

NotWritten(item) ==
    NvsMayFail /\ stale' = stale \union {item} /\ UNCHANGED <<nvs, late>>

SaveCount(t) ==
    /\ saving[t] = "set_count"
    /\ saving' = [saving EXCEPT ![t] = "keys"]
    /\ arg' = [arg EXCEPT ![t] = 0]
    /\ \/ nvs' = [nvs EXCEPT !.count = arg[t]] /\ Written(t, "count")
       \/ NotWritten("count")
    /\ UNCHANGED <<s_keys, ret, erasing, boots>>

\* The blob has the evaluated length and what the array holds now.
SaveBlob(t) ==
    /\ saving[t] = "set_keys"
    /\ saving' = [saving EXCEPT ![t] = "no"]
    /\ arg' = [arg EXCEPT ![t] = 0]
    /\ \/ nvs' = [nvs EXCEPT !.keys = FirstPlaces(s_keys, arg[t])] /\ Written(t, "keys")
       \/ NotWritten("keys")
    /\ \E r \in IF NvsMayFail THEN {"OK", "FAIL"} ELSE {"OK"} :
         ret' = [ret EXCEPT ![t] = r]
    /\ UNCHANGED <<s_keys, erasing, boots>>

-----------------------------------------------------------------------------
(* DkKeystore_EraseAll, on the timer task: NVS first, then the array.  A   *)
(* failed nvs_open returns before either and is a stuttering step.  An     *)
(* erasure that fails, or that a power loss cuts short, may have got as    *)
(* far as one item.                                                        *)

EraseNvs ==
    /\ ~erasing
    /\ erasing' = TRUE
    /\ \/ nvs' = [count |-> 0, keys |-> <<>>] /\ stale' = {} /\ late' = {}
       \/ /\ NvsMayFail
          /\ nvs' \in {nvs, [nvs EXCEPT !.count = 0], [nvs EXCEPT !.keys = <<>>]}
          /\ stale' = Item /\ UNCHANGED late
    /\ UNCHANGED <<s_keys, saveVars, ret, boots>>

EraseRam ==
    /\ erasing
    /\ erasing' = FALSE
    /\ s_keys' = <<>>
    /\ UNCHANGED <<nvs, saveVars, ret, markVars, boots>>

(* A power loss, and DkKeystore_Init at the next boot.  When NVS cannot be *)
(* opened or its items cannot be read, the table starts empty or with      *)
(* entries that are all zero; the result of load_keys is ignored.          *)
Reboot ==
    /\ boots < MaxReboots
    /\ boots' = boots + 1
    /\ \/ s_keys' = LoadKeys(nvs.count, nvs.keys) /\ stale' = {}
       \/ /\ NvsMayFail
          /\ s_keys' \in {<<>>, LoadKeys(nvs.count, <<>>)}
          /\ stale' = Item
    /\ saving' = [t \in Task |-> "no"]
    /\ arg' = [t \in Task |-> 0]
    /\ ret' = [t \in Task |-> "OK"]
    /\ erasing' = FALSE
    /\ late' = {}
    /\ UNCHANGED nvs

-----------------------------------------------------------------------------
Save(t) == SaveOpenFails(t) \/ Evaluate(t) \/ SaveCount(t) \/ SaveBlob(t)

Next ==
    \/ \E id \in KeyId : CallAddKey("cloud", id)
    \/ \E t \in Task, id \in KeyId \union {ZeroId} : CallApproveKey(t, id)
    \/ \E t \in Task, id \in KeyId \union {ZeroId} : CallDeleteKey(t, id)
    \/ \E t \in Task : Save(t)
    \/ EraseNvs
    \/ EraseRam
    \/ Reboot

Spec == Init /\ [][Next]_keystoreVars

-----------------------------------------------------------------------------
(* Each variable has its type; the table never outgrows the array.         *)
TypeOK ==
    /\ s_keys \in Table
    /\ nvs.keys \in Table
    /\ nvs.count \in 0..DK_MAX_KEYS
    /\ nvs = [count |-> nvs.count, keys |-> nvs.keys]
    /\ saving \in [Task -> {"no", "count", "set_count", "keys", "set_keys"}]
    /\ arg \in [Task -> 0..DK_MAX_KEYS]
    /\ ret \in [Task -> {"OK", "FAIL"}]
    /\ erasing \in BOOLEAN
    /\ stale \in SUBSET Item /\ late \in SUBSET Item
    /\ boots \in 0..MaxReboots

(* The duplicate check of DkKeystore_AddKey keeps every server-minted id   *)
(* in at most one entry, in RAM and in flash, across reboots, torn saves   *)
(* and factory resets: GetPubkey, ApproveKey and DeleteKey, which stop at  *)
(* the first match, never leave a second copy of a key behind.             *)
NoDuplicateIds == UniqueIds(s_keys) /\ UniqueIds(nvs.keys)

AtRest == ~erasing /\ \A t \in Task : saving[t] = "no"

(* When no call is in progress, a power loss brings no deleted key back    *)
(* and takes no approval back: whatever the boot finds in a place is the   *)
(* entry of the table, however the saves of the tasks interleaved and      *)
(* however old the arguments of their writes were.  It may find less.  The *)
(* exception is a blob whose last write failed or met EraseAll.            *)
DurableAtRest ==
    AtRest /\ "keys" \notin stale => PartOf(LoadKeys(nvs.count, nvs.keys), s_keys)

(* "Erase all keys (factory reset)" (dk_keystore.h:36): once the table is  *)
(* empty and nothing is in progress, the next boot brings back no key.     *)
ErasedForGood ==
    AtRest /\ s_keys = <<>> => Ids(LoadKeys(nvs.count, nvs.keys)) \subseteq {ZeroId}
=============================================================================
