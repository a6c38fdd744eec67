----------------------------- MODULE DkKeystore -----------------------------
(***************************************************************************)
(* The key table of the vehicle (firmware/main/dk_keystore.c), as          *)
(* operators on a table value.                                             *)
(*                                                                         *)
(* The C table is an array of DK_MAX_KEYS entries and a count.  Entries at *)
(* and beyond the count are always zero (Init clears the array, DeleteKey  *)
(* and EraseAll clear what they vacate), so a table is the sequence of its *)
(* first `count' entries.  The public key bytes are not kept: a key id is  *)
(* minted once together with one public key (store.py, update_key_pubkey), *)
(* so the bytes are a function of the id.                                  *)
(***************************************************************************)
EXTENDS Integers, SequencesExt

CONSTANTS
    KeyId,         \* the key ids that the server mints
    ZeroId,        \* the id of an all-zero entry, which no server mints
    DK_MAX_KEYS    \* entries in the array

ASSUME MaxKeysAssumption == DK_MAX_KEYS \in Nat \ {0}
ASSUME ZeroIdAssumption  == ZeroId \notin KeyId

\* dk_stored_key_t without its public key bytes.
StoredKey == [key_id: KeyId \union {ZeroId}, pending: BOOLEAN]

ZeroKey == [key_id |-> ZeroId, pending |-> FALSE]

Table == { keys \in Seq(StoredKey) : Len(keys) <= DK_MAX_KEYS }

Ids(keys) == { keys[i].key_id : i \in 1..Len(keys) }

\* The loops over the table act on the first entry that carries the id.
FirstAt(keys, id, i) ==
    /\ i \in 1..Len(keys)
    /\ keys[i].key_id = id
    /\ \A j \in 1..(i - 1) : keys[j].key_id # id

\* DkKeystore_AddKey: refused when full or a duplicate; the first entry is
\* approved at once, every later one waits for approval.
CanAdd(keys, id) == Len(keys) < DK_MAX_KEYS /\ id \notin Ids(keys)

AddKey(keys, id) == Append(keys, [key_id |-> id, pending |-> keys # <<>>])

\* DkKeystore_ApproveKey and DkKeystore_DeleteKey, on the entry found.
ApproveAt(keys, i) == [keys EXCEPT ![i].pending = FALSE]

DeleteAt(keys, i) == RemoveAt(keys, i)

\* DkKeystore_GetPubkey: pending keys have no usable public key.
HasPubkey(keys, id) ==
    \E i \in 1..Len(keys) : keys[i].key_id = id /\ ~keys[i].pending

\* DkKeystore_IsOwner: the owner is whoever sits in the first entry.
IsOwner(keys, id) ==
    keys # <<>> /\ keys[1].key_id = id /\ ~keys[1].pending

\* What the first n places of the array hold, zero beyond the table.
FirstPlaces(keys, n) == [i \in 1..n |-> IF i <= Len(keys) THEN keys[i] ELSE ZeroKey]

\* load_keys, into an array that DkKeystore_Init has just cleared.  A blob
\* longer than the buffer is refused by NVS and leaves the array zero; a
\* shorter or a missing one fills only the front of it.
LoadKeys(count, blob) ==
    LET n == IF count > DK_MAX_KEYS THEN DK_MAX_KEYS ELSE count
    IN  FirstPlaces(IF Len(blob) <= n THEN blob ELSE <<>>, n)

\* Place by place, the copy has the entry of the table or none.
PartOf(copy, keys) ==
    \A i \in 1..Len(copy) :
       copy[i] = ZeroKey \/ (i <= Len(keys) /\ copy[i] = keys[i])

\* No key id that a server mints sits in two entries.
UniqueIds(keys) ==
    \A i, j \in 1..Len(keys) :
        i # j /\ keys[i].key_id = keys[j].key_id => keys[i].key_id = ZeroId
=============================================================================
