------------------------- MODULE KeystoreNvsProofs -------------------------
(***************************************************************************)
(* Proofs about the key table and its copy in NVS, for any set of key ids, *)
(* any table size and any number of power losses, with and without NVS     *)
(* failures.                                                               *)
(***************************************************************************)
EXTENDS KeystoreNvs, SequenceTheorems, TLAPS

-----------------------------------------------------------------------------
(* What the operators on a table return.                                   *)

(* A table is a sequence of entries no longer than the array.              *)
LEMMA TableFacts ==
    ASSUME NEW keys \in Table
    PROVE  /\ keys \in Seq(StoredKey)
           /\ Len(keys) \in 0..DK_MAX_KEYS
           /\ \A i \in 1..Len(keys) : keys[i] \in StoredKey
  BY MaxKeysAssumption DEF Table

(* The cleared array is a table.                                           *)
LEMMA EmptyTable == <<>> \in Table /\ Len(<<>>) = 0
  BY MaxKeysAssumption DEF Table

(* The first key goes in approved, a later one pending; both at the end.   *)
LEMMA AddKeyTable ==
    ASSUME NEW keys \in Table, NEW id \in KeyId, Len(keys) < DK_MAX_KEYS
    PROVE  /\ AddKey(keys, id) \in Table
           /\ Len(AddKey(keys, id)) = Len(keys) + 1
           /\ \A i \in 1..Len(keys) : AddKey(keys, id)[i] = keys[i]
           /\ AddKey(keys, id)[Len(keys) + 1].key_id = id
<1> DEFINE new == [key_id |-> id, pending |-> keys # <<>>]
<1>1. new \in StoredKey
  BY DEF StoredKey
<1>2. keys \in Seq(StoredKey)
  BY TableFacts
<1>3. AddKey(keys, id) = Append(keys, new)
  BY DEF AddKey
<1> HIDE DEF new
<1>4. /\ Append(keys, new) \in Seq(StoredKey)
      /\ Len(Append(keys, new)) = Len(keys) + 1
      /\ \A i \in 1..Len(keys) : Append(keys, new)[i] = keys[i]
      /\ Append(keys, new)[Len(keys) + 1] = new
  BY <1>1, <1>2
<1>5. new.key_id = id
  BY DEF new
<1> QED
  BY <1>3, <1>4, <1>5, MaxKeysAssumption, TableFacts DEF Table

(* Approving changes the pending flag of one entry and nothing else.       *)
LEMMA ApproveAtTable ==
    ASSUME NEW keys \in Table, NEW i \in 1..Len(keys)
    PROVE  /\ ApproveAt(keys, i) \in Table
           /\ Len(ApproveAt(keys, i)) = Len(keys)
           /\ \A j \in 1..Len(keys) :
                 /\ ApproveAt(keys, i)[j].key_id = keys[j].key_id
                 /\ ApproveAt(keys, i)[j].pending => j # i /\ keys[j].pending
<1> DEFINE new == [keys[i] EXCEPT !.pending = FALSE]
<1>1. keys \in Seq(StoredKey) /\ keys[i] \in StoredKey
  BY TableFacts
<1>2. new \in StoredKey /\ new.key_id = keys[i].key_id /\ ~new.pending
  BY <1>1 DEF StoredKey
<1>3. ApproveAt(keys, i) = [keys EXCEPT ![i] = new]
  BY DEF ApproveAt
<1> HIDE DEF new
<1>4. /\ [keys EXCEPT ![i] = new] \in Seq(StoredKey)
      /\ Len([keys EXCEPT ![i] = new]) = Len(keys)
      /\ \A j \in 1..Len(keys) :
            [keys EXCEPT ![i] = new][j] = IF j = i THEN new ELSE keys[j]
  BY <1>1, <1>2, ExceptSeq
<1> QED
  BY <1>2, <1>3, <1>4, TableFacts DEF Table

(* Removing an element moves every later one down by one place.            *)
LEMMA RemovedAt ==
    ASSUME NEW S, NEW s \in Seq(S), NEW i \in 1..Len(s)
    PROVE  /\ RemoveAt(s, i) \in Seq(S)
           /\ Len(RemoveAt(s, i)) = Len(s) - 1
           /\ \A j \in 1..(Len(s) - 1) :
                 RemoveAt(s, i)[j] = IF j < i THEN s[j] ELSE s[j + 1]
<1> DEFINE front == SubSeq(s, 1, i - 1)
           back  == SubSeq(s, i + 1, Len(s))
<1>1. /\ s \in Seq(S)
      /\ Len(s) \in Nat
      /\ \A j \in 1..Len(s) : s[j] \in S
  BY LenProperties, ElementOfSeq
<1>2. /\ front \in Seq(S)
      /\ Len(front) = i - 1
      /\ \A j \in 1..(i - 1) : front[j] = s[j]
  <2>1. \A j \in 1..(i - 1) : s[j] \in S
    BY <1>1
  <2>2. 1 \in Int /\ i - 1 \in Int
    OBVIOUS
  <2> QED
    BY <2>1, <2>2, SubSeqProperties
<1>3. /\ back \in Seq(S)
      /\ Len(back) = Len(s) - i
      /\ \A j \in 1..(Len(s) - i) : back[j] = s[i + j]
  <2>1. \A j \in (i + 1)..Len(s) : s[j] \in S
    BY <1>1
  <2>2. i + 1 \in Int /\ Len(s) \in Int
    BY <1>1
  <2>3. /\ back \in Seq(S)
        /\ Len(back) = IF i + 1 <= Len(s) THEN Len(s) - (i + 1) + 1 ELSE 0
        /\ \A j \in 1..(Len(s) - (i + 1) + 1) : back[j] = s[i + 1 + j - 1]
    BY <2>1, <2>2, SubSeqProperties
  <2> HIDE DEF back
  <2> QED
    BY <1>1, <2>3
<1>4. RemoveAt(s, i) = front \o back
  BY DEF RemoveAt
<1> HIDE DEF front, back
<1>5. /\ front \o back \in Seq(S)
      /\ Len(front \o back) = Len(front) + Len(back)
      /\ \A j \in 1..(Len(front) + Len(back)) :
            (front \o back)[j] = IF j <= Len(front) THEN front[j]
                                                    ELSE back[j - Len(front)]
  BY <1>2, <1>3, ConcatProperties
<1>6. \A j \in 1..(Len(s) - 1) :
         (front \o back)[j] = IF j < i THEN s[j] ELSE s[j + 1]
  <2> TAKE j \in 1..(Len(s) - 1)
  <2>1. Len(s) \in Nat /\ j \in Nat /\ i \in Nat /\ j \in 1..(Len(front) + Len(back))
    BY <1>1, <1>2, <1>3
  <2>2. CASE j < i
    BY <1>2, <1>5, <2>1, <2>2
  <2>3. CASE i <= j
    <3>1. (front \o back)[j] = back[j - Len(front)]
      BY <1>2, <1>5, <2>1, <2>3
    <3>2. j - Len(front) \in 1..(Len(s) - i) /\ i + (j - Len(front)) = j + 1
      BY <1>2, <2>1, <2>3
    <3>3. back[j - Len(front)] = s[i + (j - Len(front))]
      BY <1>3, <3>2
    <3> QED
      BY <2>1, <2>3, <3>1, <3>2, <3>3
  <2> QED
    BY <2>1, <2>2, <2>3
<1>7. Len(front \o back) = Len(s) - 1
  BY <1>1, <1>2, <1>3, <1>5
<1> QED
  BY <1>4, <1>5, <1>6, <1>7

(* Deleting an entry moves every later one down by one place.              *)
LEMMA DeleteAtTable ==
    ASSUME NEW keys \in Table, NEW i \in 1..Len(keys)
    PROVE  /\ DeleteAt(keys, i) \in Table
           /\ Len(DeleteAt(keys, i)) = Len(keys) - 1
           /\ \A j \in 1..(Len(keys) - 1) :
                 DeleteAt(keys, i)[j] = IF j < i THEN keys[j] ELSE keys[j + 1]
<1>1. keys \in Seq(StoredKey) /\ Len(keys) \in Nat /\ Len(keys) <= DK_MAX_KEYS
  BY TableFacts, MaxKeysAssumption DEF Table
<1>2. Len(keys) - 1 <= DK_MAX_KEYS
  BY <1>1, MaxKeysAssumption
<1> QED
  BY <1>1, <1>2, RemovedAt DEF DeleteAt, Table

(* The first places of the array are a table of that many entries.         *)
LEMMA FirstPlacesTable ==
    ASSUME NEW keys \in Table, NEW n \in 0..DK_MAX_KEYS
    PROVE  /\ FirstPlaces(keys, n) \in Table
           /\ Len(FirstPlaces(keys, n)) = n
           /\ \A i \in 1..n :
                 FirstPlaces(keys, n)[i] = IF i <= Len(keys) THEN keys[i] ELSE ZeroKey
<1> DEFINE entry(i) == IF i <= Len(keys) THEN keys[i] ELSE ZeroKey
           places   == [i \in 1..n |-> entry(i)]
<1>1. ZeroKey \in StoredKey
  BY DEF ZeroKey, StoredKey
<1>2. \A i \in 1..n : entry(i) \in StoredKey
  BY <1>1, TableFacts
<1>3. FirstPlaces(keys, n) = places
  BY DEF FirstPlaces
<1> HIDE DEF entry
<1>4. places \in Seq(StoredKey) /\ Len(places) = n
  BY <1>2, MaxKeysAssumption
<1>5. \A i \in 1..n : places[i] = entry(i)
  OBVIOUS
<1> HIDE DEF places
<1> QED
  BY <1>3, <1>4, <1>5, MaxKeysAssumption DEF Table, entry

(* As many places as there are entries are the table itself.               *)
LEMMA FirstPlacesExact ==
    ASSUME NEW keys \in Table
    PROVE  FirstPlaces(keys, Len(keys)) = keys
<1>1. /\ FirstPlaces(keys, Len(keys)) \in Seq(StoredKey)
      /\ Len(FirstPlaces(keys, Len(keys))) = Len(keys)
      /\ \A i \in 1..Len(keys) : FirstPlaces(keys, Len(keys))[i] = keys[i]
  BY TableFacts, FirstPlacesTable DEF Table
<1> QED
  BY <1>1, TableFacts, SeqEqual

(* Loading returns as many entries as the stored count says.               *)
LEMMA LoadKeysTable ==
    ASSUME NEW count \in 0..DK_MAX_KEYS, NEW blob \in Table
    PROVE  /\ LoadKeys(count, blob) \in Table
           /\ Len(LoadKeys(count, blob)) = count
           /\ \A i \in 1..count :
                 LoadKeys(count, blob)[i] =
                    IF Len(blob) <= count /\ i <= Len(blob) THEN blob[i] ELSE ZeroKey
<1> DEFINE read == IF Len(blob) <= count THEN blob ELSE <<>>
<1>1. read \in Table
  BY EmptyTable
<1>2. LoadKeys(count, blob) = FirstPlaces(read, count)
  BY MaxKeysAssumption DEF LoadKeys
<1>3. \A i \in 1..count :
         (IF i <= Len(read) THEN read[i] ELSE ZeroKey)
            = IF Len(blob) <= count /\ i <= Len(blob) THEN blob[i] ELSE ZeroKey
  BY EmptyTable
<1> HIDE DEF read
<1> QED
  BY <1>1, <1>2, <1>3, FirstPlacesTable

(* A table saved whole is loaded back unchanged.                           *)
LEMMA LoadKeysExact ==
    ASSUME NEW keys \in Table
    PROVE  LoadKeys(Len(keys), keys) = keys
<1>1. Len(keys) \in 0..DK_MAX_KEYS
  BY TableFacts
<1>2. LoadKeys(Len(keys), keys) = FirstPlaces(keys, Len(keys))
  BY <1>1, MaxKeysAssumption DEF LoadKeys
<1> QED
  BY <1>2, FirstPlacesExact

(* Any length of the table, saved beside any count, loads part of it.      *)
LEMMA LoadKeysPart ==
    ASSUME NEW keys \in Table, NEW n \in 0..DK_MAX_KEYS, NEW count \in 0..DK_MAX_KEYS
    PROVE  PartOf(LoadKeys(count, FirstPlaces(keys, n)), keys)
<1> DEFINE blob == FirstPlaces(keys, n)
<1>1. /\ blob \in Table
      /\ Len(blob) = n
      /\ \A i \in 1..n : blob[i] = IF i <= Len(keys) THEN keys[i] ELSE ZeroKey
  BY FirstPlacesTable
<1> HIDE DEF blob
<1>2. /\ Len(LoadKeys(count, blob)) = count
      /\ \A i \in 1..count :
            LoadKeys(count, blob)[i] =
               IF Len(blob) <= count /\ i <= Len(blob) THEN blob[i] ELSE ZeroKey
  BY <1>1, LoadKeysTable
<1>3. PartOf(LoadKeys(count, blob), keys)
  BY <1>1, <1>2 DEF PartOf
<1> QED
  BY <1>3 DEF blob

(* An empty blob loads part of any table.                                  *)
LEMMA LoadNothingPart ==
    ASSUME NEW keys, NEW count \in 0..DK_MAX_KEYS
    PROVE  PartOf(LoadKeys(count, <<>>), keys)
  BY EmptyTable, LoadKeysTable DEF PartOf
-----------------------------------------------------------------------------
(* What the operators do to the ids of a table.                            *)

(* A key goes in only when its id is in no entry.                          *)
LEMMA AddKeyUnique ==
    ASSUME NEW keys \in Table, NEW id \in KeyId, CanAdd(keys, id), UniqueIds(keys)
    PROVE  UniqueIds(AddKey(keys, id))
<1> DEFINE added == AddKey(keys, id)
           n     == Len(keys)
<1>1. /\ n \in Nat
      /\ Len(added) = n + 1
      /\ \A i \in 1..n : added[i] = keys[i]
      /\ added[n + 1].key_id = id
  BY AddKeyTable, TableFacts DEF CanAdd
<1>2. \A i \in 1..n : keys[i].key_id # id
  BY DEF CanAdd, Ids
<1> SUFFICES ASSUME NEW i \in 1..(n + 1), NEW j \in 1..(n + 1),
                    i # j, added[i].key_id = added[j].key_id
             PROVE  added[i].key_id = ZeroId
  BY <1>1 DEF UniqueIds
<1> HIDE DEF added
<1>3. i \in 1..n /\ j \in 1..n
  BY <1>1, <1>2
<1> QED
  BY <1>1, <1>3 DEF UniqueIds

(* Approving changes no id.                                                *)
LEMMA ApproveAtUnique ==
    ASSUME NEW keys \in Table, NEW i \in 1..Len(keys), UniqueIds(keys)
    PROVE  UniqueIds(ApproveAt(keys, i))
  BY ApproveAtTable DEF UniqueIds

(* Two entries after a deletion were two entries before it.                *)
LEMMA DeleteAtUnique ==
    ASSUME NEW keys \in Table, NEW k \in 1..Len(keys), UniqueIds(keys)
    PROVE  UniqueIds(DeleteAt(keys, k))
<1> DEFINE was  == [i \in 1..(Len(keys) - 1) |-> IF i < k THEN i ELSE i + 1]
           rest == DeleteAt(keys, k)
<1>1. /\ Len(keys) \in Nat
      /\ Len(rest) = Len(keys) - 1
      /\ \A i \in 1..(Len(keys) - 1) : rest[i] = keys[was[i]]
  BY DeleteAtTable, TableFacts
<1>2. \A i, j \in 1..(Len(keys) - 1) :
         was[i] \in 1..Len(keys) /\ (i # j => was[i] # was[j])
  BY <1>1
<1> HIDE DEF was, rest
<1>3. SUFFICES ASSUME NEW i \in 1..(Len(keys) - 1), NEW j \in 1..(Len(keys) - 1),
                      i # j, rest[i].key_id = rest[j].key_id
               PROVE  rest[i].key_id = ZeroId
  BY <1>1 DEF UniqueIds, rest
<1>4. /\ was[i] \in 1..Len(keys) /\ was[j] \in 1..Len(keys) /\ was[i] # was[j]
      /\ rest[i] = keys[was[i]] /\ rest[j] = keys[was[j]]
  BY <1>1, <1>2, <1>3
<1>5. keys[was[i]].key_id = keys[was[j]].key_id => keys[was[i]].key_id = ZeroId
  BY <1>4 DEF UniqueIds
<1> QED
  BY <1>3, <1>4, <1>5

(* The places beyond the table have no id that a server mints.             *)
LEMMA FirstPlacesUnique ==
    ASSUME NEW keys \in Table, NEW n \in 0..DK_MAX_KEYS, UniqueIds(keys)
    PROVE  UniqueIds(FirstPlaces(keys, n))
<1>1. \A i \in 1..n :
         \/ FirstPlaces(keys, n)[i].key_id = ZeroId
         \/ i \in 1..Len(keys) /\ FirstPlaces(keys, n)[i] = keys[i]
  BY FirstPlacesTable, TableFacts DEF ZeroKey
<1>2. Len(FirstPlaces(keys, n)) = n
  BY FirstPlacesTable
<1> QED
  BY <1>1, <1>2 DEF UniqueIds

(* Loading copies the front of a blob, and pads it with zero entries.      *)
LEMMA LoadKeysUnique ==
    ASSUME NEW count \in 0..DK_MAX_KEYS, NEW blob \in Table, UniqueIds(blob)
    PROVE  UniqueIds(LoadKeys(count, blob))
<1>1. \A i \in 1..count :
         \/ LoadKeys(count, blob)[i].key_id = ZeroId
         \/ i \in 1..Len(blob) /\ LoadKeys(count, blob)[i] = blob[i]
  BY LoadKeysTable, TableFacts DEF ZeroKey
<1>2. Len(LoadKeys(count, blob)) = count
  BY LoadKeysTable
<1> QED
  BY <1>1, <1>2 DEF UniqueIds

-----------------------------------------------------------------------------
(* Type correctness.                                                       *)

(* Every step keeps the types.                                             *)
LEMMA TypeInductive == TypeOK /\ [Next]_keystoreVars => TypeOK'
<1> SUFFICES ASSUME TypeOK, [Next]_keystoreVars PROVE TypeOK'
  OBVIOUS
<1> USE DEF TypeOK, saveVars, markVars
<1>1. ASSUME NEW id \in KeyId, CallAddKey("cloud", id) PROVE TypeOK'
  BY <1>1, AddKeyTable DEF CallAddKey, Changed, Returned, CanAdd, Task
<1>2. ASSUME NEW t \in Task, NEW id, CallApproveKey(t, id) PROVE TypeOK'
  <2>1. ASSUME NEW i \in 1..Len(s_keys), Changed(t, ApproveAt(s_keys, i)) PROVE TypeOK'
    BY <2>1, ApproveAtTable DEF Changed
  <2>2. ASSUME NEW r \in {"OK", "FAIL"}, Returned(t, r) PROVE TypeOK'
    BY <2>2 DEF Returned
  <2> QED
    BY <1>2, <2>1, <2>2 DEF CallApproveKey
<1>3. ASSUME NEW t \in Task, NEW id, CallDeleteKey(t, id) PROVE TypeOK'
  BY <1>3, DeleteAtTable DEF CallDeleteKey, Changed, Returned
<1>4. ASSUME NEW t \in Task, SaveOpenFails(t) PROVE TypeOK'
  BY <1>4 DEF SaveOpenFails
<1>5. ASSUME NEW t \in Task, Evaluate(t) \/ SaveCount(t) \/ SaveBlob(t) PROVE TypeOK'
  <2>1. Len(s_keys) \in 0..DK_MAX_KEYS /\ 0 \in 0..DK_MAX_KEYS /\ arg[t] \in 0..DK_MAX_KEYS
    BY TableFacts, MaxKeysAssumption
  <2>2. CASE Evaluate(t)
    BY <2>1, <2>2 DEF Evaluate
  <2>3. CASE SaveCount(t)
    BY <2>1, <2>3 DEF SaveCount, Written, NotWritten, Item
  <2>4. CASE SaveBlob(t)
    <3>1. FirstPlaces(s_keys, arg[t]) \in Table
      BY <2>1, FirstPlacesTable
    <3> QED
      BY <2>1, <2>4, <3>1 DEF SaveBlob, Written, NotWritten, Item
  <2> QED
    BY <1>5, <2>2, <2>3, <2>4
<1>6. CASE EraseNvs
  <2>1. 0 \in 0..DK_MAX_KEYS
    BY MaxKeysAssumption
  <2>2. nvs' \in {nvs, [nvs EXCEPT !.count = 0], [nvs EXCEPT !.keys = <<>>],
                 [count |-> 0, keys |-> <<>>]}
    BY <1>6 DEF EraseNvs
  <2>3. nvs'.count \in 0..DK_MAX_KEYS /\ nvs'.keys \in Table
        /\ nvs' = [count |-> nvs'.count, keys |-> nvs'.keys]
    BY <2>1, <2>2, EmptyTable
  <2> QED
    BY <1>6, <2>3 DEF EraseNvs, Item
<1>7. CASE EraseRam
  BY <1>7, EmptyTable DEF EraseRam
<1>8. CASE Reboot
  <2>1. s_keys' \in Table
    BY <1>8, LoadKeysTable, EmptyTable DEF Reboot
  <2>2. boots' \in 0..MaxReboots
    BY <1>8, MaxRebootsAssumption DEF Reboot
  <2>3. stale' \in SUBSET Item /\ late' \in SUBSET Item
    BY <1>8 DEF Reboot
  <2>4. arg' \in [Task -> 0..DK_MAX_KEYS]
    BY <1>8, MaxKeysAssumption DEF Reboot
  <2> QED
    BY <1>8, <2>1, <2>2, <2>3, <2>4 DEF Reboot
<1>9. CASE UNCHANGED keystoreVars
  BY <1>9 DEF keystoreVars
<1> QED
  BY <1>1, <1>2, <1>3, <1>4, <1>5, <1>6, <1>7, <1>8, <1>9 DEF Next, Save

(* The tables start empty.                                                 *)
LEMMA InitTypeOK == Init => TypeOK
<1> SUFFICES ASSUME Init PROVE TypeOK
  OBVIOUS
<1>1. nvs.keys = <<>> /\ nvs.count = 0
  BY DEF Init
<1>2. 0 \in 0..DK_MAX_KEYS /\ 0 \in 0..MaxReboots
  BY MaxKeysAssumption, MaxRebootsAssumption
<1> QED
  BY EmptyTable, <1>1, <1>2 DEF Init, TypeOK

(* The table, its stored copy and the bookkeeping of every task keep their *)
(* types; in particular the table never outgrows the array of              *)
(* dk_keystore.c.                                                          *)
THEOREM TypeCorrect == Spec => []TypeOK
BY InitTypeOK, TypeInductive, PTL DEF Spec

-----------------------------------------------------------------------------
(* Uniqueness of the ids.                                                  *)

(* Every step keeps the ids unique.                                        *)
LEMMA UniqueInductive == TypeOK /\ NoDuplicateIds /\ [Next]_keystoreVars => NoDuplicateIds'
<1> SUFFICES ASSUME TypeOK, NoDuplicateIds, [Next]_keystoreVars
             PROVE  NoDuplicateIds'
  OBVIOUS
<1>0. s_keys \in Table /\ nvs.keys \in Table /\ nvs.count \in 0..DK_MAX_KEYS
  BY DEF TypeOK
<1> USE DEF NoDuplicateIds, saveVars, markVars
<1>1. ASSUME NEW id \in KeyId, CallAddKey("cloud", id) PROVE NoDuplicateIds'
  BY <1>0, <1>1, AddKeyUnique DEF CallAddKey, Changed, Returned
<1>2. ASSUME NEW t \in Task, NEW id, CallApproveKey(t, id) PROVE NoDuplicateIds'
  BY <1>0, <1>2, ApproveAtUnique DEF CallApproveKey, Changed, Returned
<1>3. ASSUME NEW t \in Task, NEW id, CallDeleteKey(t, id) PROVE NoDuplicateIds'
  BY <1>0, <1>3, DeleteAtUnique DEF CallDeleteKey, Changed, Returned
<1>4. ASSUME NEW t \in Task, Save(t) PROVE NoDuplicateIds'
  <2>1. UniqueIds(FirstPlaces(s_keys, arg[t]))
    BY <1>0, FirstPlacesUnique DEF TypeOK
  <2>2. s_keys' = s_keys /\ nvs'.keys \in {nvs.keys, FirstPlaces(s_keys, arg[t])}
    BY <1>4 DEF Save, SaveOpenFails, Evaluate, SaveCount, SaveBlob, NotWritten, TypeOK
  <2> QED
    BY <2>1, <2>2
<1>5. UniqueIds(<<>>)
  BY DEF UniqueIds
<1>6. CASE EraseNvs
  BY <1>5, <1>6 DEF EraseNvs, TypeOK
<1>7. CASE EraseRam
  BY <1>5, <1>7 DEF EraseRam
<1>8. CASE Reboot
  BY <1>0, <1>5, <1>8, EmptyTable, LoadKeysUnique DEF Reboot
<1>9. CASE UNCHANGED keystoreVars
  BY <1>9 DEF keystoreVars
<1> QED
  BY <1>1, <1>2, <1>3, <1>4, <1>6, <1>7, <1>8, <1>9 DEF Next

(* No server-minted id is ever in two entries of the table or of its       *)
(* stored copy: the duplicate check of DkKeystore_AddKey is enough, also   *)
(* across reboots into a torn save.                                        *)
THEOREM IdsStayUnique == Spec => []NoDuplicateIds
<1>1. Init => NoDuplicateIds
  BY DEF Init, NoDuplicateIds, UniqueIds
<1> QED
  BY <1>1, UniqueInductive, TypeCorrect, PTL DEF Spec
-----------------------------------------------------------------------------
(* Durability.  At rest the copy is the table if no item is marked, and    *)
(* part of it if the blob is not stale.  To hold when a save comes to rest *)
(* this needs the count, which is right as soon as no task is before or in *)
(* its first write; and after the first half of EraseAll, that flash is    *)
(* empty but for the stale items.                                          *)

CountSaved ==
    (/\ ~erasing /\ "count" \notin stale \union late
     /\ \A t \in Task : saving[t] \notin {"count", "set_count"})
       => nvs.count = Len(s_keys)

ExactAtRest ==
    AtRest /\ stale \union late = {} => LoadKeys(nvs.count, nvs.keys) = s_keys

NvsErased ==
    erasing => /\ "count" \notin stale => nvs.count = 0
               /\ "keys" \notin stale => nvs.keys = <<>>

SaveInv == CountSaved /\ ExactAtRest /\ DurableAtRest /\ NvsErased

(* The strengthened invariant is inductive.                                *)
LEMMA SavesInvariant == Spec => []SaveInv
<1> USE DEF saveVars, markVars
<1>1. Init => SaveInv
  <2> SUFFICES ASSUME Init PROVE SaveInv
    OBVIOUS
  <2>1. LoadKeys(0, <<>>) = <<>>
    BY EmptyTable, LoadKeysExact
  <2> QED
    BY <2>1, EmptyTable
       DEF Init, SaveInv, CountSaved, ExactAtRest, DurableAtRest, PartOf, NvsErased
<1>2. TypeOK /\ SaveInv /\ [Next]_keystoreVars => SaveInv'
  <2> SUFFICES ASSUME TypeOK, SaveInv, [Next]_keystoreVars PROVE SaveInv'
    OBVIOUS
  <2>0. /\ s_keys \in Table /\ nvs.keys \in Table /\ nvs.count \in 0..DK_MAX_KEYS
        /\ nvs = [count |-> nvs.count, keys |-> nvs.keys]
        /\ saving \in [Task -> {"no", "count", "set_count", "keys", "set_keys"}]
        /\ arg \in [Task -> 0..DK_MAX_KEYS]
    BY DEF TypeOK
  <2>1. ASSUME NEW t \in Task, NEW keys, Changed(t, keys) PROVE SaveInv'
    <3>1. saving'[t] = "count"
      BY <2>0, <2>1 DEF Changed
    <3> QED
      BY <2>1, <3>1
         DEF Changed, SaveInv, CountSaved, ExactAtRest, DurableAtRest, AtRest, NvsErased
  <2>2. ASSUME NEW t \in Task, NEW r, Returned(t, r) PROVE SaveInv'
    BY <2>2
       DEF Returned, SaveInv, CountSaved, ExactAtRest, DurableAtRest, AtRest, NvsErased
  <2>3. ASSUME NEW t \in Task, SaveOpenFails(t) PROVE SaveInv'
    BY <2>3
       DEF SaveOpenFails, Item, SaveInv, CountSaved, ExactAtRest, DurableAtRest, NvsErased
  <2>4. ASSUME NEW t \in Task, Evaluate(t) PROVE SaveInv'
    <3>1. saving'[t] \in {"set_count", "set_keys"}
      BY <2>0, <2>4 DEF Evaluate
    <3>2. ExactAtRest' /\ DurableAtRest'
      BY <3>1 DEF ExactAtRest, DurableAtRest, AtRest
    <3>3. (\A u \in Task : saving'[u] \notin {"count", "set_count"})
             => \A u \in Task : saving[u] \notin {"count", "set_count"}
      BY <2>0, <2>4 DEF Evaluate
    <3>4. CountSaved' /\ NvsErased'
      BY <2>4, <3>3 DEF Evaluate, SaveInv, CountSaved, NvsErased
    <3> QED
      BY <3>2, <3>4 DEF SaveInv
  <2>5. ASSUME NEW t \in Task, SaveCount(t) PROVE SaveInv'
    <3>1. saving'[t] = "keys"
      BY <2>0, <2>5 DEF SaveCount
    <3>2. ExactAtRest' /\ DurableAtRest'
      BY <3>1 DEF ExactAtRest, DurableAtRest, AtRest
    <3>3. CountSaved'
      BY <2>0, <2>5 DEF SaveCount, Written, NotWritten, CountSaved
    <3>4. NvsErased'
      BY <2>0, <2>5 DEF SaveCount, Written, NotWritten, SaveInv, NvsErased
    <3> QED
      BY <3>2, <3>3, <3>4 DEF SaveInv
  <2>6. ASSUME NEW t \in Task, SaveBlob(t) PROVE SaveInv'
    <3>1. CountSaved'
      <4>1. (\A u \in Task : saving'[u] \notin {"count", "set_count"})
               => \A u \in Task : saving[u] \notin {"count", "set_count"}
        BY <2>0, <2>6 DEF SaveBlob
      <4>2. /\ nvs'.count = nvs.count
            /\ "count" \in stale => "count" \in stale'
            /\ "count" \in late => "count" \in late'
        BY <2>0, <2>6 DEF SaveBlob, Written, NotWritten
      <4> QED
        BY <2>6, <4>1, <4>2 DEF SaveBlob, SaveInv, CountSaved
    <3>2. NvsErased'
      BY <2>0, <2>6 DEF SaveBlob, Written, NotWritten, SaveInv, NvsErased
    <3>3. "keys" \notin stale' => nvs'.keys = FirstPlaces(s_keys, arg[t])
      BY <2>0, <2>6 DEF SaveBlob, NotWritten
    <3>4. UNCHANGED s_keys /\ nvs'.count \in 0..DK_MAX_KEYS /\ arg[t] \in 0..DK_MAX_KEYS
      BY <2>0, <2>6 DEF SaveBlob, NotWritten
    <3>5. DurableAtRest'
      BY <2>0, <3>3, <3>4, LoadKeysPart DEF DurableAtRest
    <3>6. ExactAtRest'
      <4> SUFFICES ASSUME AtRest', stale' \union late' = {}
                   PROVE  LoadKeys(nvs'.count, nvs'.keys) = s_keys'
        BY DEF ExactAtRest
      <4>1. arg[t] = Len(s_keys)
        BY <2>6 DEF SaveBlob, Written, NotWritten
      <4>2. nvs'.keys = s_keys'
        BY <2>0, <3>3, <3>4, <4>1, FirstPlacesExact
      <4>3. nvs'.count = Len(s_keys')
        BY <3>1 DEF CountSaved, AtRest
      <4> QED
        BY <2>0, <3>4, <4>2, <4>3, LoadKeysExact
    <3> QED
      BY <3>1, <3>2, <3>5, <3>6 DEF SaveInv
  <2>7. CASE EraseNvs
    BY <2>0, <2>7 DEF EraseNvs, Item, SaveInv, CountSaved, ExactAtRest, DurableAtRest,
                      AtRest, NvsErased
  <2>8. CASE EraseRam
    <3>1. LoadKeys(0, <<>>) = <<>>
      BY EmptyTable, LoadKeysExact
    <3>2. /\ "count" \notin stale => nvs.count = 0
          /\ "keys" \notin stale => nvs.keys = <<>>
      BY <2>8 DEF EraseRam, SaveInv, NvsErased
    <3>3. /\ s_keys' = <<>> /\ Len(s_keys') = 0
          /\ UNCHANGED <<nvs, stale, late>> /\ ~erasing'
      BY <2>8, EmptyTable DEF EraseRam
    <3>4. DurableAtRest'
      BY <2>0, <3>2, <3>3, LoadNothingPart DEF DurableAtRest
    <3> QED
      BY <3>1, <3>2, <3>3, <3>4 DEF SaveInv, CountSaved, ExactAtRest, NvsErased
  <2>9. CASE Reboot
    <3>1. UNCHANGED nvs /\ ~erasing'
      BY <2>9 DEF Reboot
    <3>2. CASE s_keys' = LoadKeys(nvs.count, nvs.keys) /\ stale' = {}
      <4>1. nvs'.count = Len(s_keys')
        BY <2>0, <3>1, <3>2, LoadKeysTable
      <4>2. PartOf(LoadKeys(nvs'.count, nvs'.keys), s_keys')
        BY <2>0, <3>1, <3>2, LoadKeysTable DEF PartOf
      <4> QED
        BY <3>1, <3>2, <4>1, <4>2
           DEF SaveInv, CountSaved, ExactAtRest, DurableAtRest, NvsErased
    <3>3. CASE stale' = Item
      BY <3>1, <3>3
         DEF Item, SaveInv, CountSaved, ExactAtRest, DurableAtRest, NvsErased
    <3> QED
      BY <2>9, <3>2, <3>3 DEF Reboot
  <2>10. CASE UNCHANGED keystoreVars
    BY <2>10 DEF keystoreVars, SaveInv, CountSaved, ExactAtRest, DurableAtRest, AtRest,
                 NvsErased
  <2>11. ASSUME NEW t \in Task, NEW id,
                CallAddKey(t, id) \/ CallApproveKey(t, id) \/ CallDeleteKey(t, id)
         PROVE  SaveInv'
    BY <2>1, <2>2, <2>11 DEF CallAddKey, CallApproveKey, CallDeleteKey
  <2> QED
    BY <2>3, <2>4, <2>5, <2>6, <2>7, <2>8, <2>9, <2>10, <2>11 DEF Next, Save, Task
<1> QED
  BY <1>1, <1>2, TypeCorrect, PTL DEF Spec

(* At rest, a boot would find part of the table and nothing else, unless   *)
(* the last write of the blob failed or met EraseAll: however the saves of *)
(* the two tasks interleave and however old the arguments of their writes  *)
(* are, no deleted key comes back and no approval is taken back.           *)
THEOREM SavesAreDurable == Spec => []DurableAtRest
<1>1. SaveInv => DurableAtRest
  BY DEF SaveInv
<1> QED
  BY <1>1, SavesInvariant, PTL
=============================================================================
