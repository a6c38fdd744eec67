---------------------------- MODULE KeyRegistry ----------------------------
(***************************************************************************)
(* What the key store of the vehicle promises to its callers               *)
(* (firmware/main/dk_keystore.h), without tasks, calls or NVS items: a     *)
(* list of keys that only the documented operations and the boot change,   *)
(* and a copy of it that a boot brings back.  The copy is trusted as a     *)
(* whole when it is the list, in its entries when it may have lost some,   *)
(* and in nothing while it is written or after a failure.                  *)
(***************************************************************************)
EXTENDS DkKeystore

VARIABLES
    table,         \* the keys, the owner first
    stored,        \* the keys that the next boot brings back
    trust          \* "whole", "entries" or "nothing"

registryVars == <<table, stored, trust>>

\* What trust t in the copy means.
Deserved(t, copy, keys) ==
    \/ t = "whole" /\ copy = keys
    \/ t = "entries" /\ PartOf(copy, keys)
    \/ t = "nothing"

Init == table = <<>> /\ stored = <<>> /\ trust = "whole"

Changed(keys) == table' = keys /\ trust' = "nothing" /\ UNCHANGED stored

Add(id) ==
    /\ Len(table) < DK_MAX_KEYS /\ id \notin Ids(table)
    /\ Changed(Append(table, [key_id |-> id, pending |-> table # <<>>]))

Approve(id) ==
    \E i \in 1..Len(table) :
       table[i].key_id = id /\ Changed([table EXCEPT ![i].pending = FALSE])

Delete(id) ==
    \E i \in 1..Len(table) :
       table[i].key_id = id /\ Changed(RemoveAt(table, i))

\* The copy is written in parts: in between it holds anything, and it is
\* trusted again only as far as it deserves it.
Store ==
    /\ stored' \in Table
    /\ trust = "nothing" \/ trust' = "nothing"
    /\ Deserved(trust', stored', table)
    /\ UNCHANGED table

\* The erasure of the list, after that of the copy.
Erase ==
    /\ trust = "nothing"
    /\ table' = <<>>
    /\ Deserved(trust', stored, <<>>)
    /\ UNCHANGED stored

Boot == table' = stored /\ trust' = "whole" /\ UNCHANGED stored

\* A boot that cannot read the copy: no keys, or entries without content.
BlindBoot ==
    /\ table' \in Table
    /\ Ids(table') \subseteq {ZeroId}
    /\ trust' = "nothing"
    /\ UNCHANGED stored

Next ==
    \/ \E id \in KeyId : Add(id)
    \/ \E id \in KeyId \union {ZeroId} : Approve(id) \/ Delete(id)
    \/ Store \/ Erase \/ Boot \/ BlindBoot

Spec == Init /\ [][Next]_registryVars
=============================================================================
