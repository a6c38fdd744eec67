------------------------- MODULE KeystoreRefinement -------------------------
(***************************************************************************)
(* The key table and its saves implement KeyRegistry.  The list is the     *)
(* table in RAM and the copy is what load_keys would make of the items in  *)
(* flash.  At rest the copy can be trusted in its entries if the last      *)
(* write of the blob went well, and as a whole if that is so of both items *)
(* and their arguments were up to date.                                    *)
(***************************************************************************)
EXTENDS KeystoreNvs

Trust ==
    IF ~AtRest \/ "keys" \in stale THEN "nothing"
    ELSE IF stale \union late = {} THEN "whole" ELSE "entries"

Registry == INSTANCE KeyRegistry WITH
    table  <- s_keys,
    stored <- LoadKeys(nvs.count, nvs.keys),
    trust  <- Trust

(* Whatever calls, saves, erasures and power losses interleave, the store  *)
(* behaves like the list of dk_keystore.h: only the documented operations  *)
(* change it, no step of a save does, and a boot brings back the copy,     *)
(* which is the list if no write failed, met a reset or was overtaken, and *)
(* part of it if one was overtaken.                                        *)
ImplementsRegistry == Registry!Spec
=============================================================================
