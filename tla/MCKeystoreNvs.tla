--------------------------- MODULE MCKeystoreNvs ---------------------------
(* KeystoreNvs on small instances.  Key ids are interchangeable.           *)
EXTENDS KeystoreRefinement

KeySymmetry == Permutations(KeyId)
=============================================================================
