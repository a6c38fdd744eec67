----------------------------- MODULE MCBleLink -----------------------------
(* BleLink on small instances; handles and challenges are model values.    *)
EXTENDS BleLink
=============================================================================
