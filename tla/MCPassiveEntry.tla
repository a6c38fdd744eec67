--------------------------- MODULE MCPassiveEntry ---------------------------
(* PassiveEntry on small instances: the thresholds of the firmware and     *)
(* RSSI values next to them.                                               *)
EXTENDS PassiveEntry

MinusFar == -55
MinusImm == -35

NearFar == {-35, -34}
=============================================================================
