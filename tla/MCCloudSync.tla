---------------------------- MODULE MCCloudSync ----------------------------
(* CloudSync on small instances.                                           *)
EXTENDS CloudSync

KeySymmetry == Permutations(KeyId)

BudgetOwner == [mgmt |-> 2, resets |-> 0, vehicles |-> 0]
BudgetQuiet == [mgmt |-> 0, resets |-> 0, vehicles |-> 0]
BudgetRepair == [mgmt |-> 0, resets |-> 1, vehicles |-> 1]
=============================================================================
