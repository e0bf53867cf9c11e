--------------------------- MODULE MC_DeployedList ---------------------------
(* Three deployed replicators, one of which has a configuration that does  *)
(* not parse; up to three fetchList runs (mount and two deletes).          *)
EXTENDS DeployedList

CONSTANTS n1, n2, n3

MCNames == {n1, n2, n3}

MCUnparsable == {n3}

=============================================================================
