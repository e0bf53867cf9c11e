--------------------------- MODULE MC_TargetConfig ---------------------------
(* Two targets, one with a required property; two selections.              *)
EXTENDS TargetConfig

CONSTANTS tA, tB, p1, p2

MCTargets == {tA, tB}

MCProps == {p1, p2}

MCRequired == [t \in MCTargets |-> IF t = tA THEN {p1} ELSE {}]

=============================================================================
