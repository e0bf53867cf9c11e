------------------------- MODULE MC_ConfigurableTab -------------------------
(* Instances of ConfigurableTab for TLC: six tabs; a configuration with    *)
(* leaf tabs and a tab group, the same tabs regrouped twice, and a         *)
(* configuration that drops all tabs but one.                              *)
EXTENDS ConfigurableTab

CONSTANTS t1, t2, t3, t4, t5, t6

MCIds == {t1, t2, t3, t4, t5, t6}

Leaf(i) == [type |-> "tab", ids |-> {i}]

Group(S) == [type |-> "tab-group", ids |-> S]

(* t1, the group {t2, t3}, t4, t5 and t6; default t1. *)
MCConfigA ==
    [tabs |-> {Leaf(t1), Group({t2, t3}), Leaf(t4), Leaf(t5), Leaf(t6)},
     defaultTab |-> t1]

(* The same tabs regrouped: {t1, t2}, t3, {t4, t5, t6}; default t4. *)
MCConfigB ==
    [tabs |-> {Group({t1, t2}), Leaf(t3), Group({t4, t5, t6})}, defaultTab |-> t4]

(* The same tabs regrouped: {t1, t6}, {t2, t3, t4}, t5; default t5. *)
MCConfigD ==
    [tabs |-> {Group({t1, t6}), Group({t2, t3, t4}), Leaf(t5)}, defaultTab |-> t5]

(* Tab t2 alone. *)
MCConfigC == [tabs |-> {Leaf(t2)}, defaultTab |-> t2]

MCConfigsSameTabs == {MCConfigA, MCConfigB, MCConfigD}

MCConfigsDropTabs == {MCConfigA, MCConfigC}

MCConfigsAll == {MCConfigA, MCConfigB, MCConfigC, MCConfigD}

MCNoFalsy == {}

(* t1 stands for the tab id 0. *)
MCZeroId == {t1}
=============================================================================
