----------------------------- MODULE MC_Mappings -----------------------------
(* Up to three columns with distinct names and any support value, an       *)
(* unknown one included.                                                   *)
EXTENDS Mappings

CONSTANTS c1, c2, c3

MCNames == {c1, c2, c3}

MCSupports == {"no", "partial", "yes", "unknown"}

MCResponses ==
    {s \in UNION {[1..n -> [name : MCNames, support : MCSupports]] : n \in 0..3} :
        \A i, j \in DOMAIN s : i # j => s[i].name # s[j].name}

=============================================================================
