--------------------------- MODULE MC_TablesList ---------------------------
(* An instance of TablesList for TLC: two offset paths, table names over   *)
(* a, b and A, and searches that differ from the names by case.            *)
EXTENDS TablesList

CONSTANTS p1, p2

MCPaths == {p1, p2}

MCChars == {"a", "b", "A"}

MCLowerCase == [c \in MCChars |-> IF c = "A" THEN "a" ELSE c]

(* Table names "Ab", "ba" and "a". *)
NameAb == <<"A", "b">>
NameBa == <<"b", "a">>
NameA == <<"a">>

MCTablesValues == {<<NameAb, NameBa>>, <<NameBa, NameA>>}

(* "", "a" and "aB". *)
MCSearches == {<<>>, <<"a">>, <<"a", "b">>}

(* The filter returns sequences of table names on this instance.           *)
ASSUME FilterTypedOnInstance == FilterTyped
=============================================================================
