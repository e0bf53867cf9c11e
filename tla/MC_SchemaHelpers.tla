--------------------------- MODULE MC_SchemaHelpers ---------------------------
EXTENDS SchemaHelpers

CONSTANTS u, nl, thr

MCNames == {"string", "int", "array", "null", "logical:date"}

MCDisplay ==
    [n \in MCNames \cup {"union"} |-> IF n = "logical:date" THEN "date" ELSE n]

(* Field types: named types, a nullable string, unions with null first or  *)
(* without null, and a three-type union with null last.                    *)
MCFieldTypes ==
    {NamedType(n) : n \in {"string", "array", "logical:date"}}
    \cup {UnionType(<<NamedType(a), NamedType(b)>>) :
            <<a, b>> \in {<<"string", "null">>, <<"array", "null">>,
                          <<"null", "string">>, <<"int", "string">>}}
    \cup {UnionType(<<NamedType("int"), NamedType("string"), NamedType("null")>>)}

MCSchemas ==
    {u, nl}
    \cup {[str |-> t] : t \in {"", "record", "int", "recrd"}}
    \cup {[fields |-> f] : f \in {<<>>} \cup [1..1 -> MCFieldTypes]
                                 \cup [1..2 -> MCFieldTypes]}
=============================================================================
