---------------------------- MODULE SchemaHelpers ----------------------------
(***************************************************************************)
(* The schema flattening helpers of                                        *)
(* components/SchemaEditor/SchemaHelpers.js: getParsedSchema, its copy     *)
(* getParsedSchemaForDataPrep, parseType and checkComplexType.             *)
(*                                                                         *)
(* A schema argument is undefined, null, a string, or a record schema      *)
(* given by its field types.  A field type is a named type or a wrapped    *)
(* union of named types.  The Avro wrapper is outside this repository:     *)
(* parse is modelled by its outcome (a string parses when it names a       *)
(* type) and getDisplayType by the constant Display.  Generated ids are    *)
(* left out.  A call is one step; the state is the last call and its       *)
(* result.                                                                 *)
(***************************************************************************)
EXTENDS Naturals, Sequences, TLC

CONSTANTS
    Names,      \* getTypeName of the non-union types
    Display,    \* cdapavsc.getDisplayType on a type name, or on "union"
    Schemas,    \* the schema arguments the callers pass
    Undefined,  \* undefined
    Null,       \* null
    Throws      \* the call throws

ASSUME SchemaHelpersAssumption ==
    /\ "null" \in Names
    /\ Display \in [Names \cup {"union"} -> STRING]
    /\ Undefined \in Schemas

(* A named type, and a wrapped union of types.                             *)
NamedType(n) == [union |-> FALSE, name |-> n]

UnionType(bs) == [union |-> TRUE, branches |-> bs]

(* A schema given as a string, and a record schema.                        *)
IsString(s) == s \notin {Undefined, Null} /\ DOMAIN s = {"str"}

IsRecord(s) == s \notin {Undefined, Null} /\ DOMAIN s = {"fields"}

(* defaultSchema (lines 91-102, 142-153), without its id.                  *)
DefaultField ==
    [name |-> "", type |-> "string", displayType |-> "string",
     nullable |-> FALSE, nested |-> FALSE]

VARIABLES
    caller,  \* the helper last called: "parsed", "dataprep" or "none"
    input,   \* its argument
    result   \* what it returned, or Throws

vars == <<caller, input, result>>

TypeOK ==
    /\ caller \in {"parsed", "dataprep", "none"}
    /\ input \in Schemas

(* checkComplexType (lines 187-190).                                       *)
CheckComplexType(displayType) ==
    displayType \in {"array", "enum", "map", "record", "union"}

(* Mutant: the nullable path does not replace storedType.                  *)
ParseTypeKeepsUnion(t) ==
    LET nullable == t.union /\ Len(t.branches) >= 2
                     /\ t.branches[2] = NamedType("null")
        d == IF nullable THEN Display[t.branches[1].name]
             ELSE IF t.union THEN Display["union"]
             ELSE Display[t.name]
    IN  [displayType |-> d, type |-> t, nullable |-> nullable,
         nested |-> CheckComplexType(d)]

(* parseType on a parsed field type (lines 54-89): a wrapped union whose   *)
(* second type is null stands for its first type, nullable; any other      *)
(* union is shown as "union"; a named type by its name.                    *)
ParseType(t) ==
    LET nullable == t.union /\ Len(t.branches) >= 2
                     /\ t.branches[2] = NamedType("null")
        stored == IF nullable THEN t.branches[1] ELSE t
        d == IF nullable THEN Display[t.branches[1].name]
             ELSE IF t.union THEN Display["union"]
             ELSE Display[t.name]
    IN  [displayType |-> d, type |-> stored, nullable |-> nullable,
         nested |-> CheckComplexType(d)]

(* Object.assign({}, partialObj, {name}) (lines 126-133), without the id.  *)
WithName(p, n) == [f \in DOMAIN p \cup {"name"} |-> IF f = "name" THEN n ELSE p[f]]

(* getFields().map (lines 121-134): each field parsed, with its name.      *)
ParseFields(s) ==
    [i \in DOMAIN s.fields |-> WithName(ParseType(s.fields[i]), i)]

(* What both copies do with a schema that is not empty and not "record"    *)
(* once parse has succeeded: a string names a non-record type, and         *)
(* getFields of it is not a function (lines 121, 168).                     *)
FieldsOf(s) == IF IsString(s) THEN Throws ELSE ParseFields(s)

(* The guard of both copies (lines 103-111, 154-162): isEmptySchema reads  *)
(* schema.fields of a falsy schema, which throws for undefined and null;   *)
(* "" and "record" give the default field.                                 *)
IsFalsy(s) == s \in {Undefined, Null}

IsDefault(s) == IsString(s) /\ s.str \in {"", "record"}

(* Mutant: the copy for data prep lacks the `schema === 'record'` test.    *)
GetParsedSchemaForDataPrepNoRecordTest(s) ==
    CASE IsFalsy(s) -> Throws
      [] IsString(s) /\ s.str = "" -> DefaultField
      [] IsString(s) /\ s.str # "" /\ s.str \notin Names -> Throws
      [] OTHER -> FieldsOf(s)

(* getParsedSchema (lines 90-137): a parse error returns undefined.        *)
GetParsedSchema(s) ==
    CASE IsFalsy(s) -> Throws
      [] IsDefault(s) -> DefaultField
      [] IsString(s) /\ ~IsDefault(s) /\ s.str \notin Names -> Undefined
      [] OTHER -> FieldsOf(s)

(* getParsedSchemaForDataPrep (lines 141-185): a parse error is thrown.    *)
GetParsedSchemaForDataPrep(s) ==
    CASE IsFalsy(s) -> Throws
      [] IsDefault(s) -> DefaultField
      [] IsString(s) /\ ~IsDefault(s) /\ s.str \notin Names -> Throws
      [] OTHER -> FieldsOf(s)

-----------------------------------------------------------------------------
Init ==
    /\ caller = "none"
    /\ input = Undefined
    /\ result = Undefined

(* The schema editor calls getParsedSchema.                                *)
CallGetParsedSchema(s) ==
    /\ caller' = "parsed"
    /\ input' = s
    /\ result' = GetParsedSchema(s)

(* Data prep calls getParsedSchemaForDataPrep.                             *)
CallGetParsedSchemaForDataPrep(s) ==
    /\ caller' = "dataprep"
    /\ input' = s
    /\ result' = GetParsedSchemaForDataPrep(s)

Next ==
    \E s \in Schemas :
        \/ CallGetParsedSchema(s)
        \/ CallGetParsedSchemaForDataPrep(s)

Spec == Init /\ [][Next]_vars

-----------------------------------------------------------------------------
(* The field type a flattened row stands for when the editor writes it     *)
(* back: its stored type, made nullable again when the row is nullable.    *)
RowType(row) ==
    IF row.nullable THEN UnionType(<<row.type, NamedType("null")>>) ELSE row.type

(* The display type of a stored type, as getDisplayType gives it.          *)
DisplayOf(t) == IF t.union THEN Display["union"] ELSE Display[t.name]

(* Flattening a record schema loses nothing: row i is field i, the type it *)
(* stands for is the field's type, it shows that type's display type, and  *)
(* it is marked nested exactly when that display type is complex.          *)
FieldsFaithful ==
    (IsRecord(input) /\ result \notin {Undefined, Throws}) =>
        /\ DOMAIN result = DOMAIN input.fields
        /\ \A i \in DOMAIN result :
              /\ result[i].name = i
              /\ RowType(result[i]) = input.fields[i]
              /\ result[i].displayType = DisplayOf(result[i].type)
              /\ result[i].nested = CheckComplexType(result[i].displayType)

(* The two near-duplicate helpers return the same thing for every schema,  *)
(* except that a schema the parser rejects is undefined from one and       *)
(* thrown from the other.                                                  *)
CopiesAgree ==
    LET other == IF caller = "parsed" THEN GetParsedSchemaForDataPrep(input)
                 ELSE GetParsedSchema(input)
    IN  caller # "none" =>
           \/ result = other
           \/ /\ {result, other} = {Undefined, Throws}
              /\ IsString(input) /\ input.str \notin Names

=============================================================================
