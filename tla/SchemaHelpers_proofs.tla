------------------------ MODULE SchemaHelpers_proofs ------------------------
(***************************************************************************)
(* Proofs about the schema flattening helpers: the two copies of          *)
(* getParsedSchema agree on every schema, and flattening a record schema  *)
(* loses nothing when no field is a nullable union of three or more       *)
(* types.                                                                  *)
(***************************************************************************)
EXTENDS SchemaHelpers, TLAPS

(* The field types parse can produce here: named types, and wrapped        *)
(* unions of named types.                                                  *)
NamedTypes == {NamedType(n) : n \in Names}

IsFieldType(t) ==
    \/ t \in NamedTypes
    \/ /\ DOMAIN t = {"union", "branches"}
       /\ t = UnionType(t.branches)
       /\ t.branches \in Seq(NamedTypes)

(* parseType reads a union whose second type is null as a nullable first   *)
(* type (lines 59-66); that reading keeps the field only when the union   *)
(* has no other type.                                                      *)
NarrowNullable(t) ==
    (t.union /\ Len(t.branches) >= 2 /\ t.branches[2] = NamedType("null"))
        => Len(t.branches) = 2

(* Every record schema a caller passes has field types of that form.       *)
WellFormedSchemas ==
    \A s \in Schemas :
        IsRecord(s) =>
            \A i \in DOMAIN s.fields :
                /\ IsFieldType(s.fields[i])
                /\ NarrowNullable(s.fields[i])

(* The result is always what the helper last called returns on its input. *)
CallInv ==
    /\ TypeOK
    /\ caller = "none" => input = Undefined
    /\ caller = "parsed" => result = GetParsedSchema(input)
    /\ caller = "dataprep" => result = GetParsedSchemaForDataPrep(input)

LEMMA InitCallInv == Init => CallInv
BY SchemaHelpersAssumption DEF Init, CallInv, TypeOK

LEMMA StepCallInv == CallInv /\ [Next]_vars => CallInv'
<1> SUFFICES ASSUME CallInv, [Next]_vars PROVE CallInv'
  OBVIOUS
<1>1. ASSUME NEW s \in Schemas, CallGetParsedSchema(s) PROVE CallInv'
  BY <1>1 DEF CallGetParsedSchema, CallInv, TypeOK
<1>2. ASSUME NEW s \in Schemas, CallGetParsedSchemaForDataPrep(s) PROVE CallInv'
  BY <1>2 DEF CallGetParsedSchemaForDataPrep, CallInv, TypeOK
<1>3. CASE UNCHANGED vars
  BY <1>3 DEF vars, CallInv, TypeOK
<1>4. QED
  BY <1>1, <1>2, <1>3 DEF Next


(* A schema that is not falsy, not a default and not an unparsable string *)
(* gets the same fields from both copies.                                  *)
LEMMA CopiesCases ==
    ASSUME NEW s
    PROVE  /\ IsFalsy(s) => /\ GetParsedSchema(s) = Throws
                            /\ GetParsedSchemaForDataPrep(s) = Throws
           /\ ~IsFalsy(s) /\ IsDefault(s) =>
                 /\ GetParsedSchema(s) = DefaultField
                 /\ GetParsedSchemaForDataPrep(s) = DefaultField
           /\ ~IsFalsy(s) /\ ~IsDefault(s) /\ IsString(s) /\ s.str \notin Names =>
                 /\ GetParsedSchema(s) = Undefined
                 /\ GetParsedSchemaForDataPrep(s) = Throws
           /\ ~IsFalsy(s) /\ ~IsDefault(s) /\ ~(IsString(s) /\ s.str \notin Names) =>
                 /\ GetParsedSchema(s) = FieldsOf(s)
                 /\ GetParsedSchemaForDataPrep(s) = FieldsOf(s)
BY DEF GetParsedSchema, GetParsedSchemaForDataPrep, IsFalsy, IsDefault, IsString

(* The two near-duplicate helpers, getParsedSchema and                     *)
(* getParsedSchemaForDataPrep, return the same thing for every schema any  *)
(* caller passes, except for a string the parser rejects, which one turns  *)
(* into undefined and the other into an exception.                         *)
THEOREM CopiesAgreeHolds == Spec => []CopiesAgree
<1>1. CallInv => CopiesAgree
  <2> SUFFICES ASSUME CallInv, caller # "none"
               PROVE  LET other == IF caller = "parsed"
                                   THEN GetParsedSchemaForDataPrep(input)
                                   ELSE GetParsedSchema(input)
                      IN  \/ result = other
                          \/ /\ {result, other} = {Undefined, Throws}
                             /\ IsString(input) /\ input.str \notin Names
    BY DEF CopiesAgree
  <2>1. caller \in {"parsed", "dataprep"}
    BY DEF CallInv, TypeOK
  <2>2. QED
    BY <2>1, CopiesCases DEF CallInv
<1>2. QED
  BY <1>1, InitCallInv, StepCallInv, PTL DEF Spec


(* One row of the flattening (lines 121-134): its name is the field's, the *)
(* type it stands for is the field's type, and its display type and       *)
(* nested flag are those of its stored type.                               *)
LEMMA RowFaithful ==
    ASSUME NEW t, IsFieldType(t), NarrowNullable(t), NEW i
    PROVE  LET r == WithName(ParseType(t), i)
           IN  /\ r.name = i
               /\ RowType(r) = t
               /\ r.displayType = DisplayOf(r.type)
               /\ r.nested = CheckComplexType(r.displayType)
<1> DEFINE p == ParseType(t)
           r == WithName(p, i)
           nl == t.union /\ Len(t.branches) >= 2 /\ t.branches[2] = NamedType("null")
<1>1. /\ r.name = i /\ r.type = p.type /\ r.nullable = p.nullable
      /\ r.displayType = p.displayType /\ r.nested = p.nested
  BY DEF ParseType, WithName
<1>2. p.nested = CheckComplexType(p.displayType)
  BY DEF ParseType
<1>3. RowType(r) = t /\ p.displayType = DisplayOf(p.type)
  <2>1. CASE t \in NamedTypes
    <3>1. ~t.union
      BY <2>1 DEF NamedTypes, NamedType
    <3>2. p.type = t /\ p.nullable = FALSE /\ p.displayType = Display[t.name]
      BY <3>1 DEF ParseType
    <3>3. QED
      BY <1>1, <3>1, <3>2 DEF RowType, DisplayOf
  <2>2. CASE t \notin NamedTypes /\ nl
    <3>1. /\ t = UnionType(t.branches) /\ t.branches \in Seq(NamedTypes)
          /\ Len(t.branches) = 2
      BY <2>2 DEF IsFieldType, NarrowNullable
    <3>2. t.branches = <<t.branches[1], NamedType("null")>>
      BY <2>2, <3>1
    <3>3. t.branches[1] \in NamedTypes /\ ~t.branches[1].union
      BY <3>1 DEF NamedTypes, NamedType
    <3>4. p.nullable = TRUE /\ p.type = t.branches[1]
      BY <2>2 DEF ParseType
    <3>5. p.displayType = Display[t.branches[1].name]
      BY <2>2, Zenon DEF ParseType
    <3>6. QED
      BY <1>1, <3>1, <3>2, <3>3, <3>4, <3>5 DEF RowType, DisplayOf, UnionType
  <2>3. CASE t \notin NamedTypes /\ ~nl
    <3>1. t = UnionType(t.branches)
      BY <2>3 DEF IsFieldType
    <3>2. t.union
      BY <3>1 DEF UnionType
    <3>3. p.type = t /\ p.nullable = FALSE /\ p.displayType = Display["union"]
      BY <2>3, <3>2 DEF ParseType
    <3>4. QED
      BY <1>1, <3>2, <3>3 DEF RowType, DisplayOf
  <2>4. QED
    BY <2>1, <2>2, <2>3
<1>4. QED
  BY <1>1, <1>2, <1>3

(* Flattening a record schema with getParsedSchema or its data-prep copy  *)
(* loses nothing, for every schema set whose record schemas have no       *)
(* nullable union of three or more types: row i is field i, it stands for *)
(* the field's type, and shows that type's display type.                   *)
THEOREM FieldsFaithfulHolds ==
    ASSUME WellFormedSchemas
    PROVE  Spec => []FieldsFaithful
<1>1. CallInv => FieldsFaithful
  <2> SUFFICES ASSUME CallInv, IsRecord(input)
               PROVE  /\ DOMAIN result = DOMAIN input.fields
                      /\ \A i \in DOMAIN result :
                            /\ result[i].name = i
                            /\ RowType(result[i]) = input.fields[i]
                            /\ result[i].displayType = DisplayOf(result[i].type)
                            /\ result[i].nested = CheckComplexType(result[i].displayType)
    BY DEF FieldsFaithful
  <2>1. caller \in {"parsed", "dataprep"} /\ input \in Schemas
    BY DEF CallInv, TypeOK, IsRecord
  <2>2. ~IsFalsy(input) /\ ~IsDefault(input) /\ ~IsString(input)
    BY DEF IsRecord, IsFalsy, IsDefault, IsString
  <2>3. result = ParseFields(input)
    BY <2>1, <2>2, CopiesCases DEF CallInv, FieldsOf
  <2>4. \A i \in DOMAIN input.fields :
           IsFieldType(input.fields[i]) /\ NarrowNullable(input.fields[i])
    BY <2>1 DEF WellFormedSchemas
  <2>5. QED
    BY <2>3, <2>4, RowFaithful DEF ParseFields
<1>2. QED
  BY <1>1, InitCallInv, StepCallInv, PTL DEF Spec

=============================================================================
