CONSTANTS
    u = u
    nl = nl
    thr = thr
    Undefined = u
    Null = nl
    Throws = thr
    Names <- MCNames
    Display <- MCDisplay
    Schemas <- MCSchemas
SPECIFICATION Spec
INVARIANT FieldsFaithful CopiesAgree
