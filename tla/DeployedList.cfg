CONSTANTS
    n1 = n1
    n2 = n2
    n3 = n3
    None = None
    Names <- MCNames
    Unparsable <- MCUnparsable
    MaxFetches = 3
SPECIFICATION Spec
CHECK_DEADLOCK FALSE
INVARIANT TypeOK
