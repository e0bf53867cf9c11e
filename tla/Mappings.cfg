CONSTANTS
    c1 = c1
    c2 = c2
    c3 = c3
    None = None
    Names <- MCNames
    Supports <- MCSupports
    Responses <- MCResponses
SPECIFICATION Spec
CHECK_DEADLOCK FALSE
INVARIANT ColumnsOrdered
PROPERTY LoadingEnds
