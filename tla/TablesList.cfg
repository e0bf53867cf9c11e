CONSTANTS
  p1 = p1
  p2 = p2
  NoPath = NoPath
  Paths <- MCPaths
  Chars <- MCChars
  LowerCase <- MCLowerCase
  TablesValues <- MCTablesValues
  Searches <- MCSearches
  MaxTimers = 2
  MaxSubs = 2
SPECIFICATION Spec
CHECK_DEADLOCK FALSE
INVARIANT OneLivePoll
INVARIANT FilterConverges
PROPERTY StatusCatchesUp
