CONSTANTS
  t1 = t1
  t2 = t2
  t3 = t3
  t4 = t4
  t5 = t5
  t6 = t6
  NoTab = NoTab
  Ids <- MCIds
SPECIFICATION Spec
CONSTANTS
  FalsyIds <- MCNoFalsy
  Configs <- MCConfigsAll
  Controlled = TRUE
  Follow = TRUE
INVARIANT TypeOK
INVARIANT ActiveTabExists
INVARIANT PropAuthority
