SPECIFICATION Spec
CONSTANTS
  None = None
  root = root
  a1 = a1
  a2 = a2
  c1 = c1
  Accounts = {a1, a2}
  Root = root
  ClassCreationOrigin = {a1, root}
  ClubIds = {c1}
  ClassIdMax = 3
  CountMax = 2
  MaxClasses = 3
  MaxInstancesPerClass = 2
  MaxIndex = 1
  GenesisClasses <- GenesisWithGap
INVARIANT TypeOK
 
INVARIANT IssuesAccounted
PROPERTY ClassesKept
PROPERTY BadgesBound
CHECK_DEADLOCK FALSE
