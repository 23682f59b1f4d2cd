CONSTANT LibraryEssential = {"relay-chain", "relay-tasks"}
SPECIFICATION Spec
INVARIANT TypeOK
INVARIANT AuthorsInCompleteNode
 
PROPERTY LostServiceEndsNode
 
CHECK_DEADLOCK FALSE
