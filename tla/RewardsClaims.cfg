CONSTANTS
  Accounts = {a1, a2}
  Root = Root
  RuleCreationOrigin = {Root}
  ManualAwardOrigin = {a1, Root}
  ClubIds = {c1}
  None = None
  RuleIdMax = 1
  CountMax = 2
  MaxAttestations = 2
  EpochLengthInBlocks = 2
  BlockMax = 2
  GenesisRules <- GlobalGenesisRule
SPECIFICATION Spec
INVARIANT TypeOK
INVARIANT WithinEpochLimit
INVARIANT ClaimedOnce
INVARIANT GlobalAttestorsPrivileged
PROPERTY AttestationsAreGrants
