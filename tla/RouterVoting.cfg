SPECIFICATION FairSpec
CONSTANTS
  None = None
  a1 = a1
  a2 = a2
  pallet = pallet
  root = root
  c1 = c1
  Accounts = {a1, a2}
  PalletAccount = pallet
  Root = root
  RouterAdminOrigin = {root}
  ClubIds = {c1}
  ProposalIdMax = 2
  VotesMax = 20000
  Scale = 10000
  MaxVotersPerProposal = 2
  MaxClubIndex = 1
  MaxNesting = 1
  BlockMax = 2
  DefaultVotingPeriod = 1
  DefaultQuorum = 1
  DefaultPassThreshold = 5000
  OtherCalls = {}
  Calls <- SucceedingCalls
  VotingPeriods = {None}
  Quorums = {None}
  PassThresholds = {10000}
INVARIANT TypeOK
INVARIANT ExecutedHasPassed
 
PROPERTY ProposalsDecided
CHECK_DEADLOCK FALSE
