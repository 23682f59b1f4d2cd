SPECIFICATION Spec
CONSTANTS
  None = None
  a1 = a1
  pallet = pallet
  root = root
  Accounts = {a1}
  PalletAccount = pallet
  Root = root
  RouterAdminOrigin = {root, pallet}
  ClubIds = {}
  ProposalIdMax = 2
  VotesMax = 20000
  Scale = 10000
  MaxVotersPerProposal = 2
  MaxClubIndex = 1
  MaxNesting = 2
  BlockMax = 1
  DefaultVotingPeriod = 0
  DefaultQuorum = 1
  DefaultPassThreshold = 5000
  OtherCalls = {}
  Calls <- RouterCalls
  VotingPeriods = {None, 1}
  Quorums = {None}
  PassThresholds = {None}
INVARIANT TallyIsVoters
INVARIANT DispatchedOnce
PROPERTY CancelledNeverRuns
CHECK_DEADLOCK FALSE
