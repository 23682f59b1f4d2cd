SPECIFICATION Spec
CONSTANTS
  None = None
  a1 = a1
  a2 = a2
  PalletAccount = pallet
  Accounts = {a1, a2}
  Root = root
  AttestationIdMax = 1
  CountMax = 2
  MaxOfficers = 2
  BlockMax = 1
  ProposalIdMax = 2
  VotesMax = 20000
  Scale = 10000
  MaxVotersPerProposal = 1
  MaxNesting = 2
  DefaultQuorum = 1
  DefaultPassThreshold = 5000
  Admins <- OneGoverned
  Voters = {a1}
  Candidates = {a2}
  Calls <- ProposedCalls
  Expiries = {None}
INVARIANT GovernedClubIsMandated
INVARIANT EnactedAdmissionsHold
PROPERTY ChangedOnlyByPassedProposals
PROPERTY PassedAdmissionsEnacted
CHECK_DEADLOCK FALSE
