CONSTANTS
  Accounts = {a1, a2}
  Root = Root
  RootClubAdminOrigin = {Root}
  Roles = {r1}
  None = None
  ClubIdMax = 1
  AttestationIdMax = 1
  CountMax = 2
  MaxOfficers = 2
  MaxRoles = 1
  MomentMax = 1
SPECIFICATION Spec
PROPERTY OfficerRemovalEffective
