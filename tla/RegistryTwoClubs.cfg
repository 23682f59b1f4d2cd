CONSTANTS
  Accounts = {a1, a2}
  Root = Root
  RootClubAdminOrigin = {Root}
  Roles = {r1}
  None = None
  ClubIdMax = 1
  AttestationIdMax = 1
  CountMax = 2
  MaxOfficers = 1
  MaxRoles = 0
  MomentMax = 0
SPECIFICATION Spec
SYMMETRY AccountSymmetry
INVARIANT StorageCoherent
INVARIANT CountWithinJoined
