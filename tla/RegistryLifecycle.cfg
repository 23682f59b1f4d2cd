CONSTANTS
  Accounts = {a1, a2}
  Root = Root
  RootClubAdminOrigin = {Root}
  Roles = {r1}
  None = None
  ClubIdMax = 0
  AttestationIdMax = 1
  CountMax = 2
  MaxOfficers = 1
  MaxRoles = 1
  MomentMax = 1
SPECIFICATION Spec
SYMMETRY AccountSymmetry
INVARIANT TypeOK
INVARIANT UsedAttestationsAdmitOnce
PROPERTY AdmissionAuthorised
PROPERTY MemberHistoryKept
PROPERTY AttestationsAreGrants
