--------------------------- MODULE MemberRegistry ---------------------------
(***************************************************************************)
(* pallets/member-registry: clubs with an admin and officers, attestations *)
(* by which an officer lets an account join, and member records.           *)
(*                                                                         *)
(* One action per dispatchable.  A dispatchable runs in a storage layer,   *)
(* so a call that returns an error leaves no write behind: every early     *)
(* return of the code is a guard here, and a refused call is a stuttering  *)
(* step.  Names, metadata hashes, events and weights are left out.         *)
(***************************************************************************)
EXTENDS Integers, FiniteSets, Sequences, Functions

CONSTANTS
  Accounts,             \* T::AccountId
  Root,                 \* the Root origin
  RootClubAdminOrigin,  \* the origins that Config's RootClubAdminOrigin accepts
  Roles,                \* RoleId
  None,                 \* Option::None, and a key absent from a storage map
  ClubIdMax,            \* u32::MAX, where NextClubId saturates
  AttestationIdMax,     \* u64::MAX, where NextAttestationId saturates
  CountMax,             \* u32::MAX, where members_count saturates
  MaxOfficers,          \* bound of ClubInfo::officers
  MaxRoles,             \* bound of MemberInfo::roles
  MomentMax             \* bound on the time the model explores

Origins      == Accounts \cup {Root}
ClubIds      == 0..ClubIdMax
AttestationIds == 0..AttestationIdMax
Moments      == 0..MomentMax
MemberStatus == {"Active", "Suspended", "Removed"}

\* Origins are told apart, None is no value of the maps, bounds are numbers.
ASSUME RegistryConstants ==
  /\ IsFiniteSet(Accounts)
  /\ Root \notin Accounts
  /\ RootClubAdminOrigin \subseteq Origins
  /\ {ClubIdMax, AttestationIdMax, CountMax, MaxOfficers, MaxRoles, MomentMax}
       \subseteq Nat

MemberInfo ==
  [clubs : Seq(ClubIds), roles : Seq(Roles), joined_at : Moments,
   status : MemberStatus]

ClubInfo ==
  [admin : Accounts, officers : Seq(Accounts), members_count : 0..CountMax]

Attestation ==
  [subject : Accounts, club : ClubIds, attestor : Accounts,
   created_at : Moments, expires_at : Moments \cup {None}, used : BOOLEAN]

\* The absent value is not a record of any of the maps, nor a moment.
ASSUME NoneIsNoRecord ==
  /\ None \notin MemberInfo
  /\ None \notin ClubInfo
  /\ None \notin Attestation
  /\ None \notin Moments

VARIABLES
  members,            \* Members: account -> MemberInfo, or None
  clubs,              \* Clubs: club id -> ClubInfo, or None
  nextClubId,         \* NextClubId
  attestations,       \* Attestations: id -> Attestation, or None
  nextAttestationId,  \* NextAttestationId
  now                 \* T::Time::now(), in the model's unit

vars == <<members, clubs, nextClubId, attestations, nextAttestationId, now>>

-----------------------------------------------------------------------------
(* Helpers *)

SaturatingInc(n, max) == IF n < max THEN n + 1 ELSE max
SaturatingDec(n) == IF n > 0 THEN n - 1 ELSE 0

\* Vec::swap_remove: the last element takes the place of the removed one.
SwapRemove(s, i) ==
  [j \in 1..(Len(s) - 1) |-> IF j = i THEN s[Len(s)] ELSE s[j]]

FirstIndex(s, x) ==
  CHOOSE i \in DOMAIN s : s[i] = x /\ \A j \in 1..(i - 1) : s[j] # x

\* Only the first occurrence goes; a value that is not there is no error.
RemoveFirstBySwap(s, x) ==
  IF x \in Range(s) THEN SwapRemove(s, FirstIndex(s, x)) ELSE s

IsOfficerOrAdmin(acct, club) ==
  acct = clubs[club].admin \/ acct \in Range(clubs[club].officers)

IsMember(who) == members[who] # None

\* Mutant: an officer may do what is the admin's to do.
ActsForClub(who, club) == clubs[club] # None /\ IsOfficerOrAdmin(who, club)

IsClubAdmin(who, club) == clubs[club] # None /\ who = clubs[club].admin

NotExpired(att) == att.expires_at # None => now <= att.expires_at

\* Mutant: the attestor is trusted from the attestation alone.
AttestorTrusted(att) == clubs[att.club] # None

\* register_member asks again, at the time of use, whether the attestor is
\* an officer or the admin.
AttestorStillAuthorized(att) ==
  /\ clubs[att.club] # None
  /\ IsOfficerOrAdmin(att.attestor, att.club)

\* The record both ways of joining create.
NewMember(club, at) ==
  [clubs |-> <<club>>, roles |-> <<>>, joined_at |-> at, status |-> "Active"]

CountOneMore(club) ==
  [clubs EXCEPT ![club].members_count = SaturatingInc(@, CountMax)]

CountOneLess(club) ==
  [clubs EXCEPT ![club].members_count = SaturatingDec(@)]

-----------------------------------------------------------------------------
Init ==
  /\ members = [a \in Accounts |-> None]
  /\ clubs = [c \in ClubIds |-> None]
  /\ nextClubId = 0
  /\ attestations = [i \in AttestationIds |-> None]
  /\ nextAttestationId = 0
  /\ now = 0

\* Mutant: the new club is stored and the counter is left where it was.
CreateClubSameId(origin, admin) ==
  /\ origin \in RootClubAdminOrigin
  /\ clubs' = [clubs EXCEPT ![nextClubId] =
                 [admin |-> admin, officers |-> <<>>, members_count |-> 0]]
  /\ UNCHANGED <<members, nextClubId, attestations, nextAttestationId, now>>

CreateClub(origin, admin) ==
  /\ origin \in RootClubAdminOrigin
  /\ clubs' = [clubs EXCEPT ![nextClubId] =
                 [admin |-> admin, officers |-> <<>>, members_count |-> 0]]
  /\ nextClubId' = SaturatingInc(nextClubId, ClubIdMax)
  /\ UNCHANGED <<members, attestations, nextAttestationId, now>>

\* Mutant: an officer is pushed past the bound of the vector.
AddOfficerUnbounded(who, club, officer) ==
  /\ IsClubAdmin(who, club)
  /\ Len(clubs[club].officers) <= MaxOfficers
  /\ clubs' = [clubs EXCEPT ![club].officers = Append(@, officer)]
  /\ UNCHANGED <<members, nextClubId, attestations, nextAttestationId, now>>

AddOfficer(who, club, officer) ==
  /\ IsClubAdmin(who, club)
  /\ Len(clubs[club].officers) < MaxOfficers
  /\ clubs' = [clubs EXCEPT ![club].officers = Append(@, officer)]
  /\ UNCHANGED <<members, nextClubId, attestations, nextAttestationId, now>>

RemoveOfficer(who, club, officer) ==
  /\ IsClubAdmin(who, club)
  /\ clubs' = [clubs EXCEPT ![club].officers = RemoveFirstBySwap(@, officer)]
  /\ UNCHANGED <<members, nextClubId, attestations, nextAttestationId, now>>

CreateAttestation(attestor, subject, club, expires_at) ==
  /\ clubs[club] # None
  /\ IsOfficerOrAdmin(attestor, club)
  /\ attestations' = [attestations EXCEPT ![nextAttestationId] =
       [subject |-> subject, club |-> club, attestor |-> attestor,
        created_at |-> now, expires_at |-> expires_at, used |-> FALSE]]
  /\ nextAttestationId' = SaturatingInc(nextAttestationId, AttestationIdMax)
  /\ UNCHANGED <<members, clubs, nextClubId, now>>

\* Mutant: a second attestation admits an account that has a record.
RegisterMemberAgain(who, id) ==
  LET att == attestations[id]
  IN  /\ att # None
      /\ ~att.used
      /\ att.subject = who
      /\ NotExpired(att)
      /\ AttestorStillAuthorized(att)
      /\ members' = [members EXCEPT ![who] = NewMember(att.club, att.created_at)]
      /\ clubs' = CountOneMore(att.club)
      /\ attestations' = [attestations EXCEPT ![id].used = TRUE]
      /\ UNCHANGED <<nextClubId, nextAttestationId, now>>

RegisterMember(who, id) ==
  LET att == attestations[id]
  IN  /\ att # None
      /\ ~att.used
      /\ att.subject = who
      /\ NotExpired(att)
      /\ AttestorStillAuthorized(att)
      /\ ~IsMember(who)
      /\ members' = [members EXCEPT ![who] = NewMember(att.club, att.created_at)]
      /\ clubs' = CountOneMore(att.club)
      /\ attestations' = [attestations EXCEPT ![id].used = TRUE]
      /\ UNCHANGED <<nextClubId, nextAttestationId, now>>

\* Mutant: an account that has a record can be added again.
AddMemberAdminAgain(who, subject, club) ==
  /\ IsClubAdmin(who, club)
  /\ members' = [members EXCEPT ![subject] = NewMember(club, now)]
  /\ clubs' = CountOneMore(club)
  /\ UNCHANGED <<nextClubId, attestations, nextAttestationId, now>>

AddMemberAdmin(who, subject, club) ==
  /\ IsClubAdmin(who, club)
  /\ ~IsMember(subject)
  /\ members' = [members EXCEPT ![subject] = NewMember(club, now)]
  /\ clubs' = CountOneMore(club)
  /\ UNCHANGED <<nextClubId, attestations, nextAttestationId, now>>

\* Mutant: the record that take() removed is not put back.
RemoveMemberAdminDrops(who, subject, club) ==
  /\ IsClubAdmin(who, club)
  /\ IsMember(subject)
  /\ members' = [members EXCEPT ![subject] = None]
  /\ clubs' = CountOneLess(club)
  /\ UNCHANGED <<nextClubId, attestations, nextAttestationId, now>>

\* The member's own clubs are not looked at, nor its present status.
RemoveMemberAdmin(who, subject, club) ==
  /\ IsClubAdmin(who, club)
  /\ IsMember(subject)
  /\ members' = [members EXCEPT ![subject].status = "Removed"]
  /\ clubs' = CountOneLess(club)
  /\ UNCHANGED <<nextClubId, attestations, nextAttestationId, now>>

SetRole(origin, subject, role) ==
  /\ origin \in RootClubAdminOrigin
  /\ IsMember(subject)
  /\ Len(members[subject].roles) < MaxRoles
  /\ members' = [members EXCEPT ![subject].roles = Append(@, role)]
  /\ UNCHANGED <<clubs, nextClubId, attestations, nextAttestationId, now>>

\* Mutant: the identifier of a revoked attestation is handed out again.
RevokeAttestationReuses(who, id) ==
  LET att == attestations[id]
  IN  /\ att # None
      /\ clubs[att.club] # None
      /\ who = att.attestor \/ who = clubs[att.club].admin
      /\ attestations' = [attestations EXCEPT ![id] = None]
      /\ nextAttestationId' = id
      /\ UNCHANGED <<members, clubs, nextClubId, now>>

RevokeAttestation(who, id) ==
  LET att == attestations[id]
  IN  /\ att # None
      /\ clubs[att.club] # None
      /\ who = att.attestor \/ who = clubs[att.club].admin
      /\ attestations' = [attestations EXCEPT ![id] = None]
      /\ UNCHANGED <<members, clubs, nextClubId, nextAttestationId, now>>

\* pallet-timestamp: the time of a block is later than its parent's.
Tick ==
  /\ now < MomentMax
  /\ now' = now + 1
  /\ UNCHANGED <<members, clubs, nextClubId, attestations, nextAttestationId>>

Next ==
  \/ \E origin \in Origins, admin \in Accounts : CreateClub(origin, admin)
  \/ \E who, officer \in Accounts, club \in ClubIds :
       \/ AddOfficer(who, club, officer)
       \/ RemoveOfficer(who, club, officer)
  \/ \E attestor, subject \in Accounts, club \in ClubIds,
        expires_at \in Moments \cup {None} :
       CreateAttestation(attestor, subject, club, expires_at)
  \/ \E who \in Accounts, id \in AttestationIds :
       \/ RegisterMember(who, id)
       \/ RevokeAttestation(who, id)
  \/ \E who, subject \in Accounts, club \in ClubIds :
       \/ AddMemberAdmin(who, subject, club)
       \/ RemoveMemberAdmin(who, subject, club)
  \/ \E origin \in Origins, subject \in Accounts, role \in Roles :
       SetRole(origin, subject, role)
  \/ Tick

Spec == Init /\ [][Next]_vars

-----------------------------------------------------------------------------
(* Properties *)

\* Every storage item holds values of its declared type, and no bounded
\* vector is longer than its bound.
TypeOK ==
  /\ members \in [Accounts -> MemberInfo \cup {None}]
  /\ clubs \in [ClubIds -> ClubInfo \cup {None}]
  /\ nextClubId \in ClubIds
  /\ attestations \in [AttestationIds -> Attestation \cup {None}]
  /\ nextAttestationId \in AttestationIds
  /\ now \in Moments
  /\ \A c \in ClubIds :
       clubs[c] # None => Len(clubs[c].officers) <= MaxOfficers
  /\ \A a \in Accounts :
       members[a] # None => Len(members[a].roles) <= MaxRoles

\* No dangling reference, although nothing in the pallet checks them after
\* the fact: the club of every attestation and of every member exists, a
\* club exists exactly when its identifier has been handed out, and a stored
\* attestation has an identifier that has been handed out.  (At the
\* saturation point of a counter the last identifier is both handed out and
\* next.)
StorageCoherent ==
  /\ \A c \in ClubIds :
       /\ c < nextClubId => clubs[c] # None
       /\ clubs[c] # None => c < nextClubId \/ c = ClubIdMax
  /\ \A i \in AttestationIds : attestations[i] # None =>
       /\ i < nextAttestationId \/ i = AttestationIdMax
       /\ clubs[attestations[i].club] # None
  /\ \A a \in Accounts : members[a] # None =>
       \A k \in DOMAIN members[a].clubs : clubs[members[a].clubs[k]] # None

\* A used attestation has admitted its subject to its club, as of the time it
\* was created however late it was used, and no subject has been admitted by
\* two: register_member, add_member_admin and remove_member_admin leave no way
\* in for an account that has a record.
UsedAttestationsAdmitOnce ==
  \A i \in AttestationIds :
    attestations[i] # None /\ attestations[i].used =>
      /\ members[attestations[i].subject] # None
      /\ attestations[i].club \in Range(members[attestations[i].subject].clubs)
      /\ members[attestations[i].subject].joined_at = attestations[i].created_at
      /\ \A j \in AttestationIds \ {i} :
           attestations[j] # None /\ attestations[j].used =>
             attestations[j].subject # attestations[i].subject

\* The accounts whose record names the club, removed ones included.
EverJoined(club) ==
  {a \in Accounts : members[a] # None /\ club \in Range(members[a].clubs)}

\* A club never counts more members than accounts have joined it, through
\* every mix of registrations, direct additions and removals, by this club's
\* admin or another's.
CountWithinJoined ==
  \A c \in ClubIds :
    clubs[c] # None => clubs[c].members_count <= Cardinality(EverJoined(c))

\* Nobody becomes a member of a club on a stale authorisation: whenever a
\* record appears, its one club exists, and the account either holds an
\* unused, unexpired attestation for that club, by someone who is its officer
\* or admin at that moment and which that very step marks used, or was added
\* directly, which leaves the attestations alone and stamps the present time.
AdmissionAuthorised ==
  [][\A a \in Accounts : members[a] = None /\ members'[a] # None =>
       LET club == members'[a].clubs[1]
       IN  /\ clubs[club] # None
           /\ \/ \E i \in AttestationIds :
                   /\ attestations[i] # None
                   /\ attestations[i].subject = a
                   /\ attestations[i].club = club
                   /\ ~attestations[i].used /\ attestations'[i].used
                   /\ attestations[i].expires_at = None
                        \/ now <= attestations[i].expires_at
                   /\ IsOfficerOrAdmin(attestations[i].attestor, club)
              \/ /\ attestations' = attestations
                 /\ members'[a].joined_at = now]_vars

\* A member's history is kept: a record never disappears, never moves to
\* another club or another joining time, never loses a role, and a removed
\* member is never reinstated.
MemberHistoryKept ==
  [][\A a \in Accounts : members[a] # None =>
       /\ members'[a] # None
       /\ members'[a].clubs = members[a].clubs
       /\ members'[a].joined_at = members[a].joined_at
       /\ SubSeq(members'[a].roles, 1, Len(members[a].roles)) = members[a].roles
       /\ members[a].status = "Removed" => members'[a].status = "Removed"]_vars

\* The life of an attestation identifier as OneTimeGrant sees it.
GrantOf ==
  [i \in 0..(AttestationIdMax - 1) |->
     IF attestations[i] = None
     THEN IF i < nextAttestationId THEN "revoked" ELSE "unissued"
     ELSE IF attestations[i].used THEN "used" ELSE "open"]

Grants == INSTANCE OneTimeGrant
            WITH Ids <- 0..(AttestationIdMax - 1), grant <- GrantOf

\* Attestations implement one-time grants: create_attestation issues a fresh
\* identifier, register_member uses it once, revoke_attestation ends it.
AttestationsAreGrants == Grants!Spec
=============================================================================
