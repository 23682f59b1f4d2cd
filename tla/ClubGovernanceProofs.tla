------------------------ MODULE ClubGovernanceProofs ------------------------
(* Theorems about ClubGovernance, for every value of its constants. *)
EXTENDS ClubGovernance, Sequences, FiniteSetTheorems, TLAPS

-----------------------------------------------------------------------------
(* The inductive invariant *)

\* No proposal is stored under an id that has not been handed out.
NoneAhead ==
  \A i \in Router!ProposalIds : i >= nextProposalId => proposals[i] = None

\* A call that was enacted was that of a proposal which is marked or gone, so
\* no id is enacted a second time.
EnactedIsMarked ==
  /\ IsFiniteSet(enacted)
  /\ \A e \in enacted :
       /\ e \in [id : ProposalIds, call : RegistryCalls]
       /\ e.id < nextProposalId
       /\ proposals[e.id] = None \/ proposals[e.id].executed

\* The clubs stay and keep their admins.
AdminsStay == \A c \in ClubIds : clubs[c] # None /\ clubs[c].admin = Admins[c]

\* A proposal appointed an officer of the club, or attested the subject.
Attested(club, subject) ==
  \/ \E o \in Signers : Enacted("add_officer", club, o) # {}
  \/ Enacted("create_attestation", club, subject) # {}

\* No attestation of a governed club is without a proposal behind it.
AttestationsMandated ==
  \A i \in Registry!AttestationIds :
    attestations[i] # None /\ Governed(attestations[i].club) =>
      Attested(attestations[i].club, attestations[i].subject)

Typed == Registry!TypeOK /\ Router!TypeOK

Inv ==
  /\ Typed /\ NoneAhead /\ EnactedIsMarked /\ AdminsStay
  /\ AttestationsMandated /\ EnactedAdmissionsHold /\ GovernedClubIsMandated

-----------------------------------------------------------------------------
(* Occurrences in a vector *)

\* The places of a value.
Places(s, x) == {k \in DOMAIN s : s[k] = x}

\* A value occurs finitely often, and somewhere if it is in the vector.
LEMMA OccurrencesType ==
  ASSUME NEW S, NEW s \in Seq(S), NEW x
  PROVE  /\ IsFiniteSet(Places(s, x))
         /\ Occurrences(s, x) = Cardinality(Places(s, x))
         /\ Occurrences(s, x) \in Nat
         /\ x \in Range(s) => Occurrences(s, x) >= 1
<1>1. Places(s, x) \in SUBSET (1..Len(s)) /\ Len(s) \in Int
  BY DEF Places
<1>2. IsFiniteSet(Places(s, x))
  BY <1>1, FS_Interval, FS_Subset
<1>3. Occurrences(s, x) = Cardinality(Places(s, x))
  BY DEF Occurrences, Places
<1>4. Cardinality(Places(s, x)) \in Nat
  BY <1>2, FS_CardinalityType
<1>5. x \in Range(s) => Places(s, x) # {}
  BY DEF Places, Range
<1>6. Cardinality(Places(s, x)) = 0 <=> Places(s, x) = {}
  BY <1>2, FS_EmptySet
<1>7. QED
  BY <1>2, <1>3, <1>4, <1>5, <1>6

\* Appending a value makes it occur once more, and no other value.
LEMMA AppendOccurs ==
  ASSUME NEW S, NEW s \in Seq(S), NEW o \in S, NEW x
  PROVE  Occurrences(Append(s, o), x)
           = IF x = o THEN Occurrences(s, x) + 1 ELSE Occurrences(s, x)
<1>1. PICK t : t = Append(s, o)
  BY Zenon
<1>2. /\ DOMAIN s = 1..Len(s) /\ Len(s) \in Nat /\ DOMAIN t = 1..(Len(s) + 1)
      /\ t[Len(s) + 1] = o
      /\ \A k \in 1..Len(s) : t[k] = s[k]
  BY <1>1
<1>3. Len(s) + 1 \notin Places(s, x)
  BY <1>2 DEF Places
<1>4. CASE x = o
  <2>1. Places(t, x) = Places(s, x) \cup {Len(s) + 1}
    BY <1>2, <1>4 DEF Places
  <2>2. Cardinality(Places(t, x)) = Cardinality(Places(s, x)) + 1
    BY Zenon, <1>3, <2>1, OccurrencesType, FS_AddElement
  <2>3. QED
    BY Zenon, <1>1, <1>4, <2>2 DEF Occurrences, Places
<1>5. CASE x # o
  <2>1. Places(t, x) = Places(s, x)
    BY <1>2, <1>5 DEF Places
  <2>2. QED
    BY Zenon, <1>1, <1>5, <2>1 DEF Occurrences, Places
<1>6. QED
  BY <1>4, <1>5

\* Vec::swap_remove never makes a value occur more often: what it leaves at
\* each place stood at a place of its own before.
LEMMA RemovalOccurs ==
  ASSUME NEW S, NEW s \in Seq(S), NEW o, NEW x
  PROVE  /\ Registry!RemoveFirstBySwap(s, o) \in Seq(S)
         /\ Occurrences(Registry!RemoveFirstBySwap(s, o), x) <= Occurrences(s, x)
<1>1. CASE o \notin Range(s)
  BY <1>1, OccurrencesType DEF Registry!RemoveFirstBySwap, Range, Registry!Range
<1>2. CASE o \in Range(s)
  <2>1. PICK i : i = Registry!FirstIndex(s, o)
    OBVIOUS
  <2>2. PICK n \in Nat : n = Len(s) /\ n >= 1 /\ DOMAIN s = 1..n
    BY <1>2 DEF Range
  <2>3. PICK t : t = [j \in 1..(n - 1) |-> IF j = i THEN s[n] ELSE s[j]]
    BY Zenon
  <2>4. Registry!RemoveFirstBySwap(s, o) = t
    BY <1>2, <2>1, <2>2, <2>3
       DEF Registry!RemoveFirstBySwap, Registry!SwapRemove, Range, Registry!Range
  <2>5. PICK f : f = [k \in Places(t, x) |-> IF k = i THEN n ELSE k]
    BY Zenon
  <2>6. f \in [Places(t, x) -> Places(s, x)]
    BY <2>2, <2>3, <2>5 DEF Places
  <2>7. \A k, l \in Places(t, x) : f[k] = f[l] => k = l
    BY <2>2, <2>3, <2>5 DEF Places
  <2>8. f \in Injection(Places(t, x), Places(s, x))
    BY <2>6, <2>7 DEF Injection, IsInjective
  <2>9. Cardinality(Places(t, x)) <= Cardinality(Places(s, x))
    BY <2>8, OccurrencesType, FS_Injection
  <2>10. t \in Seq(S)
    BY <2>2, <2>3
  <2>11. QED
    BY <2>4, <2>9, <2>10 DEF Occurrences, Places
<1>3. QED
  BY <1>1, <1>2

-----------------------------------------------------------------------------
(* What the registry's calls do to the clubs, the members and attestations *)

\* The bounds are numbers, the clubs those of the registry, and the router's
\* account a signer that is not one of the accounts.
LEMMA ConstantTypes ==
  /\ ProposalIdMax \in Nat /\ AttestationIdMax \in Nat /\ CountMax \in Nat
  /\ BlockMax \in Nat /\ MaxNesting \in Nat /\ ClubIdMax \in Nat
  /\ Registry!ClubIds = ClubIds
  /\ PalletAccount \in Signers /\ PalletAccount \notin Accounts
  /\ Accounts \subseteq Signers /\ Candidates \subseteq Signers
  /\ None \notin Registry!ClubInfo /\ None \notin Registry!MemberInfo
  /\ None \notin Registry!Attestation /\ None \notin Router!Proposal
BY GovernanceConstants DEF Signers, Registry!ClubIds

ClubsStay == \A c \in ClubIds : clubs'[c] # None /\ clubs'[c].admin = clubs[c].admin

SameOfficers == \A c \in ClubIds : clubs'[c].officers = clubs[c].officers

SameMembers == \A c \in ClubIds : Registry!EverJoined(c)' = Registry!EverJoined(c)

\* add_officer, of a club's admin.
Appoints(who, club, officer) ==
  /\ who = clubs[club].admin
  /\ clubs'[club].officers = Append(clubs[club].officers, officer)
  /\ \A c \in ClubIds \ {club} : clubs'[c].officers = clubs[c].officers
  /\ SameMembers /\ attestations' = attestations

\* remove_officer, of a club's admin.
Dismisses(who, club, officer) ==
  /\ who = clubs[club].admin
  /\ clubs'[club].officers
       = Registry!RemoveFirstBySwap(clubs[club].officers, officer)
  /\ \A c \in ClubIds \ {club} : clubs'[c].officers = clubs[c].officers
  /\ SameMembers /\ attestations' = attestations

\* The club has one member more, whatever the others have.
Joins(subject, club) ==
  /\ members[subject] = None
  /\ Registry!EverJoined(club)' = Registry!EverJoined(club) \cup {subject}
  /\ \A c \in ClubIds \ {club} : Registry!EverJoined(c)' = Registry!EverJoined(c)
  /\ SameOfficers

\* add_member_admin, of a club's admin.
Admits(who, club, subject) ==
  /\ who = clubs[club].admin
  /\ Joins(subject, club) /\ attestations' = attestations

\* register_member, with an attestation.
Registers(id) ==
  /\ attestations[id] # None
  /\ \E subject \in Signers, club \in ClubIds :
       /\ attestations[id].subject = subject /\ attestations[id].club = club
       /\ Joins(subject, club)
  /\ attestations' # attestations
  /\ \A i \in Registry!AttestationIds : attestations'[i] # None =>
       /\ attestations[i] # None
       /\ attestations'[i].club = attestations[i].club
       /\ attestations'[i].subject = attestations[i].subject

\* create_attestation, of an officer or the admin of a club.
Attests(who, club, subject) ==
  /\ Registry!IsOfficerOrAdmin(who, club)
  /\ SameOfficers /\ SameMembers
  /\ \A i \in Registry!AttestationIds :
       \/ attestations'[i] = attestations[i]
       \/ attestations'[i].club = club /\ attestations'[i].subject = subject

\* remove_member_admin, revoke_attestation, and what is not of the registry.
Leaves ==
  /\ SameOfficers /\ SameMembers
  /\ \A i \in Registry!AttestationIds :
       attestations'[i] = attestations[i] \/ attestations'[i] = None

\* A club that counts members anew keeps its admin and its officers.
LEMMA CountEffect ==
  ASSUME Registry!TypeOK, AdminsStay, NEW club \in ClubIds, NEW n \in 0..CountMax,
         clubs' = [clubs EXCEPT ![club].members_count = n]
  PROVE  ClubsStay /\ SameOfficers
<1>1. /\ \A c \in ClubIds : clubs[c] # None /\ clubs[c] \in Registry!ClubInfo
      /\ DOMAIN clubs = ClubIds
  BY ConstantTypes DEF Registry!TypeOK, AdminsStay
<1>2. PICK info \in Registry!ClubInfo : info = clubs[club]
  BY <1>1
<1>3. clubs'[club] = [info EXCEPT !.members_count = n]
  BY <1>1, <1>2
<1>4. [info EXCEPT !.members_count = n] \in Registry!ClubInfo
  BY DEF Registry!ClubInfo
<1>5. /\ [info EXCEPT !.members_count = n].admin = info.admin
      /\ [info EXCEPT !.members_count = n].officers = info.officers
  BY DEF Registry!ClubInfo
<1>6. \A c \in ClubIds \ {club} : clubs'[c] = clubs[c]
  BY <1>1
<1>7. QED
  BY <1>1, <1>2, <1>3, <1>4, <1>5, <1>6, ConstantTypes
     DEF ClubsStay, SameOfficers

\* Counting one more or one less is such a change.
LEMMA CountedEffect ==
  ASSUME Registry!TypeOK, AdminsStay, NEW club \in ClubIds,
         \/ clubs' = Registry!CountOneMore(club)
         \/ clubs' = Registry!CountOneLess(club)
  PROVE  ClubsStay /\ SameOfficers
<1>1. clubs[club] \in Registry!ClubInfo
  BY ConstantTypes DEF Registry!TypeOK, AdminsStay
<1>2. PICK m \in 0..CountMax : m = clubs[club].members_count
  BY <1>1 DEF Registry!ClubInfo
<1>3. PICK more \in 0..CountMax : more = Registry!SaturatingInc(m, CountMax)
  BY ConstantTypes DEF Registry!SaturatingInc
<1>4. PICK less \in 0..CountMax : less = Registry!SaturatingDec(m)
  BY ConstantTypes DEF Registry!SaturatingDec
<1>5. \/ clubs' = [clubs EXCEPT ![club].members_count = more]
      \/ clubs' = [clubs EXCEPT ![club].members_count = less]
  BY <1>2, <1>3, <1>4 DEF Registry!CountOneMore, Registry!CountOneLess
<1>6. QED
  BY <1>5, CountEffect

\* The same of a club whose vector of officers is replaced.
LEMMA OfficersEffect ==
  ASSUME Registry!TypeOK, AdminsStay, NEW club \in ClubIds,
         NEW v \in Seq(Signers), clubs' = [clubs EXCEPT ![club].officers = v]
  PROVE  /\ ClubsStay /\ clubs'[club].officers = v
         /\ \A c \in ClubIds \ {club} : clubs'[c].officers = clubs[c].officers
<1>1. /\ \A c \in ClubIds : clubs[c] # None /\ clubs[c] \in Registry!ClubInfo
      /\ DOMAIN clubs = ClubIds
  BY ConstantTypes DEF Registry!TypeOK, AdminsStay
<1>2. PICK info \in Registry!ClubInfo : info = clubs[club]
  BY <1>1
<1>3. clubs'[club] = [info EXCEPT !.officers = v]
  BY <1>1, <1>2
<1>4. [info EXCEPT !.officers = v] \in Registry!ClubInfo
  BY DEF Registry!ClubInfo
<1>5. /\ [info EXCEPT !.officers = v].admin = info.admin
      /\ [info EXCEPT !.officers = v].officers = v
  BY DEF Registry!ClubInfo
<1>6. \A c \in ClubIds \ {club} : clubs'[c] = clubs[c]
  BY <1>1
<1>7. QED
  BY <1>1, <1>2, <1>3, <1>4, <1>5, <1>6, ConstantTypes DEF ClubsStay

\* A new record is one of the account's first and only club.
LEMMA JoinEffect ==
  ASSUME Registry!TypeOK, NEW club \in ClubIds, NEW s \in Signers,
         NEW at \in Registry!Moments, members[s] = None,
         members' = [members EXCEPT ![s] = Registry!NewMember(club, at)]
  PROVE  /\ Registry!EverJoined(club)' = Registry!EverJoined(club) \cup {s}
         /\ \A c \in ClubIds \ {club} :
              Registry!EverJoined(c)' = Registry!EverJoined(c)
<1>1. PICK new : new = Registry!NewMember(club, at)
  OBVIOUS
<1>2. new \in Registry!MemberInfo /\ new # None
  <2>1. <<club>> \in Seq(Registry!ClubIds) /\ <<>> \in Seq({})
    BY ConstantTypes
  <2>2. new \in Registry!MemberInfo
    BY <1>1, <2>1
       DEF Registry!NewMember, Registry!MemberInfo, Registry!MemberStatus
  <2>3. QED
    BY <2>2, ConstantTypes
<1>3. \A c : c \in Registry!Range(new.clubs) <=> c = club
  BY <1>1 DEF Registry!NewMember, Registry!Range
<1>4. members'[s] = new /\ \A a \in Signers \ {s} : members'[a] = members[a]
  BY <1>1 DEF Registry!TypeOK
<1>5. QED
  BY <1>2, <1>3, <1>4 DEF Registry!EverJoined

\* What add_officer does.
LEMMA AddOfficerEffect ==
  ASSUME Registry!TypeOK, AdminsStay, NEW who, NEW club \in ClubIds,
         NEW officer \in Signers, Registry!AddOfficer(who, club, officer)
  PROVE  ClubsStay /\ Appoints(who, club, officer)
<1>1. clubs[club].officers \in Seq(Signers)
  BY ConstantTypes DEF Registry!TypeOK, AdminsStay, Registry!ClubInfo
<1>2. PICK v \in Seq(Signers) : v = Append(clubs[club].officers, officer)
  <2>1. Append(clubs[club].officers, officer) \in Seq(Signers)
    BY <1>1
  <2>2. QED
    BY Zenon, <2>1
<1>3. clubs' = [clubs EXCEPT ![club].officers = v]
  BY <1>2 DEF Registry!AddOfficer
<1>4. /\ ClubsStay /\ clubs'[club].officers = v
      /\ \A c \in ClubIds \ {club} : clubs'[c].officers = clubs[c].officers
  BY Zenon, <1>3, OfficersEffect
<1>5. /\ who = clubs[club].admin
      /\ members' = members /\ attestations' = attestations
  BY DEF Registry!AddOfficer, Registry!IsClubAdmin
<1>6. SameMembers
  BY <1>5 DEF SameMembers, Registry!EverJoined
<1>7. QED
  BY <1>2, <1>4, <1>5, <1>6 DEF Appoints

\* What remove_officer does.
LEMMA RemoveOfficerEffect ==
  ASSUME Registry!TypeOK, AdminsStay, NEW who, NEW club \in ClubIds,
         NEW officer \in Signers, Registry!RemoveOfficer(who, club, officer)
  PROVE  ClubsStay /\ Dismisses(who, club, officer)
<1>1. clubs[club].officers \in Seq(Signers)
  BY ConstantTypes DEF Registry!TypeOK, AdminsStay, Registry!ClubInfo
<1>2. PICK v \in Seq(Signers) :
        v = Registry!RemoveFirstBySwap(clubs[club].officers, officer)
  BY Zenon, <1>1, RemovalOccurs
<1>3. clubs' = [clubs EXCEPT ![club].officers = v]
  BY <1>2 DEF Registry!RemoveOfficer
<1>4. /\ ClubsStay /\ clubs'[club].officers = v
      /\ \A c \in ClubIds \ {club} : clubs'[c].officers = clubs[c].officers
  BY Zenon, <1>3, OfficersEffect
<1>5. /\ who = clubs[club].admin
      /\ members' = members /\ attestations' = attestations
  BY DEF Registry!RemoveOfficer, Registry!IsClubAdmin
<1>6. SameMembers
  BY <1>5 DEF SameMembers, Registry!EverJoined
<1>7. QED
  BY <1>2, <1>4, <1>5, <1>6 DEF Dismisses

\* What add_member_admin does.
LEMMA AddMemberEffect ==
  ASSUME Registry!TypeOK, AdminsStay, NEW who, NEW club \in ClubIds,
         NEW subject \in Signers, Registry!AddMemberAdmin(who, subject, club)
  PROVE  ClubsStay /\ Admits(who, club, subject)
<1>1. /\ who = clubs[club].admin /\ members[subject] = None
      /\ members' = [members EXCEPT ![subject] = Registry!NewMember(club, now)]
      /\ clubs' = Registry!CountOneMore(club) /\ attestations' = attestations
  BY DEF Registry!AddMemberAdmin, Registry!IsClubAdmin, Registry!IsMember
<1>2. ClubsStay /\ SameOfficers
  BY <1>1, CountedEffect
<1>3. now \in Registry!Moments
  BY DEF Registry!TypeOK
<1>4. Joins(subject, club)
  BY Zenon, <1>1, <1>2, <1>3, JoinEffect DEF Joins
<1>5. QED
  BY <1>1, <1>2, <1>4 DEF Admits

\* What remove_member_admin does: the record keeps its club.
LEMMA RemoveMemberEffect ==
  ASSUME Registry!TypeOK, AdminsStay, NEW who, NEW club \in ClubIds,
         NEW subject \in Signers, Registry!RemoveMemberAdmin(who, subject, club)
  PROVE  ClubsStay /\ Leaves
<1>1. /\ members[subject] # None
      /\ members' = [members EXCEPT ![subject].status = "Removed"]
      /\ clubs' = Registry!CountOneLess(club) /\ attestations' = attestations
  BY DEF Registry!RemoveMemberAdmin, Registry!IsMember
<1>2. ClubsStay /\ SameOfficers
  BY <1>1, CountedEffect
<1>3. PICK m \in Registry!MemberInfo : m = members[subject]
  BY <1>1 DEF Registry!TypeOK
<1>4. /\ members'[subject] = [m EXCEPT !.status = "Removed"]
      /\ \A a \in Signers \ {subject} : members'[a] = members[a]
  BY <1>1, <1>3 DEF Registry!TypeOK
<1>5. /\ [m EXCEPT !.status = "Removed"] \in Registry!MemberInfo
      /\ [m EXCEPT !.status = "Removed"].clubs = m.clubs
  BY DEF Registry!MemberInfo, Registry!MemberStatus
<1>6. /\ members'[subject] # None
      /\ members'[subject].clubs = members[subject].clubs
  BY <1>3, <1>4, <1>5, ConstantTypes
<1>7. SameMembers
  BY <1>1, <1>4, <1>6 DEF SameMembers, Registry!EverJoined
<1>8. QED
  BY <1>1, <1>2, <1>7 DEF Leaves

\* What create_attestation does.
LEMMA CreateAttestationEffect ==
  ASSUME Registry!TypeOK, AdminsStay, NEW who, NEW club \in ClubIds,
         NEW subject \in Signers, NEW expires_at,
         Registry!CreateAttestation(who, subject, club, expires_at)
  PROVE  ClubsStay /\ Attests(who, club, subject)
<1>1. PICK new :
        new = [subject |-> subject, club |-> club, attestor |-> who,
               created_at |-> now, expires_at |-> expires_at, used |-> FALSE]
  BY Zenon
<1>2. /\ Registry!IsOfficerOrAdmin(who, club)
      /\ attestations' = [attestations EXCEPT ![nextAttestationId] = new]
      /\ members' = members /\ clubs' = clubs
  BY <1>1 DEF Registry!CreateAttestation
<1>3. \A i \in Registry!AttestationIds :
        attestations'[i] = attestations[i] \/ attestations'[i] = new
  BY <1>2 DEF Registry!TypeOK
<1>4. SameMembers /\ SameOfficers /\ ClubsStay
  BY <1>2
     DEF SameMembers, SameOfficers, ClubsStay, AdminsStay, Registry!EverJoined
<1>5. new.club = club /\ new.subject = subject
  BY <1>1
<1>6. QED
  BY <1>2, <1>3, <1>4, <1>5 DEF Attests

\* What register_member does.
LEMMA RegisterEffect ==
  ASSUME Registry!TypeOK, AdminsStay, NEW who \in Signers,
         NEW id \in Registry!AttestationIds, Registry!RegisterMember(who, id)
  PROVE  ClubsStay /\ Registers(id)
<1>1. attestations[id] # None
  BY DEF Registry!RegisterMember
<1>2. PICK att \in Registry!Attestation : att = attestations[id]
  BY <1>1 DEF Registry!TypeOK
<1>3. /\ ~att.used /\ att.subject = who /\ members[who] = None
      /\ members' =
           [members EXCEPT ![who] = Registry!NewMember(att.club, att.created_at)]
      /\ clubs' = Registry!CountOneMore(att.club)
      /\ attestations' = [attestations EXCEPT ![id].used = TRUE]
  BY <1>2 DEF Registry!RegisterMember, Registry!IsMember
<1>4. /\ att.club \in ClubIds /\ att.subject \in Signers
      /\ att.created_at \in Registry!Moments
  BY ConstantTypes DEF Registry!Attestation
<1>5. ClubsStay /\ SameOfficers
  BY <1>3, <1>4, CountedEffect
<1>6. Joins(att.subject, att.club)
  BY Zenon, <1>3, <1>4, <1>5, JoinEffect DEF Joins
<1>7. /\ attestations'[id] = [att EXCEPT !.used = TRUE]
      /\ \A i \in Registry!AttestationIds \ {id} :
           attestations'[i] = attestations[i]
  BY <1>2, <1>3 DEF Registry!TypeOK
<1>8. /\ [att EXCEPT !.used = TRUE].used
      /\ [att EXCEPT !.used = TRUE].club = att.club
      /\ [att EXCEPT !.used = TRUE].subject = att.subject
  BY DEF Registry!Attestation
<1>9. attestations' # attestations
  BY Zenon, <1>2, <1>3, <1>7, <1>8
<1>10. \A i \in Registry!AttestationIds : attestations'[i] # None =>
         /\ attestations[i] # None
         /\ attestations'[i].club = attestations[i].club
         /\ attestations'[i].subject = attestations[i].subject
  BY Zenon, <1>1, <1>2, <1>7, <1>8
<1>11. QED
  BY <1>1, <1>2, <1>4, <1>5, <1>6, <1>9, <1>10 DEF Registers

\* What revoke_attestation does.
LEMMA RevokeEffect ==
  ASSUME Registry!TypeOK, AdminsStay, NEW who \in Signers,
         NEW id \in Registry!AttestationIds, Registry!RevokeAttestation(who, id)
  PROVE  ClubsStay /\ Leaves
<1>1. /\ attestations' = [attestations EXCEPT ![id] = None]
      /\ members' = members /\ clubs' = clubs
  BY DEF Registry!RevokeAttestation
<1>2. SameMembers /\ SameOfficers /\ ClubsStay
  BY <1>1
     DEF SameMembers, SameOfficers, ClubsStay, AdminsStay, Registry!EverJoined
<1>3. QED
  BY <1>1, <1>2 DEF Leaves, Registry!TypeOK

-----------------------------------------------------------------------------
(* What the steps do to the proposals *)

\* The step marks no proposal, and moves no mark and no call.
Unmarking(j) ==
  \/ proposals'[j] = None
  \/ /\ j = nextProposalId /\ nextProposalId' = nextProposalId + 1
     /\ ~proposals'[j].executed
  \/ /\ proposals[j] # None
     /\ proposals'[j].executed = proposals[j].executed
     /\ proposals'[j].call = proposals[j].call

\* The step marks the proposal.
Marking(j) ==
  /\ proposals[j] # None /\ ~proposals[j].executed
  /\ proposals'[j].executed /\ proposals'[j].call = proposals[j].call

\* The counter of ids never goes back.
IdsGoOn ==
  /\ nextProposalId \in Nat /\ nextProposalId' \in Nat
  /\ nextProposalId <= nextProposalId'

\* propose, vote and cancel mark nothing.
LEMMA RouterCallEffect ==
  ASSUME Router!TypeOK, RouterCall
  PROVE  IdsGoOn /\ \A j \in Router!ProposalIds : Unmarking(j)
<1>1. /\ nextProposalId \in 0..ProposalIdMax /\ ProposalIdMax \in Nat
      /\ DOMAIN proposals = Router!ProposalIds
      /\ Router!ProposalIds = 0..ProposalIdMax
  BY ConstantTypes DEF Router!TypeOK, Router!ProposalIds
<1>2. CASE /\ nextProposalId < ProposalIdMax
           /\ \E call \in Calls : Router!Propose(None, call, None, None, None)
  <2>1. PICK call \in Calls : Router!Propose(None, call, None, None, None)
    BY <1>2
  <2>2. PICK p : p = Router!NewProposal(None, call, None, None, None)
    OBVIOUS
  <2>3. /\ proposals' = [proposals EXCEPT ![nextProposalId] = p]
        /\ nextProposalId' = nextProposalId + 1
    BY <1>1, <1>2, <2>1, <2>2 DEF Router!Propose, Router!SaturatingAdd
  <2>4. ~p.executed
    BY <2>2 DEF Router!NewProposal
  <2>5. QED
    BY <1>1, <2>3, <2>4 DEF Unmarking, IdsGoOn
<1>3. CASE \E who \in Voters, id \in ProposalIds, aye \in BOOLEAN :
             Router!Vote(who, id, aye)
  <2>1. PICK who \in Voters, id \in ProposalIds, aye \in BOOLEAN :
          Router!Vote(who, id, aye)
    BY <1>3
  <2>2. id \in Router!ProposalIds /\ proposals[id] # None
    BY <1>1, <2>1 DEF Router!Vote, Router!MayVote, ProposalIds
  <2>3. PICK p \in Router!Proposal : p = proposals[id]
    BY <2>2 DEF Router!TypeOK, Router!Stored
  <2>4. /\ proposals' = [proposals EXCEPT ![id] = Router!WithVote(p, who, aye)]
        /\ nextProposalId' = nextProposalId
    BY <2>1, <2>3 DEF Router!Vote
  <2>5. /\ Router!WithVote(p, who, aye).executed = p.executed
        /\ Router!WithVote(p, who, aye).call = p.call
    BY DEF Router!WithVote, Router!Proposal
  <2>6. QED
    BY <1>1, <2>2, <2>3, <2>4, <2>5 DEF Unmarking, IdsGoOn
<1>4. CASE \E origin \in Accounts \cup {Root}, id \in ProposalIds :
             Router!Cancel(origin, id)
  <2>1. PICK origin \in Accounts \cup {Root}, id \in ProposalIds :
          /\ proposals' = [proposals EXCEPT ![id] = None]
          /\ nextProposalId' = nextProposalId
    BY Zenon, <1>4 DEF Router!Cancel
  <2>2. QED
    BY <1>1, <2>1 DEF Unmarking, IdsGoOn
<1>5. QED
  BY <1>2, <1>3, <1>4 DEF RouterCall

\* The proposals of a nesting pass the checks of execute, and all but the
\* innermost have calls of the router.
LEMMA NestingFacts ==
  ASSUME NEW chain \in Router!Chains, NEW id, Router!Nesting(chain, id)
  PROVE  /\ Router!Innermost(chain) \in Router!Range(chain)
         /\ \A j \in Router!Range(chain) :
              /\ j \in Router!ProposalIds
              /\ Router!Executable(proposals[j])
              /\ j # Router!Innermost(chain) => proposals[j].call.kind = "execute"
<1>1. PICK n \in 1..MaxNesting : chain \in [1..n -> Router!ProposalIds]
  BY DEF Router!Chains
<1>2. n \in Nat /\ n >= 1 /\ DOMAIN chain = 1..n /\ Len(chain) = n
  BY <1>1, ConstantTypes
<1>3. Router!Innermost(chain) \in Router!Range(chain)
  BY <1>2 DEF Router!Innermost, Router!Range
<1>4. ASSUME NEW k \in 1..n
      PROVE  /\ chain[k] \in Router!ProposalIds
             /\ Router!Executable(proposals[chain[k]])
             /\ chain[k] # Router!Innermost(chain) =>
                  proposals[chain[k]].call.kind = "execute"
  <2>1. /\ chain[k] \in Router!ProposalIds
        /\ Router!Executable(proposals[chain[k]])
    BY <1>1, <1>2 DEF Router!Nesting
  <2>2. ASSUME k # n PROVE proposals[chain[k]].call.kind = "execute"
    <3>1. k \in 1..(Len(chain) - 1)
      BY <1>2, <2>2
    <3>2. proposals[chain[k]].call = [kind |-> "execute", id |-> chain[k + 1]]
      BY SMTT(30), <3>1 DEF Router!Nesting
    <3>3. QED
      BY <3>2
  <2>3. QED
    BY <1>2, <2>1, <2>2 DEF Router!Innermost
<1>5. QED
  BY <1>2, <1>3, <1>4 DEF Router!Range

\* An execute whose innermost call is of the registry marks the proposals it
\* enters, and of calls of the registry only the innermost.
LEMMA EnactEffect ==
  ASSUME Router!TypeOK, NoneAhead, NEW chain \in Router!Chains, NEW id,
         ReachesRegistry(chain, id), Router!DispatchesOther(chain, id),
         NEW i, i = Router!Innermost(chain)
  PROVE  /\ i \in ProposalIds /\ i < nextProposalId
         /\ nextProposalId' = nextProposalId /\ nextProposalId \in Nat
         /\ Router!Executable(proposals[i]) /\ Marking(i)
         /\ proposals[i].call.kind = "other"
         /\ CallOf(chain) \in RegistryCalls /\ CallOf(chain) = proposals[i].call.call
         /\ \A j \in Router!ProposalIds \ {i} :
              \/ proposals'[j] = proposals[j]
              \/ Marking(j) /\ proposals[j].call.kind = "execute"
<1>1. /\ i \in Router!Range(chain)
      /\ \A j \in Router!Range(chain) :
           /\ j \in Router!ProposalIds
           /\ Router!Executable(proposals[j])
           /\ j # i => proposals[j].call.kind = "execute"
  BY NestingFacts DEF ReachesRegistry
<1>2. /\ nextProposalId \in 0..ProposalIdMax /\ ProposalIdMax \in Nat
      /\ DOMAIN proposals = Router!ProposalIds
      /\ Router!ProposalIds = 0..ProposalIdMax
  BY ConstantTypes DEF Router!TypeOK, Router!ProposalIds
<1>3. i \in ProposalIds /\ i < nextProposalId
  BY <1>1, <1>2 DEF Router!Executable, NoneAhead, ProposalIds
<1>4. /\ proposals[i].call.kind = "other" /\ CallOf(chain) = proposals[i].call.call
      /\ proposals' = Router!WrittenBack(proposals, chain)
      /\ nextProposalId' = nextProposalId
  BY DEF ReachesRegistry, CallOf, Router!DispatchesOther
<1>5. ASSUME NEW j \in Router!Range(chain)
      PROVE  Marking(j)
  <2>1. /\ j \in Router!ProposalIds /\ proposals[j] # None /\ ~proposals[j].executed
    BY <1>1 DEF Router!Executable
  <2>2. PICK p \in Router!Proposal : p = proposals[j]
    BY <2>1 DEF Router!TypeOK, Router!Stored
  <2>3. proposals'[j] = [p EXCEPT !.executed = TRUE]
    BY <1>4, <2>1, <2>2 DEF Router!WrittenBack
  <2>4. /\ [p EXCEPT !.executed = TRUE].executed
        /\ [p EXCEPT !.executed = TRUE].call = p.call
    BY DEF Router!Proposal
  <2>5. QED
    BY <2>1, <2>2, <2>3, <2>4 DEF Marking
<1>6. \A j \in Router!ProposalIds \ Router!Range(chain) :
        proposals'[j] = proposals[j]
  BY SMTT(30), <1>4 DEF Router!WrittenBack
<1>7. CallOf(chain) \in RegistryCalls
  <2>1. proposals[i] # None
    BY <1>1 DEF Router!Executable
  <2>2. proposals[i] \in Router!Proposal
    BY SMTT(30), <1>1, <2>1 DEF Router!TypeOK, Router!Stored
  <2>3. proposals[i].call \in Router!Call
    BY <2>2 DEF Router!Proposal
  <2>4. QED
    BY <1>4, <2>3 DEF Router!Call
<1>8. QED
  BY <1>1, <1>2, <1>3, <1>4, <1>5, <1>6, <1>7

-----------------------------------------------------------------------------
(* The kinds of steps *)

\* What a call of the registry does when it is signed by who.
Effect(who, call) ==
  \/ call.name = "add_member_admin" /\ Admits(who, call.club, call.account)
  \/ call.name = "remove_member_admin" /\ Leaves
  \/ call.name = "add_officer" /\ Appoints(who, call.club, call.account)
  \/ call.name = "remove_officer" /\ Dismisses(who, call.club, call.account)
  \/ call.name = "create_attestation" /\ Attests(who, call.club, call.account)

\* No proposal is marked, and no call of the registry is signed by the
\* router's account.
Direct ==
  /\ enacted' = enacted /\ IdsGoOn
  /\ \A j \in Router!ProposalIds : Unmarking(j)
  /\ \/ Leaves
     \/ \E who \in Accounts, call \in RegistryCalls : Effect(who, call)
     \/ \E id \in Registry!AttestationIds : Registers(id)

\* Proposal i is marked, and its call is made by the router's account.
Enacting(i, call) ==
  /\ i < nextProposalId /\ nextProposalId' = nextProposalId
  /\ nextProposalId \in Nat
  /\ Router!Executable(proposals[i]) /\ Marking(i)
  /\ proposals[i].call.kind = "other" /\ proposals[i].call.call = call
  /\ \A j \in Router!ProposalIds \ {i} :
       \/ proposals'[j] = proposals[j]
       \/ Marking(j) /\ proposals[j].call.kind = "execute"
  /\ enacted' = enacted \cup {[id |-> i, call |-> call]}
  /\ Effect(PalletAccount, call)

\* A step that leaves the registry's maps alone leaves the clubs alone.
LEMMA NothingHappens ==
  ASSUME AdminsStay, UNCHANGED <<members, clubs, attestations>>
  PROVE  ClubsStay /\ Leaves
BY
   DEF AdminsStay, ClubsStay, Leaves, SameOfficers, SameMembers, Registry!EverJoined

\* Proposals that stay as they are keep their marks.
LEMMA ProposalsStay ==
  ASSUME Router!TypeOK, UNCHANGED <<proposals, nextProposalId>>
  PROVE  IdsGoOn /\ \A j \in Router!ProposalIds : Unmarking(j)
<1>1. nextProposalId \in Nat
  BY ConstantTypes DEF Router!TypeOK, Router!ProposalIds
<1>2. QED
  BY <1>1 DEF IdsGoOn, Unmarking

\* A call of the registry that an account signs.
LEMMA RegistryCallEffect ==
  ASSUME Typed, AdminsStay, RegistryCall
  PROVE  ClubsStay /\ Direct
<1>1. /\ enacted' = enacted /\ UNCHANGED <<proposals, nextProposalId>>
      /\ Registry!TypeOK /\ Router!TypeOK
  BY DEF RegistryCall, routerVars, Typed
<1>2. IdsGoOn /\ \A j \in Router!ProposalIds : Unmarking(j)
  BY <1>1, ProposalsStay
<1>3. ASSUME NEW who \in Accounts, NEW club \in ClubIds, NEW account \in Candidates,
             \/ Registry!AddOfficer(who, club, account)
             \/ Registry!RemoveOfficer(who, club, account)
             \/ Registry!AddMemberAdmin(who, account, club)
             \/ Registry!RemoveMemberAdmin(who, account, club)
             \/ \E expires_at \in Expiries :
                  Registry!CreateAttestation(who, account, club, expires_at)
      PROVE  ClubsStay /\ \E call \in RegistryCalls : Effect(who, call)
  <2>0. account \in Signers
    BY ConstantTypes
  <2>1. ASSUME NEW name \in {"add_member_admin", "remove_member_admin",
                 "add_officer", "remove_officer", "create_attestation"},
               NEW call, call = [name |-> name, club |-> club, account |-> account]
        PROVE  /\ call \in RegistryCalls /\ call.name = name
               /\ call.club = club /\ call.account = account
    BY <2>0, <2>1 DEF RegistryCalls
  <2>2. CASE Registry!AddOfficer(who, club, account)
    <3>1. ClubsStay /\ Appoints(who, club, account)
      BY <1>1, <2>0, <2>2, AddOfficerEffect
    <3>2. QED
      BY Zenon, <2>1, <3>1 DEF Effect
  <2>3. CASE Registry!RemoveOfficer(who, club, account)
    <3>1. ClubsStay /\ Dismisses(who, club, account)
      BY <1>1, <2>0, <2>3, RemoveOfficerEffect
    <3>2. QED
      BY Zenon, <2>1, <3>1 DEF Effect
  <2>4. CASE Registry!AddMemberAdmin(who, account, club)
    <3>1. ClubsStay /\ Admits(who, club, account)
      BY <1>1, <2>0, <2>4, AddMemberEffect
    <3>2. QED
      BY Zenon, <2>1, <3>1 DEF Effect
  <2>5. CASE Registry!RemoveMemberAdmin(who, account, club)
    <3>1. ClubsStay /\ Leaves
      BY <1>1, <2>0, <2>5, RemoveMemberEffect
    <3>2. QED
      BY Zenon, <2>1, <3>1 DEF Effect
  <2>6. CASE \E expires_at \in Expiries :
               Registry!CreateAttestation(who, account, club, expires_at)
    <3>1. ClubsStay /\ Attests(who, club, account)
      BY <1>1, <2>0, <2>6, CreateAttestationEffect
    <3>2. QED
      BY Zenon, <2>1, <3>1 DEF Effect
  <2>7. QED
    BY <1>3, <2>2, <2>3, <2>4, <2>5, <2>6
<1>4. ASSUME NEW who \in Accounts, NEW id \in 0..AttestationIdMax,
             \/ Registry!RegisterMember(who, id)
             \/ Registry!RevokeAttestation(who, id)
      PROVE  ClubsStay /\ (Leaves \/ Registers(id)) /\ id \in Registry!AttestationIds
  <2>1. who \in Signers /\ id \in Registry!AttestationIds
    BY ConstantTypes DEF Registry!AttestationIds
  <2>2. QED
    BY <1>1, <1>4, <2>1, RegisterEffect, RevokeEffect
<1>5. QED
  BY <1>1, <1>2, <1>3, <1>4 DEF RegistryCall, Direct

\* A call of the registry that the router's account signs.
LEMMA DispatchEffect ==
  ASSUME Registry!TypeOK, AdminsStay, NEW call \in RegistryCalls, Dispatch(call)
  PROVE  ClubsStay /\ Effect(PalletAccount, call)
<1>1. call.club \in ClubIds /\ call.account \in Signers
  BY DEF RegistryCalls
<1>2. CASE /\ call.name = "add_member_admin"
           /\ Registry!AddMemberAdmin(PalletAccount, call.account, call.club)
  BY <1>1, <1>2, AddMemberEffect DEF Effect
<1>3. CASE /\ call.name = "remove_member_admin"
           /\ Registry!RemoveMemberAdmin(PalletAccount, call.account, call.club)
  BY <1>1, <1>3, RemoveMemberEffect DEF Effect
<1>4. CASE /\ call.name = "add_officer"
           /\ Registry!AddOfficer(PalletAccount, call.club, call.account)
  BY <1>1, <1>4, AddOfficerEffect DEF Effect
<1>5. CASE /\ call.name = "remove_officer"
           /\ Registry!RemoveOfficer(PalletAccount, call.club, call.account)
  BY <1>1, <1>5, RemoveOfficerEffect DEF Effect
<1>6. CASE /\ call.name = "create_attestation"
           /\ Registry!CreateAttestation(PalletAccount, call.account, call.club,
                                         None)
  BY <1>1, <1>6, CreateAttestationEffect DEF Effect
<1>7. QED
  BY <1>2, <1>3, <1>4, <1>5, <1>6 DEF Dispatch

\* Every step is of one of the two kinds, and leaves the clubs their admins.
LEMMA StepKinds ==
  ASSUME Typed, NoneAhead, AdminsStay, [Next]_vars
  PROVE  /\ ClubsStay
         /\ Direct \/ \E i \in ProposalIds, call \in RegistryCalls : Enacting(i, call)
<1>1. Registry!TypeOK /\ Router!TypeOK
  BY DEF Typed
<1>2. CASE RouterCall
  <2>1. UNCHANGED <<members, clubs, attestations>> /\ enacted' = enacted
    BY <1>2 DEF RouterCall, registryVars
  <2>2. QED
    BY <1>1, <1>2, <2>1, NothingHappens, RouterCallEffect DEF Direct
<1>3. CASE RegistryCall
  BY SMTT(30), <1>3, RegistryCallEffect
<1>4. CASE \E id \in ProposalIds : Enact(id)
  <2>1. PICK id \in ProposalIds, chain \in Router!Chains :
          /\ ReachesRegistry(chain, id)
          /\ Router!DispatchesOther(chain, id)
          /\ Dispatch(CallOf(chain))
          /\ enacted' = enacted \cup
               {[id |-> Router!Innermost(chain), call |-> CallOf(chain)]}
    BY <1>4 DEF Enact
  <2>2. PICK i : i = Router!Innermost(chain)
    BY SMTT(30)
  <2>3. /\ i \in ProposalIds /\ i < nextProposalId
        /\ nextProposalId' = nextProposalId /\ nextProposalId \in Nat
        /\ Router!Executable(proposals[i]) /\ Marking(i)
        /\ proposals[i].call.kind = "other"
        /\ CallOf(chain) \in RegistryCalls /\ CallOf(chain) = proposals[i].call.call
        /\ \A j \in Router!ProposalIds \ {i} :
             \/ proposals'[j] = proposals[j]
             \/ Marking(j) /\ proposals[j].call.kind = "execute"
    BY SMTT(30), <1>1, <2>1, <2>2, EnactEffect
  <2>4. PICK call \in RegistryCalls : call = CallOf(chain)
    BY <2>3
  <2>5. ClubsStay /\ Effect(PalletAccount, call)
    BY SMTT(30), <1>1, <2>1, <2>4, DispatchEffect
  <2>6. Enacting(i, call)
    BY <2>1, <2>2, <2>3, <2>4, <2>5 DEF Enacting
  <2>7. QED
    BY <2>3, <2>5, <2>6
<1>5. CASE \/ \E id \in ProposalIds : EnactFails(id)
           \/ NewBlock
           \/ UNCHANGED vars
  <2>1. /\ UNCHANGED <<members, clubs, attestations>> /\ enacted' = enacted
        /\ UNCHANGED <<proposals, nextProposalId>>
    BY Zenon, <1>5 DEF EnactFails, NewBlock, vars, registryVars, routerVars,
                Router!DispatchReturnsError, Router!NewBlock, Registry!Tick
  <2>2. QED
    BY <1>1, <2>1, NothingHappens, ProposalsStay DEF Direct
<1>6. QED
  BY <1>2, <1>3, <1>4, <1>5 DEF Next

-----------------------------------------------------------------------------
(* The steps preserve the invariant *)

\* Governed clubs stay governed, and no club becomes governed.
LEMMA GovernedStays ==
  ASSUME AdminsStay, ClubsStay
  PROVE  AdminsStay' /\ \A c \in ClubIds : Governed(c)' <=> Governed(c)
BY DEF AdminsStay, ClubsStay, Governed

\* Nobody's record goes away.
LEMMA MembersStay ==
  ASSUME Typed, Direct \/ \E i \in ProposalIds, call \in RegistryCalls : Enacting(i, call),
         NEW c \in ClubIds
  PROVE  Registry!EverJoined(c) \subseteq Registry!EverJoined(c)'
<1>1. CASE SameMembers
  BY <1>1 DEF SameMembers
<1>2. CASE \E subject \in Signers, club \in ClubIds : Joins(subject, club)
  BY <1>2 DEF Joins
<1>3. \A call \in RegistryCalls : call.account \in Signers /\ call.club \in ClubIds
  BY DEF RegistryCalls
<1>4. QED
  BY Zenon, <1>1, <1>2, <1>3
     DEF Direct, Enacting, Effect, Leaves, Appoints, Dismisses, Admits, Attests,
         Registers

\* A step that marks no proposal keeps the ids and the marks in order.
LEMMA DirectKeepsMarks ==
  ASSUME Typed, NoneAhead, EnactedIsMarked, Direct
  PROVE  NoneAhead' /\ EnactedIsMarked'
<1>1. NoneAhead'
  <2>1. Router!ProposalIds = 0..ProposalIdMax /\ ProposalIdMax \in Nat
    BY ConstantTypes DEF Router!ProposalIds
  <2>2. QED
    BY <2>1 DEF NoneAhead, Direct, Unmarking, IdsGoOn
<1>2. ASSUME NEW e \in enacted
      PROVE  /\ e \in [id : ProposalIds, call : RegistryCalls]
             /\ e.id < nextProposalId'
             /\ proposals'[e.id] = None \/ proposals'[e.id].executed
  <2>1. /\ e \in [id : ProposalIds, call : RegistryCalls]
        /\ e.id < nextProposalId
        /\ proposals[e.id] = None \/ proposals[e.id].executed
    BY DEF EnactedIsMarked
  <2>2. PICK i \in ProposalIds : i = e.id
    BY <2>1
  <2>3. i \in Router!ProposalIds /\ i \in Nat
    BY ConstantTypes DEF Router!ProposalIds, ProposalIds
  <2>4. Unmarking(i) /\ IdsGoOn
    BY <2>3 DEF Direct
  <2>5. i < nextProposalId'
    BY <2>1, <2>2, <2>3, <2>4 DEF IdsGoOn
  <2>6. proposals'[i] = None \/ proposals'[i].executed
    BY SMTT(30), <2>1, <2>2, <2>3, <2>4 DEF Unmarking, IdsGoOn
  <2>7. QED
    BY <2>1, <2>2, <2>5, <2>6
<1>3. QED
  BY <1>1, <1>2 DEF EnactedIsMarked, Direct

\* It keeps the members that proposals have added.
LEMMA DirectKeepsAdmissions ==
  ASSUME Typed, EnactedIsMarked, EnactedAdmissionsHold, Direct
  PROVE  EnactedAdmissionsHold'
<1>1. enacted' = enacted
  BY DEF Direct
<1>2. ASSUME NEW e \in enacted, e.call.name = "add_member_admin"
      PROVE  e.call.account \in Registry!EverJoined(e.call.club)'
  <2>1. PICK c \in ClubIds : c = e.call.club
    BY SMTT(30) DEF EnactedIsMarked, RegistryCalls
  <2>2. e.call.account \in Registry!EverJoined(c)
    BY <1>2, <2>1 DEF EnactedAdmissionsHold
  <2>3. Registry!EverJoined(c) \subseteq Registry!EverJoined(c)'
    BY SMTT(30), MembersStay
  <2>4. QED
    BY <2>1, <2>2, <2>3
<1>3. ASSUME NEW i \in ProposalIds, proposals'[i] # None, proposals'[i].executed,
             proposals'[i].call.kind = "other"
      PROVE  [id |-> i, call |-> proposals'[i].call.call] \in enacted
  <2>1. i \in Router!ProposalIds
    BY SMTT(30), ConstantTypes DEF Router!ProposalIds, ProposalIds
  <2>2. /\ proposals[i] # None /\ proposals[i].executed
        /\ proposals'[i].call = proposals[i].call
    BY SMTT(30), <1>3, <2>1 DEF Direct, Unmarking
  <2>3. QED
    BY <1>3, <2>2 DEF EnactedAdmissionsHold
<1>4. QED
  BY <1>1, <1>2, <1>3 DEF EnactedAdmissionsHold

\* It changes nothing of a governed club but its members, and these only by an
\* attestation.
LEMMA DirectOnGoverned ==
  ASSUME Direct, NEW c \in ClubIds, Governed(c)
  PROVE  /\ clubs'[c].officers = clubs[c].officers
         /\ \/ Registry!EverJoined(c)' = Registry!EverJoined(c)
            \/ \E id \in Registry!AttestationIds :
                 /\ Registers(id) /\ attestations[id].club = c
                 /\ Registry!EverJoined(c)'
                      = Registry!EverJoined(c) \cup {attestations[id].subject}
<1>1. \A who \in Accounts : who # clubs[c].admin
  BY SMTT(30), ConstantTypes DEF Governed
<1>2. CASE Leaves
  BY <1>2 DEF Leaves, SameOfficers, SameMembers
<1>3. ASSUME NEW who \in Accounts, NEW call \in RegistryCalls, Effect(who, call)
      PROVE  /\ clubs'[c].officers = clubs[c].officers
             /\ Registry!EverJoined(c)' = Registry!EverJoined(c)
  BY Zenon, <1>1, <1>3
     DEF Effect, Admits, Joins, Leaves, Appoints, Dismisses, Attests,
                    SameOfficers, SameMembers
<1>4. ASSUME NEW id \in Registry!AttestationIds, Registers(id)
      PROVE  /\ clubs'[c].officers = clubs[c].officers
             /\ \/ Registry!EverJoined(c)' = Registry!EverJoined(c)
                \/ /\ attestations[id].club = c
                   /\ Registry!EverJoined(c)'
                        = Registry!EverJoined(c) \cup {attestations[id].subject}
  <2>1. PICK subject \in Signers, club \in ClubIds :
          /\ attestations[id].subject = subject /\ attestations[id].club = club
          /\ Joins(subject, club)
    BY <1>4 DEF Registers
  <2>2. QED
    BY <2>1 DEF Joins, SameOfficers
<1>5. QED
  BY <1>2, <1>3, <1>4 DEF Direct

\* The officers of a governed club are there by proposals.
LEMMA OfficerIsMandated ==
  ASSUME Typed, AdminsStay, EnactedIsMarked, GovernedClubIsMandated,
         NEW c \in ClubIds, Governed(c), NEW o \in Accounts,
         Registry!IsOfficerOrAdmin(o, c)
  PROVE  Enacted("add_officer", c, o) # {}
<1>1. o # clubs[c].admin
  BY SMTT(30), ConstantTypes DEF Governed
<1>2. o \in Range(clubs[c].officers)
  BY SMTT(30), <1>1 DEF Registry!IsOfficerOrAdmin, Registry!Range, Range
<1>3. clubs[c].officers \in Seq(Signers)
  BY ConstantTypes
     DEF Typed, Registry!TypeOK, AdminsStay, Registry!ClubInfo
<1>4. Occurrences(clubs[c].officers, o) \in Nat /\ Occurrences(clubs[c].officers, o) >= 1
  BY <1>2, <1>3, OccurrencesType
<1>5. Occurrences(clubs[c].officers, o) <= Cardinality(Enacted("add_officer", c, o))
  BY ConstantTypes DEF GovernedClubIsMandated
<1>6. CASE Enacted("add_officer", c, o) = {}
  <2>1. Cardinality(Enacted("add_officer", c, o)) = 0
    BY <1>6, FS_EmptySet
  <2>2. QED
    BY <1>4, <1>5, <2>1
<1>7. QED
  BY <1>6

\* A step that marks no proposal makes no attestation of a governed club but
\* those of officers.
LEMMA DirectKeepsAttestations ==
  ASSUME Typed, AdminsStay, ClubsStay, EnactedIsMarked, AttestationsMandated,
         GovernedClubIsMandated, Direct
  PROVE  AttestationsMandated'
<1>1. \A club, subject : Attested(club, subject)' <=> Attested(club, subject)
  BY SMTT(30) DEF Attested, Enacted, Direct
<1>2. SUFFICES ASSUME NEW i \in Registry!AttestationIds, attestations'[i] # None,
                      clubs'[attestations'[i].club].admin = PalletAccount
               PROVE  Attested(attestations'[i].club, attestations'[i].subject)
  BY <1>1 DEF AttestationsMandated, Governed
<1>g. \A c \in ClubIds : clubs'[c].admin = PalletAccount => Governed(c)
  BY SMTT(30) DEF AdminsStay, ClubsStay, Governed
<1>3. CASE /\ attestations[i] # None
           /\ attestations'[i].club = attestations[i].club
           /\ attestations'[i].subject = attestations[i].subject
  <2>1. attestations[i].club \in ClubIds
    BY SMTT(30), <1>3, ConstantTypes
       DEF Typed, Registry!TypeOK, Registry!Attestation
  <2>2. Governed(attestations[i].club)
    BY SMTT(30), <1>2, <1>3, <1>g, <2>1
  <2>3. QED
    BY SMTT(30), <1>3, <2>2 DEF AttestationsMandated
<1>4. CASE attestations'[i] = attestations[i]
  BY SMTT(30), <1>2, <1>3, <1>4
<1>5. ASSUME NEW who \in Accounts, NEW club \in ClubIds, NEW subject,
             Attests(who, club, subject)
      PROVE  Attested(attestations'[i].club, attestations'[i].subject)
  <2>1. CASE attestations'[i].club = club /\ attestations'[i].subject = subject
    <3>1. Governed(club)
      BY SMTT(30), <1>2, <1>g, <2>1
    <3>2. Enacted("add_officer", club, who) # {}
      BY <1>5, <3>1, OfficerIsMandated DEF Attests
    <3>3. QED
      BY <2>1, <3>2, ConstantTypes DEF Attested
  <2>2. QED
    BY <1>4, <1>5, <2>1 DEF Attests
<1>6. CASE Leaves
  BY SMTT(30), <1>2, <1>4, <1>6 DEF Leaves
<1>7. ASSUME NEW who \in Accounts, NEW call \in RegistryCalls, Effect(who, call)
      PROVE  Attested(attestations'[i].club, attestations'[i].subject)
  <2>1. call.club \in ClubIds
    BY DEF RegistryCalls
  <2>2. CASE attestations' = attestations
    BY SMTT(30), <1>4, <2>2
  <2>3. QED
    BY Zenon, <1>5, <1>6, <1>7, <2>1, <2>2
       DEF Effect, Admits, Appoints, Dismisses
<1>8. ASSUME NEW id \in Registry!AttestationIds, Registers(id)
      PROVE  Attested(attestations'[i].club, attestations'[i].subject)
  BY SMTT(30), <1>2, <1>3, <1>8 DEF Registers
<1>9. QED
  BY <1>6, <1>7, <1>8 DEF Direct

\* A step that marks no proposal leaves governed clubs mandated.
LEMMA DirectKeepsMandate ==
  ASSUME AdminsStay, ClubsStay, AttestationsMandated, GovernedClubIsMandated, Direct
  PROVE  GovernedClubIsMandated'
<1>1. enacted' = enacted
  BY DEF Direct
<1>2. SUFFICES ASSUME NEW c \in ClubIds, Governed(c)
               PROVE  /\ \A o \in Signers :
                           Occurrences(clubs'[c].officers, o)
                             <= Cardinality(Enacted("add_officer", c, o))
                      /\ \A s \in Registry!EverJoined(c)' :
                           \/ Enacted("add_member_admin", c, s) # {}
                           \/ Attested(c, s)
  BY Zenon, <1>1, GovernedStays DEF GovernedClubIsMandated, Enacted, Attested
<1>3. /\ clubs'[c].officers = clubs[c].officers
      /\ \/ Registry!EverJoined(c)' = Registry!EverJoined(c)
         \/ \E id \in Registry!AttestationIds :
              /\ Registers(id) /\ attestations[id].club = c
              /\ Registry!EverJoined(c)'
                   = Registry!EverJoined(c) \cup {attestations[id].subject}
  BY <1>2, DirectOnGoverned
<1>4. /\ \A o \in Signers :
           Occurrences(clubs[c].officers, o)
             <= Cardinality(Enacted("add_officer", c, o))
      /\ \A s \in Registry!EverJoined(c) :
           \/ Enacted("add_member_admin", c, s) # {}
           \/ Attested(c, s)
  BY <1>2 DEF GovernedClubIsMandated, Attested
<1>5. ASSUME NEW id \in Registry!AttestationIds, Registers(id),
             attestations[id].club = c
      PROVE  Attested(c, attestations[id].subject)
  BY SMTT(30), <1>2, <1>5 DEF AttestationsMandated, Registers
<1>6. QED
  BY <1>3, <1>4, <1>5

\* A proposal whose call is made now has not been enacted, so the enacted
\* calls are one more.
LEMMA EnactedOneMore ==
  ASSUME EnactedIsMarked, NEW i \in ProposalIds, NEW call \in RegistryCalls,
         Enacting(i, call), NEW e, e = [id |-> i, call |-> call]
  PROVE  /\ enacted' = enacted \cup {e}
         /\ \A f \in enacted : f.id # i
         /\ \A name, club, account :
              Enacted(name, club, account)' =
                IF call = [name |-> name, club |-> club, account |-> account]
                THEN Enacted(name, club, account) \cup {e}
                ELSE Enacted(name, club, account)
<1>1. enacted' = enacted \cup {e}
  BY SMTT(30) DEF Enacting
<1>2. \A f \in enacted : f.id # i
  BY DEF EnactedIsMarked, Enacting, Router!Executable
<1>3. e.call = call
  BY SMTT(30)
<1>4. QED
  BY SMTT(30), <1>1, <1>2, <1>3 DEF Enacted

\* Enacting keeps the ids and the marks in order.
LEMMA EnactingKeepsMarks ==
  ASSUME Typed, NoneAhead, EnactedIsMarked, NEW i \in ProposalIds,
         NEW call \in RegistryCalls, Enacting(i, call)
  PROVE  NoneAhead' /\ EnactedIsMarked'
<1>1. /\ nextProposalId' = nextProposalId /\ nextProposalId \in Nat
      /\ i < nextProposalId /\ Marking(i)
      /\ \A j \in Router!ProposalIds : proposals'[j] = proposals[j] \/ Marking(j)
  BY SMTT(30) DEF Enacting
<1>2. NoneAhead'
  <2>1. Router!ProposalIds \subseteq Nat
    BY ConstantTypes DEF Router!ProposalIds
  <2>2. QED
    BY <1>1, <2>1 DEF NoneAhead, Marking
<1>3. PICK e : e = [id |-> i, call |-> call]
  BY Zenon
<1>4. enacted' = enacted \cup {e}
  BY SMTT(30), <1>3, EnactedOneMore
<1>5. IsFiniteSet(enacted')
  BY <1>4, FS_AddElement DEF EnactedIsMarked
<1>6. ASSUME NEW f \in enacted'
      PROVE  /\ f \in [id : ProposalIds, call : RegistryCalls]
             /\ f.id < nextProposalId'
             /\ proposals'[f.id] = None \/ proposals'[f.id].executed
  <2>1. CASE f = e
    BY SMTT(30), <1>1, <1>3, <2>1 DEF Marking
  <2>2. CASE f \in enacted
    <3>1. /\ f \in [id : ProposalIds, call : RegistryCalls]
          /\ f.id < nextProposalId
          /\ proposals[f.id] = None \/ proposals[f.id].executed
      BY <2>2 DEF EnactedIsMarked
    <3>2. f.id \in Router!ProposalIds
      BY SMTT(30), <3>1, ConstantTypes DEF Router!ProposalIds, ProposalIds
    <3>3. QED
      BY SMTT(30), <1>1, <3>1, <3>2 DEF Marking
  <2>3. QED
    BY SMTT(30), <1>4, <2>1, <2>2
<1>7. QED
  BY SMTT(30), <1>2, <1>5, <1>6 DEF EnactedIsMarked

\* Enacting keeps the members that proposals have added, and adds one that
\* was none.
LEMMA EnactingKeepsAdmissions ==
  ASSUME Typed, EnactedIsMarked, EnactedAdmissionsHold, NEW i \in ProposalIds,
         NEW call \in RegistryCalls, Enacting(i, call)
  PROVE  EnactedAdmissionsHold'
<1>1. PICK e : e = [id |-> i, call |-> call]
  BY Zenon
<1>2. enacted' = enacted \cup {e} /\ e.id = i /\ e.call = call
  BY SMTT(30), <1>1, EnactedOneMore
<1>3. ASSUME NEW f \in enacted, f.call.name = "add_member_admin"
      PROVE  /\ f.call.account \in Registry!EverJoined(f.call.club)'
             /\ members[f.call.account] # None
  <2>1. PICK c \in ClubIds : c = f.call.club
    BY SMTT(30) DEF EnactedIsMarked, RegistryCalls
  <2>2. f.call.account \in Registry!EverJoined(c)
    BY <1>3, <2>1 DEF EnactedAdmissionsHold
  <2>3. Registry!EverJoined(c) \subseteq Registry!EverJoined(c)'
    BY MembersStay
  <2>4. QED
    BY <2>1, <2>2, <2>3 DEF Registry!EverJoined
<1>4. ASSUME call.name = "add_member_admin"
      PROVE  /\ call.account \in Registry!EverJoined(call.club)'
             /\ members[call.account] = None
  BY Zenon, <1>4 DEF Enacting, Effect, Admits, Joins
<1>5. ASSUME NEW f \in enacted', f.call.name = "add_member_admin"
      PROVE  /\ f.call.account \in Registry!EverJoined(f.call.club)'
             /\ \A g \in enacted' :
                  g.call.name = "add_member_admin" /\ g.call.account = f.call.account
                    => g.id = f.id
  <2>1. f.call.account \in Registry!EverJoined(f.call.club)'
    BY SMTT(30), <1>2, <1>3, <1>4, <1>5
  <2>2. ASSUME NEW g \in enacted', g.call.name = "add_member_admin",
               g.call.account = f.call.account
        PROVE  g.id = f.id
    <3>1. CASE f \in enacted /\ g \in enacted
      BY <1>5, <2>2, <3>1 DEF EnactedAdmissionsHold
    <3>2. QED
      BY SMTT(30), <1>2, <1>3, <1>4, <1>5, <2>2, <3>1
  <2>3. QED
    BY SMTT(30), <2>1, <2>2
<1>6. ASSUME NEW j \in ProposalIds, proposals'[j] # None, proposals'[j].executed,
             proposals'[j].call.kind = "other"
      PROVE  [id |-> j, call |-> proposals'[j].call.call] \in enacted'
  <2>1. CASE j = i
    BY SMTT(30), <1>1, <1>2, <2>1 DEF Enacting, Marking
  <2>2. CASE j # i
    <3>1. j \in Router!ProposalIds \ {i}
      BY SMTT(30), <2>2, ConstantTypes DEF Router!ProposalIds, ProposalIds
    <3>2. proposals'[j] = proposals[j]
      BY SMTT(30), <1>6, <3>1 DEF Enacting, Marking
    <3>3. QED
      BY <1>2, <1>6, <3>2 DEF EnactedAdmissionsHold
  <2>3. QED
    BY SMTT(30), <2>1, <2>2
<1>7. QED
  BY <1>5, <1>6 DEF EnactedAdmissionsHold

\* What proposals have done stays on record.
LEMMA MandatesStay ==
  ASSUME EnactedIsMarked, NEW i \in ProposalIds, NEW call \in RegistryCalls,
         Enacting(i, call), NEW name, NEW club, NEW account
  PROVE  /\ Enacted(name, club, account) \subseteq Enacted(name, club, account)'
         /\ call = [name |-> name, club |-> club, account |-> account]
              => Enacted(name, club, account)' # {}
         /\ IsFiniteSet(Enacted(name, club, account))
         /\ Cardinality(Enacted(name, club, account)) \in Nat
         /\ Cardinality(Enacted(name, club, account)') =
              IF call = [name |-> name, club |-> club, account |-> account]
              THEN Cardinality(Enacted(name, club, account)) + 1
              ELSE Cardinality(Enacted(name, club, account))
<1>1. PICK e : e = [id |-> i, call |-> call]
  BY Zenon
<1>2. PICK old : old = Enacted(name, club, account)
  OBVIOUS
<1>3. /\ e \notin enacted
      /\ Enacted(name, club, account)' =
           IF call = [name |-> name, club |-> club, account |-> account]
           THEN old \cup {e} ELSE old
  BY SMTT(30), <1>1, <1>2, EnactedOneMore
<1>4. old \in SUBSET enacted /\ e \notin old
  BY <1>2, <1>3 DEF Enacted
<1>5. IsFiniteSet(old)
  BY SMTT(30), <1>4, FS_Subset DEF EnactedIsMarked
<1>6. Cardinality(old) \in Nat /\ Cardinality(old \cup {e}) = Cardinality(old) + 1
  BY <1>4, <1>5, FS_CardinalityType, FS_AddElement
<1>7. QED
  BY <1>2, <1>3, <1>5, <1>6

\* Enacting makes no attestation of a governed club but with a mandate.
LEMMA EnactingKeepsAttestations ==
  ASSUME Typed, AdminsStay, ClubsStay, EnactedIsMarked, AttestationsMandated,
         NEW i \in ProposalIds, NEW call \in RegistryCalls, Enacting(i, call)
  PROVE  AttestationsMandated'
<1>1. ASSUME NEW club, NEW subject, Attested(club, subject)
      PROVE  Attested(club, subject)'
  BY SMTT(30), <1>1, MandatesStay DEF Attested
<1>2. SUFFICES ASSUME NEW k \in Registry!AttestationIds, attestations'[k] # None,
                      clubs'[attestations'[k].club].admin = PalletAccount,
                      NEW c, c = attestations'[k].club,
                      NEW s, s = attestations'[k].subject
               PROVE  Attested(c, s)'
  BY DEF AttestationsMandated, Governed, Attested, Enacted
<1>3. CASE attestations'[k] = attestations[k]
  <2>1. c \in ClubIds
    BY <1>2, <1>3, ConstantTypes
       DEF Typed, Registry!TypeOK, Registry!Attestation
  <2>2. Governed(c)
    BY Zenon, <1>2, <2>1 DEF AdminsStay, ClubsStay, Governed
  <2>3. Attested(c, s)
    BY Zenon, <1>2, <1>3, <2>2 DEF AttestationsMandated
  <2>4. QED
    BY SMTT(30), <1>1, <2>3
<1>4. CASE /\ call.name = "create_attestation"
           /\ call.club = c /\ call.account = s
  <2>1. call = [name |-> "create_attestation", club |-> c, account |-> s]
    BY SMTT(30), <1>4 DEF RegistryCalls
  <2>2. Enacted("create_attestation", c, s)' # {}
    BY <2>1, MandatesStay
  <2>3. QED
    BY <2>2 DEF Attested
<1>5. QED
  BY Zenon, <1>2, <1>3, <1>4
     DEF Enacting, Effect, Admits, Leaves, Appoints, Dismisses, Attests

\* Enacting changes a governed club by what is put on record.
LEMMA EnactingKeepsMandate ==
  ASSUME Typed, AdminsStay, ClubsStay, EnactedIsMarked, GovernedClubIsMandated,
         NEW i \in ProposalIds, NEW call \in RegistryCalls, Enacting(i, call)
  PROVE  GovernedClubIsMandated'
<1>1. SUFFICES ASSUME NEW c \in ClubIds, Governed(c)
               PROVE  /\ \A o \in Signers :
                           Occurrences(clubs'[c].officers, o)
                             <= Cardinality(Enacted("add_officer", c, o)')
                      /\ \A s \in Registry!EverJoined(c)' :
                           \/ Enacted("add_member_admin", c, s)' # {}
                           \/ Attested(c, s)'
  BY Zenon, GovernedStays DEF GovernedClubIsMandated, Enacted, Attested
<1>2. ASSUME NEW o \in Signers
      PROVE  Occurrences(clubs'[c].officers, o)
               <= Cardinality(Enacted("add_officer", c, o)')
  <2>1. PICK v \in Seq(Signers) : v = clubs[c].officers
    BY Zenon, ConstantTypes
       DEF Typed, Registry!TypeOK, AdminsStay, Registry!ClubInfo
  <2>2. /\ Occurrences(v, o) \in Nat
        /\ Occurrences(v, o) <= Cardinality(Enacted("add_officer", c, o))
    BY SMTT(30), <1>1, <2>1, OccurrencesType DEF GovernedClubIsMandated
  <2>3. /\ Cardinality(Enacted("add_officer", c, o)) \in Nat
        /\ Cardinality(Enacted("add_officer", c, o)') =
             IF call = [name |-> "add_officer", club |-> c, account |-> o]
             THEN Cardinality(Enacted("add_officer", c, o)) + 1
             ELSE Cardinality(Enacted("add_officer", c, o))
    BY SMTT(30), MandatesStay
  <2>4. CASE clubs'[c].officers = v
    BY SMTT(30), <2>2, <2>3, <2>4
  <2>5. CASE /\ call.name = "add_officer" /\ call.club = c
             /\ clubs'[c].officers = Append(v, call.account)
    <3>1. PICK a \in Signers : a = call.account
      BY SMTT(30) DEF RegistryCalls
    <3>2. Occurrences(Append(v, a), o)
            = IF o = a THEN Occurrences(v, o) + 1 ELSE Occurrences(v, o)
      BY AppendOccurs
    <3>3. o = a => call = [name |-> "add_officer", club |-> c, account |-> o]
      BY SMTT(30), <2>5, <3>1 DEF RegistryCalls
    <3>4. QED
      BY <2>2, <2>3, <2>5, <3>1, <3>2, <3>3
  <2>6. CASE clubs'[c].officers = Registry!RemoveFirstBySwap(v, call.account)
    <3>1. /\ Registry!RemoveFirstBySwap(v, call.account) \in Seq(Signers)
          /\ Occurrences(Registry!RemoveFirstBySwap(v, call.account), o)
               <= Occurrences(v, o)
      BY RemovalOccurs
    <3>2. Occurrences(Registry!RemoveFirstBySwap(v, call.account), o) \in Nat
      BY <3>1, OccurrencesType
    <3>3. QED
      BY <2>2, <2>3, <2>6, <3>1, <3>2
  <2>7. QED
    BY Zenon, <2>1, <2>4, <2>5, <2>6
       DEF Enacting, Effect, Admits, Joins, Leaves, Appoints, Dismisses, Attests,
           SameOfficers
<1>3. ASSUME NEW s \in Registry!EverJoined(c)'
      PROVE  \/ Enacted("add_member_admin", c, s)' # {}
             \/ Attested(c, s)'
  <2>1. CASE s \in Registry!EverJoined(c)
    <3>1. Enacted("add_member_admin", c, s) # {} \/ Attested(c, s)
      BY SMTT(30), <1>1, <2>1 DEF GovernedClubIsMandated, Attested
    <3>2. QED
      BY SMTT(30), <3>1, MandatesStay DEF Attested
  <2>2. CASE /\ call.name = "add_member_admin"
             /\ call.club = c /\ call.account = s
    <3>1. call = [name |-> "add_member_admin", club |-> c, account |-> s]
      BY <2>2 DEF RegistryCalls
    <3>2. QED
      BY <3>1, MandatesStay
  <2>3. QED
    BY Zenon, <1>3, <2>1, <2>2
       DEF Enacting, Effect, Admits, Joins, Leaves, Appoints, Dismisses, Attests,
           SameMembers
<1>4. QED
  BY SMTT(30), <1>2, <1>3

\* Everything but the types is preserved by every step.
LEMMA InvStep ==
  ASSUME Inv, [Next]_vars
  PROVE  /\ NoneAhead' /\ EnactedIsMarked' /\ AdminsStay'
         /\ AttestationsMandated' /\ EnactedAdmissionsHold'
         /\ GovernedClubIsMandated'
<1>1. /\ Typed /\ NoneAhead /\ EnactedIsMarked /\ AdminsStay
      /\ AttestationsMandated /\ EnactedAdmissionsHold /\ GovernedClubIsMandated
  BY DEF Inv
<1>2. /\ ClubsStay
      /\ Direct \/ \E i \in ProposalIds, call \in RegistryCalls : Enacting(i, call)
  BY <1>1, StepKinds
<1>3. AdminsStay'
  BY <1>1, <1>2, GovernedStays
<1>4. CASE Direct
  BY <1>1, <1>2, <1>3, <1>4, DirectKeepsMarks, DirectKeepsAdmissions,
     DirectKeepsAttestations, DirectKeepsMandate
<1>5. ASSUME NEW i \in ProposalIds, NEW call \in RegistryCalls, Enacting(i, call)
      PROVE  /\ NoneAhead' /\ EnactedIsMarked' /\ AttestationsMandated'
             /\ EnactedAdmissionsHold' /\ GovernedClubIsMandated'
  BY <1>1, <1>2, <1>5, EnactingKeepsMarks, EnactingKeepsAdmissions,
     EnactingKeepsAttestations, EnactingKeepsMandate
<1>6. QED
  BY <1>2, <1>3, <1>4, <1>5

\* The step marks executed a passed proposal with exactly this call.
Executes(c, name, account) ==
  \E i \in ProposalIds :
    /\ proposals[i] # None
    /\ ~proposals[i].executed /\ proposals'[i].executed
    /\ block > proposals[i].end /\ Router!Passed(proposals[i])
    /\ proposals[i].call.kind = "other"
    /\ proposals[i].call.call =
         [name |-> name, club |-> c, account |-> account]

\* Enacting executes the proposal it makes the call of.
LEMMA EnactingExecutes ==
  ASSUME NEW i \in ProposalIds, NEW call \in RegistryCalls, Enacting(i, call)
  PROVE  Executes(call.club, call.name, call.account)
<1>1. call = [name |-> call.name, club |-> call.club, account |-> call.account]
  BY DEF RegistryCalls
<1>2. QED
  BY SMTT(30), <1>1 DEF Executes, Enacting, Marking, Router!Executable

\* Every step leaves the officers of a governed club as they are, and its
\* members unless there is an attestation, or executes a proposal to the effect.
LEMMA ChangedStep ==
  ASSUME Inv, [Next]_vars, NEW c \in ClubIds, Governed(c)
  PROVE  /\ clubs'[c].officers # clubs[c].officers =>
              \E o \in Signers, name \in {"add_officer", "remove_officer"} :
                Executes(c, name, o)
         /\ \A s \in Signers :
              /\ members[s] = None /\ members'[s] # None
              /\ c \in Range(members'[s].clubs)
              /\ attestations' = attestations
              => Executes(c, "add_member_admin", s)
<1>1. Direct \/ \E i \in ProposalIds, call \in RegistryCalls : Enacting(i, call)
  BY SMTT(30), StepKinds DEF Inv
<1>2. ASSUME NEW s \in Signers, members[s] = None, members'[s] # None,
             c \in Range(members'[s].clubs)
      PROVE  s \in Registry!EverJoined(c)' /\ s \notin Registry!EverJoined(c)
  BY <1>2 DEF Registry!EverJoined, Range, Registry!Range
<1>3. CASE Direct
  BY Zenon, <1>2, <1>3, DirectOnGoverned DEF Registers
<1>4. ASSUME NEW i \in ProposalIds, NEW call \in RegistryCalls, Enacting(i, call)
      PROVE  /\ clubs'[c].officers # clubs[c].officers =>
                  \E o \in Signers, name \in {"add_officer", "remove_officer"} :
                    Executes(c, name, o)
             /\ \A s \in Registry!EverJoined(c)' \ Registry!EverJoined(c) :
                  Executes(c, "add_member_admin", s)
  <2>1. Executes(call.club, call.name, call.account) /\ call.account \in Signers
    BY <1>4, EnactingExecutes DEF RegistryCalls
  <2>2. clubs'[c].officers # clubs[c].officers =>
          call.club = c /\ call.name \in {"add_officer", "remove_officer"}
    BY Zenon, <1>4
       DEF Enacting, Effect, Admits, Joins, Leaves, Appoints, Dismisses,
                Attests, SameOfficers
  <2>3. \A s \in Registry!EverJoined(c)' \ Registry!EverJoined(c) :
          call.club = c /\ call.name = "add_member_admin" /\ call.account = s
    BY Zenon, <1>4
       DEF Enacting, Effect, Admits, Joins, Leaves, Appoints, Dismisses,
                Attests, SameMembers
  <2>4. QED
    BY Zenon, <2>1, <2>2, <2>3
<1>5. QED
  BY Zenon, <1>1, <1>2, <1>3, <1>4

-----------------------------------------------------------------------------
(* The composition takes steps of both pallets *)

\* A step of the composition is one of the router, or leaves it alone.
LEMMA RouterSteps ==
  ASSUME [Next]_vars
  PROVE  [Router!Next]_(Router!vars)
<1>1. /\ ProposalIds \subseteq Router!ProposalIds /\ Voters \subseteq Accounts
  BY GovernanceConstants DEF ProposalIds, Router!ProposalIds
<1>2. CASE RouterCall
  <2>1. CASE \E call \in Calls : Router!Propose(None, call, None, None, None)
    BY <2>1 DEF Router!Next
  <2>2. CASE \E who \in Voters, id \in ProposalIds, aye \in BOOLEAN :
               Router!Vote(who, id, aye)
    BY <1>1, <2>2 DEF Router!Next
  <2>3. CASE \E origin \in Accounts \cup {Root}, id \in ProposalIds :
               Router!Cancel(origin, id)
    BY <1>1, <2>3 DEF Router!Next
  <2>4. QED
    BY <1>2, <2>1, <2>2, <2>3 DEF RouterCall
<1>3. CASE \E id \in ProposalIds : Enact(id)
  <2>1. PICK id \in ProposalIds, chain \in Router!Chains :
          ReachesRegistry(chain, id) /\ Router!DispatchesOther(chain, id)
    BY SMTT(30), <1>3 DEF Enact
  <2>2. /\ Router!Executable(proposals[Router!Innermost(chain)])
        /\ proposals[Router!Innermost(chain)].call.kind = "other"
    BY SMTT(30), <2>1, NestingFacts DEF ReachesRegistry
  <2>3. Router!ExecuteOther(id)
    BY SMTT(30), <2>1, <2>2 DEF Router!ExecuteOther, Router!Executable
  <2>4. QED
    BY <1>1, <2>3 DEF Router!Next, Router!Execute
<1>4. CASE \E id \in ProposalIds : EnactFails(id)
  BY <1>1, <1>4 DEF EnactFails, Router!ExecuteFails, Router!Next, Router!Execute
<1>5. CASE NewBlock
  BY SMTT(30), <1>5 DEF NewBlock, Router!Next
<1>6. CASE RegistryCall \/ UNCHANGED vars
  BY <1>6 DEF RegistryCall, vars, routerVars, Router!vars
<1>7. QED
  BY SMTT(30), <1>2, <1>3, <1>4, <1>5, <1>6 DEF Next

\* A step of the composition is one of the registry, or leaves it alone.
LEMMA RegistrySteps ==
  ASSUME Typed, NoneAhead, [Next]_vars
  PROVE  [Registry!Next]_(Registry!vars)
<1>1. /\ Registry!ClubIds = ClubIds /\ Accounts \subseteq Signers
      /\ Candidates \subseteq Signers /\ PalletAccount \in Signers
      /\ Registry!AttestationIds = 0..AttestationIdMax
      /\ Expiries \cup {None} \subseteq Registry!Moments \cup {None}
  BY SMTT(30), ConstantTypes, GovernanceConstants DEF Registry!AttestationIds
<1>2. ASSUME NEW who \in Signers, NEW account \in Signers, NEW club \in ClubIds,
             NEW expires_at \in Expiries \cup {None},
             \/ Registry!AddOfficer(who, club, account)
             \/ Registry!RemoveOfficer(who, club, account)
             \/ Registry!AddMemberAdmin(who, account, club)
             \/ Registry!RemoveMemberAdmin(who, account, club)
             \/ Registry!CreateAttestation(who, account, club, expires_at)
      PROVE  Registry!Next
  BY SMTT(30), <1>1, <1>2 DEF Registry!Next
<1>3. CASE RegistryCall
  <2>1. CASE \E who \in Accounts, id \in 0..AttestationIdMax :
               \/ Registry!RegisterMember(who, id)
               \/ Registry!RevokeAttestation(who, id)
    BY SMTT(30), <1>1, <2>1 DEF Registry!Next
  <2>2. CASE \E who \in Accounts, club \in ClubIds, account \in Candidates :
               \/ Registry!AddOfficer(who, club, account)
               \/ Registry!RemoveOfficer(who, club, account)
               \/ Registry!AddMemberAdmin(who, account, club)
               \/ Registry!RemoveMemberAdmin(who, account, club)
               \/ \E expires_at \in Expiries :
                    Registry!CreateAttestation(who, account, club, expires_at)
    <3>1. PICK who \in Signers, club \in ClubIds, account \in Signers,
               expires_at \in Expiries \cup {None} :
             \/ Registry!AddOfficer(who, club, account)
             \/ Registry!RemoveOfficer(who, club, account)
             \/ Registry!AddMemberAdmin(who, account, club)
             \/ Registry!RemoveMemberAdmin(who, account, club)
             \/ Registry!CreateAttestation(who, account, club, expires_at)
      BY SMTT(30), <1>1, <2>2
    <3>2. QED
      BY SMTT(30), <1>2, <3>1
  <2>3. QED
    BY SMTT(30), <1>3, <2>1, <2>2 DEF RegistryCall
<1>4. CASE \E id \in ProposalIds : Enact(id)
  <2>1. PICK id \in ProposalIds, chain \in Router!Chains :
          /\ ReachesRegistry(chain, id) /\ Router!DispatchesOther(chain, id)
          /\ Dispatch(CallOf(chain))
    BY SMTT(30), <1>4 DEF Enact
  <2>2. CallOf(chain) \in RegistryCalls
    BY <2>1, EnactEffect DEF Typed
  <2>3. PICK call \in RegistryCalls : call = CallOf(chain)
    BY <2>2
  <2>4. /\ Dispatch(call) /\ call.account \in Signers /\ call.club \in ClubIds
    BY SMTT(30), <2>1, <2>3 DEF RegistryCalls
  <2>5. QED
    BY SMTT(30), <1>1, <1>2, <2>4 DEF Dispatch
<1>5. CASE NewBlock
  BY <1>5 DEF NewBlock, Registry!Next
<1>6. CASE \/ RouterCall \/ UNCHANGED vars
           \/ \E id \in ProposalIds : EnactFails(id)
  BY Zenon, <1>6 DEF RouterCall, EnactFails, vars, registryVars, Registry!vars
<1>7. QED
  BY <1>3, <1>4, <1>5, <1>6 DEF Next

\* The state Root leaves satisfies the invariant.
LEMMA InitInv == Init => Inv
<1> SUFFICES ASSUME Init PROVE Inv
  BY SMTT(30)
<1>1. Registry!TypeOK
  <2>1. \A c \in ClubIds :
          [admin |-> Admins[c], officers |-> <<>>, members_count |-> 0]
            \in Registry!ClubInfo
    BY GovernanceConstants, ConstantTypes DEF Registry!ClubInfo
  <2>2. /\ members \in [Signers -> Registry!MemberInfo \cup {None}]
        /\ \A a \in Signers : members[a] = None
    BY SMTT(30) DEF Init
  <2>3. /\ clubs \in [ClubIds -> Registry!ClubInfo \cup {None}]
        /\ \A c \in ClubIds : clubs[c].officers = <<>>
    BY SMTT(30), <2>1 DEF Init
  <2>4. /\ nextClubId \in Registry!ClubIds /\ now \in Registry!Moments
        /\ nextAttestationId \in Registry!AttestationIds
        /\ attestations \in
             [Registry!AttestationIds -> Registry!Attestation \cup {None}]
    BY SMTT(30), ConstantTypes
       DEF Init, Registry!ClubIds, Registry!Moments, Registry!AttestationIds
  <2>5. Len(<<>>) <= MaxOfficers
    BY SMTT(30), GovernanceConstants
  <2>6. QED
    BY SMTT(30), <2>2, <2>3, <2>4, <2>5, ConstantTypes DEF Registry!TypeOK
<1>2. Router!TypeOK
  BY SMTT(30), ConstantTypes
     DEF Init, Router!Init, Router!TypeOK, Router!ProposalIds, Router!Blocks,
         Router!Stored
<1>3. NoneAhead /\ EnactedIsMarked
  BY SMTT(30), FS_EmptySet DEF NoneAhead, EnactedIsMarked, Init, Router!Init
<1>4. /\ AdminsStay
      /\ \A c \in ClubIds : clubs[c].officers = <<>>
  <2>1. \A c \in ClubIds :
          [admin |-> Admins[c], officers |-> <<>>, members_count |-> 0]
            \in Registry!ClubInfo
    BY GovernanceConstants, ConstantTypes DEF Registry!ClubInfo
  <2>2. QED
    BY <2>1, ConstantTypes DEF Init, AdminsStay
<1>5. AttestationsMandated /\ EnactedAdmissionsHold
  BY SMTT(30), ConstantTypes
     DEF AttestationsMandated, EnactedAdmissionsHold, Init, Router!Init,
         Registry!AttestationIds, Router!ProposalIds, ProposalIds
<1>6. GovernedClubIsMandated
  <2>1. \A c : Registry!EverJoined(c) = {}
    BY DEF Init, Registry!EverJoined
  <2>2. ASSUME NEW o
        PROVE  Occurrences(<<>>, o) = 0
    BY FS_EmptySet DEF Occurrences
  <2>3. ASSUME NEW c, NEW o
        PROVE  Cardinality(Enacted("add_officer", c, o)) = 0
    <3>1. Enacted("add_officer", c, o) = {}
      BY SMTT(30) DEF Enacted, Init
    <3>2. QED
      BY SMTT(30), <3>1, FS_EmptySet
  <2>4. QED
    BY SMTT(30), <1>4, <2>1, <2>2, <2>3 DEF GovernedClubIsMandated
<1>7. QED
  BY <1>1, <1>2, <1>3, <1>4, <1>5, <1>6 DEF Inv, Typed

\* It satisfies what the registry promises, although it is not the registry's
\* empty storage.
LEMMA InitPromises ==
  Init => /\ Registry!StorageCoherent /\ Registry!UsedAttestationsAdmitOnce
          /\ Registry!CountWithinJoined
<1> SUFFICES ASSUME Init
             PROVE  /\ Registry!StorageCoherent /\ Registry!UsedAttestationsAdmitOnce
                    /\ Registry!CountWithinJoined
  OBVIOUS
<1>1. AdminsStay
  BY SMTT(30), InitInv DEF Inv
<1>2. /\ nextClubId = ClubIdMax /\ ClubIds = 0..ClubIdMax
      /\ Registry!ClubIds = ClubIds
      /\ \A i \in Registry!AttestationIds : attestations[i] = None
      /\ \A a \in Signers : members[a] = None
  BY SMTT(30), ConstantTypes DEF Init, Registry!AttestationIds, Registry!ClubIds
<1>3. \A c \in Registry!ClubIds :
        /\ c < nextClubId => clubs[c] # None
        /\ clubs[c] # None => c < nextClubId \/ c = ClubIdMax
  BY SMTT(30), <1>1, <1>2, ConstantTypes DEF AdminsStay
<1>4. Registry!StorageCoherent /\ Registry!UsedAttestationsAdmitOnce
  BY SMTT(30), <1>2, <1>3
     DEF Registry!StorageCoherent, Registry!UsedAttestationsAdmitOnce
<1>5. ASSUME NEW c \in ClubIds
      PROVE  clubs[c].members_count <= Registry!Cardinality(Registry!EverJoined(c))
  <2>1. Registry!EverJoined(c) = {}
    BY SMTT(30), <1>2 DEF Registry!EverJoined
  <2>2. clubs[c].members_count = 0
    BY DEF Init
  <2>3. Registry!Cardinality({}) = Cardinality({})
    BY Zenon DEF Registry!Cardinality, Cardinality
  <2>4. Registry!Cardinality({}) = 0
    BY <2>3, FS_EmptySet
  <2>5. QED
    BY SMTT(30), <2>1, <2>2, <2>4
<1>6. QED
  BY <1>2, <1>4, <1>5 DEF Registry!CountWithinJoined

-----------------------------------------------------------------------------
(* What is proved of the pallets holds of the composition *)

RP == INSTANCE MemberRegistryProofs
  WITH Accounts <- Signers, RootClubAdminOrigin <- {Root}, Roles <- {},
       MaxRoles <- 0, MomentMax <- BlockMax

\* The registry's assumptions hold of what the composition gives it.
LEMMA RegistryAssumptions == RP!RegistryConstants /\ RP!NoneIsNoRecord
<1>1. IsFiniteSet(Signers)
  BY GovernanceConstants, FS_AddElement DEF Signers
<1>2. RP!RegistryConstants
  <2>1. RP!IsFiniteSet(Signers)
    BY SMTT(30), <1>1 DEF RP!IsFiniteSet, IsFiniteSet
  <2>2. QED
    BY <2>1, GovernanceConstants DEF RP!RegistryConstants, RP!Origins
<1>3. RP!NoneIsNoRecord
  BY SMTT(30), GovernanceConstants
     DEF RP!NoneIsNoRecord, Registry!MemberInfo, RP!MemberInfo,
         Registry!ClubInfo, RP!ClubInfo, Registry!Attestation, RP!Attestation,
         Registry!Moments, RP!Moments, Registry!ClubIds, RP!ClubIds,
         Registry!MemberStatus, RP!MemberStatus
<1>4. QED
  BY <1>2, <1>3

\* The registry that the proofs are about is the composition's.
LEMMA SameRegistry ==
  /\ Registry!TypeOK <=> RP!TypeOK
  /\ Registry!TypeOK' <=> RP!TypeOK'
  /\ [Registry!Next]_(Registry!vars) <=> [RP!Next]_(RP!vars)
<1>1. Registry!TypeOK <=> RP!TypeOK
  BY Zenon DEF Registry!TypeOK, RP!TypeOK, Registry!MemberInfo, RP!MemberInfo,
               Registry!ClubInfo, RP!ClubInfo, Registry!Attestation,
               RP!Attestation, Registry!MemberStatus, RP!MemberStatus,
               Registry!ClubIds, RP!ClubIds, Registry!AttestationIds,
               RP!AttestationIds, Registry!Moments, RP!Moments
<1>2. Registry!TypeOK' <=> RP!TypeOK'
  BY Zenon DEF Registry!TypeOK, RP!TypeOK, Registry!MemberInfo, RP!MemberInfo,
               Registry!ClubInfo, RP!ClubInfo, Registry!Attestation,
               RP!Attestation, Registry!MemberStatus, RP!MemberStatus,
               Registry!ClubIds, RP!ClubIds, Registry!AttestationIds,
               RP!AttestationIds, Registry!Moments, RP!Moments
<1>3. Registry!Next <=> RP!Next
  BY Zenon DEF Registry!Next, RP!Next, Registry!CreateClub, RP!CreateClub,
               Registry!AddOfficer, RP!AddOfficer, Registry!RemoveOfficer,
               RP!RemoveOfficer, Registry!CreateAttestation,
               RP!CreateAttestation, Registry!RegisterMember,
               RP!RegisterMember, Registry!AddMemberAdmin, RP!AddMemberAdmin,
               Registry!RemoveMemberAdmin, RP!RemoveMemberAdmin,
               Registry!SetRole, RP!SetRole, Registry!RevokeAttestation,
               RP!RevokeAttestation, Registry!Tick, RP!Tick, Registry!Origins,
               RP!Origins, Registry!ClubIds, RP!ClubIds,
               Registry!AttestationIds, RP!AttestationIds, Registry!Moments,
               RP!Moments, Registry!SaturatingInc, RP!SaturatingInc,
               Registry!SaturatingDec, RP!SaturatingDec, Registry!SwapRemove,
               RP!SwapRemove, Registry!FirstIndex, RP!FirstIndex,
               Registry!RemoveFirstBySwap, RP!RemoveFirstBySwap,
               Registry!Range, RP!Range, Registry!IsOfficerOrAdmin,
               RP!IsOfficerOrAdmin, Registry!IsMember, RP!IsMember,
               Registry!IsClubAdmin, RP!IsClubAdmin, Registry!NotExpired,
               RP!NotExpired, Registry!AttestorStillAuthorized,
               RP!AttestorStillAuthorized, Registry!NewMember, RP!NewMember,
               Registry!CountOneMore, RP!CountOneMore, Registry!CountOneLess,
               RP!CountOneLess
<1>4. [Registry!Next]_(Registry!vars) <=> [RP!Next]_(RP!vars)
  BY SMTT(30), <1>3 DEF Registry!vars, RP!vars
<1>5. QED
  BY <1>1, <1>2, <1>4

\* A step of the registry keeps its types.
LEMMA RegistryTypeStep ==
  Registry!TypeOK /\ [Registry!Next]_(Registry!vars) => Registry!TypeOK'
BY SameRegistry, RegistryAssumptions, RP!TypeStep

\* What the registry promises of its states.
RegistryPromises ==
  /\ Registry!StorageCoherent /\ Registry!UsedAttestationsAdmitOnce
  /\ Registry!CountWithinJoined

\* The same of the registry that the proofs are about.
ProvedPromises ==
  /\ RP!ClubIdsCoherent /\ RP!AttestationIdsCoherent /\ RP!MembersCoherent
  /\ RP!UsedAttestationsAdmitOnce /\ RP!CountWithinJoined

\* The two are one.
LEMMA SamePromises ==
  /\ RegistryPromises <=> ProvedPromises
  /\ RegistryPromises' <=> ProvedPromises'
BY Zenon DEF RegistryPromises, ProvedPromises, Registry!StorageCoherent,
   RP!ClubIdsCoherent, RP!AttestationIdsCoherent, RP!MembersCoherent,
   Registry!UsedAttestationsAdmitOnce, RP!UsedAttestationsAdmitOnce,
   Registry!CountWithinJoined, RP!CountWithinJoined,
   Registry!EverJoined, RP!EverJoined, Registry!Range, RP!Range,
   Registry!Cardinality, RP!Cardinality, Registry!ClubIds, RP!ClubIds,
   Registry!AttestationIds, RP!AttestationIds

\* A step of the registry keeps its promises.
LEMMA PromisesStep ==
  Registry!TypeOK /\ RegistryPromises /\ [Registry!Next]_(Registry!vars)
    => RegistryPromises'
<1> SUFFICES ASSUME Registry!TypeOK, RegistryPromises,
                    [Registry!Next]_(Registry!vars)
             PROVE  ProvedPromises'
  BY SMTT(30), SamePromises
<1>1. RP!TypeOK /\ [RP!Next]_(RP!vars) /\ ProvedPromises
  BY SMTT(30), SameRegistry, SamePromises
<1>2. RP!UsedAttestationsAdmitOnce' /\ RP!CountWithinJoined'
  BY <1>1, RegistryAssumptions, RP!UsedStep, RP!CountStep DEF ProvedPromises
<1>3. /\ RP!ClubIdsCoherent' /\ RP!AttestationIdsCoherent' /\ RP!MembersCoherent'
  BY <1>1, RegistryAssumptions, RP!ClubIdsStep, RP!AttestationIdsStep,
     RP!MembersStep DEF ProvedPromises
<1>4. QED
  BY SMTT(30), <1>2, <1>3 DEF ProvedPromises

-----------------------------------------------------------------------------
PP == INSTANCE ProposalRouterProofs
  WITH RouterAdminOrigin <- {Root}, MaxClubIndex <- ProposalIdMax,
       DefaultVotingPeriod <- 0, OtherCalls <- RegistryCalls,
       VotingPeriods <- {None}, Quorums <- {None}, PassThresholds <- {None}

\* The router's assumptions hold of what the composition gives it.
LEMMA RouterAssumptions == PP!RouterConstants
<1>1. None \notin ClubIds /\ 0 \in 0..BlockMax
  BY SMTT(30), GovernanceConstants
<1>2. PP!Signers = Signers /\ PP!Origins = Signers \cup {Root}
  BY SMTT(30) DEF PP!Signers, PP!Origins, Signers
<1>3. /\ PP!Call = Router!Call /\ PP!Proposal = Router!Proposal
      /\ PP!Votes = Router!Votes /\ PP!Blocks = 0..BlockMax
  BY SMTT(30)
     DEF Router!Call, PP!Call, Router!Proposal, PP!Proposal, Router!Votes,
         PP!Votes, Router!Blocks, PP!Blocks, Router!ProposalIds,
         PP!ProposalIds, Router!Signers, PP!Signers
<1>4. QED
  BY <1>1, <1>2, <1>3, GovernanceConstants DEF PP!RouterConstants

\* The router that the proofs are about is the composition's.
LEMMA SameRouter ==
  /\ Router!Init <=> PP!Init
  /\ Router!TypeOK <=> PP!TypeOK
  /\ Router!TypeOK' <=> PP!TypeOK'
  /\ [Router!Next]_(Router!vars) <=> [PP!Next]_(PP!vars)
<1>1. Router!Init <=> PP!Init
  BY Zenon DEF Router!Init, PP!Init, Router!ProposalIds, PP!ProposalIds
<1>2. Router!TypeOK <=> PP!TypeOK
  BY Zenon DEF Router!TypeOK, PP!TypeOK, Router!Stored, PP!Stored,
               Router!Signers, PP!Signers, Router!ProposalIds, PP!ProposalIds,
               Router!Blocks, PP!Blocks, Router!Votes, PP!Votes, Router!Call,
               PP!Call, Router!Proposal, PP!Proposal
<1>3. Router!TypeOK' <=> PP!TypeOK'
  BY Zenon DEF Router!TypeOK, PP!TypeOK, Router!Stored, PP!Stored,
               Router!Signers, PP!Signers, Router!ProposalIds, PP!ProposalIds,
               Router!Blocks, PP!Blocks, Router!Votes, PP!Votes, Router!Call,
               PP!Call, Router!Proposal, PP!Proposal
<1>4. Router!Next <=> PP!Next
  BY Zenon DEF Router!Next, PP!Next, Router!Propose, PP!Propose, Router!Vote,
               PP!Vote, Router!Cancel, PP!Cancel, Router!Execute, PP!Execute,
               Router!ExecuteOther, PP!ExecuteOther, Router!ExecutePropose,
               PP!ExecutePropose, Router!ExecuteVote, PP!ExecuteVote,
               Router!ExecuteCancel, PP!ExecuteCancel, Router!ExecuteFails,
               PP!ExecuteFails, Router!DispatchesOther, PP!DispatchesOther,
               Router!DispatchFails, PP!DispatchFails,
               Router!DispatchReturnsError, PP!DispatchReturnsError,
               Router!NewBlock, PP!NewBlock, Router!Nesting, PP!Nesting,
               Router!Chains, PP!Chains, Router!Innermost, PP!Innermost,
               Router!WrittenBack, PP!WrittenBack, Router!Dispatched,
               PP!Dispatched, Router!Executable, PP!Executable, Router!Passed,
               PP!Passed, Router!PassPercent, PP!PassPercent,
               Router!TotalVotes, PP!TotalVotes, Router!SaturatingAdd,
               PP!SaturatingAdd, Router!SaturatingMul, PP!SaturatingMul,
               Router!MayVote, PP!MayVote, Router!VotingOpen, PP!VotingOpen,
               Router!NotVoted, PP!NotVoted, Router!WithVote, PP!WithVote,
               Router!NewProposal, PP!NewProposal, Router!UnwrapOr,
               PP!UnwrapOr, Router!Indexed, PP!Indexed, Router!Range, PP!Range,
               Router!ProposalIds, PP!ProposalIds
<1>5. [Router!Next]_(Router!vars) <=> [PP!Next]_(PP!vars)
  BY SMTT(30), <1>4 DEF Router!vars, PP!vars
<1>6. QED
  BY <1>1, <1>2, <1>3, <1>5

\* A step of the router keeps its types.
LEMMA RouterTypeStep ==
  Router!TypeOK /\ [Router!Next]_(Router!vars) => Router!TypeOK'
BY SameRouter, RouterAssumptions, PP!TypeStep

\* The invariant holds of every state of the composition.
LEMMA GovernanceInvariant == Spec => []Inv
<1>1. Inv /\ [Next]_vars => Inv'
  BY InvStep, RouterSteps, RegistrySteps, RouterTypeStep, RegistryTypeStep
     DEF Inv, Typed
<1>2. QED
  BY <1>1, InitInv, PTL DEF Spec

-----------------------------------------------------------------------------
(* Theorems *)

\* Through any interleaving of calls of the two pallets, every storage item of
\* both keeps its type and every bounded vector its bound.
THEOREM GovernanceTypes == Spec => [](Registry!TypeOK /\ Router!TypeOK)
<1>1. Inv => Registry!TypeOK /\ Router!TypeOK
  BY SMTT(30) DEF Inv, Typed
<1>2. QED
  BY <1>1, GovernanceInvariant, PTL

\* execute and add_officer, with every call of the registry in between: each
\* occurrence of an officer of a governed club has an executed proposal of its
\* own, and each member was added by a proposal, or joined after a proposal
\* had appointed an officer or attested them.
THEOREM GovernedClubsMandated == Spec => []GovernedClubIsMandated
<1>1. Inv => GovernedClubIsMandated
  BY DEF Inv
<1>2. QED
  BY <1>1, GovernanceInvariant, PTL

\* execute and add_member_admin: a proposal to add a member that is marked
\* executed has added it, for good, and is the only one for that account.
THEOREM EnactedAdmissionsStand == Spec => []EnactedAdmissionsHold
<1>1. Inv => EnactedAdmissionsHold
  BY SMTT(30) DEF Inv
<1>2. QED
  BY <1>1, GovernanceInvariant, PTL

\* The officers of a governed club change, and a member is added without an
\* attestation, only in a step that executes a passed proposal to that effect.
THEOREM GovernedClubsChangeByProposal == Spec => ChangedOnlyByPassedProposals
<1>1. Inv /\ [Next]_vars =>
      [\A c \in ClubIds : Governed(c) =>
         /\ clubs'[c].officers # clubs[c].officers =>
              \E o \in Signers, name \in {"add_officer", "remove_officer"} :
                Executes(c, name, o)
         /\ \A s \in Signers :
              /\ members[s] = None /\ members'[s] # None
              /\ c \in Range(members'[s].clubs)
              /\ attestations' = attestations
              => Executes(c, "add_member_admin", s)]_vars
  BY SMTT(30), ChangedStep
<1>2. [\A c \in ClubIds : Governed(c) =>
         /\ clubs'[c].officers # clubs[c].officers =>
              \E o \in Signers, name \in {"add_officer", "remove_officer"} :
                Executes(c, name, o)
         /\ \A s \in Signers :
              /\ members[s] = None /\ members'[s] # None
              /\ c \in Range(members'[s].clubs)
              /\ attestations' = attestations
              => Executes(c, "add_member_admin", s)]_vars =>
      [\A c \in ClubIds : Governed(c) =>
         LET Effected(name, account) ==
               \E i \in ProposalIds :
                 /\ proposals[i] # None
                 /\ ~proposals[i].executed /\ proposals'[i].executed
                 /\ block > proposals[i].end /\ Router!Passed(proposals[i])
                 /\ proposals[i].call.kind = "other"
                 /\ proposals[i].call.call =
                      [name |-> name, club |-> c, account |-> account]
         IN  /\ clubs'[c].officers # clubs[c].officers =>
                  \E o \in Signers, name \in {"add_officer", "remove_officer"} :
                    Effected(name, o)
             /\ \A s \in Signers :
                  /\ members[s] = None /\ members'[s] # None
                  /\ c \in Range(members'[s].clubs)
                  /\ attestations' = attestations
                  => Effected("add_member_admin", s)]_vars
  BY Zenon DEF Executes
<1>3. QED
  BY <1>1, <1>2, GovernanceInvariant, PTL DEF Spec, ChangedOnlyByPassedProposals

\* The composition implements the router as it is on its own: joining its
\* executes with the registry's calls gives it no behaviour it did not have.
THEOREM GovernanceImplementsRouter == Spec => Router!Spec
<1>1. Init => Router!Init
  BY SMTT(30) DEF Init
<1>2. [Next]_vars => [Router!Next]_(Router!vars)
  BY SMTT(30), RouterSteps
<1>3. QED
  BY <1>1, <1>2, PTL DEF Spec, Router!Spec

\* So what is proved of the router holds of it in the composition: tallies are
\* the voters, what is executed has passed and takes effect once, what is
\* cancelled never does, and the index of a club is complete.
THEOREM GovernanceKeepsRouterPromises ==
  Spec => /\ [](Router!TallyIsVoters /\ Router!ExecutedHasPassed)
          /\ [](Router!DispatchedOnce /\ Router!ClubIndexComplete)
          /\ Router!CancelledNeverRuns
<1>1. Init => PP!Init
  BY SMTT(30), SameRouter DEF Init
<1>2. [Next]_vars => [PP!Next]_(PP!vars)
  BY RouterSteps, SameRouter
<1>3. Spec => PP!Spec
  BY <1>1, <1>2, PTL DEF Spec, PP!Spec
<1>4. Spec => /\ []PP!TallyIsVoters /\ []PP!ExecutedHasPassed
              /\ []PP!DispatchedOnce /\ []PP!ClubIndexComplete
              /\ PP!CancelledNeverRuns
  BY Zenon, <1>3, RouterAssumptions, PP!RouterTallies, PP!RouterExecutesPassed,
     PP!RouterDispatchesOnce, PP!RouterIndexesClubs, PP!RouterNeverRunsCancelled
<1>5. /\ Router!TallyIsVoters <=> PP!TallyIsVoters
      /\ Router!ExecutedHasPassed <=> PP!ExecutedHasPassed
      /\ Router!DispatchedOnce <=> PP!DispatchedOnce
      /\ Router!ClubIndexComplete <=> PP!ClubIndexComplete
  BY Zenon DEF Router!TallyIsVoters, PP!TallyIsVoters, Router!ExecutedHasPassed,
     PP!ExecutedHasPassed, Router!DispatchedOnce, PP!DispatchedOnce,
     Router!ClubIndexComplete, PP!ClubIndexComplete, Router!Stored, PP!Stored,
     Router!FreshIds, PP!FreshIds, Router!ProposalIds, PP!ProposalIds,
     Router!IsInjective, PP!IsInjective, Router!Range, PP!Range
<1>6. [\A i \in cancelled \cap PP!FreshIds : dispatched'[i] = dispatched[i]]_(PP!vars)
        => [\A i \in cancelled \cap Router!FreshIds :
              dispatched'[i] = dispatched[i]]_(Router!vars)
  BY SMTT(30)
     DEF Router!FreshIds, PP!FreshIds, Router!ProposalIds, PP!ProposalIds,
         Router!vars, PP!vars
<1>7. PP!CancelledNeverRuns => Router!CancelledNeverRuns
  BY <1>6, PTL DEF PP!CancelledNeverRuns, Router!CancelledNeverRuns
<1>8. QED
  BY <1>4, <1>5, <1>7, PTL

\* The registry keeps its promises when the router makes calls of it: no
\* reference dangles, used attestations have admitted once, counts are within
\* the accounts that have joined, no record is lost, and nobody joins on a
\* stale authorisation.
THEOREM GovernanceKeepsRegistryPromises ==
  Spec => /\ []Registry!StorageCoherent
          /\ []Registry!UsedAttestationsAdmitOnce
          /\ []Registry!CountWithinJoined
          /\ Registry!MemberHistoryKept
          /\ Registry!AdmissionAuthorised
<1>1. Inv /\ [Next]_vars => Registry!TypeOK /\ [Registry!Next]_(Registry!vars)
  BY SMTT(30), RegistrySteps DEF Inv, Typed
<1>2. Init => RegistryPromises
  BY SMTT(30), InitPromises DEF RegistryPromises
<1>3. RegistryPromises =>
        /\ Registry!StorageCoherent /\ Registry!UsedAttestationsAdmitOnce
        /\ Registry!CountWithinJoined
  BY SMTT(30) DEF RegistryPromises
<1>4. Spec => []RegistryPromises
  BY <1>1, <1>2, PromisesStep, GovernanceInvariant, PTL DEF Spec
<1>5. Registry!TypeOK /\ [Registry!Next]_(Registry!vars) =>
        /\ \A a \in Signers : members[a] # None => RP!RecordKept(a)
        /\ \A a \in Signers :
             members[a] = None /\ members'[a] # None => RP!Authorised(a)
  BY Zenon, SameRegistry, RegistryAssumptions, RP!HistoryStep, RP!AdmissionStep
<1>6. (\A a \in Signers : members[a] # None => RP!RecordKept(a)) =>
      [\A a \in Signers : members[a] # None =>
         /\ members'[a] # None
         /\ members'[a].clubs = members[a].clubs
         /\ members'[a].joined_at = members[a].joined_at
         /\ SubSeq(members'[a].roles, 1, Len(members[a].roles))
              = members[a].roles
         /\ members[a].status = "Removed" => members'[a].status = "Removed"
      ]_(Registry!vars)
  BY SMTT(30) DEF RP!RecordKept
<1>7. (\A a \in Signers :
         members[a] = None /\ members'[a] # None => RP!Authorised(a)) =>
      [\A a \in Signers : members[a] = None /\ members'[a] # None =>
         LET club == members'[a].clubs[1]
         IN  /\ clubs[club] # None
             /\ \/ \E i \in Registry!AttestationIds :
                     /\ attestations[i] # None
                     /\ attestations[i].subject = a
                     /\ attestations[i].club = club
                     /\ ~attestations[i].used /\ attestations'[i].used
                     /\ attestations[i].expires_at = None
                          \/ now <= attestations[i].expires_at
                     /\ Registry!IsOfficerOrAdmin(attestations[i].attestor, club)
                \/ /\ attestations' = attestations
                   /\ members'[a].joined_at = now]_(Registry!vars)
  BY Zenon DEF RP!Authorised, RP!AttestationIds, Registry!AttestationIds,
     RP!IsOfficerOrAdmin, Registry!IsOfficerOrAdmin, RP!Range, Registry!Range
<1>8. Spec => Registry!MemberHistoryKept
  BY <1>1, <1>5, <1>6, GovernanceInvariant, PTL
     DEF Spec, Registry!MemberHistoryKept
<1>9. Spec => Registry!AdmissionAuthorised
  BY <1>1, <1>5, <1>7, GovernanceInvariant, PTL
     DEF Spec, Registry!AdmissionAuthorised
<1>10. QED
  BY <1>3, <1>4, <1>8, <1>9, PTL
=============================================================================
