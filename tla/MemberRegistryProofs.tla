------------------------ MODULE MemberRegistryProofs ------------------------
(* Theorems about MemberRegistry, for every value of its constants. *)
EXTENDS MemberRegistry, FiniteSetTheorems, TLAPS

-----------------------------------------------------------------------------
(* Arithmetic and sequence helpers *)

\* A saturating increment stays within its type.
LEMMA SaturatingIncType ==
  ASSUME NEW max \in Nat, NEW n \in 0..max
  PROVE  SaturatingInc(n, max) \in 0..max
BY DEF SaturatingInc

\* A saturating decrement stays within its type.
LEMMA SaturatingDecType ==
  ASSUME NEW max \in Nat, NEW n \in 0..max
  PROVE  SaturatingDec(n) \in 0..max
BY DEF SaturatingDec

\* swap_remove of a non-empty vector keeps the element type and makes the
\* vector one shorter.
LEMMA SwapRemoveType ==
  ASSUME NEW S, NEW s \in Seq(S), s # <<>>, NEW i
  PROVE  /\ SwapRemove(s, i) \in Seq(S)
         /\ Len(SwapRemove(s, i)) = Len(s) - 1
<1>1. Len(s) \in Nat /\ Len(s) # 0
  OBVIOUS
<1>2. \A j \in 1..(Len(s) - 1) : s[j] \in S
  BY <1>1
<1>3. s[Len(s)] \in S
  BY <1>1
<1>4. SwapRemove(s, i) \in [1..(Len(s) - 1) -> S]
  BY <1>2, <1>3 DEF SwapRemove
<1>5. QED
  BY <1>1, <1>4

-----------------------------------------------------------------------------
(* Typing *)

\* The bounds of the pallet are natural numbers.
LEMMA ConstantTypes ==
  /\ ClubIdMax \in Nat /\ AttestationIdMax \in Nat /\ CountMax \in Nat
  /\ MaxOfficers \in Nat /\ MaxRoles \in Nat /\ MomentMax \in Nat
BY RegistryConstants

\* The empty storage is well typed.
LEMMA InitTypeOK == Init => TypeOK
BY ConstantTypes DEF Init, TypeOK, ClubIds, AttestationIds, Moments


\* Removing an officer keeps the vector well typed and no longer than it was.
LEMMA RemoveFirstType ==
  ASSUME NEW S, NEW s \in Seq(S), NEW x
  PROVE  /\ RemoveFirstBySwap(s, x) \in Seq(S)
         /\ Len(RemoveFirstBySwap(s, x)) <= Len(s)
<1>1. CASE x \in Range(s)
  <2>1. s # <<>>
    BY <1>1 DEF Range
  <2>2. QED
    BY <1>1, <2>1, SwapRemoveType DEF RemoveFirstBySwap
<1>2. CASE x \notin Range(s)
  BY <1>2 DEF RemoveFirstBySwap
<1>3. QED
  BY <1>1, <1>2

\* Typing is preserved by every dispatchable.
LEMMA TypeStep == TypeOK /\ [Next]_vars => TypeOK'
<1> SUFFICES ASSUME TypeOK, [Next]_vars PROVE TypeOK'
  OBVIOUS
<1> USE ConstantTypes, NoneIsNoRecord DEF ClubIds, AttestationIds, Moments
<1>1. ASSUME NEW origin \in Origins, NEW admin \in Accounts,
             CreateClub(origin, admin)
      PROVE  TypeOK'
  <2>1. SaturatingInc(nextClubId, ClubIdMax) \in ClubIds
    BY SaturatingIncType DEF TypeOK
  <2>2. [admin |-> admin, officers |-> <<>>, members_count |-> 0] \in ClubInfo
    BY DEF ClubInfo
  <2>3. QED
    BY <1>1, <2>1, <2>2 DEF TypeOK, CreateClub
<1>2. ASSUME NEW who \in Accounts, NEW officer \in Accounts,
             NEW club \in ClubIds, AddOfficer(who, club, officer)
      PROVE  TypeOK'
  <2>1. clubs[club] \in ClubInfo
    BY <1>2 DEF TypeOK, AddOfficer, IsClubAdmin
  <2>2. /\ Append(clubs[club].officers, officer) \in Seq(Accounts)
        /\ Len(Append(clubs[club].officers, officer)) <= MaxOfficers
    BY <1>2, <2>1 DEF ClubInfo, AddOfficer
  <2>3. QED
    BY <1>2, <2>1, <2>2 DEF TypeOK, AddOfficer, ClubInfo
<1>3. ASSUME NEW who \in Accounts, NEW officer \in Accounts,
             NEW club \in ClubIds, RemoveOfficer(who, club, officer)
      PROVE  TypeOK'
  <2>1. clubs[club] \in ClubInfo /\ Len(clubs[club].officers) <= MaxOfficers
    BY <1>3 DEF TypeOK, RemoveOfficer, IsClubAdmin
  <2> DEFINE left == RemoveFirstBySwap(clubs[club].officers, officer)
  <2>2. left \in Seq(Accounts) /\ Len(left) <= MaxOfficers
    <3>1. clubs[club].officers \in Seq(Accounts)
      BY <2>1 DEF ClubInfo
    <3>2. left \in Seq(Accounts) /\ Len(left) <= Len(clubs[club].officers)
      BY <3>1, RemoveFirstType
    <3>3. QED
      BY <3>1, <3>2, <2>1
  <2>3. QED
    BY <1>3, <2>1, <2>2 DEF TypeOK, RemoveOfficer, ClubInfo
<1>4. ASSUME NEW attestor \in Accounts, NEW subject \in Accounts,
             NEW club \in ClubIds, NEW expires_at \in Moments \cup {None},
             CreateAttestation(attestor, subject, club, expires_at)
      PROVE  TypeOK'
  <2>1. SaturatingInc(nextAttestationId, AttestationIdMax) \in AttestationIds
    BY SaturatingIncType DEF TypeOK
  <2>2. [subject |-> subject, club |-> club, attestor |-> attestor,
         created_at |-> now, expires_at |-> expires_at, used |-> FALSE]
          \in Attestation
    BY DEF Attestation, TypeOK
  <2>3. QED
    BY <1>4, <2>1, <2>2 DEF TypeOK, CreateAttestation
<1>5. ASSUME NEW who \in Accounts, NEW id \in AttestationIds,
             RegisterMember(who, id)
      PROVE  TypeOK'
  <2>1. attestations[id] \in Attestation
    BY <1>5 DEF TypeOK, RegisterMember
  <2>2. PICK club \in ClubIds : club = attestations[id].club
    BY <2>1 DEF Attestation
  <2>3. clubs[club] \in ClubInfo
    BY <1>5, <2>2 DEF TypeOK, RegisterMember, AttestorStillAuthorized
  <2>4. SaturatingInc(clubs[club].members_count, CountMax) \in 0..CountMax
    BY <2>3, SaturatingIncType DEF ClubInfo
  <2>5. NewMember(club, attestations[id].created_at) \in MemberInfo
    BY <2>1 DEF Attestation, NewMember, MemberInfo, MemberStatus
  <2>6. Len(NewMember(club, attestations[id].created_at).roles) <= MaxRoles
    BY DEF NewMember
  <2>7. members' \in [Accounts -> MemberInfo \cup {None}]
    BY <1>5, <2>2, <2>5 DEF TypeOK, RegisterMember
  <2>8. clubs' \in [ClubIds -> ClubInfo \cup {None}]
    BY <1>5, <2>2, <2>3, <2>4 DEF TypeOK, RegisterMember, CountOneMore, ClubInfo
  <2>9. attestations' \in [AttestationIds -> Attestation \cup {None}]
    BY <1>5, <2>1 DEF TypeOK, RegisterMember, Attestation
  <2>10. \A c \in ClubIds :
           clubs'[c] # None => Len(clubs'[c].officers) <= MaxOfficers
    BY <1>5, <2>2, <2>3 DEF TypeOK, RegisterMember, CountOneMore, ClubInfo
  <2>11. \A a \in Accounts :
           members'[a] # None => Len(members'[a].roles) <= MaxRoles
    BY <1>5, <2>2, <2>6 DEF TypeOK, RegisterMember
  <2>12. QED
    BY <1>5, <2>7, <2>8, <2>9, <2>10, <2>11 DEF TypeOK, RegisterMember
<1>6. ASSUME NEW who \in Accounts, NEW id \in AttestationIds,
             RevokeAttestation(who, id)
      PROVE  TypeOK'
  BY <1>6 DEF TypeOK, RevokeAttestation
<1>7. ASSUME NEW who \in Accounts, NEW subject \in Accounts,
             NEW club \in ClubIds, AddMemberAdmin(who, subject, club)
      PROVE  TypeOK'
  <2>1. clubs[club] \in ClubInfo
    BY <1>7 DEF TypeOK, AddMemberAdmin, IsClubAdmin
  <2>2. SaturatingInc(clubs[club].members_count, CountMax) \in 0..CountMax
    BY <2>1, SaturatingIncType DEF ClubInfo
  <2>3. /\ NewMember(club, now) \in MemberInfo
        /\ Len(NewMember(club, now).roles) <= MaxRoles
    BY DEF TypeOK, NewMember, MemberInfo, MemberStatus
  <2>4. /\ clubs' \in [ClubIds -> ClubInfo \cup {None}]
        /\ \A c \in ClubIds :
             clubs'[c] # None => Len(clubs'[c].officers) <= MaxOfficers
    BY <1>7, <2>1, <2>2 DEF TypeOK, AddMemberAdmin, CountOneMore, ClubInfo
  <2>5. QED
    BY <1>7, <2>3, <2>4 DEF TypeOK, AddMemberAdmin
<1>8. ASSUME NEW who \in Accounts, NEW subject \in Accounts,
             NEW club \in ClubIds, RemoveMemberAdmin(who, subject, club)
      PROVE  TypeOK'
  <2>1. clubs[club] \in ClubInfo /\ members[subject] \in MemberInfo
    BY <1>8 DEF TypeOK, RemoveMemberAdmin, IsClubAdmin, IsMember
  <2>2. SaturatingDec(clubs[club].members_count) \in 0..CountMax
    BY <2>1, SaturatingDecType DEF ClubInfo
  <2>3. /\ clubs' \in [ClubIds -> ClubInfo \cup {None}]
        /\ \A c \in ClubIds :
             clubs'[c] # None => Len(clubs'[c].officers) <= MaxOfficers
    BY <1>8, <2>1, <2>2 DEF TypeOK, RemoveMemberAdmin, CountOneLess, ClubInfo
  <2>4. /\ members' \in [Accounts -> MemberInfo \cup {None}]
        /\ \A a \in Accounts :
             members'[a] # None => Len(members'[a].roles) <= MaxRoles
    BY <1>8, <2>1 DEF TypeOK, RemoveMemberAdmin, MemberInfo, MemberStatus
  <2>5. QED
    BY <1>8, <2>3, <2>4 DEF TypeOK, RemoveMemberAdmin
<1>9. ASSUME NEW origin \in Origins, NEW subject \in Accounts,
             NEW role \in Roles, SetRole(origin, subject, role)
      PROVE  TypeOK'
  <2>1. members[subject] \in MemberInfo
    BY <1>9 DEF TypeOK, SetRole, IsMember
  <2>2. /\ Append(members[subject].roles, role) \in Seq(Roles)
        /\ Len(Append(members[subject].roles, role)) <= MaxRoles
    BY <1>9, <2>1 DEF MemberInfo, SetRole
  <2>3. QED
    BY <1>9, <2>1, <2>2 DEF TypeOK, SetRole, MemberInfo
<1>10. CASE Tick
  BY <1>10 DEF TypeOK, Tick
<1>11. CASE UNCHANGED vars
  BY <1>11 DEF TypeOK, vars
<1>12. QED
  BY <1>1, <1>2, <1>3, <1>4, <1>5, <1>6, <1>7, <1>8, <1>9, <1>10, <1>11 DEF Next

\* Every value the pallet stores has its declared type, and no vector
\* outgrows its bound, whatever calls are made.
THEOREM RegistryTypes == Spec => []TypeOK
BY InitTypeOK, TypeStep, PTL DEF Spec

-----------------------------------------------------------------------------
(* Member records *)

\* Appending extends a sequence.
LEMMA AppendExtends ==
  ASSUME NEW S, NEW s \in Seq(S), NEW e \in S
  PROVE  SubSeq(Append(s, e), 1, Len(s)) = s
<1>1. /\ Len(s) \in Nat
      /\ Append(s, e) \in Seq(S)
      /\ Len(Append(s, e)) = Len(s) + 1
      /\ \A i \in 1..Len(s) : Append(s, e)[i] = s[i]
  OBVIOUS
<1>2. s = [i \in 1..Len(s) |-> s[i]]
  BY <1>1
<1>3. SubSeq(Append(s, e), 1, Len(s)) = [i \in 1..Len(s) |-> Append(s, e)[i]]
  BY <1>1
<1>4. QED
  BY <1>1, <1>2, <1>3

\* A sequence is the whole of itself.
LEMMA WholeSequence ==
  ASSUME NEW S, NEW s \in Seq(S)
  PROVE  SubSeq(s, 1, Len(s)) = s
<1>1. Len(s) \in Nat /\ s = [i \in 1..Len(s) |-> s[i]]
  OBVIOUS
<1>2. SubSeq(s, 1, Len(s)) = [i \in 1..Len(s) |-> s[i]]
  BY <1>1
<1>3. QED
  BY <1>1, <1>2

\* What a step may do to the record of an account that has one.
RecordKept(a) ==
  /\ members'[a] # None
  /\ members'[a].clubs = members[a].clubs
  /\ members'[a].joined_at = members[a].joined_at
  /\ SubSeq(members'[a].roles, 1, Len(members[a].roles)) = members[a].roles
  /\ members[a].status = "Removed" => members'[a].status = "Removed"

\* Every call keeps the history of every member.
LEMMA HistoryStep ==
  TypeOK /\ [Next]_vars => \A a \in Accounts : members[a] # None => RecordKept(a)
<1> SUFFICES ASSUME TypeOK, [Next]_vars, NEW a \in Accounts, members[a] # None
             PROVE  RecordKept(a)
  OBVIOUS
<1>0. members[a] \in MemberInfo
  BY DEF TypeOK
<1>r. SubSeq(members[a].roles, 1, Len(members[a].roles)) = members[a].roles
  BY <1>0, WholeSequence DEF MemberInfo
<1>1. CASE members'[a] = members[a]
  BY <1>1, <1>r DEF RecordKept
<1>2. CASE \E who, subject \in Accounts, club \in ClubIds :
             RemoveMemberAdmin(who, subject, club)
  <2>1. PICK who \in Accounts, subject \in Accounts, club \in ClubIds :
          RemoveMemberAdmin(who, subject, club)
    BY <1>2
  <2>2. CASE subject = a
    <3>1. members'[a] = [members[a] EXCEPT !.status = "Removed"]
      BY <2>1, <2>2 DEF RemoveMemberAdmin, TypeOK
    <3>2. /\ members'[a] \in MemberInfo
          /\ members'[a].clubs = members[a].clubs
          /\ members'[a].joined_at = members[a].joined_at
          /\ members'[a].roles = members[a].roles
          /\ members'[a].status = "Removed"
      BY <1>0, <3>1 DEF MemberInfo, MemberStatus
    <3>3. QED
      BY <3>2, <1>r, NoneIsNoRecord DEF RecordKept
  <2>3. CASE subject # a
    BY <1>1, <2>1, <2>3 DEF RemoveMemberAdmin, TypeOK
  <2>4. QED
    BY <2>2, <2>3
<1>3. CASE \E origin \in Origins, subject \in Accounts, role \in Roles :
             SetRole(origin, subject, role)
  <2>1. PICK origin \in Origins, subject \in Accounts, role \in Roles :
          SetRole(origin, subject, role)
    BY <1>3
  <2>2. CASE subject = a
    <3>1. members'[a] = [members[a] EXCEPT !.roles = Append(@, role)]
      BY <2>1, <2>2 DEF SetRole, TypeOK
    <3>2. members[a].roles \in Seq(Roles)
      BY <1>0 DEF MemberInfo
    <3>3. SubSeq(Append(members[a].roles, role), 1, Len(members[a].roles))
            = members[a].roles
      BY <3>2, AppendExtends
    <3>4. /\ members'[a].clubs = members[a].clubs
          /\ members'[a].joined_at = members[a].joined_at
          /\ members'[a].roles = Append(members[a].roles, role)
          /\ members'[a].status = members[a].status
      BY <1>0, <3>1 DEF MemberInfo
    <3>5. members'[a] \in MemberInfo
      <4>1. Append(members[a].roles, role) \in Seq(Roles)
        BY <3>2
      <4>2. QED
        BY <1>0, <3>1, <4>1 DEF MemberInfo
    <3>6. QED
      BY <3>3, <3>4, <3>5, NoneIsNoRecord DEF RecordKept
  <2>3. CASE subject # a
    BY <1>1, <2>1, <2>3 DEF SetRole, TypeOK
  <2>4. QED
    BY <2>2, <2>3
<1>4. CASE \E who \in Accounts, id \in AttestationIds : RegisterMember(who, id)
  BY <1>1, <1>4 DEF RegisterMember, IsMember, TypeOK
<1>5. CASE \E who, subject \in Accounts, club \in ClubIds :
             AddMemberAdmin(who, subject, club)
  BY <1>1, <1>5 DEF AddMemberAdmin, IsMember, TypeOK
<1>6. CASE UNCHANGED members
  BY <1>1, <1>6
<1>7. QED
  BY <1>2, <1>3, <1>4, <1>5, <1>6
     DEF Next, vars, CreateClub, AddOfficer, RemoveOfficer, CreateAttestation,
         RevokeAttestation, Tick

\* A member's history is kept: no call deletes a record, moves it to another
\* club, takes a role away or reinstates a removed member.
THEOREM RegistryKeepsHistory == Spec => MemberHistoryKept
<1>1. TypeOK /\ [Next]_vars =>
        [\A a \in Accounts : members[a] # None => RecordKept(a)]_vars
  BY HistoryStep
<1>2. [\A a \in Accounts : members[a] # None => RecordKept(a)]_vars =>
      [\A a \in Accounts : members[a] # None =>
         /\ members'[a] # None
         /\ members'[a].clubs = members[a].clubs
         /\ members'[a].joined_at = members[a].joined_at
         /\ SubSeq(members'[a].roles, 1, Len(members[a].roles)) = members[a].roles
         /\ members[a].status = "Removed" => members'[a].status = "Removed"]_vars
  BY DEF RecordKept
<1>3. QED
  BY <1>1, <1>2, RegistryTypes, PTL DEF Spec, MemberHistoryKept

-----------------------------------------------------------------------------
(* Attestations *)

Used(i) == attestations[i] # None /\ attestations[i].used

\* Attestation i, if a step leaves it used, was used before, and the same.
UsedBefore(i) == Used(i)' => Used(i) /\ attestations'[i] = attestations[i]

\* Only register_member makes an attestation used, and only the one it names.
LEMMA OnlyRegistrationUses ==
  ASSUME TypeOK, [Next]_vars,
         ~(\E who \in Accounts, id \in AttestationIds : RegisterMember(who, id))
  PROVE  \A i \in AttestationIds : UsedBefore(i)
<1>1. CASE UNCHANGED attestations
  BY <1>1 DEF UsedBefore, Used
<1>2. CASE \E attestor, subject \in Accounts, club \in ClubIds,
              expires_at \in Moments \cup {None} :
             CreateAttestation(attestor, subject, club, expires_at)
  BY <1>2 DEF CreateAttestation, UsedBefore, Used, TypeOK
<1>3. CASE \E who \in Accounts, id \in AttestationIds : RevokeAttestation(who, id)
  BY <1>3 DEF RevokeAttestation, UsedBefore, Used, TypeOK
<1>4. QED
  BY <1>1, <1>2, <1>3
     DEF Next, vars, CreateClub, AddOfficer, RemoveOfficer, AddMemberAdmin,
         RemoveMemberAdmin, SetRole, Tick

\* What register_member does to the attestations and to the new member.
LEMMA RegistrationEffect ==
  ASSUME TypeOK, NEW who \in Accounts, NEW id \in AttestationIds,
         RegisterMember(who, id)
  PROVE  /\ attestations[id] \in Attestation
         /\ attestations[id].subject = who
         /\ ~attestations[id].used
         /\ members[who] = None
         /\ attestations'[id].subject = who
         /\ attestations'[id].club = attestations[id].club
         /\ attestations'[id].created_at = attestations[id].created_at
         /\ \A i \in AttestationIds \ {id} : attestations'[i] = attestations[i]
         /\ members'[who] # None
         /\ members'[who].clubs = <<attestations[id].club>>
         /\ members'[who].joined_at = attestations[id].created_at
         /\ \A a \in Accounts \ {who} : members'[a] = members[a]
<1>1. /\ attestations[id] \in Attestation
      /\ attestations[id].subject = who
      /\ ~attestations[id].used
      /\ members[who] = None
  BY DEF RegisterMember, IsMember, TypeOK
<1>2. /\ attestations'[id] = [attestations[id] EXCEPT !.used = TRUE]
      /\ \A i \in AttestationIds \ {id} : attestations'[i] = attestations[i]
      /\ members'[who] =
           NewMember(attestations[id].club, attestations[id].created_at)
      /\ \A a \in Accounts \ {who} : members'[a] = members[a]
  BY DEF RegisterMember, TypeOK
<1>3. /\ attestations'[id].subject = who
      /\ attestations'[id].club = attestations[id].club
      /\ attestations'[id].created_at = attestations[id].created_at
  BY <1>1, <1>2 DEF Attestation
<1>4. NewMember(attestations[id].club, attestations[id].created_at) \in MemberInfo
  BY <1>1 DEF Attestation, NewMember, MemberInfo, MemberStatus
<1>5. /\ members'[who] # None
      /\ members'[who].clubs = <<attestations[id].club>>
      /\ members'[who].joined_at = attestations[id].created_at
  BY <1>2, <1>4, NoneIsNoRecord DEF NewMember
<1>6. QED
  BY <1>1, <1>2, <1>3, <1>5

\* Every call preserves that used attestations have admitted once.
LEMMA UsedStep ==
  TypeOK /\ UsedAttestationsAdmitOnce /\ [Next]_vars =>
    UsedAttestationsAdmitOnce'
<1> SUFFICES ASSUME TypeOK, UsedAttestationsAdmitOnce, [Next]_vars
             PROVE  UsedAttestationsAdmitOnce'
  OBVIOUS
<1>1. \A i \in AttestationIds : Used(i) => attestations[i].subject \in Accounts
  BY DEF TypeOK, Attestation, Used
<1>2. ASSUME NEW i \in AttestationIds, Used(i), UsedBefore(i), Used(i)'
      PROVE  /\ members'[attestations'[i].subject] # None
             /\ attestations'[i].club
                    \in Range(members'[attestations'[i].subject].clubs)
             /\ members'[attestations'[i].subject].joined_at
                  = attestations'[i].created_at
  <2>1. /\ members[attestations[i].subject] # None
        /\ attestations[i].club
                    \in Range(members[attestations[i].subject].clubs)
        /\ members[attestations[i].subject].joined_at = attestations[i].created_at
    BY <1>2 DEF UsedAttestationsAdmitOnce, Used
  <2>2. RecordKept(attestations[i].subject)
    BY <1>1, <1>2, <2>1, HistoryStep
  <2>3. QED
    BY <1>2, <2>1, <2>2 DEF RecordKept, UsedBefore
<1>3. CASE \E who \in Accounts, id \in AttestationIds : RegisterMember(who, id)
  <2>1. PICK who \in Accounts, id \in AttestationIds : RegisterMember(who, id)
    BY <1>3
  <2>2. /\ attestations'[id].subject = who
        /\ attestations'[id].club = attestations[id].club
        /\ attestations'[id].created_at = attestations[id].created_at
        /\ members[who] = None
        /\ members'[who] # None
        /\ members'[who].clubs = <<attestations[id].club>>
        /\ members'[who].joined_at = attestations[id].created_at
        /\ \A i \in AttestationIds \ {id} : attestations'[i] = attestations[i]
    BY <2>1, RegistrationEffect
  <2>3. \A i \in AttestationIds \ {id} : UsedBefore(i)
    BY <2>2 DEF UsedBefore, Used
  <2>4. /\ members'[attestations'[id].subject] # None
        /\ attestations'[id].club
                    \in Range(members'[attestations'[id].subject].clubs)
        /\ members'[attestations'[id].subject].joined_at
             = attestations'[id].created_at
    BY <2>2 DEF Range
  <2>5. ASSUME NEW i \in AttestationIds \ {id}, Used(i)'
        PROVE  attestations'[i].subject # attestations'[id].subject
    <3>1. Used(i) /\ attestations'[i] = attestations[i]
      BY <2>3, <2>5 DEF UsedBefore
    <3>2. members[attestations[i].subject] # None
      BY <3>1 DEF Used, UsedAttestationsAdmitOnce
    <3>3. QED
      BY <2>2, <3>1, <3>2
  <2>6. ASSUME NEW i \in AttestationIds, NEW j \in AttestationIds \ {i},
               Used(i)', Used(j)'
        PROVE  attestations'[j].subject # attestations'[i].subject
    <3>1. CASE i = id \/ j = id
      BY <2>5, <2>6, <3>1
    <3>2. CASE i # id /\ j # id
      <4>1. /\ Used(i) /\ attestations'[i] = attestations[i]
            /\ Used(j) /\ attestations'[j] = attestations[j]
        BY <2>3, <2>6, <3>2 DEF UsedBefore
      <4>2. QED
        BY <4>1 DEF Used, UsedAttestationsAdmitOnce
    <3>3. QED
      BY <3>1, <3>2
  <2>7. ASSUME NEW i \in AttestationIds, Used(i)'
        PROVE  /\ members'[attestations'[i].subject] # None
               /\ attestations'[i].club
                    \in Range(members'[attestations'[i].subject].clubs)
               /\ members'[attestations'[i].subject].joined_at
                    = attestations'[i].created_at
    <3>1. CASE i = id
      BY <2>4, <3>1
    <3>2. CASE i # id
      <4>1. UsedBefore(i) /\ Used(i)
        BY <2>3, <2>7, <3>2 DEF UsedBefore
      <4>2. QED
        BY <1>2, <2>7, <4>1
    <3>3. QED
      BY <3>1, <3>2
  <2>8. QED
    BY <2>6, <2>7 DEF Used, UsedAttestationsAdmitOnce
<1>4. CASE ~(\E who \in Accounts, id \in AttestationIds : RegisterMember(who, id))
  <2>1. \A i \in AttestationIds : UsedBefore(i)
    BY <1>4, OnlyRegistrationUses
  <2>2. QED
    BY <1>2, <2>1 DEF UsedBefore, Used, UsedAttestationsAdmitOnce
<1>5. QED
  BY <1>3, <1>4

\* A used attestation has admitted its subject to its club, as of the time it
\* was created, and no account is ever admitted by two.
THEOREM RegistryAdmitsOnce == Spec => []UsedAttestationsAdmitOnce
<1>1. Init => UsedAttestationsAdmitOnce
  BY DEF Init, UsedAttestationsAdmitOnce
<1>2. QED
  BY <1>1, UsedStep, RegistryTypes, PTL DEF Spec


-----------------------------------------------------------------------------
(* No dangling references *)

\* The actions that write a field of an existing club.
WritesClub(club) ==
  \/ \E who, officer \in Accounts :
       AddOfficer(who, club, officer) \/ RemoveOfficer(who, club, officer)
  \/ \E who \in Accounts, id \in AttestationIds :
       RegisterMember(who, id) /\ attestations[id].club = club
  \/ \E who, subject \in Accounts :
       AddMemberAdmin(who, subject, club) \/ RemoveMemberAdmin(who, subject, club)

\* A call that writes a club finds it and leaves it there, with at most one
\* more member counted, and touches no other club.
LEMMA ClubWritten ==
  ASSUME TypeOK, NEW club \in ClubIds, WritesClub(club)
  PROVE  /\ clubs[club] # None /\ clubs'[club] # None
         /\ clubs'[club].members_count <= clubs[club].members_count + 1
         /\ UNCHANGED nextClubId
         /\ \A c \in ClubIds \ {club} : clubs'[c] = clubs[c]
<1> USE ConstantTypes, NoneIsNoRecord DEF ClubIds
<1>1. ASSUME NEW who \in Accounts, NEW officer \in Accounts,
             AddOfficer(who, club, officer)
      PROVE  /\ clubs[club] # None /\ clubs'[club] # None
             /\ clubs'[club].members_count <= clubs[club].members_count + 1
             /\ UNCHANGED nextClubId
             /\ \A c \in ClubIds \ {club} : clubs'[c] = clubs[c]
  <2>1. clubs[club] \in ClubInfo
    BY <1>1 DEF TypeOK, AddOfficer, IsClubAdmin
  <2>2. Append(clubs[club].officers, officer) \in Seq(Accounts)
    BY <1>1, <2>1 DEF ClubInfo
  <2>3. clubs'[club] \in ClubInfo
        /\ clubs'[club].members_count = clubs[club].members_count
    BY <1>1, <2>1, <2>2 DEF TypeOK, AddOfficer, ClubInfo
  <2>4. clubs[club].members_count \in Nat
    BY <2>1 DEF ClubInfo
  <2>5. /\ UNCHANGED nextClubId
        /\ \A c \in ClubIds \ {club} : clubs'[c] = clubs[c]
    BY <1>1 DEF TypeOK, AddOfficer
  <2>6. clubs'[club].members_count <= clubs[club].members_count + 1
    BY <2>3, <2>4
  <2>7. QED
    BY <2>1, <2>3, <2>5, <2>6
<1>2. ASSUME NEW who \in Accounts, NEW officer \in Accounts,
             RemoveOfficer(who, club, officer)
      PROVE  /\ clubs[club] # None /\ clubs'[club] # None
             /\ clubs'[club].members_count <= clubs[club].members_count + 1
             /\ UNCHANGED nextClubId
             /\ \A c \in ClubIds \ {club} : clubs'[c] = clubs[c]
  <2>1. clubs[club] \in ClubInfo /\ clubs[club].officers \in Seq(Accounts)
    BY <1>2 DEF TypeOK, RemoveOfficer, IsClubAdmin, ClubInfo
  <2>2. RemoveFirstBySwap(clubs[club].officers, officer) \in Seq(Accounts)
    BY <2>1, RemoveFirstType
  <2>3. clubs'[club] \in ClubInfo
        /\ clubs'[club].members_count = clubs[club].members_count
    BY <1>2, <2>1, <2>2 DEF TypeOK, RemoveOfficer, ClubInfo
  <2>4. clubs[club].members_count \in Nat
    BY <2>1 DEF ClubInfo
  <2>5. /\ UNCHANGED nextClubId
        /\ \A c \in ClubIds \ {club} : clubs'[c] = clubs[c]
    BY <1>2 DEF TypeOK, RemoveOfficer
  <2>6. clubs'[club].members_count <= clubs[club].members_count + 1
    BY <2>3, <2>4
  <2>7. QED
    BY <2>1, <2>3, <2>5, <2>6
<1>3. ASSUME clubs[club] \in ClubInfo, UNCHANGED nextClubId,
             clubs' = CountOneMore(club) \/ clubs' = CountOneLess(club)
      PROVE  /\ clubs[club] # None /\ clubs'[club] # None
             /\ clubs'[club].members_count <= clubs[club].members_count + 1
             /\ UNCHANGED nextClubId
             /\ \A c \in ClubIds \ {club} : clubs'[c] = clubs[c]
  <2>1. /\ SaturatingInc(clubs[club].members_count, CountMax) \in 0..CountMax
        /\ SaturatingDec(clubs[club].members_count) \in 0..CountMax
    BY <1>3, SaturatingIncType, SaturatingDecType DEF ClubInfo
  <2>2. /\ SaturatingInc(clubs[club].members_count, CountMax)
             <= clubs[club].members_count + 1
        /\ SaturatingDec(clubs[club].members_count)
             <= clubs[club].members_count + 1
    BY <1>3 DEF SaturatingInc, SaturatingDec, ClubInfo
  <2>3. PICK n \in 0..CountMax :
          /\ n <= clubs[club].members_count + 1
          /\ clubs' = [clubs EXCEPT ![club].members_count = n]
    BY <1>3, <2>1, <2>2 DEF CountOneMore, CountOneLess
  <2>4. clubs'[club] \in ClubInfo /\ clubs'[club].members_count = n
    BY <1>3, <2>3 DEF TypeOK, ClubInfo
  <2>5. QED
    BY <1>3, <2>3, <2>4 DEF TypeOK
<1>4. ASSUME NEW who \in Accounts, NEW id \in AttestationIds,
             RegisterMember(who, id), attestations[id].club = club
      PROVE  /\ clubs[club] \in ClubInfo /\ UNCHANGED nextClubId
             /\ clubs' = CountOneMore(club)
  BY <1>4 DEF TypeOK, RegisterMember, AttestorStillAuthorized
<1>5. ASSUME NEW who \in Accounts, NEW subject \in Accounts,
             \/ AddMemberAdmin(who, subject, club)
             \/ RemoveMemberAdmin(who, subject, club)
      PROVE  /\ clubs[club] \in ClubInfo /\ UNCHANGED nextClubId
             /\ clubs' = CountOneMore(club) \/ clubs' = CountOneLess(club)
  BY <1>5 DEF TypeOK, AddMemberAdmin, RemoveMemberAdmin, IsClubAdmin
<1>6. QED
  BY <1>1, <1>2, <1>3, <1>4, <1>5 DEF WritesClub

\* A step that is no create_club writes one club or none.
LEMMA WhoWritesClubs ==
  ASSUME TypeOK, [Next]_vars,
         ~(\E origin \in Origins, admin \in Accounts : CreateClub(origin, admin))
  PROVE  \/ UNCHANGED <<clubs, nextClubId>>
         \/ \E club \in ClubIds : WritesClub(club)
<1>1. ASSUME NEW who \in Accounts, NEW id \in AttestationIds,
             RegisterMember(who, id)
      PROVE  \E club \in ClubIds : WritesClub(club)
  <2>1. attestations[id].club \in ClubIds
    BY <1>1 DEF TypeOK, RegisterMember, Attestation
  <2>2. QED
    BY <1>1, <2>1 DEF WritesClub
<1>2. QED
  BY <1>1
     DEF Next, vars, WritesClub, CreateAttestation, RevokeAttestation,
         SetRole,
              Tick

\* A club stays, and a call that is no create_club makes none.
LEMMA ClubsKept ==
  ASSUME TypeOK, [Next]_vars
  PROVE  \A c \in ClubIds : clubs[c] # None => clubs'[c] # None
<1>1. CASE \E origin \in Origins, admin \in Accounts : CreateClub(origin, admin)
  <2>1. PICK origin \in Origins, admin \in Accounts : CreateClub(origin, admin)
    BY <1>1
  <2>2. [admin |-> admin, officers |-> <<>>, members_count |-> 0] \in ClubInfo
    BY ConstantTypes DEF ClubInfo
  <2>3. QED
    BY <2>1, <2>2, NoneIsNoRecord DEF CreateClub, TypeOK
<1>2. CASE ~(\E origin \in Origins, admin \in Accounts : CreateClub(origin, admin))
  BY <1>2, WhoWritesClubs, ClubWritten
<1>3. QED
  BY <1>1, <1>2

\* The clubs' part of StorageCoherent.
ClubIdsCoherent ==
  \A c \in ClubIds :
    /\ c < nextClubId => clubs[c] # None
    /\ clubs[c] # None => c < nextClubId \/ c = ClubIdMax

\* A club exists exactly when its identifier has been handed out.
LEMMA ClubIdsStep ==
  ASSUME TypeOK, ClubIdsCoherent, [Next]_vars PROVE ClubIdsCoherent'
<1>1. CASE \E origin \in Origins, admin \in Accounts : CreateClub(origin, admin)
  <2>1. PICK origin \in Origins, admin \in Accounts : CreateClub(origin, admin)
    BY <1>1
  <2>2. [admin |-> admin, officers |-> <<>>, members_count |-> 0] \in ClubInfo
    BY ConstantTypes DEF ClubInfo
  <2>3. /\ clubs'[nextClubId] # None
        /\ \A c \in ClubIds \ {nextClubId} : clubs'[c] = clubs[c]
        /\ nextClubId' = SaturatingInc(nextClubId, ClubIdMax)
    BY <2>1, <2>2, NoneIsNoRecord DEF CreateClub, TypeOK
  <2>4. QED
    BY <2>3, ConstantTypes DEF ClubIdsCoherent, SaturatingInc, TypeOK, ClubIds
<1>2. CASE ~(\E origin \in Origins, admin \in Accounts : CreateClub(origin, admin))
  <2>1. CASE UNCHANGED <<clubs, nextClubId>>
    BY <2>1 DEF ClubIdsCoherent
  <2>2. CASE \E club \in ClubIds : WritesClub(club)
    <3>1. PICK club \in ClubIds : WritesClub(club)
      BY <2>2
    <3>2. /\ clubs[club] # None /\ clubs'[club] # None
          /\ UNCHANGED nextClubId
          /\ \A c \in ClubIds \ {club} : clubs'[c] = clubs[c]
      BY <3>1, ClubWritten
    <3>3. QED
      BY <3>2 DEF ClubIdsCoherent
  <2>3. QED
    BY <1>2, <2>1, <2>2, WhoWritesClubs
<1>3. QED
  BY <1>1, <1>2

\* What a step does to the attestations.
LEMMA AttestationSteps ==
  ASSUME TypeOK, [Next]_vars
  PROVE  \/ UNCHANGED <<attestations, nextAttestationId>>
         \/ \E attestor, subject \in Accounts, club \in ClubIds,
               expires_at \in Moments \cup {None} :
              CreateAttestation(attestor, subject, club, expires_at)
         \/ \E who \in Accounts, id \in AttestationIds :
              RegisterMember(who, id) \/ RevokeAttestation(who, id)
BY DEF Next, vars, CreateClub, AddOfficer, RemoveOfficer, AddMemberAdmin,
       RemoveMemberAdmin, SetRole, Tick

\* What create_attestation stores, and where.
LEMMA AttestationCreated ==
  ASSUME TypeOK, NEW attestor \in Accounts, NEW subject \in Accounts,
         NEW club \in ClubIds, NEW expires_at \in Moments \cup {None},
         CreateAttestation(attestor, subject, club, expires_at)
  PROVE  /\ attestations'[nextAttestationId] \in Attestation
         /\ attestations'[nextAttestationId].club = club
         /\ ~attestations'[nextAttestationId].used
         /\ clubs[club] # None
         /\ \A i \in AttestationIds \ {nextAttestationId} :
              attestations'[i] = attestations[i]
         /\ nextAttestationId' = SaturatingInc(nextAttestationId, AttestationIdMax)
<1>1. [subject |-> subject, club |-> club, attestor |-> attestor,
       created_at |-> now, expires_at |-> expires_at, used |-> FALSE]
        \in Attestation
  BY DEF Attestation, TypeOK
<1>2. QED
  BY <1>1 DEF CreateAttestation, TypeOK

\* What register_member and revoke_attestation leave of the attestations.
LEMMA AttestationTouched ==
  ASSUME TypeOK, NEW who \in Accounts, NEW id \in AttestationIds,
         RegisterMember(who, id) \/ RevokeAttestation(who, id)
  PROVE  /\ attestations[id] \in Attestation
         /\ nextAttestationId' = nextAttestationId
         /\ \A i \in AttestationIds \ {id} : attestations'[i] = attestations[i]
         /\ RevokeAttestation(who, id) => attestations'[id] = None
         /\ RegisterMember(who, id) =>
              /\ ~attestations[id].used
              /\ attestations'[id] \in Attestation
              /\ attestations'[id].used
              /\ attestations'[id].club = attestations[id].club
<1>1. /\ attestations[id] \in Attestation
      /\ nextAttestationId' = nextAttestationId
      /\ \A i \in AttestationIds \ {id} : attestations'[i] = attestations[i]
      /\ RevokeAttestation(who, id) => attestations'[id] = None
  BY DEF RegisterMember, RevokeAttestation, TypeOK
<1>2. ASSUME RegisterMember(who, id)
      PROVE  /\ ~attestations[id].used
             /\ attestations'[id] \in Attestation
             /\ attestations'[id].used
             /\ attestations'[id].club = attestations[id].club
  <2>1. /\ ~attestations[id].used
        /\ attestations'[id] = [attestations[id] EXCEPT !.used = TRUE]
    BY <1>2 DEF RegisterMember, TypeOK
  <2>2. QED
    BY <1>1, <2>1 DEF Attestation
<1>3. QED
  BY <1>1, <1>2

\* The attestations' part of StorageCoherent.
AttestationIdsCoherent ==
  \A i \in AttestationIds : attestations[i] # None =>
    /\ i < nextAttestationId \/ i = AttestationIdMax
    /\ clubs[attestations[i].club] # None

\* A stored attestation has an identifier handed out, and a club.
LEMMA AttestationIdsStep ==
  ASSUME TypeOK, AttestationIdsCoherent, [Next]_vars
  PROVE  AttestationIdsCoherent'
<1>1. \A i \in AttestationIds : attestations[i] # None =>
        attestations[i].club \in ClubIds
  BY DEF TypeOK, Attestation
<1>2. nextAttestationId \in 0..AttestationIdMax /\ AttestationIdMax \in Nat
  BY ConstantTypes DEF TypeOK, AttestationIds
<1>3. CASE UNCHANGED <<attestations, nextAttestationId>>
  BY <1>1, <1>3, ClubsKept DEF AttestationIdsCoherent
<1>4. ASSUME NEW attestor \in Accounts, NEW subject \in Accounts,
             NEW club \in ClubIds, NEW expires_at \in Moments \cup {None},
             CreateAttestation(attestor, subject, club, expires_at)
      PROVE  AttestationIdsCoherent'
  <2>1. /\ attestations'[nextAttestationId].club = club
        /\ clubs[club] # None
        /\ \A i \in AttestationIds \ {nextAttestationId} :
             attestations'[i] = attestations[i]
        /\ nextAttestationId' = SaturatingInc(nextAttestationId, AttestationIdMax)
    BY <1>4, AttestationCreated
  <2>2. clubs' = clubs
    BY <1>4 DEF CreateAttestation
  <2>3. QED
    BY <1>2, <2>1, <2>2
       DEF AttestationIdsCoherent, SaturatingInc, AttestationIds
<1>5. ASSUME NEW who \in Accounts, NEW id \in AttestationIds,
             RegisterMember(who, id) \/ RevokeAttestation(who, id)
      PROVE  AttestationIdsCoherent'
  <2>1. /\ attestations[id] \in Attestation
        /\ nextAttestationId' = nextAttestationId
        /\ \A i \in AttestationIds \ {id} : attestations'[i] = attestations[i]
        /\ RevokeAttestation(who, id) => attestations'[id] = None
        /\ RegisterMember(who, id) => attestations'[id].club = attestations[id].club
    BY <1>5, AttestationTouched
  <2>2. attestations[id] # None
    BY <2>1, NoneIsNoRecord
  <2>3. \A c \in ClubIds : clubs[c] # None => clubs'[c] # None
    BY ClubsKept
  <2>4. QED
    BY <1>1, <1>5, <2>1, <2>2, <2>3 DEF AttestationIdsCoherent
<1>6. QED
  BY <1>3, <1>4, <1>5, AttestationSteps

\* A record appears only when its account registers or is added.
LEMMA NewRecords ==
  ASSUME TypeOK, [Next]_vars, NEW a \in Accounts,
         members[a] = None, members'[a] # None
  PROVE  \/ \E id \in AttestationIds : RegisterMember(a, id)
         \/ \E who \in Accounts, club \in ClubIds : AddMemberAdmin(who, a, club)
<1>1. CASE UNCHANGED members
  BY <1>1
<1>2. CASE \E who \in Accounts, id \in AttestationIds : RegisterMember(who, id)
  BY <1>2 DEF RegisterMember, TypeOK
<1>3. CASE \E who, subject \in Accounts, club \in ClubIds :
             AddMemberAdmin(who, subject, club)
  BY <1>3 DEF AddMemberAdmin, TypeOK
<1>4. CASE \E who, subject \in Accounts, club \in ClubIds :
             RemoveMemberAdmin(who, subject, club)
  BY <1>4 DEF RemoveMemberAdmin, IsMember, TypeOK
<1>5. CASE \E origin \in Origins, subject \in Accounts, role \in Roles :
             SetRole(origin, subject, role)
  BY <1>5 DEF SetRole, IsMember, TypeOK
<1>6. QED
  BY <1>1, <1>2, <1>3, <1>4, <1>5
     DEF Next, vars, CreateClub, AddOfficer, RemoveOfficer, CreateAttestation,
         RevokeAttestation, Tick

\* A new record names the one club that its account joins, which exists.
LEMMA NewRecordClub ==
  ASSUME TypeOK, [Next]_vars, NEW a \in Accounts,
         members[a] = None, members'[a] # None
  PROVE  \E c \in ClubIds : /\ members'[a].clubs = <<c>>
                            /\ clubs[c] # None
<1>1. ASSUME NEW id \in AttestationIds, RegisterMember(a, id)
      PROVE  \E c \in ClubIds : members'[a].clubs = <<c>> /\ clubs[c] # None
  <2>1. /\ attestations[id] \in Attestation
        /\ members'[a].clubs = <<attestations[id].club>>
    BY <1>1, RegistrationEffect
  <2>2. clubs[attestations[id].club] # None
    BY <1>1 DEF RegisterMember, AttestorStillAuthorized
  <2>3. QED
    BY <2>1, <2>2 DEF Attestation
<1>2. ASSUME NEW who \in Accounts, NEW club \in ClubIds, AddMemberAdmin(who, a, club)
      PROVE  \E c \in ClubIds : members'[a].clubs = <<c>> /\ clubs[c] # None
  BY <1>2 DEF AddMemberAdmin, IsClubAdmin, NewMember, TypeOK
<1>3. QED
  BY <1>1, <1>2, NewRecords

\* The members' part of StorageCoherent.
MembersCoherent ==
  \A a \in Accounts : members[a] # None =>
    \A k \in DOMAIN members[a].clubs : clubs[members[a].clubs[k]] # None

\* The clubs of a member exist.
LEMMA MembersStep ==
  ASSUME TypeOK, MembersCoherent, [Next]_vars PROVE MembersCoherent'
<1> SUFFICES ASSUME NEW a \in Accounts, members'[a] # None,
                    NEW k \in DOMAIN members'[a].clubs
             PROVE  clubs'[members'[a].clubs[k]] # None
  BY DEF MembersCoherent
<1>1. CASE members[a] # None
  <2>1. members'[a].clubs = members[a].clubs
    BY <1>1, HistoryStep DEF RecordKept
  <2>2. members[a].clubs \in Seq(ClubIds)
    BY <1>1 DEF TypeOK, MemberInfo
  <2>3. members[a].clubs[k] \in ClubIds
    BY <2>1, <2>2
  <2>4. QED
    BY <1>1, <2>1, <2>3, ClubsKept DEF MembersCoherent
<1>2. CASE members[a] = None
  <2>1. PICK c \in ClubIds : members'[a].clubs = <<c>> /\ clubs[c] # None
    BY <1>2, NewRecordClub
  <2>2. members'[a].clubs[k] = c
    BY <2>1
  <2>3. QED
    BY <2>1, <2>2, ClubsKept
<1>3. QED
  BY <1>1, <1>2

\* No reference dangles: clubs, attestations and members that are named
\* exist, and nothing has an identifier that was not handed out.
THEOREM RegistryCoherent == Spec => []StorageCoherent
<1>1. Init => ClubIdsCoherent /\ AttestationIdsCoherent /\ MembersCoherent
  BY ConstantTypes
     DEF Init, ClubIdsCoherent, AttestationIdsCoherent, MembersCoherent, ClubIds
<1>2. /\ TypeOK /\ ClubIdsCoherent /\ AttestationIdsCoherent /\ MembersCoherent
      /\ [Next]_vars
      => (ClubIdsCoherent /\ AttestationIdsCoherent /\ MembersCoherent)'
  BY ClubIdsStep, AttestationIdsStep, MembersStep
<1>3. ClubIdsCoherent /\ AttestationIdsCoherent /\ MembersCoherent
        <=> StorageCoherent
  BY DEF ClubIdsCoherent, AttestationIdsCoherent, MembersCoherent,
         StorageCoherent
<1>4. QED
  BY <1>1, <1>2, <1>3, RegistryTypes, PTL DEF Spec

-----------------------------------------------------------------------------
(* Joining *)

\* The right to join at the moment of joining, as AdmissionAuthorised has it.
Authorised(a) ==
  LET club == members'[a].clubs[1]
  IN  /\ clubs[club] # None
      /\ \/ \E i \in AttestationIds :
              /\ attestations[i] # None
              /\ attestations[i].subject = a
              /\ attestations[i].club = club
              /\ ~attestations[i].used /\ attestations'[i].used
              /\ attestations[i].expires_at = None
                   \/ now <= attestations[i].expires_at
              /\ IsOfficerOrAdmin(attestations[i].attestor, club)
         \/ /\ attestations' = attestations
            /\ members'[a].joined_at = now

\* Whoever gets a record is authorised in that very step.
LEMMA AdmissionStep ==
  TypeOK /\ [Next]_vars =>
    \A a \in Accounts : members[a] = None /\ members'[a] # None => Authorised(a)
<1> SUFFICES ASSUME TypeOK, [Next]_vars, NEW a \in Accounts,
                    members[a] = None, members'[a] # None
             PROVE  Authorised(a)
  OBVIOUS
<1>1. ASSUME NEW id \in AttestationIds, RegisterMember(a, id)
      PROVE  Authorised(a)
  <2>1. /\ attestations[id].subject = a
        /\ members'[a].clubs = <<attestations[id].club>>
    BY <1>1, RegistrationEffect
  <2>2. members'[a].clubs[1] = attestations[id].club
    BY <2>1
  <2>3. ~attestations[id].used /\ attestations'[id].used
    BY <1>1, AttestationTouched
  <2>4. /\ attestations[id] # None
        /\ attestations[id].expires_at = None
             \/ now <= attestations[id].expires_at
        /\ clubs[attestations[id].club] # None
        /\ IsOfficerOrAdmin(attestations[id].attestor, attestations[id].club)
    BY <1>1 DEF RegisterMember, NotExpired, AttestorStillAuthorized
  <2>5. QED
    BY <2>1, <2>2, <2>3, <2>4 DEF Authorised
<1>2. ASSUME NEW who \in Accounts, NEW club \in ClubIds, AddMemberAdmin(who, a, club)
      PROVE  Authorised(a)
  <2>1. /\ members'[a] = NewMember(club, now)
        /\ attestations' = attestations
        /\ clubs[club] # None
    BY <1>2 DEF AddMemberAdmin, IsClubAdmin, TypeOK
  <2>2. members'[a].clubs[1] = club /\ members'[a].joined_at = now
    BY <2>1 DEF NewMember
  <2>3. QED
    BY <2>1, <2>2 DEF Authorised
<1>3. QED
  BY <1>1, <1>2, NewRecords

\* Nobody joins on a stale authorisation: the attestation that admits an
\* account is unused, unexpired and by someone who still is an officer or the
\* admin of the club.
THEOREM RegistryAdmitsAuthorised == Spec => AdmissionAuthorised
<1>1. TypeOK /\ [Next]_vars =>
        [\A a \in Accounts :
           members[a] = None /\ members'[a] # None => Authorised(a)]_vars
  BY AdmissionStep
<1>2. [\A a \in Accounts :
         members[a] = None /\ members'[a] # None => Authorised(a)]_vars =>
      [\A a \in Accounts : members[a] = None /\ members'[a] # None =>
         LET club == members'[a].clubs[1]
         IN  /\ clubs[club] # None
             /\ \/ \E i \in AttestationIds :
                     /\ attestations[i] # None
                     /\ attestations[i].subject = a
                     /\ attestations[i].club = club
                     /\ ~attestations[i].used /\ attestations'[i].used
                     /\ attestations[i].expires_at = None
                          \/ now <= attestations[i].expires_at
                     /\ IsOfficerOrAdmin(attestations[i].attestor, club)
                \/ /\ attestations' = attestations
                   /\ members'[a].joined_at = now]_vars
  BY DEF Authorised
<1>3. QED
  BY <1>1, <1>2, RegistryTypes, PTL DEF Spec, AdmissionAuthorised

\* The accounts that have joined a club are finitely many and only get more.
LEMMA JoinedGrows ==
  ASSUME TypeOK, [Next]_vars, NEW c \in ClubIds
  PROVE  /\ IsFiniteSet(EverJoined(c)) /\ IsFiniteSet(EverJoined(c)')
         /\ EverJoined(c) \subseteq EverJoined(c)'
         /\ Cardinality(EverJoined(c)) \in Nat
         /\ Cardinality(EverJoined(c)') \in Nat
         /\ Cardinality(EverJoined(c)) <= Cardinality(EverJoined(c)')
<1>1. IsFiniteSet(Accounts)
  BY RegistryConstants
<1>2. EverJoined(c) \subseteq Accounts /\ EverJoined(c)' \subseteq Accounts
  BY DEF EverJoined
<1>3. IsFiniteSet(EverJoined(c)) /\ IsFiniteSet(EverJoined(c)')
  BY <1>1, <1>2, FS_Subset
<1>4. EverJoined(c) \subseteq EverJoined(c)'
  BY HistoryStep DEF EverJoined, RecordKept
<1>5. Cardinality(EverJoined(c)) <= Cardinality(EverJoined(c)')
  BY <1>3, <1>4, FS_Subset
<1>6. QED
  BY <1>3, <1>4, <1>5, FS_CardinalityType

\* An account that joins a club is one more.
LEMMA JoinedOneMore ==
  ASSUME TypeOK, [Next]_vars, NEW c \in ClubIds, NEW a \in Accounts,
         members[a] = None, members'[a] # None, members'[a].clubs = <<c>>
  PROVE  Cardinality(EverJoined(c)) + 1 <= Cardinality(EverJoined(c)')
<1>1. a \notin EverJoined(c) /\ a \in EverJoined(c)'
  BY DEF EverJoined, Range
<1>2. /\ IsFiniteSet(EverJoined(c)) /\ IsFiniteSet(EverJoined(c)')
      /\ EverJoined(c) \subseteq EverJoined(c)'
  BY JoinedGrows
<1>3. PICK joined : joined = EverJoined(c) \cup {a}
  OBVIOUS
<1>4. Cardinality(joined) = Cardinality(EverJoined(c)) + 1 /\ IsFiniteSet(joined)
  BY <1>1, <1>2, <1>3, FS_AddElement
<1>5. joined \subseteq EverJoined(c)'
  BY <1>1, <1>2, <1>3
<1>6. QED
  BY <1>2, <1>4, <1>5, FS_Subset

\* Every call keeps a club's count within the accounts that have joined it.
LEMMA CountStep ==
  TypeOK /\ CountWithinJoined /\ [Next]_vars => CountWithinJoined'
<1> SUFFICES ASSUME TypeOK, CountWithinJoined, [Next]_vars,
                    NEW c \in ClubIds, clubs'[c] # None
             PROVE  clubs'[c].members_count <= Cardinality(EverJoined(c)')
  BY DEF CountWithinJoined
<1>1. /\ Cardinality(EverJoined(c)) \in Nat
      /\ Cardinality(EverJoined(c)') \in Nat
      /\ Cardinality(EverJoined(c)) <= Cardinality(EverJoined(c)')
  BY JoinedGrows
<1>2. ASSUME clubs[c] # None
      PROVE  /\ clubs[c].members_count \in Nat
             /\ clubs[c].members_count <= Cardinality(EverJoined(c))
  BY <1>2, ConstantTypes DEF CountWithinJoined, TypeOK, ClubInfo
<1>3. CASE clubs[c] # None /\ clubs'[c].members_count = clubs[c].members_count
  BY <1>1, <1>2, <1>3
<1>4. CASE \E origin \in Origins, admin \in Accounts : CreateClub(origin, admin)
  <2>1. PICK origin \in Origins, admin \in Accounts : CreateClub(origin, admin)
    BY <1>4
  <2>2. clubs'[c] = clubs[c] \/ clubs'[c].members_count = 0
    BY <2>1 DEF CreateClub, TypeOK
  <2>3. QED
    BY <1>1, <1>3, <2>2
<1>5. ASSUME NEW a \in Accounts, NEW club \in ClubIds,
             members[a] = None, members'[a] # None, members'[a].clubs = <<club>>,
             WritesClub(club)
      PROVE  clubs'[c].members_count <= Cardinality(EverJoined(c)')
  <2>1. /\ clubs[club] # None
        /\ clubs'[club].members_count <= clubs[club].members_count + 1
        /\ \A d \in ClubIds \ {club} : clubs'[d] = clubs[d]
    BY <1>5, ClubWritten
  <2>2. CASE c # club
    BY <1>3, <2>1, <2>2
  <2>3. CASE c = club
    <3>1. Cardinality(EverJoined(c)) + 1 <= Cardinality(EverJoined(c)')
      BY <1>5, <2>3, JoinedOneMore
    <3>2. clubs'[c].members_count \in Nat
      BY TypeStep, ConstantTypes DEF TypeOK, ClubInfo
    <3>3. QED
      BY <1>1, <1>2, <2>1, <2>3, <3>1, <3>2
  <2>4. QED
    BY <2>2, <2>3
<1>6. ASSUME NEW who \in Accounts, NEW id \in AttestationIds,
             RegisterMember(who, id)
      PROVE  clubs'[c].members_count <= Cardinality(EverJoined(c)')
  <2>1. /\ attestations[id] \in Attestation
        /\ members[who] = None /\ members'[who] # None
        /\ members'[who].clubs = <<attestations[id].club>>
    BY <1>6, RegistrationEffect
  <2>2. PICK club \in ClubIds : club = attestations[id].club
    BY <2>1 DEF Attestation
  <2>3. WritesClub(club)
    BY <1>6, <2>2 DEF WritesClub
  <2>4. QED
    BY <1>5, <2>1, <2>2, <2>3
<1>7. ASSUME NEW who \in Accounts, NEW subject \in Accounts, NEW club \in ClubIds,
             AddMemberAdmin(who, subject, club)
      PROVE  clubs'[c].members_count <= Cardinality(EverJoined(c)')
  <2>1. members[subject] = None /\ members'[subject] = NewMember(club, now)
    BY <1>7 DEF AddMemberAdmin, IsMember, TypeOK
  <2>2. NewMember(club, now) \in MemberInfo
    BY DEF NewMember, MemberInfo, MemberStatus, TypeOK
  <2>3. members'[subject] # None /\ members'[subject].clubs = <<club>>
    BY <2>1, <2>2, NoneIsNoRecord DEF NewMember
  <2>4. WritesClub(club)
    BY <1>7 DEF WritesClub
  <2>5. QED
    BY <1>5, <2>1, <2>3, <2>4
<1>8. ASSUME NEW who \in Accounts, NEW subject \in Accounts, NEW club \in ClubIds,
             RemoveMemberAdmin(who, subject, club)
      PROVE  clubs'[c].members_count <= Cardinality(EverJoined(c)')
  <2>1. clubs[club] \in ClubInfo /\ clubs' = CountOneLess(club)
    BY <1>8 DEF RemoveMemberAdmin, IsClubAdmin, TypeOK
  <2>2. CASE c # club
    BY <1>3, <2>1, <2>2 DEF CountOneLess, TypeOK
  <2>3. CASE c = club
    <3>1. clubs'[c].members_count = SaturatingDec(clubs[c].members_count)
      BY <2>1, <2>3 DEF CountOneLess, TypeOK, ClubInfo
    <3>2. clubs[c] # None
      BY <2>1, <2>3, NoneIsNoRecord
    <3>3. QED
      BY <1>1, <1>2, <3>1, <3>2 DEF SaturatingDec
  <2>4. QED
    BY <2>2, <2>3
<1>9. ASSUME NEW who \in Accounts, NEW officer \in Accounts, NEW club \in ClubIds,
             AddOfficer(who, club, officer) \/ RemoveOfficer(who, club, officer)
      PROVE  clubs'[c].members_count <= Cardinality(EverJoined(c)')
  <2>1. PICK officers :
          clubs[club] \in ClubInfo /\ clubs' = [clubs EXCEPT ![club].officers = officers]
    BY <1>9 DEF AddOfficer, RemoveOfficer, IsClubAdmin, TypeOK
  <2>2. clubs[c] # None /\ clubs'[c].members_count = clubs[c].members_count
    BY <2>1, NoneIsNoRecord DEF TypeOK, ClubInfo
  <2>3. QED
    BY <1>3, <2>2
<1>10. CASE UNCHANGED clubs
  BY <1>3, <1>10
<1>11. QED
  BY <1>4, <1>6, <1>7, <1>8, <1>9, <1>10
     DEF Next, vars, CreateAttestation, RevokeAttestation, SetRole, Tick

\* A club never counts more members than accounts have joined it.
THEOREM RegistryCountsJoined == Spec => []CountWithinJoined
<1>1. Init => CountWithinJoined
  BY DEF Init, CountWithinJoined
<1>2. QED
  BY <1>1, CountStep, RegistryTypes, PTL DEF Spec

-----------------------------------------------------------------------------
(* Attestations are one-time grants *)

GrantIds == 0..(AttestationIdMax - 1)

\* A step that moves one identifier, seen one identifier at a time.
LEMMA GrantMoved ==
  ASSUME NEW id \in GrantIds, NEW state,
         GrantOf'[id] = state,
         \A i \in GrantIds \ {id} : GrantOf'[i] = GrantOf[i]
  PROVE  GrantOf' = [GrantOf EXCEPT ![id] = state]
<1>1. /\ DOMAIN GrantOf = GrantIds /\ DOMAIN GrantOf' = GrantIds
      /\ GrantOf = [i \in DOMAIN GrantOf |-> GrantOf[i]]
      /\ GrantOf' = [i \in DOMAIN GrantOf' |-> GrantOf'[i]]
  BY DEF GrantOf, GrantIds
<1>2. QED
  BY <1>1

\* An identifier that a step leaves alone stays where it is.
LEMMA GrantSame ==
  ASSUME NEW i \in GrantIds, attestations'[i] = attestations[i],
         (i < nextAttestationId)' <=> i < nextAttestationId
  PROVE  GrantOf'[i] = GrantOf[i]
BY DEF GrantOf, GrantIds

\* Every call issues, uses or revokes one identifier, or leaves all alone.
LEMMA GrantStep ==
  ASSUME TypeOK, AttestationIdsCoherent, [Next]_vars
  PROVE  [Grants!Next]_GrantOf
<1> USE DEF GrantIds
<1>0. /\ AttestationIdMax \in Nat /\ AttestationIds = 0..AttestationIdMax
      /\ nextAttestationId \in 0..AttestationIdMax
  BY ConstantTypes DEF TypeOK, AttestationIds
<1>1. CASE UNCHANGED <<attestations, nextAttestationId>>
  BY <1>1 DEF GrantOf
<1>2. ASSUME NEW attestor \in Accounts, NEW subject \in Accounts,
             NEW club \in ClubIds, NEW expires_at \in Moments \cup {None},
             CreateAttestation(attestor, subject, club, expires_at)
      PROVE  [Grants!Next]_GrantOf
  <2>1. /\ attestations'[nextAttestationId] \in Attestation
        /\ ~attestations'[nextAttestationId].used
        /\ \A i \in AttestationIds \ {nextAttestationId} :
             attestations'[i] = attestations[i]
        /\ nextAttestationId' = SaturatingInc(nextAttestationId, AttestationIdMax)
    BY <1>2, AttestationCreated
  <2>2. CASE nextAttestationId = AttestationIdMax
    BY <1>0, <2>1, <2>2 DEF GrantOf, SaturatingInc
  <2>3. CASE nextAttestationId # AttestationIdMax
    <3>1. nextAttestationId \in GrantIds /\ nextAttestationId' = nextAttestationId + 1
      BY <1>0, <2>1, <2>3 DEF SaturatingInc
    <3>2. attestations[nextAttestationId] = None
      BY <1>0, <2>3 DEF AttestationIdsCoherent
    <3>3. GrantOf[nextAttestationId] = "unissued"
      BY <1>0, <3>1, <3>2 DEF GrantOf
    <3>4. GrantOf'[nextAttestationId] = "open"
      BY <2>1, <3>1, NoneIsNoRecord DEF GrantOf
    <3>5. \A i \in GrantIds \ {nextAttestationId} : GrantOf'[i] = GrantOf[i]
      BY <1>0, <2>1, <3>1, GrantSame
    <3>6. GrantOf' = [GrantOf EXCEPT ![nextAttestationId] = "open"]
      BY <3>1, <3>4, <3>5, GrantMoved
    <3>7. QED
      BY <3>1, <3>3, <3>6 DEF Grants!Next, Grants!Issue
  <2>4. QED
    BY <2>2, <2>3
<1>3. ASSUME NEW who \in Accounts, NEW id \in AttestationIds,
             RegisterMember(who, id) \/ RevokeAttestation(who, id)
      PROVE  [Grants!Next]_GrantOf
  <2>1. /\ attestations[id] \in Attestation
        /\ nextAttestationId' = nextAttestationId
        /\ \A i \in AttestationIds \ {id} : attestations'[i] = attestations[i]
    BY <1>3, AttestationTouched
  <2>2. CASE id = AttestationIdMax
    BY <1>0, <2>1, <2>2 DEF GrantOf
  <2>3. ASSUME id # AttestationIdMax, RegisterMember(who, id)
        PROVE  Grants!Next
    <3>1. /\ ~attestations[id].used
          /\ attestations'[id] \in Attestation
          /\ attestations'[id].used
      BY <2>3, AttestationTouched
    <3>2. id \in GrantIds /\ GrantOf[id] = "open"
      BY <1>0, <2>1, <2>3, <3>1, NoneIsNoRecord DEF GrantOf
    <3>3. GrantOf'[id] = "used"
      BY <3>1, <3>2, NoneIsNoRecord DEF GrantOf
    <3>4. \A i \in GrantIds \ {id} : GrantOf'[i] = GrantOf[i]
      BY <1>0, <2>1, GrantSame
    <3>5. GrantOf' = [GrantOf EXCEPT ![id] = "used"]
      BY <3>2, <3>3, <3>4, GrantMoved
    <3>6. QED
      BY <3>2, <3>5 DEF Grants!Next, Grants!Use
  <2>4. ASSUME id # AttestationIdMax, RevokeAttestation(who, id)
        PROVE  Grants!Next
    <3>1. attestations'[id] = None
      BY <2>4, AttestationTouched
    <3>2. id \in GrantIds /\ id < nextAttestationId
      BY <1>0, <2>1, <2>4, NoneIsNoRecord DEF AttestationIdsCoherent
    <3>3. GrantOf[id] \in {"open", "used"}
      BY <2>1, <3>2, NoneIsNoRecord DEF GrantOf
    <3>4. GrantOf'[id] = "revoked"
      BY <2>1, <3>1, <3>2 DEF GrantOf
    <3>5. \A i \in GrantIds \ {id} : GrantOf'[i] = GrantOf[i]
      BY <1>0, <2>1, GrantSame
    <3>6. GrantOf' = [GrantOf EXCEPT ![id] = "revoked"]
      BY <3>2, <3>4, <3>5, GrantMoved
    <3>7. QED
      BY <3>2, <3>3, <3>6 DEF Grants!Next, Grants!Revoke
  <2>5. QED
    BY <1>3, <2>2, <2>3, <2>4
<1>4. QED
  BY <1>1, <1>2, <1>3, AttestationSteps

\* The registry's attestations implement one-time grants, below the
\* saturation point of the counter.
THEOREM RegistryImplementsGrants == Spec => AttestationsAreGrants
<1>1. Init => Grants!Init
  BY ConstantTypes DEF Init, Grants!Init, GrantOf, AttestationIds
<1>2. TypeOK /\ StorageCoherent /\ [Next]_vars => [Grants!Next]_GrantOf
  BY GrantStep DEF AttestationIdsCoherent, StorageCoherent
<1>3. QED
  BY <1>1, <1>2, RegistryTypes, RegistryCoherent, PTL
     DEF Spec, AttestationsAreGrants, Grants!Spec
=============================================================================
