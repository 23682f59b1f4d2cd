----------------------------- MODULE BadgesProofs ---------------------------
(* Theorems about Badges, for every value of its constants. *)
EXTENDS Badges, NumberLemmas, SequenceTheorems, TLAPS

-----------------------------------------------------------------------------
(* Types *)

\* The bounds of the pallet are natural numbers.
LEMMA ConstantTypes ==
  /\ ClassIdMax \in Nat /\ CountMax \in Nat /\ MaxClasses \in Nat
  /\ MaxInstancesPerClass \in Nat /\ MaxIndex \in Nat
  /\ MaxClasses <= ClassIdMax
BY BadgesConstants

\* A saturating increment stays within its type.
LEMMA SaturatingIncType ==
  ASSUME NEW max \in Nat, NEW n \in 0..max
  PROVE  SaturatingInc(n, max) \in 0..max
BY DEF SaturatingInc

\* build: the entries of the genesis configuration are ids and classes.
LEMMA GenesisEntries ==
  /\ Len(GenesisClasses) \in Nat
  /\ DOMAIN GenesisClasses = 1..Len(GenesisClasses)
  /\ \A k \in 1..Len(GenesisClasses) :
       GenesisClasses[k][1] \in ClassIds /\ GenesisClasses[k][2] \in ClassInfo
<1>1. GenesisClasses \in Seq(ClassIds \X ClassInfo)
  BY BadgesConstants
<1>2. \A k \in 1..Len(GenesisClasses) :
        GenesisClasses[k] \in ClassIds \X ClassInfo
  BY <1>1
<1>3. QED
  BY <1>1, <1>2

\* build: the storage at genesis holds classes, at the ids of the entries.
LEMMA GenesisTypes ==
  LET storage == GenesisStorage(Len(GenesisClasses))
  IN  /\ storage \in [ClassIds -> ClassInfo \cup {None}]
      /\ \A c \in ClassIds : storage[c] # None =>
           \E k \in DOMAIN GenesisClasses : GenesisClasses[k][1] = c
<1> SUFFICES ASSUME NEW c \in ClassIds
             PROVE  LET storage == GenesisStorage(Len(GenesisClasses))
                    IN  /\ storage[c] \in ClassInfo \cup {None}
                        /\ storage[c] # None =>
                             \E k \in DOMAIN GenesisClasses :
                               GenesisClasses[k][1] = c
  BY DEF GenesisStorage
<1>1. PICK n \in Nat : n = Len(GenesisClasses)
  BY GenesisEntries
<1>2. PICK at : at = {k \in 1..n : GenesisClasses[k][1] = c}
  OBVIOUS
<1>3. at \in SUBSET (0..n)
  BY <1>2
<1>4. GenesisStorage(n)[c] =
        IF at = {} THEN None ELSE GenesisClasses[Max(at)][2]
  BY <1>2 DEF GenesisStorage
<1>5. at # {} => Max(at) \in at
  BY <1>3, MaxOfBounded
<1>6. QED
  BY <1>1, <1>2, <1>4, <1>5, GenesisEntries

\* build: no class of the genesis storage has the next id or a later one, up
\* to the id at which the counter saturates.
LEMMA GenesisCounter ==
  /\ GenesisNextClassId \in ClassIds
  /\ \A k \in DOMAIN GenesisClasses :
       \/ GenesisClasses[k][1] < GenesisNextClassId
       \/ GenesisClasses[k][1] = ClassIdMax
<1>1. PICK ids \in SUBSET (0..ClassIdMax) :
        ids = {GenesisClasses[k][1] : k \in DOMAIN GenesisClasses}
  BY GenesisEntries DEF ClassIds
<1>2. GenesisNextClassId =
        IF ids = {} THEN 0 ELSE SaturatingInc(Max(ids), ClassIdMax)
  BY <1>1 DEF GenesisNextClassId
<1>3. ids # {} => Max(ids) \in ids /\ \A y \in ids : y <= Max(ids)
  BY ConstantTypes, MaxOfBounded, Zenon
<1>4. GenesisNextClassId \in ClassIds
  <2>1. ids # {} => Max(ids) \in 0..ClassIdMax
    BY <1>3
  <2>2. ids # {} => SaturatingInc(Max(ids), ClassIdMax) \in 0..ClassIdMax
    BY <2>1, SaturatingIncType, ConstantTypes
  <2>3. 0 \in 0..ClassIdMax
    BY ConstantTypes
  <2>4. QED
    BY <1>2, <2>2, <2>3 DEF ClassIds
<1>5. ASSUME NEW k \in DOMAIN GenesisClasses
      PROVE  \/ GenesisClasses[k][1] < GenesisNextClassId
             \/ GenesisClasses[k][1] = ClassIdMax
  <2>1. PICK id \in ids : id = GenesisClasses[k][1]
    BY <1>1
  <2>2. id <= Max(ids) /\ Max(ids) \in 0..ClassIdMax /\ ids # {}
    BY <1>3, <2>1
  <2>3. QED
    BY <1>2, <2>1, <2>2, ConstantTypes DEF SaturatingInc
<1>6. QED
  BY <1>4, <1>5

\* No class has the next id or a later one, except where the counter
\* saturates.
ClassesFresh ==
  \A c \in ClassIds : classes[c] # None => c < nextClassId \/ c = ClassIdMax

\* The initial state has the types and fresh ids.
LEMMA InitTypes == Init => TypeOK /\ ClassesFresh
<1> SUFFICES ASSUME Init PROVE TypeOK /\ ClassesFresh
  OBVIOUS
<1>1. ClassesFresh
  BY GenesisTypes, GenesisCounter DEF Init, ClassesFresh
<1>2. 0 \in InstanceIds
  BY ConstantTypes DEF InstanceIds
<1>3. \A c \in ClassIds :
        /\ classInstances[c] \in Seq(InstanceIds)
        /\ Len(classInstances[c]) <= MaxIndex
  BY ConstantTypes DEF Init
<1>4. QED
  BY <1>1, <1>2, <1>3, GenesisTypes, GenesisCounter DEF Init, TypeOK

\* The badge issue_badge writes.
Issued(issuer, to, info, transferable, soulbound) ==
  [owner |-> to, issuer |-> issuer,
   transferable |-> UnwrapOr(transferable, info.default_transferable),
   soulbound |-> UnwrapOr(soulbound, info.default_soulbound)]

\* What issue_badge finds, and what it writes.
LEMMA IssueEffect ==
  ASSUME TypeOK, NEW issuer \in Accounts, NEW to \in Accounts,
         NEW class \in ClassIds, NEW transferable \in BOOLEAN \cup {None},
         NEW soulbound \in BOOLEAN \cup {None},
         IssueBadge(issuer, class, to, transferable, soulbound)
  PROVE  /\ classes[class] \in ClassInfo /\ classes[class] # None
         /\ issuer = classes[class].creator
         /\ nextInstanceId[class] \in InstanceIds
         /\ nextInstanceId[class] + 1 \in InstanceIds
         /\ Issued(issuer, to, classes[class], transferable, soulbound)
              \in BadgeInstance
         /\ badgeInstances' =
              [badgeInstances EXCEPT ![class][nextInstanceId[class]] =
                 Issued(issuer, to, classes[class], transferable, soulbound)]
         /\ classes' = [classes EXCEPT ![class].instances_count =
                          SaturatingInc(@, CountMax)]
         /\ SaturatingInc(classes[class].instances_count, CountMax)
              \in 0..CountMax
         /\ classInstances' =
              [classInstances EXCEPT ![class] =
                 IF Len(@) < MaxIndex THEN Append(@, nextInstanceId[class])
                 ELSE @]
         /\ nextInstanceId' =
              [nextInstanceId EXCEPT ![class] = nextInstanceId[class] + 1]
         /\ nextClassId' = nextClassId
<1>1. classes[class] \in ClassInfo
  BY DEF IssueBadge, TypeOK
<1>2. classes[class].instances_count \in 0..CountMax
  BY <1>1 DEF ClassInfo
<1>3. SaturatingInc(classes[class].instances_count, CountMax) \in 0..CountMax
  BY <1>2, SaturatingIncType, ConstantTypes
<1>4. /\ nextInstanceId[class] \in InstanceIds
      /\ nextInstanceId[class] + 1 \in InstanceIds
  BY ConstantTypes DEF IssueBadge, RoomFor, TypeOK, InstanceIds
<1>5. /\ classes[class].default_transferable \in BOOLEAN
      /\ classes[class].default_soulbound \in BOOLEAN
  BY <1>1 DEF ClassInfo
<1>6. /\ UnwrapOr(transferable, classes[class].default_transferable) \in BOOLEAN
      /\ UnwrapOr(soulbound, classes[class].default_soulbound) \in BOOLEAN
  BY <1>5, Zenon DEF UnwrapOr
<1>7. Issued(issuer, to, classes[class], transferable, soulbound)
        \in BadgeInstance
  BY <1>6 DEF Issued, BadgeInstance
<1>8. QED
  BY <1>1, <1>3, <1>4, <1>7, Zenon DEF IssueBadge, Allowed, Issued

\* A class whose count is written keeps the rest.
LEMMA CountWritten ==
  ASSUME NEW info \in ClassInfo, NEW n \in 0..CountMax
  PROVE  /\ [info EXCEPT !.instances_count = n] \in ClassInfo
         /\ [info EXCEPT !.instances_count = n].instances_count = n
         /\ [info EXCEPT !.instances_count = n].creator = info.creator
         /\ [[info EXCEPT !.instances_count = n] EXCEPT !.instances_count = 0]
              = [info EXCEPT !.instances_count = 0]
BY DEF ClassInfo

\* Every call keeps the types and leaves the later ids fresh.
LEMMA TypeStep == TypeOK /\ ClassesFresh /\ [Next]_vars => TypeOK' /\ ClassesFresh'
<1> SUFFICES ASSUME TypeOK, ClassesFresh, [Next]_vars
             PROVE  TypeOK' /\ ClassesFresh'
  OBVIOUS
<1>1. ASSUME NEW origin \in Accounts \cup {Root},
             NEW club \in ClubIds \cup {None}, NEW transferable \in BOOLEAN,
             NEW soulbound \in BOOLEAN,
             CreateClass(origin, club, transferable, soulbound)
      PROVE  TypeOK' /\ ClassesFresh'
  <2>1. PICK info \in ClassInfo :
          classes' = [classes EXCEPT ![nextClassId] = info]
    <3>1. 0 \in 0..CountMax /\ origin \in Accounts
      BY <1>1, ConstantTypes DEF CreateClass
    <3>2. [creator |-> origin, club |-> club,
           default_transferable |-> transferable,
           default_soulbound |-> soulbound, instances_count |-> 0]
            \in ClassInfo
      BY <3>1 DEF ClassInfo
    <3>3. QED
      BY <1>1, <3>2 DEF CreateClass
  <2>2. nextClassId \in 0..ClassIdMax /\ nextClassId < ClassIdMax
    BY <1>1, ConstantTypes DEF CreateClass, TypeOK, ClassIds
  <2>3. nextClassId' = nextClassId + 1
    BY <1>1, <2>2 DEF CreateClass, SaturatingInc
  <2>4. ClassesFresh'
    BY <2>1, <2>2, <2>3, ConstantTypes DEF ClassesFresh, TypeOK, ClassIds
  <2>5. nextClassId' \in ClassIds
    BY <2>2, <2>3, ConstantTypes DEF ClassIds
  <2>6. classes' \in [ClassIds -> ClassInfo \cup {None}]
    BY <2>1 DEF TypeOK
  <2>7. QED
    BY <1>1, <2>4, <2>5, <2>6 DEF CreateClass, TypeOK
<1>2. ASSUME NEW issuer \in Accounts, NEW to \in Accounts,
             NEW class \in ClassIds, NEW transferable \in BOOLEAN \cup {None},
             NEW soulbound \in BOOLEAN \cup {None},
             IssueBadge(issuer, class, to, transferable, soulbound)
      PROVE  TypeOK' /\ ClassesFresh'
  <2>1. PICK badge \in BadgeInstance :
          badgeInstances' =
            [badgeInstances EXCEPT ![class][nextInstanceId[class]] = badge]
    BY <1>2, IssueEffect
  <2>2. badgeInstances' \in
          [ClassIds -> [InstanceIds -> BadgeInstance \cup {None}]]
    <3>1. PICK next \in InstanceIds : next = nextInstanceId[class]
      BY DEF TypeOK
    <3>2. badgeInstances' = [badgeInstances EXCEPT ![class][next] = badge]
      BY <2>1, <3>1
    <3>3. QED
      BY <3>2 DEF TypeOK
  <2>3. /\ classes' \in [ClassIds -> ClassInfo \cup {None}]
        /\ \A c \in ClassIds : classes'[c] # None => classes[c] # None
    <3>1. PICK n \in 0..CountMax :
            classes' = [classes EXCEPT ![class].instances_count = n]
      <4>1. PICK n \in 0..CountMax :
              n = SaturatingInc(classes[class].instances_count, CountMax)
        BY <1>2, IssueEffect
      <4>2. classes' = [classes EXCEPT ![class].instances_count = n]
        BY <1>2, <4>1, IssueEffect
      <4>3. QED
        BY <4>2
    <3>2. classes[class] \in ClassInfo /\ classes[class] # None
      BY <1>2, IssueEffect
    <3>3. [classes[class] EXCEPT !.instances_count = n] \in ClassInfo
      BY <3>2, CountWritten
    <3>4. classes' =
            [classes EXCEPT ![class] =
               [classes[class] EXCEPT !.instances_count = n]]
      BY <3>1
    <3>5. QED
      BY <3>2, <3>3, <3>4 DEF TypeOK
  <2>4. /\ nextInstanceId' \in [ClassIds -> InstanceIds]
        /\ nextClassId' = nextClassId
    <3>1. /\ nextInstanceId[class] + 1 \in InstanceIds
          /\ nextInstanceId' =
               [nextInstanceId EXCEPT ![class] = nextInstanceId[class] + 1]
          /\ nextClassId' = nextClassId
      BY <1>2, IssueEffect
    <3>2. QED
      BY <3>1 DEF TypeOK
  <2>5. /\ DOMAIN classInstances' = ClassIds
        /\ \A c \in ClassIds :
             /\ classInstances'[c] \in Seq(InstanceIds)
             /\ Len(classInstances'[c]) <= MaxIndex
    <3>1. PICK next \in InstanceIds :
            classInstances' = [classInstances EXCEPT ![class] =
              IF Len(@) < MaxIndex THEN Append(@, next) ELSE @]
      BY <1>2, IssueEffect
    <3>2. QED
      BY <3>1, ConstantTypes DEF TypeOK
  <2>6. ClassesFresh' /\ nextClassId' \in ClassIds
    BY <2>3, <2>4 DEF ClassesFresh, TypeOK
  <2>7. QED
    BY <2>2, <2>3, <2>4, <2>5, <2>6 DEF TypeOK
<1>3. ASSUME NEW who \in Accounts, NEW class \in ClassIds,
             NEW instance \in InstanceIds, RevokeBadge(who, class, instance)
      PROVE  TypeOK' /\ ClassesFresh'
  BY <1>3 DEF RevokeBadge, TypeOK, ClassesFresh
<1>4. ASSUME NEW who \in Accounts, NEW to \in Accounts,
             NEW class \in ClassIds, NEW instance \in InstanceIds,
             TransferBadge(who, class, instance, to)
      PROVE  TypeOK' /\ ClassesFresh'
  <2>1. PICK badge \in BadgeInstance : badge = badgeInstances[class][instance]
    BY <1>4 DEF TransferBadge, TypeOK
  <2>2. [badge EXCEPT !.owner = to] \in BadgeInstance
    BY <2>1 DEF BadgeInstance
  <2>3. badgeInstances' =
          [badgeInstances EXCEPT ![class][instance] =
             [badge EXCEPT !.owner = to]]
    BY <1>4, <2>1 DEF TransferBadge
  <2>4. badgeInstances' \in
          [ClassIds -> [InstanceIds -> BadgeInstance \cup {None}]]
    BY <2>2, <2>3 DEF TypeOK
  <2>5. QED
    BY <1>4, <2>4 DEF TransferBadge, TypeOK, ClassesFresh
<1>5. CASE UNCHANGED vars
  BY <1>5 DEF vars, TypeOK, ClassesFresh
<1>6. QED
  BY <1>1, <1>2, <1>3, <1>4, <1>5 DEF Next

\* The types hold and the ids to come are fresh.
LEMMA TypesHold == Spec => [](TypeOK /\ ClassesFresh)
BY InitTypes, TypeStep, PTL DEF Spec

\* Every call keeps the maps and counters within their types, and an index
\* within its bound, whatever the bounds and the genesis configuration.
THEOREM BadgesTypes == Spec => []TypeOK
BY TypesHold, PTL

-----------------------------------------------------------------------------
(* Classes are kept *)

\* A class after a call: the same one, or the same with another count.
KeptClass(c) ==
  /\ classes'[c] # None
  /\ classes'[c].creator = classes[c].creator
  /\ [classes'[c] EXCEPT !.instances_count = 0]
       = [classes[c] EXCEPT !.instances_count = 0]

\* No call takes a class away or puts another one in its place.
LEMMA ClassStep ==
  ASSUME TypeOK, ClassesFresh, [Next]_vars, NEW c \in ClassIds,
         classes[c] # None
  PROVE  KeptClass(c)
<1>1. CASE classes'[c] = classes[c]
  BY <1>1 DEF KeptClass
<1>2. ASSUME NEW origin \in Accounts \cup {Root},
             NEW club \in ClubIds \cup {None}, NEW transferable \in BOOLEAN,
             NEW soulbound \in BOOLEAN,
             CreateClass(origin, club, transferable, soulbound)
      PROVE  classes'[c] = classes[c]
  <2>1. nextClassId < ClassIdMax
    BY <1>2, ConstantTypes DEF CreateClass, TypeOK, ClassIds
  <2>2. c # nextClassId
    BY <2>1, ConstantTypes DEF ClassesFresh, TypeOK, ClassIds
  <2>3. QED
    BY <1>2, <2>2 DEF CreateClass, TypeOK
<1>3. ASSUME NEW issuer \in Accounts, NEW to \in Accounts,
             NEW class \in ClassIds, NEW transferable \in BOOLEAN \cup {None},
             NEW soulbound \in BOOLEAN \cup {None},
             IssueBadge(issuer, class, to, transferable, soulbound)
      PROVE  KeptClass(c)
  <2>1. CASE c # class
    <3>1. classes'[c] = classes[c]
      BY <1>3, <2>1 DEF IssueBadge, TypeOK
    <3>2. QED
      BY <1>1, <3>1
  <2>2. CASE c = class
    <3>1. PICK n \in 0..CountMax :
            n = SaturatingInc(classes[class].instances_count, CountMax)
      BY <1>3, IssueEffect
    <3>2. /\ classes' = [classes EXCEPT ![class].instances_count = n]
          /\ classes[class] \in ClassInfo
      BY <1>3, <3>1, IssueEffect
    <3>3. classes'[c] = [classes[c] EXCEPT !.instances_count = n]
      BY <2>2, <3>2 DEF TypeOK
    <3>4. PICK info \in ClassInfo : info = classes[c]
      BY <2>2, <3>2
    <3>5. classes'[c] = [info EXCEPT !.instances_count = n]
      BY <3>3, <3>4
    <3>6. /\ classes'[c] \in ClassInfo /\ classes'[c].creator = info.creator
          /\ [classes'[c] EXCEPT !.instances_count = 0]
               = [info EXCEPT !.instances_count = 0]
      BY <3>5 DEF ClassInfo
    <3>7. classes'[c] # None
      BY <3>6, BadgesConstants
    <3>8. QED
      BY <3>4, <3>6, <3>7 DEF KeptClass
  <2>3. QED
    BY <2>1, <2>2
<1>4. ASSUME \/ UNCHANGED vars
             \/ \E who \in Accounts, class \in ClassIds,
                   instance \in InstanceIds : RevokeBadge(who, class, instance)
             \/ \E who, to \in Accounts, class \in ClassIds,
                   instance \in InstanceIds :
                  TransferBadge(who, class, instance, to)
      PROVE  classes'[c] = classes[c]
  BY <1>4 DEF vars, RevokeBadge, TransferBadge
<1>5. QED
  BY <1>1, <1>2, <1>3, <1>4 DEF Next

\* create_class and build: whatever ids the genesis configuration used, no
\* class ever replaces another one, and creator, club and defaults stay.
THEOREM BadgesKeepClasses == Spec => ClassesKept
<1>1. TypeOK /\ ClassesFresh /\ [Next]_vars =>
        [\A c \in ClassIds :
           classes[c] # None =>
             /\ classes'[c] # None
             /\ [classes'[c] EXCEPT !.instances_count = 0]
                  = [classes[c] EXCEPT !.instances_count = 0]]_vars
  BY ClassStep DEF KeptClass
<1>2. QED
  BY <1>1, TypesHold, PTL DEF Spec, ClassesKept

-----------------------------------------------------------------------------
(* Issuers *)

\* issue_badge names the creator as issuer, and no later call separates a
\* badge from its issuer or a class from its creator.
LEMMA IssuerStep ==
  ASSUME TypeOK, ClassesFresh, IssuedByCreator, [Next]_vars
  PROVE  IssuedByCreator'
<1> SUFFICES ASSUME NEW c \in ClassIds, NEW i \in InstanceIds,
                    badgeInstances'[c][i] # None
             PROVE  /\ classes'[c] # None
                    /\ badgeInstances'[c][i].issuer = classes'[c].creator
  BY DEF IssuedByCreator
<1>1. ASSUME badgeInstances[c][i] # None,
             badgeInstances'[c][i].issuer = badgeInstances[c][i].issuer
      PROVE  /\ classes'[c] # None
             /\ badgeInstances'[c][i].issuer = classes'[c].creator
  BY <1>1, ClassStep DEF IssuedByCreator, KeptClass
<1>2. ASSUME NEW issuer \in Accounts, NEW to \in Accounts,
             NEW class \in ClassIds, NEW transferable \in BOOLEAN \cup {None},
             NEW soulbound \in BOOLEAN \cup {None},
             IssueBadge(issuer, class, to, transferable, soulbound)
      PROVE  /\ classes'[c] # None
             /\ badgeInstances'[c][i].issuer = classes'[c].creator
  <2>1. PICK badge \in BadgeInstance :
          badge = Issued(issuer, to, classes[class], transferable, soulbound)
    BY <1>2, IssueEffect
  <2>2. /\ badgeInstances' =
             [badgeInstances EXCEPT ![class][nextInstanceId[class]] = badge]
        /\ classes[class] # None /\ issuer = classes[class].creator
    BY <1>2, <2>1, IssueEffect
  <2>3. CASE c = class /\ i = nextInstanceId[class]
    <3>1. badgeInstances'[c][i] = badge
      BY <2>2, <2>3 DEF TypeOK
    <3>2. badge.issuer = issuer
      BY <2>1 DEF Issued
    <3>3. QED
      BY <2>2, <2>3, <3>1, <3>2, ClassStep DEF KeptClass
  <2>4. CASE ~(c = class /\ i = nextInstanceId[class])
    <3>1. badgeInstances'[c][i] = badgeInstances[c][i]
      BY <2>2, <2>4 DEF TypeOK
    <3>2. QED
      BY <1>1, <3>1
  <2>5. QED
    BY <2>3, <2>4
<1>3. ASSUME NEW who \in Accounts, NEW class \in ClassIds,
             NEW instance \in InstanceIds, RevokeBadge(who, class, instance)
      PROVE  badgeInstances'[c][i] = badgeInstances[c][i]
  BY <1>3 DEF RevokeBadge, TypeOK
<1>4. ASSUME NEW who \in Accounts, NEW to \in Accounts,
             NEW class \in ClassIds, NEW instance \in InstanceIds,
             TransferBadge(who, class, instance, to)
      PROVE  /\ badgeInstances[c][i] # None
             /\ badgeInstances'[c][i].issuer = badgeInstances[c][i].issuer
  BY <1>4 DEF TransferBadge, TypeOK, BadgeInstance
<1>5. ASSUME \/ UNCHANGED vars
             \/ \E origin \in Accounts \cup {Root},
                   club \in ClubIds \cup {None},
                   transferable, soulbound \in BOOLEAN :
                  CreateClass(origin, club, transferable, soulbound)
      PROVE  badgeInstances'[c][i] = badgeInstances[c][i]
  BY <1>5 DEF vars, CreateClass
<1>6. QED
  BY <1>1, <1>2, <1>3, <1>4, <1>5 DEF Next

\* issue_badge: whoever holds a badge, and however often it changed hands, it
\* was issued by the creator of its class.
THEOREM BadgesIssuedByCreator == Spec => []IssuedByCreator
<1>1. Init => IssuedByCreator
  BY DEF Init, IssuedByCreator
<1>2. QED
  BY <1>1, TypesHold, IssuerStep, PTL DEF Spec

-----------------------------------------------------------------------------
(* Every issue is accounted for *)

Bounded(n, max) == IF n <= max THEN n ELSE max

\* The first n ids, in order.
FirstIds(n) == [k \in 1..n |-> k - 1]

\* The count a class had at genesis.
CountAtGenesis(c) ==
  LET before == GenesisStorage(Len(GenesisClasses))[c]
  IN  IF before = None THEN 0 ELSE before.instances_count

\* IssuesAccounted, of one class.
AccountedAt(c) ==
  /\ classInstances[c] = FirstIds(Bounded(nextInstanceId[c], MaxIndex))
  /\ classes[c] # None =>
       classes[c].instances_count =
         Bounded(CountAtGenesis(c) + nextInstanceId[c], CountMax)
  /\ classes[c] = None => nextInstanceId[c] = 0
  /\ \A i \in InstanceIds :
       i >= nextInstanceId[c] => badgeInstances[c][i] = None

\* No class of the genesis configuration is gone.
GenesisKept ==
  \A c \in ClassIds :
    GenesisStorage(Len(GenesisClasses))[c] # None => classes[c] # None

\* IssuesAccounted says AccountedAt of every class.
LEMMA AccountedSplit == IssuesAccounted <=> \A c \in ClassIds : AccountedAt(c)
BY DEF IssuesAccounted, AccountedAt, CountAtGenesis, Bounded, FirstIds

\* The first n ids are a sequence of length n, and one more is appended.
LEMMA FirstIdsAppend ==
  ASSUME NEW n \in Nat
  PROVE  /\ Len(FirstIds(n)) = n
         /\ Append(FirstIds(n), n) = FirstIds(n + 1)
BY DEF FirstIds

\* The count of a class at genesis is a count.
LEMMA CountAtGenesisType ==
  ASSUME NEW c \in ClassIds
  PROVE  CountAtGenesis(c) \in 0..CountMax
<1>1. PICK before \in ClassInfo \cup {None} :
        before = GenesisStorage(Len(GenesisClasses))[c]
  BY GenesisTypes
<1>2. before # None => before.instances_count \in 0..CountMax
  BY DEF ClassInfo
<1>3. QED
  BY <1>1, <1>2, ConstantTypes DEF CountAtGenesis

\* Genesis has issued nothing.
LEMMA InitAccounted == Init => GenesisKept /\ \A c \in ClassIds : AccountedAt(c)
<1> SUFFICES ASSUME Init, NEW c \in ClassIds PROVE GenesisKept /\ AccountedAt(c)
  BY DEF GenesisKept, Init
<1>1. GenesisKept
  BY DEF Init, GenesisKept
<1>2. /\ nextInstanceId[c] = 0 /\ classInstances[c] = <<>>
      /\ \A i \in InstanceIds : badgeInstances[c][i] = None
  BY DEF Init
<1>3. Bounded(0, MaxIndex) = 0 /\ FirstIds(0) = <<>>
  BY ConstantTypes DEF Bounded, FirstIds
<1>4. classes[c] # None =>
        classes[c].instances_count = Bounded(CountAtGenesis(c) + 0, CountMax)
  <2>1. classes[c] # None => classes[c].instances_count = CountAtGenesis(c)
    BY DEF Init, CountAtGenesis
  <2>2. QED
    BY <2>1, CountAtGenesisType, ConstantTypes DEF Bounded
<1>5. QED
  BY <1>1, <1>2, <1>3, <1>4 DEF AccountedAt

\* A call that writes neither a class's counters nor its index, and no badge
\* where there was none, leaves it accounted for.
LEMMA AccountsKept ==
  ASSUME NEW c \in ClassIds, AccountedAt(c),
         nextInstanceId'[c] = nextInstanceId[c],
         classInstances'[c] = classInstances[c], classes'[c] = classes[c],
         \A i \in InstanceIds :
           badgeInstances[c][i] = None => badgeInstances'[c][i] = None
  PROVE  AccountedAt(c)'
<1>1. CountAtGenesis(c)' = CountAtGenesis(c)
  BY DEF CountAtGenesis, GenesisStorage
<1>2. QED
  BY <1>1 DEF AccountedAt

\* issue_badge counts and indexes the badge it writes.
LEMMA IssueAccounted ==
  ASSUME TypeOK, NEW issuer \in Accounts, NEW to \in Accounts,
         NEW class \in ClassIds, NEW transferable \in BOOLEAN \cup {None},
         NEW soulbound \in BOOLEAN \cup {None}, AccountedAt(class),
         IssueBadge(issuer, class, to, transferable, soulbound)
  PROVE  AccountedAt(class)'
<1>1. PICK next \in InstanceIds : next = nextInstanceId[class]
  BY DEF TypeOK
<1>2. nextInstanceId'[class] = next + 1 /\ next \in Nat
  <2>1. nextInstanceId' = [nextInstanceId EXCEPT ![class] = next + 1]
    BY <1>1, IssueEffect
  <2>2. QED
    BY <2>1 DEF TypeOK, InstanceIds
<1>3. classInstances'[class] = FirstIds(Bounded(next + 1, MaxIndex))
  <2>1. classInstances' = [classInstances EXCEPT ![class] =
          IF Len(@) < MaxIndex THEN Append(@, next) ELSE @]
    BY <1>1, IssueEffect
  <2>2. PICK n \in Nat : n = Bounded(next, MaxIndex)
    BY <1>2, ConstantTypes DEF Bounded
  <2>3. classInstances[class] = FirstIds(n) /\ Len(FirstIds(n)) = n
    BY <1>1, <2>2, FirstIdsAppend DEF AccountedAt
  <2>4. classInstances'[class] =
          IF n < MaxIndex THEN Append(FirstIds(n), next) ELSE FirstIds(n)
    BY <2>1, <2>3 DEF TypeOK
  <2>5. CASE n < MaxIndex
    <3>1. n = next /\ Bounded(next + 1, MaxIndex) = n + 1
      BY <1>2, <2>2, <2>5, ConstantTypes DEF Bounded
    <3>2. QED
      BY <2>4, <2>5, <3>1, FirstIdsAppend
  <2>6. CASE ~(n < MaxIndex)
    <3>1. Bounded(next + 1, MaxIndex) = n
      BY <1>2, <2>2, <2>6, ConstantTypes DEF Bounded
    <3>2. QED
      BY <2>4, <2>6, <3>1
  <2>7. QED
    BY <2>5, <2>6
<1>4. /\ classes'[class].instances_count =
           Bounded(CountAtGenesis(class) + (next + 1), CountMax)
      /\ classes'[class] # None
  <2>1. PICK start \in 0..CountMax : start = CountAtGenesis(class)
    BY CountAtGenesisType
  <2>2. PICK n \in 0..CountMax :
          n = SaturatingInc(classes[class].instances_count, CountMax)
    BY IssueEffect
  <2>3. /\ classes' = [classes EXCEPT ![class].instances_count = n]
        /\ classes[class] \in ClassInfo /\ classes[class] # None
    <3>1. classes' = [classes EXCEPT ![class].instances_count = n]
      BY <2>2 DEF IssueBadge
    <3>2. classes[class] \in ClassInfo /\ classes[class] # None
      BY IssueEffect
    <3>3. QED
      BY <3>1, <3>2
  <2>4. PICK info \in ClassInfo : info = classes[class]
    BY <2>3
  <2>5. classes'[class] = [info EXCEPT !.instances_count = n]
    BY <2>3, <2>4 DEF TypeOK
  <2>6. classes'[class] \in ClassInfo /\ classes'[class].instances_count = n
    BY <2>5 DEF ClassInfo
  <2>7. classes[class].instances_count = Bounded(start + next, CountMax)
    BY <1>1, <2>1, <2>3 DEF AccountedAt
  <2>8. n = Bounded(start + (next + 1), CountMax)
    <3>1. PICK total \in Nat : total = start + next
      BY <1>2, <2>1, ConstantTypes
    <3>2. start + (next + 1) = total + 1
      BY <1>2, <2>1, <3>1, ConstantTypes
    <3>3. n = SaturatingInc(Bounded(total, CountMax), CountMax)
      BY <2>2, <2>7, <3>1
    <3>4. n = Bounded(total + 1, CountMax)
      BY <3>3, ConstantTypes DEF Bounded, SaturatingInc
    <3>5. QED
      BY <3>2, <3>4
  <2>9. QED
    BY <2>1, <2>6, <2>8, BadgesConstants
<1>5. ASSUME NEW i \in InstanceIds, i >= next + 1
      PROVE  badgeInstances'[class][i] = None
  <2>1. PICK badge \in BadgeInstance :
          badgeInstances' = [badgeInstances EXCEPT ![class][next] = badge]
    <3>1. PICK badge \in BadgeInstance :
            badge = Issued(issuer, to, classes[class], transferable, soulbound)
      BY IssueEffect
    <3>2. badgeInstances' = [badgeInstances EXCEPT ![class][next] = badge]
      BY <1>1, <3>1, IssueEffect
    <3>3. QED
      BY <3>2
  <2>2. i # next /\ i >= next
    BY <1>2, <1>5 DEF InstanceIds
  <2>3. badgeInstances'[class][i] = badgeInstances[class][i]
    BY <2>1, <2>2 DEF TypeOK
  <2>4. QED
    BY <1>1, <2>2, <2>3 DEF AccountedAt
<1>6. CountAtGenesis(class)' = CountAtGenesis(class)
  BY DEF CountAtGenesis, GenesisStorage
<1>7. QED
  BY <1>2, <1>3, <1>4, <1>5, <1>6 DEF AccountedAt

\* Every call leaves every class accounted for.
LEMMA AccountsStep ==
  ASSUME TypeOK, ClassesFresh, GenesisKept, [Next]_vars,
         \A c \in ClassIds : AccountedAt(c)
  PROVE  GenesisKept' /\ \A c \in ClassIds : AccountedAt(c)'
<1>1. GenesisKept'
  <2>1. GenesisStorage(Len(GenesisClasses))' = GenesisStorage(Len(GenesisClasses))
    BY DEF GenesisStorage
  <2>2. QED
    BY <2>1, ClassStep DEF GenesisKept, KeptClass
<1>2. ASSUME NEW c \in ClassIds PROVE AccountedAt(c)'
  <2>1. ASSUME NEW origin \in Accounts \cup {Root},
               NEW club \in ClubIds \cup {None}, NEW transferable \in BOOLEAN,
               NEW soulbound \in BOOLEAN,
               CreateClass(origin, club, transferable, soulbound)
        PROVE  AccountedAt(c)'
    <3>1. CASE c # nextClassId
      <4>1. classes'[c] = classes[c]
        BY <2>1, <3>1 DEF CreateClass, TypeOK
      <4>2. QED
        BY <2>1, <4>1, AccountsKept DEF CreateClass
    <3>2. CASE c = nextClassId
      <4>1. classes[c] = None
        <5>1. nextClassId < ClassIdMax
          BY <2>1, ConstantTypes DEF CreateClass, TypeOK, ClassIds
        <5>2. QED
          BY <3>2, <5>1, ConstantTypes DEF ClassesFresh, TypeOK, ClassIds
      <4>2. CountAtGenesis(c) = 0 /\ nextInstanceId[c] = 0
        BY <4>1 DEF GenesisKept, CountAtGenesis, AccountedAt
      <4>3. classes'[c].instances_count = 0
        BY <2>1, <3>2 DEF CreateClass, TypeOK
      <4>4. Bounded(0 + 0, CountMax) = 0
        BY ConstantTypes DEF Bounded
      <4>5. CountAtGenesis(c)' = CountAtGenesis(c)
        BY DEF CountAtGenesis, GenesisStorage
      <4>6. QED
        BY <2>1, <4>2, <4>3, <4>4, <4>5 DEF CreateClass, AccountedAt
    <3>3. QED
      BY <3>1, <3>2
  <2>2. ASSUME NEW issuer \in Accounts, NEW to \in Accounts,
               NEW class \in ClassIds,
               NEW transferable \in BOOLEAN \cup {None},
               NEW soulbound \in BOOLEAN \cup {None},
               IssueBadge(issuer, class, to, transferable, soulbound)
        PROVE  AccountedAt(c)'
    <3>1. CASE c = class
      BY <2>2, <3>1, IssueAccounted
    <3>2. CASE c # class
      <4>1. /\ nextInstanceId'[c] = nextInstanceId[c]
            /\ classInstances'[c] = classInstances[c]
            /\ classes'[c] = classes[c]
            /\ badgeInstances'[c] = badgeInstances[c]
        BY <2>2, <3>2 DEF IssueBadge, TypeOK
      <4>2. QED
        BY <4>1, AccountsKept
    <3>3. QED
      BY <3>1, <3>2
  <2>3. ASSUME NEW who \in Accounts, NEW class \in ClassIds,
               NEW instance \in InstanceIds, RevokeBadge(who, class, instance)
        PROVE  AccountedAt(c)'
    <3>1. \A i \in InstanceIds :
            badgeInstances[c][i] = None => badgeInstances'[c][i] = None
      BY <2>3 DEF RevokeBadge, TypeOK
    <3>2. QED
      BY <2>3, <3>1, AccountsKept DEF RevokeBadge
  <2>4. ASSUME NEW who \in Accounts, NEW to \in Accounts,
               NEW class \in ClassIds, NEW instance \in InstanceIds,
               TransferBadge(who, class, instance, to)
        PROVE  AccountedAt(c)'
    <3>1. \A i \in InstanceIds :
            badgeInstances[c][i] = None => badgeInstances'[c][i] = None
      BY <2>4 DEF TransferBadge, TypeOK
    <3>2. QED
      BY <2>4, <3>1, AccountsKept DEF TransferBadge
  <2>5. CASE UNCHANGED vars
    BY <2>5, AccountsKept DEF vars
  <2>6. QED
    BY <2>1, <2>2, <2>3, <2>4, <2>5 DEF Next
<1>3. QED
  BY <1>1, <1>2

\* The accounting invariant, with what makes it inductive.
AccountsInv ==
  /\ TypeOK /\ ClassesFresh /\ GenesisKept
  /\ \A c \in ClassIds : AccountedAt(c)

\* It holds of every state.
LEMMA AccountsHold == Spec => []AccountsInv
<1>1. Init => AccountsInv
  BY InitTypes, InitAccounted DEF AccountsInv
<1>2. AccountsInv /\ [Next]_vars => AccountsInv'
  BY TypeStep, AccountsStep DEF AccountsInv
<1>3. QED
  BY <1>1, <1>2, PTL DEF Spec

\* issue_badge and revoke_badge: index and count of a class tell how many
\* badges were issued, from the count at genesis and up to the bounds, and no
\* badge exists at an id still to come.
THEOREM BadgesAccounted == Spec => []IssuesAccounted
<1>1. AccountsInv => IssuesAccounted
  BY AccountedSplit DEF AccountsInv
<1>2. QED
  BY <1>1, AccountsHold, PTL

-----------------------------------------------------------------------------
(* Bound badges *)

\* What a call may do to a badge, or to the id of a revoked one.
BoundAt(c, i) ==
  LET badge == badgeInstances[c][i]
      after == badgeInstances'[c][i]
  IN  IF badge = None THEN i < nextInstanceId[c] => after = None
      ELSE (badge.soulbound \/ ~badge.transferable) => after \in {badge, None}

\* issue_badge writes only at the next id, where there is no badge, and
\* transfer_badge moves only transferable badges.
LEMMA BoundStep ==
  ASSUME TypeOK, NEW c \in ClassIds, NEW i \in InstanceIds, AccountedAt(c),
         [Next]_vars
  PROVE  BoundAt(c, i)
<1>1. ASSUME badgeInstances'[c][i] \in {badgeInstances[c][i], None}
      PROVE  BoundAt(c, i)
  BY <1>1 DEF BoundAt
<1>2. ASSUME NEW issuer \in Accounts, NEW to \in Accounts,
             NEW class \in ClassIds, NEW transferable \in BOOLEAN \cup {None},
             NEW soulbound \in BOOLEAN \cup {None},
             IssueBadge(issuer, class, to, transferable, soulbound)
      PROVE  BoundAt(c, i)
  <2>1. CASE c = class /\ i = nextInstanceId[class]
    <3>1. badgeInstances[c][i] = None /\ ~(i < nextInstanceId[c])
      BY <2>1, ConstantTypes DEF AccountedAt, InstanceIds
    <3>2. QED
      BY <3>1 DEF BoundAt
  <2>2. CASE ~(c = class /\ i = nextInstanceId[class])
    <3>1. badgeInstances'[c][i] = badgeInstances[c][i]
      BY <1>2, <2>2 DEF IssueBadge, TypeOK
    <3>2. QED
      BY <1>1, <3>1
  <2>3. QED
    BY <2>1, <2>2
<1>3. ASSUME NEW who \in Accounts, NEW class \in ClassIds,
             NEW instance \in InstanceIds, RevokeBadge(who, class, instance)
      PROVE  badgeInstances'[c][i] \in {badgeInstances[c][i], None}
  BY <1>3 DEF RevokeBadge, TypeOK
<1>4. ASSUME NEW who \in Accounts, NEW to \in Accounts,
             NEW class \in ClassIds, NEW instance \in InstanceIds,
             TransferBadge(who, class, instance, to)
      PROVE  BoundAt(c, i)
  <2>1. CASE c = class /\ i = instance
    BY <1>4, <2>1 DEF TransferBadge, MayTransfer, BoundAt
  <2>2. CASE ~(c = class /\ i = instance)
    <3>1. badgeInstances'[c][i] = badgeInstances[c][i]
      BY <1>4, <2>2 DEF TransferBadge, TypeOK
    <3>2. QED
      BY <1>1, <3>1
  <2>3. QED
    BY <2>1, <2>2
<1>5. ASSUME \/ UNCHANGED vars
             \/ \E origin \in Accounts \cup {Root},
                   club \in ClubIds \cup {None},
                   transferable, soulbound \in BOOLEAN :
                  CreateClass(origin, club, transferable, soulbound)
      PROVE  badgeInstances'[c][i] \in {badgeInstances[c][i], None}
  BY <1>5 DEF vars, CreateClass
<1>6. QED
  BY <1>1, <1>2, <1>3, <1>4, <1>5 DEF Next

\* transfer_badge and revoke_badge: a badge that is soulbound or not
\* transferable stays with its owner until it is revoked, and no badge is
\* ever issued again under the id of a revoked one.
THEOREM BadgesStayBound == Spec => BadgesBound
<1>1. AccountsInv /\ [Next]_vars =>
        [\A c \in ClassIds, i \in InstanceIds :
           LET badge == badgeInstances[c][i]
               after == badgeInstances'[c][i]
           IN  IF badge = None THEN i < nextInstanceId[c] => after = None
               ELSE (badge.soulbound \/ ~badge.transferable)
                      => after \in {badge, None}]_vars
  BY BoundStep DEF AccountsInv, BoundAt
<1>2. QED
  BY <1>1, AccountsHold, PTL DEF Spec, BadgesBound
=============================================================================
