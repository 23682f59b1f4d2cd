------------------------------- MODULE Badges -------------------------------
(***************************************************************************)
(* pallets/badges: classes of badges and the instances issued of them,     *)
(* which may be transferable or bound to their owner.                      *)
(*                                                                         *)
(* One action per dispatchable; a refused call is a stuttering step.       *)
(* Metadata hashes and issue times are never read and are left out.        *)
(***************************************************************************)
EXTENDS Integers, FiniteSets, SequencesExt

CONSTANTS
  Accounts,              \* accounts that sign extrinsics
  Root,                  \* the Root origin
  ClassCreationOrigin,   \* the origins Config's ClassCreationOrigin accepts
  ClubIds,               \* ClubId
  None,                  \* Option::None, and a key absent from a storage map
  ClassIdMax,            \* u32::MAX, where NextClassId saturates
  CountMax,              \* u32::MAX, where instances_count saturates
  MaxClasses,            \* Config's MaxClasses
  MaxInstancesPerClass,  \* Config's MaxInstancesPerClass
  MaxIndex,              \* bound of a ClassInstances vector
  GenesisClasses         \* GenesisConfig's classes: pairs <<id, info>>

ClassIds    == 0..ClassIdMax
\* NextInstanceId is a u64 bounded by a u32, and never saturates.
InstanceIds == 0..MaxInstancesPerClass

ClassInfo ==
  [creator : Accounts, club : ClubIds \cup {None},
   default_transferable : BOOLEAN, default_soulbound : BOOLEAN,
   instances_count : 0..CountMax]

BadgeInstance ==
  [owner : Accounts, issuer : Accounts, transferable : BOOLEAN,
   soulbound : BOOLEAN]

\* MaxClasses and MaxInstancesPerClass are u32; None is no value of the maps.
ASSUME BadgesConstants ==
  /\ Root \notin Accounts
  /\ ClassCreationOrigin \subseteq Accounts \cup {Root}
  /\ {ClassIdMax, CountMax, MaxClasses, MaxInstancesPerClass, MaxIndex}
       \subseteq Nat
  /\ MaxClasses <= ClassIdMax
  /\ GenesisClasses \in Seq(ClassIds \X ClassInfo)
  /\ None \notin ClassInfo \cup BadgeInstance \cup ClubIds \cup BOOLEAN

VARIABLES
  nextClassId,     \* NextClassId
  nextInstanceId,  \* NextInstanceId: class -> the next id of an instance
  classes,         \* Classes: class -> ClassInfo, or None
  badgeInstances,  \* BadgeInstances: class -> id -> BadgeInstance, or None
  classInstances   \* ClassInstances: class -> ids; an absent key is <<>>

vars == <<nextClassId, nextInstanceId, classes, badgeInstances, classInstances>>

-----------------------------------------------------------------------------
SaturatingInc(n, max) == IF n < max THEN n + 1 ELSE max

UnwrapOr(option, default) == IF option = None THEN default ELSE option

\* The storage after the first n entries of the genesis configuration: a
\* repeated id replaces the class.
GenesisStorage(n) ==
  [c \in ClassIds |->
     LET at == {k \in 1..n : GenesisClasses[k][1] = c}
     IN  IF at = {} THEN None
         ELSE GenesisClasses[Max(at)][2]]

\* Mutant: the next id is the number of classes.
GenesisNextClassIdCounts == Len(GenesisClasses)

\* build leaves NextClassId above every id it inserts, if there is one above.
GenesisNextClassId ==
  LET ids == {GenesisClasses[k][1] : k \in DOMAIN GenesisClasses}
  IN  IF ids = {} THEN 0 ELSE SaturatingInc(Max(ids), ClassIdMax)

\* Mutant: the soulbound flag is not looked at.
MayTransferBound(who, badge) == badge.owner = who /\ badge.transferable

MayTransfer(who, badge) ==
  badge.owner = who /\ ~badge.soulbound /\ badge.transferable

\* Mutant: every account may issue and revoke in a class of a club.
AllowedInClub(who, info) == info.club # None \/ who = info.creator

\* issue_badge and revoke_badge: the creator, whether or not the class is
\* one of a club.
Allowed(who, info) == who = info.creator

\* Mutant: the limit is checked one too late.
RoomForOneMore(next) == next <= MaxInstancesPerClass

RoomFor(next) == next < MaxInstancesPerClass

-----------------------------------------------------------------------------
Init ==
  /\ nextClassId = GenesisNextClassId
  /\ nextInstanceId = [c \in ClassIds |-> 0]
  /\ classes = GenesisStorage(Len(GenesisClasses))
  /\ badgeInstances = [c \in ClassIds |-> [i \in InstanceIds |-> None]]
  /\ classInstances = [c \in ClassIds |-> <<>>]

\* The origin has to be accepted and to be a signed one.
CreateClass(origin, club, transferable, soulbound) ==
  /\ origin \in ClassCreationOrigin
  /\ origin \in Accounts
  /\ nextClassId < MaxClasses
  /\ classes' = [classes EXCEPT ![nextClassId] =
       [creator |-> origin, club |-> club, default_transferable |-> transferable,
        default_soulbound |-> soulbound, instances_count |-> 0]]
  /\ nextClassId' = SaturatingInc(nextClassId, ClassIdMax)
  /\ UNCHANGED <<nextInstanceId, badgeInstances, classInstances>>

\* The index keeps the ids up to its bound; a badge beyond it is issued too.
IssueBadge(issuer, class, to, transferable, soulbound) ==
  LET info == classes[class]
      next == nextInstanceId[class]
  IN  /\ info # None
      /\ Allowed(issuer, info)
      /\ RoomFor(next)
      /\ badgeInstances' = [badgeInstances EXCEPT ![class][next] =
           [owner |-> to, issuer |-> issuer,
            transferable |-> UnwrapOr(transferable, info.default_transferable),
            soulbound |-> UnwrapOr(soulbound, info.default_soulbound)]]
      /\ classes' = [classes EXCEPT ![class].instances_count =
                       SaturatingInc(@, CountMax)]
      /\ classInstances' = [classInstances EXCEPT ![class] =
                              IF Len(@) < MaxIndex THEN Append(@, next) ELSE @]
      /\ nextInstanceId' = [nextInstanceId EXCEPT ![class] = next + 1]
      /\ UNCHANGED nextClassId

\* Mutant: the id of the last badge is given out again.
RevokeBadgeReusesId(who, class, instance) ==
  /\ classes[class] # None
  /\ Allowed(who, classes[class])
  /\ badgeInstances[class][instance] # None
  /\ badgeInstances' = [badgeInstances EXCEPT ![class][instance] = None]
  /\ nextInstanceId' = [nextInstanceId EXCEPT ![class] = @ - 1]
  /\ UNCHANGED <<nextClassId, classes, classInstances>>

\* Neither the count of the class nor its index changes.
RevokeBadge(who, class, instance) ==
  /\ classes[class] # None
  /\ Allowed(who, classes[class])
  /\ badgeInstances[class][instance] # None
  /\ badgeInstances' = [badgeInstances EXCEPT ![class][instance] = None]
  /\ UNCHANGED <<nextClassId, nextInstanceId, classes, classInstances>>

TransferBadge(who, class, instance, to) ==
  /\ badgeInstances[class][instance] # None
  /\ MayTransfer(who, badgeInstances[class][instance])
  /\ badgeInstances' = [badgeInstances EXCEPT ![class][instance].owner = to]
  /\ UNCHANGED <<nextClassId, nextInstanceId, classes, classInstances>>

Next ==
  \/ \E origin \in Accounts \cup {Root}, club \in ClubIds \cup {None},
        transferable, soulbound \in BOOLEAN :
       CreateClass(origin, club, transferable, soulbound)
  \/ \E issuer, to \in Accounts, class \in ClassIds,
        transferable, soulbound \in BOOLEAN \cup {None} :
       IssueBadge(issuer, class, to, transferable, soulbound)
  \/ \E who \in Accounts, class \in ClassIds, instance \in InstanceIds :
       RevokeBadge(who, class, instance)
  \/ \E who, to \in Accounts, class \in ClassIds, instance \in InstanceIds :
       TransferBadge(who, class, instance, to)

Spec == Init /\ [][Next]_vars

-----------------------------------------------------------------------------
(* Properties *)

\* The maps and counters keep their types, and an index its bound.
TypeOK ==
  /\ nextClassId \in ClassIds
  /\ nextInstanceId \in [ClassIds -> InstanceIds]
  /\ classes \in [ClassIds -> ClassInfo \cup {None}]
  /\ badgeInstances \in
       [ClassIds -> [InstanceIds -> BadgeInstance \cup {None}]]
  /\ DOMAIN classInstances = ClassIds
  /\ \A c \in ClassIds :
       /\ classInstances[c] \in Seq(InstanceIds)
       /\ Len(classInstances[c]) <= MaxIndex

\* create_class and build: a class keeps its creator, its club and its
\* defaults for ever; no class created later takes the id of another one,
\* whatever ids the genesis configuration used.
ClassesKept ==
  [][\A c \in ClassIds :
       classes[c] # None =>
         /\ classes'[c] # None
         /\ [classes'[c] EXCEPT !.instances_count = 0]
              = [classes[c] EXCEPT !.instances_count = 0]]_vars

\* issue_badge and revoke_badge: a class's index and count tell how many
\* badges were issued, revoked ones included: the index is the first ids in
\* order, up to its bound, the count grows from its value at genesis, and
\* badges exist only below the next id.
IssuesAccounted ==
  \A c \in ClassIds :
    LET before == GenesisStorage(Len(GenesisClasses))[c]
        start  == IF before = None THEN 0 ELSE before.instances_count
        issued == nextInstanceId[c]
        bound(n, max) == IF n <= max THEN n ELSE max
    IN  /\ classInstances[c] = [k \in 1..bound(issued, MaxIndex) |-> k - 1]
        /\ classes[c] # None =>
             classes[c].instances_count = bound(start + issued, CountMax)
        /\ classes[c] = None => issued = 0
        /\ \A i \in InstanceIds : i >= issued => badgeInstances[c][i] = None

\* issue_badge: whoever holds a badge now, and however often it changed
\* hands, it was issued by the creator of its class.
IssuedByCreator ==
  \A c \in ClassIds, i \in InstanceIds :
    badgeInstances[c][i] # None =>
      /\ classes[c] # None
      /\ badgeInstances[c][i].issuer = classes[c].creator

\* transfer_badge and revoke_badge: a soulbound or non-transferable badge
\* stays with its owner until it is revoked, and a revoked badge never comes
\* back, not even as another one under its id.
BadgesBound ==
  [][\A c \in ClassIds, i \in InstanceIds :
       LET badge == badgeInstances[c][i]
           after == badgeInstances'[c][i]
       IN  IF badge = None THEN i < nextInstanceId[c] => after = None
           ELSE (badge.soulbound \/ ~badge.transferable)
                  => after \in {badge, None}]_vars
=============================================================================
