------------------------------ MODULE Rewards -------------------------------
(***************************************************************************)
(* pallets/rewards: rules that say what an activity earns and how often,   *)
(* attestations that an account has earned it, and claims, limited per     *)
(* account, rule and epoch.                                                *)
(*                                                                         *)
(* One action per dispatchable; a refused call leaves no write behind and  *)
(* is a stuttering step.  The time of a block grows with its number and    *)
(* expiry is only ever compared with it, so one clock, counted in blocks,  *)
(* stands for both.  Event types, amounts and metadata are left out.       *)
(***************************************************************************)
EXTENDS Integers, Sequences, FiniteSets, FiniteSetsExt

CONSTANTS
  Accounts,            \* T::AccountId
  Root,                \* the Root origin
  RuleCreationOrigin,  \* the origins Config's RuleCreationOrigin accepts
  ManualAwardOrigin,   \* the origins Config's ManualAwardOrigin accepts
  ClubIds,             \* ClubId
  None,                \* Option::None, and a key absent from a storage map
  RuleIdMax,           \* u32::MAX, where NextRuleId saturates
  CountMax,            \* u32::MAX, where a claim counter saturates
  MaxAttestations,     \* Config's MaxAttestations
  EpochLengthInBlocks, \* Config's EpochLengthInBlocks
  BlockMax,            \* bound on the blocks the model explores
  GenesisRules         \* rule id -> RewardRule, or None: the genesis config

Origins        == Accounts \cup {Root}
RuleIds        == 0..RuleIdMax
AttestationIds == 0..(MaxAttestations - 1)
Blocks         == 0..BlockMax
Epochs         == 0..BlockMax

RewardRule == [max_per_epoch : 0..CountMax, club : ClubIds \cup {None}]

Attestation ==
  [subject : Accounts, rule_id : RuleIds, attestor : Accounts,
   expires_at : Blocks \cup {None}, used : BOOLEAN]

ClaimCounter == [epoch : Epochs, count : 0..CountMax]

\* A RewardClaimed event, and the epoch it was deposited in.
ClaimEvent ==
  [who : Accounts, rule_id : RuleIds, attestation_id : AttestationIds,
   epoch : Epochs]

\* Origins are told apart, None is no value of the maps, bounds are numbers.
ASSUME RewardsConstants ==
  /\ Root \notin Accounts
  /\ RuleCreationOrigin \subseteq Origins
  /\ ManualAwardOrigin \subseteq Origins
  /\ {RuleIdMax, CountMax, MaxAttestations, EpochLengthInBlocks, BlockMax}
       \subseteq Nat
  /\ GenesisRules \in [RuleIds -> RewardRule \cup {None}]
  /\ None \notin RewardRule
  /\ None \notin Attestation
  /\ None \notin ClubIds
  /\ None \notin Blocks

VARIABLES
  rules,              \* Rules: rule id -> RewardRule, or None
  nextRuleId,         \* NextRuleId
  attestations,       \* Attestations: id -> Attestation, or None
  nextAttestationId,  \* NextAttestationId
  claimsThisEpoch,    \* ClaimsThisEpoch: account -> rule id -> ClaimCounter
  block,              \* frame_system's block number, and the clock
  claimed,            \* history: the RewardClaimed events, in order
  awarded             \* history: the accounts of RewardAwarded events

vars == <<rules, nextRuleId, attestations, nextAttestationId,
          claimsThisEpoch, block, claimed, awarded>>

-----------------------------------------------------------------------------
(* Helpers *)

SaturatingInc(n, max) == IF n < max THEN n + 1 ELSE max

CurrentEpoch ==
  IF EpochLengthInBlocks = 0 THEN 0 ELSE block \div EpochLengthInBlocks

NotExpired(att) == att.expires_at # None => block <= att.expires_at

\* Mutant: the test for another epoch is the wrong way round.
CountResetInEpoch(who, rule_id) ==
  IF claimsThisEpoch[who][rule_id].epoch = CurrentEpoch
  THEN 0
  ELSE claimsThisEpoch[who][rule_id].count

\* The claims counted so far in the current epoch: none if the counter is
\* of another epoch.
CountInEpoch(who, rule_id) ==
  IF claimsThisEpoch[who][rule_id].epoch = CurrentEpoch
  THEN claimsThisEpoch[who][rule_id].count
  ELSE 0

\* Mutant: any signed account may attest under a rule without a club.
MayAttestAnyone(attestor, rule) == TRUE

\* For a rule of a club nothing is checked; for a rule without one the
\* attestor must pass ManualAwardOrigin.
MayAttest(attestor, rule) == rule.club = None => attestor \in ManualAwardOrigin

MayRevoke(who, att, rule) ==
  IF rule.club # None THEN who = att.attestor ELSE who \in ManualAwardOrigin

\* NextRuleId once every rule of the genesis config has been inserted.
GenesisNextRuleId ==
  LET ids == {r \in RuleIds : GenesisRules[r] # None}
  IN  IF ids = {} THEN 0 ELSE SaturatingInc(Max(ids), RuleIdMax)

-----------------------------------------------------------------------------
Init ==
  /\ rules = GenesisRules
  /\ nextRuleId = GenesisNextRuleId
  /\ attestations = [i \in AttestationIds |-> None]
  /\ nextAttestationId = 0
  /\ claimsThisEpoch =
       [a \in Accounts |-> [r \in RuleIds |-> [epoch |-> 0, count |-> 0]]]
  /\ block = 0
  /\ claimed = <<>>
  /\ awarded = {}

CreateRule(origin, max_per_epoch, club) ==
  /\ origin \in RuleCreationOrigin
  /\ rules' = [rules EXCEPT ![nextRuleId] =
                 [max_per_epoch |-> max_per_epoch, club |-> club]]
  /\ nextRuleId' = SaturatingInc(nextRuleId, RuleIdMax)
  /\ UNCHANGED <<attestations, nextAttestationId, claimsThisEpoch, block,
                 claimed, awarded>>

\* Mutant: the limit is checked one too late.
CreateAttestationOverLimit(attestor, subject, rule_id, expires_at) ==
  /\ rules[rule_id] # None
  /\ MayAttest(attestor, rules[rule_id])
  /\ nextAttestationId <= MaxAttestations
  /\ attestations' = [attestations EXCEPT ![nextAttestationId] =
       [subject |-> subject, rule_id |-> rule_id, attestor |-> attestor,
        expires_at |-> expires_at, used |-> FALSE]]
  /\ nextAttestationId' = nextAttestationId + 1
  /\ UNCHANGED <<rules, nextRuleId, claimsThisEpoch, block, claimed, awarded>>

CreateAttestation(attestor, subject, rule_id, expires_at) ==
  /\ rules[rule_id] # None
  /\ MayAttest(attestor, rules[rule_id])
  /\ nextAttestationId < MaxAttestations
  /\ attestations' = [attestations EXCEPT ![nextAttestationId] =
       [subject |-> subject, rule_id |-> rule_id, attestor |-> attestor,
        expires_at |-> expires_at, used |-> FALSE]]
  /\ nextAttestationId' = nextAttestationId + 1
  /\ UNCHANGED <<rules, nextRuleId, claimsThisEpoch, block, claimed, awarded>>

\* Mutant: the attestation is not marked used.
ClaimRewardKeepsOpen(who, id) ==
  LET att   == attestations[id]
      count == SaturatingInc(CountInEpoch(who, att.rule_id), CountMax)
  IN  /\ att # None
      /\ att.subject = who
      /\ ~att.used
      /\ NotExpired(att)
      /\ rules[att.rule_id] # None
      /\ count <= rules[att.rule_id].max_per_epoch
      /\ claimsThisEpoch' = [claimsThisEpoch EXCEPT ![who][att.rule_id] =
                               [epoch |-> CurrentEpoch, count |-> count]]
      /\ claimed' = Append(claimed,
           [who |-> who, rule_id |-> att.rule_id, attestation_id |-> id,
            epoch |-> CurrentEpoch])
      /\ UNCHANGED <<rules, nextRuleId, attestations, nextAttestationId, block,
                     awarded>>

\* The payment is commented out.
ClaimReward(who, id) ==
  LET att   == attestations[id]
      count == SaturatingInc(CountInEpoch(who, att.rule_id), CountMax)
  IN  /\ att # None
      /\ att.subject = who
      /\ ~att.used
      /\ NotExpired(att)
      /\ rules[att.rule_id] # None
      /\ count <= rules[att.rule_id].max_per_epoch
      /\ claimsThisEpoch' = [claimsThisEpoch EXCEPT ![who][att.rule_id] =
                               [epoch |-> CurrentEpoch, count |-> count]]
      /\ attestations' = [attestations EXCEPT ![id].used = TRUE]
      /\ claimed' = Append(claimed,
           [who |-> who, rule_id |-> att.rule_id, attestation_id |-> id,
            epoch |-> CurrentEpoch])
      /\ UNCHANGED <<rules, nextRuleId, nextAttestationId, block, awarded>>

\* The payment is commented out here too.
AwardManual(origin, to) ==
  /\ origin \in ManualAwardOrigin
  /\ awarded' = awarded \cup {to}
  /\ UNCHANGED <<rules, nextRuleId, attestations, nextAttestationId,
                 claimsThisEpoch, block, claimed>>

\* Mutant: revoking gives the identifier back, as if it counted live records.
RevokeAttestationFrees(who, id) ==
  LET att == attestations[id]
  IN  /\ att # None
      /\ rules[att.rule_id] # None
      /\ MayRevoke(who, att, rules[att.rule_id])
      /\ attestations' = [attestations EXCEPT ![id] = None]
      /\ nextAttestationId' = nextAttestationId - 1
      /\ UNCHANGED <<rules, nextRuleId, claimsThisEpoch, block, claimed,
                     awarded>>

RevokeAttestation(who, id) ==
  LET att == attestations[id]
  IN  /\ att # None
      /\ rules[att.rule_id] # None
      /\ MayRevoke(who, att, rules[att.rule_id])
      /\ attestations' = [attestations EXCEPT ![id] = None]
      /\ UNCHANGED <<rules, nextRuleId, nextAttestationId, claimsThisEpoch,
                     block, claimed, awarded>>

\* frame_system and pallet-timestamp: the next block.
NewBlock ==
  /\ block < BlockMax
  /\ block' = block + 1
  /\ UNCHANGED <<rules, nextRuleId, attestations, nextAttestationId,
                 claimsThisEpoch, claimed, awarded>>

Next ==
  \/ \E origin \in Origins, max_per_epoch \in 0..CountMax,
        club \in ClubIds \cup {None} : CreateRule(origin, max_per_epoch, club)
  \/ \E attestor, subject \in Accounts, rule_id \in RuleIds,
        expires_at \in Blocks \cup {None} :
       CreateAttestation(attestor, subject, rule_id, expires_at)
  \/ \E who \in Accounts, id \in AttestationIds :
       \/ ClaimReward(who, id)
       \/ RevokeAttestation(who, id)
  \/ \E origin \in Origins, to \in Accounts : AwardManual(origin, to)
  \/ NewBlock

Spec == Init /\ [][Next]_vars

-----------------------------------------------------------------------------
(* Properties *)

\* Every storage item holds values of its declared type.
TypeOK ==
  /\ rules \in [RuleIds -> RewardRule \cup {None}]
  /\ nextRuleId \in RuleIds
  /\ attestations \in [AttestationIds -> Attestation \cup {None}]
  /\ nextAttestationId \in 0..MaxAttestations
  /\ claimsThisEpoch \in [Accounts -> [RuleIds -> ClaimCounter]]
  /\ block \in Blocks
  /\ claimed \in Seq(ClaimEvent)
  /\ awarded \subseteq Accounts

\* Where the RewardClaimed events of one account under one rule in one epoch
\* are in the history.
ClaimsIn(who, rule_id, epoch) ==
  {k \in DOMAIN claimed : /\ claimed[k].who = who
                          /\ claimed[k].rule_id = rule_id
                          /\ claimed[k].epoch = epoch}

\* In no epoch, past or present, has an account claimed more often under a
\* rule than the rule allows, although only the counter of its last epoch is
\* kept.  (A rule that allows u32::MAX claims is not limited: the counter
\* saturates there.  The last rule identifier is handed out again once
\* NextRuleId has saturated.)
WithinEpochLimit ==
  \A a \in Accounts, r \in RuleIds \ {RuleIdMax}, e \in Epochs :
    rules[r] # None /\ rules[r].max_per_epoch < CountMax =>
      Cardinality(ClaimsIn(a, r, e)) <= rules[r].max_per_epoch

\* An attestation has been claimed at most once in the whole history, also
\* if it was revoked after it was used.
ClaimedOnce ==
  \A j, k \in DOMAIN claimed :
    claimed[j].attestation_id = claimed[k].attestation_id => j = k

\* An attestation under a rule without a club was made by an account that
\* passes ManualAwardOrigin, also long after it was made.
GlobalAttestorsPrivileged ==
  \A i \in AttestationIds : attestations[i] # None =>
    LET r == attestations[i].rule_id
    IN  r # RuleIdMax /\ rules[r].club = None =>
          attestations[i].attestor \in ManualAwardOrigin

\* The life of an attestation identifier as OneTimeGrant sees it.
GrantOf ==
  [i \in AttestationIds |->
     IF attestations[i] = None
     THEN IF i < nextAttestationId THEN "revoked" ELSE "unissued"
     ELSE IF attestations[i].used THEN "used" ELSE "open"]

Grants == INSTANCE OneTimeGrant WITH Ids <- AttestationIds, grant <- GrantOf

\* Attestations implement one-time grants: create_attestation issues a fresh
\* identifier, claim_reward uses it once, revoke_attestation ends it.
AttestationsAreGrants == Grants!Spec
=============================================================================
