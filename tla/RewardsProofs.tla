---------------------------- MODULE RewardsProofs ---------------------------
(* Theorems about Rewards, for every value of its constants. *)
EXTENDS Rewards, NumberLemmas, FiniteSetTheorems, TLAPS

-----------------------------------------------------------------------------
(* Numbers *)

\* The bounds of the pallet are natural numbers.
LEMMA ConstantTypes ==
  /\ RuleIdMax \in Nat /\ CountMax \in Nat /\ MaxAttestations \in Nat
  /\ EpochLengthInBlocks \in Nat /\ BlockMax \in Nat
BY RewardsConstants

\* A saturating increment stays within its type.
LEMMA SaturatingIncType ==
  ASSUME NEW max \in Nat, NEW n \in 0..max
  PROVE  SaturatingInc(n, max) \in 0..max
BY DEF SaturatingInc

\* The number of whole epochs is bounded by the blocks and never shrinks.
LEMMA DivGrows ==
  ASSUME NEW b \in Nat, NEW length \in Nat \ {0}
  PROVE  b \div length \in 0..b /\ b \div length <= (b + 1) \div length
OBVIOUS

\* The current epoch is one of the epochs, and a later block is not in an
\* earlier one.
LEMMA EpochGrows ==
  ASSUME block \in Blocks
  PROVE  /\ CurrentEpoch \in Epochs
         /\ block' = block \/ block' = block + 1 => CurrentEpoch <= CurrentEpoch'
<1>1. block \in Nat /\ block <= BlockMax /\ BlockMax \in Nat
  BY ConstantTypes DEF Blocks
<1>2. CASE EpochLengthInBlocks = 0
  BY <1>1, <1>2 DEF CurrentEpoch, Epochs
<1>3. CASE EpochLengthInBlocks # 0
  <2>1. EpochLengthInBlocks \in Nat \ {0}
    BY <1>3, ConstantTypes
  <2>2. /\ block \div EpochLengthInBlocks \in 0..block
        /\ block \div EpochLengthInBlocks <= (block + 1) \div EpochLengthInBlocks
    BY <1>1, <2>1, DivGrows
  <2>3. QED
    BY <1>1, <1>3, <2>2 DEF CurrentEpoch, Epochs
<1>4. QED
  BY <1>2, <1>3

-----------------------------------------------------------------------------
(* Typing, and rules that stay as they were made *)

\* Rule identifiers that have not been handed out have no rule.
RulesFresh ==
  \A r \in RuleIds : r >= nextRuleId /\ r # RuleIdMax => rules[r] = None

\* Genesis leaves NextRuleId above every rule it inserts.
LEMMA GenesisCounter ==
  /\ GenesisNextRuleId \in RuleIds
  /\ \A r \in RuleIds :
       r >= GenesisNextRuleId /\ r # RuleIdMax => GenesisRules[r] = None
<1>1. PICK ids \in SUBSET RuleIds : ids = {r \in RuleIds : GenesisRules[r] # None}
  OBVIOUS
<1>2. CASE ids = {}
  BY <1>1, <1>2, ConstantTypes DEF GenesisNextRuleId, RuleIds
<1>3. CASE ids # {}
  <2>1. Max(ids) \in ids /\ \A y \in ids : y <= Max(ids)
    BY <1>3, MaxOfBounded, ConstantTypes DEF RuleIds
  <2>2. GenesisNextRuleId = SaturatingInc(Max(ids), RuleIdMax)
    BY <1>1, <1>3 DEF GenesisNextRuleId
  <2>3. Max(ids) \in 0..RuleIdMax
    BY <2>1 DEF RuleIds
  <2>4. GenesisNextRuleId \in RuleIds
    BY <2>2, <2>3, SaturatingIncType, ConstantTypes DEF RuleIds
  <2>5. ASSUME NEW r \in RuleIds, r >= GenesisNextRuleId, r # RuleIdMax
        PROVE  GenesisRules[r] = None
    <3>1. r \notin ids
      BY <2>1, <2>2, <2>3, <2>5, ConstantTypes DEF SaturatingInc, RuleIds
    <3>2. QED
      BY <1>1, <3>1
  <2>6. QED
    BY <2>4, <2>5
<1>4. QED
  BY <1>2, <1>3

\* The genesis storage is well typed.
LEMMA InitTypeOK == Init => TypeOK /\ RulesFresh
<1> SUFFICES ASSUME Init PROVE TypeOK /\ RulesFresh
  OBVIOUS
<1>1. [epoch |-> 0, count |-> 0] \in ClaimCounter
  BY ConstantTypes DEF ClaimCounter, Epochs
<1>2. claimsThisEpoch \in [Accounts -> [RuleIds -> ClaimCounter]]
  BY <1>1 DEF Init
<1>3. QED
  BY <1>2, GenesisCounter, ConstantTypes, RewardsConstants
     DEF Init, TypeOK, RulesFresh, Blocks, AttestationIds

\* What claim_reward finds and leaves, with the rule and the new count.
ClaimMade(who, id, rule, count) ==
  /\ attestations[id] \in Attestation
  /\ attestations[id].rule_id = rule
  /\ ~attestations[id].used
  /\ rules[rule] \in RewardRule
  /\ count = SaturatingInc(CountInEpoch(who, rule), CountMax)
  /\ count <= rules[rule].max_per_epoch
  /\ claimsThisEpoch' = [claimsThisEpoch EXCEPT ![who][rule] =
                           [epoch |-> CurrentEpoch, count |-> count]]
  /\ attestations'[id] \in Attestation
  /\ attestations'[id].used
  /\ attestations'[id].rule_id = rule
  /\ attestations'[id].attestor = attestations[id].attestor
  /\ attestations' \in [AttestationIds -> Attestation \cup {None}]
  /\ \A i \in AttestationIds \ {id} : attestations'[i] = attestations[i]
  /\ claimed' = Append(claimed,
       [who |-> who, rule_id |-> rule, attestation_id |-> id,
        epoch |-> CurrentEpoch])
  /\ UNCHANGED <<rules, nextRuleId, nextAttestationId, block, awarded>>

\* claim_reward makes a claim under a rule that exists.
LEMMA ClaimEffect ==
  ASSUME TypeOK, NEW who \in Accounts, NEW id \in AttestationIds,
         ClaimReward(who, id)
  PROVE  \E rule \in RuleIds, count \in 0..CountMax :
           ClaimMade(who, id, rule, count)
<1>1. /\ attestations[id] \in Attestation
      /\ ~attestations[id].used
      /\ rules[attestations[id].rule_id] # None
      /\ attestations' = [attestations EXCEPT ![id].used = TRUE]
      /\ UNCHANGED <<rules, nextRuleId, nextAttestationId, block, awarded>>
  BY DEF ClaimReward, TypeOK
<1>2. PICK rule \in RuleIds : attestations[id].rule_id = rule
  BY <1>1 DEF Attestation
<1>3. rules[rule] \in RewardRule
  BY <1>1, <1>2 DEF TypeOK
<1>4. CountInEpoch(who, rule) \in 0..CountMax
  BY ConstantTypes DEF CountInEpoch, TypeOK, ClaimCounter
<1>5. PICK count \in 0..CountMax :
        count = SaturatingInc(CountInEpoch(who, rule), CountMax)
  BY <1>4, SaturatingIncType, ConstantTypes
<1>6. /\ count <= rules[rule].max_per_epoch
      /\ claimsThisEpoch' = [claimsThisEpoch EXCEPT ![who][rule] =
                               [epoch |-> CurrentEpoch, count |-> count]]
      /\ claimed' = Append(claimed,
           [who |-> who, rule_id |-> rule, attestation_id |-> id,
            epoch |-> CurrentEpoch])
  BY <1>2, <1>5 DEF ClaimReward
<1>7. /\ attestations'[id] = [attestations[id] EXCEPT !.used = TRUE]
      /\ \A i \in AttestationIds \ {id} : attestations'[i] = attestations[i]
  BY <1>1 DEF TypeOK
<1>8. /\ attestations'[id] \in Attestation
      /\ attestations'[id].used
      /\ attestations'[id].rule_id = rule
      /\ attestations'[id].attestor = attestations[id].attestor
  <2>1. PICK att \in Attestation : att = attestations[id]
    BY <1>1
  <2>2. /\ [att EXCEPT !.used = TRUE] \in Attestation
        /\ [att EXCEPT !.used = TRUE].used
        /\ [att EXCEPT !.used = TRUE].rule_id = att.rule_id
        /\ [att EXCEPT !.used = TRUE].attestor = att.attestor
    BY DEF Attestation
  <2>3. QED
    BY <1>2, <1>7, <2>1, <2>2
<1>9. attestations' \in [AttestationIds -> Attestation \cup {None}]
  BY <1>1, <1>8 DEF TypeOK, Attestation
<1>10. QED
  BY <1>1, <1>2, <1>3, <1>5, <1>6, <1>7, <1>8, <1>9 DEF ClaimMade

\* Typing, and that rules are fresh, is preserved by every dispatchable.
LEMMA TypeStep == TypeOK /\ RulesFresh /\ [Next]_vars => TypeOK' /\ RulesFresh'
<1> SUFFICES ASSUME TypeOK, RulesFresh, [Next]_vars PROVE TypeOK' /\ RulesFresh'
  OBVIOUS
<1>1. ASSUME NEW origin \in Origins, NEW max_per_epoch \in 0..CountMax,
             NEW club \in ClubIds \cup {None},
             CreateRule(origin, max_per_epoch, club)
      PROVE  TypeOK' /\ RulesFresh'
  <2>1. SaturatingInc(nextRuleId, RuleIdMax) \in RuleIds
    BY SaturatingIncType, ConstantTypes DEF TypeOK, RuleIds
  <2>2. [max_per_epoch |-> max_per_epoch, club |-> club] \in RewardRule
    BY DEF RewardRule
  <2>3. TypeOK'
    BY <1>1, <2>1, <2>2 DEF TypeOK, CreateRule
  <2>4. RulesFresh'
    BY <1>1, ConstantTypes
       DEF RulesFresh, CreateRule, TypeOK, RuleIds, SaturatingInc
  <2>5. QED
    BY <2>3, <2>4
<1>2. ASSUME NEW attestor \in Accounts, NEW subject \in Accounts,
             NEW rule_id \in RuleIds, NEW expires_at \in Blocks \cup {None},
             CreateAttestation(attestor, subject, rule_id, expires_at)
      PROVE  TypeOK' /\ RulesFresh'
  <2>1. [subject |-> subject, rule_id |-> rule_id, attestor |-> attestor,
         expires_at |-> expires_at, used |-> FALSE] \in Attestation
    BY DEF Attestation
  <2>2. /\ nextAttestationId \in AttestationIds
        /\ nextAttestationId + 1 \in 0..MaxAttestations
    BY <1>2, ConstantTypes DEF CreateAttestation, TypeOK, AttestationIds
  <2>3. QED
    BY <1>2, <2>1, <2>2 DEF TypeOK, RulesFresh, CreateAttestation
<1>3. ASSUME NEW who \in Accounts, NEW id \in AttestationIds, ClaimReward(who, id)
      PROVE  TypeOK' /\ RulesFresh'
  <2>1. PICK rule \in RuleIds, count \in 0..CountMax :
          ClaimMade(who, id, rule, count)
    BY <1>3, ClaimEffect
  <2>2. CurrentEpoch \in Epochs
    BY EpochGrows DEF TypeOK
  <2>3. [epoch |-> CurrentEpoch, count |-> count] \in ClaimCounter
    BY <2>2 DEF ClaimCounter
  <2>4. [who |-> who, rule_id |-> rule, attestation_id |-> id,
         epoch |-> CurrentEpoch] \in ClaimEvent
    BY <2>2 DEF ClaimEvent
  <2>5. claimed' \in Seq(ClaimEvent)
    BY <2>1, <2>4 DEF TypeOK, ClaimMade
  <2>6. claimsThisEpoch' \in [Accounts -> [RuleIds -> ClaimCounter]]
    BY <2>1, <2>3 DEF TypeOK, ClaimMade
  <2>7. QED
    BY <2>1, <2>5, <2>6 DEF TypeOK, RulesFresh, ClaimMade
<1>4. ASSUME NEW who \in Accounts, NEW id \in AttestationIds,
             RevokeAttestation(who, id)
      PROVE  TypeOK' /\ RulesFresh'
  BY <1>4 DEF TypeOK, RulesFresh, RevokeAttestation
<1>5. ASSUME NEW origin \in Origins, NEW to \in Accounts, AwardManual(origin, to)
      PROVE  TypeOK' /\ RulesFresh'
  BY <1>5 DEF TypeOK, RulesFresh, AwardManual
<1>6. CASE NewBlock
  BY <1>6, ConstantTypes DEF TypeOK, RulesFresh, NewBlock, Blocks
<1>7. CASE UNCHANGED vars
  BY <1>7 DEF TypeOK, RulesFresh, vars
<1>8. QED
  BY <1>1, <1>2, <1>3, <1>4, <1>5, <1>6, <1>7 DEF Next

\* Every value the pallet stores has its declared type, and identifiers that
\* were not handed out have no rule.
LEMMA TypesHold == Spec => [](TypeOK /\ RulesFresh)
BY InitTypeOK, TypeStep, PTL DEF Spec

\* Every value the pallet stores has its declared type: no attestation is
\* stored beyond MaxAttestations and no counter passes its maximum.
THEOREM RewardsTypes == Spec => []TypeOK
BY TypesHold, PTL

\* A rule below the last identifier is never replaced.
LEMMA RulesKept ==
  ASSUME TypeOK, RulesFresh, [Next]_vars
  PROVE  \A r \in RuleIds \ {RuleIdMax} : rules[r] # None => rules'[r] = rules[r]
<1>1. ASSUME NEW origin \in Origins, NEW max_per_epoch \in 0..CountMax,
             NEW club \in ClubIds \cup {None},
             CreateRule(origin, max_per_epoch, club)
      PROVE  \A r \in RuleIds \ {RuleIdMax} :
               rules[r] # None => rules'[r] = rules[r]
  BY <1>1, ConstantTypes DEF CreateRule, RulesFresh, TypeOK, RuleIds
<1>2. CASE UNCHANGED rules
  BY <1>2
<1>3. QED
  BY <1>1, <1>2
     DEF Next, vars, CreateAttestation, ClaimReward, RevokeAttestation,
         AwardManual, NewBlock

\* No step takes a rule away, the last identifier's included.
LEMMA RulesStay ==
  ASSUME TypeOK, [Next]_vars
  PROVE  \A r \in RuleIds : rules[r] # None => rules'[r] # None
<1>1. ASSUME NEW origin \in Origins, NEW max_per_epoch \in 0..CountMax,
             NEW club \in ClubIds \cup {None},
             CreateRule(origin, max_per_epoch, club)
      PROVE  \A r \in RuleIds : rules[r] # None => rules'[r] # None
  <2>1. [max_per_epoch |-> max_per_epoch, club |-> club] \in RewardRule
    BY DEF RewardRule
  <2>2. QED
    BY <1>1, <2>1, RewardsConstants DEF CreateRule, TypeOK
<1>2. CASE UNCHANGED rules
  BY <1>2
<1>3. QED
  BY <1>1, <1>2
     DEF Next, vars, CreateAttestation, ClaimReward, RevokeAttestation,
         AwardManual, NewBlock

-----------------------------------------------------------------------------
(* What a step does to attestations and claims *)

\* The calls that touch attestations or claims.
LEMMA AttestationSteps ==
  ASSUME [Next]_vars
  PROVE  \/ UNCHANGED <<attestations, nextAttestationId, claimed,
                        claimsThisEpoch>>
         \/ \E attestor, subject \in Accounts, rule_id \in RuleIds,
               expires_at \in Blocks \cup {None} :
              CreateAttestation(attestor, subject, rule_id, expires_at)
         \/ \E who \in Accounts, id \in AttestationIds :
              ClaimReward(who, id) \/ RevokeAttestation(who, id)
BY DEF Next, vars, CreateRule, AwardManual, NewBlock

\* What create_attestation stores, under an identifier never used before.
LEMMA AttestationCreated ==
  ASSUME TypeOK, NEW attestor \in Accounts, NEW subject \in Accounts,
         NEW rule_id \in RuleIds, NEW expires_at \in Blocks \cup {None},
         CreateAttestation(attestor, subject, rule_id, expires_at)
  PROVE  /\ nextAttestationId \in AttestationIds
         /\ attestations'[nextAttestationId] \in Attestation
         /\ attestations'[nextAttestationId].rule_id = rule_id
         /\ attestations'[nextAttestationId].attestor = attestor
         /\ ~attestations'[nextAttestationId].used
         /\ \A i \in AttestationIds \ {nextAttestationId} :
              attestations'[i] = attestations[i]
         /\ nextAttestationId' = nextAttestationId + 1
         /\ rules[rule_id] # None
         /\ MayAttest(attestor, rules[rule_id])
         /\ UNCHANGED <<rules, claimed, claimsThisEpoch, block>>
<1>1. [subject |-> subject, rule_id |-> rule_id, attestor |-> attestor,
       expires_at |-> expires_at, used |-> FALSE] \in Attestation
  BY DEF Attestation
<1>2. nextAttestationId \in AttestationIds
  BY ConstantTypes DEF CreateAttestation, TypeOK, AttestationIds
<1>3. QED
  BY <1>1, <1>2 DEF CreateAttestation, TypeOK

\* What revoke_attestation leaves.
LEMMA AttestationRevoked ==
  ASSUME TypeOK, NEW who \in Accounts, NEW id \in AttestationIds,
         RevokeAttestation(who, id)
  PROVE  /\ attestations[id] \in Attestation
         /\ attestations'[id] = None
         /\ \A i \in AttestationIds \ {id} : attestations'[i] = attestations[i]
         /\ UNCHANGED <<rules, nextAttestationId, claimed, claimsThisEpoch,
                        block>>
BY DEF RevokeAttestation, TypeOK

-----------------------------------------------------------------------------
(* Attestations are claimed once *)

\* Identifiers are handed out in order, and what has been claimed is used.
ClaimsUsed ==
  /\ \A i \in AttestationIds : attestations[i] # None => i < nextAttestationId
  /\ \A k \in DOMAIN claimed :
       /\ claimed[k].attestation_id < nextAttestationId
       /\ attestations[claimed[k].attestation_id] # None =>
            attestations[claimed[k].attestation_id].used

\* The types of the claims.
LEMMA ClaimTypes ==
  ASSUME TypeOK
  PROVE  /\ Len(claimed) \in Nat /\ DOMAIN claimed = 1..Len(claimed)
         /\ \A k \in DOMAIN claimed : claimed[k] \in ClaimEvent
BY DEF TypeOK

\* One more claim, seen one position at a time.
LEMMA ClaimAppended ==
  ASSUME TypeOK, NEW event, claimed' = Append(claimed, event)
  PROVE  /\ DOMAIN claimed' = (DOMAIN claimed) \cup {Len(claimed) + 1}
         /\ Len(claimed) + 1 \notin DOMAIN claimed
         /\ claimed'[Len(claimed) + 1] = event
         /\ \A k \in DOMAIN claimed : claimed'[k] = claimed[k]
<1>1. claimed \in Seq(ClaimEvent) /\ Len(claimed) \in Nat
  BY DEF TypeOK
<1>2. /\ DOMAIN claimed = 1..Len(claimed)
      /\ DOMAIN Append(claimed, event) = 1..(Len(claimed) + 1)
      /\ Append(claimed, event)[Len(claimed) + 1] = event
      /\ \A k \in 1..Len(claimed) : Append(claimed, event)[k] = claimed[k]
  BY <1>1
<1>3. QED
  BY <1>1, <1>2

\* Every call keeps claims and attestations in agreement, and claims single.
LEMMA ClaimedStep ==
  TypeOK /\ ClaimsUsed /\ ClaimedOnce /\ [Next]_vars => ClaimsUsed' /\ ClaimedOnce'
<1> SUFFICES ASSUME TypeOK, ClaimsUsed, ClaimedOnce, [Next]_vars
             PROVE  ClaimsUsed' /\ ClaimedOnce'
  OBVIOUS
<1>1. \A k \in DOMAIN claimed : claimed[k].attestation_id \in AttestationIds
  BY ClaimTypes DEF ClaimEvent
<1>2. nextAttestationId \in Nat /\ AttestationIds \subseteq Nat
  BY ConstantTypes DEF TypeOK, AttestationIds
<1>3. CASE UNCHANGED <<attestations, nextAttestationId, claimed,
                       claimsThisEpoch>>
  BY <1>3 DEF ClaimsUsed, ClaimedOnce
<1>4. ASSUME NEW attestor \in Accounts, NEW subject \in Accounts,
             NEW rule_id \in RuleIds, NEW expires_at \in Blocks \cup {None},
             CreateAttestation(attestor, subject, rule_id, expires_at)
      PROVE  ClaimsUsed' /\ ClaimedOnce'
  <2>1. /\ \A i \in AttestationIds \ {nextAttestationId} :
             attestations'[i] = attestations[i]
        /\ nextAttestationId' = nextAttestationId + 1
        /\ claimed' = claimed
    BY <1>4, AttestationCreated
  <2>2. \A i \in AttestationIds : attestations'[i] # None => i < nextAttestationId'
    BY <1>2, <2>1 DEF ClaimsUsed
  <2>3. \A k \in DOMAIN claimed :
          /\ claimed[k].attestation_id < nextAttestationId'
          /\ attestations'[claimed[k].attestation_id]
               = attestations[claimed[k].attestation_id]
    <3> SUFFICES ASSUME NEW k \in DOMAIN claimed,
                        NEW i \in AttestationIds, i = claimed[k].attestation_id
                 PROVE  /\ i < nextAttestationId'
                        /\ attestations'[i] = attestations[i]
      BY <1>1
    <3>1. i \in Nat /\ i < nextAttestationId
      BY <1>2 DEF ClaimsUsed
    <3>2. QED
      BY <1>2, <2>1, <3>1
  <2>4. QED
    BY <2>1, <2>2, <2>3 DEF ClaimsUsed, ClaimedOnce
<1>5. ASSUME NEW who \in Accounts, NEW id \in AttestationIds, ClaimReward(who, id)
      PROVE  ClaimsUsed' /\ ClaimedOnce'
  <2>1. PICK rule \in RuleIds, count \in 0..CountMax :
          ClaimMade(who, id, rule, count)
    BY <1>5, ClaimEffect
  <2>2. PICK event : /\ claimed' = Append(claimed, event)
                     /\ event.attestation_id = id
    BY <2>1 DEF ClaimMade
  <2>3. /\ DOMAIN claimed' = (DOMAIN claimed) \cup {Len(claimed) + 1}
        /\ claimed'[Len(claimed) + 1] = event
        /\ \A k \in DOMAIN claimed : claimed'[k] = claimed[k]
    BY <2>2, ClaimAppended
  <2>4. /\ attestations[id] # None /\ ~attestations[id].used
        /\ attestations'[id].used
        /\ \A i \in AttestationIds \ {id} : attestations'[i] = attestations[i]
        /\ nextAttestationId' = nextAttestationId
    BY <2>1, RewardsConstants DEF ClaimMade
  <2>5. id < nextAttestationId
    BY <2>4 DEF ClaimsUsed
  <2>6. \A k \in DOMAIN claimed : claimed[k].attestation_id # id
    BY <2>4 DEF ClaimsUsed
  <2>7. ClaimsUsed'
    <3>1. \A i \in AttestationIds : attestations'[i] # None => i < nextAttestationId
      BY <2>4, <2>5 DEF ClaimsUsed
    <3>2. \A k \in DOMAIN claimed' :
            /\ claimed'[k].attestation_id < nextAttestationId
            /\ attestations'[claimed'[k].attestation_id] # None =>
                 attestations'[claimed'[k].attestation_id].used
      BY <1>1, <2>2, <2>3, <2>4, <2>5 DEF ClaimsUsed
    <3>3. QED
      BY <2>4, <3>1, <3>2 DEF ClaimsUsed
  <2>8. ClaimedOnce'
    BY <2>2, <2>3, <2>6 DEF ClaimedOnce
  <2>9. QED
    BY <2>7, <2>8
<1>6. ASSUME NEW who \in Accounts, NEW id \in AttestationIds,
             RevokeAttestation(who, id)
      PROVE  ClaimsUsed' /\ ClaimedOnce'
  <2>1. /\ attestations'[id] = None
        /\ \A i \in AttestationIds \ {id} : attestations'[i] = attestations[i]
        /\ UNCHANGED <<nextAttestationId, claimed>>
    BY <1>6, AttestationRevoked
  <2>2. QED
    BY <1>1, <2>1 DEF ClaimsUsed, ClaimedOnce
<1>7. QED
  BY <1>3, <1>4, <1>5, <1>6, AttestationSteps

\* Nothing has been claimed at genesis.
LEMMA InitClaims == Init => ClaimsUsed /\ ClaimedOnce
BY DEF Init, ClaimsUsed, ClaimedOnce

\* Claims and attestations agree throughout.
LEMMA ClaimsHold == Spec => [](ClaimsUsed /\ ClaimedOnce)
BY InitClaims, ClaimedStep, RewardsTypes, PTL DEF Spec

\* An attestation is claimed at most once in the whole history, also if it is
\* revoked afterwards.
THEOREM RewardsClaimedOnce == Spec => []ClaimedOnce
BY ClaimsHold, PTL

-----------------------------------------------------------------------------
(* Attestors *)

\* The rule of an attestation exists, and unless it is the one that may be
\* replaced, a rule without a club has a privileged attestor.
AttestorsPrivileged ==
  \A i \in AttestationIds : attestations[i] # None =>
    /\ rules[attestations[i].rule_id] # None
    /\ attestations[i].rule_id # RuleIdMax
         /\ rules[attestations[i].rule_id].club = None
       => attestations[i].attestor \in ManualAwardOrigin

\* Every call keeps attestors privileged: rules below the last identifier
\* never change, so the check made at creation stays true.
LEMMA AttestorsStep ==
  ASSUME TypeOK, RulesFresh, AttestorsPrivileged, [Next]_vars
  PROVE  AttestorsPrivileged'
<1>1. \A i \in AttestationIds : attestations[i] # None =>
        attestations[i].rule_id \in RuleIds
  BY DEF TypeOK, Attestation
<1>2. ASSUME NEW i \in AttestationIds, attestations[i] # None
      PROVE  /\ rules'[attestations[i].rule_id] # None
             /\ attestations[i].rule_id # RuleIdMax
                  /\ rules'[attestations[i].rule_id].club = None
                => attestations[i].attestor \in ManualAwardOrigin
  BY <1>1, <1>2, RulesKept, RulesStay DEF AttestorsPrivileged
<1>3. CASE UNCHANGED <<attestations, nextAttestationId, claimed,
                       claimsThisEpoch>>
  BY <1>2, <1>3 DEF AttestorsPrivileged
<1>4. ASSUME NEW attestor \in Accounts, NEW subject \in Accounts,
             NEW rule_id \in RuleIds, NEW expires_at \in Blocks \cup {None},
             CreateAttestation(attestor, subject, rule_id, expires_at)
      PROVE  AttestorsPrivileged'
  <2>1. /\ attestations'[nextAttestationId].rule_id = rule_id
        /\ attestations'[nextAttestationId].attestor = attestor
        /\ \A i \in AttestationIds \ {nextAttestationId} :
             attestations'[i] = attestations[i]
        /\ rules[rule_id] # None
        /\ MayAttest(attestor, rules[rule_id])
        /\ rules' = rules
    BY <1>4, AttestationCreated
  <2>2. QED
    BY <1>2, <2>1 DEF AttestorsPrivileged, MayAttest
<1>5. ASSUME NEW who \in Accounts, NEW id \in AttestationIds, ClaimReward(who, id)
      PROVE  AttestorsPrivileged'
  <2>1. PICK rule \in RuleIds, count \in 0..CountMax :
          ClaimMade(who, id, rule, count)
    BY <1>5, ClaimEffect
  <2>2. /\ attestations[id] # None
        /\ attestations'[id].rule_id = attestations[id].rule_id
        /\ attestations'[id].attestor = attestations[id].attestor
        /\ \A i \in AttestationIds \ {id} : attestations'[i] = attestations[i]
    BY <2>1, RewardsConstants DEF ClaimMade
  <2>3. QED
    BY <1>2, <2>2 DEF AttestorsPrivileged
<1>6. ASSUME NEW who \in Accounts, NEW id \in AttestationIds,
             RevokeAttestation(who, id)
      PROVE  AttestorsPrivileged'
  <2>1. /\ attestations'[id] = None
        /\ \A i \in AttestationIds \ {id} : attestations'[i] = attestations[i]
    BY <1>6, AttestationRevoked
  <2>2. QED
    BY <1>2, <2>1 DEF AttestorsPrivileged
<1>7. QED
  BY <1>3, <1>4, <1>5, <1>6, AttestationSteps

\* An attestation under a rule without a club was made by an account that
\* passes ManualAwardOrigin, however many rules were made since.
THEOREM RewardsAttestorsPrivileged == Spec => []GlobalAttestorsPrivileged
<1>1. Init => AttestorsPrivileged
  BY DEF Init, AttestorsPrivileged
<1>2. AttestorsPrivileged => GlobalAttestorsPrivileged
  BY DEF AttestorsPrivileged, GlobalAttestorsPrivileged
<1>3. QED
  BY <1>1, <1>2, AttestorsStep, TypesHold, PTL DEF Spec

-----------------------------------------------------------------------------
(* Attestations are one-time grants *)

\* A step that moves one identifier, seen one identifier at a time.
LEMMA GrantMoved ==
  ASSUME NEW id \in AttestationIds, NEW state,
         GrantOf'[id] = state,
         \A i \in AttestationIds \ {id} : GrantOf'[i] = GrantOf[i]
  PROVE  GrantOf' = [GrantOf EXCEPT ![id] = state]
<1>1. /\ DOMAIN GrantOf = AttestationIds /\ DOMAIN GrantOf' = AttestationIds
      /\ GrantOf = [i \in DOMAIN GrantOf |-> GrantOf[i]]
      /\ GrantOf' = [i \in DOMAIN GrantOf' |-> GrantOf'[i]]
  BY DEF GrantOf
<1>2. QED
  BY <1>1

\* An identifier that a step leaves alone stays where it is.
LEMMA GrantSame ==
  ASSUME NEW i \in AttestationIds, attestations'[i] = attestations[i],
         (i < nextAttestationId)' <=> i < nextAttestationId
  PROVE  GrantOf'[i] = GrantOf[i]
BY DEF GrantOf

\* Every call issues, uses or revokes one identifier, or leaves all alone.
LEMMA GrantStep ==
  ASSUME TypeOK, ClaimsUsed, [Next]_vars
  PROVE  [Grants!Next]_GrantOf
<1>0. nextAttestationId \in Nat /\ AttestationIds \subseteq Nat
  BY ConstantTypes DEF TypeOK, AttestationIds
<1>1. CASE UNCHANGED <<attestations, nextAttestationId, claimed,
                       claimsThisEpoch>>
  BY <1>1 DEF GrantOf
<1>2. ASSUME NEW attestor \in Accounts, NEW subject \in Accounts,
             NEW rule_id \in RuleIds, NEW expires_at \in Blocks \cup {None},
             CreateAttestation(attestor, subject, rule_id, expires_at)
      PROVE  Grants!Next
  <2>1. /\ nextAttestationId \in AttestationIds
        /\ attestations'[nextAttestationId] \in Attestation
        /\ ~attestations'[nextAttestationId].used
        /\ \A i \in AttestationIds \ {nextAttestationId} :
             attestations'[i] = attestations[i]
        /\ nextAttestationId' = nextAttestationId + 1
    BY <1>2, AttestationCreated
  <2>2. attestations[nextAttestationId] = None
    BY <1>0, <2>1 DEF ClaimsUsed
  <2>3. GrantOf[nextAttestationId] = "unissued"
    BY <1>0, <2>1, <2>2 DEF GrantOf
  <2>4. GrantOf'[nextAttestationId] = "open"
    BY <2>1, RewardsConstants DEF GrantOf
  <2>5. \A i \in AttestationIds \ {nextAttestationId} : GrantOf'[i] = GrantOf[i]
    BY <1>0, <2>1, GrantSame
  <2>6. GrantOf' = [GrantOf EXCEPT ![nextAttestationId] = "open"]
    BY <2>1, <2>4, <2>5, GrantMoved
  <2>7. QED
    BY <2>1, <2>3, <2>6 DEF Grants!Next, Grants!Issue
<1>3. ASSUME NEW who \in Accounts, NEW id \in AttestationIds, ClaimReward(who, id)
      PROVE  Grants!Next
  <2>1. PICK rule \in RuleIds, count \in 0..CountMax :
          ClaimMade(who, id, rule, count)
    BY <1>3, ClaimEffect
  <2>2. /\ attestations[id] # None /\ attestations'[id] # None
        /\ ~attestations[id].used /\ attestations'[id].used
        /\ \A i \in AttestationIds \ {id} : attestations'[i] = attestations[i]
        /\ nextAttestationId' = nextAttestationId
    BY <2>1, RewardsConstants DEF ClaimMade
  <2>3. GrantOf[id] = "open"
    BY <2>2 DEF GrantOf
  <2>4. GrantOf'[id] = "used"
    BY <2>2 DEF GrantOf
  <2>5. \A i \in AttestationIds \ {id} : GrantOf'[i] = GrantOf[i]
    BY <2>2, GrantSame
  <2>6. GrantOf' = [GrantOf EXCEPT ![id] = "used"]
    BY <2>4, <2>5, GrantMoved
  <2>7. QED
    BY <2>3, <2>6 DEF Grants!Next, Grants!Use
<1>4. ASSUME NEW who \in Accounts, NEW id \in AttestationIds,
             RevokeAttestation(who, id)
      PROVE  Grants!Next
  <2>1. /\ attestations[id] # None /\ attestations'[id] = None
        /\ \A i \in AttestationIds \ {id} : attestations'[i] = attestations[i]
        /\ nextAttestationId' = nextAttestationId
    BY <1>4, AttestationRevoked, RewardsConstants
  <2>2. id < nextAttestationId
    BY <2>1 DEF ClaimsUsed
  <2>3. GrantOf[id] \in {"open", "used"}
    BY <2>1 DEF GrantOf
  <2>4. GrantOf'[id] = "revoked"
    BY <2>1, <2>2 DEF GrantOf
  <2>5. \A i \in AttestationIds \ {id} : GrantOf'[i] = GrantOf[i]
    BY <2>1, GrantSame
  <2>6. GrantOf' = [GrantOf EXCEPT ![id] = "revoked"]
    BY <2>4, <2>5, GrantMoved
  <2>7. QED
    BY <2>3, <2>6 DEF Grants!Next, Grants!Revoke
<1>5. QED
  BY <1>1, <1>2, <1>3, <1>4, AttestationSteps

\* The pallet's attestations implement one-time grants.
THEOREM RewardsImplementsGrants == Spec => AttestationsAreGrants
<1>1. Init => Grants!Init
  BY ConstantTypes DEF Init, Grants!Init, GrantOf, AttestationIds
<1>2. TypeOK /\ ClaimsUsed /\ [Next]_vars => [Grants!Next]_GrantOf
  BY GrantStep
<1>3. QED
  BY <1>1, <1>2, RewardsTypes, ClaimsHold, PTL
     DEF Spec, AttestationsAreGrants, Grants!Spec

-----------------------------------------------------------------------------
(* The limit per epoch *)

\* The counter of an account under a rule counts the claims of the epoch it
\* names, unless it is saturated, and no claim is of a later epoch.
Counted(a, r) ==
  /\ claimsThisEpoch[a][r].epoch <= CurrentEpoch
  /\ \A k \in DOMAIN claimed :
       claimed[k].who = a /\ claimed[k].rule_id = r =>
         claimed[k].epoch <= claimsThisEpoch[a][r].epoch
  /\ claimsThisEpoch[a][r].count < CountMax =>
       Cardinality(ClaimsIn(a, r, claimsThisEpoch[a][r].epoch))
         <= claimsThisEpoch[a][r].count

\* With it the limit is inductive: a claim is made under a rule that exists.
LimitInv ==
  /\ \A a \in Accounts, r \in RuleIds : Counted(a, r)
  /\ \A k \in DOMAIN claimed : rules[claimed[k].rule_id] # None
  /\ WithinEpochLimit

\* The claims of an epoch are finitely many.
LEMMA ClaimsFinite ==
  ASSUME TypeOK, NEW a, NEW r, NEW e
  PROVE  /\ IsFiniteSet(ClaimsIn(a, r, e))
         /\ Cardinality(ClaimsIn(a, r, e)) \in Nat
<1>1. Len(claimed) \in Nat /\ DOMAIN claimed = 1..Len(claimed)
  BY ClaimTypes
<1>2. IsFiniteSet(1..Len(claimed))
  BY <1>1, FS_Interval
<1>3. ClaimsIn(a, r, e) \subseteq 1..Len(claimed)
  BY <1>1 DEF ClaimsIn
<1>4. IsFiniteSet(ClaimsIn(a, r, e))
  BY <1>2, <1>3, FS_Subset
<1>5. QED
  BY <1>4, FS_CardinalityType

\* A claim adds itself to the claims of its account, rule and epoch.
LEMMA ClaimAdds ==
  ASSUME TypeOK, NEW who, NEW rule, NEW epoch, NEW id,
         claimed' = Append(claimed,
           [who |-> who, rule_id |-> rule, attestation_id |-> id,
            epoch |-> epoch])
  PROVE  /\ Cardinality(ClaimsIn(who, rule, epoch)')
              = Cardinality(ClaimsIn(who, rule, epoch)) + 1
         /\ \A a, r, e : a # who \/ r # rule \/ e # epoch =>
              ClaimsIn(a, r, e)' = ClaimsIn(a, r, e)
<1>1. PICK event : event = [who |-> who, rule_id |-> rule,
                            attestation_id |-> id, epoch |-> epoch]
  OBVIOUS
<1>2. event.who = who /\ event.rule_id = rule /\ event.epoch = epoch
  BY <1>1
<1>3. PICK new : new = Len(claimed) + 1
  OBVIOUS
<1>4. /\ DOMAIN claimed' = (DOMAIN claimed) \cup {new}
      /\ new \notin DOMAIN claimed
      /\ claimed'[new] = event
      /\ \A k \in DOMAIN claimed : claimed'[k] = claimed[k]
  BY <1>1, <1>3, ClaimAppended
<1>5. /\ ClaimsIn(who, rule, epoch)' = ClaimsIn(who, rule, epoch) \cup {new}
      /\ new \notin ClaimsIn(who, rule, epoch)
  BY <1>2, <1>4 DEF ClaimsIn
<1>6. \A a, r, e : a # who \/ r # rule \/ e # epoch =>
        ClaimsIn(a, r, e)' = ClaimsIn(a, r, e)
  BY <1>2, <1>4 DEF ClaimsIn
<1>7. IsFiniteSet(ClaimsIn(who, rule, epoch))
  BY ClaimsFinite
<1>8. Cardinality(ClaimsIn(who, rule, epoch)')
        = Cardinality(ClaimsIn(who, rule, epoch)) + 1
  BY <1>5, <1>7, FS_AddElement
<1>9. QED
  BY <1>6, <1>8

\* claim_reward keeps the limit: the counter is of this epoch and counts its
\* claims, or it is of an earlier one and this epoch has none yet.
LEMMA ClaimKeepsLimit ==
  ASSUME TypeOK, RulesFresh, LimitInv, NEW who \in Accounts,
         NEW id \in AttestationIds, ClaimReward(who, id)
  PROVE  LimitInv'
<1>1. PICK rule \in RuleIds, count \in 0..CountMax :
        ClaimMade(who, id, rule, count)
  BY ClaimEffect
<1>2. PICK epoch \in Epochs : epoch = CurrentEpoch
  BY EpochGrows DEF TypeOK
<1>3. CurrentEpoch' = epoch
  BY <1>1, <1>2 DEF ClaimMade, CurrentEpoch
<1>4. claimed' = Append(claimed,
        [who |-> who, rule_id |-> rule, attestation_id |-> id, epoch |-> epoch])
  BY <1>1, <1>2 DEF ClaimMade
<1>5. /\ Cardinality(ClaimsIn(who, rule, epoch)')
           = Cardinality(ClaimsIn(who, rule, epoch)) + 1
      /\ \A a, r, e : a # who \/ r # rule \/ e # epoch =>
           ClaimsIn(a, r, e)' = ClaimsIn(a, r, e)
  BY <1>4, ClaimAdds
<1>6. PICK event : event = [who |-> who, rule_id |-> rule,
                            attestation_id |-> id, epoch |-> epoch]
  OBVIOUS
<1>7. event.who = who /\ event.rule_id = rule /\ event.epoch = epoch
  BY <1>6
<1>8. /\ DOMAIN claimed' = (DOMAIN claimed) \cup {Len(claimed) + 1}
      /\ claimed'[Len(claimed) + 1] = event
      /\ \A k \in DOMAIN claimed : claimed'[k] = claimed[k]
  BY <1>4, <1>6, ClaimAppended
<1>9. /\ claimsThisEpoch'[who][rule].epoch = epoch
      /\ claimsThisEpoch'[who][rule].count = count
      /\ \A a \in Accounts, r \in RuleIds : a # who \/ r # rule =>
           claimsThisEpoch'[a][r] = claimsThisEpoch[a][r]
  BY <1>1, <1>2 DEF ClaimMade, TypeOK
<1>10. /\ claimsThisEpoch[who][rule].epoch \in Int
       /\ claimsThisEpoch[who][rule].count \in 0..CountMax
       /\ CountMax \in Nat /\ epoch \in Int
       /\ \A e \in Epochs : Cardinality(ClaimsIn(who, rule, e)) \in Nat
  BY ConstantTypes, ClaimsFinite DEF TypeOK, ClaimCounter, Epochs
<1>11. count < CountMax => Cardinality(ClaimsIn(who, rule, epoch)) + 1 <= count
  <2>1. CASE claimsThisEpoch[who][rule].epoch = epoch
    <3>1. count = SaturatingInc(claimsThisEpoch[who][rule].count, CountMax)
      BY <1>1, <1>2, <2>1 DEF ClaimMade, CountInEpoch
    <3>2. claimsThisEpoch[who][rule].count < CountMax =>
            Cardinality(ClaimsIn(who, rule, epoch))
              <= claimsThisEpoch[who][rule].count
      BY <2>1 DEF LimitInv, Counted
    <3>3. QED
      BY <1>10, <3>1, <3>2 DEF SaturatingInc
  <2>2. CASE claimsThisEpoch[who][rule].epoch # epoch
    <3>1. count = SaturatingInc(0, CountMax)
      BY <1>1, <1>2, <2>2 DEF ClaimMade, CountInEpoch
    <3>2. claimsThisEpoch[who][rule].epoch < epoch
      BY <1>2, <1>10, <2>2 DEF LimitInv, Counted
    <3>3. \A k \in DOMAIN claimed :
            claimed[k].who = who /\ claimed[k].rule_id = rule =>
              claimed[k].epoch # epoch
      BY <1>10, <3>2 DEF LimitInv, Counted
    <3>4. ClaimsIn(who, rule, epoch) = {}
      BY <3>3 DEF ClaimsIn
    <3>5. Cardinality(ClaimsIn(who, rule, epoch)) = 0
      BY <3>4, FS_EmptySet
    <3>6. QED
      BY <1>10, <3>1, <3>5 DEF SaturatingInc
  <2>3. QED
    BY <2>1, <2>2
<1>12. ASSUME NEW a \in Accounts, NEW r \in RuleIds PROVE Counted(a, r)'
  <2>1. CASE a = who /\ r = rule
    <3>1. \A k \in DOMAIN claimed :
            claimed[k].who = who /\ claimed[k].rule_id = rule =>
              claimed[k].epoch <= epoch
      <4>1. ASSUME NEW k \in DOMAIN claimed,
                   claimed[k].who = who, claimed[k].rule_id = rule
            PROVE  claimed[k].epoch <= epoch
        <5>1. /\ claimed[k].epoch <= claimsThisEpoch[who][rule].epoch
              /\ claimsThisEpoch[who][rule].epoch <= epoch
          BY <1>2, <4>1 DEF LimitInv, Counted
        <5>2. claimed[k].epoch \in Int
          BY ClaimTypes, ConstantTypes DEF ClaimEvent, Epochs
        <5>3. QED
          BY <1>10, <5>1, <5>2
      <4>2. QED
        BY <4>1
    <3>2. \A k \in DOMAIN claimed' :
            claimed'[k].who = who /\ claimed'[k].rule_id = rule =>
              claimed'[k].epoch <= epoch
      BY <1>7, <1>8, <1>10, <3>1
    <3>3. count < CountMax => Cardinality(ClaimsIn(who, rule, epoch)') <= count
      BY <1>5, <1>11
    <3>4. epoch <= CurrentEpoch'
      BY <1>3, <1>10
    <3>5. ClaimsIn(a, r, claimsThisEpoch[a][r].epoch)'
            = ClaimsIn(who, rule, epoch)'
      BY <1>9, <2>1 DEF ClaimsIn
    <3>6. QED
      BY <1>9, <2>1, <3>2, <3>3, <3>4, <3>5 DEF Counted
  <2>2. CASE a # who \/ r # rule
    <3>1. claimsThisEpoch'[a][r] = claimsThisEpoch[a][r]
      BY <1>9, <2>2
    <3>2. ClaimsIn(a, r, claimsThisEpoch[a][r].epoch)'
            = ClaimsIn(a, r, claimsThisEpoch[a][r].epoch)
      <4>1. PICK e : e = claimsThisEpoch[a][r].epoch
        OBVIOUS
      <4>2. ClaimsIn(a, r, e)' = ClaimsIn(a, r, e)
        BY <1>5, <2>2
      <4>3. ClaimsIn(a, r, claimsThisEpoch[a][r].epoch)' = ClaimsIn(a, r, e)'
        BY <3>1, <4>1 DEF ClaimsIn
      <4>4. QED
        BY <4>1, <4>2, <4>3
    <3>3. \A k \in DOMAIN claimed' :
            claimed'[k].who = a /\ claimed'[k].rule_id = r =>
              claimed'[k].epoch <= claimsThisEpoch[a][r].epoch
      BY <1>7, <1>8, <2>2 DEF LimitInv, Counted
    <3>4. QED
      BY <1>2, <1>3, <3>1, <3>2, <3>3 DEF LimitInv, Counted
  <2>3. QED
    BY <2>1, <2>2
<1>13. \A k \in DOMAIN claimed' : rules'[claimed'[k].rule_id] # None
  BY <1>1, <1>7, <1>8, RewardsConstants DEF LimitInv, ClaimMade
<1>14. WithinEpochLimit'
  <2> SUFFICES ASSUME NEW a \in Accounts, NEW r \in RuleIds \ {RuleIdMax},
                      NEW e \in Epochs, rules'[r] # None,
                      rules'[r].max_per_epoch < CountMax
               PROVE  Cardinality(ClaimsIn(a, r, e)') <= rules'[r].max_per_epoch
    BY DEF WithinEpochLimit
  <2>1. rules' = rules
    BY <1>1 DEF ClaimMade
  <2>2. CASE a = who /\ r = rule /\ e = epoch
    <3>1. count <= rules[r].max_per_epoch /\ rules[r].max_per_epoch \in Nat
      BY <1>1, <2>2, ConstantTypes DEF ClaimMade, RewardRule
    <3>2. count < CountMax
      BY <1>10, <2>1, <3>1
    <3>3. Cardinality(ClaimsIn(who, rule, epoch)') <= count
      BY <1>5, <1>11, <3>2
    <3>4. Cardinality(ClaimsIn(who, rule, epoch)') \in Nat
      BY <1>5, <1>10
    <3>5. QED
      BY <2>1, <2>2, <3>1, <3>3, <3>4
  <2>3. CASE ~(a = who /\ r = rule /\ e = epoch)
    BY <1>5, <2>1, <2>3 DEF LimitInv, WithinEpochLimit
  <2>4. QED
    BY <2>2, <2>3
<1>15. QED
  BY <1>12, <1>13, <1>14 DEF LimitInv

\* Every other call keeps the limit: it leaves the claims alone, rules with
\* claims stay as they are, and a new rule has no claims.
LEMMA OthersKeepLimit ==
  ASSUME TypeOK, RulesFresh, LimitInv, [Next]_vars,
         UNCHANGED <<claimed, claimsThisEpoch>>
  PROVE  LimitInv'
<1>1. \A a, r, e : ClaimsIn(a, r, e)' = ClaimsIn(a, r, e)
  BY DEF ClaimsIn
<1>2. CurrentEpoch <= CurrentEpoch'
  <2>1. block' = block \/ block' = block + 1
    BY DEF Next, vars, CreateRule, CreateAttestation, ClaimReward,
           RevokeAttestation, AwardManual, NewBlock
  <2>2. QED
    BY <2>1, EpochGrows DEF TypeOK
<1>3. CurrentEpoch \in Int /\ CurrentEpoch' \in Int
  <2>1. TypeOK'
    BY TypeStep
  <2>2. CurrentEpoch \in Epochs
    BY EpochGrows DEF TypeOK
  <2>3. CurrentEpoch' \in Int
    <3>1. block' \in Nat
      BY <2>1, ConstantTypes DEF TypeOK, Blocks
    <3>2. CASE EpochLengthInBlocks = 0
      BY <3>2 DEF CurrentEpoch
    <3>3. CASE EpochLengthInBlocks # 0
      BY <3>1, <3>3, ConstantTypes DEF CurrentEpoch
    <3>4. QED
      BY <3>2, <3>3
  <2>4. QED
    BY <2>2, <2>3, ConstantTypes DEF Epochs
<1>4. ASSUME NEW a \in Accounts, NEW r \in RuleIds PROVE Counted(a, r)'
  <2>1. Counted(a, r)
    BY DEF LimitInv
  <2>2. claimsThisEpoch[a][r].epoch \in Int
    BY ConstantTypes DEF TypeOK, ClaimCounter, Epochs
  <2>3. claimsThisEpoch[a][r].epoch <= CurrentEpoch'
    BY <1>2, <1>3, <2>1, <2>2 DEF Counted
  <2>4. ClaimsIn(a, r, claimsThisEpoch[a][r].epoch)'
          = ClaimsIn(a, r, claimsThisEpoch[a][r].epoch)
    BY DEF ClaimsIn
  <2>5. QED
    BY <2>1, <2>3, <2>4 DEF Counted
<1>5. \A k \in DOMAIN claimed' : rules'[claimed'[k].rule_id] # None
  <2>1. \A k \in DOMAIN claimed : claimed[k].rule_id \in RuleIds
    BY ClaimTypes DEF ClaimEvent
  <2>2. QED
    BY <2>1, RulesStay DEF LimitInv
<1>6. WithinEpochLimit'
  <2> SUFFICES ASSUME NEW a \in Accounts, NEW r \in RuleIds \ {RuleIdMax},
                      NEW e \in Epochs, rules'[r] # None,
                      rules'[r].max_per_epoch < CountMax
               PROVE  Cardinality(ClaimsIn(a, r, e)') <= rules'[r].max_per_epoch
    BY DEF WithinEpochLimit
  <2>1. CASE rules[r] # None
    BY <1>1, <2>1, RulesKept DEF LimitInv, WithinEpochLimit
  <2>2. CASE rules[r] = None
    <3>1. ClaimsIn(a, r, e) = {}
      BY <2>2 DEF LimitInv, ClaimsIn
    <3>2. Cardinality(ClaimsIn(a, r, e)') = 0
      BY <1>1, <3>1, FS_EmptySet
    <3>3. rules'[r] \in RewardRule
      BY TypeStep DEF TypeOK
    <3>4. rules'[r].max_per_epoch \in Nat
      BY <3>3, ConstantTypes DEF RewardRule
    <3>5. QED
      BY <3>2, <3>4
  <2>3. QED
    BY <2>1, <2>2
<1>7. QED
  BY <1>4, <1>5, <1>6 DEF LimitInv

\* The limit holds at genesis: there are no claims.
LEMMA InitLimit == Init => LimitInv
<1> SUFFICES ASSUME Init PROVE LimitInv
  OBVIOUS
<1>1. TypeOK
  BY InitTypeOK
<1>2. \A a, r, e : ClaimsIn(a, r, e) = {}
  BY DEF Init, ClaimsIn
<1>3. \A a, r, e : Cardinality(ClaimsIn(a, r, e)) = 0
  BY <1>2, FS_EmptySet
<1>4. CurrentEpoch \in Nat
  BY <1>1, EpochGrows, ConstantTypes DEF TypeOK, Epochs
<1>5. ASSUME NEW a \in Accounts, NEW r \in RuleIds PROVE Counted(a, r)
  <2>1. claimsThisEpoch[a][r].epoch = 0 /\ claimsThisEpoch[a][r].count = 0
    BY DEF Init
  <2>2. DOMAIN claimed = {}
    BY DEF Init
  <2>3. QED
    BY <1>3, <1>4, <2>1, <2>2 DEF Counted
<1>6. WithinEpochLimit
  <2>1. \A r \in RuleIds : rules[r] # None => rules[r].max_per_epoch \in Nat
    BY <1>1, ConstantTypes DEF TypeOK, RewardRule
  <2>2. QED
    BY <1>3, <2>1 DEF WithinEpochLimit
<1>7. QED
  BY <1>5, <1>6 DEF Init, LimitInv

\* In no epoch, past or present, has an account claimed more often under a
\* rule than the rule allows.
THEOREM RewardsWithinLimit == Spec => []WithinEpochLimit
<1>1. TypeOK /\ RulesFresh /\ LimitInv /\ [Next]_vars => LimitInv'
  <2> SUFFICES ASSUME TypeOK, RulesFresh, LimitInv, [Next]_vars PROVE LimitInv'
    OBVIOUS
  <2>1. CASE \E who \in Accounts, id \in AttestationIds : ClaimReward(who, id)
    BY <2>1, ClaimKeepsLimit
  <2>2. CASE UNCHANGED <<claimed, claimsThisEpoch>>
    BY <2>2, OthersKeepLimit
  <2>3. QED
    BY <2>1, <2>2
       DEF Next, vars, CreateRule, CreateAttestation, RevokeAttestation,
           AwardManual, NewBlock
<1>2. LimitInv => WithinEpochLimit
  BY DEF LimitInv
<1>3. QED
  BY <1>1, <1>2, InitLimit, TypesHold, PTL DEF Spec
=============================================================================
