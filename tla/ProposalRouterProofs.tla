------------------------ MODULE ProposalRouterProofs ------------------------
(* Theorems about ProposalRouter, for every value of its constants. *)
EXTENDS ProposalRouter, TLAPS

-----------------------------------------------------------------------------
(* Numbers, calls and nestings *)

\* The bounds of the pallet are natural numbers.
LEMMA ConstantTypes ==
  /\ ProposalIdMax \in Nat /\ VotesMax \in Nat /\ Scale \in Nat
  /\ MaxVotersPerProposal \in Nat /\ MaxClubIndex \in Nat
  /\ MaxNesting \in Nat /\ BlockMax \in Nat
  /\ MaxVotersPerProposal <= VotesMax
BY RouterConstants

\* A saturating sum stays within its type and is no smaller than its terms.
LEMMA SaturatingAddType ==
  ASSUME NEW max \in Nat, NEW m \in 0..max, NEW n \in Nat
  PROVE  /\ SaturatingAdd(m, n, max) \in 0..max
         /\ m <= SaturatingAdd(m, n, max)
BY DEF SaturatingAdd

\* A call of the pallet itself carries the id of a proposal, a vote its side.
LEMMA CallFields ==
  ASSUME NEW call \in Call
  PROVE  /\ call.kind = "vote" => call.id \in ProposalIds /\ call.aye \in BOOLEAN
         /\ call.kind = "cancel" => call.id \in ProposalIds
BY DEF Call

\* A proposal nobody has voted on.
Untouched(p, club) ==
  /\ p \in Proposal /\ ~p.executed /\ p.voters = <<>>
  /\ p.yea = 0 /\ p.nay = 0 /\ p.club = club

\* What propose stores is a proposal nobody has voted on.
LEMMA NewProposalType ==
  ASSUME block \in Blocks, NEW club \in ClubIds \cup {None}, NEW call \in Call,
         NEW period \in Blocks \cup {None}, NEW quorum \in Votes \cup {None},
         NEW threshold \in Votes \cup {None}
  PROVE  Untouched(NewProposal(club, call, period, quorum, threshold), club)
<1>1. UnwrapOr(period, DefaultVotingPeriod) \in Blocks
  BY RouterConstants DEF UnwrapOr
<1>2. SaturatingAdd(block, UnwrapOr(period, DefaultVotingPeriod), BlockMax)
        \in Blocks
  <2>1. PICK length \in Nat : length = UnwrapOr(period, DefaultVotingPeriod)
    BY <1>1, ConstantTypes DEF Blocks
  <2>2. SaturatingAdd(block, length, BlockMax) \in Blocks
    BY ConstantTypes, SaturatingAddType DEF Blocks
  <2>3. QED
    BY <2>1, <2>2
<1>3. /\ UnwrapOr(quorum, DefaultQuorum) \in Votes
      /\ UnwrapOr(threshold, DefaultPassThreshold) \in Votes
  BY RouterConstants DEF UnwrapOr
<1>4. 0 \in Votes /\ <<>> \in Seq(Signers) /\ FALSE \in BOOLEAN
  BY ConstantTypes DEF Votes
<1>5. PICK p : p = NewProposal(club, call, period, quorum, threshold)
  OBVIOUS
<1>6. p \in Proposal
  BY <1>2, <1>3, <1>4, <1>5 DEF NewProposal, Proposal
<1>7. QED
  BY <1>5, <1>6 DEF NewProposal, Untouched

\* The proposals of a nesting pass the checks of execute, the last one too.
LEMMA NestingFacts ==
  ASSUME NEW chain \in Chains, NEW id \in ProposalIds, Nesting(chain, id)
  PROVE  /\ Innermost(chain) \in ProposalIds /\ Innermost(chain) \in Range(chain)
         /\ \A i \in Range(chain) :
              i \in ProposalIds /\ Executable(proposals[i])
<1>1. PICK n \in 1..MaxNesting : chain \in [1..n -> ProposalIds]
  BY DEF Chains
<1>2. n \in Nat /\ n >= 1 /\ DOMAIN chain = 1..n
  BY <1>1, ConstantTypes
<1>3. Len(chain) = n
  BY <1>1, <1>2
<1>4. Innermost(chain) \in ProposalIds /\ Innermost(chain) \in Range(chain)
  BY <1>1, <1>2, <1>3 DEF Innermost, Range
<1>5. QED
  BY <1>1, <1>4 DEF Range, Nesting

-----------------------------------------------------------------------------
(* What a step may do to a proposal *)

Kept(i) == proposals'[i] = proposals[i] /\ dispatched'[i] = dispatched[i]

Made(i) ==
  /\ i = nextProposalId
  /\ nextProposalId' = SaturatingAdd(nextProposalId, 1, ProposalIdMax)
  /\ Untouched(proposals'[i], proposals'[i].club)
  /\ dispatched'[i] = dispatched[i]

Voted(i) ==
  /\ \E who \in Signers, aye \in BOOLEAN :
       MayVote(who, i) /\ proposals'[i] = WithVote(proposals[i], who, aye)
  /\ dispatched'[i] = dispatched[i]

Removed(i) ==
  /\ proposals[i] # None /\ proposals'[i] = None
  /\ dispatched'[i] = dispatched[i]

Ran(i) ==
  /\ Executable(proposals[i])
  /\ proposals'[i] = [proposals[i] EXCEPT !.executed = TRUE]
  /\ dispatched'[i] = dispatched[i] + 1

Moved(i) == Kept(i) \/ Made(i) \/ Voted(i) \/ Removed(i) \/ Ran(i)

\* What a step does besides.
Besides ==
  /\ DOMAIN proposals' = ProposalIds /\ DOMAIN dispatched' = ProposalIds
  /\ \/ nextProposalId' = nextProposalId
     \/ nextProposalId' = SaturatingAdd(nextProposalId, 1, ProposalIdMax)
  /\ \/ block' = block
     \/ block' = block + 1 /\ block < BlockMax /\ UNCHANGED proposals
  /\ \/ cancelled' = cancelled
     \/ \E id \in ProposalIds :
          cancelled' = cancelled \cup {id} /\ (Removed(id) \/ Ran(id))
  /\ failed' \ failed \subseteq ProposalIds
  /\ failureEvents' = failureEvents

\* A proposal written back by execute has run, whatever the dispatched call
\* has stored meanwhile; the others are as that call has left them.
LEMMA WrittenBackEffect ==
  ASSUME TypeOK, NEW chain \in Chains, NEW id \in ProposalIds,
         Nesting(chain, id), NEW ps, proposals' = WrittenBack(ps, chain),
         dispatched' = Dispatched(chain)
  PROVE  /\ \A i \in Range(chain) : Ran(i)
         /\ \A i \in ProposalIds \ Range(chain) :
              proposals'[i] = ps[i] /\ dispatched'[i] = dispatched[i]
         /\ DOMAIN proposals' = ProposalIds /\ DOMAIN dispatched' = ProposalIds
BY NestingFacts DEF WrittenBack, Dispatched, Ran

\* A call of the pallet that is dispatched finds the proposal it names.
LEMMA InnermostCall ==
  ASSUME TypeOK, NEW chain \in Chains, NEW id \in ProposalIds,
         Nesting(chain, id)
  PROVE  proposals[Innermost(chain)].call \in Call
<1>1. Innermost(chain) \in ProposalIds /\ proposals[Innermost(chain)] # None
  BY NestingFacts DEF Executable
<1>2. proposals[Innermost(chain)] \in Proposal
  BY <1>1 DEF TypeOK, Stored
<1>3. QED
  BY <1>2 DEF Proposal

\* Every call does one of five things to a proposal.
LEMMA Moves ==
  ASSUME TypeOK, [Next]_vars
  PROVE  Besides /\ \A i \in ProposalIds : Moved(i)
<1>1. ASSUME NEW club \in ClubIds \cup {None}, NEW call \in Calls,
             NEW period \in VotingPeriods, NEW quorum \in Quorums,
             NEW threshold \in PassThresholds,
             Propose(club, call, period, quorum, threshold)
      PROVE  Besides /\ \A i \in ProposalIds : Moved(i)
  <2>1. PICK p :
          /\ Untouched(p, club)
          /\ proposals' = [proposals EXCEPT ![nextProposalId] = p]
    <3>1. /\ call \in Call /\ period \in Blocks \cup {None}
          /\ quorum \in Votes \cup {None} /\ threshold \in Votes \cup {None}
          /\ block \in Blocks
      BY RouterConstants DEF TypeOK
    <3>2. Untouched(NewProposal(club, call, period, quorum, threshold), club)
      BY <3>1, NewProposalType
    <3>3. QED
      BY <1>1, <3>2 DEF Propose
  <2>2. Made(nextProposalId)
    BY <1>1, <2>1 DEF Propose, Made, Untouched, TypeOK
  <2>3. \A i \in ProposalIds \ {nextProposalId} : Kept(i)
    BY <1>1, <2>1 DEF Propose, Kept, TypeOK
  <2>4. Besides
    BY <1>1, <2>1 DEF Propose, Besides, TypeOK
  <2>5. QED
    BY <2>2, <2>3, <2>4 DEF Moved
<1>2. ASSUME NEW who \in Accounts, NEW id \in ProposalIds, NEW aye \in BOOLEAN,
             Vote(who, id, aye)
      PROVE  Besides /\ \A i \in ProposalIds : Moved(i)
  <2>1. proposals'[id] = WithVote(proposals[id], who, aye)
    BY <1>2 DEF Vote, TypeOK
  <2>2. Voted(id)
    BY <1>2, <2>1 DEF Vote, Voted, Signers
  <2>3. \A i \in ProposalIds \ {id} : Kept(i)
    BY <1>2 DEF Vote, Kept, TypeOK
  <2>4. Besides
    BY <1>2 DEF Vote, Besides, TypeOK
  <2>5. QED
    BY <2>2, <2>3, <2>4 DEF Moved
<1>3. ASSUME NEW origin \in Accounts \cup {Root}, NEW id \in ProposalIds,
             Cancel(origin, id)
      PROVE  Besides /\ \A i \in ProposalIds : Moved(i)
  <2>1. Removed(id)
    BY <1>3 DEF Cancel, Removed, TypeOK
  <2>2. \A i \in ProposalIds \ {id} : Kept(i)
    BY <1>3 DEF Cancel, Kept, TypeOK
  <2>3. Besides
    BY <1>3, <2>1 DEF Cancel, Besides, TypeOK
  <2>4. QED
    BY <2>1, <2>2, <2>3 DEF Moved
<1>4. ASSUME NEW id \in ProposalIds, ExecuteOther(id)
      PROVE  Besides /\ \A i \in ProposalIds : Moved(i)
  <2>1. PICK chain \in Chains : DispatchesOther(chain, id)
    BY <1>4 DEF ExecuteOther
  <2>2. /\ \A i \in Range(chain) : Ran(i)
        /\ \A i \in ProposalIds \ Range(chain) : Kept(i)
        /\ DOMAIN proposals' = ProposalIds /\ DOMAIN dispatched' = ProposalIds
    BY <2>1, WrittenBackEffect DEF DispatchesOther, Kept
  <2>3. Besides
    BY <2>1, <2>2 DEF DispatchesOther, Besides
  <2>4. QED
    BY <2>2, <2>3 DEF Moved
<1>5. ASSUME NEW id \in ProposalIds, ExecutePropose(id)
      PROVE  Besides /\ \A i \in ProposalIds : Moved(i)
  <2>1. [kind |-> "succeeds"] \in Call /\ block \in Blocks
    BY DEF Call, TypeOK
  <2>2. PICK p :
          /\ p = NewProposal(None, [kind |-> "succeeds"], None, None, None)
          /\ Untouched(p, None)
    <3>1. Untouched(
            NewProposal(None, [kind |-> "succeeds"], None, None, None), None)
      BY <2>1, NewProposalType
    <3>2. QED
      BY <3>1
  <2>3. PICK ps : ps = [proposals EXCEPT ![nextProposalId] = p]
    OBVIOUS
  <2>4. PICK chain \in Chains :
          /\ Nesting(chain, id) /\ proposals' = WrittenBack(ps, chain)
          /\ dispatched' = Dispatched(chain)
    BY <1>5, <2>2, <2>3 DEF ExecutePropose
  <2>5. /\ \A i \in Range(chain) : Ran(i)
        /\ \A i \in ProposalIds \ Range(chain) :
             proposals'[i] = ps[i] /\ dispatched'[i] = dispatched[i]
        /\ DOMAIN proposals' = ProposalIds /\ DOMAIN dispatched' = ProposalIds
    BY <2>4, WrittenBackEffect
  <2>6. nextProposalId' = SaturatingAdd(nextProposalId, 1, ProposalIdMax)
    BY <1>5 DEF ExecutePropose
  <2>7. ASSUME NEW i \in ProposalIds \ Range(chain) PROVE Kept(i) \/ Made(i)
    <3>1. CASE i = nextProposalId
      BY <2>2, <2>3, <2>5, <2>6, <3>1 DEF Made, Untouched, TypeOK
    <3>2. CASE i # nextProposalId
      BY <2>3, <2>5, <3>2 DEF Kept, TypeOK
    <3>3. QED
      BY <3>1, <3>2
  <2>8. Besides
    BY <1>5, <2>5 DEF ExecutePropose, Besides
  <2>9. QED
    BY <2>5, <2>7, <2>8 DEF Moved
<1>6. ASSUME NEW id \in ProposalIds, ExecuteVote(id)
      PROVE  Besides /\ \A i \in ProposalIds : Moved(i)
  <2>1. PICK chain \in Chains :
          /\ Nesting(chain, id) /\ dispatched' = Dispatched(chain)
          /\ proposals[Innermost(chain)].call.kind = "vote"
          /\ MayVote(PalletAccount, proposals[Innermost(chain)].call.id)
          /\ proposals' = WrittenBack(
               [proposals EXCEPT ![proposals[Innermost(chain)].call.id] =
                  WithVote(@, PalletAccount, proposals[Innermost(chain)].call.aye)],
               chain)
    BY <1>6 DEF ExecuteVote
  <2>2. PICK call \in Call : call = proposals[Innermost(chain)].call
    BY <2>1, InnermostCall
  <2>3. call.id \in ProposalIds /\ call.aye \in BOOLEAN
    BY <2>1, <2>2, CallFields
  <2>4. PICK ps : ps = [proposals EXCEPT ![call.id] =
                          WithVote(proposals[call.id], PalletAccount, call.aye)]
    OBVIOUS
  <2>5. proposals' = WrittenBack(ps, chain)
    BY <2>1, <2>2, <2>4
  <2>6. /\ \A i \in Range(chain) : Ran(i)
        /\ \A i \in ProposalIds \ Range(chain) :
             proposals'[i] = ps[i] /\ dispatched'[i] = dispatched[i]
        /\ DOMAIN proposals' = ProposalIds /\ DOMAIN dispatched' = ProposalIds
    BY <2>1, <2>5, WrittenBackEffect
  <2>7. ASSUME NEW i \in ProposalIds \ Range(chain) PROVE Kept(i) \/ Voted(i)
    <3>1. CASE i = call.id
      <4>1. proposals'[i] = WithVote(proposals[i], PalletAccount, call.aye)
        BY <2>4, <2>6, <3>1 DEF TypeOK
      <4>2. MayVote(PalletAccount, i)
        BY <2>1, <2>2, <3>1
      <4>3. QED
        BY <2>3, <2>6, <4>1, <4>2 DEF Voted, Signers
    <3>2. CASE i # call.id
      BY <2>4, <2>6, <3>2 DEF Kept, TypeOK
    <3>3. QED
      BY <3>1, <3>2
  <2>8. Besides
    BY <1>6, <2>6 DEF ExecuteVote, Besides
  <2>9. QED
    BY <2>6, <2>7, <2>8 DEF Moved
<1>7. ASSUME NEW id \in ProposalIds, ExecuteCancel(id)
      PROVE  Besides /\ \A i \in ProposalIds : Moved(i)
  <2>1. PICK chain \in Chains :
          /\ Nesting(chain, id) /\ dispatched' = Dispatched(chain)
          /\ proposals[Innermost(chain)].call.kind = "cancel"
          /\ proposals[proposals[Innermost(chain)].call.id] # None
          /\ cancelled' = cancelled \cup {proposals[Innermost(chain)].call.id}
          /\ proposals' = WrittenBack(
               [proposals EXCEPT ![proposals[Innermost(chain)].call.id] = None],
               chain)
    BY <1>7 DEF ExecuteCancel
  <2>2. PICK call \in Call : call = proposals[Innermost(chain)].call
    BY <2>1, InnermostCall
  <2>3. call.id \in ProposalIds
    BY <2>1, <2>2, CallFields
  <2>4. PICK ps : ps = [proposals EXCEPT ![call.id] = None]
    OBVIOUS
  <2>5. /\ proposals' = WrittenBack(ps, chain)
        /\ cancelled' = cancelled \cup {call.id} /\ proposals[call.id] # None
    BY <2>1, <2>2, <2>4
  <2>6. /\ \A i \in Range(chain) : Ran(i)
        /\ \A i \in ProposalIds \ Range(chain) :
             proposals'[i] = ps[i] /\ dispatched'[i] = dispatched[i]
        /\ DOMAIN proposals' = ProposalIds /\ DOMAIN dispatched' = ProposalIds
    BY <2>1, <2>5, WrittenBackEffect
  <2>7. ASSUME NEW i \in ProposalIds \ Range(chain)
        PROVE  IF i = call.id THEN Removed(i) ELSE Kept(i)
    BY <2>4, <2>5, <2>6 DEF Removed, Kept, TypeOK
  <2>8. Besides
    BY <1>7, <2>3, <2>5, <2>6, <2>7 DEF ExecuteCancel, Besides
  <2>9. QED
    BY <2>6, <2>7, <2>8 DEF Moved
<1>8. ASSUME \/ UNCHANGED vars
             \/ NewBlock
             \/ \E id \in ProposalIds : ExecuteFails(id)
      PROVE  Besides /\ \A i \in ProposalIds : Moved(i)
  <2>1. \A i \in ProposalIds : Kept(i)
    BY <1>8 DEF vars, NewBlock, ExecuteFails, DispatchReturnsError, Kept
  <2>2. Besides
    BY <1>8
       DEF vars, NewBlock, ExecuteFails, DispatchReturnsError, Besides, TypeOK
  <2>3. QED
    BY <2>1, <2>2 DEF Moved
<1>9. QED
  BY <1>1, <1>2, <1>3, <1>4, <1>5, <1>6, <1>7, <1>8 DEF Next, Execute

\* What a step does to the indexes of the clubs: nothing, and no proposal of a
\* club is made, or it appends the proposal that is made to its club's index.
IndexMoved ==
  \/ /\ clubProposals' = clubProposals
     /\ \A i \in FreshIds : Made(i) => proposals'[i].club = None
  \/ \E club \in ClubIds :
       /\ Len(clubProposals[club]) < MaxClubIndex
       /\ clubProposals' =
            [clubProposals EXCEPT ![club] = Append(@, nextProposalId)]
       /\ nextProposalId' = SaturatingAdd(nextProposalId, 1, ProposalIdMax)
       /\ proposals'[nextProposalId] # None
       /\ proposals'[nextProposalId].club = club
       /\ \A i \in ProposalIds \ {nextProposalId} : Kept(i)

\* Without a new id no proposal with a fresh id is made.
LEMMA NoneMade ==
  ASSUME TypeOK, nextProposalId' = nextProposalId, NEW i \in FreshIds
  PROVE  ~Made(i)
BY ConstantTypes DEF Made, SaturatingAdd, FreshIds, ProposalIds, TypeOK

\* Every call does one of the two to the indexes.
LEMMA IndexMoves ==
  ASSUME TypeOK, [Next]_vars
  PROVE  IndexMoved
<1>1. ASSUME NEW club \in ClubIds \cup {None}, NEW call \in Calls,
             NEW period \in VotingPeriods, NEW quorum \in Quorums,
             NEW threshold \in PassThresholds,
             Propose(club, call, period, quorum, threshold)
      PROVE  IndexMoved
  <2>1. PICK p : /\ Untouched(p, club)
                 /\ proposals' = [proposals EXCEPT ![nextProposalId] = p]
    <3>1. /\ call \in Call /\ period \in Blocks \cup {None}
          /\ quorum \in Votes \cup {None} /\ threshold \in Votes \cup {None}
          /\ block \in Blocks
      BY RouterConstants DEF TypeOK
    <3>2. Untouched(NewProposal(club, call, period, quorum, threshold), club)
      BY <3>1, NewProposalType
    <3>3. QED
      BY <1>1, <3>2 DEF Propose
  <2>2. proposals'[nextProposalId] = p /\ p # None /\ p.club = club
    BY <2>1, RouterConstants DEF Untouched, TypeOK
  <2>3. \A i \in ProposalIds \ {nextProposalId} : Kept(i)
    BY <1>1, <2>1 DEF Propose, Kept, TypeOK
  <2>4. CASE club = None
    BY <1>1, <2>2, <2>4 DEF Propose, Indexed, IndexMoved, Made
  <2>5. CASE club # None
    <3>1. /\ club \in ClubIds /\ Len(clubProposals[club]) < MaxClubIndex
          /\ clubProposals' =
               [clubProposals EXCEPT ![club] = Append(@, nextProposalId)]
          /\ nextProposalId' = SaturatingAdd(nextProposalId, 1, ProposalIdMax)
      BY <1>1, <2>5 DEF Propose, Indexed
    <3>2. QED
      BY <2>2, <2>3, <3>1 DEF IndexMoved
  <2>6. QED
    BY <2>4, <2>5
<1>2. ASSUME NEW id \in ProposalIds, ExecutePropose(id)
      PROVE  IndexMoved
  <2>1. [kind |-> "succeeds"] \in Call /\ block \in Blocks
    BY DEF Call, TypeOK
  <2>2. PICK p :
          /\ p = NewProposal(None, [kind |-> "succeeds"], None, None, None)
          /\ Untouched(p, None)
    <3>1. Untouched(
            NewProposal(None, [kind |-> "succeeds"], None, None, None), None)
      BY <2>1, NewProposalType
    <3>2. QED
      BY <3>1
  <2>3. PICK ps : ps = [proposals EXCEPT ![nextProposalId] = p]
    OBVIOUS
  <2>4. PICK chain \in Chains :
          /\ Nesting(chain, id) /\ proposals' = WrittenBack(ps, chain)
          /\ dispatched' = Dispatched(chain)
    BY <1>2, <2>2, <2>3 DEF ExecutePropose
  <2>5. ASSUME NEW i \in FreshIds, Made(i) PROVE proposals'[i].club = None
    <3>1. i \in ProposalIds /\ i = nextProposalId
      BY <2>5 DEF Made, FreshIds
    <3>2. i \notin Range(chain)
      <4>1. SUFFICES ASSUME i \in Range(chain) PROVE FALSE
        OBVIOUS
      <4>2. Ran(i)
        BY <2>4, <4>1, WrittenBackEffect
      <4>3. dispatched'[i] = dispatched[i] /\ dispatched[i] \in Nat
        BY <2>5, <3>1 DEF Made, TypeOK
      <4>4. QED
        BY <4>2, <4>3 DEF Ran
    <3>3. proposals'[i] = p
      BY <2>3, <2>4, <3>1, <3>2, WrittenBackEffect DEF TypeOK
    <3>4. QED
      BY <2>2, <3>3 DEF Untouched
  <2>6. QED
    BY <1>2, <2>5 DEF ExecutePropose, IndexMoved
<1>3. ASSUME clubProposals' = clubProposals, nextProposalId' = nextProposalId
      PROVE  IndexMoved
  BY <1>3, NoneMade DEF IndexMoved
<1>4. ASSUME NEW id \in ProposalIds,
             \/ ExecuteOther(id) \/ ExecuteVote(id)
             \/ ExecuteCancel(id) \/ ExecuteFails(id)
      PROVE  clubProposals' = clubProposals /\ nextProposalId' = nextProposalId
  BY <1>4 DEF ExecuteOther, DispatchesOther, ExecuteVote, ExecuteCancel,
              ExecuteFails, DispatchReturnsError
<1>5. ASSUME \/ UNCHANGED vars \/ NewBlock
             \/ \E who \in Accounts, id \in ProposalIds, aye \in BOOLEAN :
                  Vote(who, id, aye)
             \/ \E origin \in Accounts \cup {Root}, id \in ProposalIds :
                  Cancel(origin, id)
      PROVE  clubProposals' = clubProposals /\ nextProposalId' = nextProposalId
  BY <1>5 DEF vars, NewBlock, Vote, Cancel
<1>6. QED
  BY <1>1, <1>2, <1>3, <1>4, <1>5 DEF Next, Execute

-----------------------------------------------------------------------------
(* Types *)

\* A vote changes the tally and the voters of a proposal, and nothing else.
LEMMA VoteEffect ==
  ASSUME NEW p \in Proposal, NEW who \in Signers, NEW aye \in BOOLEAN, NEW q,
         q = WithVote(p, who, aye)
  PROVE  /\ q \in Proposal /\ q.voters = Append(p.voters, who)
         /\ q.yea = IF aye THEN SaturatingAdd(p.yea, 1, VotesMax) ELSE p.yea
         /\ q.nay = IF aye THEN p.nay ELSE SaturatingAdd(p.nay, 1, VotesMax)
         /\ q.executed = p.executed /\ q.end = p.end /\ q.club = p.club
         /\ q.quorum = p.quorum /\ q.pass_threshold = p.pass_threshold
<1>1. p.yea \in 0..VotesMax /\ p.nay \in 0..VotesMax /\ p.voters \in Seq(Signers)
  BY DEF Proposal, Votes
<1>2. /\ SaturatingAdd(p.yea, 1, VotesMax) \in 0..VotesMax
      /\ SaturatingAdd(p.nay, 1, VotesMax) \in 0..VotesMax
  BY <1>1, ConstantTypes, SaturatingAddType
<1>3. Append(p.voters, who) \in Seq(Signers)
  BY <1>1
<1>4. QED
  BY <1>1, <1>2, <1>3 DEF WithVote, Proposal, Votes

\* Marking a proposal executed changes nothing else.
LEMMA MarkEffect ==
  ASSUME NEW p \in Proposal, NEW q, q = [p EXCEPT !.executed = TRUE]
  PROVE  /\ q \in Proposal /\ q.executed /\ q.voters = p.voters
         /\ q.yea = p.yea /\ q.nay = p.nay /\ q.end = p.end /\ q.club = p.club
         /\ q.quorum = p.quorum /\ q.pass_threshold = p.pass_threshold
BY DEF Proposal

\* None is no proposal, and a stored proposal is one, within its bound.
LEMMA StoredType ==
  ASSUME TypeOK, NEW i \in ProposalIds, proposals[i] # None
  PROVE  /\ proposals[i] \in Proposal
         /\ Len(proposals[i].voters) <= MaxVotersPerProposal
BY DEF TypeOK, Stored

\* A step leaves a proposal of the type, or none.
LEMMA ProposalStep ==
  ASSUME TypeOK, NEW i \in ProposalIds, Moved(i), proposals'[i] # None
  PROVE  /\ proposals'[i] \in Proposal
         /\ Len(proposals'[i].voters) <= MaxVotersPerProposal
<1>1. CASE Kept(i)
  BY <1>1, StoredType DEF Kept
<1>2. CASE Made(i)
  BY <1>2, ConstantTypes DEF Made, Untouched
<1>3. CASE Voted(i)
  <2>1. PICK who \in Signers, aye \in BOOLEAN :
          MayVote(who, i) /\ proposals'[i] = WithVote(proposals[i], who, aye)
    BY <1>3 DEF Voted
  <2>2. /\ proposals[i] \in Proposal
        /\ Len(proposals[i].voters) < MaxVotersPerProposal
    BY <2>1, StoredType DEF MayVote
  <2>3. /\ proposals'[i] \in Proposal
        /\ proposals'[i].voters = Append(proposals[i].voters, who)
    BY <2>1, <2>2, VoteEffect
  <2>4. proposals[i].voters \in Seq(Signers)
    BY <2>2 DEF Proposal
  <2>5. QED
    BY <2>2, <2>3, <2>4, ConstantTypes
<1>4. CASE Ran(i)
  <2>1. /\ proposals[i] \in Proposal
        /\ Len(proposals[i].voters) <= MaxVotersPerProposal
    BY <1>4, StoredType DEF Ran, Executable
  <2>2. QED
    BY <1>4, <2>1, MarkEffect DEF Ran
<1>5. QED
  BY <1>1, <1>2, <1>3, <1>4 DEF Moved, Removed

\* The initial state has the types.
LEMMA InitType == Init => TypeOK
BY ConstantTypes DEF Init, TypeOK, Stored, ProposalIds, Blocks

\* Every call keeps the types.
LEMMA TypeStep == TypeOK /\ [Next]_vars => TypeOK'
<1> SUFFICES ASSUME TypeOK, [Next]_vars PROVE TypeOK'
  OBVIOUS
<1>1. Besides /\ \A i \in ProposalIds : Moved(i)
  BY Moves
<1>2. \A i \in Stored' :
        /\ proposals'[i] \in Proposal
        /\ Len(proposals'[i].voters) <= MaxVotersPerProposal
  BY <1>1, ProposalStep DEF Stored
<1>3. nextProposalId' \in ProposalIds
  BY <1>1, ConstantTypes, SaturatingAddType DEF Besides, TypeOK, ProposalIds
<1>4. /\ DOMAIN clubProposals' = ClubIds
      /\ \A c \in ClubIds :
           /\ clubProposals'[c] \in Seq(ProposalIds)
           /\ Len(clubProposals'[c]) <= MaxClubIndex
  <2>1. CASE clubProposals' = clubProposals
    BY <2>1 DEF TypeOK
  <2>2. ASSUME NEW club \in ClubIds, Len(clubProposals[club]) < MaxClubIndex,
               clubProposals' =
                 [clubProposals EXCEPT ![club] = Append(@, nextProposalId)]
        PROVE  /\ DOMAIN clubProposals' = ClubIds
               /\ \A c \in ClubIds :
                    /\ clubProposals'[c] \in Seq(ProposalIds)
                    /\ Len(clubProposals'[c]) <= MaxClubIndex
    BY <2>2, ConstantTypes DEF TypeOK
  <2>3. QED
    BY <2>1, <2>2, IndexMoves DEF IndexMoved
<1>5. block' \in Blocks
  BY <1>1, ConstantTypes DEF Besides, TypeOK, Blocks
<1>6. \A i \in ProposalIds : dispatched'[i] \in Nat
  <2>1. ASSUME NEW i \in ProposalIds
        PROVE  dispatched'[i] \in {dispatched[i], dispatched[i] + 1}
    BY <1>1 DEF Moved, Kept, Made, Voted, Removed, Ran
  <2>2. \A i \in ProposalIds : dispatched[i] \in Nat
    BY DEF TypeOK
  <2>3. QED
    BY <2>1, <2>2
<1>7. {cancelled', failed', failureEvents'} \subseteq SUBSET ProposalIds
  <2>1. cancelled \subseteq ProposalIds /\ failed \subseteq ProposalIds
        /\ failureEvents \subseteq ProposalIds
    BY DEF TypeOK
  <2>2. /\ cancelled' \subseteq ProposalIds /\ failed' \subseteq ProposalIds
        /\ failureEvents' \subseteq ProposalIds
    BY <1>1, <2>1 DEF Besides
  <2>3. QED
    BY <2>2
<1>8. QED
  BY <1>1, <1>2, <1>3, <1>4, <1>5, <1>6, <1>7 DEF TypeOK, Besides

\* Every call, nested ones included, keeps the maps, the counter and the clock
\* within their types and the bounded vectors within their bounds.
THEOREM RouterTypes == Spec => []TypeOK
BY InitType, TypeStep, PTL DEF Spec

-----------------------------------------------------------------------------
(* Tallies *)

\* TallyIsVoters, of one proposal.
Tallied(p) == IsInjective(p.voters) /\ p.yea + p.nay = Len(p.voters)

\* A voter who is not yet among the voters leaves them distinct.
LEMMA VotersDistinct ==
  ASSUME NEW voters \in Seq(Signers), IsInjective(voters), NEW who \in Signers,
         who \notin Range(voters)
  PROVE  IsInjective(Append(voters, who))
BY DEF IsInjective, Range

\* A step leaves every tally the number of voters.
LEMMA TallyStep ==
  ASSUME TypeOK, TallyIsVoters, [Next]_vars
  PROVE  TallyIsVoters'
<1> SUFFICES ASSUME NEW i \in ProposalIds, proposals'[i] # None
             PROVE  Tallied(proposals'[i])
  BY DEF TallyIsVoters, Tallied, Stored
<1>1. Moved(i)
  BY Moves
<1>2. ASSUME proposals[i] # None PROVE Tallied(proposals[i])
  BY <1>2 DEF TallyIsVoters, Tallied, Stored
<1>3. CASE Kept(i)
  BY <1>2, <1>3 DEF Kept
<1>4. CASE Made(i)
  BY <1>4 DEF Made, Untouched, Tallied, IsInjective
<1>5. CASE Voted(i)
  <2>1. PICK who \in Signers, aye \in BOOLEAN :
          MayVote(who, i) /\ proposals'[i] = WithVote(proposals[i], who, aye)
    BY <1>5 DEF Voted
  <2>2. PICK p \in Proposal : p = proposals[i]
    BY <2>1, StoredType DEF MayVote
  <2>3. /\ Len(p.voters) < MaxVotersPerProposal /\ who \notin Range(p.voters)
        /\ Tallied(p)
    BY <1>2, <2>1, <2>2 DEF MayVote, NotVoted
  <2>4. p.yea \in Nat /\ p.nay \in Nat /\ p.voters \in Seq(Signers)
    BY ConstantTypes DEF Proposal, Votes
  <2>5. p.yea + p.nay < VotesMax
    BY <2>3, <2>4, ConstantTypes DEF Tallied
  <2>6. PICK q : q = proposals'[i]
    OBVIOUS
  <2>7. /\ q.voters = Append(p.voters, who)
        /\ q.yea = IF aye THEN SaturatingAdd(p.yea, 1, VotesMax) ELSE p.yea
        /\ q.nay = IF aye THEN p.nay ELSE SaturatingAdd(p.nay, 1, VotesMax)
    BY <2>1, <2>2, <2>6, VoteEffect
  <2>8. q.yea + q.nay = p.yea + p.nay + 1
    <3>1. /\ SaturatingAdd(p.yea, 1, VotesMax) = p.yea + 1
          /\ SaturatingAdd(p.nay, 1, VotesMax) = p.nay + 1
      BY <2>4, <2>5, ConstantTypes DEF SaturatingAdd
    <3>2. CASE aye
      <4>1. q.yea = p.yea + 1 /\ q.nay = p.nay
        BY <2>7, <3>1, <3>2
      <4>2. QED
        BY <2>4, <4>1
    <3>3. CASE ~aye
      <4>1. q.yea = p.yea /\ q.nay = p.nay + 1
        BY <2>7, <3>1, <3>3
      <4>2. QED
        BY <2>4, <4>1
    <3>4. QED
      BY <3>2, <3>3
  <2>9. Len(Append(p.voters, who)) = Len(p.voters) + 1
    BY <2>4
  <2>10. IsInjective(q.voters)
    BY <2>3, <2>4, <2>7, VotersDistinct DEF Tallied
  <2>11. QED
    BY <2>3, <2>6, <2>7, <2>8, <2>9, <2>10 DEF Tallied
<1>6. CASE Ran(i)
  <2>1. proposals[i] # None /\ proposals[i] \in Proposal
    BY <1>6, StoredType DEF Ran, Executable
  <2>2. QED
    BY <1>2, <1>6, <2>1, MarkEffect DEF Ran, Tallied
<1>7. QED
  BY <1>1, <1>3, <1>4, <1>5, <1>6 DEF Moved, Removed

\* The tallies hold of every state.
LEMMA TalliesHold == Spec => [](TypeOK /\ TallyIsVoters)
<1>1. Init => TallyIsVoters
  BY DEF Init, TallyIsVoters, Stored
<1>2. TypeOK /\ TallyIsVoters /\ [Next]_vars => TallyIsVoters'
  BY TallyStep
<1>3. QED
  BY <1>1, <1>2, RouterTypes, PTL DEF Spec

\* vote and execute together: however calls are nested and copies written
\* back, the tally of a proposal is the number of different accounts that
\* voted on it.
THEOREM RouterTallies == Spec => []TallyIsVoters
BY TalliesHold, PTL

-----------------------------------------------------------------------------
(* Executed proposals have passed *)

\* ExecutedHasPassed, of one proposal.
PassedExactly(p) ==
  /\ p.yea + p.nay >= p.quorum
  /\ p.yea * Scale >= p.pass_threshold * (p.yea + p.nay)

\* A product is monotone in its first factor.
LEMMA ProductGrows ==
  ASSUME NEW m \in Nat, NEW n \in Nat, NEW k \in Nat, m <= n
  PROVE  m * k \in Nat /\ n * k \in Nat /\ m * k <= n * k
OBVIOUS

\* A rounded quotient that reaches a threshold is an exact one that does.
LEMMA QuotientReaches ==
  ASSUME NEW x \in Nat, NEW y \in Nat \ {0}, NEW t \in Nat, x \div y >= t
  PROVE  x >= t * y
<1>1. PICK q \in Nat : q = x \div y
  OBVIOUS
<1>2. q * y <= x
  BY <1>1
<1>3. t * y <= q * y /\ t * y \in Nat /\ q * y \in Nat
  BY <1>1, ProductGrows
<1>4. QED
  BY <1>2, <1>3

\* The saturating arithmetic of execute says the same as the exact one, for
\* tallies that do not saturate the product.
LEMMA PassedIsExact ==
  ASSUME MaxVotersPerProposal * Scale <= VotesMax, NEW p \in Proposal,
         Tallied(p), Len(p.voters) <= MaxVotersPerProposal, Passed(p)
  PROVE  PassedExactly(p)
<1>1. /\ p.yea \in Nat /\ p.nay \in Nat /\ p.quorum \in Nat
      /\ p.pass_threshold \in Nat /\ p.voters \in Seq(Signers)
  BY ConstantTypes DEF Proposal, Votes
<1>2. PICK total \in Nat : total = p.yea + p.nay
  BY <1>1
<1>3. total <= MaxVotersPerProposal /\ p.yea <= MaxVotersPerProposal
  BY <1>1, <1>2, ConstantTypes DEF Tallied
<1>4. TotalVotes(p) = total
  BY <1>1, <1>2, <1>3, ConstantTypes DEF TotalVotes, SaturatingAdd
<1>5. PICK scaled \in Nat : scaled = p.yea * Scale
  BY <1>1, ConstantTypes
<1>6. SaturatingMul(p.yea, Scale, VotesMax) = scaled
  <2>1. p.yea * Scale <= MaxVotersPerProposal * Scale
    BY <1>1, <1>3, ConstantTypes, ProductGrows
  <2>2. PICK most \in Nat : most = MaxVotersPerProposal * Scale
    BY ConstantTypes
  <2>3. scaled <= VotesMax
    BY <1>5, <2>1, <2>2, ConstantTypes
  <2>4. QED
    BY <1>5, <2>3, ConstantTypes DEF SaturatingMul
<1>7. scaled >= p.pass_threshold * total
  <2>1. CASE total = 0
    <3>1. p.pass_threshold * total = 0
      BY <1>1, <2>1
    <3>2. QED
      BY <1>5, <3>1
  <2>2. CASE total # 0
    <3>1. scaled \div total >= p.pass_threshold
      BY <1>4, <1>6, <2>2 DEF Passed, PassPercent
    <3>2. QED
      BY <1>1, <2>2, <3>1, QuotientReaches
  <2>3. QED
    BY <2>1, <2>2
<1>8. total >= p.quorum
  BY <1>4 DEF Passed
<1>9. QED
  BY <1>2, <1>5, <1>7, <1>8 DEF PassedExactly

\* A step marks only what has passed, and nothing touches it afterwards.
LEMMA PassedStep ==
  ASSUME TypeOK, TallyIsVoters, ExecutedHasPassed, [Next]_vars
  PROVE  ExecutedHasPassed'
<1> SUFFICES ASSUME MaxVotersPerProposal * Scale <= VotesMax,
                    NEW i \in ProposalIds, proposals'[i] # None,
                    proposals'[i].executed
             PROVE  block' > proposals'[i].end /\ PassedExactly(proposals'[i])
  BY DEF ExecutedHasPassed, PassedExactly, Stored
<1>1. Moved(i) /\ Besides
  BY Moves
<1>2. ASSUME proposals[i] # None
      PROVE  /\ proposals[i].executed =>
                  block > proposals[i].end /\ PassedExactly(proposals[i])
             /\ proposals[i] \in Proposal /\ proposals[i].end \in Nat
             /\ Len(proposals[i].voters) <= MaxVotersPerProposal
             /\ Tallied(proposals[i])
  <2>1. proposals[i] \in Proposal
    BY <1>2, StoredType
  <2>2. proposals[i].end \in Nat
    BY <2>1, ConstantTypes DEF Proposal, Blocks
  <2>3. Tallied(proposals[i])
    BY <1>2 DEF TallyIsVoters, Stored, Tallied
  <2>4. proposals[i].executed =>
          block > proposals[i].end /\ PassedExactly(proposals[i])
    BY <1>2 DEF ExecutedHasPassed, PassedExactly, Stored
  <2>5. QED
    BY <1>2, <2>1, <2>2, <2>3, <2>4, StoredType
<1>3. block \in Nat /\ block' \in Nat /\ block <= block'
  BY <1>1, ConstantTypes DEF Besides, TypeOK, Blocks
<1>4. CASE Kept(i)
  BY <1>2, <1>3, <1>4 DEF Kept
<1>5. CASE Made(i)
  BY <1>5 DEF Made, Untouched
<1>6. CASE Voted(i)
  <2>1. PICK who \in Signers, aye \in BOOLEAN :
          MayVote(who, i) /\ proposals'[i] = WithVote(proposals[i], who, aye)
    BY <1>6 DEF Voted
  <2>2. proposals[i] # None /\ block <= proposals[i].end
    BY <2>1 DEF MayVote, VotingOpen
  <2>3. proposals[i].executed
    BY <1>2, <2>1, <2>2, VoteEffect
  <2>4. QED
    BY <1>2, <1>3, <2>2, <2>3
<1>7. CASE Ran(i)
  <2>1. /\ proposals[i] # None /\ block > proposals[i].end
        /\ Passed(proposals[i])
    BY <1>7 DEF Ran, Executable
  <2>2. PassedExactly(proposals[i])
    BY <1>2, <2>1, PassedIsExact
  <2>3. PICK p \in Proposal : p = proposals[i]
    BY <1>2, <2>1
  <2>4. PICK q : q = proposals'[i]
    OBVIOUS
  <2>5. /\ q.yea = p.yea /\ q.nay = p.nay /\ q.end = p.end
        /\ q.quorum = p.quorum /\ q.pass_threshold = p.pass_threshold
    BY <1>7, <2>3, <2>4, MarkEffect DEF Ran
  <2>6. PassedExactly(q)
    BY <2>2, <2>3, <2>5 DEF PassedExactly
  <2>7. QED
    BY <1>2, <1>3, <2>1, <2>3, <2>4, <2>5, <2>6
<1>8. QED
  BY <1>1, <1>4, <1>5, <1>6, <1>7 DEF Moved, Removed

\* execute: a proposal marked executed is over and has passed by the exact
\* ratio, for ever after, wherever the votes a proposal can get do not saturate
\* the scaled product.
THEOREM RouterExecutesPassed == Spec => []ExecutedHasPassed
<1>1. Init => ExecutedHasPassed
  BY DEF Init, ExecutedHasPassed, Stored
<1>2. TypeOK /\ TallyIsVoters /\ ExecutedHasPassed /\ [Next]_vars
        => ExecutedHasPassed'
  BY PassedStep
<1>3. QED
  BY <1>1, <1>2, TalliesHold, PTL DEF Spec

-----------------------------------------------------------------------------
(* Calls take effect once, and none after its cancellation *)

\* What there is to say of one id below the saturation point: an id still to
\* come has no proposal and no past, the mark of a stored proposal tells
\* whether its call ran, and what was cancelled is gone or has run.
History(i) ==
  /\ dispatched[i] <= 1
  /\ i >= nextProposalId =>
       proposals[i] = None /\ dispatched[i] = 0 /\ i \notin cancelled
  /\ proposals[i] # None => (proposals[i].executed <=> dispatched[i] = 1)
  /\ i \in cancelled => proposals[i] = None \/ proposals[i].executed

\* An id that was handed out stays handed out.
LEMMA CounterStep ==
  ASSUME TypeOK, Besides
  PROVE  /\ nextProposalId \in Nat /\ nextProposalId' \in Nat
         /\ nextProposalId <= nextProposalId'
<1>1. nextProposalId \in 0..ProposalIdMax /\ ProposalIdMax \in Nat
  BY ConstantTypes DEF TypeOK, ProposalIds
<1>2. \/ nextProposalId' = nextProposalId
      \/ nextProposalId' = SaturatingAdd(nextProposalId, 1, ProposalIdMax)
  BY DEF Besides
<1>3. QED
  BY <1>1, <1>2 DEF SaturatingAdd

\* A step keeps the history of an id in order.
LEMMA HistoryStep ==
  ASSUME TypeOK, [Next]_vars, NEW i \in FreshIds, History(i)
  PROVE  History(i)'
<1>1. /\ i \in ProposalIds /\ i \in Nat /\ i < ProposalIdMax
      /\ Moved(i) /\ Besides
  BY Moves, ConstantTypes DEF FreshIds, ProposalIds
<1>2. /\ nextProposalId \in Nat /\ nextProposalId' \in Nat
      /\ nextProposalId <= nextProposalId' /\ dispatched[i] \in Nat
  BY <1>1, CounterStep DEF TypeOK
<1>3. i \in cancelled' => i \in cancelled \/ Removed(i) \/ Ran(i)
  BY <1>1 DEF Besides
<1>4. CASE Kept(i)
  <2>1. ~Removed(i) /\ ~Ran(i)
    BY <1>2, <1>4 DEF Kept, Removed, Ran
  <2>2. QED
    BY <1>1, <1>2, <1>3, <1>4, <2>1 DEF Kept, History
<1>5. CASE Made(i)
  <2>1. nextProposalId' = i + 1
    BY <1>1, <1>5, ConstantTypes DEF Made, SaturatingAdd
  <2>2. /\ proposals[i] = None /\ dispatched[i] = 0 /\ i \notin cancelled
        /\ dispatched'[i] = 0
    BY <1>1, <1>5 DEF Made, History
  <2>3. ~Removed(i) /\ ~Ran(i)
    BY <2>2 DEF Removed, Ran, Executable
  <2>4. proposals'[i] # None /\ ~proposals'[i].executed
    BY <1>5, RouterConstants DEF Made, Untouched
  <2>5. QED
    BY <1>1, <1>3, <2>1, <2>2, <2>3, <2>4 DEF History
<1>6. CASE Voted(i)
  <2>1. PICK who \in Signers, aye \in BOOLEAN :
          MayVote(who, i) /\ proposals'[i] = WithVote(proposals[i], who, aye)
    BY <1>6 DEF Voted
  <2>2. proposals[i] # None /\ proposals[i] \in Proposal
    BY <1>1, <2>1, StoredType DEF MayVote
  <2>3. /\ proposals'[i] \in Proposal
        /\ proposals'[i].executed = proposals[i].executed
    BY <2>1, <2>2, VoteEffect
  <2>4. ~Removed(i) /\ ~Ran(i)
    BY <1>2, <1>6, <2>3, RouterConstants DEF Voted, Removed, Ran
  <2>5. dispatched'[i] = dispatched[i] /\ proposals'[i] # None
    BY <1>6, <2>3, RouterConstants DEF Voted
  <2>6. QED
    BY <1>1, <1>2, <1>3, <2>2, <2>3, <2>4, <2>5 DEF History
<1>7. CASE Removed(i)
  BY <1>1, <1>2, <1>7 DEF Removed, History
<1>8. CASE Ran(i)
  <2>1. proposals[i] # None /\ ~proposals[i].executed
    BY <1>8 DEF Ran, Executable
  <2>2. proposals[i] \in Proposal
    BY <1>1, <2>1, StoredType
  <2>3. proposals'[i] \in Proposal /\ proposals'[i].executed
    BY <1>8, <2>2, MarkEffect DEF Ran
  <2>4. dispatched[i] = 0 /\ dispatched'[i] = 1 /\ i < nextProposalId
    BY <1>1, <1>2, <1>8, <2>1 DEF Ran, History
  <2>5. i < nextProposalId'
    BY <1>1, <1>2, <2>4
  <2>6. QED
    BY <1>1, <1>2, <2>3, <2>4, <2>5 DEF History
<1>9. QED
  BY <1>1, <1>4, <1>5, <1>6, <1>7, <1>8 DEF Moved

\* Types, and the history of every id below the saturation point.
HistoryInv == TypeOK /\ \A i \in FreshIds : History(i)

\* They hold of every state.
LEMMA HistoriesHold == Spec => []HistoryInv
<1>1. Init => HistoryInv
  BY InitType DEF Init, HistoryInv, History, FreshIds
<1>2. HistoryInv /\ [Next]_vars => HistoryInv'
  <2> SUFFICES ASSUME HistoryInv, [Next]_vars PROVE HistoryInv'
    OBVIOUS
  <2>1. TypeOK'
    BY TypeStep DEF HistoryInv
  <2>2. \A i \in FreshIds : History(i)'
    BY HistoryStep DEF HistoryInv
  <2>3. QED
    BY <2>1, <2>2 DEF HistoryInv, FreshIds, ProposalIds
<1>3. QED
  BY <1>1, <1>2, PTL DEF Spec

\* execute: no call takes effect twice, and a stored proposal is marked
\* executed exactly when its call has taken effect, also when proposals
\* execute each other, are retried after a failure, or are cancelled.
THEOREM RouterDispatchesOnce == Spec => []DispatchedOnce
<1>1. HistoryInv => DispatchedOnce
  BY DEF HistoryInv, History, DispatchedOnce, Stored
<1>2. QED
  BY <1>1, HistoriesHold, PTL

\* cancel and execute: after its cancellation was announced, the call of a
\* proposal never takes effect, although an execute that was under way may
\* have written the proposal back.
THEOREM RouterNeverRunsCancelled == Spec => CancelledNeverRuns
<1>1. HistoryInv /\ [Next]_vars =>
        [\A i \in cancelled \cap FreshIds : dispatched'[i] = dispatched[i]]_vars
  <2> SUFFICES ASSUME HistoryInv, [Next]_vars,
                      NEW i \in cancelled \cap FreshIds
               PROVE  dispatched'[i] = dispatched[i]
    OBVIOUS
  <2>1. Moved(i)
    BY Moves DEF HistoryInv, FreshIds
  <2>2. proposals[i] = None \/ proposals[i].executed
    BY DEF HistoryInv, History
  <2>3. ~Ran(i)
    BY <2>2 DEF Ran, Executable
  <2>4. QED
    BY <2>1, <2>3 DEF Moved, Kept, Made, Voted, Removed
<1>2. QED
  BY <1>1, HistoriesHold, PTL DEF Spec, CancelledNeverRuns

-----------------------------------------------------------------------------
(* The indexes of the clubs *)

\* A club's index names ids that were handed out, in their order, and names
\* every stored proposal of the club and of no other one.
IndexedAt(c) ==
  LET index == clubProposals[c]
  IN  /\ \A j \in DOMAIN index : index[j] \in FreshIds => index[j] < nextProposalId
      /\ \A j, k \in DOMAIN index :
           j < k /\ index[j] \in FreshIds /\ index[k] \in FreshIds
             => index[j] < index[k]
      /\ \A i \in FreshIds : proposals[i] # None =>
           ((proposals[i].club = c) <=> \E j \in DOMAIN index : index[j] = i)

\* The club of a proposal never changes while it is stored.
LEMMA ClubKept ==
  ASSUME TypeOK, NEW i \in ProposalIds, Moved(i), ~Made(i),
         proposals'[i] # None
  PROVE  proposals[i] # None /\ proposals'[i].club = proposals[i].club
<1>1. CASE Kept(i)
  BY <1>1 DEF Kept
<1>2. CASE Voted(i)
  <2>1. PICK who \in Signers, aye \in BOOLEAN :
          MayVote(who, i) /\ proposals'[i] = WithVote(proposals[i], who, aye)
    BY <1>2 DEF Voted
  <2>2. proposals[i] # None /\ proposals[i] \in Proposal
    BY <2>1, StoredType DEF MayVote
  <2>3. QED
    BY <2>1, <2>2, VoteEffect
<1>3. CASE Ran(i)
  <2>1. proposals[i] # None /\ proposals[i] \in Proposal
    BY <1>3, StoredType DEF Ran, Executable
  <2>2. QED
    BY <1>3, <2>1, MarkEffect DEF Ran
<1>4. QED
  BY <1>1, <1>2, <1>3 DEF Moved, Removed

\* A step that leaves the indexes alone leaves them complete.
LEMMA IndexUntouched ==
  ASSUME HistoryInv, NEW c \in ClubIds, IndexedAt(c), [Next]_vars,
         clubProposals'[c] = clubProposals[c],
         \A i \in FreshIds : Made(i) => proposals'[i].club # c
  PROVE  IndexedAt(c)'
<1>1. TypeOK /\ Besides /\ \A i \in ProposalIds : Moved(i)
  BY Moves DEF HistoryInv
<1>2. /\ nextProposalId \in Nat /\ nextProposalId' \in Nat
      /\ nextProposalId <= nextProposalId'
  BY <1>1, CounterStep
<1>3. \A i \in FreshIds : i \in ProposalIds /\ i \in Nat
  BY ConstantTypes DEF FreshIds, ProposalIds
<1>4. \A j \in DOMAIN clubProposals[c] :
        clubProposals[c][j] \in FreshIds =>
          clubProposals[c][j] < nextProposalId'
  BY <1>2, <1>3 DEF IndexedAt
<1>5. ASSUME NEW i \in FreshIds, proposals'[i] # None
      PROVE  (proposals'[i].club = c) <=>
               \E j \in DOMAIN clubProposals[c] : clubProposals[c][j] = i
  <2>1. CASE Made(i)
    <3>1. i = nextProposalId
      BY <2>1 DEF Made
    <3>2. ~(\E j \in DOMAIN clubProposals[c] : clubProposals[c][j] = i)
      BY <1>2, <3>1 DEF IndexedAt
    <3>3. QED
      BY <2>1, <3>2
  <2>2. CASE ~Made(i)
    <3>1. proposals[i] # None /\ proposals'[i].club = proposals[i].club
      BY <1>1, <1>3, <1>5, <2>2, ClubKept
    <3>2. QED
      BY <3>1 DEF IndexedAt
  <2>3. QED
    BY <2>1, <2>2
<1>6. QED
  BY <1>4, <1>5 DEF IndexedAt, FreshIds, ProposalIds

\* A step that appends a new proposal to its club's index leaves it complete.
LEMMA IndexAppended ==
  ASSUME HistoryInv, NEW c \in ClubIds, IndexedAt(c), [Next]_vars,
         clubProposals'[c] = Append(clubProposals[c], nextProposalId),
         nextProposalId' = SaturatingAdd(nextProposalId, 1, ProposalIdMax),
         proposals'[nextProposalId] # None,
         proposals'[nextProposalId].club = c,
         \A i \in ProposalIds \ {nextProposalId} : Kept(i)
  PROVE  IndexedAt(c)'
<1>1. TypeOK /\ nextProposalId \in ProposalIds
  BY DEF HistoryInv, TypeOK
<1>2. PICK index \in Seq(ProposalIds) : index = clubProposals[c]
  BY <1>1 DEF TypeOK
<1>3. PICK n \in Nat : n = Len(index) /\ DOMAIN index = 1..n
  BY <1>2
<1>4. PICK after \in Seq(ProposalIds) : after = clubProposals'[c]
  BY <1>1, <1>2
<1>5. /\ DOMAIN after = 1..(n + 1) /\ after[n + 1] = nextProposalId
      /\ \A j \in 1..n : after[j] = index[j]
  BY <1>1, <1>2, <1>3, <1>4
<1>6. /\ nextProposalId \in Nat
      /\ nextProposalId \in FreshIds => nextProposalId' = nextProposalId + 1
      /\ nextProposalId' \in Nat /\ nextProposalId <= nextProposalId'
      /\ \A i \in FreshIds : i \in ProposalIds /\ i \in Nat
  BY <1>1, ConstantTypes DEF SaturatingAdd, FreshIds, ProposalIds
<1>7. \A j \in 1..n : index[j] \in FreshIds => index[j] < nextProposalId
  BY <1>2, <1>3 DEF IndexedAt
<1>8. \A j \in DOMAIN after : after[j] \in FreshIds => after[j] < nextProposalId'
  <2> SUFFICES ASSUME NEW j \in 1..(n + 1), after[j] \in FreshIds
               PROVE  after[j] < nextProposalId'
    BY <1>5
  <2>1. CASE j \in 1..n
    <3>1. after[j] = index[j] /\ index[j] < nextProposalId
      BY <1>5, <1>7, <2>1
    <3>2. QED
      BY <1>6, <3>1
  <2>2. CASE j = n + 1
    BY <1>5, <1>6, <2>2
  <2>3. QED
    BY <2>1, <2>2
<1>9. \A j, k \in DOMAIN after :
        j < k /\ after[j] \in FreshIds /\ after[k] \in FreshIds
          => after[j] < after[k]
  <2> SUFFICES ASSUME NEW j \in 1..(n + 1), NEW k \in 1..(n + 1), j < k,
                      after[j] \in FreshIds, after[k] \in FreshIds
               PROVE  after[j] < after[k]
    BY <1>5
  <2>1. j \in 1..n
    OBVIOUS
  <2>2. CASE k \in 1..n
    BY <1>2, <1>3, <1>5, <2>1, <2>2 DEF IndexedAt
  <2>3. CASE k = n + 1
    BY <1>5, <1>7, <2>1, <2>3
  <2>4. QED
    BY <2>2, <2>3
<1>10. ASSUME NEW i \in FreshIds, proposals'[i] # None
       PROVE  (proposals'[i].club = c) <=> \E j \in DOMAIN after : after[j] = i
  <2>1. CASE i = nextProposalId
    <3>1. n + 1 \in DOMAIN after
      BY <1>5
    <3>2. QED
      BY <1>5, <2>1, <3>1
  <2>2. CASE i # nextProposalId
    <3>1. proposals'[i] = proposals[i]
      BY <1>6, <2>2 DEF Kept
    <3>2. (proposals[i].club = c) <=> \E j \in 1..n : index[j] = i
      BY <1>2, <1>3, <1>10, <3>1 DEF IndexedAt
    <3>3. (\E j \in 1..n : index[j] = i) <=> (\E j \in 1..(n + 1) : after[j] = i)
      <4>1. \A j \in 1..(n + 1) : j \in 1..n \/ j = n + 1
        OBVIOUS
      <4>2. \A j \in 1..n : j \in 1..(n + 1)
        OBVIOUS
      <4>3. QED
        BY <1>5, <2>2, <4>1, <4>2, Zenon
    <3>4. QED
      BY <1>5, <3>1, <3>2, <3>3
  <2>3. QED
    BY <2>1, <2>2
<1>11. QED
  BY <1>4, <1>8, <1>9, <1>10 DEF IndexedAt, FreshIds, ProposalIds

\* Every step leaves every index complete.
LEMMA IndexStep ==
  ASSUME HistoryInv, NEW c \in ClubIds, IndexedAt(c), [Next]_vars
  PROVE  IndexedAt(c)'
<1>1. TypeOK /\ DOMAIN clubProposals = ClubIds
  BY DEF HistoryInv, TypeOK
<1>2. CASE /\ clubProposals' = clubProposals
           /\ \A i \in FreshIds : Made(i) => proposals'[i].club = None
  BY <1>2, IndexUntouched, RouterConstants
<1>3. ASSUME NEW club \in ClubIds,
             clubProposals' =
               [clubProposals EXCEPT ![club] = Append(@, nextProposalId)],
             nextProposalId' = SaturatingAdd(nextProposalId, 1, ProposalIdMax),
             proposals'[nextProposalId] # None,
             proposals'[nextProposalId].club = club,
             \A i \in ProposalIds \ {nextProposalId} : Kept(i)
      PROVE  IndexedAt(c)'
  <2>1. CASE c = club
    <3>1. clubProposals'[c] = Append(clubProposals[c], nextProposalId)
      BY <1>1, <1>3, <2>1
    <3>2. QED
      BY <1>3, <2>1, <3>1, IndexAppended
  <2>2. CASE c # club
    <3>1. clubProposals'[c] = clubProposals[c]
      BY <1>1, <1>3, <2>2
    <3>2. \A i \in FreshIds : Made(i) => proposals'[i].club # c
      BY <1>3, <2>2 DEF Made
    <3>3. QED
      BY <3>1, <3>2, IndexUntouched
  <2>3. QED
    BY <2>1, <2>2
<1>4. QED
  BY <1>1, <1>2, <1>3, IndexMoves DEF IndexMoved

\* propose: the index of a club lists every stored proposal of the club, in
\* the order of their ids, and nothing of another club.
THEOREM RouterIndexesClubs == Spec => []ClubIndexComplete
<1>1. Init => \A c \in ClubIds : IndexedAt(c)
  BY DEF Init, IndexedAt, FreshIds
<1>2. HistoryInv /\ (\A c \in ClubIds : IndexedAt(c)) /\ [Next]_vars
        => (\A c \in ClubIds : IndexedAt(c))'
  BY IndexStep
<1>3. (\A c \in ClubIds : IndexedAt(c)) => ClubIndexComplete
  BY DEF IndexedAt, ClubIndexComplete, Range, Stored, FreshIds
<1>4. QED
  BY <1>1, <1>2, <1>3, HistoriesHold, PTL DEF Spec
=============================================================================
