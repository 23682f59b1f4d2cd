--------------------------- MODULE ProposalRouter ---------------------------
(***************************************************************************)
(* pallets/proposal-router: proposals of one club or of everybody, voting  *)
(* in a window of blocks, and execution of the call of a proposal that has *)
(* passed, by the pallet's own account.                                    *)
(*                                                                         *)
(* One action per dispatchable; a refused call leaves no write behind and  *)
(* is a stuttering step.  execute holds its copy of the proposal while the *)
(* call is dispatched and writes the copy back afterwards.  The call may   *)
(* be one of this pallet's own, execute included; an error at any depth    *)
(* makes every execute around it fail, so all that nested calls write is   *)
(* written by the innermost one, before the copies are written back.       *)
(* Metadata, the proposer and event payloads are left out.                 *)
(***************************************************************************)
EXTENDS Integers, FiniteSets, Sequences, Functions

CONSTANTS
  Accounts,              \* accounts that sign extrinsics
  PalletAccount,         \* pallet_account(): the signer of dispatched calls
  Root,                  \* the Root origin
  RouterAdminOrigin,     \* the origins Config's RouterAdminOrigin accepts
  ClubIds,               \* ClubId
  None,                  \* Option::None, and a key absent from a storage map
  ProposalIdMax,         \* u64::MAX, where NextProposalId saturates
  VotesMax,              \* u32::MAX, where votes and their products saturate
  Scale,                 \* 10_000: percent * 100
  MaxVotersPerProposal,  \* Config's MaxVotersPerProposal
  MaxClubIndex,          \* bound of a ClubProposals vector
  MaxNesting,            \* bound on calls dispatched inside calls
  BlockMax,              \* u32::MAX, where the end of a window saturates
  DefaultVotingPeriod, DefaultQuorum, DefaultPassThreshold,
  OtherCalls,            \* calls of a pallet this one is composed with
  Calls,                 \* the calls that are proposed
  VotingPeriods, Quorums, PassThresholds   \* arguments of propose

Signers     == Accounts \cup {PalletAccount}
Origins     == Signers \cup {Root}
ProposalIds == 0..ProposalIdMax
Blocks      == 0..BlockMax
Votes       == 0..VotesMax

\* What execute can tell apart in the bytes of a call: bytes that do not
\* decode, calls of other pallets that succeed or fail, and calls of this
\* pallet.  An "other" call may do either, as a composition says.
Call ==
  [kind : {"undecodable", "succeeds", "fails", "propose"}]
    \cup [kind : {"other"}, call : OtherCalls]
    \cup [kind : {"execute", "cancel"}, id : ProposalIds]
    \cup [kind : {"vote"}, id : ProposalIds, aye : BOOLEAN]

Proposal ==
  [call : Call, club : ClubIds \cup {None}, start : Blocks, end : Blocks,
   yea : Votes, nay : Votes, executed : BOOLEAN, voters : Seq(Signers),
   quorum : Votes, pass_threshold : Votes]

\* Origins are told apart, None is no value of the maps, bounds are numbers;
\* Config's MaxVotersPerProposal is a u32, like the votes.
ASSUME RouterConstants ==
  /\ PalletAccount \notin Accounts
  /\ Root \notin Signers
  /\ RouterAdminOrigin \subseteq Origins
  /\ {ProposalIdMax, VotesMax, Scale, MaxVotersPerProposal, MaxClubIndex,
      MaxNesting, BlockMax} \subseteq Nat
  /\ MaxVotersPerProposal <= VotesMax
  /\ DefaultVotingPeriod \in Blocks
  /\ {DefaultQuorum, DefaultPassThreshold} \subseteq Votes
  /\ Calls \subseteq Call
  /\ VotingPeriods \subseteq Blocks \cup {None}
  /\ Quorums \subseteq Votes \cup {None}
  /\ PassThresholds \subseteq Votes \cup {None}
  /\ None \notin Proposal
  /\ None \notin ClubIds
  /\ None \notin Nat

VARIABLES
  proposals,       \* Proposals: id -> Proposal, or None
  nextProposalId,  \* NextProposalId
  clubProposals,   \* ClubProposals: club -> ids; an absent key is <<>>
  block,           \* frame_system's block number
  dispatched,      \* history: id -> how often its call took effect
  cancelled,       \* history: ids of ProposalCancelled events
  failed,          \* history: ids whose execute returned ExecutionFailed
  failureEvents    \* history: ids of ProposalFailed events

vars == <<proposals, nextProposalId, clubProposals, block, dispatched,
          cancelled, failed, failureEvents>>

-----------------------------------------------------------------------------
(* Helpers *)

UnwrapOr(option, default) == IF option = None THEN default ELSE option

SaturatingAdd(m, n, max) == IF m + n > max THEN max ELSE m + n
SaturatingMul(m, n, max) == IF m * n > max THEN max ELSE m * n

TotalVotes(p) == SaturatingAdd(p.yea, p.nay, VotesMax)

PassPercent(p) ==
  IF TotalVotes(p) = 0 THEN 0
  ELSE SaturatingMul(p.yea, Scale, VotesMax) \div TotalVotes(p)

Passed(p) ==
  TotalVotes(p) >= p.quorum /\ PassPercent(p) >= p.pass_threshold

\* Mutant: the end of the window is not looked at.
WindowNeverCloses(p) == block >= p.start

VotingOpen(p) == block >= p.start /\ block <= p.end

\* Mutant: an account may vote again.
MayVoteAgain(who, p) == TRUE

NotVoted(who, p) == who \notin Range(p.voters)

\* Mutant: the window is compared the wrong way round.
ExecutableInWindow(p) ==
  /\ p # None
  /\ ~p.executed
  /\ block < p.end
  /\ Passed(p)
  /\ p.call.kind # "undecodable"

\* The checks execute makes before it dispatches.
Executable(p) ==
  /\ p # None
  /\ ~p.executed
  /\ block > p.end
  /\ Passed(p)
  /\ p.call.kind # "undecodable"

\* The checks vote makes; there is none of membership.
MayVote(who, id) ==
  /\ proposals[id] # None
  /\ VotingOpen(proposals[id])
  /\ NotVoted(who, proposals[id])
  /\ Len(proposals[id].voters) < MaxVotersPerProposal

WithVote(p, who, aye) ==
  [p EXCEPT !.yea = IF aye THEN SaturatingAdd(@, 1, VotesMax) ELSE @,
            !.nay = IF aye THEN @ ELSE SaturatingAdd(@, 1, VotesMax),
            !.voters = Append(@, who)]

\* Mutant: the end of the window is not held at the largest block number.
NewProposalOverflows(club, call, period, quorum, threshold) ==
  [call |-> call, club |-> club, start |-> block,
   end |-> block + UnwrapOr(period, DefaultVotingPeriod),
   yea |-> 0, nay |-> 0, executed |-> FALSE, voters |-> <<>>,
   quorum |-> UnwrapOr(quorum, DefaultQuorum),
   pass_threshold |-> UnwrapOr(threshold, DefaultPassThreshold)]

\* There is no check of membership here either.
NewProposal(club, call, period, quorum, threshold) ==
  [call |-> call, club |-> club, start |-> block,
   end |-> SaturatingAdd(block, UnwrapOr(period, DefaultVotingPeriod), BlockMax),
   yea |-> 0, nay |-> 0, executed |-> FALSE, voters |-> <<>>,
   quorum |-> UnwrapOr(quorum, DefaultQuorum),
   pass_threshold |-> UnwrapOr(threshold, DefaultPassThreshold)]

\* Mutant: a full index is passed over instead of refusing the proposal.
IndexedUnlessFull(club) ==
  clubProposals' =
    IF club = None \/ Len(clubProposals[club]) >= MaxClubIndex
    THEN clubProposals
    ELSE [clubProposals EXCEPT ![club] = Append(@, nextProposalId)]

\* A proposal of a club goes on its index, or the whole call is refused.
Indexed(club) ==
  IF club = None THEN UNCHANGED clubProposals
  ELSE /\ Len(clubProposals[club]) < MaxClubIndex
       /\ clubProposals' = [clubProposals EXCEPT ![club] = Append(@, nextProposalId)]

-----------------------------------------------------------------------------
Init ==
  /\ proposals = [i \in ProposalIds |-> None]
  /\ nextProposalId = 0
  /\ clubProposals = [c \in ClubIds |-> <<>>]
  /\ block = 0
  /\ dispatched = [i \in ProposalIds |-> 0]
  /\ cancelled = {}
  /\ failed = {}
  /\ failureEvents = {}

Propose(club, call, period, quorum, threshold) ==
  /\ proposals' = [proposals EXCEPT ![nextProposalId] =
                     NewProposal(club, call, period, quorum, threshold)]
  /\ Indexed(club)
  /\ nextProposalId' = SaturatingAdd(nextProposalId, 1, ProposalIdMax)
  /\ UNCHANGED <<block, dispatched, cancelled, failed, failureEvents>>

Vote(who, id, aye) ==
  /\ MayVote(who, id)
  /\ proposals' = [proposals EXCEPT ![id] = WithVote(@, who, aye)]
  /\ UNCHANGED <<nextProposalId, clubProposals, block, dispatched, cancelled,
                 failed, failureEvents>>

\* Mutant: the proposal is looked up and not taken out.
CancelKeeps(origin, id) ==
  /\ origin \in RouterAdminOrigin
  /\ proposals[id] # None
  /\ cancelled' = cancelled \cup {id}
  /\ UNCHANGED <<proposals, nextProposalId, clubProposals, block, dispatched,
                 failed, failureEvents>>

\* Whether the proposal has been executed is not looked at.
Cancel(origin, id) ==
  /\ origin \in RouterAdminOrigin
  /\ proposals[id] # None
  /\ proposals' = [proposals EXCEPT ![id] = None]
  /\ cancelled' = cancelled \cup {id}
  /\ UNCHANGED <<nextProposalId, clubProposals, block, dispatched, failed,
                 failureEvents>>

\* The proposals that execute enters one inside the other, outermost first:
\* each passes the checks and the call of each but the last executes the next.
Nesting(chain, id) ==
  /\ chain[1] = id
  /\ \A k \in DOMAIN chain : Executable(proposals[chain[k]])
  /\ \A k \in 1..(Len(chain) - 1) :
       proposals[chain[k]].call = [kind |-> "execute", id |-> chain[k + 1]]

\* The proposal whose call takes effect, or fails, inside all the executes.
Innermost(chain) == chain[Len(chain)]

Chains == UNION {[1..n -> ProposalIds] : n \in 1..MaxNesting}

\* Mutant: the copy is written back as it was read.
WrittenBackUnmarked(ps, chain) ==
  [i \in ProposalIds |->
     IF i \in Range(chain) THEN proposals[i] ELSE ps[i]]

\* Every execute of the chain writes back the copy it read before it
\* dispatched, marked executed, over whatever the dispatched call has stored.
WrittenBack(ps, chain) ==
  [i \in ProposalIds |->
     IF i \in Range(chain) THEN [proposals[i] EXCEPT !.executed = TRUE]
     ELSE ps[i]]

Dispatched(chain) ==
  [i \in ProposalIds |->
     IF i \in Range(chain) THEN dispatched[i] + 1 ELSE dispatched[i]]

\* The innermost call is one of another pallet, and succeeds: what the
\* router writes around it.
DispatchesOther(chain, id) ==
  /\ Nesting(chain, id)
  /\ proposals' = WrittenBack(proposals, chain)
  /\ dispatched' = Dispatched(chain)
  /\ UNCHANGED <<nextProposalId, clubProposals, block, cancelled, failed,
                 failureEvents>>

ExecuteOther(id) ==
  \E chain \in Chains :
    /\ proposals[Innermost(chain)] # None
    /\ proposals[Innermost(chain)].call.kind \in {"succeeds", "other"}
    /\ DispatchesOther(chain, id)

\* The innermost call makes a global proposal, with the defaults.
ExecutePropose(id) ==
  \E chain \in Chains :
    /\ Nesting(chain, id)
    /\ proposals[Innermost(chain)].call.kind = "propose"
    /\ proposals' = WrittenBack(
         [proposals EXCEPT ![nextProposalId] =
            NewProposal(None, [kind |-> "succeeds"], None, None, None)], chain)
    /\ nextProposalId' = SaturatingAdd(nextProposalId, 1, ProposalIdMax)
    /\ dispatched' = Dispatched(chain)
    /\ UNCHANGED <<clubProposals, block, cancelled, failed, failureEvents>>

\* The innermost call is a vote of the pallet's account.
ExecuteVote(id) ==
  \E chain \in Chains :
    LET call == proposals[Innermost(chain)].call
    IN  /\ Nesting(chain, id)
        /\ call.kind = "vote"
        /\ MayVote(PalletAccount, call.id)
        /\ proposals' = WrittenBack(
             [proposals EXCEPT ![call.id] =
                WithVote(@, PalletAccount, call.aye)], chain)
        /\ dispatched' = Dispatched(chain)
        /\ UNCHANGED <<nextProposalId, clubProposals, block, cancelled, failed,
                       failureEvents>>

\* The innermost call cancels a proposal, perhaps one of the chain.
ExecuteCancel(id) ==
  \E chain \in Chains :
    LET call == proposals[Innermost(chain)].call
    IN  /\ Nesting(chain, id)
        /\ call.kind = "cancel"
        /\ PalletAccount \in RouterAdminOrigin
        /\ proposals[call.id] # None
        /\ proposals' = WrittenBack([proposals EXCEPT ![call.id] = None], chain)
        /\ cancelled' = cancelled \cup {call.id}
        /\ dispatched' = Dispatched(chain)
        /\ UNCHANGED <<nextProposalId, clubProposals, block, failed,
                       failureEvents>>

\* What the dispatch of the innermost call can fail on: the call itself, a
\* refused call of this pallet, or the limit on nested calls.
DispatchFails(chain) ==
  LET call == proposals[Innermost(chain)].call
  IN  CASE call.kind \in {"fails", "other"} -> TRUE
        [] call.kind = "vote" -> ~MayVote(PalletAccount, call.id)
        [] call.kind = "cancel" ->
             PalletAccount \notin RouterAdminOrigin \/ proposals[call.id] = None
        [] call.kind = "execute" ->
             ~Executable(proposals[call.id]) \/ Len(chain) = MaxNesting
        [] OTHER -> FALSE

\* The dispatch returns an error.  The ProposalFailed event and the executed
\* mark are rolled back with the rest of the extrinsic.
DispatchReturnsError(id) ==
  /\ failed' = failed \cup {id}
  /\ UNCHANGED <<proposals, nextProposalId, clubProposals, block, dispatched,
                 cancelled, failureEvents>>

ExecuteFails(id) ==
  /\ \E chain \in Chains : Nesting(chain, id) /\ DispatchFails(chain)
  /\ DispatchReturnsError(id)

Execute(id) ==
  ExecuteOther(id) \/ ExecutePropose(id) \/ ExecuteVote(id)
    \/ ExecuteCancel(id) \/ ExecuteFails(id)

\* frame_system: the next block.
NewBlock ==
  /\ block < BlockMax
  /\ block' = block + 1
  /\ UNCHANGED <<proposals, nextProposalId, clubProposals, dispatched,
                 cancelled, failed, failureEvents>>

Next ==
  \/ \E club \in ClubIds \cup {None}, call \in Calls, period \in VotingPeriods,
        quorum \in Quorums, threshold \in PassThresholds :
       Propose(club, call, period, quorum, threshold)
  \/ \E who \in Accounts, id \in ProposalIds, aye \in BOOLEAN : Vote(who, id, aye)
  \/ \E origin \in Accounts \cup {Root}, id \in ProposalIds : Cancel(origin, id)
  \/ \E id \in ProposalIds : Execute(id)
  \/ NewBlock

Spec == Init /\ [][Next]_vars

\* Blocks keep coming, and somebody keeps submitting execute: no hook of the
\* pallet does it.
FairSpec ==
  /\ Spec
  /\ WF_vars(NewBlock)
  /\ \A id \in ProposalIds : WF_vars(ExecuteOther(id))

-----------------------------------------------------------------------------
(* Properties *)

Stored == {i \in ProposalIds : proposals[i] # None}

\* The last id is given out again and again once NextProposalId saturates.
FreshIds == ProposalIds \ {ProposalIdMax}

\* The maps, the id counter and the clock keep their types, and the bounded
\* vectors of voters and of a club's proposals their bounds.
TypeOK ==
  /\ DOMAIN proposals = ProposalIds
  /\ \A i \in Stored :
       /\ proposals[i] \in Proposal
       /\ Len(proposals[i].voters) <= MaxVotersPerProposal
  /\ nextProposalId \in ProposalIds
  /\ DOMAIN clubProposals = ClubIds
  /\ \A c \in ClubIds :
       /\ clubProposals[c] \in Seq(ProposalIds)
       /\ Len(clubProposals[c]) <= MaxClubIndex
  /\ block \in Blocks
  /\ DOMAIN dispatched = ProposalIds
  /\ \A i \in ProposalIds : dispatched[i] \in Nat
  /\ {cancelled, failed, failureEvents} \subseteq SUBSET ProposalIds

\* vote and execute together: the tally of a proposal is the number of
\* different accounts that voted on it, whoever voted while calls of other
\* proposals (votes of the pallet's account among them) were executed and
\* copies written back.
TallyIsVoters ==
  \A i \in Stored :
    LET p == proposals[i]
    IN  IsInjective(p.voters) /\ p.yea + p.nay = Len(p.voters)

\* execute: a proposal marked executed is one whose window is over, whose
\* votes reach its quorum and whose share of yeas, computed without rounding,
\* reaches its threshold.  It stays true for ever: no later vote touches the
\* tally that justified the execution.  The share is exact because the votes
\* a proposal can get do not saturate the product.
ExecutedHasPassed ==
  MaxVotersPerProposal * Scale <= VotesMax =>
    \A i \in Stored :
      LET p == proposals[i]
      IN  p.executed => /\ block > p.end
                        /\ p.yea + p.nay >= p.quorum
                        /\ p.yea * Scale >= p.pass_threshold * (p.yea + p.nay)

\* execute: a stored proposal is marked executed exactly when its call has
\* taken effect once, and no call takes effect twice, also when proposals
\* execute each other, are retried after a failure, or are cancelled.
DispatchedOnce ==
  \A i \in FreshIds :
    /\ dispatched[i] <= 1
    /\ i \in Stored => (proposals[i].executed <=> dispatched[i] = 1)

\* cancel and execute: the call of a proposal whose cancellation was announced
\* never takes effect afterwards, although an execute that was under way may
\* have written the proposal back, and whether or not it ran before.
CancelledNeverRuns ==
  [][\A i \in cancelled \cap FreshIds : dispatched'[i] = dispatched[i]]_vars

\* propose: the index of a club lists every stored proposal of the club, in
\* the order of their ids and each one once, and nothing of another club.
ClubIndexComplete ==
  \A c \in ClubIds :
    LET index == clubProposals[c]
    IN  /\ \A j, k \in DOMAIN index :
             j < k /\ {index[j], index[k]} \subseteq FreshIds
               => index[j] < index[k]
        /\ \A i \in FreshIds \cap Stored :
             (proposals[i].club = c) <=> i \in Range(index)

\* propose, vote and execute: a proposal of a call that succeeds is decided.
\* Once its window can end, it is executed, cancelled, or closed without
\* having passed.
ProposalsDecided ==
  \A i \in FreshIds :
    (i \in Stored /\ proposals[i].end < BlockMax
       /\ proposals[i].call.kind = "succeeds")
      ~> \/ i \notin Stored
         \/ proposals[i].executed
         \/ block > proposals[i].end /\ ~Passed(proposals[i])
=============================================================================
