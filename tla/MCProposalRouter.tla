-------------------------- MODULE MCProposalRouter --------------------------
(***************************************************************************)
(* Small instances of ProposalRouter, and what the documentation of the    *)
(* pallet says that its code does not do.                                  *)
(***************************************************************************)
EXTENDS ProposalRouter

SucceedingCalls == {[kind |-> "succeeds"]}

FailingCalls == {[kind |-> "fails"]}

\* Calls of the pallet itself, on the first two proposals.
RouterCalls ==
  {[kind |-> "succeeds"], [kind |-> "undecodable"], [kind |-> "propose"],
   [kind |-> "execute", id |-> 0], [kind |-> "execute", id |-> 1],
   [kind |-> "cancel", id |-> 0],
   [kind |-> "vote", id |-> 1, aye |-> FALSE]}

\* execute, "store failure event": when the dispatched call fails, the
\* ProposalFailed event is on record.
FailureIsRecorded == failed \subseteq failureEvents
=============================================================================
