----------------------------- MODULE MCRewards ------------------------------
(* rewards on a small instance. *)
EXTENDS Rewards

\* One rule at genesis, without a club, with one claim per epoch.
GlobalGenesisRule ==
  [r \in RuleIds |->
     IF r = 0 THEN [max_per_epoch |-> 1, club |-> None] ELSE None]
=============================================================================
