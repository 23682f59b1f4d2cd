------------------------------ MODULE MCBadges ------------------------------
(***************************************************************************)
(* A small instance of Badges.                                             *)
(***************************************************************************)
EXTENDS Badges

\* One class, not with the first id, that has issued a badge already.
GenesisWithGap ==
  <<<<1, [creator |-> CHOOSE a \in Accounts : TRUE, club |-> None,
          default_transferable |-> TRUE, default_soulbound |-> FALSE,
          instances_count |-> 1]>>>>
=============================================================================
