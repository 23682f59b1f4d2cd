-------------------------- MODULE MCClubGovernance --------------------------
(* A governed club and one that an account runs. *)
EXTENDS ClubGovernance

CONSTANTS a1, a2

OneGoverned == [c \in 0..1 |-> IF c = 0 THEN PalletAccount ELSE a1]

ForGovernedClub(name, account) ==
  [kind |-> "other", call |-> [name |-> name, club |-> 0, account |-> account]]

ProposedCalls ==
  {[kind |-> "execute", id |-> 0],
   ForGovernedClub("add_member_admin", a2),
   ForGovernedClub("remove_member_admin", a2),
   ForGovernedClub("add_officer", a1),
   ForGovernedClub("remove_officer", a1),
   ForGovernedClub("create_attestation", a2)}
=============================================================================
