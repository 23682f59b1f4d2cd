-------------------------- MODULE MCMemberRegistry --------------------------
(* member-registry on small instances, and what its comments say of it. *)
EXTENDS MemberRegistry, TLC

\* Accounts are interchangeable: no action and no property names one.
AccountSymmetry == Permutations(Accounts)

-----------------------------------------------------------------------------
(* Claims of the comments that the code does not meet. *)

\* "Remove an officer from a club": after remove_officer the account is no
\* longer among the club's officers.
OfficerRemovalEffective ==
  [][\A who, officer \in Accounts, club \in ClubIds :
       RemoveOfficer(who, club, officer) =>
         officer \notin Range(clubs'[club].officers)]_vars

\* "Remove (or mark removed) a member from a club (club admin only)":
\* remove_member_admin removes members of the club whose admin calls it.
RemovalStaysInClub ==
  [][\A who, subject \in Accounts, club \in ClubIds :
       RemoveMemberAdmin(who, subject, club) =>
         club \in Range(members[subject].clubs)]_vars
=============================================================================
