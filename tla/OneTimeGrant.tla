---------------------------- MODULE OneTimeGrant ----------------------------
(***************************************************************************)
(* What an attestation promises, whoever stores it: an identifier is       *)
(* issued once, the grant it names is used at most once, and once it has   *)
(* been revoked it never comes back, neither open nor used.                *)
(*                                                                         *)
(* member-registry and rewards both keep attestations; each is shown to    *)
(* implement this specification for the identifiers below the saturation   *)
(* point of its counter.                                                   *)
(***************************************************************************)
CONSTANT Ids          \* the identifiers the promise is made about

VARIABLE grant        \* grant[i]: where identifier i is in its life

States == {"unissued", "open", "used", "revoked"}

Init == grant = [i \in Ids |-> "unissued"]

Issue(i) ==
  /\ grant[i] = "unissued"
  /\ grant' = [grant EXCEPT ![i] = "open"]

Use(i) ==
  /\ grant[i] = "open"
  /\ grant' = [grant EXCEPT ![i] = "used"]

Revoke(i) ==
  /\ grant[i] \in {"open", "used"}
  /\ grant' = [grant EXCEPT ![i] = "revoked"]

Next == \E i \in Ids : Issue(i) \/ Use(i) \/ Revoke(i)

Spec == Init /\ [][Next]_grant
=============================================================================
