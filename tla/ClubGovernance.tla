--------------------------- MODULE ClubGovernance ---------------------------
(***************************************************************************)
(* proposal-router composed with member-registry, as a runtime composes    *)
(* them: RuntimeCall contains the registry's calls, and execute dispatches *)
(* the call of a passed proposal as Signed(pallet_account).  Accounts sign *)
(* calls of either pallet at any time between the proposal, the votes and  *)
(* the execution, so what was proposed may be stale when it is executed.   *)
(*                                                                         *)
(* Both pallets are used as they are; this module says who signs what, and *)
(* joins an execute of the router with the registry's call.  Clubs are the *)
(* ones Root has created, some of them governed: their admin is the        *)
(* router's account.  The router's calls on itself, other than execute,    *)
(* are the subject of ProposalRouter's runs.                               *)
(***************************************************************************)
EXTENDS Integers, FiniteSets, Functions

CONSTANTS
  Accounts, PalletAccount, Root, None,
  AttestationIdMax, CountMax, MaxOfficers, BlockMax,
  ProposalIdMax, VotesMax, Scale, MaxVotersPerProposal, MaxNesting,
  DefaultQuorum, DefaultPassThreshold,
  Admins,        \* the admins of the clubs, by club id
  Voters,        \* the accounts that vote
  Candidates,    \* the accounts that may become members or officers
  Calls,         \* the calls that are proposed
  Expiries       \* the expiry times given to attestations

VARIABLES
  \* of the router
  proposals, nextProposalId, clubProposals, block, dispatched, cancelled,
  failed, failureEvents,
  \* of the registry
  members, clubs, nextClubId, attestations, nextAttestationId, now,
  \* history: the registry's calls that proposals have made, with their ids
  enacted

Signers == Accounts \cup {PalletAccount}
ClubIds == DOMAIN Admins
ClubIdMax == Cardinality(ClubIds) - 1

\* The ids that are handed out, all below the saturation point.
ProposalIds == 0..(ProposalIdMax - 1)

\* The registry's calls, as proposals name them; create_club and set_role
\* are for Root and would be refused.
RegistryCalls ==
  [name : {"add_member_admin", "remove_member_admin", "add_officer",
           "remove_officer", "create_attestation"},
   club : ClubIds, account : Signers]

Registry == INSTANCE MemberRegistry
  WITH Accounts <- Signers, RootClubAdminOrigin <- {Root}, Roles <- {},
       MaxRoles <- 0, MomentMax <- BlockMax

Router == INSTANCE ProposalRouter
  WITH RouterAdminOrigin <- {Root}, MaxClubIndex <- ProposalIdMax,
       DefaultVotingPeriod <- 0, OtherCalls <- RegistryCalls, VotingPeriods <- {None},
       Quorums <- {None}, PassThresholds <- {None}

\* Clubs are numbered from zero, origins are told apart, None is no value of
\* the maps, bounds are numbers.
ASSUME GovernanceConstants ==
  /\ IsFiniteSet(Accounts)
  /\ PalletAccount \notin Accounts
  /\ Root \notin Signers
  /\ ClubIds = 0..ClubIdMax
  /\ \A c \in ClubIds : Admins[c] \in Signers
  /\ Voters \cup Candidates \subseteq Accounts
  /\ Calls \subseteq Router!Call
  /\ Expiries \subseteq Registry!Moments \cup {None}
  /\ {ClubIdMax, AttestationIdMax, CountMax, MaxOfficers, BlockMax,
      ProposalIdMax, VotesMax, Scale, MaxVotersPerProposal, MaxNesting}
       \subseteq Nat
  /\ MaxVotersPerProposal <= VotesMax
  /\ {DefaultQuorum, DefaultPassThreshold} \subseteq Router!Votes
  /\ None \notin Registry!MemberInfo \cup Registry!ClubInfo
                \cup Registry!Attestation \cup Router!Proposal \cup Nat

registryVars == <<members, clubs, nextClubId, attestations,
                  nextAttestationId, now>>
routerVars   == <<proposals, nextProposalId, clubProposals, block, dispatched,
                  cancelled, failed, failureEvents>>
vars == <<registryVars, routerVars, enacted>>

-----------------------------------------------------------------------------
\* Root has created the clubs.
Init ==
  /\ Router!Init
  /\ members = [a \in Signers |-> None]
  /\ clubs = [c \in ClubIds |->
                [admin |-> Admins[c], officers |-> <<>>, members_count |-> 0]]
  /\ nextClubId = ClubIdMax
  /\ attestations = [i \in 0..AttestationIdMax |-> None]
  /\ nextAttestationId = 0
  /\ now = 0
  /\ enacted = {}

\* Mutant: the call is dispatched with the Root origin.
DispatchAsRoot(call) ==
  \/ /\ call.name = "add_member_admin"
     /\ Registry!AddMemberAdmin(Root, call.account, call.club)
  \/ /\ call.name = "remove_member_admin"
     /\ Registry!RemoveMemberAdmin(Root, call.account, call.club)
  \/ /\ call.name = "add_officer"
     /\ Registry!AddOfficer(Root, call.club, call.account)
  \/ /\ call.name = "remove_officer"
     /\ Registry!RemoveOfficer(Root, call.club, call.account)
  \/ /\ call.name = "create_attestation"
     /\ Registry!CreateAttestation(Root, call.account, call.club, None)

\* What the registry does with a call signed by the router's account.
Dispatch(call) ==
  \/ /\ call.name = "add_member_admin"
     /\ Registry!AddMemberAdmin(PalletAccount, call.account, call.club)
  \/ /\ call.name = "remove_member_admin"
     /\ Registry!RemoveMemberAdmin(PalletAccount, call.account, call.club)
  \/ /\ call.name = "add_officer"
     /\ Registry!AddOfficer(PalletAccount, call.club, call.account)
  \/ /\ call.name = "remove_officer"
     /\ Registry!RemoveOfficer(PalletAccount, call.club, call.account)
  \/ /\ call.name = "create_attestation"
     /\ Registry!CreateAttestation(PalletAccount, call.account, call.club, None)

\* The nesting of executes ends at a call of the registry.
ReachesRegistry(chain, id) ==
  /\ Router!Nesting(chain, id)
  /\ proposals[Router!Innermost(chain)].call.kind = "other"

CallOf(chain) == proposals[Router!Innermost(chain)].call.call

\* Mutant: the error of the dispatched call is dropped.
EnactAnyway(id) ==
  \E chain \in Router!Chains :
    /\ ReachesRegistry(chain, id)
    /\ Router!DispatchesOther(chain, id)
    /\ IF ENABLED Dispatch(CallOf(chain)) THEN Dispatch(CallOf(chain))
       ELSE UNCHANGED registryVars
    /\ enacted' = enacted \cup
         {[id |-> Router!Innermost(chain), call |-> CallOf(chain)]}

\* execute, and the registry accepts the call.
Enact(id) ==
  \E chain \in Router!Chains :
    /\ ReachesRegistry(chain, id)
    /\ Router!DispatchesOther(chain, id)
    /\ Dispatch(CallOf(chain))
    /\ enacted' = enacted \cup
         {[id |-> Router!Innermost(chain), call |-> CallOf(chain)]}

\* The registry returns an error for a call of the router's account.
Refused(call) == ~ENABLED Dispatch(call)

\* execute, and the registry or an inner execute returns an error: the whole
\* extrinsic is rolled back, and may be submitted again.
EnactFails(id) ==
  /\ \E chain \in Router!Chains :
       /\ Router!Nesting(chain, id)
       /\ Router!DispatchFails(chain)
       /\ proposals[Router!Innermost(chain)].call.kind = "other"
            => Refused(CallOf(chain))
  /\ Router!DispatchReturnsError(id)
  /\ UNCHANGED <<registryVars, enacted>>

\* Calls of the router that accounts and Root sign.
RouterCall ==
  /\ \/ /\ nextProposalId < ProposalIdMax
        /\ \E call \in Calls : Router!Propose(None, call, None, None, None)
     \/ \E who \in Voters, id \in ProposalIds, aye \in BOOLEAN :
          Router!Vote(who, id, aye)
     \/ \E origin \in Accounts \cup {Root}, id \in ProposalIds :
          Router!Cancel(origin, id)
  /\ UNCHANGED <<registryVars, enacted>>

\* Calls of the registry that accounts sign.  Nobody
\* holds a key of the router's account.
RegistryCall ==
  /\ \/ \E who \in Accounts, club \in ClubIds, account \in Candidates :
          \/ Registry!AddOfficer(who, club, account)
          \/ Registry!RemoveOfficer(who, club, account)
          \/ Registry!AddMemberAdmin(who, account, club)
          \/ Registry!RemoveMemberAdmin(who, account, club)
          \/ /\ nextAttestationId < AttestationIdMax
             /\ \E expires_at \in Expiries :
                  Registry!CreateAttestation(who, account, club, expires_at)
     \/ \E who \in Accounts, id \in 0..AttestationIdMax :
          \/ Registry!RegisterMember(who, id)
          \/ Registry!RevokeAttestation(who, id)
  /\ UNCHANGED <<routerVars, enacted>>

\* A block has a number and a time.
NewBlock == Router!NewBlock /\ Registry!Tick /\ UNCHANGED enacted

Next ==
  \/ RouterCall
  \/ RegistryCall
  \/ \E id \in ProposalIds : Enact(id) \/ EnactFails(id)
  \/ NewBlock

\* Somebody keeps submitting execute.
Spec ==
  /\ Init /\ [][Next]_vars
  /\ \A id \in ProposalIds : WF_vars(Enact(id))

-----------------------------------------------------------------------------
(* Properties *)

Governed(club) == clubs[club] # None /\ clubs[club].admin = PalletAccount

Enacted(name, club, account) ==
  {e \in enacted : e.call = [name |-> name, club |-> club, account |-> account]}

Occurrences(s, x) == Cardinality({k \in DOMAIN s : s[k] = x})

\* execute and add_officer: the officers of a governed club are the ones that
\* proposals have put there.  Every occurrence has an add_officer proposal of
\* its own, whatever was removed, cancelled, retried or nested since; and a
\* member of the club was added by a proposal, or joined when some proposal
\* had appointed an officer who could attest.
GovernedClubIsMandated ==
  \A c \in ClubIds : Governed(c) =>
    /\ \A o \in Signers :
         Occurrences(clubs[c].officers, o)
           <= Cardinality(Enacted("add_officer", c, o))
    /\ \A s \in Registry!EverJoined(c) :
         \/ Enacted("add_member_admin", c, s) # {}
         \/ \E o \in Signers : Enacted("add_officer", c, o) # {}
         \/ Enacted("create_attestation", c, s) # {}

\* execute and add_member_admin: a proposal to add a member that is marked
\* executed has added it.  The account has a record of that club for good, and
\* no two such proposals for one account are ever executed, for one club or
\* for two: what is stale at its execution fails and leaves no mark.
EnactedAdmissionsHold ==
  /\ \A e \in enacted : e.call.name = "add_member_admin" =>
       /\ e.call.account \in Registry!EverJoined(e.call.club)
       /\ \A f \in enacted :
            f.call.name = "add_member_admin" /\ f.call.account = e.call.account
              => f.id = e.id
  /\ \A i \in ProposalIds :
       proposals[i] # None /\ proposals[i].executed
         /\ proposals[i].call.kind = "other"
         => [id |-> i, call |-> proposals[i].call.call] \in enacted

\* The registry of a governed club moves only with the router: a step that
\* changes the club's officers, or adds a member without using an attestation,
\* marks executed a proposal with exactly that call, which had passed and
\* whose window was over.
ChangedOnlyByPassedProposals ==
  [][\A c \in ClubIds : Governed(c) =>
       LET Executes(name, account) ==
             \E i \in ProposalIds :
               /\ proposals[i] # None
               /\ ~proposals[i].executed /\ proposals'[i].executed
               /\ block > proposals[i].end /\ Router!Passed(proposals[i])
               /\ proposals[i].call.kind = "other"
               /\ proposals[i].call.call =
                    [name |-> name, club |-> c, account |-> account]
       IN  /\ clubs'[c].officers # clubs[c].officers =>
                \E o \in Signers, name \in {"add_officer", "remove_officer"} :
                  Executes(name, o)
           /\ \A s \in Signers :
                /\ members[s] = None /\ members'[s] # None
                /\ c \in Range(members'[s].clubs)
                /\ attestations' = attestations
                => Executes("add_member_admin", s)]_vars

\* execute: a passed proposal to add a member to a governed club is carried
\* out.  Once its window is over, the account gets its record, from this
\* proposal or another way, unless Root cancels the proposal.
PassedAdmissionsEnacted ==
  \A i \in ProposalIds :
    (/\ Router!Executable(proposals[i])
     /\ proposals[i].call.kind = "other"
     /\ proposals[i].call.call.name = "add_member_admin"
     /\ Governed(proposals[i].call.call.club))
      ~> \/ proposals[i] = None
         \/ /\ proposals[i].call.kind = "other"
            /\ members[proposals[i].call.call.account] # None
=============================================================================
