------------------------------ MODULE Invites ------------------------------
(***************************************************************************)
(* Invites: created within a quota, revoked, expired, claimed at signup    *)
(* (handlers.go CreateInvite, DeleteInvite, Signup; services.go            *)
(* insertInviteWith, revokeInvite, getPendingInvite, markInviteClaimed,    *)
(* Signup, adminInviteClaimEntryTx; admin_invites.go inviteLimitQ).        *)
(*                                                                         *)
(* A signup looks its invite up long before its transaction claims it, and *)
(* an admin invite's transaction then waits for its turn on the ledger;    *)
(* meanwhile the invite is revoked or claimed by another, the inviter is   *)
(* suspended, or loses the permissions the invite grants.                  *)
(***************************************************************************)
EXTENDS Naturals, FiniteSets

CONSTANTS
    Invites,        \* invite ids
    MakerOf,        \* the user an invite id belongs to
    AdminInvites,   \* the invites that make an admin
    InviteGrants,   \* the permissions such an invite grants
    CreateAdmins,   \* the permission admin.create
    Newcomers,      \* signups
    MaxInvitesPerUser,
    MaxGrants       \* BOUND: invites granted to a user by executed requests

Makers == {MakerOf[i] : i \in Invites}
Powers == {CreateAdmins} \cup UNION {InviteGrants[i] : i \in AdminInvites}

ASSUME InvitesAssumption ==
    /\ IsFiniteSet(Invites)
    /\ AdminInvites \subseteq Invites
    /\ DOMAIN MakerOf = Invites /\ DOMAIN InviteGrants = AdminInvites
    /\ MaxInvitesPerUser \in Nat /\ MaxGrants \in Nat

VARIABLES
    inviteRow,      \* invites: "none", "inserting", "pending", "revoked" or "claimed"
    expired,        \* admin invites older than adminInviteTTL
    granted,        \* invites granted to each maker beyond the cap
    powers,         \* permissions of each maker
    suspended,      \* makers suspended
    joining,        \* Signup under way: [step, invite]
    joined,         \* users.invite_id of the accounts created: [newcomer -> invite]
    amidst,         \* history: makers who lost something while a claim of theirs waited
    unearned        \* history: accounts whose inviter could not have admitted them
                    \* at the moment they came in

inviteVars == <<inviteRow, expired, granted, powers, suspended, joining, joined, amidst, unearned>>

NotJoining == [step |-> "idle"]

InvitesInit ==
    /\ inviteRow = [i \in Invites |-> "none"]
    /\ expired = {}
    /\ granted = [m \in Makers |-> 0]
    /\ powers = [m \in Makers |-> Powers]
    /\ suspended = {}
    /\ joining = [n \in Newcomers |-> NotJoining]
    /\ joined = [n \in {} |-> n]
    /\ amidst = {}
    /\ unearned = {}

----------------------------------------------------------------------------
(* Creating and revoking.                                                  *)

\* What another transaction sees of a user's invites.
CountedInvites(m) == {i \in Invites : MakerOf[i] = m /\ inviteRow[i] \notin {"none", "inserting"}}

\* Variant that must fail: creators are not serialized.
QuotaTurn_NoLock(m) == TRUE
\* The advisory lock on the creator.
QuotaTurn(m) == \A i \in Invites : MakerOf[i] = m => inviteRow[i] # "inserting"

\* CreateInvite, insertInviteWith: the limit, the count, the row. An admin
\* invite needs admin.create and everything it grants.
CreateInvite(i) ==
    LET m == MakerOf[i] IN
    /\ inviteRow[i] = "none"
    /\ i \in AdminInvites => {CreateAdmins} \cup InviteGrants[i] \subseteq powers[m]
    /\ QuotaTurn(m)
    /\ Cardinality(CountedInvites(m)) < MaxInvitesPerUser + granted[m]
    /\ inviteRow' = [inviteRow EXCEPT ![i] = "inserting"]
    /\ UNCHANGED <<expired, granted, powers, suspended, joining, joined, amidst, unearned>>

CreateInviteEnds(i) ==
    /\ inviteRow[i] = "inserting"
    /\ \E end \in {"pending", "none"} : inviteRow' = [inviteRow EXCEPT ![i] = end]
    /\ UNCHANGED <<expired, granted, powers, suspended, joining, joined, amidst, unearned>>

\* A claim whose transaction has updated the invite's row and not committed.
ClaimHolds(i) == \E n \in Newcomers : joining[n].step = "written" /\ joining[n].invite = i

\* Variant that must fail: what was read of the invite is not asked again.
InviteUnused_AsRead(i) == inviteRow[i] \in {"pending", "revoked", "claimed"} /\ ~ClaimHolds(i)
\* claimed_at IS NULL AND revoked_at IS NULL, once the row is not locked.
InviteUnused(i) == inviteRow[i] = "pending" /\ ~ClaimHolds(i)

\* DeleteInvite, revokeInvite.
Revokes(i) == InviteUnused(i) /\ inviteRow' = [inviteRow EXCEPT ![i] = "revoked"]
RevokeInvite(i) ==
    /\ Revokes(i)
    /\ UNCHANGED <<expired, granted, powers, suspended, joining, joined, amidst, unearned>>

----------------------------------------------------------------------------
(* Claiming.                                                               *)

\* getPendingInvite: the maker's suspension closes an invite for a while.
PendingInvite(i) ==
    inviteRow[i] = "pending" /\ i \notin expired /\ MakerOf[i] \notin suspended

\* Signup up to its transaction, resolveSignup.
SignupReads(n, i) ==
    /\ joining[n] = NotJoining /\ n \notin DOMAIN joined
    /\ PendingInvite(i)
    /\ joining' = [joining EXCEPT ![n] = [step |-> "read", invite |-> i]]
    /\ UNCHANGED <<inviteRow, expired, granted, powers, suspended, joined, amidst, unearned>>

\* Variant that must fail: the inviter is not asked about any more.
MayAdmit_Unchecked(i) == i \in AdminInvites => CreateAdmins \in powers[MakerOf[i]]
\* markInviteClaimed's condition on the inviter, adminInviteClaimEntryTx.
MayAdmit(i) ==
    /\ MakerOf[i] \notin suspended
    /\ i \in AdminInvites =>
        i \notin expired /\ {CreateAdmins} \cup InviteGrants[i] \subseteq powers[MakerOf[i]]

\* Signup's transaction up to its commit: the invite's row is locked.
SignupWrites(n) ==
    /\ joining[n].step = "read"
    /\ InviteUnused(joining[n].invite)
    /\ MayAdmit(joining[n].invite)
    /\ joining' = [joining EXCEPT ![n].step = "written"]
    /\ UNCHANGED <<inviteRow, expired, granted, powers, suspended, joined, amidst, unearned>>

\* It commits; on the ledger, an admin invite has had to wait for its turn.
SignupCommits(n) ==
    LET i == joining[n].invite IN
    /\ joining[n].step = "written"
    /\ inviteRow' = [inviteRow EXCEPT ![i] = "claimed"]
    /\ joined' = [x \in DOMAIN joined \cup {n} |-> IF x = n THEN i ELSE joined[x]]
    /\ joining' = [joining EXCEPT ![n] = NotJoining]
    /\ unearned' =
        IF \/ MakerOf[i] \in suspended
           \/ i \in AdminInvites /\ ~({CreateAdmins} \cup InviteGrants[i] \subseteq powers[MakerOf[i]])
        THEN unearned \cup {n} ELSE unearned
    /\ UNCHANGED <<expired, granted, powers, suspended, amidst>>

\* Refused, or rolled back: the name is taken, the grant gone, the server down.
SignupEnds(n) ==
    /\ joining[n] # NotJoining
    /\ joining' = [joining EXCEPT ![n] = NotJoining]
    /\ UNCHANGED <<inviteRow, expired, granted, powers, suspended, joined, amidst, unearned>>

----------------------------------------------------------------------------
(* Around them.                                                            *)

InviteExpires(i) ==
    /\ i \in AdminInvites \ expired
    /\ inviteRow[i] = "pending"
    /\ expired' = expired \cup {i}
    /\ UNCHANGED <<inviteRow, granted, powers, suspended, joining, joined, amidst, unearned>>

\* The claims that have checked the maker and not committed.
Straddled(m) == {n \in Newcomers : joining[n].step = "written" /\ MakerOf[joining[n].invite] = m}

\* Executed requests about a maker: more invites, fewer permissions, a
\* suspension and its end (admin_invites.go, admin_promote.go, admin_suspend.go).
GrantInvites(m) ==
    /\ granted[m] < MaxGrants
    /\ granted' = [granted EXCEPT ![m] = @ + 1]
    /\ UNCHANGED <<inviteRow, expired, powers, suspended, joining, joined, amidst, unearned>>

LosePower(m, p) ==
    /\ p \in powers[m]
    /\ powers' = [powers EXCEPT ![m] = @ \ {p}]
    /\ amidst' = amidst \cup Straddled(m)
    /\ UNCHANGED <<inviteRow, expired, granted, suspended, joining, joined, unearned>>

SuspendMaker(m) ==
    /\ suspended' = IF m \in suspended THEN suspended \ {m} ELSE suspended \cup {m}
    /\ amidst' = amidst \cup Straddled(m)
    /\ UNCHANGED <<inviteRow, expired, granted, powers, joining, joined, unearned>>

InvitesNext ==
    \/ \E i \in Invites :
        \/ CreateInvite(i) \/ CreateInviteEnds(i) \/ RevokeInvite(i) \/ InviteExpires(i)
        \/ \E n \in Newcomers : SignupReads(n, i)
    \/ \E n \in Newcomers : SignupWrites(n) \/ SignupCommits(n) \/ SignupEnds(n)
    \/ \E m \in Makers :
        \/ GrantInvites(m) \/ SuspendMaker(m)
        \/ \E p \in Powers : LosePower(m, p)

InvitesSpec == InvitesInit /\ [][InvitesNext]_inviteVars

----------------------------------------------------------------------------
\* Rows and requests keep their shape.
InvitesTypeOK ==
    /\ inviteRow \in [Invites -> {"none", "inserting", "pending", "revoked", "claimed"}]
    /\ expired \subseteq AdminInvites
    /\ granted \in [Makers -> 0 .. MaxGrants]
    /\ powers \in [Makers -> SUBSET Powers]
    /\ suspended \subseteq Makers
    /\ joining \in [Newcomers -> {NotJoining} \cup [step : {"read", "written"}, invite : Invites]]
    /\ DOMAIN joined \subseteq Newcomers
    /\ \A n \in DOMAIN joined : joined[n] \in Invites
    /\ amidst \subseteq Newcomers /\ unearned \subseteq Newcomers

\* An invite admits at most one account, and it is marked claimed exactly when
\* it has: two signups that read it pending do not both get in, and neither
\* does one whose invite was revoked meanwhile (markInviteClaimed).
InviteSpentOnce ==
    /\ \A i \in Invites : (inviteRow[i] = "claimed") <=> \E n \in DOMAIN joined : joined[n] = i
    /\ \A n, o \in DOMAIN joined : joined[n] = joined[o] => n = o

\* Nobody has made more invites than the cap and their grants allow, however
\* many requests run at once (the advisory lock of insertInviteWith).
QuotaHolds ==
    \A m \in Makers : Cardinality(CountedInvites(m)) <= MaxInvitesPerUser + granted[m]

\* Invites are made and spent within their limits.
InvitesHold == InviteSpentOnce /\ QuotaHolds

\* An account comes in on an invite only while its inviter may still admit it:
\* not suspended, and holding all that the invite grants, unless the inviter
\* lost that between the check and the commit (adminInviteClaimEntryTx reads
\* the permissions before it takes its turn on the ledger, and locks nothing).
AdmittedRightlyUnlessOvertaken == unearned \subseteq amidst

\* Accounts come in on invites that are there, and rightly made.
SignupsHold == InvitesHold /\ AdmittedRightlyUnlessOvertaken
=============================================================================
