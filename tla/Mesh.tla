-------------------------------- MODULE Mesh --------------------------------
(***************************************************************************)
(* How two servers come to trust each other and part again: an invitation  *)
(* handed over outside, the connect callback, an approval on each side     *)
(* that is told to the other before it commits, disconnects that two       *)
(* admins sign and the other side is told of, and the purge after which    *)
(* the pair may start over (handlers.go, services.go FederationService,    *)
(* federation_relay.go approved-notify and disconnect-notify).             *)
(*                                                                         *)
(* Each side sees the rows the other has committed, never what it is about *)
(* to commit: an approval calls the peer while its own row is invisible,   *)
(* and a disconnect notice travels after the row is gone.                  *)
(***************************************************************************)
EXTENDS Naturals, FiniteSets

CONSTANTS
    Servers,        \* the two servers (model values)
    Clerks,         \* their admins (the same names on both sides)
    Boss,           \* root, who needs no second admin
    MaxInvites,     \* BOUND: invitations made by each server
    Openers,        \* BOUND: the admins who invite and who ask for a disconnect
    MaxMishaps,     \* BOUND: of what goes wrong (the four histories below)
    MaxTries,       \* BOUND: connection strings pasted in all
    Writers         \* BOUND: the servers that write events for their peer, one at a time

ASSUME MeshAssumption ==
    /\ IsFiniteSet(Servers) /\ Cardinality(Servers) = 2
    /\ Boss \in Clerks /\ Openers \subseteq Clerks
    /\ "none" \notin Clerks
    /\ MaxInvites \in Nat /\ MaxTries \in Nat /\ MaxMishaps \in Nat /\ Writers \subseteq Servers

VARIABLES
    invitation,     \* federation_invitation, the latest of each server
    attempts,       \* federation_attempt, the pending ones
    tries,          \* connection strings ever pasted
    peering,        \* server_mesh: each server's row about the other
    owing,          \* peer_event_queue has events for the peer
    paste,          \* OutgoingFederationAttempt under way, by server
    approving,      \* ApproveFederationAttempt under way, by server
    writing,        \* a write that has read its peers and not committed
    notice,         \* disconnect notices not delivered yet, by sender
    met,            \* history: the peer had approved this peering, or both stood at once
    doubled,        \* history: servers where two handshakes were checked at once
    unsaid,         \* history: servers told of an approval that was rolled back
    slipped,        \* history: servers where a write straddled a disconnect
    unheard         \* history: servers the notice of their peering's end did not reach

meshVars == <<invitation, attempts, tries, peering, owing, paste, approving, writing,
              notice, met, doubled, unsaid, slipped, unheard>>
meshLogs == <<met, doubled, unsaid, slipped, unheard>>

OtherEnd(s) == CHOOSE o \in Servers : o # s
NoPeering == [state |-> "none", peerApproved |-> FALSE, stagedBy |-> "none"]
NotAtIt == [step |-> "idle"]

Connected(s) == peering[s].state = "connected"

\* An approval holds the row it has written until it commits.
RowLocked(s) == approving[s] # NotAtIt

\* Variant that must fail: an attempt that waits for its approval is not looked for.
KnownPeer_MeshOnly(s) == peering[s].state \in {"connected", "revoked"}
\* rejectKnownFederationPeer.
KnownPeer(s) == attempts[s] # {} \/ peering[s].state \in {"connected", "revoked"}

MeshInit ==
    /\ invitation = [s \in Servers |-> [id |-> 0, state |-> "none", by |-> "none"]]
    /\ attempts = [s \in Servers |-> {}]
    /\ tries = 0
    /\ peering = [s \in Servers |-> NoPeering]
    /\ owing = [s \in Servers |-> FALSE]
    /\ paste = [s \in Servers |-> NotAtIt]
    /\ approving = [s \in Servers |-> NotAtIt]
    /\ writing = [s \in Servers |-> FALSE]
    /\ notice = [s \in Servers |-> FALSE]
    /\ met = [s \in Servers |-> FALSE]
    /\ doubled = {}
    /\ unsaid = {}
    /\ slipped = {}
    /\ unheard = {}

----------------------------------------------------------------------------
(* The invitation and the connect callback.                                *)

\* InsertFederationInvitation: one open invitation for a peer.
MayInvite(s) == invitation[s].state # "new"

\* CreateFederationInvitation.
MeshInvite(s, c) ==
    /\ MayInvite(s)
    /\ invitation[s].id < MaxInvites
    /\ invitation' = [invitation EXCEPT ![s] = [id |-> @.id + 1, state |-> "new", by |-> c]]
    /\ UNCHANGED <<attempts, tries, peering, owing, paste, approving, writing, notice,
                   meshLogs>>

\* A callback that has locked the invitation's row.
Accepting(s) == paste[OtherEnd(s)].step = "accepting"

\* RevokeFederationInvitation, in the database and in the handler.
Cancelable(s) == invitation[s].state = "new" /\ ~Accepting(s)
CancelInvite(s) ==
    /\ Cancelable(s)
    /\ invitation' = [invitation EXCEPT ![s].state = "canceled"]
    /\ UNCHANGED <<attempts, tries, peering, owing, paste, approving, writing, notice,
                   meshLogs>>

\* OutgoingFederationAttempt: the connection string read, the peer not known.
PasteCheck(s) ==
    /\ paste[s] = NotAtIt
    /\ invitation[OtherEnd(s)].id > 0
    /\ ~KnownPeer(s)
    /\ tries < MaxTries
    /\ tries' = tries + 1
    /\ paste' = [paste EXCEPT ![s] =
            [step |-> "checked", try |-> tries + 1, id |-> invitation[OtherEnd(s)].id]]
    /\ doubled' = IF Accepting(s) THEN doubled \cup {s} ELSE doubled
    /\ UNCHANGED <<invitation, attempts, peering, owing, approving, writing, notice,
                   met, unsaid, slipped, unheard>>

\* ... the attempt recorded (CreateFederationAttempt), the callback on its way.
PasteInsert(s) ==
    /\ paste[s].step = "checked"
    /\ attempts' = [attempts EXCEPT ![s] = @ \cup {[id |-> paste[s].try, inviter |-> "none"]}]
    /\ paste' = [paste EXCEPT ![s].step = "calling"]
    /\ UNCHANGED <<invitation, tries, peering, owing, approving, writing, notice, meshLogs>>

\* The invitation a callback names, GetFederationInvitation.
Invited(s, id) == invitation[s].state = "new" /\ invitation[s].id = id

\* IncomingFederationAttempt at the other end: the invitation is new, its row
\* locked, and the peer not known there.
ConnectCheck(s) ==
    LET o == OtherEnd(s) IN
    /\ paste[s].step = "calling"
    /\ Invited(o, paste[s].id)
    /\ ~KnownPeer(o)
    /\ paste' = [paste EXCEPT ![s].step = "accepting"]
    /\ doubled' = IF paste[o].step = "checked" THEN doubled \cup {o} ELSE doubled
    /\ UNCHANGED <<invitation, attempts, tries, peering, owing, approving, writing, notice,
                   met, unsaid, slipped, unheard>>

\* MarkFederationInvitationAccepted.
ConnectAccept(s) ==
    LET o == OtherEnd(s) IN
    /\ paste[s].step = "accepting"
    /\ attempts' = [attempts EXCEPT ![o] =
            @ \cup {[id |-> paste[s].try, inviter |-> invitation[o].by]}]
    /\ invitation' = [invitation EXCEPT ![o].state = "accepted"]
    /\ paste' = [paste EXCEPT ![s] = NotAtIt]
    /\ UNCHANGED <<tries, peering, owing, approving, writing, notice, meshLogs>>

\* The callback is refused or does not arrive: the attempt here stays pending.
ConnectFails(s) ==
    /\ paste[s].step \in {"calling", "accepting"}
    /\ paste' = [paste EXCEPT ![s] = NotAtIt]
    /\ UNCHANGED <<invitation, attempts, tries, peering, owing, approving, writing, notice,
                   meshLogs>>

\* RejectFederationAttempt; an approval under way has locked its attempt.
Decided(s, a) ==
    /\ a \in attempts[s] /\ ~RowLocked(s)
    /\ attempts' = [attempts EXCEPT ![s] = @ \ {a}]
RejectAttempt(s, a) ==
    /\ Decided(s, a)
    /\ UNCHANGED <<invitation, tries, peering, owing, paste, approving, writing, notice,
                   meshLogs>>

----------------------------------------------------------------------------
(* Approvals.                                                              *)

\* ApproveFederationAttempt up to the call; nothing of it is visible yet. (had
\* is history: the peer really had approved when it answered.)
ApproveBegin(s, c, a) ==
    /\ ~RowLocked(s)
    /\ a \in attempts[s]
    /\ c # a.inviter \/ c = Boss
    /\ approving' = [approving EXCEPT ![s] =
            [step |-> "calling", attempt |-> a, had |-> FALSE]]
    /\ UNCHANGED <<invitation, attempts, tries, peering, owing, paste, writing, notice,
                   meshLogs>>

\* MarkPeerApproved writes the row once, and waits for whoever has locked it.
CanMark(s) == Connected(s) /\ ~peering[s].peerApproved => ~RowLocked(s)

\* Variant that must fail: a peer that has not approved yet counts as one that has.
ApproveTold_Any(s) ==
    /\ approving[s].step = "calling"
    /\ CanMark(OtherEnd(s))
    /\ approving' = [approving EXCEPT ![s].step = "yes",
                                      ![s].had = Connected(OtherEnd(s))]
    /\ peering' = [peering EXCEPT ![OtherEnd(s)].peerApproved = @ \/ Connected(OtherEnd(s))]
    /\ UNCHANGED <<invitation, attempts, tries, owing, paste, writing, notice, meshLogs>>

\* notifyPeerOfApproval: the peer answers 204 when our key opens its door, and
\* notes that we approved it (MarkPeerApproved); otherwise 403.
ApproveTold(s) ==
    LET o == OtherEnd(s) IN
    /\ approving[s].step = "calling"
    /\ CanMark(o)
    /\ approving' = [approving EXCEPT ![s].step = IF Connected(o) THEN "yes" ELSE "no",
                                      ![s].had = Connected(o)]
    /\ peering' = [peering EXCEPT ![o].peerApproved = @ \/ Connected(o)]
    /\ UNCHANGED <<invitation, attempts, tries, owing, paste, writing, notice, meshLogs>>

\* The approval commits: the row is written anew, the attempt gone. A notice
\* still on its way from the last peering will end this one over there; one
\* that the peer sent after its answer may have been refused.
ApproveCommit(s) ==
    LET o == OtherEnd(s) IN
    /\ approving[s].step \in {"yes", "no"}
    /\ peering' = [peering EXCEPT ![s] = [state |-> "connected", stagedBy |-> "none",
                                          peerApproved |-> approving[s].step = "yes"]]
    /\ attempts' = [attempts EXCEPT ![s] = @ \ {approving[s].attempt}]
    /\ approving' = [approving EXCEPT ![s] = NotAtIt]
    /\ met' = [e \in Servers |-> IF e = s THEN approving[s].had \/ Connected(o)
                                 ELSE met[e] \/ Connected(e)]
    /\ unheard' = IF notice[s] \/ (approving[s].step = "yes" /\ ~Connected(o) /\ ~notice[o])
                     THEN unheard \cup {s} ELSE unheard
    /\ UNCHANGED <<invitation, tries, owing, paste, writing, notice, doubled, unsaid,
                   slipped>>

\* The peer is out of reach, its answer is lost, the ledger refuses, the
\* server stops: all of it is rolled back here, and nothing over there.
ApproveFailed(s) ==
    /\ RowLocked(s)
    /\ approving' = [approving EXCEPT ![s] = NotAtIt]
    /\ unsaid' = IF approving[s].step = "yes" THEN unsaid \cup {OtherEnd(s)} ELSE unsaid
    /\ UNCHANGED <<invitation, attempts, tries, peering, owing, paste, writing, notice, met,
                   doubled, slipped, unheard>>

\* Any other request to the peer, its queue drained among them.
MeshTalk(s) ==
    LET o == OtherEnd(s) IN
    /\ Connected(s) /\ Connected(o)
    /\ CanMark(o)
    /\ peering' = [peering EXCEPT ![o].peerApproved = TRUE]
    /\ owing' = [owing EXCEPT ![s] = FALSE]
    /\ UNCHANGED <<invitation, attempts, tries, paste, approving, writing, notice, meshLogs>>

\* What is owed: a write reads the connected peers and commits later.
MailRead(s) ==
    /\ Connected(s) /\ s \in Writers /\ ~writing[s] /\ ~owing[s]
    /\ writing' = [writing EXCEPT ![s] = TRUE]
    /\ UNCHANGED <<invitation, attempts, tries, peering, owing, paste, approving, notice, meshLogs>>

MailCommit(s) ==
    /\ writing[s]
    /\ writing' = [writing EXCEPT ![s] = FALSE]
    /\ owing' = [owing EXCEPT ![s] = TRUE]
    /\ UNCHANGED <<invitation, attempts, tries, peering, paste, approving, notice, meshLogs>>

----------------------------------------------------------------------------
(* Parting.                                                                *)

\* signPeeringTx: whoever writes a field of the peering waits for its row.
Signs(s, row) == ~RowLocked(s) /\ peering' = [peering EXCEPT ![s] = row]

\* RequestFederationServerDisconnect and its withdrawal, in the database and
\* in the handlers.
Stages(s, c) ==
    /\ Connected(s) /\ peering[s].stagedBy = "none"
    /\ Signs(s, [peering[s] EXCEPT !.stagedBy = c])
StageDisconnect(s, c) ==
    /\ Stages(s, c)
    /\ UNCHANGED <<invitation, attempts, tries, owing, paste, approving, writing, notice,
                   meshLogs>>

Unstages(s) ==
    /\ peering[s].stagedBy # "none"
    /\ Signs(s, [peering[s] EXCEPT !.stagedBy = "none"])
CancelDisconnect(s) ==
    /\ Unstages(s)
    /\ UNCHANGED <<invitation, attempts, tries, owing, paste, approving, writing, notice,
                   meshLogs>>

\* Variant that must fail: what is owed to the peer is kept.
RevokePeer_KeepsQueue(s) ==
    /\ Signs(s, [peering[s] EXCEPT !.state = "revoked", !.stagedBy = "none"])
    /\ owing' = owing
    /\ slipped' = IF writing[s] THEN slipped \cup {s} ELSE slipped
\* revokeFederationServerTx: the row revoked, the queue emptied.
RevokePeer(s) ==
    /\ Signs(s, [peering[s] EXCEPT !.state = "revoked", !.stagedBy = "none"])
    /\ owing' = [owing EXCEPT ![s] = FALSE]
    /\ slipped' = IF writing[s] THEN slipped \cup {s} ELSE slipped

\* ConfirmFederationServerDisconnect, and the goroutine that tells the peer.
Confirms(s, c) ==
    /\ peering[s].stagedBy # "none"
    /\ c # peering[s].stagedBy \/ c = Boss
    /\ RevokePeer(s)
ConfirmDisconnect(s, c) ==
    /\ Confirms(s, c)
    /\ notice' = [notice EXCEPT ![s] = TRUE]
    /\ UNCHANGED <<invitation, attempts, tries, paste, approving, writing, met, doubled,
                   unsaid, unheard>>

\* Variant that must fail: a peer with a disconnect of its own staged waits for it.
DisconnectTold_NotStaged(s) ==
    LET o == OtherEnd(s) IN
    /\ notice[s]
    /\ Connected(o)
    /\ IF peering[o].stagedBy = "none" THEN RevokePeer(o) ELSE UNCHANGED <<peering, owing, slipped>>
    /\ notice' = [notice EXCEPT ![s] = FALSE]
    /\ UNCHANGED <<invitation, attempts, tries, paste, approving, writing, met, doubled,
                   unsaid, unheard>>

\* DisconnectNotifyFromPeer: revoked there too, on nobody's word but ours.
DisconnectTold(s) ==
    LET o == OtherEnd(s) IN
    /\ notice[s]
    /\ Connected(o)
    /\ RevokePeer(o)
    /\ notice' = [notice EXCEPT ![s] = FALSE]
    /\ UNCHANGED <<invitation, attempts, tries, paste, approving, writing, met, doubled,
                   unsaid, unheard>>

\* The notice is lost, or refused because the peer's own approval of us is
\* not committed; nobody sends it again.
DisconnectUntold(s) ==
    LET o == OtherEnd(s) IN
    /\ notice[s]
    /\ notice' = [notice EXCEPT ![s] = FALSE]
    /\ unheard' = IF Connected(o) \/ approving[o].step = "yes" THEN unheard \cup {o} ELSE unheard
    /\ UNCHANGED <<invitation, attempts, tries, peering, owing, paste, approving, writing,
                   met, doubled, unsaid, slipped>>

\* PurgeFederationServer: deleting the row takes the queue with it.
Purges(s) ==
    /\ peering[s].state = "revoked"
    /\ Signs(s, [peering[s] EXCEPT !.state = "purged"])
    /\ owing' = [owing EXCEPT ![s] = FALSE]
PurgePeer(s) ==
    /\ Purges(s)
    /\ UNCHANGED <<invitation, attempts, tries, paste, approving, writing, notice, meshLogs>>

MeshNext == \E s \in Servers :
    \/ \E c \in Openers : MeshInvite(s, c) \/ StageDisconnect(s, c)
    \/ \E c \in Clerks :
        \/ ConfirmDisconnect(s, c)
        \/ \E a \in attempts[s] : ApproveBegin(s, c, a)
    \/ CancelInvite(s) \/ PasteCheck(s) \/ PasteInsert(s)
    \/ ConnectCheck(s) \/ ConnectAccept(s) \/ ConnectFails(s)
    \/ \E a \in attempts[s] : RejectAttempt(s, a)
    \/ ApproveTold(s) \/ ApproveCommit(s) \/ ApproveFailed(s)
    \/ MeshTalk(s) \/ MailRead(s) \/ MailCommit(s)
    \/ CancelDisconnect(s) \/ DisconnectTold(s) \/ DisconnectUntold(s) \/ PurgePeer(s)

\* What has gone wrong stays within its bound (a constraint of the runs).
FewMishaps ==
    Cardinality(doubled) + Cardinality(unsaid) + Cardinality(slipped) + Cardinality(unheard)
        <= MaxMishaps

MeshSpec == MeshInit /\ [][MeshNext]_meshVars

----------------------------------------------------------------------------
Attempt == [id : 1 .. MaxTries, inviter : Clerks \cup {"none"}]

\* Rows and calls keep their shape.
MeshTypeOK ==
    /\ invitation \in [Servers -> [id : 0 .. MaxInvites, by : Clerks \cup {"none"},
                                   state : {"none", "new", "accepted", "canceled"}]]
    /\ attempts \in [Servers -> SUBSET Attempt]
    /\ tries \in 0 .. MaxTries
    /\ peering \in [Servers -> [state : {"none", "connected", "revoked", "purged"},
                                peerApproved : BOOLEAN, stagedBy : Clerks \cup {"none"}]]
    /\ owing \in [Servers -> BOOLEAN]
    /\ paste \in [Servers -> {NotAtIt} \cup
            [step : {"checked", "calling", "accepting"}, try : 1 .. MaxTries, id : 1 .. MaxInvites]]
    /\ approving \in [Servers -> {NotAtIt} \cup
            [step : {"calling", "yes", "no"}, attempt : Attempt, had : BOOLEAN]]
    /\ writing \in [Servers -> BOOLEAN]
    /\ notice \in [Servers -> BOOLEAN]
    /\ met \in [Servers -> BOOLEAN]
    /\ doubled \subseteq Servers /\ unsaid \subseteq Servers
    /\ slipped \subseteq Servers /\ unheard \subseteq Servers

\* One handshake at a time: whoever waits for an approval is not a peer, and
\* waits once (rejectKnownFederationPeer), unless two were checked at once.
OneHandshakeUnlessDoubled ==
    \A s \in Servers \ doubled :
        /\ Cardinality(attempts[s]) <= 1
        /\ attempts[s] # {} => peering[s].state \in {"none", "purged"}

\* A peering counts as approved by the peer only when the peer has approved it
\* or is about to commit that, unless its approval was rolled back after the
\* call (recordPeerApproval takes a signed request for a committed approval).
PeerApprovedUnlessUnsaid ==
    \A s \in Servers \ unsaid :
        Connected(s) /\ peering[s].peerApproved =>
            met[s] \/ approving[OtherEnd(s)].step = "yes"

\* A peer that is disconnected is owed nothing, so that reconnecting starts it
\* empty (revokeFederationServerTx), unless a write straddled the disconnect.
OwedNothingUnlessSlipped ==
    \A s \in Servers \ slipped : peering[s].state \in {"revoked", "purged"} => ~owing[s]

\* Once nothing is in flight, nobody holds an established peering with a server
\* that has parted from it, unless the notice did not arrive.
PartedBothUnlessUnheard ==
    \A s \in Servers :
        /\ peering[s].state \in {"revoked", "purged"}
        /\ ~notice[s] /\ ~RowLocked(s)
        /\ OtherEnd(s) \notin unheard \cup unsaid
        => ~(Connected(OtherEnd(s)) /\ peering[OtherEnd(s)].peerApproved)

\* The two servers' accounts of their peering agree: neither counts on an
\* approval the other has not given, and both part when one does.
PeeringsAgree == PeerApprovedUnlessUnsaid /\ PartedBothUnlessUnheard

\* A handshake is made once, both servers read its outcome alike, and it leaves
\* nothing behind (rejectKnownFederationPeer, recordPeerApproval).
PeeringHolds == OneHandshakeUnlessDoubled /\ PeeringsAgree /\ OwedNothingUnlessSlipped
=============================================================================
