------------------------------ MODULE Vouches ------------------------------
(***************************************************************************)
(* One user's vouches for the keys of others (vouches.go,                  *)
(* federation_vouches.go, verification_window.go and the restoring of      *)
(* vouches in recovery_records.go).                                        *)
(*                                                                         *)
(* The voucher's server keeps the vouch; the subject's server, when it is  *)
(* a peer, keeps a reference by which readers find it.  The peer is asked  *)
(* first, both to take a reference and to drop it, and only then is the    *)
(* vouch stored or withdrawn: a request is read, sent, answered and        *)
(* written in separate steps.  Every stored version of a vouch is in some  *)
(* client's cache, and comes back in any order after the database is lost. *)
(***************************************************************************)
EXTENDS Naturals, FiniteSets

CONSTANTS
    SubjectKeys,    \* keys that may be vouched for (model values)
    PeerKeys,       \* those of users of a peer
    VouchWorkers,   \* requests in flight (model values)
    MaxVouches,     \* BOUND: vouch ids minted
    MaxLosses       \* BOUND: times the database is lost

VouchIds == 1 .. MaxVouches

ASSUME VouchesAssumption ==
    /\ PeerKeys \subseteq SubjectKeys
    /\ MaxVouches \in Nat /\ MaxLosses \in Nat

NoVouch == [state |-> "none", withdraws |-> 0]
VouchRow == [state : {"none", "live", "withdrawn"}, withdraws : VouchIds \cup {0}]

Kinds == {"create", "withdraw"}
Call == [kind : Kinds, id : VouchIds]
NoVouchJob == [kind |-> "none", id |-> 0, step |-> "idle"]
VouchJob == {NoVouchJob} \cup [kind : Kinds, id : VouchIds, step : {"sent", "agreed"}]

VARIABLES
    vouchKey,       \* the key a minted id is for
    vouchRow,       \* user_vouches, the live ones of them in user_vouches_active;
                    \* withdraws: the id the withdrawal's signature names
    settledIn,      \* ids stored less than vouchCooldown ago
    showing,        \* whether the subject has a verification window open
    references,     \* the peer's vouch_references
    vouchJob,       \* what each request has read and where it is
    overdue,        \* calls given up on that the peer may still handle
    losses,         \* times the database was lost
    versions,       \* versions of a vouch that clients hold: <<id, withdrawn>>
    offered,        \* those of them reported since the last loss
    displaced,      \* history: live versions refused because another vouch was live
    toldGone         \* history: ids whose reference the peer has dropped

vouchVars == <<vouchKey, vouchRow, settledIn, showing, references, vouchJob, overdue, losses,
               versions, offered, displaced, toldGone>>

VouchesInit ==
    /\ vouchKey = <<>>
    /\ vouchRow = [i \in VouchIds |-> NoVouch]
    /\ settledIn = {} /\ showing = FALSE
    /\ references = {}
    /\ vouchJob = [w \in VouchWorkers |-> NoVouchJob]
    /\ overdue = {}
    /\ losses = 0
    /\ versions = {} /\ offered = {} /\ displaced = {} /\ toldGone = {}

----------------------------------------------------------------------------

Minted == DOMAIN vouchKey
LiveFor(key) == {i \in Minted : vouchKey[i] = key /\ vouchRow[i].state = "live"}
Abroad(id) == vouchKey[id] \in PeerKeys

\* The subject opens a window, or it is closed or not pinged in time.
VerificationWindow ==
    /\ showing' = ~showing
    /\ UNCHANGED <<vouchKey, vouchRow, settledIn, references, vouchJob, overdue, losses, versions,
                   offered, displaced, toldGone>>

CooldownEnds ==
    /\ settledIn # {} /\ settledIn' = {}
    /\ UNCHANGED <<vouchKey, vouchRow, showing, references, vouchJob, overdue, losses, versions,
                   offered, displaced, toldGone>>

\* What CreateVouch asks first: no live vouch for the key, none made within the
\* cooldown, and for a user of this server an open window.
MayVouch(key) ==
    /\ LiveFor(key) = {}
    /\ {i \in settledIn : vouchKey[i] = key} = {}
    /\ key \notin PeerKeys => showing

\* CreateVouch up to the id it mints.  For a user of this server nobody else is
\* asked.
CreateVouch(w, key) ==
    LET id == Cardinality(Minted) + 1 IN
    /\ vouchJob[w] = NoVouchJob
    /\ id \in VouchIds
    /\ MayVouch(key)
    /\ vouchKey' = [i \in Minted \cup {id} |-> IF i = id THEN key ELSE vouchKey[i]]
    /\ vouchJob' = [vouchJob EXCEPT ![w] =
            [kind |-> "create", id |-> id, step |-> IF key \in PeerKeys THEN "sent" ELSE "agreed"]]
    /\ UNCHANGED <<vouchRow, settledIn, showing, references, overdue, losses, versions, offered,
                   displaced, toldGone>>

\* The handler WithdrawVouch up to its call: the signature names the vouch it
\* has read.
WithdrawRequest(w, id) ==
    /\ vouchJob[w] = NoVouchJob
    /\ vouchRow[id].state = "live"
    /\ vouchJob' = [vouchJob EXCEPT ![w] =
            [kind |-> "withdraw", id |-> id, step |-> IF Abroad(id) THEN "sent" ELSE "agreed"]]
    /\ UNCHANGED <<vouchKey, vouchRow, settledIn, showing, references, overdue, losses, versions,
                   offered, displaced, toldGone>>

----------------------------------------------------------------------------
(* The peer.                                                               *)

\* VouchReferenceFromPeer stores the reference, VouchWithdrawalFromPeer drops
\* it.
Handled(kind, id) ==
    IF kind = "create"
    THEN references' = references \cup {id} /\ UNCHANGED toldGone
    ELSE references' = references \ {id} /\ toldGone' = toldGone \cup {id}

\* Variant that must fail: the vouch is stored whatever the peer answers.
PeerRefuses_Ignored(w) ==
    /\ vouchJob[w].step = "sent"
    /\ vouchJob' = [vouchJob EXCEPT ![w].step = "agreed"]
    /\ UNCHANGED <<vouchKey, vouchRow, settledIn, showing, references, overdue, losses, versions,
                   offered, displaced, toldGone>>
\* No window is open, a key is unknown or revoked, or the call never gets there.
PeerRefuses(w) ==
    /\ vouchJob[w].step = "sent"
    /\ vouchJob' = [vouchJob EXCEPT ![w] = NoVouchJob]
    /\ UNCHANGED <<vouchKey, vouchRow, settledIn, showing, references, overdue, losses, versions,
                   offered, displaced, toldGone>>

PeerAgrees(w) ==
    /\ vouchJob[w].step = "sent"
    /\ vouchJob[w].kind = "create" => showing
    /\ Handled(vouchJob[w].kind, vouchJob[w].id)
    /\ vouchJob' = [vouchJob EXCEPT ![w].step = "agreed"]
    /\ UNCHANGED <<vouchKey, vouchRow, settledIn, showing, overdue, losses, versions, offered,
                   displaced>>

\* The answer does not come in time, or the process dies.  A call that was not
\* handled yet may still be.
GivesUp(w) ==
    /\ vouchJob[w] # NoVouchJob
    /\ overdue' = IF vouchJob[w].step = "sent"
                  THEN overdue \cup {[kind |-> vouchJob[w].kind, id |-> vouchJob[w].id]} ELSE overdue
    /\ vouchJob' = [vouchJob EXCEPT ![w] = NoVouchJob]
    /\ UNCHANGED <<vouchKey, vouchRow, settledIn, showing, references, losses, versions, offered,
                   displaced, toldGone>>

HandledLate(c) ==
    /\ c \in overdue /\ (c.kind = "create" => showing)
    /\ overdue' = overdue \ {c}
    /\ Handled(c.kind, c.id)
    /\ UNCHANGED <<vouchKey, vouchRow, settledIn, showing, vouchJob, losses, versions, offered,
                   displaced>>

----------------------------------------------------------------------------
(* Storing.                                                                *)

\* InsertVouch: with another vouch for the key live, nothing is stored.
InsertVouch(w) ==
    LET id == vouchJob[w].id IN
    /\ vouchJob[w].kind = "create" /\ vouchJob[w].step = "agreed"
    /\ vouchJob' = [vouchJob EXCEPT ![w] = NoVouchJob]
    /\ IF LiveFor(vouchKey[id]) = {}
       THEN /\ vouchRow' = [vouchRow EXCEPT ![id].state = "live"]
            /\ settledIn' = settledIn \cup {id}
            /\ versions' = versions \cup {<<id, FALSE>>}
       ELSE UNCHANGED <<vouchRow, settledIn, versions>>
    /\ UNCHANGED <<vouchKey, showing, references, overdue, losses, offered, displaced, toldGone>>

\* The store's WithdrawVouch withdraws what is live for the key by now.
WithdrawVouch(w) ==
    LET live == LiveFor(vouchKey[vouchJob[w].id]) IN
    /\ vouchJob[w].kind = "withdraw" /\ vouchJob[w].step = "agreed"
    /\ vouchJob' = [vouchJob EXCEPT ![w] = NoVouchJob]
    /\ vouchRow' = [i \in VouchIds |-> IF i \in live
                        THEN [state |-> "withdrawn", withdraws |-> vouchJob[w].id] ELSE vouchRow[i]]
    /\ versions' = versions \cup {<<i, TRUE>> : i \in live \cap {vouchJob[w].id}}
    /\ UNCHANGED <<vouchKey, settledIn, showing, references, overdue, losses, offered, displaced,
                   toldGone>>

----------------------------------------------------------------------------
(* Recovery.                                                               *)

LosesDatabase ==
    /\ losses < MaxLosses
    /\ losses' = losses + 1
    /\ vouchRow' = [i \in VouchIds |-> NoVouch]
    /\ settledIn' = {} /\ offered' = {} /\ displaced' = {}
    /\ overdue' = overdue \cup {[kind |-> vouchJob[w].kind, id |-> vouchJob[w].id] :
                                    w \in {u \in VouchWorkers : vouchJob[u].step = "sent"}}
    /\ vouchJob' = [w \in VouchWorkers |-> NoVouchJob]
    /\ UNCHANGED <<vouchKey, showing, references, versions, toldGone>>

RestoredState(id, withdrawn) ==
    IF withdrawn /\ vouchRow[id].state # "withdrawn" THEN [state |-> "withdrawn", withdraws |-> id]
    ELSE IF vouchRow[id] = NoVouch THEN [NoVouch EXCEPT !.state = "live"]
    ELSE vouchRow[id]

\* recoveredVouch.restore.  A second live vouch for the key is an error, which
\* the device may report again later.
RestoreVouch(id, withdrawn) ==
    /\ losses > 0
    /\ <<id, withdrawn>> \in versions
    /\ offered' = offered \cup {<<id, withdrawn>>}
    /\ IF vouchRow[id] = NoVouch /\ ~withdrawn /\ LiveFor(vouchKey[id]) # {}
       THEN displaced' = displaced \cup {id} /\ UNCHANGED vouchRow
       ELSE /\ vouchRow' = [vouchRow EXCEPT ![id] = RestoredState(id, withdrawn)]
            /\ displaced' = displaced \ {id}
    /\ UNCHANGED <<vouchKey, settledIn, showing, references, vouchJob, overdue, losses, versions,
                   toldGone>>

VouchesNext ==
    \/ VerificationWindow \/ CooldownEnds \/ LosesDatabase
    \/ \E w \in VouchWorkers :
        \/ \E key \in SubjectKeys : CreateVouch(w, key)
        \/ \E id \in VouchIds : WithdrawRequest(w, id)
        \/ PeerRefuses(w) \/ PeerAgrees(w) \/ GivesUp(w) \/ InsertVouch(w) \/ WithdrawVouch(w)
    \/ \E c \in overdue : HandledLate(c)
    \/ \E id \in VouchIds, withdrawn \in BOOLEAN : RestoreVouch(id, withdrawn)

VouchesSpec == VouchesInit /\ [][VouchesNext]_vouchVars

----------------------------------------------------------------------------
(* Invariants.                                                             *)

VouchesTypeOK ==
    /\ Minted \subseteq VouchIds /\ \A i \in Minted : vouchKey[i] \in SubjectKeys
    /\ vouchRow \in [VouchIds -> VouchRow]
    /\ settledIn \subseteq Minted /\ showing \in BOOLEAN
    /\ references \subseteq Minted
    /\ vouchJob \in [VouchWorkers -> VouchJob]
    /\ overdue \subseteq Call
    /\ losses \in 0 .. MaxLosses
    /\ versions \subseteq Minted \X BOOLEAN /\ offered \subseteq versions
    /\ displaced \subseteq Minted /\ toldGone \subseteq Minted

\* federation_vouches.go: a vouch about a user of a peer is stored only once the
\* peer holds a reference to it, and keeps it until the peer is told otherwise.
LiveIsFound ==
    \A i \in Minted : (vouchRow[i].state = "live" /\ Abroad(i)) => i \in references \cup toldGone

\* A withdrawal that names another vouch names one that is withdrawn itself.
WithdrawalNamesWithdrawn ==
    \A i \in Minted : vouchRow[i].state = "withdrawn" => vouchRow[vouchRow[i].withdraws].state # "live"

\* Whatever order the copies come back in, a vouch one of them withdraws is
\* withdrawn, and one that none withdraws is back unless another had its place.
CopiesSettle ==
    \A i \in Minted :
        /\ <<i, TRUE>> \in offered => vouchRow[i].state = "withdrawn"
        /\ <<i, FALSE>> \in offered \ {<<j, FALSE>> : j \in displaced} => vouchRow[i].state # "none"

\* What a reader finds through either server: a live vouch through its
\* reference, and no vouch that was withdrawn and reported so.
VouchesHold == LiveIsFound /\ WithdrawalNamesWithdrawn /\ CopiesSettle
=============================================================================
