------------------------------ MODULE Removals ------------------------------
(***************************************************************************)
(* How a device that keeps copies of one author's reeds hears that a reed, *)
(* a thread or the account was removed (the fanouts and catch-up of        *)
(* realtime.go, the statements of services.go behind them, and what the    *)
(* client does with the frames).                                           *)
(*                                                                         *)
(* The server keeps one row for every copy it knows a user to hold.  A     *)
(* removal is told at once to whoever is online and follows or watches the *)
(* author, and at the next sync to whoever still has a row; the row goes   *)
(* when the device has acked.  The device's handlers run concurrently, so  *)
(* their acks may leave in another order than they took effect: the copy   *)
(* is then adrift, as it is when its ack is lost with the socket.          *)
(***************************************************************************)
EXTENDS Naturals, Sequences, FiniteSets

Seqs == INSTANCE SequencesExt

CONSTANTS
    Copyable,       \* the author's reeds (model values)
    MaxRemovals,    \* BOUND: removals
    MaxNotices,     \* BOUND: events minted for the device on one connection
    MaxVisits       \* BOUND: connections

ASSUME RemovalsAssumption == {MaxRemovals, MaxNotices, MaxVisits} \subseteq Nat /\ IsFiniteSet(Copyable)

NoticeKinds == {"data", "reed_removed", "thread_removed", "account_removed"}
Notice == [kind : NoticeKinds, reeds : SUBSET Copyable]
About(kind, reeds) == [kind |-> kind, reeds |-> reeds]

\* What travels on the socket, either way.
Frame(is, notice) == [is |-> is, about |-> notice]
Told(notice) == Frame("told", notice)
Ack(notice) == Frame("ack", notice)
AskFrame(r) == Frame("ask", About("data", {r}))
Evict(r) == Frame("evict", About("data", {r}))
Evicted(r) == Frame("evicted", About("data", {r}))

VARIABLES
    session,        \* the device: "off", "on", or "synced" once it sent SYNC_REQUEST
    visits,         \* connections so far
    tied,           \* whether it has a user_following row for the author, or a
                    \* public_key_allocations row for the author's key
    lostAbroad,     \* a peer's user it follows was removed while it was away
    held,           \* its reed_allocations
    kept,           \* the reeds on the device
    tombstones,     \* the parts of the removed threads it keeps in mind
    evictions,      \* its pendingEvictions
    reedsGone,      \* reed_removals of single reeds
    threadsGone,    \* thread_removals, each the set of its parts
    accountGone,    \* account_removals
    minted,         \* how many events it had on this connection
    waiting,        \* those no copy was relayed for yet
    toDevice, toServer,     \* what is on the socket
    answering,      \* events the device has handled and not acked yet
    spreading,      \* removals being fanned out
    finding,        \* what catchUp has still to look for
    due,            \* history: removed copies the last sync was to tell of
    adrift          \* history: copies whose ack was lost or overtaken

removalVars == <<session, visits, tied, lostAbroad, held, kept, tombstones, evictions, reedsGone,
                 threadsGone, accountGone, minted, waiting, toDevice, toServer, answering,
                 spreading, finding, due, adrift>>

presence == <<session, visits>>
dbRows == <<tied, lostAbroad, held>>
device == <<kept, tombstones, evictions>>
certs == <<reedsGone, threadsGone, accountGone>>
events == <<minted, waiting>>
socket == <<toDevice, toServer, answering>>
past == <<due, adrift>>

RemovalsInit ==
    /\ session = "off" /\ visits = 0
    /\ tied = FALSE /\ lostAbroad = FALSE /\ held = {}
    /\ kept = {} /\ tombstones = {} /\ evictions = {}
    /\ reedsGone = {} /\ threadsGone = {} /\ accountGone = FALSE
    /\ minted = 0 /\ waiting = <<>>
    /\ toDevice = <<>> /\ toServer = <<>> /\ answering = <<>>
    /\ spreading = {} /\ finding = <<>>
    /\ due = {} /\ adrift = {}

----------------------------------------------------------------------------

\* Copies whose ack is still to reach the server.
InQueue(queue) == {queue[i] : i \in 1 .. Len(queue)}
Unheard == InQueue(answering) \cup {f.about : f \in {g \in InQueue(toServer) : g.is = "ack"}}
Coming == UNION {n.reeds : n \in {m \in Unheard : m.kind = "data"}}

\* ReedExists
RemovedSet == reedsGone \cup UNION threadsGone
Alive(r) == r \notin RemovedSet /\ ~accountGone

\* An event is created, marked dispatched and sent: the server has the
\* certificate itself.
Tell(notices) ==
    /\ minted + Len(notices) <= MaxNotices
    /\ minted' = minted + Len(notices)
    /\ toDevice' = toDevice \o [i \in 1 .. Len(notices) |-> Told(notices[i])]
    /\ UNCHANGED waiting

\* An event that waits for a holder's copy.
Await(r) ==
    /\ minted < MaxNotices
    /\ minted' = minted + 1
    /\ waiting' = Append(waiting, About("data", {r}))

----------------------------------------------------------------------------
(* Connections and what the user does.                                     *)

OpenSocket ==
    /\ session = "off" /\ visits < MaxVisits
    /\ session' = "on" /\ visits' = visits + 1
    /\ UNCHANGED <<dbRows, device, certs, events, socket, spreading, finding, past>>

\* Removed copies the catch-up is to tell of.
Owed == {r \in kept \ evictions :
            (r \in RemovedSet \ adrift) \/ (accountGone /\ tied /\ ~lostAbroad)}

SendSyncRequest ==
    /\ session = "on"
    /\ session' = "synced"
    /\ finding' = <<"reeds", "threads", "accounts">>
    /\ due' = Owed
    /\ UNCHANGED <<visits, dbRows, device, certs, events, socket, spreading, adrift>>

\* The socket closes and the user's events are deleted.
LoseSocket ==
    /\ session # "off"
    /\ session' = "off"
    /\ minted' = 0 /\ waiting' = <<>>
    /\ toDevice' = <<>> /\ toServer' = <<>> /\ answering' = <<>> /\ finding' = <<>>
    /\ adrift' = adrift \cup ((kept \cap Coming) \ held)
    /\ due' = {}
    /\ UNCHANGED <<visits, dbRows, device, certs, spreading>>

\* Unfollow, and the ack of the revocation of the author's key (module Keys).
Untie ==
    /\ session = "synced" /\ tied
    /\ tied' = FALSE
    /\ due' = (due \cap RemovedSet) \ adrift
    /\ UNCHANGED <<presence, lostAbroad, held, device, certs, events, socket, spreading, finding,
                   adrift>>

----------------------------------------------------------------------------
(* Copies.                                                                 *)

RequestReed(r) ==
    /\ session = "synced" /\ r \notin kept
    /\ Len(toServer) = 0
    /\ toServer' = Append(toServer, AskFrame(r))
    /\ UNCHANGED <<presence, dbRows, device, certs, events, toDevice, answering, spreading, finding,
                   past>>

\* requestReed: whoever asks has no copy, whatever its row says.
HandleAsk ==
    /\ toServer # <<>> /\ Head(toServer).is = "ask"
    /\ toServer' = Tail(toServer)
    /\ LET r == CHOOSE x \in Head(toServer).about.reeds : TRUE IN
       IF Alive(r) THEN held' = held \ {r} /\ Await(r) ELSE UNCHANGED <<held, events>>
    /\ UNCHANGED <<presence, tied, lostAbroad, device, certs, toDevice, answering,
                   spreading, finding, past>>

\* A new or missed reed of an author the user follows.
OfferReed(r) ==
    /\ session = "synced" /\ Alive(r) /\ r \notin held
    /\ Await(r)
    /\ UNCHANGED <<presence, dbRows, device, certs, socket, spreading, finding, past>>

\* A holder's copy is passed on, though the reed may have been removed since.
Relayed(i) ==
    /\ i \in DOMAIN waiting
    /\ waiting' = Seqs!RemoveAt(waiting, i)
    /\ toDevice' = Append(toDevice, Told(waiting[i]))
    /\ UNCHANGED <<presence, dbRows, device, certs, minted, toServer, answering, spreading, finding,
                   past>>

QueueEviction(r) ==
    /\ r \in kept \ evictions
    /\ evictions' = evictions \cup {r}
    /\ UNCHANGED <<presence, dbRows, kept, tombstones, certs, events, socket, spreading,
                   finding, past>>

FlushEviction(r) ==
    /\ session # "off" /\ r \in evictions
    /\ Len(toServer) = 0 /\ Evicted(r) \notin InQueue(toDevice)
    /\ toServer' = Append(toServer, Evict(r))
    /\ UNCHANGED <<presence, dbRows, device, certs, events, toDevice, answering, spreading, finding,
                   past>>

\* handleEviction
HandleEvict ==
    /\ toServer # <<>> /\ Head(toServer).is = "evict"
    /\ held' = held \ Head(toServer).about.reeds
    /\ toServer' = Tail(toServer)
    /\ toDevice' = Append(toDevice, Frame("evicted", Head(toServer).about))
    /\ UNCHANGED <<presence, tied, lostAbroad, device, certs, events, answering,
                   spreading, finding, past>>

----------------------------------------------------------------------------
(* The device.                                                             *)

\* storeReed and the handlers of the removals, up to their ack.
Take ==
    LET kind == Head(toDevice).about.kind
        reeds == Head(toDevice).about.reeds IN
    /\ toDevice # <<>> /\ Head(toDevice).is = "told"
    /\ toDevice' = Tail(toDevice)
    /\ answering' = Append(answering, Head(toDevice).about)
    /\ tied' \in IF kind = "data" THEN {tied, TRUE} ELSE {tied}
    /\ kept' = IF kind = "data" THEN kept \cup (reeds \ tombstones)
               ELSE kept \ reeds
    /\ tombstones' = IF kind = "thread_removed" THEN tombstones \cup reeds ELSE tombstones
    /\ due' = IF kind = "data" THEN due ELSE due \ reeds
    /\ UNCHANGED <<presence, lostAbroad, held, evictions, certs, events, toServer, spreading,
                   finding, adrift>>

\* A removal that cannot be verified, for want of a key or a connection, is
\* answered DATA_INVALID and its event dropped.
Refuse ==
    /\ toDevice # <<>> /\ Head(toDevice).is = "told" /\ Head(toDevice).about.kind # "data"
    /\ toDevice' = Tail(toDevice)
    /\ due' = due \ Head(toDevice).about.reeds
    /\ UNCHANGED <<presence, dbRows, device, certs, events, toServer, answering, spreading,
                   finding, adrift>>

TakeEvicted ==
    LET reeds == Head(toDevice).about.reeds IN
    /\ toDevice # <<>> /\ Head(toDevice).is = "evicted"
    /\ toDevice' = Tail(toDevice)
    /\ kept' = kept \ reeds /\ evictions' = evictions \ reeds /\ due' = due \ reeds
    /\ UNCHANGED <<presence, dbRows, tombstones, certs, events, toServer, answering, spreading,
                   finding, adrift>>

\* Handlers wait for the device's storage, and may ack in any order.
SendAck(i) ==
    /\ i \in DOMAIN answering
    /\ answering' = Seqs!RemoveAt(answering, i)
    /\ toServer' = Append(toServer, Ack(answering[i]))
    /\ UNCHANGED <<presence, dbRows, device, certs, events, toDevice, spreading, finding, past>>

----------------------------------------------------------------------------
(* handleDataAck.                                                          *)

AckedFrame == Head(toServer).about
TakesAck(kinds) ==
    /\ toServer # <<>> /\ Head(toServer).is = "ack" /\ AckedFrame.kind \in kinds
    /\ toServer' = Tail(toServer)

\* The row goes with a copy the device has stored again meanwhile.
Overtaken(reeds) == (reeds \cap kept) \ Coming

AllocateReed ==
    /\ TakesAck({"data"})
    /\ held' = held \cup AckedFrame.reeds
    /\ adrift' = adrift \ AckedFrame.reeds
    /\ UNCHANGED <<presence, tied, lostAbroad, device, certs, events, toDevice,
                   answering, spreading, finding, due>>

\* DeleteReedAllocation, DeleteThreadAllocations
DropAllocations ==
    /\ TakesAck({"reed_removed", "thread_removed"})
    /\ held' = held \ AckedFrame.reeds
    /\ adrift' = adrift \cup Overtaken(AckedFrame.reeds) /\ due' = due \ adrift'
    /\ UNCHANGED <<presence, tied, lostAbroad, device, certs, events, toDevice,
                   answering, spreading, finding>>

ClearPeerStateForRemovedAccount ==
    /\ TakesAck({"account_removed"})
    /\ held' = {} /\ tied' = FALSE
    /\ adrift' = adrift \cup Overtaken(Copyable)
    /\ due' = (due \cap RemovedSet) \ adrift'
    /\ UNCHANGED <<presence, lostAbroad, device, certs, events, toDevice, answering,
                   spreading, finding>>

----------------------------------------------------------------------------
(* Removals and how they spread.                                           *)

Removals == Cardinality(reedsGone) + Cardinality(threadsGone) + (IF accountGone THEN 1 ELSE 0)
Spread(kind, reeds) ==
    /\ Removals < MaxRemovals
    /\ spreading' = spreading \cup {<<About(kind, reeds), "listing">>}

RemoveReed(r) ==
    /\ Alive(r)
    /\ reedsGone' = reedsGone \cup {r}
    /\ Spread("reed_removed", {r})
    /\ UNCHANGED <<presence, dbRows, device, threadsGone, accountGone, events, socket, finding,
                   past>>

\* verifyPeerThreadRemoval, of a peer's thread: the certificate names all the
\* parts of a record that itself verifies.
VerifyPeerThreadRemoval(parts) == parts # {} /\ \A r \in parts : Alive(r)

RemoveThread(parts) ==
    /\ VerifyPeerThreadRemoval(parts)
    /\ threadsGone' = threadsGone \cup {parts}
    /\ Spread("thread_removed", parts)
    /\ UNCHANGED <<presence, dbRows, device, reedsGone, accountGone, events, socket, finding, past>>

\* loadAccountCertTx: what is stored of the author, if anything is.
LoadAccountCert == IF accountGone THEN {Copyable} ELSE {}

\* insertAccountRemovalCertTx, once per account (sameAccountRemoval).
InsertAccountRemoval == LoadAccountCert = {} /\ accountGone' = TRUE

DeleteAccount ==
    /\ InsertAccountRemoval
    /\ Spread("account_removed", Copyable)
    /\ UNCHANGED <<presence, dbRows, device, reedsGone, threadsGone, events, socket, finding, past>>

\* Any user online may watch the author's profile or the reed.
ListRecipients(s) ==
    /\ s \in spreading /\ s[2] = "listing" /\ session # "off"
    /\ spreading' = (spreading \ {s}) \cup {<<s[1], "found">>}
    /\ UNCHANGED <<presence, dbRows, device, certs, events, socket, finding, past>>

\* GetOnlineFollowers, OnlineThreadHolders, GetOnlineKeyHolders
Listed(notice) ==
    session # "off" /\ \/ notice.kind = "thread_removed" /\ held \cap notice.reeds # {}
                       \/ notice.kind = "account_removed" /\ tied
PassOver(s) ==
    /\ s \in spreading /\ s[2] = "listing" /\ ~Listed(s[1])
    /\ spreading' = spreading \ {s}
    /\ UNCHANGED <<presence, dbRows, device, certs, events, socket, finding, past>>

\* dispatchRemovalTo, dispatchThreadRemovalTo, dispatchAccountRemovalTo: without
\* a sync request it is left to the catch-up.  Who is on two of the lists is
\* told twice.
DispatchRemovalTo(s) ==
    /\ s \in spreading /\ s[2] = "found"
    /\ IF session = "synced" THEN Tell(<<s[1]>>) ELSE UNCHANGED <<events, toDevice>>
    /\ \/ spreading' = spreading \ {s}
       \/ session = "synced" /\ UNCHANGED spreading
    /\ UNCHANGED <<presence, dbRows, device, certs, toServer, answering, finding, past>>

\* Variant that must fail: only what a follower holds is looked up.
MissingRemovals_OfFollowed == IF tied THEN held \cap reedsGone ELSE {}
\* GetMissingRemovals, GetMissingThreadRemovals
MissingRemovals == held \cap reedsGone
MissingThreads == {parts \in threadsGone : held \cap parts # {}}

\* GetMissingAccountRemovals: the certificate of a peer's user is looked for
\* under a name of this server, and when it is not found nothing is returned.
MissingAccounts == IF tied /\ ~lostAbroad THEN LoadAccountCert ELSE {}

CatchUp ==
    /\ finding # <<>> /\ finding' = Tail(finding)
    /\ Tell(Seqs!SetToSeq(
          CASE Head(finding) = "reeds" -> {About("reed_removed", {r}) : r \in MissingRemovals}
            [] Head(finding) = "threads" -> {About("thread_removed", t) : t \in MissingThreads}
            [] Head(finding) = "accounts" -> {About("account_removed", a) : a \in MissingAccounts}))
    /\ UNCHANGED <<presence, dbRows, device, certs, toServer, answering, spreading, past>>

\* A peer tells of the removal of a user this one follows, while it is away.
PeerUserRemoved ==
    /\ session = "off" /\ visits > 0 /\ ~lostAbroad
    /\ lostAbroad' = TRUE
    /\ UNCHANGED <<presence, tied, held, device, certs, events, socket, spreading,
                   finding, past>>

RemovalsNext ==
    \/ OpenSocket \/ SendSyncRequest \/ LoseSocket \/ Untie
    \/ \E r \in Copyable :
        RequestReed(r) \/ OfferReed(r) \/ QueueEviction(r) \/ FlushEviction(r) \/ RemoveReed(r)
    \/ \E i \in 1 .. MaxNotices : Relayed(i) \/ SendAck(i)
    \/ HandleAsk \/ HandleEvict \/ Take \/ Refuse \/ TakeEvicted
    \/ AllocateReed \/ DropAllocations \/ ClearPeerStateForRemovedAccount
    \/ \E parts \in SUBSET Copyable : RemoveThread(parts)
    \/ DeleteAccount
    \/ \E s \in spreading : ListRecipients(s) \/ PassOver(s) \/ DispatchRemovalTo(s)
    \/ CatchUp \/ PeerUserRemoved

RemovalsSpec == RemovalsInit /\ [][RemovalsNext]_removalVars

----------------------------------------------------------------------------
(* Invariants.                                                             *)

RemovalsTypeOK ==
    /\ session \in {"off", "on", "synced"} /\ visits \in 0 .. MaxVisits
    /\ {tied, lostAbroad, accountGone} \subseteq BOOLEAN
    /\ \A s \in {held, kept, evictions, tombstones, RemovedSet, due, adrift} : s \subseteq Copyable
    /\ minted \in 0 .. MaxNotices /\ {waiting, answering} \subseteq Seq(Notice)
    /\ \A f \in InQueue(toDevice) \cup InQueue(toServer) : f.about \in Notice
    /\ \A s \in spreading : s[1] \in Notice /\ s[2] \in {"listing", "found"}

\* A row is what makes a later removal reach a copy: one goes only when the
\* device has dropped its copy, or is about to, or the row is on its way.
CopyIsListed == kept \subseteq held \cup Coming \cup evictions \cup adrift

\* What was removed before a device synced is off the device once it has
\* heard out the catch-up, or refused to believe it.
DueIsTold == (session = "synced" /\ finding = <<>> /\ toDevice = <<>>) => due = {}

\* Every copy can be called back: the rows that fanouts and catch-ups go by
\* cover the copies devices keep, and the catch-up uses them to the end.
RemovalsHeard == CopyIsListed /\ DueIsTold
=============================================================================
