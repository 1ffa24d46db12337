-------------------------------- MODULE Keys --------------------------------
(***************************************************************************)
(* The keys of one user and who is told that one of them is revoked        *)
(* (AddPublicKey of services.go and handlers.go, admin_rebind.go, GetKey,  *)
(* fanoutKeyRevocation and the catch-up of realtime.go,                    *)
(* KeyRevocationFromPeer of federation_relay.go).                          *)
(*                                                                         *)
(* A client never asks again for a key it has cached, so the server keeps  *)
(* in public_key_allocations who was served which key, and owes each of    *)
(* them its revocation: pushed if they are online, sent on their next sync *)
(* if not.  A user of a peer gets the key through their own server, which  *)
(* keeps the allocation and hears of the revocation through the queue.     *)
(***************************************************************************)
EXTENDS Naturals, FiniteSets

CONSTANTS
    KeyViewers,     \* users who may cache keys (model values)
    Remote,         \* those on the peer server
    Evicters,       \* BOUND: those who delete a cached key again
    MaxKeys,        \* BOUND: keys the owner gets, numbered as they are registered
    Fetched,        \* BOUND: those of them that viewers fetch
    MaxEngaged,     \* BOUND: viewers with a socket, a fetch or a key at a time
    MaxFrames       \* BOUND: KEY_EVICTION frames of one key on one socket

Keys == 1 .. MaxKeys

ASSUME KeysAssumption ==
    /\ Remote \subseteq KeyViewers /\ Evicters \subseteq KeyViewers
    /\ MaxKeys \in Nat \ {0} /\ Fetched \subseteq Keys
    /\ MaxEngaged \in Nat /\ MaxFrames \in Nat

Pair == KeyViewers \X Fetched
Ends == {"home", "peer"}
EndOf(v) == IF v \in Remote THEN "peer" ELSE "home"

KeyRow == [state : {"none", "active", "revoked"}, successor : Keys \cup {0}, restricted : BOOLEAN]
NoKeyRow == [state |-> "none", successor |-> 0, restricted |-> FALSE]
NoFetch == [key |-> 0, step |-> "idle", revoked |-> FALSE]

VARIABLES
    keyRow,         \* the home server's public_keys joined with public_key_revocations
    activeKey,      \* users.active_key_id
    aged,           \* keys registered more than keyRotationCooldown ago
    keyOwed,        \* key-revocation events the home server has queued for the peer
    noticed,        \* those of them the peer has handled and not yet answered
    keyAlloc,       \* public_key_allocations of both servers
    flagged,        \* the rows of them with revoked set
    toFanOut,          \* revocations a server has yet to fan out
    fanning,        \* fanouts under way: [at, key, left], left the holders read and not reached
    inSync,         \* viewers with a socket and a sync_request_id
    catching,       \* those whose catch-up has not come to the keys
    pushed,         \* KEY_REVOKED on a viewer's socket, its event dispatched
    acked,          \* DATA_ACKs of such events on their way
    keyFetch,       \* a viewer's GET /keys/{id}
    cached,         \* what a client has of a key: nothing, the key, or the key marked revoked
    evicting,       \* keys a client has queued to delete
    evictWait,      \* those whose ack it waits for
    evictFrames,    \* KEY_EVICTION frames on their way
    evictAcks,      \* KEY_EVICTION_ACKs on their way
    untold,       \* history: pairs a race left with a key nobody will say is revoked
    unpushed        \* history: pairs that get the revocation no sooner than the next sync

keyVars == <<keyRow, activeKey, aged, keyOwed, noticed, keyAlloc, flagged, toFanOut, fanning, inSync,
             catching, pushed, acked, keyFetch, cached, evicting, evictWait, evictFrames,
             evictAcks, untold, unpushed>>
chainVars == <<keyRow, activeKey, aged>>
tellVars == <<keyOwed, noticed, toFanOut, fanning>>
socketVars == <<inSync, catching, pushed, acked>>
evictVars == <<evicting, evictWait, evictFrames, evictAcks>>

KeysInit ==
    /\ keyRow = [k \in Keys |-> IF k = 1 THEN [NoKeyRow EXCEPT !.state = "active"] ELSE NoKeyRow]
    /\ activeKey = 1
    /\ aged = {}
    /\ keyOwed = {} /\ noticed = {}
    /\ keyAlloc = {} /\ flagged = {}
    /\ toFanOut = {} /\ fanning = {}
    /\ inSync = {} /\ catching = {} /\ pushed = {} /\ acked = {}
    /\ keyFetch = [v \in KeyViewers |-> NoFetch]
    /\ cached = [p \in Pair |-> "none"]
    /\ evicting = {} /\ evictWait = {} /\ evictAcks = {}
    /\ evictFrames = [p \in Pair |-> 0]
    /\ untold = {} /\ unpushed = {}

----------------------------------------------------------------------------
(* The chain of keys, at home.  A rotation and a rebind lock the owner's   *)
(* rows from their first look to their commit.                             *)

Unregistered(k) == keyRow[k].state = "none" /\ \A j \in 1 .. k - 1 : keyRow[j].state # "none"
Revoked(k) == keyRow[k].state = "revoked"

\* The predecessor is revoked in the transaction that registers its successor.
Replace(pred, new, restricted) ==
    /\ keyRow' = [keyRow EXCEPT ![pred].state = "revoked", ![pred].successor = new,
                                ![new] = [NoKeyRow EXCEPT !.state = "active", !.restricted = restricted]]
    /\ activeKey' = new
    /\ toFanOut' = toFanOut \cup {<<"home", pred>>}
    /\ UNCHANGED <<aged, noticed, keyAlloc, flagged, fanning, socketVars, keyFetch, cached, evictVars,
                   untold, unpushed>>

\* enqueuePeerEventTx
OweRevocation(k) == keyOwed \cup {k}

\* A key rotates once a day unless it was bound by a rebind, and only once: with
\* another key active, or the predecessor already replaced, all is rolled back.
MayRotate(pred) ==
    /\ keyRow[pred].state # "none"
    /\ pred \in aged \/ keyRow[pred].restricted
    /\ keyRow[pred].successor = 0
    /\ \A k \in Keys \ {pred} : keyRow[k].state # "active"

\* AddPublicKey
RotateKey(pred, new) ==
    /\ Unregistered(new) /\ MayRotate(pred)
    /\ keyOwed' = IF Revoked(pred) THEN keyOwed ELSE OweRevocation(pred)
    /\ Replace(pred, new, FALSE)

\* rebindExecutor: two admins revoke the active key as lost and bind another,
\* which is good for rotating only.
Rebind(new) ==
    /\ Unregistered(new)
    /\ keyOwed' = OweRevocation(activeKey)
    /\ Replace(activeKey, new, TRUE)

\* A day passes since the server countersigned a key.
Age(k) ==
    /\ keyRow[k].state = "active" /\ k \notin aged /\ k < MaxKeys
    /\ aged' = aged \cup {k}
    /\ UNCHANGED <<keyRow, activeKey, tellVars, keyAlloc, flagged, socketVars, keyFetch, cached,
                   evictVars, untold, unpushed>>

----------------------------------------------------------------------------
(* Fetching a key.                                                         *)

Engaged(v) ==
    v \in inSync \/ keyFetch[v] # NoFetch \/ \E k \in Fetched : cached[<<v, k>>] # "none" \/ <<v, k>> \in keyAlloc
MayEngage(v) == Engaged(v) \/ Cardinality({w \in KeyViewers : Engaged(w)}) < MaxEngaged

\* GetPublicKey: the row, with what public_key_revocations says of it.
GetPublicKey(k) == {[key |-> j, revoked |-> Revoked(j)] : j \in {k} \cap {i \in Keys : keyRow[i].state # "none"}}

\* GetKey at the home server, straight or through the viewer's own server: the
\* key is read, and a revoked one is not allocated.
GetKey(v, k) ==
    /\ MayEngage(v)
    /\ keyFetch[v] = NoFetch
    /\ cached[<<v, k>>] = "none"
    /\ \E served \in GetPublicKey(k) :
           keyFetch' = [keyFetch EXCEPT ![v] =
               [key |-> k, step |-> IF served.revoked THEN "answered" ELSE "read",
                revoked |-> served.revoked]]
    /\ UNCHANGED <<chainVars, tellVars, keyAlloc, flagged, socketVars, cached, evictVars,
                   untold, unpushed>>

\* allocateServedKey, some time after the read: proxyKeyToForeign has the key
\* travel and be verified in between.
AllocateServedKey(v) ==
    LET k == keyFetch[v].key IN
    /\ keyFetch[v].step = "read"
    /\ keyAlloc' = keyAlloc \cup {<<v, k>>}
    /\ keyFetch' = [keyFetch EXCEPT ![v].step = "answered"]
    /\ untold' = IF v \in Remote /\ Revoked(k) /\ k \notin keyOwed /\ <<v, k>> \notin flagged
                  THEN untold \cup {<<v, k>>} ELSE untold
    /\ unpushed' = IF Revoked(k) THEN unpushed \cup {<<v, k>>} ELSE unpushed
    /\ UNCHANGED <<chainVars, tellVars, flagged, socketVars, cached, evictVars>>

KeyArrives(v) ==
    LET k == keyFetch[v].key IN
    /\ keyFetch[v].step = "answered"
    /\ cached' = [cached EXCEPT ![<<v, k>>] = IF keyFetch[v].revoked THEN "revoked" ELSE "good"]
    /\ keyFetch' = [keyFetch EXCEPT ![v] = NoFetch]
    /\ UNCHANGED <<chainVars, tellVars, keyAlloc, flagged, socketVars, evictVars, untold, unpushed>>

\* The request is given up on.
FetchFails(v) ==
    /\ keyFetch[v] # NoFetch
    /\ keyFetch' = [keyFetch EXCEPT ![v] = NoFetch]
    /\ UNCHANGED <<chainVars, tellVars, keyAlloc, flagged, socketVars, cached, evictVars,
                   untold, unpushed>>

----------------------------------------------------------------------------
(* Telling the peer.                                                       *)

\* Variant that must fail: only the pushes are made, and no row is flagged.
MarkAllocatedKeyRevoked_Not(k) == flagged
MarkAllocatedKeyRevoked(k) == flagged \cup {p \in keyAlloc : p[1] \in Remote /\ p[2] = k}

\* verifyPeerKeyRevocation: signed by the key it revokes, or by the admins who
\* rebound the user, and countersigned at home.
VerifyPeerKeyRevocation(k) == Revoked(k)

\* KeyRevocationFromPeer
KeyRevocationFromPeer(k) ==
    /\ k \in keyOwed \ noticed
    /\ VerifyPeerKeyRevocation(k)
    /\ noticed' = noticed \cup {k}
    /\ flagged' = MarkAllocatedKeyRevoked(k)
    /\ toFanOut' = toFanOut \cup {<<"peer", k>>}
    /\ UNCHANGED <<chainVars, keyOwed, keyAlloc, fanning, socketVars, keyFetch, cached, evictVars,
                   untold, unpushed>>

\* The answer settles the event; what was allocated since then is never flagged.
NoticeSettled(k) ==
    /\ k \in noticed
    /\ noticed' = noticed \ {k} /\ keyOwed' = keyOwed \ {k}
    /\ untold' = untold \cup {p \in keyAlloc \ flagged : p[1] \in Remote /\ p[2] = k}
    /\ UNCHANGED <<chainVars, keyAlloc, flagged, toFanOut, fanning, socketVars, keyFetch, cached,
                   evictVars, unpushed>>

\* The answer is lost: the event is sent again.
NoticeLost(k) ==
    /\ k \in noticed
    /\ noticed' = noticed \ {k}
    /\ UNCHANGED <<chainVars, keyOwed, keyAlloc, flagged, toFanOut, fanning, socketVars, keyFetch, cached,
                   evictVars, untold, unpushed>>

----------------------------------------------------------------------------
(* Telling the viewers.                                                    *)

\* fanoutKeyRevocation: PublicKeyHolders of the server that fans out.
FanoutKeyRevocation(at, k) ==
    LET holders == {v \in KeyViewers : EndOf(v) = at /\ <<v, k>> \in keyAlloc} IN
    /\ <<at, k>> \in toFanOut
    /\ toFanOut' = toFanOut \ {<<at, k>>}
    /\ fanning' = IF holders = {} THEN fanning
                  ELSE fanning \cup {[at |-> at, key |-> k, left |-> holders]}
    /\ UNCHANGED <<chainVars, keyOwed, noticed, keyAlloc, flagged, socketVars, keyFetch, cached,
                   evictVars, untold, unpushed>>

\* dispatchKeyRevoked, to those with a sync_request_id.
FanTo(f, v) ==
    /\ f \in fanning /\ v \in f.left
    /\ fanning' = (fanning \ {f}) \cup
            (IF f.left = {v} THEN {} ELSE {[f EXCEPT !.left = @ \ {v}]})
    /\ pushed' = IF v \in inSync THEN pushed \cup {<<v, f.key>>} ELSE pushed
    /\ UNCHANGED <<chainVars, keyOwed, noticed, toFanOut, keyAlloc, flagged, inSync, catching, acked,
                   keyFetch, cached, evictVars, untold, unpushed>>
\* A viewer connects and handleSyncRequest gives them a sync_request_id.
SyncRequest(v) ==
    /\ v \notin inSync /\ MayEngage(v)
    /\ inSync' = inSync \cup {v} /\ catching' = catching \cup {v}
    /\ UNCHANGED <<chainVars, tellVars, keyAlloc, flagged, pushed, acked, keyFetch, cached, evictVars,
                   untold, unpushed>>

\* GetMissingKeyRevocations: the server has the revocations of its own users'
\* keys, and of a foreign key only the flag.
MissingRevocations(v) ==
    {k \in Fetched : <<v, k>> \in keyAlloc /\ (<<v, k>> \in flagged \/ (v \notin Remote /\ Revoked(k)))}

\* GetKeyRevocation, asked by a client or by the server of one.
GetKeyRevocation(k) == {k} \cap {j \in Keys : Revoked(j)}

\* fetchForeignKeyRevocation: asks the home server, unless the call fails.
FetchForeignKeyRevocation(k, failing) == IF k \in failing THEN {} ELSE GetKeyRevocation(k)

\* The last part of catchUp.  A local key's revocation is read
\* (loadKeyRevocation), and that is taken not to fail.
CatchUpKeys(v, failing) ==
    /\ v \in catching
    /\ failing \subseteq MissingRevocations(v) /\ (failing # {} => v \in Remote)
    /\ catching' = catching \ {v}
    /\ pushed' = pushed \cup
           {<<v, k>> : k \in UNION {FetchForeignKeyRevocation(j, failing) : j \in MissingRevocations(v)}}
    /\ unpushed' = (unpushed \ {<<v, k>> : k \in MissingRevocations(v)}) \cup {<<v, k>> : k \in failing}
    /\ UNCHANGED <<chainVars, tellVars, keyAlloc, flagged, inSync, acked, keyFetch, cached, evictVars,
                   untold>>

\* The client applies the revocation and acks it; a key that is still to arrive
\* it stores unmarked.
ApplyKeyRevocation(v, k) ==
    /\ <<v, k>> \in pushed
    /\ pushed' = pushed \ {<<v, k>>} /\ acked' = acked \cup {<<v, k>>}
    /\ cached' = [cached EXCEPT ![<<v, k>>] = IF @ = "good" THEN "revoked" ELSE @]
    /\ untold' = IF keyFetch[v].key = k /\ ~keyFetch[v].revoked
                  THEN untold \cup {<<v, k>>} ELSE untold
    /\ UNCHANGED <<chainVars, tellVars, keyAlloc, flagged, inSync, catching, keyFetch, evictVars,
                   unpushed>>

\* handleDataAck of a key_revoked event.
AckKeyRevoked(v, k) ==
    /\ <<v, k>> \in acked
    /\ acked' = acked \ {<<v, k>>}
    /\ keyAlloc' = keyAlloc \ {<<v, k>>} /\ flagged' = flagged \ {<<v, k>>}
    /\ UNCHANGED <<chainVars, tellVars, inSync, catching, pushed, keyFetch, cached, evictVars,
                   untold, unpushed>>

\* The socket closes: its frames and its pending events go.
GoOffline(vs) ==
    /\ inSync' = inSync \ vs /\ catching' = catching \ vs
    /\ pushed' = {p \in pushed : p[1] \notin vs} /\ acked' = {p \in acked : p[1] \notin vs}
    /\ evictWait' = {p \in evictWait : p[1] \notin vs}
    /\ evictAcks' = {p \in evictAcks : p[1] \notin vs}
    /\ evictFrames' = [p \in Pair |-> IF p[1] \in vs THEN 0 ELSE evictFrames[p]]

DisconnectViewer(v) ==
    /\ v \in inSync
    /\ GoOffline({v})
    /\ UNCHANGED <<chainVars, tellVars, keyAlloc, flagged, keyFetch, cached, evicting, untold, unpushed>>

\* A server stops with what it had yet to fan out.
ServerStops(at) ==
    /\ GoOffline({v \in KeyViewers : EndOf(v) = at})
    /\ toFanOut' = {m \in toFanOut : m[1] # at}
    /\ fanning' = {f \in fanning : f.at # at}
    /\ noticed' = {}
    /\ keyFetch' = [v \in KeyViewers |-> IF EndOf(v) = at THEN NoFetch ELSE keyFetch[v]]
    /\ UNCHANGED <<chainVars, keyOwed, keyAlloc, flagged, cached, evicting, untold, unpushed>>

----------------------------------------------------------------------------
(* Deleting a cached key.                                                  *)

EvictKey(v, k) ==
    /\ v \in Evicters
    /\ cached[<<v, k>>] # "none" /\ <<v, k>> \notin evicting
    /\ evicting' = evicting \cup {<<v, k>>}
    /\ UNCHANGED <<chainVars, tellVars, keyAlloc, flagged, socketVars, keyFetch, cached,
                   evictWait, evictFrames, evictAcks, untold, unpushed>>

\* syncPendingEvictions: a queued key is announced, and again after a timeout.
SendEviction(v, k) ==
    /\ v \in inSync /\ <<v, k>> \in evicting \ evictWait
    /\ evictFrames[<<v, k>>] < MaxFrames
    /\ evictWait' = evictWait \cup {<<v, k>>}
    /\ evictFrames' = [evictFrames EXCEPT ![<<v, k>>] = @ + 1]
    /\ UNCHANGED <<chainVars, tellVars, keyAlloc, flagged, socketVars, keyFetch, cached, evicting,
                   evictAcks, untold, unpushed>>
EvictionTimeout(v, k) ==
    /\ <<v, k>> \in evictWait
    /\ evictWait' = evictWait \ {<<v, k>>}
    /\ UNCHANGED <<chainVars, tellVars, keyAlloc, flagged, socketVars, keyFetch, cached, evicting,
                   evictFrames, evictAcks, untold, unpushed>>

\* handleKeyEviction: acks unconditionally.  A frame that was sent again may
\* come after the key was deleted and fetched anew.
HandleKeyEviction(v, k) ==
    /\ evictFrames[<<v, k>>] > 0
    /\ evictFrames' = [evictFrames EXCEPT ![<<v, k>>] = @ - 1]
    /\ keyAlloc' = keyAlloc \ {<<v, k>>} /\ flagged' = flagged \ {<<v, k>>}
    /\ evictAcks' = evictAcks \cup {<<v, k>>}
    /\ untold' = IF <<v, k>> \in keyAlloc \ evicting THEN untold \cup {<<v, k>>} ELSE untold
    /\ UNCHANGED <<chainVars, tellVars, socketVars, keyFetch, cached, evicting, evictWait, unpushed>>

\* settleEviction: an ack nobody waits for is ignored.
EvictionAck(v, k) ==
    /\ <<v, k>> \in evictAcks
    /\ evictAcks' = evictAcks \ {<<v, k>>}
    /\ IF <<v, k>> \in evictWait
       THEN /\ cached' = [cached EXCEPT ![<<v, k>>] = "none"]
            /\ evicting' = evicting \ {<<v, k>>} /\ evictWait' = evictWait \ {<<v, k>>}
            /\ untold' = untold \ {<<v, k>>} /\ unpushed' = unpushed \ {<<v, k>>}
       ELSE UNCHANGED <<cached, evicting, evictWait, untold, unpushed>>
    /\ UNCHANGED <<chainVars, tellVars, keyAlloc, flagged, socketVars, keyFetch, evictFrames>>

KeysNext ==
    \/ \E new \in Keys : Rebind(new) \/ \E pred \in Keys : RotateKey(pred, new)
    \/ \E k \in Keys : Age(k) \/ KeyRevocationFromPeer(k) \/ NoticeSettled(k) \/ NoticeLost(k)
    \/ \E v \in KeyViewers :
        \/ AllocateServedKey(v) \/ KeyArrives(v) \/ FetchFails(v)
        \/ SyncRequest(v) \/ DisconnectViewer(v)
        \/ \E failing \in SUBSET Fetched : CatchUpKeys(v, failing)
        \/ \E k \in Fetched :
            \/ GetKey(v, k) \/ ApplyKeyRevocation(v, k) \/ AckKeyRevoked(v, k)
            \/ EvictKey(v, k) \/ SendEviction(v, k) \/ EvictionTimeout(v, k)
            \/ HandleKeyEviction(v, k) \/ EvictionAck(v, k)
    \/ \E at \in Ends : ServerStops(at) \/ \E k \in Keys : FanoutKeyRevocation(at, k)
    \/ \E f \in fanning : \E v \in f.left : FanTo(f, v)

KeysSpec == KeysInit /\ [][KeysNext]_keyVars

----------------------------------------------------------------------------
(* Invariants.                                                             *)

KeysTypeOK ==
    /\ keyRow \in [Keys -> KeyRow] /\ activeKey \in Keys /\ aged \subseteq Keys
    /\ keyOwed \subseteq Keys /\ noticed \subseteq Keys
    /\ keyAlloc \subseteq Pair /\ flagged \subseteq keyAlloc
    /\ toFanOut \subseteq Ends \X Keys
    /\ fanning \subseteq [at : Ends, key : Keys, left : SUBSET KeyViewers]
    /\ inSync \subseteq KeyViewers /\ catching \subseteq inSync
    /\ pushed \subseteq Pair /\ acked \subseteq Pair
    /\ keyFetch \in [KeyViewers ->
            [key : 0 .. MaxKeys, step : {"idle", "read", "answered"}, revoked : BOOLEAN]]
    /\ cached \in [Pair -> {"none", "good", "revoked"}]
    /\ evicting \subseteq Pair /\ evictWait \subseteq evicting
    /\ evictFrames \in [Pair -> 0 .. MaxFrames] /\ evictAcks \subseteq Pair
    /\ untold \subseteq Pair /\ unpushed \subseteq Pair

\* Who caches a revoked key unmarked is still on the list of those to be told,
\* and the server that keeps their list knows of the revocation or is owed it.
StaleIsOwed ==
    \A p \in Pair : (cached[p] = "good" /\ Revoked(p[2]) /\ p \notin evicting \cup untold) =>
        /\ p \in keyAlloc
        /\ p[1] \in Remote => (p \in flagged \/ p[2] \in keyOwed)

\* A viewer in sync has the revocation on its socket or will: a fanout or the
\* catch-up has yet to come to it.
ToBePushed(p) ==
    \/ p \in pushed
    \/ p[1] \in catching
    \/ <<EndOf(p[1]), p[2]>> \in toFanOut
    \/ \E f \in fanning : f.at = EndOf(p[1]) /\ f.key = p[2] /\ p[1] \in f.left
    \/ p[1] \in Remote /\ p[2] \in keyOwed \ noticed

\* keyRevocation.ts relies on it: "a cached key is never re-checked", so a key
\* that is revoked and cached unmarked is one whose revocation is on its way or
\* owed at the next sync, but for the pairs a race has left out.
RevocationOwed ==
    /\ StaleIsOwed
    /\ \A p \in keyAlloc \ (unpushed \cup untold \cup acked) :
        (cached[p] = "good" /\ Revoked(p[2]) /\ p[1] \in inSync /\ p \notin evicting) => ToBePushed(p)
=============================================================================
