----------------------------- MODULE PeerQueue -----------------------------
(***************************************************************************)
(* What one server owes one peer, and how it gets there                    *)
(* (src/src/backend/peer_event_queue.go, federation_delivery.go), for the  *)
(* events whose payload is a pair's current state: follows of the peer's   *)
(* users (follows.go).  This server holds the follower, the peer the       *)
(* followee; each keeps its own certificate of the pair.                   *)
(*                                                                         *)
(* Three kinds of goroutines interleave: the handlers of FollowUser and    *)
(* UnfollowUser, which offer a follow to the peer before they store it;    *)
(* the drains of the queue; and the peer's handlers of the calls both      *)
(* make, which go on when the caller has given up.  Every SYNC of a        *)
(* client, every enqueue and a peer's boot notice start a drain, so a      *)
(* drain may start at any time (ClaimPeerEvents).                          *)
(***************************************************************************)
EXTENDS Naturals, FiniteSets

CONSTANTS
    Pairs,          \* pairs of a follower here and a followee there
    Handlers,       \* goroutines that handle follow requests
    Drains,         \* goroutines that drain the queue
    Nobody,         \* the caller of a call that was given up on
    MaxSecond,      \* BOUND: seconds the clock shows
    MaxRow,         \* BOUND: ids of peer_event_queue
    MaxCrashes,     \* BOUND: times this server's process dies
    MaxLate,        \* BOUND: calls given up on that the peer still handles
    Failing,        \* BOUND: may callers give up
    Going,          \* BOUND: may the peer announce that it shuts down
    Blocking        \* BOUND: pairs whose followee may block the follower

ASSUME PeerQueueAssumption ==
    /\ Handlers \cap Drains = {}
    /\ Nobody \notin Handlers \cup Drains
    /\ MaxSecond \in Nat \ {0}
    /\ MaxRow \in Nat
    /\ MaxCrashes \in Nat
    /\ MaxLate \in Nat
    /\ Failing \in BOOLEAN
    /\ Going \in BOOLEAN
    /\ Blocking \subseteq Pairs

\* Certificates by the second they were countersigned in; NoCert is no row.
Seconds == 1 .. MaxSecond
Cert == [follow : BOOLEAN, at : Seconds]
NoCert == [follow |-> FALSE, at |-> 0]
Stored == Cert \cup {NoCert}

Rows == 1 .. MaxRow

Idle == [pc |-> "idle"]

\* How far saveFollowCertTx got: its read is still to come; the row it waited
\* for was replaced, so that its read finds none; it read an older row and
\* holds the row's lock; it found no row, and holds nothing.
SaveStages == {"save", "missed", "locks", "blind"}

\* A request handler: waiting for the peer's answer, or storing cert.
Handler == [pc : {"offer"}, p : Pairs, cert : Cert]
           \cup [pc : SaveStages, p : Pairs, cert : Cert, owe : BOOLEAN]

\* A drain: about to read the next row, with a row and (from "call" on) the
\* certificate it sends, or about to release its claim.
Drain == [pc : {"next", "release"}]
         \cup [pc : {"build", "gone"}, p : Pairs, row : Rows]
         \cup [pc : {"call", "refused", "answered"}, p : Pairs, row : Rows, cert : Cert]
         \cup [pc : {"settled"}, p : Pairs]

\* A call of follow-notify under way: the peer has yet to look for a block, or
\* is storing the certificate.
Call == [by : Handlers \cup Drains \cup {Nobody}, p : Pairs, cert : Cert,
         stage : SaveStages \cup {"sent"}]

VARIABLES
    second,   \* the clock, in the seconds signed_at is truncated to
    cert,     \* follow_certs here; the edge user_following is cert[p].follow
    queue,    \* peer_event_queue: id of the pair's row, 0 for none
    nextRow,  \* the next id
    claimed,  \* server_mesh.delivery_claimed_at is set and under a minute old
    down,     \* server_mesh.down_at is set
    known,    \* user_blocks here: pairs whose block this server knows
    crashes,  \* how often the process died
    handler,  \* FollowUser and UnfollowUser in progress
    drain,    \* drainPeerEventsWith in progress
    calls,    \* calls of follow-notify the peer has yet to handle
    there,    \* follow_certs of the peer; the edge user_followers is there[p].follow
    unacked,  \* follow_event_queue of the peer: pairs its client has not acked
    blocked,  \* user_blocks of the peer
    heard,    \* history: second of the newest certificate of the pair the peer has handled
    muddled   \* history: pairs on which the servers may come to differ (see AgreeUnlessMuddled)

here == <<cert, queue, nextRow, claimed, down, known>>
peer == <<there, unacked, blocked>>
vars == <<second, here, crashes, handler, drain, calls, peer, heard, muddled>>

----------------------------------------------------------------------------
(* The statements both servers run on a pair.                              *)

\* saveFollowCertTx: a certificate counts unless one of its age is held.
Supersedes(c, held) == c.at > held.at

\* dropSettledUnfollowTx: an unfollow nobody is owed any more is not kept.
Kept(c, owed) == IF ~c.follow /\ ~owed THEN NoCert ELSE c

\* Variant that must fail: a pair already waiting keeps its place.
Enqueue_DoNothing(p) ==
    /\ nextRow \in Rows
    /\ queue' = [queue EXCEPT ![p] = IF @ = 0 THEN nextRow ELSE @]
    /\ nextRow' = nextRow + 1

\* enqueuePeerEventForTx: a pair already waiting moves to the back, under a
\* new id.
Enqueue(p) ==
    /\ nextRow \in Rows
    /\ queue' = [queue EXCEPT ![p] = nextRow]
    /\ nextRow' = nextRow + 1

Oldest(p) == queue[p] # 0 /\ \A q \in Pairs : queue[q] # 0 => queue[p] <= queue[q]

----------------------------------------------------------------------------
Init ==
    /\ second = 1
    /\ cert = [p \in Pairs |-> NoCert]
    /\ queue = [p \in Pairs |-> 0]
    /\ nextRow = 1
    /\ claimed = FALSE
    /\ down = FALSE
    /\ known = {}
    /\ crashes = 0
    /\ handler = [h \in Handlers |-> Idle]
    /\ drain = [d \in Drains |-> Idle]
    /\ calls = {}
    /\ there = [p \in Pairs |-> NoCert]
    /\ unacked = {}
    /\ blocked = {}
    /\ heard = [p \in Pairs |-> 0]
    /\ muddled = {}

Tick ==
    /\ second < MaxSecond
    /\ second' = second + 1
    /\ UNCHANGED <<here, crashes, handler, drain, calls, peer, heard, muddled>>

\* Only a follow is looked up for a block (FollowNotifyFromPeer).
CallOf(g, p, c) == [by |-> g, p |-> p, cert |-> c, stage |-> IF c.follow THEN "sent" ELSE "save"]

\* Variant that must fail: the read does not ask for the row's lock.
LockedThere_Never(p) == FALSE

\* FOR UPDATE: a transaction here, or one at the peer, holds the pair's row.
LockedHere(p) == \E h \in Handlers : handler[h].pc = "locks" /\ handler[h].p = p
LockedThere(p) == \E k \in calls : k.stage = "locks" /\ k.p = p

----------------------------------------------------------------------------
(* signFollow.                                                             *)

\* A request for the pair is handled already, or one of this second was.
Overlaps(p) ==
    \/ second \in {cert[p].at, heard[p]}
    \/ \E h \in Handlers : handler[h].pc # "idle" /\ handler[h].p = p

\* FollowUser (follow) and UnfollowUser: the certificate is countersigned now.
\* A follow is first offered to the peer (sendFollowNotice), an unfollow is owed.
signFollow(h, p, follow) ==
    /\ handler[h].pc = "idle"
    /\ LET c == [follow |-> follow, at |-> second] IN
       IF follow
       THEN /\ handler' = [handler EXCEPT ![h] = [pc |-> "offer", p |-> p, cert |-> c]]
            /\ calls' = calls \cup {CallOf(h, p, c)}
       ELSE /\ handler' = [handler EXCEPT ![h] = [pc |-> "save", p |-> p, cert |-> c, owe |-> TRUE]]
            /\ UNCHANGED calls
    /\ muddled' = IF Overlaps(p) THEN muddled \cup {p} ELSE muddled
    /\ UNCHANGED <<second, here, crashes, drain, peer, heard>>

\* SaveFollowCert is one transaction, which reads the pair's row FOR UPDATE and
\* then stores the certificate whatever is held by then.  A row that is there
\* is locked until the transaction ends; where there is none nothing is.
SaveReads(h) ==
    /\ handler[h].pc \in {"save", "missed"}
    /\ LET o == handler[h] IN
       /\ ~LockedHere(o.p)
       /\ o.pc = "save" => Supersedes(o.cert, cert[o.p])
       /\ handler' = [handler EXCEPT ![h].pc = IF cert[o.p] = NoCert THEN "blind" ELSE "locks"]
    /\ UNCHANGED <<second, here, crashes, drain, calls, peer, heard, muddled>>

\* A certificate no newer than the one held is not stored: applied is false,
\* and the handler answers 200 all the same.
SaveSkips(h) ==
    /\ handler[h].pc = "save"
    /\ ~LockedHere(handler[h].p)
    /\ ~Supersedes(handler[h].cert, cert[handler[h].p])
    /\ handler' = [handler EXCEPT ![h] = Idle]
    /\ UNCHANGED <<second, here, crashes, drain, calls, peer, heard, muddled>>

\* The upsert, what is owed and the commit.  Transactions that wait for the
\* row this one replaces find none (READ COMMITTED joins the row again to the
\* signature it had).
SaveFollowCert(h) ==
    /\ handler[h].pc \in {"locks", "blind"}
    /\ LET o == handler[h] IN
       /\ o.pc = "blind" => ~LockedHere(o.p)
       /\ IF o.owe THEN Enqueue(o.p) ELSE UNCHANGED <<queue, nextRow>>
       /\ cert' = [cert EXCEPT ![o.p] = Kept(o.cert, o.owe \/ queue[o.p] # 0)]
       /\ \E W \in SUBSET {g \in Handlers : /\ cert[o.p] # NoCert
                                            /\ handler[g].pc = "save" /\ handler[g].p = o.p} :
             handler' = [g \in Handlers |-> IF g = h THEN Idle
                                            ELSE IF g \in W THEN [handler[g] EXCEPT !.pc = "missed"]
                                            ELSE handler[g]]
    /\ UNCHANGED <<second, claimed, down, known, crashes, drain, calls, peer, heard, muddled>>

----------------------------------------------------------------------------
(* Calls of follow-notify: FollowNotifyFromPeer at the peer, and what the  *)
(* answer does to the caller.                                              *)

\* The caller goes on: a handler as h, a drain as d.
Resume(k, h, d) ==
    /\ handler' = IF k.by \in Handlers THEN [handler EXCEPT ![k.by] = h] ELSE handler
    /\ drain' = IF k.by \in Drains THEN [drain EXCEPT ![k.by] = d] ELSE drain

Later(a, b) == IF a < b THEN b ELSE a

\* refuseBlockedRequester: the peer looks for a block before it takes a follow.
PeerPasses(k) ==
    /\ k.stage = "sent"
    /\ k.p \notin blocked
    /\ calls' = (calls \ {k}) \cup {[k EXCEPT !.stage = "save"]}
    /\ UNCHANGED <<second, here, crashes, handler, drain, peer, heard, muddled>>

\* saveFollowCertTx at the peer reads the pair's row, as SaveReads does here.
\* One whose read missed the row goes on even when the row is newer.
PeerReads(k) ==
    /\ k.stage \in {"save", "missed"}
    /\ ~LockedThere(k.p)
    /\ k.stage = "save" => Supersedes(k.cert, there[k.p])
    /\ calls' = (calls \ {k})
                \cup {[k EXCEPT !.stage = IF there[k.p] = NoCert THEN "blind" ELSE "locks"]}
    /\ muddled' = IF k.stage = "missed" /\ k.cert.at < heard[k.p] THEN muddled \cup {k.p} ELSE muddled
    /\ UNCHANGED <<second, here, crashes, handler, drain, peer, heard>>

\* The peer has handled the call: 2xx, so that a handler need not owe the
\* certificate and a drain is done with its row.
PeerAnswers(k) ==
    /\ heard' = [heard EXCEPT ![k.p] = Later(@, k.cert.at)]
    /\ Resume(k, [pc |-> "save", p |-> k.p, cert |-> k.cert, owe |-> FALSE],
              [drain[k.by] EXCEPT !.pc = "answered"])
    /\ UNCHANGED <<second, here, crashes, blocked>>

\* A certificate no newer than the one held changes nothing.
PeerSkips(k) ==
    /\ k.stage = "save"
    /\ ~LockedThere(k.p)
    /\ ~Supersedes(k.cert, there[k.p])
    /\ calls' = calls \ {k}
    /\ PeerAnswers(k)
    /\ UNCHANGED <<there, unacked, muddled>>

\* The upsert, the event for the followee and the commit.  One that saw no row
\* may have been overtaken by a newer certificate.
PeerTakes(k) ==
    /\ k.stage \in {"locks", "blind"}
    /\ k.stage = "blind" => ~LockedThere(k.p)
    /\ there' = [there EXCEPT ![k.p] = Kept(k.cert, TRUE)]
    /\ unacked' = unacked \cup {k.p}
    /\ muddled' = IF k.stage = "blind" /\ k.cert.at < heard[k.p] THEN muddled \cup {k.p} ELSE muddled
    /\ \E W \in SUBSET {l \in calls : there[k.p] # NoCert /\ l.stage = "save" /\ l.p = k.p} :
          calls' = (calls \ (W \cup {k})) \cup {[l EXCEPT !.stage = "missed"] : l \in W}
    /\ PeerAnswers(k)

\* acceptForeignBlock: a block that is news takes the pair's certificate with
\* it, whichever that is by now (applyBlockEffectsTx).
AcceptBlock(p) ==
    /\ p \notin known => ~LockedHere(p)
    /\ known' = known \cup {p}
    /\ cert' = IF p \in known THEN cert ELSE [cert EXCEPT ![p] = NoCert]

\* The peer refuses a follow with 403 and the block.  A caller that is still
\* there takes over the block (acceptRefusalBlock); a handler stores nothing.
PeerRefuses(k) ==
    /\ k.stage = "sent"
    /\ k.p \in blocked
    /\ heard' = [heard EXCEPT ![k.p] = Later(@, k.cert.at)]
    /\ calls' = calls \ {k}
    /\ IF k.by = Nobody THEN UNCHANGED <<cert, known>> ELSE AcceptBlock(k.p)
    /\ Resume(k, Idle, [drain[k.by] EXCEPT !.pc = "refused"])
    /\ UNCHANGED <<second, queue, nextRow, claimed, down, crashes, peer, muddled>>

\* 5xx, 429, a timeout: the caller gives up.  The call is lost or rolled back,
\* or the peer may yet handle it.  A handler owes the follow then; a drain stops and leaves the row.
\* A database statement that fails stops a drain likewise.
GiveUp(k) ==
    /\ Failing
    /\ k.by # Nobody
    /\ \/ calls' = calls \ {k}
       \/ /\ Cardinality({l \in calls : l.by = Nobody}) < MaxLate
          /\ calls' = (calls \ {k}) \cup {[k EXCEPT !.by = Nobody]}
    /\ Resume(k, [pc |-> "save", p |-> k.p, cert |-> k.cert, owe |-> TRUE],
              [pc |-> "release"])
    /\ UNCHANGED <<second, here, crashes, peer, heard, muddled>>

----------------------------------------------------------------------------
(* drainPeerEventsWith.                                                    *)

Go(d, state) == drain' = [drain EXCEPT ![d] = state]

\* ClaimPeerEvents; a drain that does not get the claim returns at once.
ClaimPeerEvents(d) ==
    /\ drain[d].pc = "idle"
    /\ ~claimed /\ ~down
    /\ claimed' = TRUE
    /\ Go(d, [pc |-> "next"])
    /\ UNCHANGED <<second, cert, queue, nextRow, down, known, crashes, handler, calls,
                   peer, heard, muddled>>

\* NextPeerEvent: the oldest row, or nothing for a peer that is down.
NextPeerEvent(d) ==
    /\ drain[d].pc = "next"
    /\ \/ /\ down \/ \A p \in Pairs : queue[p] = 0
          /\ Go(d, [pc |-> "release"])
       \/ /\ ~down
          /\ \E p \in Pairs : Oldest(p) /\ Go(d, [pc |-> "build", p |-> p, row |-> queue[p]])
    /\ UNCHANGED <<second, here, crashes, handler, calls, peer, heard, muddled>>

\* The pair's certificate as it is now goes out; none left makes the event void.
Build(d) ==
    /\ drain[d].pc = "build"
    /\ LET o == drain[d] IN
       IF cert[o.p] = NoCert
       THEN /\ Go(d, [pc |-> "gone", p |-> o.p, row |-> o.row])
            /\ UNCHANGED calls
       ELSE /\ Go(d, [pc |-> "call", p |-> o.p, row |-> o.row, cert |-> cert[o.p]])
            /\ calls' = calls \cup {CallOf(d, o.p, cert[o.p])}
    /\ UNCHANGED <<second, here, crashes, handler, peer, heard, muddled>>

\* UndoRefusedFollow: unless the certificate refused was replaced meanwhile.
UndoRefusedFollow(d) ==
    /\ drain[d].pc = "refused"
    /\ ~LockedHere(drain[d].p)
    /\ LET o == drain[d] IN
       /\ cert' = IF cert[o.p] = o.cert THEN [cert EXCEPT ![o.p] = NoCert] ELSE cert
       /\ Go(d, [o EXCEPT !.pc = "answered"])
    /\ UNCHANGED <<second, queue, nextRow, claimed, down, known, crashes, handler, calls,
                   peer, heard, muddled>>

AfterSettle(o) == IF o.pc = "gone" THEN [pc |-> "next"] ELSE [pc |-> "settled", p |-> o.p]

\* DeletePeerEvent, by the id that was read.
Settle(d) ==
    /\ drain[d].pc \in {"gone", "answered"}
    /\ LET o == drain[d] IN
       queue' = IF queue[o.p] = o.row THEN [queue EXCEPT ![o.p] = 0] ELSE queue
    /\ Go(d, AfterSettle(drain[d]))
    /\ UNCHANGED <<second, cert, nextRow, claimed, down, known, crashes, handler, calls,
                   peer, heard, muddled>>

\* DropSettledUnfollow and RefreshPeerEventsClaim.
Settled(d) ==
    /\ drain[d].pc = "settled"
    /\ ~LockedHere(drain[d].p)
    /\ LET p == drain[d].p IN
       cert' = [cert EXCEPT ![p] = Kept(@, queue[p] # 0)]
    /\ claimed' = TRUE
    /\ Go(d, [pc |-> "next"])
    /\ UNCHANGED <<second, queue, nextRow, down, known, crashes, handler, calls,
                   peer, heard, muddled>>

\* ReleasePeerEvents, deferred.
ReleasePeerEvents(d) ==
    /\ drain[d].pc = "release"
    /\ claimed' = FALSE
    /\ Go(d, Idle)
    /\ UNCHANGED <<second, cert, queue, nextRow, down, known, crashes, handler, calls,
                   peer, heard, muddled>>

----------------------------------------------------------------------------
(* Crashes, expiry, and the peer on its own.                               *)

\* The process dies; the database and the claim stay, and the peer may yet
\* handle a call that was under way.
Crash ==
    /\ crashes < MaxCrashes
    /\ crashes' = crashes + 1
    /\ handler' = [h \in Handlers |-> Idle]
    /\ drain' = [d \in Drains |-> Idle]
    /\ \E S \in SUBSET calls :
          /\ Cardinality(S) <= MaxLate
          /\ calls' = {[k EXCEPT !.by = Nobody] : k \in S}
    /\ muddled' = muddled \cup {p \in Pairs : \E h \in Handlers : handler[h].pc # "idle" /\ handler[h].p = p}
    /\ UNCHANGED <<second, here, peer, heard>>

\* The request's client goes away, and with its context SaveFollowCert fails.
Abandon(h) ==
    /\ Failing
    /\ handler[h].pc \in SaveStages
    /\ handler' = [handler EXCEPT ![h] = Idle]
    /\ muddled' = muddled \cup {handler[h].p}
    /\ UNCHANGED <<second, here, crashes, drain, calls, peer, heard>>

\* Variant that must fail: a claim is held until it is released.
ClaimExpires_Never == FALSE /\ UNCHANGED vars

\* A claim left behind is free again after a minute.  A drain refreshes its
\* claim after every call, and a call takes three seconds at most
\* (federationRequestTimeout), so a claim is not taken to expire under a drain.
ClaimExpires ==
    /\ claimed
    /\ \A d \in Drains : drain[d].pc = "idle"
    /\ claimed' = FALSE
    /\ UNCHANGED <<second, cert, queue, nextRow, down, known, crashes, handler, drain, calls,
                   peer, heard, muddled>>

\* RealtimeResetFromPeer: the peer's shutdown and boot notices.
SetPeerDown(d) ==
    /\ Going
    /\ down # d
    /\ down' = d
    /\ UNCHANGED <<second, cert, queue, nextRow, claimed, known, crashes, handler, drain, calls,
                   peer, heard, muddled>>

\* AckFollowEvent at the peer, for the kind of certificate it holds.  It comes
\* before or after a transaction that has locked the pair's row.
AckFollowEvent(p) ==
    /\ p \in unacked
    /\ ~LockedThere(p)
    /\ unacked' = unacked \ {p}
    /\ there' = [there EXCEPT ![p] = Kept(@, FALSE)]
    /\ UNCHANGED <<second, here, crashes, handler, drain, calls, blocked, heard, muddled>>

\* Variant that must fail: an event outlives its certificate.
InsertBlock_KeepsEvent(p) ==
    /\ p \in Blocking \ blocked
    /\ ~LockedThere(p)
    /\ blocked' = blocked \cup {p}
    /\ there' = [there EXCEPT ![p] = NoCert]
    /\ muddled' = muddled \cup {p}
    /\ UNCHANGED <<second, here, crashes, handler, drain, calls, unacked, heard>>

\* The followee blocks the follower: the peer drops the pair's certificate,
\* and its event with it (InsertBlock, applyBlockEffectsTx, ON DELETE CASCADE).
InsertBlock(p) ==
    /\ p \in Blocking \ blocked
    /\ ~LockedThere(p)
    /\ blocked' = blocked \cup {p}
    /\ there' = [there EXCEPT ![p] = NoCert]
    /\ unacked' = unacked \ {p}
    /\ muddled' = muddled \cup {p}
    /\ UNCHANGED <<second, here, crashes, handler, drain, calls, heard>>

\* BlockNotifyFromPeer: this server learns of the block by the peer's queue.
BlockNotifyFromPeer(p) ==
    /\ p \in blocked \ known
    /\ AcceptBlock(p)
    /\ UNCHANGED <<second, queue, nextRow, claimed, down, crashes, handler, drain, calls,
                   peer, heard, muddled>>

----------------------------------------------------------------------------
Answers(g) == \E k \in calls : k.by = g /\ (PeerSkips(k) \/ PeerTakes(k) \/ PeerRefuses(k))

\* A transaction that holds the pair's row ends.
EndsHere(h) == SaveFollowCert(h) \/ Abandon(h)
EndsThere(p) == \E k \in calls : k.p = p /\ k.stage = "locks" /\ PeerTakes(k)

Works(d) ==
    \/ NextPeerEvent(d) \/ Build(d) \/ UndoRefusedFollow(d)
    \/ Settle(d) \/ Settled(d) \/ ReleasePeerEvents(d)

Next ==
    \/ Tick
    \/ \E h \in Handlers :
          \/ \E p \in Pairs, follow \in BOOLEAN : signFollow(h, p, follow)
          \/ SaveReads(h) \/ SaveSkips(h) \/ SaveFollowCert(h) \/ Abandon(h)
    \/ \E k \in calls :
          \/ PeerPasses(k) \/ PeerReads(k) \/ PeerSkips(k) \/ PeerTakes(k)
          \/ PeerRefuses(k) \/ GiveUp(k)
    \/ \E d \in Drains : ClaimPeerEvents(d) \/ Works(d)
    \/ Crash \/ ClaimExpires
    \/ \E d \in BOOLEAN : SetPeerDown(d)
    \/ \E p \in Pairs : AckFollowEvent(p) \/ InsertBlock(p) \/ BlockNotifyFromPeer(p)

Spec == Init /\ [][Next]_vars

\* A drain that started goes on, a claim left behind expires, and drains are
\* started over and over (every client's SYNC starts one).  A peer that is
\* called over and over answers once, and a transaction ends.
Fairness ==
    /\ WF_vars(ClaimExpires)
    /\ \A h \in Handlers : WF_vars(EndsHere(h))
    /\ \A p \in Pairs : WF_vars(EndsThere(p))
    /\ \A d \in Drains :
          /\ SF_vars(ClaimPeerEvents(d))
          /\ WF_vars(Works(d))
          /\ SF_vars(\E k \in calls : k.by = d /\ PeerPasses(k))
          /\ SF_vars(\E k \in calls : k.by = d /\ PeerReads(k))
          /\ SF_vars(Answers(d))

FairSpec == Spec /\ Fairness

----------------------------------------------------------------------------
(* Properties.                                                             *)

\* Rows, certificates, calls and goroutines have their shape.
TypeOK ==
    /\ second \in Seconds
    /\ cert \in [Pairs -> Stored]
    /\ queue \in [Pairs -> 0 .. MaxRow]
    /\ nextRow \in 1 .. MaxRow + 1
    /\ claimed \in BOOLEAN
    /\ down \in BOOLEAN
    /\ known \subseteq blocked
    /\ crashes \in 0 .. MaxCrashes
    /\ handler \in [Handlers -> Handler \cup {Idle}]
    /\ drain \in [Drains -> Drain \cup {Idle}]
    /\ calls \subseteq Call
    /\ there \in [Pairs -> Stored]
    /\ unacked \subseteq {p \in Pairs : there[p] # NoCert}
    /\ blocked \subseteq Blocking
    /\ heard \in [Pairs -> 0 .. MaxSecond]
    /\ muddled \subseteq Pairs

\* No certificate is forgotten: whatever certificate this server keeps for a
\* pair, the peer has handled it or a newer one, or still is owed the pair.
\* So a row is deleted only for what it was sent for (DeletePeerEvent by id,
\* enqueuePeerEventForTx moving a waiting pair), through crashes, lost
\* answers, requests that overlap and blocks.
OwedOrHeard ==
    \A p \in Pairs : cert[p] # NoCert => queue[p] # 0 \/ heard[p] >= cert[p].at

\* Nothing of the pair is owed or being handled.
AtRest(p) == queue[p] = 0 /\ \A h \in Handlers : handler[h].pc = "idle" \/ handler[h].p # p

\* The two servers agree on a pair at rest, unless two requests for it
\* overlapped or were signed in the same second, a crash or a client that left
\* lost one, a block touched the pair, or the peer stored a late certificate
\* over a newer one that its transaction could not see: it read the row when
\* there was none, or waited for one that was replaced.  A transaction that
\* saw the row compares with it and keeps it from others (saveFollowCertTx,
\* dropSettledUnfollowTx).
AgreeUnlessMuddled == \A p \in Pairs \ muddled : AtRest(p) => cert[p].follow = there[p].follow

\* The same for any requests: "SaveFollowCert makes cert the pair's state
\* unless a newer one is held" (follows.go).
AgreeOnceSettled == \A p \in Pairs : AtRest(p) => cert[p].follow = there[p].follow

\* What is owed goes out in the end, while the peer is not down
\* (drainPeerEventsWith and its triggers).
OwedGoesOut == \A p \in Pairs : queue[p] # 0 ~> queue[p] = 0 \/ down
============================================================================
