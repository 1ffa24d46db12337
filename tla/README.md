# Syrinx in TLA+

Syrinx is a federated social platform: a Go backend (`src/src/backend`), a
Postgres database, and a browser client. Its servers keep *who holds what*, not
*what was written*: the body of a reed (a post) lives in browsers, and a server
relays it from a holder that is online to whoever asked. This directory holds
the TLA+ models of that backend, the TLC configurations that check them and the
proofs TLAPS checks.

## Inventory

| component | state | operations | hard behaviour |
|---|---|---|---|
| relay engine (`realtime.go`) | `reed_allocations`, `pending_events` and its subject tables, `relayTimers` | REQUEST_REED, dispatch, RELAY_RESPONSE / MISS / ERROR, timeouts, DATA_ACK / INVALID, eviction | one goroutine per socket and per timer; claims by compare-and-set; answers racing timeouts; crash of the process |
| new-reed fanout and catch-up | `pending_fanout`, `online_users.sync_request_id` | PUBLISH_READY, SYNC_REQUEST | a recipient connecting in the middle of a fanout |
| presence and connections | connection map per replica, `online_users`, subscriptions | connect, supersede, disconnect, PONG, reap | teardown racing a reconnect; rows wiped under a live socket |
| border fold, federation relay | `foreign_pending_events`, `foreign_relay_requests`, `reed_server_allocations` | ask the home server, relay across, ack, cancel, not held | two servers' handlers interleave; a cap on crossings; acks overtaking marks |
| peer event queue | `peer_event_queue`, `server_mesh.delivery_claimed_at` | enqueue, claim, deliver, settle, release | a claim that expires under a slow worker; state read at send time; refusal |
| publishing, threads, replies, echoes | `reeds`, `reed_threads`, tips | publish on the tip, publish ready | two devices on one tip; removal of a reed being published |
| removals | `*_removals`, removal events | remove, acknowledge, relay to peers | a relay in flight while the reed is removed |
| keys (users' and the server's) | `public_keys`, revocations | rotate, revoke, notify | signatures made with a key that is being revoked |
| invites, signup, challenges, devices, recovery | `invites`, `users`, challenges, `user_devices` | claim, revoke, sign up, bind, recover | one-use tokens used twice at once |
| admin requests, ledger | `admin_requests`, `ledger_entries` | request, second person's decision, append | two deciders; hash chain under concurrency |
| flags, blocks, follows, vouches, likes, mailbox, ripples | one table each | insert, delete, expire | what of it crosses to peers |
| browser client | IndexedDB, localStorage | send, verify, evict, restore; the page of a reed's ripples; import and recovery | messages that overtake each other and the lists they amend; markers written one by one |

Components call each other through `DataService` (the statements of
`services.go`), the connection manager (`SendToUser`), hooks between the
realtime service and the federation handlers, and the optional Postgres
`LISTEN/NOTIFY` bus between replicas.

What makes each correct, in short: a row of `reed_allocations` says that a user
was given and verified a copy; a requester is answered or told that nobody holds
the reed; nobody who follows an author is left out; a presence row stands for a
socket; a peer ends up knowing what is true here; the tip of an author is a
single chain; a token is used once.

## Plan

The most important behaviour first; what is done and what is left of each part.

1. **Relay** with **HolderDirectory**, the abstract promise it implements, and
   **Relay_proofs** (done): the relay engine of one server with fanout,
   catch-up, sockets and restarts.
2. **PeerQueue** and **PeerQueue_proofs** (done for follows): one peer's queue
   and the pair events whose state is read when they are sent. Left: the kinds
   owed to every peer, unblocks, revocation of a peer.
3. **Presence** and **Presence_proofs** (done for one process), **Watching** and
   **Sessions** with **Sessions_proofs** (done). Left: several replicas.
4. What follows a copy over servers and devices: **Border**, **Removals**,
   **Keys**, **Blocks**, **RecoveryRun**, **Mesh**, composed with the relay in
   **MCCopies**; **Copies_proofs** for Keys, Blocks and Border,
   **Relay_proofs** (Removals), **IdentityBackup_proofs** (RecoveryRun) and
   **Server_proofs** (Mesh) for the others (done).
5. What is kept about people and what they wrote: **Publish**, **Replies**,
   **AdminRequests**, **Invites**, **RecoveredAccounts**, **Flags**,
   **Vouches**, **Restore**, **Ripples**, **ServerKeys** with
   **ServerKeys_proofs** and **IdentityBackup** with **IdentityBackup_proofs**,
   composed in **MCServer**; **Server_proofs**, **Copies_proofs** (Publish) and
   **Sessions_proofs** (Ripples, RecoveredAccounts) for the others (done).
6. Left: the proofs named at the end of *Proofs*, echoes and tags, the mailbox,
   the statistics admins see, the browser's storage under pressure.

## Relay

`Relay.tla` models one process of one server. State and code:

| variable | code |
|---|---|
| `sockets` | the connection map: who has a socket here |
| `online`, `synced` | `online_users` and its `sync_request_id`; a row outlives its socket until the teardown is over |
| `alloc` | `reed_allocations` |
| `unfanned` | `pending_fanout` |
| `ev`, `next` | `pending_events` joined with `pending_reed_events`; event ids, minted in `created_at` order |
| `timer` | `relayTimers`, with the holder the armed callback captured |
| `asked`, `inbox` | RELAY_REQUEST frames and relayed bodies handed to a client and not yet answered |
| `work` | what each goroutine has left to do |
| `sent`, `judgedOk` | history: bodies put on a live socket; events acked by their requester |

Each WebSocket has a goroutine that handles one frame at a time, each expired
timer and each fanout has its own. A goroutine is a sequence of operations; a
step runs the first and puts what the handler goes on with in its place. What a
handler has read (the requester, the reed, the claim) travels in the operation,
so every stale read of the code is a behaviour of the model. Statements are
merged into one step only where no other goroutine can tell: the compare-and-set
of `MarkEventDispatched` and the query before it (losing the compare-and-set is
the action `DispatchLost`), a claim and the send it allows,
`ResetDispatchedAt` and the holder query after it, the verdict "no holder" and
the delete after it.

Clients are the environment: they answer what they were asked in any order or
not at all, ack what they received (`handleDataAck`) or an event they merely
know of (`EarlyAck`), evict, disconnect, reconnect and open second sockets. A socket
that closes leaves the map at once (`Disconnect`); its goroutine goes on with the
teardown, in two steps between which others run: the user's events go (`teardownUser`),
and then, in one transaction, what was created since and the presence row
(`MarkUserOffline`). Until then the user counts as online for whoever asks the
database, and as gone for whoever asks the map. A body put on the bus in between is
marked relayed though nobody takes it. A client that is back before its teardown is
over is left to Presence: `Connect` waits for the row to go.
Database errors are not modelled; a failed send is (a holder that is gone, with
and without the bus).

`HolderDirectory.tla` says what a client of the relay engine may rely on without
events, claims, timers or sockets: who was *given* a copy and who is *held* to
have one. Relay instantiates it with `held <- alloc` and `given <- sent`.

Left out of Relay: events whose payload is a removal certificate, thread parts,
tags, admins and mentions in the fanout, profile subscriptions, foreign
requesters and peers, more than one replica.

### Properties

| property | what it says |
|---|---|
| `TypeOK` (proved) | shapes; a `sync_request_id` only on a presence row; checked as the Relay's part of `CopiesTypeOK` |
| `HolderWasSent` (proved) | a row of `reed_allocations` belongs to the author, a holder from the start, or someone the server once handed that reed to |
| `OnlyHolderLosesRow` (proved) | a row goes only in a step of its own holder's socket: no timer and no other user's handler takes it, whatever it had read |
| `ImplementsDirectory` (proved) | the relay engine implements `HolderDirectory`: who holds a copy changes only by handing a copy over, by its new holder declaring it, and by a holder withdrawing it, one pair at a time |
| `NoFollowerMissed` | with no goroutine running, a synced follower of a reed whose fanout was started holds it or has an event pending for it |
| `SilenceMovesOn` | a claimed, unrelayed event is relayed, released or gone in the end |
| `UnansweredClaimTimed` | the timer of a claimed, unrelayed event is one for its claimant: **violated**, see below |
| `AckCloses` | an event whose requester acked a verified copy is closed or still moving: **violated**, see below |

### Runs and bounds

| run | bounds | states | shows |
|---|---|---|---|
| `relay_holders` (MCRelay) | users a, b (holders) and c (requester), 1 reed, 1 event, holders miss, stay silent or relay a bad copy | 1.0 M | `HolderWasSent`, `OnlyHolderLosesRow`, `ImplementsDirectory` |
| `relay_fanout` (the relay's part of MCCopies) | author a, broadcast b, follower c, 1 reed, 2 events, bursts of 2, a may leave and return, bus on | 0.66 M of 1.92 M | `CopiesTypeOK`, `NoFollowerMissed` |
| `relay_crash` | a and its follower c, 1 event, no bus, requests, fanout and catch-up, disconnects, second sockets, evictions, crashes, every failure, refill of 2 | 0.81 M | `SilenceMovesOn` |
| `relay_silent` | as `relay_holders` | stops at the trace | `UnansweredClaimTimed` fails |
| `relay_ack` | a and c, 1 event, no failures | stops at the trace | `AckCloses` fails |

One reed and one or two events are enough for what is asked: goroutines
interfere through one event, one claim, one timer and one allocation row, and
two holders are what it takes to have a claim replaced. Two events are needed
where fanout and catch-up both create one for the same follower. The bounds
(`Requesters`, `Failures`, `Evicting`, `Leaving`, `Superseding`, `Restarting`,
`MaxEvents`) are named in the module. Deadlock is not checked: with no frame on
its way and no event id left the model stops, as an idle server does.

**Fairness** (`FairSpec`, for `SilenceMovesOn`): every goroutine that can run
does (`WF` on `Run(t)`, the Go scheduler) and an armed timer fires (`WF` on
`handleRelayTimeout`, `time.AfterFunc`). Nothing is assumed of clients.

### Where code and documents part

* `relay_silent`: `dispatchNext` puts RELAY_REQUEST on the holder's socket and
  then calls `startRelayTimer`, which replaces whatever timer the event has. If
  the holder's MISS is handled in between and the event goes to a second holder,
  the late call stops the second holder's timer. The first holder's timer, when
  it fires, is ignored because the claim is not its own. A silent second holder
  keeps the event until somebody reconnects, against the comment on
  `dispatchRequestTimeout` (`realtime.go:2801`).
* `relay_ack`: the body is sent before `relayed_at` is written. An ack handled
  in between is refused (`ackAcceptable`), the requester gets no row for a body
  it verified, and the event keeps its claim with no timer, against
  `docs/relay-model.md:30`.

## PeerQueue

`PeerQueue.tla` models what a server owes one peer, for the events whose payload
is the *current* state of a pair: follows of the peer's users. This server holds
the follower, the peer the followee, and each keeps its own certificate.

| variable | code |
|---|---|
| `cert`, `known` | this server's `follow_certs` and `user_blocks` (the edge `user_following` goes with the certificate) |
| `queue`, `nextRow` | `peer_event_queue`: the pair's row, and the serial |
| `claimed`, `down` | `server_mesh.delivery_claimed_at` (set and under a minute old), `down_at` |
| `there`, `unacked`, `blocked` | the peer's `follow_certs`, `follow_event_queue`, `user_blocks` |
| `handler` | FollowUser and UnfollowUser in progress: waiting for the peer, or storing, with how far the transaction got |
| `drain` | `drainPeerEventsWith` in progress, by stage, with the row and the certificate it read |
| `calls` | calls of `follow-notify` the peer is handling or has yet to handle, of callers still waiting and of callers that gave up, with how far the peer's transaction got |
| `second` | the clock `signed_at` is truncated to |
| `heard`, `muddled` | history, for the properties |

Statements and transactions are steps, and a transaction is one step only where nobody
can tell. `saveFollowCertTx`, which both servers run on a pair, is two: it reads the row
`FOR UPDATE` and later writes it with an upsert that compares nothing (`SaveReads` and
`SaveFollowCert` here, `PeerReads` and `PeerTakes` there, `SaveSkips` and `PeerSkips`
when the read finds a row as new). How far it got is its stage. One that found an older row
*locks* it, and whoever writes the row waits for its commit: other certificates, acks,
blocks, `DropSettledUnfollow`, `UndoRefusedFollow` come before the read or after the
commit. One that found no row is *blind*: it holds nothing, and writes over whatever is
there when it commits. And one that waited for a row which the holder of the lock
replaced has *missed* it: under READ COMMITTED the query is evaluated again with the
signature joined before, finds none, and the transaction goes on as if there were no
row. Each half of a call is a step of its own: the peer looks for a block
(`PeerPasses`), stores or refuses (`PeerRefuses`), and its answer reaches the caller, or
the caller gives up (`GiveUp`, after which the peer may still handle the call). The block
that comes with a refusal is stored in the step of the answer. A statement of a drain that
fails ends the drain and leaves what a call given up leaves, so it has no action
of its own; a failing `UndoRefusedFollow`, which the code only logs, is left
out. A drain's claim does not expire under it: it is refreshed after every call,
a call takes at most `federationRequestTimeout` (3 s), a claim a minute. Not
modelled: the kinds of event owed to every peer, block events of the queue
(`BlockNotifyFromPeer` is there as the way the block arrives), unblocks,
refusals for other reasons than a block, revocation of a peer, follows within
one server.

| property | what it says |
|---|---|
| `TypeOK` | shapes; an owed event has its certificate; this server knows of no block the peer has not |
| `OwedOrHeard` (proved) | whatever certificate this server keeps, the peer has handled it or a newer one, or is still owed the pair |
| `AgreeUnlessMuddled` (proved) | at rest, the edge is the same on both servers, unless the pair was muddled in one of the ways the code does not repair: overlapping requests, requests of one second, a request lost with its client or the process, a block, or a certificate the peer stored over a newer one its transaction could not see (blind, or missed) |
| `OwedGoesOut` | what is owed goes out in the end, or the peer is down |
| `AgreeOnceSettled` | as `AgreeUnlessMuddled` without the exceptions: **violated**, see below |

| run | bounds | states | shows |
|---|---|---|---|
| `peerqueue_pair` | 1 pair, 2 requests at a time, 1 drain, 3 seconds, 2 rows, one late call, a block | 5.1 M | `TypeOK`, `OwedOrHeard`, `AgreeUnlessMuddled` |
| `peerqueue_goes_out` | 2 pairs, 1 request at a time, 3 rows, a crash, the peer down and up, calls lost | 0.62 M | `OwedGoesOut` |
| `peerqueue_second` | 1 pair, 1 request at a time, 2 drains, nothing fails | stops at the trace | `AgreeOnceSettled` fails |

One pair is enough for the agreement of the two servers: certificates, rows and
calls of different pairs meet only in the order of the queue, which
`peerqueue_goes_out` has two pairs for. Three seconds give a certificate stored, a call of
it that is late, and a newer one that may be overwritten; two rows let a waiting pair move
under a drain that holds its old row. The two handlers are alike (`SYMMETRY Alike`), and
while two requests overlap, which muddles the pair, the run is kept to the first two
seconds without a block or a late call (`CONSTRAINT FewAtOnce`): what overlaps is left
to `OwedOrHeard`.

**Fairness** (`FairSpec`): a drain that runs goes on and a left claim expires
(`WF`); drains are started again and again and find the claim free (`SF` on
`ClaimPeerEvents`), because every SYNC of any client starts one
(`realtime.go:4319`); a peer called over and over handles a call once (`SF` on
its check, its read and its answers); and a transaction that holds a row ends (`WF` on
`EndsHere` and `EndsThere`), so that who waits for the row goes on. The first assumption is needed: a drain that found
the queue empty holds its claim a moment longer, and the drain an enqueue starts
in that moment returns at once.

The race that `AgreeUnlessMuddled` leaves out needs no overlap of requests. A follow
is offered, the caller gives up and stores it here; in a later second an unfollow is signed,
owed and sent. If the peer still handles the first call and has no row for the pair, both
transactions are blind; the unfollow commits, then the follow, and the peer lists a follower
who does not follow, with nothing owed. That the row's lock rules this out once there is a
row is what the property says and what its mutant, a read without the lock, breaks. The
comment at `follows.go:123` ("unless a newer one is held") does not hold of this race
either.

The disagreement in `peerqueue_second`: an unfollow and then a follow, handled
one after the other within a second. The peer has not heard of the unfollow and
takes the follow; here `saveFollowCertTx` finds a certificate of the same second
and ignores it, and the request is answered 200 all the same; the owed unfollow
goes out and the peer ignores it, again for its age. The comment at
`follows.go:123` says a certificate becomes the pair's state unless a *newer* one
is held.

## Presence

`Presence.tla` models who the server believes is connected. The connection map is
in memory, the presence rows and subscriptions are in Postgres, and no lock spans
the two, so a socket's goroutine is a program counter and every statement and
every use of the map a step.

| variable | code |
|---|---|
| `pc` | where `HandleWebSocket` is for a socket: registered, reading, left the read loop, tearing down, offline |
| `conn`, `open` | `userConnections`; the connections nobody has closed |
| `silent` | open sockets whose client is gone, or detached and reads another one (`serverConnection.ts:242`) |
| `wants`, `subs` | what the client of a session subscribed to; `broadcast_subscriptions` (references the presence row) and the profile and reed subscriptions (do not) |
| `row` | `online_users`, with `last_pong` younger or older than `realtimePresenceTTL` |
| `pong`, `reaper` | `pongPending`; `reapStalePresence` in progress, with what it has read |
| `echo` | notifications of `PublishDisconnect` on their way back |
| `belated` | history: a replaced socket's goroutine has written the row |

Merged into one step: the change of the map and the closing of the sockets taken
out of it, the statements of `teardownUser`, `RecordPongs` and the closing of
clients without a row, `MarkUserOffline`'s and `EvictStalePresence`'s
transactions. A frame that was read may be handled after its socket was closed.
Two statements may fail, those the code has an answer for (`MarkUserOnline`,
`RecordPongs`). Not modelled: unsubscribing, other failing statements, several
replicas, the calls to peers a teardown makes, the checks before the upgrade.

| property | what it says |
|---|---|
| `TypeOK` | shapes; the reaper holds PONGs and a user only while it works on them |
| `OneSession` (proved) | at most one socket of a user in the map; each one there has a goroutine that takes it out; no open socket outside of it |
| `PresenceSettles` | every user ends up with a row exactly when there is a session, and a session with what its client subscribed to, however teardowns, evictions, disconnects and a crash overlap (without `belated` users) |
| `NobodyDeaf` | at rest, a session that lost subscriptions has lost its row too, which is how it is noticed: **violated**, see below |

| run | bounds | states | shows |
|---|---|---|---|
| `presence_settles` | 1 user, 2 sockets, both kinds of subscription, the bus, 1 kick, 1 crash that keeps the rows | 1.15 M | `TypeOK`, `OneSession`, `PresenceSettles` |
| `presence_deaf` | 1 user, 3 sockets, no bus, nothing fails | stops at the trace | `NobodyDeaf` fails |

One user is enough: rows, subscriptions and sockets of different users meet only
in the order in which the reaper takes them. Two sockets are a session and the
one it follows or replaces; the race of `presence_deaf` takes three.

**Fairness** (`FairSpec`): goroutines go on and the reaper's ticker ticks (`WF`),
`RecordPongs` succeeds if it is tried again and again (`SF`), a listening client
sends PONG (`WF`; a timer of the browser client), a dead peer is noticed (`WF`;
the server pings every 30 s), and the heartbeat of a row lapses when no client is
left to refresh it (`WF`; time). Nothing makes a client reconnect, and nothing is
assumed of the bus.

The disagreement in `presence_deaf`: `MarkUserOnline` is made by any socket's
goroutine, replaced or not. Socket 1 is registered and slow to write the row;
socket 2 replaces it, goes online and closes, last in the map; socket 3 registers,
goes online and subscribes; socket 2's teardown takes subscriptions and row; then
socket 1's statement puts the row back. Session 3 is online for everybody, its
PONGs find a row, and it gets nothing it subscribed to until it reconnects for a
reason of its own, against the comments at `realtime.go:2358` and
`realtime.go:2176`. `PresenceSettles` leaves such users out and holds for the rest.

## Border

`Border.tla` models how one reed of a *home* server reaches readers of an
*asking* server. What crosses is encrypted for one reader, so the asking server
lets `maxForeignCrossings` cross and has the other requests fold behind them.

| variable | code |
|---|---|
| `present`, `copies` | `online_users` and `reed_allocations` of the asking server |
| `ask`, `nextAsk` | its `pending_events` with `foreign_pending_events`: the reader, the peer's event (`offer`), relayed or not |
| `toFan` | `pending_fanout` of the reed, recipients not reached yet |
| `home` | the home server's holders: `dispatchNext` there succeeds, waits or answers "not held" |
| `offer`, `nextOffer` | its events for the peer with `foreign_relay_requests` |
| `peerHolds` | `reed_server_allocations` |
| `todo` | what each goroutine has left to do: socket, fanout, teardown, handler of a call, delivery of a copy |
| `wrote`, `parted`, `dropped`, `overlapped` | history |

A call to the other server is a step of the caller's goroutine: it has its effect
there, or is lost, or has its effect and the answer is lost. What a handler has
read travels in `todo`.

| property | what it says |
|---|---|
| `CopyFindsItsAsk` (proved) | the event a copy is relayed for is mapped to the ask it was registered for |
| `CrossingsHold` (proved) | no more than `MaxCrossings` cross, unless two goroutines passed the check together (`realtime.go:3386`); at rest, a waiting request has a local holder or a crossing to wait for, unless a crossing ended outside the fold (`dropped`); and both servers keep an event for the same crossings, with home marking relayed only what the reader was sent, unless the offer is `parted` by one of the listed races |

The races the histories name are behaviours of the code, met while modelling:
a broadcast that is closed on delivery hands its place on to nobody
(`realtime.go:5294`), and its ack is ignored while the delivery's call is open,
so the home server's event stays; an event promoted while its first crossing is
in doubt crosses twice; `DATA_INVALID` never cancels the home server's event; an
ack may overtake the mark that makes it count; a copy may arrive before the
asking server has recorded its mapping, and the 404 counts as delivered; a
crossing recorded while its reader is being torn down disappears; a crossing
recorded after the reader's `DATA_ACK` has looked for one (`realtime.go:4984`) and
before it deletes the request goes with the request, and the home server's event
stays; a holder who leaves strands those who waited for him.

Readers' actions whose names other parts have too are `ViewerRejects` and
`ViewerLeaves`. Left out: subscriptions and notices that cross (Watching), the relay within each server
(Relay), several foreign reeds at once (they share nothing but the readers).

## Publish and Replies

`Publish.tla` models the reeds of one author on several devices, and what one peer
is owed of them. A handler reads what is stored, takes the second it
countersigns with, and only then opens the transaction that stores it.

| variable | code |
|---|---|
| `reeds` | `reeds` with `reed_threads`: countersignature, tip it was put on, thread head, `published_at` |
| `removals` | `reed_removals`, `thread_removals` |
| `stash` | `pending_fanout` |
| `owed`, `told` | `peer_event_queue` of a peer, and what it has been told |
| `job` | what each handler has read and means to store |
| `strayed`, `disordered`, `late` | history |

Actions: `SignReed` and `CreateThread`, which both `Countersign` and end in `Create`,
`Fork` or `Duplicate`; `DeleteReed` and `DeleteThread`, which end in
`InsertReedRemoval` or `RemovalConflict`, `InsertThreadRemoval` or
`ThreadRemovalThere`; `PublishReady`, `DeliverToPeer`, and the clock `PublishTick`.

| property | what it says |
|---|---|
| `OneHistory` (proved) | *one chain*: the live reeds of an author are one chain, unless a reed was stored below the tip it was put on: tips go by (second, id) (`services.go:1847`), and the second is taken before the lock; *one countersignature*: every answer about one reed carries the stored one; removals of threads are the exception (a removal that loses to another one answers with its own, `services.go:6038`) |
| `RemovalsReachAll` (proved) | a thread is removed whole or not at all, and a peer told of a reed is told of its removal, unless PUBLISH_READY came after the removal had found the reed unpublished |

`Replies.tla` models `reed_stats.reply_count`: a tree of replies of two servers'
authors, the triggers of `db.go` that bump every ancestor, and the handlers that set
them off. `CountedUnlessSkewed`: a count is what counting would give, except for
reeds that a listed defect has bumped: a foreign reply's removal, which two
triggers undo (`reply_counts` below), a reply stored after its removal, replies of
removed accounts removed again, a foreign account's removal (which takes back
nothing), a dropped foreign reply that cuts its own replies off.

The disagreement in `reply_counts`: `acceptForeignReedRemoval` stores the
certificate, whose trigger takes one off every ancestor, and then drops the
reply's row, whose trigger takes off another one; the comment at `db.go:1265` says
that a removal undoes what the insert added, which was one.

Met while modelling: two `SignReed` requests with one id at once end with a 409 for
the loser, who is promised the stored countersignature (`handlers.go:2120`);
overlapping removals of one reed end in a 500 for the later.

Left out: tags, mentions, echoes and likes, the verification window, threads
and accounts of several authors in Publish.

## AdminRequests

`AdminRequests.tla` models what two admins do together and the ledger in which it
is entered.

| variable | code |
|---|---|
| `role`, `perms`, `suspendedBy`, `departed` | `users`, `user_permissions`, `account_removals` |
| `adminReq` | `admin_requests` with `admin_request_targets` |
| `ledger`, `ledgerLock` | `ledger_entries` and the advisory lock |
| `task` | a decision: idle, checked, at the ledger |
| `dropJobs`, `mootJobs` | goroutines of `dropFromAdminRequests` and the `closeIfMoot` calls they have left |
| `mesh` | ledger entries of other origin |
| `missed`, `overtaken`, `amiss` | history |

A decision locks its own request's row; the check of the approver's rules, the turn
at the ledger and the commit are three steps.

| property | what it says |
|---|---|
| `LedgerIsTheRecord` (proved) | the ledger is one chain with exactly one entry for each executed request |
| `DecisionsHold` (proved) | an approval obeys the approver's rules as they stand at its commit, unless another decision committed since its check; with no goroutine at work, a pending request still names somebody who is there, unless the removal fell between its check and its insert, or a stop lost the goroutine; and a request closes as moot only when all it named have left |

Met while modelling: two suspends of one target override each other; a kick or
promotion of an account that removed itself answers 500 until the goroutine has run;
a suspension executes on a removed account. Left out: rebinding a key, the
two-week window after a recovery, what admins are shown.

## Mesh

`Mesh.tla` models how two servers come to peer and part: an invitation pasted at the
other side, the connect callback, an approval on each side that is told to the other
*before* it commits, a disconnect by two admins, its notice, the purge.

| variable | code |
|---|---|
| `invitation`, `attempts` | `federation_invitation`, `federation_attempt` |
| `peering` | `server_mesh`: state, `peer_approved`, who staged a disconnect |
| `owing`, `writing` | `peer_event_queue` of the peer; a write that has read its peers and not committed |
| `paste`, `approving`, `notice` | handlers and calls under way |
| `met`, `doubled`, `unsaid`, `slipped`, `unheard` | history |

| property | what it says |
|---|---|
| `PeeringHolds` (proved) | *one handshake*: whoever waits for an approval is not a peer and waits once, unless two were checked at once: the check and the insert are two statements and no index backs them; *agreement*: a peering counts as approved by the peer only if the peer has approved it or is committing that, unless its approval was rolled back after the call, and with nothing in flight nobody holds an established peering with a server that parted from it, unless the notice did not arrive (it is not sent again); *nothing owed*: a peer that was disconnected is owed nothing, unless a write that had read it as a peer straddled the disconnect (`services.go:4371`) |

Met while modelling: the comment at `middlewares.go:317` takes a signed request for a
committed approval; two approvals that cross are both answered 403 and stay
half-established until later traffic; a leftover attempt can approve a revoked peer
again. Key updates of a peer are in ServerKeys.

## Invites

`Invites.tla` models creation within a quota, revocation, expiry and the claim of an
invite by a signup, whose look-up comes long before its transaction and whose
transaction, for an admin invite, waits for the ledger.

| variable | code |
|---|---|
| `inviteRow`, `expired` | `invites`; admin invites past `adminInviteTTL` |
| `granted`, `powers`, `suspended` | the maker's extra invites, permissions, suspension |
| `joining`, `joined` | `Signup` under way; `users.invite_id` |
| `amidst`, `unearned` | history |

| property | what it says |
|---|---|
| `SignupsHold` (proved) | an invite admits at most one account and is claimed exactly when it has; nobody has more invites than cap and grants allow, however many requests run at once; and an account comes in only while its inviter may admit it, unless the inviter lost that between check and commit |

Left out: statistics of invites, signup without invites.

## RecoveredAccounts

`RecoveredAccounts.tla` models accounts that devices bring back after the database
was lost, in any order, while the server is in use again.

| variable | code |
|---|---|
| `userRow`, `collision` | `users` with `identities`; `username_collisions` |
| `leftIds`, `unclaimed`, `ongoing` | `account_removals`, `unclaimed_accounts`, `ongoing_recoveries` |
| `activeUsers` | `network_stats.active_users` |
| `saving` | saves that have read the profile on record and not committed |
| `newest`, `stale`, `freed`, `orphaned` | history |

`SaveReads` is apart from the write because `upsertRecoveryIdentity` reads `signed_at`
in the statement that locks the identity: a save that waited for the lock goes on
with the date of its snapshot. `ReturnedTo` is a set: of several losers of a name with
profiles of one second, `returnCollidedUsernames` picks whichever it finds first.

| property | what it says |
|---|---|
| `AccountsSettle` (proved) | an account ends with the newest profile anybody reported and the counter is the number of accounts with a profile, unless a save went on with an old date; no two accounts hold one name, so that no save fails on the index of names; a name is with the best claim (signed before the first boot, then newest), unless its holder gave it up or signed anew; and who lost a name has the record saying to whom, unless the winner's identity was deleted and took it along |

`SaveReplaces` deletes the newcomer's identity, and its removal with it
(`ON DELETE CASCADE`, `db.go:704`): a newcomer who left while the save waited for the
lock takes the removal along, and the recovered account keeps its profile. Met while
modelling: a *removed* account that another device reports is listed as unclaimed when it
is created, because `savePeerIdentity` inserts the row after `applyRestoredUserStateTx`
has deleted it, against the comment "Nobody can claim a removed account."
(`recovery_records.go:1086`); its own claim is refused all the same.

Left out: devices, keys and reeds of a recovered account, lockdown (Restore and Flags have it).

## Flags

`Flags.tla` models the flags on one reed and the cases they are grouped in. A
transaction that stores a flag locks its case; one that withdraws or removes flags
decides in one statement, from the flags committed when the statement began, and
may then wait. Each is therefore a read and a commit (`flagJob`).

| variable | code |
|---|---|
| `caseRow`, `flagRow` | `flag_cases` and `reed_flags` of the reed |
| `removed`, `lockdown` | `account_removals`; RECOVERY_MODE=lockdown, which only the start has |
| `flagJob` | transactions that have read and not committed |
| `taken`, `tangled` | history |

| property | what it says |
|---|---|
| `CasesAddUpUnlessTangled` (proved) | a case is void exactly when all its flags are withdrawn, an open one has an open flag and none of a removed account, and a flag somebody was told is stored is in its case until that is deleted; unless a statement acted on flags that had changed |
| `ClosedForGood` (proved) | a dismissed or void case never reopens and never takes a flag, recovery excepted |

Met while modelling: two withdrawals at once leave an open case without an open
flag; a withdrawal that voids from an old snapshot leaves a void case with a new open
flag; the deletion of a case found empty takes a flag along that was stored
meanwhile; an account that is removed while it flags leaves an open flag behind; one
reporter who flags twice at once is answered 500. Left out: the tallies pushed to
authors, the lists admins see.

## Keys

`Keys.tla` models the keys of one user, who has which of them cached, and how each
of those hears that a key is revoked. A client never asks again for a key it has.

| variable | code |
|---|---|
| `keyRow`, `activeKey`, `aged` | `public_keys` with `public_key_revocations`, `users.active_key_id`, the rotation cooldown |
| `keyAlloc`, `flagged` | `public_key_allocations` of both servers, and their `revoked` column |
| `keyOwed`, `noticed` | key-revocation events owed to the peer, and those it has handled without answering |
| `toFanOut`, `fanning`, `catching`, `pushed`, `acked` | fanouts, the catch-up and KEY_REVOKED with its DATA_ACK |
| `keyFetch`, `cached` | a client's GET /keys/{id} and what it has stored |
| `evicting`, `evictWait`, `evictFrames`, `evictAcks` | KEY_EVICTION in both directions |
| `untold`, `unpushed` | history |

`RevocationOwed` (proved): whoever caches a revoked key unmarked is on the list of those to
be told, its server knows of the revocation or is owed it, and a viewer in sync has
it on its socket or will; but for the pairs a listed race has left out. The races: an
allocation that a peer inserts after the home's notice was handled is never flagged,
a local one only at the next sync; a KEY_REVOKED acked before the HTTP answer is
stored leaves the key unmarked; a repeated KEY_EVICTION deletes a newer allocation; a
foreign revocation that cannot be loaded waits for the next sync. Left out: what
becomes of reeds signed with a revoked key.

## Vouches

`Vouches.tla` models one user's vouches for the keys of others. The peer that has the
subject is asked first, both to take a reference and to drop it, and only then is the
vouch stored or withdrawn here; each request is read, sent, answered and written.

| variable | code |
|---|---|
| `vouchKey`, `vouchRow`, `settledIn` | minted ids, `user_vouches` with `user_vouches_active`, the cooldown |
| `showing` | the subject's verification window |
| `references` | the peer's `vouch_references` |
| `vouchJob`, `overdue` | requests, and calls given up on that the peer may still handle |
| `losses`, `versions`, `offered` | losses of the database, what clients hold, what they have reported since |
| `displaced`, `toldGone` | history |

`VouchesHold` (proved): a live vouch for a peer's user has its reference there until the peer
was told otherwise; a withdrawal that names another vouch names a withdrawn one; and
whatever order copies come back in, what one of them withdraws is withdrawn and what
none withdraws is back, unless another live one has its place. Met while modelling: a
lost answer leaves a reference to nothing and a retry mints a new id; a withdrawal the
peer has heard of and this server has not recorded leaves a live vouch nobody finds; a
withdrawal that was read before a re-vouch is applied to the newer one. Left out:
revoked peers, vouches a revoked key takes along.

## Removals

`Removals.tla` models how a device that keeps copies of one author's reeds hears
that a reed, a thread or the account was removed: at once when it is online, at its
next sync while it has a row, with handlers that run concurrently on the device.

| variable | code |
|---|---|
| `session`, `visits`, `finding` | connections, SYNC_REQUEST, what the catch-up has yet to look for |
| `tied` | the device's user follows the author, or has one of the author's keys allocated |
| `held`, `kept` | `reed_allocations` and the copies on the device |
| `tombstones`, `evictions` | what the device remembers of removed threads; its queue of evictions |
| `reedsGone`, `threadsGone`, `accountGone`, `lostAbroad` | the certificates |
| `minted`, `waiting`, `toDevice`, `toServer`, `answering`, `spreading` | events, frames, handlers and fanouts under way |
| `due`, `adrift` | history |

Actions carry the frames' names where the code has them; `AskFrame`, `AckedFrame`
and `OpenSocket` are the device's REQUEST_REED, its acknowledgements and its
connection.

`RemovalsHeard` (proved): every copy a device keeps has a row or is on its way to one or off
the device, and a device that has heard out the catch-up keeps nothing that was
removed before it synced. Copies are *adrift* when their DATA_ACK was lost with the
socket or overtaken by the ack of a removal; these have no row and hear of nothing.

Met while modelling: `GetMissingAccountRemovals` (`services.go:9860`) looks the
certificate of a peer's user up under this server's id, finds none and returns
nothing for *any* removed account, for ever (`lostAbroad`); its comment promises
authors of held reeds, while the query goes by follows and key allocations, and a
KEY_REVOKED takes the latter away; `GetMissingRemovals` returns nothing if one
certificate cannot be loaded; an online holder who neither follows nor watches the
author hears only at its next sync; the device stores a copy without looking at its
tombstones of reeds and accounts.

## Restore

`Restore.tla` models the signed records devices report to a rebuilt server. A record
whose keys or predecessor are missing is parked, and what brings them back wakes it.
A peering comes back the same way (`ReportServers`), from the records of both servers,
and until one stands what the peer's users (`PeerUsers`) have signed is refused. That no
subject of a record is a user's id, as the primary keys they stand for are of different
kinds, is `SubjectsAssumption`.

| variable | code |
|---|---|
| `claimedUsers`, `restored`, `standing`, `echoes` | users whose keys are back; what was stored, and what stands per subject |
| `parkedRecords` | `pending_recovery_records` |
| `restorer`, `inHand`, `reports`, `deaths` | requests, the records they woke, how many there were, how many ended early |
| `forgotten`, `mixed` | history |

`RestoresSettle` (proved): a reported record is stored, parked under something still missing, or
among those a listed race has forgotten; and which record stands for a subject does not
depend on the order of the reports, unless two requests wrote the subject at once. The
races: the park is a statement of its own after the rolled-back transaction, so it may
come after the wake; the wake takes its records out (`DELETE … RETURNING`) before it
retries them, so an error or a crash loses records that were answered "pending";
`saveFollowCertTx`'s `FOR UPDATE` locks nothing while there is no row; an echo and its
removal restored at once leave an echo of a removed reed. Likes, blocks, threads and
removals share the "held already, else insert" pattern of the kind `removal`.

## Watching

`Watching.tla` models the live numbers below one reed for viewers of its home server
and of a peer: a row at the viewer's server, one at home, and pushes across.

| variable | code |
|---|---|
| `number`, `rowsHome`, `rowsPeer` | the count; `reed_subscriptions` at both ends |
| `page`, `shown`, `sock` | the viewer's page, what it shows, its socket's goroutine |
| `bidding`, `notices` | ends of sessions and boot notices the home server has yet to hear |
| `notifier` | notifications under way, with the number and the rows they have read |
| `outdated`, `missedOut`, `leftOpen`, `toldLost` | history |

`WatchersHear` (proved): with nothing under way, a viewer's open page shows the number of the
home server and no row is left for somebody who looks away, but for those a listed
race has reached. The comment at `realtime.go:2475` says that a reconnect never races
the end of a session; the home server deletes by viewer and reed, so the quick
reconnect's new row is deleted and the viewer never hears again. A push answered 404
drops a row that was made in between; the boot notice runs in the background while
clients already subscribe; a failed subscription is only logged; two notifications may
deliver the older number last. Left out: profile subscriptions, pipes, several peers, a
call handled after its caller gave up.

## ServerKeys

`ServerKeys.tla` models two peers that replace their signing keys. A request signed
with a key nobody knows makes the server fetch the caller's revocations, one after
another, from the pinned key to the one in use, with requests that the caller
authenticates in turn.

| variable | code |
|---|---|
| `retired` | `server_key_revocations` in order, compromised or not |
| `pin`, `promoted` | `server_mesh.key_id`, the peer's keys it has rows of |
| `chased` | `peerKeyUpdateAttempts` of the last five minutes |
| `announced` | `peer_event_queue` rows of the kind for a new key |
| `attendant` | requests whose key is being looked into: where they are in the walk, and for whom |
| `approved`, `denounced`, `behind` | history |

| property | what it says |
|---|---|
| `HandedOver` | a trusted key was handed on by its owner, from the one an admin approved, and none on the way as compromised (proved) |
| `KeysFollow` | a peer that was told follows or has cleared its pin for cause, and a key known to be compromised is not trusted again; unless it is `behind` (proved) |

A server is *behind* when both rotated at once and each one's walk is refused for the
key the other does not know, with the throttle closing both out for five minutes, again
and again (against `operators.md:101`, "peer servers follow the new key on their own");
when a walk was lost or given up after ten successors, though the tenth may be in use;
or when a late unconditional `RepinPeerKey` moved the pin back or undid a
`ClearPeerPin`. A 403 met meanwhile makes the caller drop its queued event, and a
cleared pin keeps the peer established, so that a new handshake is refused until it is
disconnected and purged. Left out: the walks of clients; keys replaced while the server
runs.

## Sessions

`Sessions.tla` models whose session is open: handshakes, device bindings and
bootstraps look up key, removal, suspension and device in statements of their own; what
ends a session is committed first and closes sockets afterwards.

| variable | code |
|---|---|
| `bound`, `keyInUse`, `restrictedKey`, `sanctions` | `user_devices`, `users.active_key_id`, a rebound key, suspension and removal |
| `challenges`, `issued` | `account_recovery_challenges` |
| `call` | handshakes and requests with what they have looked up |
| `open`, `owedKicks` | `userConnections` of the user; committed decisions whose `disconnectLocal` is yet to come |
| `rebound`, `lookedEarly` | history |

`SessionIsBoundUnlessEarly` (proved): once everything that was decided has closed its
sockets, the open session is of the bound device, of a user who may be here and of a key
made since the last rebind, unless its handshake had looked before a kick that found it
unregistered. That exception is the code's: nothing looks again after `registerClient`.
Also met: a plain key rotation closes nothing; of two bindings at once the later fails
on `user_devices_one_active_per_user` with a 500; a late kick may close the new
device's socket; a crash between commit and kick loses the kick, but every socket too;
a user's own DELETE /users/me closes no socket; a bootstrap checks neither suspension
nor restriction. Left out: nonces and timestamps, the import gate, several replicas.

## Blocks

`Blocks.tla` models one user blocking another of the same server.

| variable | code |
|---|---|
| `blockCert`, `owedBlock`, `stands` | `user_blocks`, `block_event_queue`, the rows the blocked user has of the other (follow, like, copy) |
| `wanted` | requests between the look-up that may refuse them and their write |
| `saying`, `syncing`, `toBlocked`, `acks`, `connected` | goroutines, the catch-up, frames, the acks with the event each answers, the socket |
| `blockedBy`, `hasCopy` | the device's store |
| `switches`, `marks`, `leftBy`, `slippedIn`, `dropsNewer` | serials of the pair's changes, and history |

`BlocksSettle` (proved): while a block holds, the blocked user has no follow, no row of a copy
and no like of the other's but those the block leaves (a block drops no likes) and those
whose look-up came before it; a listed holder has the copy; and with nothing owed the
device knows whether it is blocked, unless it handled messages in the wrong order or an
ack of one kind settled a later event of that kind. Met while modelling: the owed row may
be created after its block was lifted; the catch-up reads the row and then the
certificate; a block and its lift while the device is away leave only "unblock" owed, so
the device keeps what the block should have taken; a late block message makes the device
drop a newer copy whose row stays; a second `BlockUser` at once is answered with the
stored certificate. Blocks that cross to a peer are in PeerQueue.

## Ripples

`Ripples.tla` models the short-lived responses below one reed at its home, and one
page that shows them.

| variable | code |
|---|---|
| `today`, `activity`, `response`, `left` | the clock, `ripples.last_activity_at`, `ripple_responses`, `account_removals` |
| `posting`, `unsent` | requests with the time they took; messages not on the channel yet |
| `step`, `subscribed`, `fetched`, `onPage`, `deadline`, `alight`, `burnt`, `storing` | the page (`RipplesSection.svelte`): `alight` while `burnTimer` runs, with its handlers |
| `ended`, `amid`, `slow`, `prolonged`, `blurred` | history |

`RipplesHold` (proved): what was idle for `rippleTTL` is never listed again; a removed
account says nothing but what it was posting at that moment; and an open page that is not
burning and whose messages are handled lists what its server lists and burns the thread
when the server does, but for what the page had no way to get right. That is a good deal:
a viewer's deadline is not moved by others' posts, so a page burns a live thread early and
ignores what comes; a page opened on an empty thread never counts down; the list and the
activity are read apart; the list replaces what came in live; an update that finishes
while its post still waits in `storeRipple` is lost. A page burns in two steps: its
countdown starts `burnTimer` (`TriggerExpiry`), which empties the page later
(`BurnAway`). A post of one's own in between, or after the deadline and before the
countdown notices, starts a new thread at the server and a new deadline on the page, but
keeps what the server has just dropped; and `handleComposerPosted` does not clear
`burnTimer`, so that the new thread is burnt away with the old one
(`RipplesSection.svelte:112` and `:406`). Also met: `PostRipple`'s `now` is older than its
commit, so that of two posts in one thread the one that commits later may move
`last_activity_at` back; a post that races its author's removal stays; a reply below a swept thread is
answered 500. Left out: responses below a foreign reed, blocks, the mailbox, reed
removal, pagination.

## RecoveryRun

`RecoveryRun.tla` models one browser that brings its account back: the import of a full
backup, the recovery run that reports to the server what it lost, and the gate that keeps
the app away meanwhile. Where it stands is in localStorage alone, written item by item.

| variable | code |
|---|---|
| `importRun`, `recoveryRun`, `workLedger` | the markers of `importRun.ts`, `recoveryRun.ts` and the ledger of `recoveryProgress.ts` |
| `signedIn`, `whole`, `place`, `doing`, `restoring` | localStorage's user, IndexedDB, the page and what it is at |
| `report`, `erred`, `late`, `probedThisSession` | the runner's open call, failures of the pass, a call given up |
| `account`, `boundTo`, `told` | the server: the account's state, its device, what it was told |
| `wipes`, `others` | rebuilds of the server, steps of another device |
| `outlived`, `reopened`, `inPlace` | history |

`RecoveryHolds` (proved): what the ledger calls finished the server was told; units are reported
in the order the server needs; an open run has work left; marker, ledger and the server's
account agree about when the app may be used; the only state without a page that leads on
is the one below; and half a restore is no account. Met while modelling: a device that
recovers in place, without an import, is sent from `/recovery` to `/import` and from there
offers only a full backup or Cancel, which discards the database (`restoreFlow.ts:30`,
`routes/recovery/+page.svelte:69`); a full backup holds all of localStorage, so an older
run's markers and finished ledger overwrite those of the run just started
(`backupRestore.ts:433`), and a resumed run has nothing left to do and stays gated; a
server rebuilt during a run answers every report 401; an abandoned claim handled late puts
a completed account back to ongoing; items that fail to restore are skipped silently.
Left out: two tabs, the IndexedDB stores, eviction.

## IdentityBackup

`IdentityBackup.tla` models the server's identity and the bundles that bring it back:
`ops export-identity`, `import-identity`, `rotate-key`, `rotate-passphrase`, the boot
that refuses while the newest key is newer than the backup, and the loss of the database.
Each `ops` command is a process of its own; what it reads in separate statements is in
separate steps.

| variable | code |
|---|---|
| `self` | `server_self`, `private_keys`, `server_key_revocations`, `identity_backup_at` |
| `bundles` | the files exported |
| `upWith` | the running server: its key and the backup it found |
| `exporting`, `rotating`, `rewrapping` | commands under way |
| `passphrase` | what `resolvePassphrase` returns |
| `second` | time as it is stored; keys, identities, passphrases and disasters are counted |

`BackupHolds` (proved): a server runs only with a key that a bundle holds, or that was
made no later than the second of the backup and committed no earlier; a bundle that
cannot be used stems from an export a rotation cut in two; and one passphrase opens all
rows of the database and of each bundle, unless a rotation committed amid a re-wrap.

Met while modelling: `staleIdentityBackupMessage` (`recovery.go:246`) compares whole
seconds, so a key made in the second of the export, or minted before it and committed
after it, counts as backed up though no bundle holds it; a rotation between the export's
first two reads gives a bundle whose signing key is revoked, and the server imported from
it can neither boot nor rotate; `rotate-passphrase` lists the rows outside its
transaction, so a key made meanwhile stays under the old passphrase, after which neither
another rotation of the passphrase nor an import works with one passphrase; a crash
between its commit and the keychain's `Store` leaves the old passphrase there; importing
an older bundle rewinds the key, and the next rotation forks the chain of successors;
starting on an empty database without RECOVERY_MODE mints an identity that the import
then refuses. Left out: the root user's key, a changed server name, deleted or truncated
files, two exports at once.

## The parts together

`MCServer.tla` and `MCCopies.tla` compose parts that share no state in their models as
alternatives: `worked` picks a part in the initial state and only that part moves, so one
run checks all of them on a state space that is the sum of theirs. MCServer has Publish,
Replies, AdminRequests, Invites, RecoveredAccounts, Flags, Vouches, Restore,
Watching, ServerKeys, Sessions, Ripples and IdentityBackup; MCCopies, which follows copies
of reeds, the Relay, Border, Removals, Keys, Blocks, RecoveryRun and Mesh.

| run | bounds | states | shows |
|---|---|---|---|
| `server_parts` | see below | 1.25 M | all safety properties of the thirteen parts |
| `relay_fanout` | see below | 1.92 M | those of the seven |
| `reply_counts` | five reeds of one conversation, three authors, one of them a peer's | stops at the trace | `RemovalUndoesOneReply` fails |

Bounds, part by part; each is the smallest in which everything the part is about meets.

* *Relay* in MCCopies: author, broadcast subscriber and follower, one reed, two events.
* *Border* two readers (one asks, one is a fan of the new reed), one crossing, two events
  on each side, losses, a holder that comes and goes.
* *Removals* one reed, one removal, two events a connection, two connections.
* *Keys* two keys, a local viewer and a peer's, one fetch or frame of each kind.
* *Blocks* three changes of the pair, one wish, two connections.
* *RecoveryRun* two peers, one of whom cannot be built, one refused reed, one page of
  records, one rebuild, two steps of another device.
* *Publish* three ids, a thread of two, two workers, two seconds: two devices on one tip
  in one second. *Replies* a chain and a branch over both servers.
* *AdminRequests* five members, three proposals that interfere (kick, suspend, promote on
  common people), two deciders, two requests.
* *Mesh* one invitation per side, two pasted strings, one mishap per behaviour
  (`FewMishaps`, a CONSTRAINT over the histories: two mishaps at once say nothing that
  one does not).
* *Invites* three invites of one maker, one of them an admin's, two newcomers.
* *RecoveredAccounts* three accounts, two of which want one name, one replaced by an
  older owner, two saves at once.
* *Flags* two reporters, three cases, two transactions at once, three copies that come back.
* *Vouches* one key of a peer's user and one of a local one, two requests, two vouches, one loss.
* *Restore* two identities, eight records, two requests, four reports, one death.
* *Watching* a viewer at each server, two notifications at once, two changes, one upset.
* *ServerKeys* two rotations, three requests under way, a walk of two hops at most
  (`maxServerKeyHops` is ten), one fault.
* *Sessions* two devices, two keys, two calls at once, two turns, one challenge.
* *Ripples* a thread with a reply and another thread, of which two are posted
  and at most one blurred (`FewPosts`, `FewBlurred`, CONSTRAINTS), a time to live of one over two days, one visit.
* *IdentityBackup* two keys, two identities, two passphrases, one loss, two seconds.

`MCAlike` swaps pairs of workers, servers, newcomers, calls and the like that are alike,
in all of MCServer's parts at once since only one is worked; it is sound because no
property names one of them. The `VIEW` of MCServer leaves out the variables of the parts
that are not worked, which keep their initial values. Deadlock is not checked: the
numbers of requests are bounded, and a part whose requests are used up is at rest.

Every "...Unless..." above has a history variable that records that one named race has
happened, set in the step that loses it. With the race absent the property is
unconditional, and the mutants show that each property still catches a bug in the
code it is about.

## Proofs

Each theorem holds for every value of the constants that the module's assumption
allows: any sets of users, requests, goroutines, keys or rows and any bounds. Nothing
else is assumed. A safety property is hardly ever inductive as it stands, and what has
to be added is the same kind of thing in most parts: what a handler has read before its
write *stays true or is excused* while all others run. The strengthenings were checked
with TLC on the runs' bounds first. There is one lemma per action, and under it one step
per conjunct the action can disturb.

**Relay_proofs** (`RelayAssumption`, `RemovalsAssumption`)

* `TypeCorrect`, `RowsAreEarned`: `TypeOK`, `HolderWasSent`.
* `DirectoryImplemented`: `Spec => ImplementsDirectory`, that is, the engine implements
  `HolderDirectory` with `held <- alloc` and `given <- sent`.
* `HoldersLoseTheirOwn`: `Spec => OnlyHolderLosesRow`. What it adds to the invariant is
  `OwnMisses`: a miss under way is carried by the goroutine of the socket it came in on,
  and it names that socket's user as the holder to be dropped.  Every other operation a
  goroutine goes on with, or is started with, drops nobody.

`HolderWasSent` is not inductive. The row an ack writes is that of an event
marked relayed; the mark is made by an operation a goroutine carries since its
`SendToUser`; and the send went to the requester read before that. The
strengthening `Inv` therefore says what each queued operation *knows*: a
`deliver` in flight for user u and reed r has an event that, if it is still
there, is u's request for r; a `mark` in flight has an event whose reed was sent
to its requester. That knowledge survives other goroutines because event ids are
never minted twice (`Fresh`) and a row's requester and reed never change
(`RowsKept`, `CreatedKeeps`). Add `RelayedSent`: an event marked relayed is one whose
reed was sent to its requester, or one nobody is there to acknowledge, since a body may
be put on the bus, and its event marked, between the end of a socket and its teardown
(`HandedOver`); and a client comes back only once the row and the events are gone. That
an event's requester has a presence row, the table's foreign key, is a conjunct of the
invariant. `Invariance` combines the
actions' lemmas. The refinement needs the invariant only where an ack adds a row: it is
`RelayedSent` that makes the step one the directory allows.

* Removals, `RemovalsAlwaysHeard`: `RemovalsHeard`, for any finite set of reeds. What is
  due is on the socket already, or the device still has the row and the sweep of the
  catch-up that goes by it is to come (`StillOwed`); and nothing that would bring a due
  copy back, or give its row away, is on its way (`DueStands`). The frame the server
  reads next may be an ask or an eviction, which rests on what the device said when it
  sent it (`HeadStands`): the client has one of these outstanding and only acks behind
  it (`AcksFollow`).

**PeerQueue_proofs** (`PeerQueueAssumption`)

* `QueueTypes`, `NothingForgotten`, `ServersAgree`: `TypeOK`, `OwedOrHeard`,
  `AgreeUnlessMuddled`.

A drain deletes a row it read long before, so `OwedOrHeard` needs to know what
the drain may rely on while the row it holds is still the pair's (`Current`):
nothing newer was stored than what it sent, unless the peer has handled that too.
It holds because a certificate stored meanwhile either was owed, and took the
pair to a new row with a new id, or was taken by the peer before it was stored
(`Taken`). That an answer is about what its caller sent is `CallsMatch`. `Quiet`
is the lemma most steps need: a step that leaves the queue alone and stores no
certificate disturbs nobody but the goroutine that takes it.

`AgreeUnlessMuddled` says nothing of a pair in motion. `InStep` does, for every pair
that was not muddled, about all the certificates of it there are (`Around`: at a server,
with a request, in a call). Those of one second are one (`Distinct`). One request is
under way at most, and it carries the newest (`OneRequest`). A call brings nothing newer
than this server keeps, the peer has handled, or the request is about to store, nor has
the peer handled any such (`NothingNewer`): this is what makes the order of late calls
harmless. Where a transaction at the peer holds the row it is the only one, and what it
is about to store is as new as all the peer has handled (`LockNewest`): a newer one would
have had to wait. What the peer keeps is the newest it has handled, unless that was an unfollow
it has dropped, and it follows nothing this server has forgotten (`PeerKeeps`). At rest
no request is left; `OwedOrHeard` makes what the peer has handled as new as what this
server keeps, `NothingNewer` no newer, and `Distinct` makes them one. `Aside` is the
frame lemma; five steps move a pair: `signFollow`, `SaveFollowCert`, `PeerTakes` (which
`PeerReads` prepares), `Settled` and `AckFollowEvent`.

**Presence_proofs** (`PresenceAssumption`)

* `PresenceTypes`, `SingleSession`: `TypeOK`, `OneSession`.

`OneSession` is inductive with `TypeOK`: that open sockets are in the map is what
makes closing whatever `registerClient` finds there enough, and that sockets in
the map have a live goroutine is what keeps a teardown, which runs outside of the
map, from leaving one behind. `UnregisteringKeepsSession` and
`DisconnectingKeepsSession` are the two ways out of the map.

**IdentityBackup_proofs** (`IdentityBackupAssumption`, `RecoveryRunAssumption`)

* `BackupsHold`: `BackupHolds`, from `BackupInvariant`.

The invariant says what an export has read so far and how old it is (`Covered`), that a
bundle of an unusable key was cut in two by a rotation (`Torn`), and which passphrase
the rows of the database and of each bundle are under while a re-wrap goes through
its list (`Wrapped`).

* RecoveryRun, `RecoveryAlwaysHolds`: `RecoveryHolds`, from `RunInv`. A run that its gate
  holds is left by its completion alone (`InRun`, `DoneInPlace`); the open call is for the
  first unit that is due (`CallIsNext`), so that the ledger is worked off in order
  (`LedgerInOrder`). What makes the order of the reports last over rebuilds is that a
  server either takes what this device reports, and then was told all the ledger calls
  finished (`Accepting`, `ToldIsSettled`), or was rebuilt under a run that never gets on
  (`Stale`): no claim is sent again. A call given up comes in order or finds such a
  server (`LateIsHarmless`).

**ServerKeys_proofs** (`ServerKeysAssumption`)

* `KeysAreHandedOver`, `DenouncedStay`: `HandedOver` and the second half of
  `KeysFollow`, from `WalksAreSound`.
* `KeysAlwaysFollow`: `KeysFollow`.

`WalksAreSound` says what a walk may rely on: the successors it has read stay what they
are while the peer replaces further keys, what is known to be compromised is older than
what is trusted, and a walk whose fetch is being authenticated waits for that one answer.
Following needs more (`HearInv`): a server that is not *behind* trusts the key in use, or
walks to it, or is owed the notice of it; and a key of the peer's that it has a row of, or
chased in the last five minutes, is one it has reached. The second half is what makes the
throttle harmless where it is.

**Sessions_proofs** (`SessionsAssumption`, `RipplesAssumption`, `RecoveredAssumption`)

* `SessionsAreBound`: `SessionIsBoundUnlessEarly`, from `MisfitsWerePassedBy`: once every
  socket is closed that was to be, a call that no longer fits what it looked up is one
  that a kick has passed by.
* `RipplesAlwaysHold`: `RipplesHold`. `RippleInv` looks at what the page *will* list once
  the answer it has is shown (`WillList`), and at the messages on their way to it
  (`PostComes`, `UpdateComes`); `ListedRight` relates these to the response at the server,
  and `CountsToTheEnd` and `CountsNoFurther` the page's deadline to the thread's end.
* `AccountsAlwaysSettle`: `AccountsSettle`. `RowGood` says of one account what its name,
  its profile's name, its collision record and the better claim have to do with each
  other. A claim (`NameClaimed`), a profile that gives its name up (`NameGivenUp`) and an
  account that is deleted each keep that for all accounts.

**Server_proofs** (the assumptions of the modules named)

* Mesh, `PeeringAlwaysHolds`: what each end knows of the other's approval is so
  (`ApprovalsKnown`), whoever has parted from a server that counts on it has a notice on
  its way (`PartingsTold`), and what is checked and not recorded yet finds a peer nobody
  else has let in (`OneHandshake`).
* Invites, `SignupsAlwaysHold`: the lock on an invite's row (`ClaimsHeld`), room for what
  is about to be inserted (`RoomLeft`), what the claim has checked and does not lock
  (`StillAdmitted`).
* Vouches, `VouchesAlwaysHold`: what a request has read stays so until it writes
  (`VouchJobsRead`), and what the peer has agreed to it has heard of (`PeerHeard`).
* Flags, `CasesAlwaysAddUp` and the action property `CasesStayClosed`: what a
  transaction has seen (`FlagJobsRead`) and what its locks keep (`FlagLocks`).
* AdminRequests, `LedgerAlwaysTheRecord` and `DecisionsAlwaysHold`: one decision at a time
  has its turn at the ledger (`DecisionsUnderWay`), who has left is dropped from a pending
  request or will be (`DropsOwed`), an approval under way obeys the rules until another
  one commits (`StillByTheRules`). That the operator is the only root (`OneRoot`) is a
  part of it.
* Restore, `RestoresAlwaysSettle`: what a writer saw before it writes is so still or the
  subject is *mixed* (`WritersSaw`, `WritersMixed`); `OrderDoesNotShow` is carried along.
* Watching, `WatchersAlwaysHear`: what the rows at both servers say of each viewer's page
  (`RowsFor`), and where the number is that the page does not show yet (`NumberFor`).

**Copies_proofs** (the assumptions of the modules named)

* Publish, `OneHistoryHolds` and `RemovalsAlwaysReachAll`: a row hangs below one that is
  there (`RowsHang`), a removal under way fits what it found (`RemovalsFit`), and the
  queue tells the peer of a reed before its removal (`PeerFollows`).
* Keys, `RevocationAlwaysOwed`: the property, said of keys not revoked yet and of answers
  on their way too (`HoldersListed`, `HoldersHear`).
* Border, `CopiesAlwaysFindTheirAsk`: an offer is named by the ask it was registered for
  (`AsksNamed`, `AwaitsNamed`); `CrossingsStayCapped`: the cap of `CrossingsHold`, from the
  fact that decisions on a crossing come one at a time unless they *overlapped*
  (`OneDecides`).
* Border at rest, `CrossingsAlwaysHold`: that nothing is lost when the goroutines are
  done follows from what they still have to do while they are not. `RestParts` says it,
  in parts: what a goroutine's queue can look like (`Shaped`, `Handling`, `Leaving`) and
  which new ids it holds (`Minted`); for each waiting request, the local holder, the
  crossing or the goroutine that will yet hand it on (`Carried`, `Served`); and for each
  offer not parted, where its two ends are and who is about to move the one that lags
  (`EndsOf`, `EndsMeet`). It is inductive with `BorderInv`, the invariant of the two
  theorems before, and at rest the goroutines drop out of it.
* Blocks, `BlocksAlwaysSettle`: messages on their way tell the truth of some moment
  (`MessagesTrue`), what the device acknowledged it has handled (`HandledAsAcked`), and it
  has the copy whose body it acknowledged or is excused (`CopyIsThere`).

Three proofs found behaviours that the bounds of the runs had hidden, and the modules now
have them: a page of ripples that burns while a new thread starts (see Ripples; it takes
two responses below different ones), two accounts that lost one name to a third and
are both in line for it, with profiles of one second (see RecoveredAccounts), and a
crossing recorded while its reader's ack, which found none, is about to delete the
request (see Border; the copy acked came from a holder here).

### Model-checked only

* `SilenceMovesOn`, `OwedGoesOut`, `PresenceSettles`: liveness under fairness, which the
  prover cannot do.
* `CountedUnlessSkewed` (Replies): counts over all descendants in a tree of any depth need
  induction over data, which the prover cannot do.
* `NoFollowerMissed` (Relay), and the types of the parts together (`PartsTypeOK`,
  `CopiesTypeOK`), each of which is proved where a proof above needs it.

## Not modelled

* The browser client's own sockets, pages and stores, but for what Removals, Blocks,
  Ripples, RecoveryRun and the acks of Relay say of it; what a browser evicts on its own.
* HTTP middlewares, rate limits, signatures, encryption and the wire format: a signature
  is valid, a body readable, and a request reaches its handler once.
* Tags, mentions, echoes and chorus, the mailbox: each is an insert or a delete in the
  transaction of a reed; their counters follow the pattern of Replies.
* Statistics, lists and searches that admins and users are shown: read-only.
* The verification window of vouches and reeds: time passing against a constant.
* Several replicas beyond what the bus does to a relay and a presence; profile
  subscriptions and the pipes between peers.
* What a peer answers for another one, and the walk of a client along server keys.
* Generated code (`proto/*.pb.go`), table definitions, configuration and `ops` commands
  that read only.
