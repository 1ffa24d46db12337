------------------------------- MODULE Blocks -------------------------------
(***************************************************************************)
(* One user blocks another of this server (blocks.go).  The block takes    *)
(* away what the blocked user has of the blocking one; what the blocked    *)
(* user asks for is refused, in a look-up of its own before the write; and *)
(* the blocked user's device is told, at once when it is connected and at  *)
(* its next sync until it acknowledges.                                    *)
(***************************************************************************)
EXTENDS Naturals, Sequences

CONSTANTS
    MaxSwitches,    \* BOUND: blocks and lifts
    MaxWrites,      \* BOUND: things the blocked user asks for
    MaxSessions     \* BOUND: connections of the blocked user's device

ASSUME BlocksAssumption == MaxSwitches \in Nat /\ MaxWrites \in Nat /\ MaxSessions \in Nat \ {0}

\* What the blocked user may have of the blocking one: follow_certs with its
\* edges, a row of reeds_liked, a row of reed_allocations.
Writes == {"follow", "like", "copy"}

VARIABLES
    switches,   \* how often the pair changed; also the serial of the latest change
    blockCert,  \* user_blocks: serial of the pair's block, 0 for no row
    owedBlock,  \* block_event_queue: the pair's row, or NoEventRow
    saying,     \* messages goroutines have made and not yet put on the socket
    syncing,    \* catchUpBlocks: "no", "events" to be read, "cert" to be looked up
    connected,  \* is the device's socket in the map?
    sessions,   \* how many there were
    toBlocked,  \* on their way to the device
    acks,       \* on their way from it
    blockedBy,  \* the device's own store: is there a block?
    hasCopy,    \* and the blocking user's reed?
    stands,     \* what the server has rows of
    wanted,     \* write -> how far its request is, the serial its look-up saw, its number
    wishes,     \* how many there were
    marks,      \* history: serials of what the device handled last, and of the latest it did,
                \* of the latest event dropped for an older one's ack, and of the latest block
    leftBy,     \* history: the likes the latest block left
    slippedIn,  \* history: rows stored after a block their look-up had not seen
    dropsNewer  \* history: the device handled a block older than its request of the copy

blockVars == <<switches, blockCert, owedBlock, saying, syncing, connected, sessions, toBlocked,
               acks, blockedBy, hasCopy, stands, wanted, wishes, marks, leftBy, slippedIn,
               dropsNewer>>

NotAsked == [at |-> "no", since |-> 0, event |-> 0]

\* USER_BLOCKED and USER_UNBLOCKED with the serial of what they tell of, the
\* row that owes one, and the body of a reed with the event it answers.
Message(kind, n) == [kind |-> kind, at |-> n]
NoEventRow == Message("none", 0)
Body(n) == Message("data", n)

BlocksInit ==
    /\ switches = 0 /\ blockCert = 0 /\ owedBlock = NoEventRow
    /\ saying = {} /\ syncing = "no" /\ connected = TRUE /\ sessions = 1
    /\ toBlocked = <<>> /\ acks = <<>> /\ blockedBy = FALSE /\ hasCopy = TRUE
    /\ stands = {"follow", "copy"}
    /\ wanted = [w \in Writes |-> NotAsked] /\ wishes = 0
    /\ marks = [last |-> 0, latest |-> 0, lost |-> 0, block |-> 0]
    /\ leftBy = {} /\ slippedIn = {} /\ dropsNewer = FALSE

\* The event rows of requests for a body are gone.
EventsGone ==
    wanted' = [w \in Writes |-> IF wanted[w].at \in {"event", "sent"} THEN NotAsked
                                 ELSE wanted[w]]

----------------------------------------------------------------------------
(* The blocking user.                                                      *)

\* applyBlockEffectsTx: follow, copies and their events go, likes stay.
\* Variant that must fail: the rows of copies are left.
ApplyBlockEffects_KeepsCopies ==
    /\ stands' = stands \ {"follow"}
    /\ EventsGone
ApplyBlockEffects ==
    /\ stands' = stands \ {"follow", "copy"}
    /\ EventsGone

\* oweBlockEventTx: the pair has one row, of its latest state.
Owe(kind) == owedBlock' = Message(kind, switches + 1)

\* BlockUser, to the commit of InsertBlock; afterBlock says so.  A second
\* request at once is answered with the first one's certificate.
BlockUser ==
    /\ blockCert = 0 /\ switches < MaxSwitches
    /\ switches' = switches + 1 /\ blockCert' = switches + 1
    /\ ApplyBlockEffects
    /\ Owe("block")
    /\ saying' = saying \cup {Message("block", switches + 1)}
    /\ marks' = [marks EXCEPT !.block = switches + 1]
    /\ leftBy' = stands \cap {"like"} /\ slippedIn' = {}
    /\ UNCHANGED <<syncing, connected, sessions, toBlocked, acks, blockedBy, hasCopy, wishes,
                   dropsNewer>>

\* DeleteBlock: without a row there is nothing to lift, and nothing is owed.
DeleteBlock ==
    /\ blockCert # 0
    /\ blockCert' = 0
    /\ Owe("unblock")

\* UnblockUser and afterUnblock: nothing that the block dropped comes back.
UnblockUser ==
    /\ switches < MaxSwitches
    /\ switches' = switches + 1
    /\ DeleteBlock
    /\ saying' = saying \cup {Message("unblock", switches + 1)}
    /\ UNCHANGED <<syncing, connected, sessions, toBlocked, acks, blockedBy, hasCopy, stands,
                   wanted, wishes, marks, leftBy, slippedIn, dropsNewer>>

\* pushBlock, pushUnblock, and what catchUpBlocks and a refusal send.
Say(m) ==
    /\ saying' = saying \ {m}
    /\ toBlocked' = IF connected THEN Append(toBlocked, m) ELSE toBlocked
    /\ UNCHANGED <<switches, blockCert, owedBlock, syncing, connected, sessions, acks, blockedBy,
                   hasCopy, stands, wanted, wishes, marks, leftBy, slippedIn, dropsNewer>>

----------------------------------------------------------------------------
(* The device's connection, and what it is told.                        *)

\* A sync follows every connection.
ConnectBlocked ==
    /\ ~connected /\ sessions < MaxSessions
    /\ connected' = TRUE /\ sessions' = sessions + 1 /\ syncing' = "events"
    /\ UNCHANGED <<switches, blockCert, owedBlock, saying, toBlocked, acks, blockedBy, hasCopy,
                   stands, wanted, wishes, marks, leftBy, slippedIn, dropsNewer>>

\* Some of what the device sent was read and is still handled.  The pending
\* events go with the user's presence row.
DisconnectBlocked ==
    /\ connected
    /\ connected' = FALSE /\ toBlocked' = <<>>
    /\ \E n \in 0 .. Len(acks) : acks' = SubSeq(acks, 1, n)
    /\ EventsGone
    /\ UNCHANGED <<switches, blockCert, owedBlock, saying, syncing, sessions, blockedBy, hasCopy,
                   stands, wishes, marks, leftBy, slippedIn, dropsNewer>>

\* catchUpBlocks reads the row,
ReadBlockEvents ==
    /\ syncing = "events"
    /\ syncing' = IF owedBlock.kind = "block" THEN "cert" ELSE "no"
    /\ saying' = saying \cup {m \in {owedBlock} : m.kind = "unblock"}
    /\ UNCHANGED <<switches, blockCert, owedBlock, connected, sessions, toBlocked, acks, blockedBy,
                   hasCopy, stands, wanted, wishes, marks, leftBy, slippedIn, dropsNewer>>

\* and then, for a block, the certificate: nothing is sent when it is gone.
LookUpBlock ==
    /\ syncing = "cert"
    /\ syncing' = "no"
    /\ saying' = saying \cup {Message("block", n) : n \in {blockCert} \ {0}}
    /\ UNCHANGED <<switches, blockCert, owedBlock, connected, sessions, toBlocked, acks, blockedBy,
                   hasCopy, stands, wanted, wishes, marks, leftBy, slippedIn, dropsNewer>>

\* receiveBlock drops what it holds of the blocking user; receiveUnblock only
\* the block.  Both acknowledge the kind.
ReceiveSwitch ==
    /\ toBlocked # <<>> /\ Head(toBlocked).kind # "data"
    /\ LET m == Head(toBlocked) IN
       /\ blockedBy' = (m.kind = "block")
       /\ hasCopy' = (hasCopy /\ m.kind # "block")
       /\ acks' = Append(acks, m)
       /\ marks' = [marks EXCEPT !.last = m.at,
                                  !.latest = IF m.at > marks.latest THEN m.at ELSE marks.latest]
       /\ dropsNewer' = (dropsNewer \/ (m.kind = "block" /\ m.at < wanted["copy"].since))
    /\ toBlocked' = Tail(toBlocked)
    /\ UNCHANGED <<switches, blockCert, owedBlock, saying, syncing, connected, sessions, stands,
                   wanted, wishes, leftBy, slippedIn>>

\* DeleteBlockEvent: only a row of the kind that was acknowledged.
\* Variant that must fail: whatever is owed for the pair.
Settles_Any(m) == TRUE
Settles(m) == owedBlock.kind = m.kind

\* ackBlockEvent.  A socket's messages are handled one after the other.
AckSwitch ==
    /\ acks # <<>> /\ Head(acks).kind # "data" /\ wanted["copy"].at # "acked"
    /\ acks' = Tail(acks)
    /\ owedBlock' = IF Settles(Head(acks)) THEN NoEventRow ELSE owedBlock
    /\ marks' = [marks EXCEPT !.lost =
           IF owedBlock.kind = Head(acks).kind /\ owedBlock.at > Head(acks).at
           THEN owedBlock.at ELSE @]
    /\ UNCHANGED <<switches, blockCert, saying, syncing, connected, sessions, toBlocked, blockedBy,
                   hasCopy, stands, wanted, wishes, leftBy, slippedIn, dropsNewer>>

----------------------------------------------------------------------------
(* What the blocked user asks for.                                         *)

\* refuseIfBlocked and refuseBlockedRequester answer with the certificate.
\* Variant that must fail: a like is not looked up for.
Refused_NotForLikes(w) == blockCert # 0 /\ w # "like"
Refused(w) == blockCert # 0

RequestIt(w) ==
    /\ connected /\ wishes < MaxWrites /\ wanted[w].at = "no"
    /\ w \notin stands /\ (w = "copy" => ~hasCopy)
    /\ wishes' = wishes + 1
    /\ wanted' = IF Refused(w) THEN wanted
                  ELSE [wanted EXCEPT ![w] = [at |-> "looked", since |-> switches,
                                          event |-> wishes + 1]]
    /\ saying' = IF Refused(w) THEN saying \cup {Message("block", blockCert)} ELSE saying
    /\ UNCHANGED <<switches, blockCert, owedBlock, syncing, connected, sessions, toBlocked, acks,
                   blockedBy, hasCopy, stands, marks, leftBy, slippedIn, dropsNewer>>

SignFollow == RequestIt("follow")
LikeReed == RequestIt("like")
RequestReedBody == RequestIt("copy")

\* The row is there, whatever became of the pair since the look-up.
Stored(w) ==
    /\ stands' = stands \cup {w}
    /\ slippedIn' = IF wanted[w].since < marks.block THEN slippedIn \cup {w}
                    ELSE slippedIn \ {w}

StoreWrite(w) ==
    /\ wanted[w].at = "looked"
    /\ Stored(w)
    /\ wanted' = [wanted EXCEPT ![w] = NotAsked]
    /\ UNCHANGED <<switches, blockCert, owedBlock, saying, syncing, connected, sessions, toBlocked,
                   acks, blockedBy, hasCopy, wishes, marks, leftBy, dropsNewer>>

\* No block is looked up.
TakeBack(w) ==
    /\ w \in stands /\ wishes < MaxWrites
    /\ wishes' = wishes + 1
    /\ stands' = stands \ {w}
    /\ UNCHANGED <<switches, blockCert, owedBlock, saying, syncing, connected, sessions, toBlocked,
                   acks, blockedBy, hasCopy, wanted, marks, leftBy, slippedIn, dropsNewer>>

SaveFollow == StoreWrite("follow")
InsertReedLike == StoreWrite("like")
UnfollowUser == TakeBack("follow")
UnlikeReed == TakeBack("like")

\* createPendingReedEvent: the event's row needs the user's presence row.
CreateBodyEvent ==
    /\ wanted["copy"].at = "looked"
    /\ wanted' = [wanted EXCEPT !["copy"] = IF connected THEN [@ EXCEPT !.at = "event"]
                                              ELSE NotAsked]
    /\ UNCHANGED <<switches, blockCert, owedBlock, saying, syncing, connected, sessions, toBlocked,
                   acks, blockedBy, hasCopy, stands, wishes, marks, leftBy, slippedIn, dropsNewer>>

\* A holder relays the body.
DeliverBody ==
    /\ wanted["copy"].at = "event"
    /\ wanted' = [wanted EXCEPT !["copy"].at = "sent"]
    /\ toBlocked' = Append(toBlocked, Body(wanted["copy"].event))
    /\ UNCHANGED <<switches, blockCert, owedBlock, saying, syncing, connected, sessions, acks,
                   blockedBy, hasCopy, stands, wishes, marks, leftBy, slippedIn, dropsNewer>>

ReceiveBody ==
    /\ toBlocked # <<>> /\ Head(toBlocked).kind = "data"
    /\ hasCopy' = TRUE
    /\ toBlocked' = Tail(toBlocked) /\ acks' = Append(acks, Head(toBlocked))
    /\ UNCHANGED <<switches, blockCert, owedBlock, saying, syncing, connected, sessions,
                   blockedBy, stands, wanted, wishes, marks, leftBy, slippedIn, dropsNewer>>

\* handleDataAck reads the event: for one that is gone there is nothing to do.
ReadAcked ==
    /\ acks # <<>> /\ Head(acks).kind = "data" /\ wanted["copy"].at # "acked"
    /\ acks' = Tail(acks)
    /\ wanted' = [wanted EXCEPT !["copy"].at =
           IF @ = "sent" /\ wanted["copy"].event = Head(acks).at THEN "acked" ELSE @]
    /\ UNCHANGED <<switches, blockCert, owedBlock, saying, syncing, connected, sessions, toBlocked,
                   blockedBy, hasCopy, stands, wishes, marks, leftBy, slippedIn, dropsNewer>>

\* AllocateReed.
AllocateCopy ==
    /\ wanted["copy"].at = "acked"
    /\ Stored("copy")
    /\ wanted' = [wanted EXCEPT !["copy"].at = "no"]
    /\ UNCHANGED <<switches, blockCert, owedBlock, saying, syncing, connected, sessions, toBlocked,
                   acks, blockedBy, hasCopy, wishes, marks, leftBy, dropsNewer>>

BlocksNext ==
    \/ BlockUser \/ UnblockUser
    \/ \E m \in saying : Say(m)
    \/ ConnectBlocked \/ DisconnectBlocked \/ ReadBlockEvents \/ LookUpBlock
    \/ ReceiveSwitch \/ AckSwitch
    \/ SignFollow \/ SaveFollow \/ UnfollowUser
    \/ LikeReed \/ InsertReedLike \/ UnlikeReed
    \/ RequestReedBody \/ CreateBodyEvent \/ DeliverBody \/ ReceiveBody \/ ReadAcked \/ AllocateCopy

BlocksSpec == BlocksInit /\ [][BlocksNext]_blockVars

----------------------------------------------------------------------------
Serials == 0 .. MaxSwitches
Messages == [kind : {"block", "unblock"}, at : Serials]
Bodies == [kind : {"data"}, at : 0 .. MaxWrites]

BlocksTypeOK ==
    /\ switches \in Serials /\ blockCert \in Serials
    /\ owedBlock \in Messages \cup {NoEventRow} /\ saying \subseteq Messages
    /\ syncing \in {"no", "events", "cert"}
    /\ connected \in BOOLEAN /\ sessions \in 1 .. MaxSessions
    /\ toBlocked \in Seq(Messages \cup Bodies) /\ acks \in Seq(Messages \cup Bodies)
    /\ blockedBy \in BOOLEAN /\ hasCopy \in BOOLEAN
    /\ stands \subseteq Writes /\ leftBy \subseteq {"like"} /\ slippedIn \subseteq Writes
    /\ wanted \in [Writes -> [at : {"no", "looked", "event", "sent", "acked"}, since : Serials,
                            event : 0 .. MaxWrites]]
    /\ wishes \in 0 .. MaxWrites
    /\ marks \in [last : Serials, latest : Serials, lost : Serials, block : Serials]
    /\ dropsNewer \in BOOLEAN

\* While a block holds, the blocked user has no follow and no row of a copy
\* of the blocking one, and no like that the block did not leave; unless the
\* look-up of the request that stored it was before the block.
NothingStandsAgainst == blockCert # 0 => stands \subseteq slippedIn \cup leftBy

\* Whoever the server lists as a holder has the copy; unless its row slipped
\* in, or the device obeyed a block that was lifted when it wishes.
ListedHolderHasCopy == "copy" \in stands => hasCopy \/ "copy" \in slippedIn \/ dropsNewer

\* With nothing under way or owed, the device knows whether it is blocked;
\* unless it handled two messages in the wrong order, or its acknowledgement
\* of one settled a later one of the same kind.
DeviceKnows ==
    (/\ saying = {} /\ syncing = "no" /\ toBlocked = <<>> /\ acks = <<>>
     /\ owedBlock = NoEventRow) =>
        \/ blockedBy = (blockCert # 0)
        \/ marks.last < marks.latest \/ marks.lost > marks.latest

BlocksSettle == NothingStandsAgainst /\ ListedHolderHasCopy /\ DeviceKnows
=============================================================================
