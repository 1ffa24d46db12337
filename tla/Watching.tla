------------------------------ MODULE Watching ------------------------------
(***************************************************************************)
(* The live numbers of one reed (SUBSCRIBE_REED, REED_COVERAGE, ...): its  *)
(* viewers have rows in reed_subscriptions, those of a peer one on each    *)
(* server.  A change is read and sent by a goroutine of its own, and to a  *)
(* peer once for all its viewers; a peer nobody watches from any more      *)
(* answers 404 and its rows are dropped.  Restarts, disconnects and lost   *)
(* calls leave rows behind, or take one away from somebody who watches.    *)
(***************************************************************************)
EXTENDS Naturals, FiniteSets

CONSTANTS
    Watchers,           \* users who may look at the reed (model values)
    PeerWatchers,       \* those of the peer
    Notifiers,          \* goroutines that tell of a change
    MaxChanges,         \* BOUND: changes of the number
    MaxSubscribes,      \* BOUND: times a page is opened or a viewer comes back
    MaxUpsets           \* BOUND: lost calls and restarts

ASSUME WatchingAssumption ==
    /\ PeerWatchers \subseteq Watchers
    /\ MaxChanges \in Nat /\ MaxSubscribes \in Nat /\ MaxUpsets \in Nat

Unsent == [step |-> "idle"]
Resting == [step |-> "idle"]

VARIABLES
    number,         \* the count at the home server
    rowsHome,       \* viewers with a row at the home server
    rowsPeer,       \* viewers with a row at the peer
    page,           \* viewer -> "closed", "away" (open, no socket) or "open"
    shown,          \* viewer -> the number on the page
    sock,           \* viewer -> what the goroutine of the socket is doing
    bidding,        \* viewers whose end of session the home server has yet to hear
    notifier,       \* notifier -> what it is doing
    notices,        \* boot notices under way: the servers they come from
    subscribes,     \* how many were made
    upsets,         \* how many there were
    toldLost,       \* viewers told that the home server was lost
    outdated,       \* history: viewers whose number an older one replaced
    missedOut,      \* history: viewers whose row was not made, or was taken from them
    leftOpen        \* history: viewers of the peer whose end was not heard of

watchVars == <<number, rowsHome, rowsPeer, page, shown, sock, bidding, notifier, notices,
               subscribes, upsets, toldLost, outdated, missedOut, leftOpen>>

WatchInit ==
    /\ number = 0 /\ rowsHome = {} /\ rowsPeer = {}
    /\ page = [v \in Watchers |-> "closed"] /\ shown = [v \in Watchers |-> 0]
    /\ sock = [v \in Watchers |-> Resting] /\ bidding = {}
    /\ notifier = [n \in Notifiers |-> Unsent] /\ notices = {}
    /\ subscribes = 0 /\ upsets = 0
    /\ toldLost = {} /\ outdated = {} /\ missedOut = {} /\ leftOpen = {}

Local == Watchers \ PeerWatchers
Looking(v) == page[v] = "open"
SockIs(v, step) == sock[v].step = step
SockTo(v, to) == sock' = [sock EXCEPT ![v] = to]

\* A message with number n reaches the pages in vs that are open.
Show(vs, n) ==
    /\ shown' = [v \in Watchers |-> IF v \in vs /\ Looking(v) THEN n ELSE shown[v]]
    /\ outdated' = {v \in outdated : v \notin vs \/ n < number}
                \cup {v \in vs : Looking(v) /\ n < shown[v]}

----------------------------------------------------------------------------
(* Subscribing.  The row is made before the number is read.                *)

\* CreateReedSubscription: a row that is there already is left alone.
WithRow(rows, v) == rows \cup {v}
\* GetReedSubscription, DeleteReedSubscription
WithoutRow(rows, v) == rows \ {v}

\* subscribeReedToPeer, with the viewer's own row already made
AskHome(v) == SockTo(v, [step |-> "asking"])

Subscribe(v) ==
    /\ page[v] # "open" /\ SockIs(v, "idle") /\ subscribes < MaxSubscribes
    /\ subscribes' = subscribes + 1
    /\ page' = [page EXCEPT ![v] = "open"]
    /\ leftOpen' = leftOpen \ {v}
    /\ IF v \in Local
       THEN rowsHome' = WithRow(rowsHome, v) /\ SockTo(v, [step |-> "reading"]) /\ UNCHANGED rowsPeer
       ELSE rowsPeer' = WithRow(rowsPeer, v) /\ AskHome(v) /\ UNCHANGED rowsHome
    /\ UNCHANGED <<number, shown, bidding, notifier, notices, upsets,
                   toldLost, outdated, missedOut>>

\* GetReedStatsSnapshot
ReadSnapshot(v) ==
    /\ SockIs(v, "reading")
    /\ SockTo(v, [step |-> "answered", n |-> number])
    /\ UNCHANGED <<number, rowsHome, rowsPeer, page, shown, bidding, notifier, notices, subscribes,
                   upsets, toldLost, outdated, missedOut, leftOpen>>

\* HandleForeignSubscribeReed: the row, then the number.
HomeSubscribes(v) ==
    /\ SockIs(v, "asking")
    /\ rowsHome' = WithRow(rowsHome, v)
    /\ SockTo(v, [step |-> "reading"])
    /\ UNCHANGED <<number, rowsPeer, page, shown, bidding, notifier, notices, subscribes, upsets,
                   toldLost, outdated, missedOut, leftOpen>>

\* The initial REED_STATS.
TakeSnapshot(v) ==
    /\ SockIs(v, "answered")
    /\ Show({v}, sock[v].n)
    /\ SockTo(v, Resting)
    /\ UNCHANGED <<number, rowsHome, rowsPeer, page, bidding, notifier, notices, subscribes, upsets,
                   toldLost, missedOut, leftOpen>>

\* The subscription call fails: it is logged, and the viewer is not told.
SubscribeFails(v) ==
    /\ v \in PeerWatchers /\ upsets < MaxUpsets
    /\ sock[v].step \in {"asking", "reading", "answered"}
    /\ upsets' = upsets + 1
    /\ SockTo(v, Resting)
    /\ missedOut' = missedOut \cup {v}
    /\ UNCHANGED <<number, rowsHome, rowsPeer, page, shown, bidding, notifier, notices, subscribes,
                   toldLost, outdated, leftOpen>>

\* handleUnsubscribeReed: the home server is told if there was a row.
\* What there was to say of v's view goes with it.  Without a row at the peer
\* the home server is not told of the end.
Leaves(v, to) ==
    /\ page' = [page EXCEPT ![v] = to] /\ shown' = [shown EXCEPT ![v] = 0]
    /\ outdated' = outdated \ {v} /\ toldLost' = toldLost \ {v} /\ missedOut' = missedOut \ {v}
    /\ leftOpen' = IF v \in rowsHome /\ (v \in missedOut \/ v \in PeerWatchers \ rowsPeer)
                 THEN leftOpen \cup {v} ELSE leftOpen

Unsubscribe(v) ==
    /\ Looking(v) /\ SockIs(v, "idle")
    /\ Leaves(v, "closed")
    /\ IF v \in Local THEN rowsHome' = WithoutRow(rowsHome, v) /\ UNCHANGED <<rowsPeer, sock>>
       ELSE /\ rowsPeer' = WithoutRow(rowsPeer, v)
            /\ SockTo(v, IF v \in rowsPeer THEN [step |-> "leaving"] ELSE Resting)
            /\ UNCHANGED rowsHome
    /\ UNCHANGED <<number, bidding, notifier, notices, subscribes, upsets>>

HomeUnsubscribes(v) ==
    /\ SockIs(v, "leaving")
    /\ rowsHome' = WithoutRow(rowsHome, v)
    /\ SockTo(v, Resting)
    /\ UNCHANGED <<number, rowsPeer, page, shown, bidding, notifier, notices, subscribes, upsets,
                   toldLost, outdated, missedOut, leftOpen>>

UnsubscribeFails(v) ==
    /\ SockIs(v, "leaving") /\ upsets < MaxUpsets
    /\ upsets' = upsets + 1
    /\ SockTo(v, Resting)
    /\ leftOpen' = leftOpen \cup {v}
    /\ UNCHANGED <<number, rowsHome, rowsPeer, page, shown, bidding, notifier, notices, subscribes,
                   toldLost, outdated, missedOut>>

\* teardownUser reads the rows, deletes them and tells the home servers in
\* the background; the page stays, and subscribes again with the next socket.
\* Variant that must fail: the rows are read when they are gone.
Bids_TooLate(v) == {}
Bids(v) == {v} \cap rowsPeer

SocketLost(v) ==
    /\ Looking(v) /\ SockIs(v, "idle")
    /\ Leaves(v, "away")
    /\ rowsHome' = IF v \in Local THEN rowsHome \ {v} ELSE rowsHome
    /\ rowsPeer' = rowsPeer \ {v}
    /\ bidding' = bidding \cup Bids(v)
    /\ UNCHANGED <<number, sock, notifier, notices, subscribes, upsets>>

\* notifyPeersOfTeardown: the home server deletes whatever row the viewer has
\* by then, the one of a new session included.
HomeHearsBye(v) ==
    /\ v \in bidding
    /\ bidding' = bidding \ {v}
    /\ rowsHome' = WithoutRow(rowsHome, v)
    /\ missedOut' = IF v \in rowsHome /\ v \in rowsPeer THEN missedOut \cup {v} ELSE missedOut
    /\ UNCHANGED <<number, rowsPeer, page, shown, sock, notifier, notices, subscribes, upsets,
                   toldLost, outdated, leftOpen>>

ByeFails(v) ==
    /\ v \in bidding /\ upsets < MaxUpsets
    /\ upsets' = upsets + 1
    /\ bidding' = bidding \ {v}
    /\ leftOpen' = leftOpen \cup {v}
    /\ UNCHANGED <<number, rowsHome, rowsPeer, page, shown, sock, notifier, notices, subscribes,
                   toldLost, outdated, missedOut>>

----------------------------------------------------------------------------
(* Telling of a change: notifyReedCoverage and its like.                   *)

NotifierTo(n, to) == notifier' = [notifier EXCEPT ![n] = to]

Change(n) ==
    /\ notifier[n].step = "idle" /\ number < MaxChanges
    /\ number' = number + 1
    /\ NotifierTo(n, [step |-> "reading"])
    /\ UNCHANGED <<rowsHome, rowsPeer, page, shown, sock, bidding, notices, subscribes, upsets,
                   toldLost, outdated, missedOut, leftOpen>>

ReadNumber(n) ==
    /\ notifier[n].step = "reading"
    /\ NotifierTo(n, [step |-> "sending", n |-> number])
    /\ UNCHANGED <<number, rowsHome, rowsPeer, page, shown, sock, bidding, notices, subscribes,
                   upsets, toldLost, outdated, missedOut, leftOpen>>

\* sendToReedSubscribers, and the peers somebody watches from.
SendHere(n) ==
    /\ notifier[n].step = "sending"
    /\ Show(rowsHome \cap Local, notifier[n].n)
    /\ NotifierTo(n, IF rowsHome \cap PeerWatchers = {} THEN Unsent
                     ELSE [step |-> "pushing", n |-> notifier[n].n])
    /\ UNCHANGED <<number, rowsHome, rowsPeer, page, sock, bidding, notices, subscribes, upsets,
                   toldLost, missedOut, leftOpen>>

\* To the viewers the peer has a row of.
DeliverForeignReedStats(n) == Show(rowsPeer, notifier[n].n)

\* PushReedStatsFromPeer, and the peer's answer.
Push(n) ==
    /\ notifier[n].step = "pushing"
    /\ DeliverForeignReedStats(n)
    /\ NotifierTo(n, IF rowsPeer = {} THEN [step |-> "dropping"] ELSE Unsent)
    /\ UNCHANGED <<number, rowsHome, rowsPeer, page, sock, bidding, notices, subscribes, upsets,
                   toldLost, missedOut, leftOpen>>

PushFails(n) ==
    /\ notifier[n].step = "pushing" /\ upsets < MaxUpsets
    /\ upsets' = upsets + 1
    /\ NotifierTo(n, [step |-> "dropping"])
    /\ UNCHANGED <<number, rowsHome, rowsPeer, page, shown, sock, bidding, notices, subscribes,
                   toldLost, outdated, missedOut, leftOpen>>

\* DeleteReedSubscriptionsForServer: the viewers of that peer.
\* Variant that must fail: everybody's.
PeerRows_All == rowsHome
PeerRows == rowsHome \cap PeerWatchers

DropPeerRows(n) ==
    /\ notifier[n].step = "dropping"
    /\ rowsHome' = rowsHome \ PeerRows
    /\ missedOut' = missedOut \cup (rowsHome \cap rowsPeer)
    /\ NotifierTo(n, Unsent)
    /\ UNCHANGED <<number, rowsPeer, page, shown, sock, bidding, notices, subscribes, upsets,
                   toldLost, outdated, leftOpen>>

----------------------------------------------------------------------------
(* Restarts: realtime state is cleared and every peer is told, while       *)
(* clients already come back.                                              *)

LosesSockets(vs) ==
    /\ shown' = [v \in Watchers |-> IF v \in vs THEN 0 ELSE shown[v]]
    /\ outdated' = outdated \ vs
    /\ page' = [v \in Watchers |-> IF v \in vs /\ Looking(v) THEN "away" ELSE page[v]]
    /\ sock' = [v \in Watchers |-> IF v \in vs THEN Resting ELSE sock[v]]

HomeRestarts ==
    /\ upsets < MaxUpsets
    /\ upsets' = upsets + 1
    /\ rowsHome' = {}
    /\ LosesSockets(Local)
    /\ notifier' = [n \in Notifiers |-> Unsent]
    /\ notices' = notices \cup {"home"}
    /\ UNCHANGED <<number, rowsPeer, bidding, subscribes, toldLost, missedOut, leftOpen>>

PeerRestarts ==
    /\ upsets < MaxUpsets
    /\ upsets' = upsets + 1
    /\ rowsPeer' = {} /\ bidding' = {}
    /\ toldLost' = {} /\ missedOut' = missedOut \ PeerWatchers
    /\ leftOpen' = leftOpen \cup (rowsHome \cap missedOut \cap PeerWatchers)
    /\ LosesSockets(PeerWatchers)
    /\ notices' = notices \cup {"peer"}
    /\ UNCHANGED <<number, rowsHome, notifier, subscribes>>

\* forgetPeer: the viewers of the home server's reeds are told it is lost.
TellLost == toldLost' = toldLost \cup rowsPeer

\* RealtimeResetFromPeer: the peer drops its rows on the home server's reeds;
\* the home server drops those of the peer's viewers.
PeerForgetsHome ==
    /\ "home" \in notices
    /\ notices' = notices \ {"home"}
    /\ TellLost
    /\ rowsPeer' = {}
    /\ UNCHANGED <<number, rowsHome, page, shown, sock, bidding, notifier, subscribes, upsets,
                   outdated, missedOut, leftOpen>>

HomeForgetsPeer ==
    /\ "peer" \in notices
    /\ notices' = notices \ {"peer"}
    /\ rowsHome' = rowsHome \ PeerWatchers
    /\ missedOut' = missedOut \cup (rowsHome \cap rowsPeer)
    /\ UNCHANGED <<number, rowsPeer, page, shown, sock, bidding, notifier, subscribes, upsets,
                   toldLost, outdated, leftOpen>>

NoticeFails(s) ==
    /\ s \in notices
    /\ notices' = notices \ {s}
    /\ missedOut' = IF s = "home" THEN missedOut \cup rowsPeer ELSE missedOut
    /\ leftOpen' = IF s = "peer" THEN leftOpen \cup (rowsHome \cap PeerWatchers) ELSE leftOpen
    /\ UNCHANGED <<number, rowsHome, rowsPeer, page, shown, sock, bidding, notifier, subscribes,
                   upsets, toldLost, outdated>>

WatchNext ==
    \/ \E v \in Watchers :
        \/ Subscribe(v) \/ ReadSnapshot(v) \/ HomeSubscribes(v) \/ TakeSnapshot(v)
        \/ SubscribeFails(v) \/ Unsubscribe(v) \/ HomeUnsubscribes(v) \/ UnsubscribeFails(v)
        \/ SocketLost(v) \/ HomeHearsBye(v) \/ ByeFails(v)
    \/ \E n \in Notifiers :
        \/ Change(n) \/ ReadNumber(n) \/ SendHere(n)
        \/ Push(n) \/ PushFails(n) \/ DropPeerRows(n)
    \/ HomeRestarts \/ PeerRestarts \/ PeerForgetsHome \/ HomeForgetsPeer
    \/ \E s \in {"home", "peer"} : NoticeFails(s)

WatchSpec == WatchInit /\ [][WatchNext]_watchVars

----------------------------------------------------------------------------
(* Invariants.                                                             *)

WatchTypeOK ==
    /\ number \in 0 .. MaxChanges /\ subscribes \in 0 .. MaxSubscribes /\ upsets \in 0 .. MaxUpsets
    /\ rowsHome \subseteq Watchers /\ rowsPeer \subseteq PeerWatchers
    /\ bidding \subseteq PeerWatchers
    /\ \A v \in Watchers :
        /\ page[v] \in {"closed", "away", "open"} /\ shown[v] \in 0 .. MaxChanges
        /\ sock[v].step \in {"idle", "reading", "asking", "answered", "leaving"}
    /\ \A n \in Notifiers :
        notifier[n].step \in {"idle", "reading", "sending", "pushing", "dropping"}
    /\ notices \subseteq {"home", "peer"}
    /\ toldLost \subseteq PeerWatchers

NothingUnderWay ==
    /\ \A v \in Watchers : SockIs(v, "idle")
    /\ \A n \in Notifiers : notifier[n] = Unsent
    /\ bidding = {} /\ notices = {}

\* Whoever looks has the rows that bring the next change, or was told.
ViewersHear ==
    \A v \in Watchers : Looking(v) =>
        \/ v \in rowsHome /\ (v \in PeerWatchers => v \in rowsPeer)
        \/ v \in toldLost \cup missedOut

\* Who hears of changes sees the number as it is, unless an older one came later.
NumbersAreTrue ==
    \A v \in Watchers : Looking(v) =>
        shown[v] = number \/ v \in outdated \cup toldLost \cup missedOut

\* A row belongs to somebody who looks, or to one whose end went leftOpen.
NoRowLeftBehind ==
    /\ \A v \in rowsHome : Looking(v) \/ v \in leftOpen \cup missedOut
    /\ \A v \in rowsPeer : Looking(v)

WatchersHear == NothingUnderWay => ViewersHear /\ NumbersAreTrue /\ NoRowLeftBehind
=============================================================================
