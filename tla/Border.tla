------------------------------- MODULE Border -------------------------------
(***************************************************************************)
(* How one reed crosses the border between two servers.  The asking server *)
(* has readers who want a reed of the home server; the copies that cross   *)
(* are encrypted for one reader each, so the asking server lets at most    *)
(* maxForeignCrossings cross at a time and has the other requests wait: a  *)
(* reader whose copy crossed holds the reed and serves the others, and a   *)
(* crossing that ends otherwise is to hand its place on                    *)
(* (src/src/backend/realtime.go, the peer calls of federation_relay.go and *)
(* the statements of services.go they run).                                *)
(*                                                                         *)
(* A goroutine is the sequence of the steps it still has to run, in        *)
(* todo[t]: the reader goroutine of a socket, the fanout of a new reed,    *)
(* the background part of a teardown, the home server's handler of one     *)
(* request and its delivery of one copy.  A call to the peer is a step of  *)
(* the caller's goroutine: the callee's effect, or a loss.  The relay      *)
(* inside each server is module Relay's; here a holder there answers or    *)
(* does not.                                                               *)
(***************************************************************************)
EXTENDS Naturals, Sequences, FiniteSets

CONSTANTS
    Viewers,        \* users of the asking server (model values)
    NoViewer,       \* "no row"
    MaxCrossings,   \* maxForeignCrossings
    Fans,           \* viewers the new reed is broadcast to, in any order
    Askers,         \* BOUND: viewers that send REQUEST_REED
    Quitters,       \* BOUND: viewers whose socket may close
    HomeStarts,     \* the home server's holders at the start: "online", "offline"
    HomeMoves,      \* BOUND: may they come, go and evict
    Losses,         \* BOUND: may a peer call get lost or time out
    MaxAsks,        \* BOUND: events the asking server can mint
    MaxOffers       \* BOUND: events the home server can mint for the peer

ASSUME BorderAssumption ==
    /\ NoViewer \notin Viewers
    /\ MaxCrossings \in Nat \ {0}
    /\ Fans \subseteq Viewers
    /\ Askers \subseteq Viewers
    /\ Quitters \subseteq Viewers
    /\ HomeStarts \in {"online", "offline"}
    /\ HomeMoves \in BOOLEAN
    /\ Losses \in BOOLEAN
    /\ MaxAsks \in Nat
    /\ MaxOffers \in Nat

Asks == 1 .. MaxAsks
Offers == 1 .. MaxOffers

\* Names of events, as far as the border treats them apart: a broadcast is
\* never acked.
AskNames == {"data", "broadcast"}

\* pending_events with pending_reed_events and foreign_pending_events of the
\* asking server: offer is peer_event_id, 0 when the event has not crossed.
AskRow == [user : Viewers \cup {NoViewer}, name : AskNames,
           offer : Offers \cup {0}, relayed : BOOLEAN]
NoAsk == [user |-> NoViewer, name |-> "data", offer |-> 0, relayed |-> FALSE]

\* pending_events with foreign_relay_requests of the home server: "mute" until
\* foreign_relay_requests names the peer.  answer is what its handler wrote.
OfferRow == [state : {"absent", "mute", "open", "relayed"},
             answer : {"none", "ok", "accepted", "error"}]

Goroutines ==
         {<<"socket", u>> : u \in Viewers} \cup {<<"teardown", u>> : u \in Viewers}
    \cup {<<"handler", p>> : p \in Offers} \cup {<<"delivery", p>> : p \in Offers}
    \cup {<<"fanout", 0>>}

VARIABLES
    present,    \* online_users of the asking server
    copies,     \* reed_allocations there: viewers who hold the reed
    ask,        \* its pending events for the reed
    nextAsk,    \* the next event id to mint
    toFan,      \* viewers the fanout has not opened an event for yet
    home,       \* holders at the home server: "online", "offline" or "none"
    offer,      \* its pending events for the peer
    nextOffer,  \* the next of them to mint
    peerHolds,  \* reed_server_allocations: the home server knows a copy is there
    todo,       \* what each goroutine has left to do
    wrote,      \* history: wrote[p] is the ask that p was registered for
    parted,    \* history: offers whose two ends a listed race left different
    dropped,    \* history: a crossing ended, or was decided, outside the fold
    overlapped  \* history: two goroutines decided on a crossing at once

borderVars == <<present, copies, ask, nextAsk, toFan, home, offer, nextOffer, peerHolds,
                todo, wrote, parted, dropped, overlapped>>
homeVars == <<home, offer, nextOffer, peerHolds, wrote>>
askVars  == <<present, copies, ask, nextAsk, toFan>>
history  == <<parted, dropped, overlapped>>

Step ==
         [step : {"open"}, u : Viewers, name : AskNames]
    \cup [step : {"fold", "register"}, e : Asks, promoting : BOOLEAN]
    \cup [step : {"await"}, e : Asks, p : Offers, promoting : BOOLEAN]
    \cup [step : {"promote", "holderNotify"}]
    \cup [step : {"leave"}, u : Viewers, ps : SUBSET Offers]
    \cup [step : {"record"}, p : Offers, online : BOOLEAN]
    \cup [step : {"cancel"}, ps : SUBSET Offers]
    \cup [step : {"deliver", "markHome", "notHeld"}, p : Offers]
    \cup [step : {"ackPeer", "close"}, e : Asks]

Doing(t, name) == todo[t] # <<>> /\ Head(todo[t]).step = name
Arg(t) == Head(todo[t])
Then(t, more) == todo' = [todo EXCEPT ![t] = more \o Tail(@)]
BorderIdle(t) == todo[t] = <<>>
BorderQuiet == \A t \in Goroutines : BorderIdle(t)

Socket(u) == <<"socket", u>>
Delivery(p) == <<"delivery", p>>

----------------------------------------------------------------------------
(* Queries.                                                                *)

Asked(e) == ask[e].user # NoViewer
Crossing(e) == Asked(e) /\ ask[e].offer # 0
Crossings == {e \in Asks : Crossing(e)}

\* The event foreign_pending_events maps p to, if there is one.
AskOf(p) == {e \in Asks : Crossing(e) /\ ask[e].offer = p}

\* ForeignReedCrossings: a local holder who is online, or how many are in flight.
LocalHolder == copies \cap present # {}
\* Variant that must fail: the last place is given away once too often.
Full_OffByOne == Cardinality(Crossings) > MaxCrossings
Full == Cardinality(Crossings) >= MaxCrossings

\* OldestWaitingForeignEvent: neither crossing nor dispatched.  A local holder
\* that was asked for the body answers in the same step here (Serve).
Waiting == {e \in Asks : Asked(e) /\ ~Crossing(e) /\ ~ask[e].relayed}
OldestWaiting == {e \in Waiting : \A f \in Waiting : e <= f}

\* Goroutines that have found room for a crossing and not recorded it yet.
Deciding == {t \in Goroutines : Doing(t, "register") \/ Doing(t, "await")}

\* The reader's DATA_ACK of e has looked its crossing up, and is about to delete e.
AckGiven(e) == \E t \in Goroutines : Doing(t, "close") /\ Arg(t).e = e

\* A new decision that overlaps one still open, made on a count without it.
DecidesToCross == overlapped' = (overlapped \/ Deciding # {})

----------------------------------------------------------------------------
BorderInit ==
    /\ present = Viewers
    /\ copies = {}
    /\ ask = [e \in Asks |-> NoAsk]
    /\ nextAsk = 1
    /\ toFan = Fans
    /\ home = HomeStarts
    /\ offer = [p \in Offers |-> [state |-> "absent", answer |-> "none"]]
    /\ nextOffer = 1
    /\ peerHolds = FALSE
    /\ todo = [t \in Goroutines |-> <<>>]
    /\ wrote = [p \in Offers |-> 0]
    /\ parted = {}
    /\ dropped = FALSE
    /\ overlapped = FALSE

----------------------------------------------------------------------------
(* Opening an event on the foreign reed: openForeignEvent.                 *)

\* REQUEST_REED of a client that does not hold the reed.
Ask(u) ==
    /\ u \in Askers \cap present
    /\ u \notin copies
    /\ BorderIdle(Socket(u))
    /\ todo' = [todo EXCEPT ![Socket(u)] = <<[step |-> "open", u |-> u, name |-> "data"]>>]
    /\ UNCHANGED <<askVars, homeVars, history>>

\* dispatchManyForeign: the fanout of a peer's new reed opens one event after
\* the other for the subscribers it read.
Fan(u) ==
    /\ u \in toFan
    /\ BorderIdle(<<"fanout", 0>>)
    /\ toFan' = toFan \ {u}
    /\ todo' = [todo EXCEPT ![<<"fanout", 0>>] = <<[step |-> "open", u |-> u, name |-> "broadcast"]>>]
    /\ UNCHANGED <<present, copies, ask, nextAsk, homeVars, history>>

\* createPendingReedEvent: the insert fails for a user who has gone offline.
OpenEvent(t) ==
    /\ Doing(t, "open")
    /\ IF Arg(t).u \in present
       THEN /\ nextAsk \in Asks
            /\ ask' = [ask EXCEPT ![nextAsk] = [user |-> Arg(t).u, name |-> Arg(t).name,
                                                offer |-> 0, relayed |-> FALSE]]
            /\ nextAsk' = nextAsk + 1
            /\ Then(t, <<[step |-> "fold", e |-> nextAsk, promoting |-> FALSE]>>)
       ELSE Then(t, <<>>) /\ UNCHANGED <<ask, nextAsk>>
    /\ UNCHANGED <<present, copies, toFan, homeVars, history>>

\* The fold itself: a local holder or crossings in flight spare this one.
Fold(t) ==
    /\ Doing(t, "fold")
    /\ IF LocalHolder \/ Full
       THEN Then(t, <<>>) /\ UNCHANGED overlapped
       ELSE /\ Then(t, <<[step |-> "register", e |-> Arg(t).e, promoting |-> FALSE]>>)
            /\ DecidesToCross
    /\ UNCHANGED <<askVars, homeVars, parted, dropped>>

\* promoteWaitingForeign, one turn of its loop.
Promote(t) ==
    /\ Doing(t, "promote")
    /\ IF LocalHolder \/ Full \/ Waiting = {}
       THEN Then(t, <<>>) /\ UNCHANGED overlapped
       ELSE \E e \in OldestWaiting :
                /\ Then(t, <<[step |-> "register", e |-> e, promoting |-> TRUE]>>)
                /\ DecidesToCross
    /\ UNCHANGED <<askVars, homeVars, parted, dropped>>

\* failForeignRequest, and the end of openForeignEvent: the event goes and its
\* requester is told the reed is not to be had.  Only the loop of a promotion
\* goes on.  If e had crossed after all, its crossing goes with it.
Fails(t, e, promoting) ==
    /\ ask' = [ask EXCEPT ![e] = NoAsk]
    /\ dropped' = (dropped \/ Crossing(e))
    /\ Then(t, IF promoting THEN <<[step |-> "promote"]>> ELSE <<>>)

\* The offer a crossing of e was mapped to, if it crossed.
OfferOf(e) == {ask[e].offer} \ {0}

\* crossToHomeServer's call, and registerReedRequest at the home server: no
\* holder at all is refused, a holder who is offline makes an event all the same.
Register(t) ==
    /\ Doing(t, "register")
    /\ home # "none"
    /\ nextOffer \in Offers
    /\ offer' = [offer EXCEPT ![nextOffer].state = "mute"]
    /\ wrote' = [wrote EXCEPT ![nextOffer] = Arg(t).e]
    /\ nextOffer' = nextOffer + 1
    /\ todo' = [todo EXCEPT
        ![t] = <<[step |-> "await", e |-> Arg(t).e, p |-> nextOffer,
                  promoting |-> Arg(t).promoting]>> \o Tail(@),
        ![<<"handler", nextOffer>>] = <<[step |-> "record", p |-> nextOffer,
                                         online |-> home = "online"]>>]
    /\ UNCHANGED <<askVars, home, peerHolds, history>>

\* Refused, or the call was lost on its way.
RegisterFails(t) ==
    /\ Doing(t, "register")
    /\ home = "none" \/ Losses
    /\ Fails(t, Arg(t).e, Arg(t).promoting)
    /\ parted' = parted \cup OfferOf(Arg(t).e)
    /\ UNCHANGED <<present, copies, nextAsk, toFan, homeVars, overlapped>>

\* recordForeignRelayRequest, after the holder may have been asked already; it
\* fails for an event that is gone.
Record(t) ==
    /\ Doing(t, "record")
    /\ LET p == Arg(t).p IN
       offer' = [offer EXCEPT ![p] =
                    IF @.state = "mute"
                    THEN [state |-> "open", answer |-> IF Arg(t).online THEN "ok" ELSE "accepted"]
                    ELSE [@ EXCEPT !.answer = "error"]]
    /\ Then(t, <<>>)
    /\ UNCHANGED <<askVars, home, nextOffer, peerHolds, wrote, history>>

\* Variant that must fail: the mapping names the event the home server minted
\* last, not the one this call was answered with.
Cross_LatestOffer(t) ==
    /\ Doing(t, "await")
    /\ LET e == Arg(t).e  p == Arg(t).p IN
       /\ offer[p].answer = "ok"
       /\ Asked(e) /\ ~Crossing(e)
       /\ ask' = [ask EXCEPT ![e].offer = nextOffer - 1]
    /\ Then(t, IF Arg(t).promoting THEN <<[step |-> "promote"]>> ELSE <<>>)
    /\ UNCHANGED <<present, copies, nextAsk, toFan, homeVars, history>>

\* The answer is in and createForeignPendingEvent takes it: the event is there
\* and has no mapping yet.
Cross(t) ==
    /\ Doing(t, "await")
    /\ LET e == Arg(t).e  p == Arg(t).p IN
       /\ offer[p].answer = "ok"
       /\ Asked(e) /\ ~Crossing(e)
       /\ ask' = [ask EXCEPT ![e].offer = p]
       /\ parted' = IF AckGiven(e) THEN parted \cup {p} ELSE parted
    /\ Then(t, IF Arg(t).promoting THEN <<[step |-> "promote"]>> ELSE <<>>)
    /\ UNCHANGED <<present, copies, nextAsk, toFan, homeVars, dropped, overlapped>>

\* An answer other than OK (a holder who is offline now: 202), an insert that
\* fails, or a caller that gives up: the home server's event, if it made one,
\* has nobody waiting for it.
CrossFails(t) ==
    /\ Doing(t, "await")
    /\ LET e == Arg(t).e  p == Arg(t).p IN
       /\ \/ offer[p].answer \in {"accepted", "error"}
          \/ offer[p].answer = "ok" /\ (~Asked(e) \/ Crossing(e))
          \/ Losses
       /\ Fails(t, e, Arg(t).promoting)
       /\ parted' = parted \cup OfferOf(e) \cup {p}
    /\ UNCHANGED <<present, copies, nextAsk, toFan, homeVars, overlapped>>

----------------------------------------------------------------------------
(* The home server relays, or gives up.                                    *)

\* A holder answers and deliverOrForward finds whose event it is.  The answer
\* to a "mute" event finds nobody, fails, and leaves the event to its timer.
HomeAnswers(p) ==
    /\ offer[p].state = "open"
    /\ home = "online"
    /\ BorderIdle(Delivery(p))
    /\ todo' = [todo EXCEPT ![Delivery(p)] = <<[step |-> "deliver", p |-> p]>>]
    /\ UNCHANGED <<askVars, homeVars, history>>

\* HandleForeignRelayResponse: a request for data waits for its DATA_ACK from
\* now on, a broadcast is over.
TakesCopy(e) ==
    ask' = [ask EXCEPT ![e] = IF @.name = "data" THEN [@ EXCEPT !.relayed = TRUE] ELSE NoAsk]

\* DeliverRelayResponseFromPeer, a request that waits for DATA_ACK.  If the
\* answer is lost the home server does not mark its event.
Deliver(t) ==
    /\ Doing(t, "deliver")
    /\ \E e \in AskOf(Arg(t).p), answered \in {TRUE, ~Losses} :
         /\ ask[e].name = "data"
         /\ TakesCopy(e)
         /\ Then(t, IF answered THEN <<[step |-> "markHome", p |-> Arg(t).p]>> ELSE <<>>)
         /\ parted' = IF answered THEN parted ELSE parted \cup {Arg(t).p}
    /\ UNCHANGED <<present, copies, nextAsk, toFan, homeVars, dropped, overlapped>>

\* The same for a broadcast closes both ends: its own event goes, and foreignAck comes to a home server that waits for this very call
\* to return before it marks the event, so it finds nothing to ack.
DeliverBroadcast(t) ==
    /\ Doing(t, "deliver")
    /\ \E e \in AskOf(Arg(t).p), answered \in {TRUE, ~Losses} :
         /\ ask[e].name = "broadcast"
         /\ TakesCopy(e)
         /\ Then(t, IF answered THEN <<[step |-> "markHome", p |-> Arg(t).p]>> ELSE <<>>)
    /\ parted' = parted \cup {Arg(t).p}
    /\ dropped' = TRUE
    /\ UNCHANGED <<present, copies, nextAsk, toFan, homeVars, overlapped>>

\* Nothing is mapped to the event (yet, or any more): the 404 is not an error
\* to deliverRelayResponseToPeer.  A call that fails is.
DeliverNobody(t) ==
    /\ Doing(t, "deliver")
    /\ \/ /\ AskOf(Arg(t).p) = {}
          /\ Then(t, <<[step |-> "markHome", p |-> Arg(t).p]>>)
          /\ parted' = parted \cup {Arg(t).p}
       \/ Losses /\ Then(t, <<>>) /\ UNCHANGED parted
    /\ UNCHANGED <<askVars, homeVars, dropped, overlapped>>

\* markEventRelayed at the home server, once the call has returned.
MarkHome(t) ==
    /\ Doing(t, "markHome")
    /\ offer' = [offer EXCEPT ![Arg(t).p].state = IF @ = "open" THEN "relayed" ELSE @]
    /\ Then(t, <<>>)
    /\ UNCHANGED <<askVars, home, nextOffer, peerHolds, wrote, history>>

\* failReedNotHeld: the last holder is gone.  The peer is told if the event
\* already says which one it is for.
HomeGivesUp(p) ==
    /\ offer[p].state \in {"mute", "open"}
    /\ home = "none"
    /\ BorderIdle(Delivery(p))
    /\ offer' = [offer EXCEPT ![p].state = "absent"]
    /\ todo' = IF offer[p].state = "open"
               THEN [todo EXCEPT ![Delivery(p)] = <<[step |-> "notHeld", p |-> p]>>]
               ELSE todo
    /\ UNCHANGED <<askVars, home, nextOffer, peerHolds, wrote, history>>

\* HandleForeignRelayNotHeld: the event goes, and its place to the next.
GivesUp(t, e) ==
    /\ ask' = [ask EXCEPT ![e] = NoAsk]
    /\ Then(t, <<[step |-> "promote"]>>)

\* RelayNotHeldFromPeer, or the notification is lost or finds nobody.
NotHeld(t) ==
    /\ Doing(t, "notHeld")
    /\ \/ \E e \in AskOf(Arg(t).p) :
            /\ GivesUp(t, e)
            /\ UNCHANGED parted
       \/ /\ AskOf(Arg(t).p) = {} \/ Losses
          /\ Then(t, <<>>)
          /\ parted' = parted \cup {Arg(t).p}
          /\ UNCHANGED ask
    /\ UNCHANGED <<present, copies, nextAsk, toFan, homeVars, dropped, overlapped>>

HomeMove ==
    /\ HomeMoves
    /\ home # "none"
    /\ home' \in {"online", "offline"} \cup (IF home = "online" THEN {"none"} ELSE {})
    /\ home' # home
    /\ UNCHANGED <<askVars, offer, nextOffer, peerHolds, wrote, todo, history>>

----------------------------------------------------------------------------
(* What the requester makes of it, and teardown.                           *)

\* A local holder serves a request that did not cross (module Relay); a
\* broadcast is deleted with its delivery.
Serve(e) ==
    /\ e \in Waiting
    /\ LocalHolder
    /\ TakesCopy(e)
    /\ UNCHANGED <<present, copies, nextAsk, toFan, homeVars, todo, history>>

\* DATA_ACK: the requester becomes a holder, the home server is told of the
\* holder and of the delivery, and the event goes.
DataAck(u, e) ==
    /\ ask[e].user = u /\ ask[e].name = "data" /\ ask[e].relayed
    /\ BorderIdle(Socket(u))
    /\ copies' = copies \cup {u}
    /\ todo' = [todo EXCEPT ![Socket(u)] = <<[step |-> "holderNotify"],
                                             [step |-> "ackPeer", e |-> e],
                                             [step |-> "close", e |-> e]>>]
    /\ UNCHANGED <<present, ask, nextAsk, toFan, homeVars, history>>

HolderNotify(t) ==
    /\ Doing(t, "holderNotify")
    /\ peerHolds' \in {TRUE} \cup (IF Losses THEN {peerHolds} ELSE {})
    /\ Then(t, <<>>)
    /\ UNCHANGED <<askVars, home, offer, nextOffer, wrote, history>>

\* HandleForeignAck, which leaves an event that is not marked relayed as it is.
AwaitsAck(p) == offer[p].state = "relayed"
Acks(p) ==
    /\ offer' = [offer EXCEPT ![p].state = "absent"]
    /\ peerHolds' = TRUE

\* AckRelayDeliveryFromPeer.
AckPeer(t) ==
    /\ Doing(t, "ackPeer")
    /\ LET p == ask[Arg(t).e].offer IN
       IF p # 0 /\ AwaitsAck(p)
       THEN Acks(p) /\ UNCHANGED parted
       ELSE /\ parted' = parted \cup (OfferOf(Arg(t).e))
            /\ UNCHANGED <<offer, peerHolds>>
    /\ Then(t, <<>>)
    /\ UNCHANGED <<askVars, home, nextOffer, wrote, dropped, overlapped>>

AckPeerLost(t) ==
    /\ Doing(t, "ackPeer")
    /\ Losses
    /\ parted' = parted \cup OfferOf(Arg(t).e)
    /\ Then(t, <<>>)
    /\ UNCHANGED <<askVars, homeVars, dropped, overlapped>>

\* Variant that must fail: the event goes and its mapping does not go with it.
Close_KeepsMapping(t) ==
    /\ Doing(t, "close")
    /\ ask' = [ask EXCEPT ![Arg(t).e].user = NoViewer]
    /\ Then(t, <<>>)
    /\ UNCHANGED <<present, copies, nextAsk, toFan, homeVars, history>>

\* deletePendingEvent; the mapping goes with it (ON DELETE CASCADE).
Close(t) ==
    /\ Doing(t, "close")
    /\ ask' = [ask EXCEPT ![Arg(t).e] = NoAsk]
    /\ Then(t, <<>>)
    /\ UNCHANGED <<present, copies, nextAsk, toFan, homeVars, history>>

\* Variant that must fail: the place a bad copy frees is not handed on.
ViewerRejects_Alone(u, e) ==
    /\ ask[e].user = u /\ ask[e].name = "data" /\ ask[e].relayed
    /\ BorderIdle(Socket(u))
    /\ IF Crossing(e)
       THEN /\ ask' = [ask EXCEPT ![e] = NoAsk]
            /\ parted' = parted \cup {ask[e].offer}
       ELSE /\ ask' = [ask EXCEPT ![e].relayed = FALSE]
            /\ UNCHANGED parted
    /\ UNCHANGED <<present, copies, nextAsk, toFan, homeVars, todo, dropped, overlapped>>

\* DATA_INVALID: a copy that crossed frees its place, and nobody tells the
\* home server; a local one is asked for again.
ViewerRejects(u, e) ==
    /\ ask[e].user = u /\ ask[e].name = "data" /\ ask[e].relayed
    /\ BorderIdle(Socket(u))
    /\ IF Crossing(e)
       THEN /\ ask' = [ask EXCEPT ![e] = NoAsk]
            /\ parted' = parted \cup {ask[e].offer}
            /\ todo' = [todo EXCEPT ![Socket(u)] = <<[step |-> "promote"]>>]
       ELSE /\ ask' = [ask EXCEPT ![e].relayed = FALSE]
            /\ UNCHANGED <<parted, todo>>
    /\ UNCHANGED <<present, copies, nextAsk, toFan, homeVars, dropped, overlapped>>

\* teardownUser reads what the user had crossing before it deletes anything.
ViewerLeaves(u) ==
    /\ u \in present \cap Quitters
    /\ BorderIdle(Socket(u))
    /\ BorderIdle(<<"teardown", u>>)
    /\ todo' = [todo EXCEPT ![Socket(u)] =
        <<[step |-> "leave", u |-> u,
           ps |-> {ask[e].offer : e \in {f \in Crossings : ask[f].user = u}}]>>]
    /\ UNCHANGED <<askVars, homeVars, history>>

Leave(t) ==
    /\ Doing(t, "leave")
    /\ LET u == Arg(t).u
           ps == Arg(t).ps
           mine == {e \in Asks : ask[e].user = u}
           unread == (UNION {OfferOf(e) : e \in mine}) \ ps
           left == [e \in Asks |-> IF e \in mine THEN NoAsk ELSE ask[e]]
       IN /\ ask' = left
          /\ present' = present \ {u}
          /\ todo' = [todo EXCEPT
               ![t] = Tail(@),
               ![<<"teardown", u>>] =
                   IF ps = {} THEN <<>>
                   ELSE <<[step |-> "cancel", ps |-> ps]>>
                        \o [i \in 1 .. Cardinality(ps) |-> [step |-> "promote"]]]
          /\ parted' = parted \cup unread
          /\ dropped' = (dropped \/ unread # {} \/ u \in copies)
    /\ UNCHANGED <<copies, nextAsk, toFan, homeVars, overlapped>>

\* Variant that must fail: only what has not been relayed yet is cancelled.
Cancelled_OpenOnly(p) == [offer EXCEPT ![p].state = IF @ = "open" THEN "absent" ELSE @]
\* CancelForeignPendingEvent: relayed or not, the event goes.
Cancelled(p) == [offer EXCEPT ![p].state = "absent"]

\* CancelRelayRequestFromPeer for each of them, in any order.
Cancel(t) ==
    /\ Doing(t, "cancel")
    /\ \E p \in Arg(t).ps, lost \in {FALSE, Losses} :
         /\ IF ~lost /\ offer[p].state \in {"open", "relayed"}
            THEN offer' = Cancelled(p) /\ UNCHANGED parted
            ELSE parted' = parted \cup {p} /\ UNCHANGED offer
         /\ Then(t, IF Arg(t).ps = {p} THEN <<>>
                    ELSE <<[step |-> "cancel", ps |-> Arg(t).ps \ {p}]>>)
    /\ UNCHANGED <<askVars, home, nextOffer, peerHolds, wrote, dropped, overlapped>>

Reconnect(u) ==
    /\ u \notin present
    /\ BorderIdle(Socket(u))
    /\ present' = present \cup {u}
    /\ UNCHANGED <<copies, ask, nextAsk, toFan, homeVars, todo, history>>

\* handleProtobufMessage, of what a viewer's socket says about one reed.
SocketSays(u) == Ask(u) \/ \E e \in Asks : DataAck(u, e) \/ ViewerRejects(u, e)

BorderNext ==
    \/ \E u \in Viewers : SocketSays(u) \/ Fan(u) \/ ViewerLeaves(u) \/ Reconnect(u)
    \/ \E e \in Asks : Serve(e)
    \/ \E p \in Offers : HomeAnswers(p) \/ HomeGivesUp(p)
    \/ HomeMove
    \/ \E t \in Goroutines :
        \/ OpenEvent(t) \/ Fold(t) \/ Promote(t)
        \/ Register(t) \/ RegisterFails(t) \/ Record(t) \/ Cross(t) \/ CrossFails(t)
        \/ Deliver(t) \/ DeliverBroadcast(t) \/ DeliverNobody(t) \/ MarkHome(t) \/ NotHeld(t)
        \/ HolderNotify(t) \/ AckPeer(t) \/ AckPeerLost(t) \/ Close(t)
        \/ Leave(t) \/ Cancel(t)

BorderSpec == BorderInit /\ [][BorderNext]_borderVars

----------------------------------------------------------------------------
\* Tables and goroutines keep their shape, and a mapping to the peer's event
\* lives no longer than the event it belongs to (ON DELETE CASCADE).
BorderTypeOK ==
    /\ present \subseteq Viewers
    /\ copies \subseteq Viewers
    /\ ask \in [Asks -> AskRow]
    /\ \A e \in Asks : ask[e].user = NoViewer => ask[e] = NoAsk
    /\ nextAsk \in 1 .. MaxAsks + 1
    /\ toFan \subseteq Viewers
    /\ home \in {"online", "offline", "none"}
    /\ offer \in [Offers -> OfferRow]
    /\ nextOffer \in 1 .. MaxOffers + 1
    /\ peerHolds \in BOOLEAN
    /\ todo \in [Goroutines -> Seq(Step)]
    /\ wrote \in [Offers -> Asks \cup {0}]
    /\ parted \subseteq Offers
    /\ dropped \in BOOLEAN
    /\ overlapped \in BOOLEAN

\* A copy is for the one reader it was asked for: the event the home server
\* relays for is mapped to the ask it was registered for, and to no other.
CopyFindsItsAsk == \A e \in Crossings : wrote[ask[e].offer] = e

\* The cap holds as long as no two goroutines decide on a crossing at once.
CappedUnlessOverlapped == overlapped \/ Cardinality(Crossings) <= MaxCrossings

\* At rest a waiting request has somebody to wait for, except where a crossing
\* was closed outside the fold: a broadcast, a holder who left, a crossing
\* recorded while its owner was torn down or recorded twice.
CarriedUnlessDropped ==
    BorderQuiet /\ ~dropped => Waiting = {} \/ LocalHolder \/ Crossings # {}

\* At rest the two servers agree on every offer: the home server keeps its
\* event for exactly the crossings the asking server has, and has marked it
\* relayed only if the reader was sent the copy.
EndsAgreeUnlessParted ==
    BorderQuiet => \A p \in Offers \ parted :
        /\ (offer[p].state # "absent") <=> (AskOf(p) # {})
        /\ \A e \in AskOf(p) : offer[p].state = "relayed" => ask[e].relayed

\* The fold of requests for one reed holds: no more crossings than the cap, and
\* none of those that wait is forgotten when a crossing ends.
FoldHolds == CappedUnlessOverlapped /\ CarriedUnlessDropped

\* What becomes of the crossings of one foreign reed, seen from both ends.
CrossingsHold == FoldHolds /\ EndsAgreeUnlessParted
=============================================================================
