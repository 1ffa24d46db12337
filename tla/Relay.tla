------------------------------- MODULE Relay -------------------------------
(***************************************************************************)
(* The relay engine of one server (src/src/backend/realtime.go and the     *)
(* statements of services.go it runs).  The server stores no reed bodies:  *)
(* it keeps who holds a verified copy (reed_allocations) and a ledger of   *)
(* pending events, claims an event for one online holder, asks that holder *)
(* for the body, hands the answer to the requester and, once the requester *)
(* has verified it, makes the requester a holder too.                      *)
(*                                                                         *)
(* Goroutines interleave as in the code: each WebSocket has one that       *)
(* handles its frames one at a time, each expired relay timer runs in one  *)
(* of its own, and so does the fanout of a new reed.  A goroutine is the   *)
(* sequence of the operations it still has to run, in work[t]; a step runs *)
(* the first one and may put others in its place.  What a handler read     *)
(* before another goroutine could run travels in the operation.  Several   *)
(* statements make one step where the others cannot tell: a compare-and-   *)
(* set with the holder query after it, a claim with the send it allows.    *)
(***************************************************************************)
EXTENDS Naturals, Sequences, FiniteSets

CONSTANTS
    Users,          \* accounts of this server (model values)
    Reeds,          \* published reeds (model values)
    None,           \* "no user", the NULL of the user columns
    Author,         \* Author[r]: who wrote r and holds it from the start
    Follows,        \* Follows[u]: the reeds u gets as FOLLOW_REED, by author
    Broadcast,      \* users subscribed to the broadcast stream
    InitHolders,    \* rows reed_allocations starts with, beside the authors
    InitOnline,     \* users connected and synced to start with
    Unfanned,       \* reeds whose PUBLISH_READY is still to come
    InitialBurst,   \* initialFanoutBurst
    RefillBurst,    \* fanoutRefillBurst
    BusEnabled,     \* REALTIME_BUS_ENABLED: SendToUser hands off what it cannot write
    Requesters,     \* BOUND: users that send REQUEST_REED
    Failures,       \* BOUND: what may go wrong, of "miss", "error", "silence", "invalid"
    Evicting,       \* BOUND: users whose client evicts its copies
    Leaving,        \* BOUND: users whose socket may drop
    Superseding,    \* BOUND: users that may open a second socket over a first
    Restarting,     \* BOUND: may the process crash and boot again
    MaxEvents       \* BOUND: event ids the model can mint

ASSUME RelayAssumption ==
    /\ None \notin Users
    /\ Author \in [Reeds -> Users]
    /\ Follows \in [Users -> SUBSET Reeds]
    /\ Broadcast \subseteq Users
    /\ InitHolders \subseteq Reeds \X Users
    /\ InitOnline \subseteq Users
    /\ Unfanned \subseteq Reeds
    /\ MaxEvents \in Nat
    /\ RefillBurst \in Nat \ {0}
    /\ InitialBurst \in 1 .. RefillBurst
    /\ BusEnabled \in BOOLEAN
    /\ Requesters \subseteq Users
    /\ Failures \subseteq {"miss", "error", "silence", "invalid"}
    /\ Evicting \subseteq Users
    /\ Leaving \subseteq Users
    /\ Superseding \subseteq Users
    /\ Restarting \in BOOLEAN

\* Event ids in the order of pending_events.created_at.
Events == 1 .. MaxEvents

\* Goroutines: one WebSocket reader per user, one timer per event, one fanout
\* per published reed.
Threads == Users \cup Events \cup Reeds

User == Users \cup {None}

\* realtimeEventName, as far as the relay treats the names apart:
\* BROADCAST_REED is deleted on delivery, the others wait for DATA_ACK.
Names == {"request_reed", "follow_reed", "broadcast_reed"}

\* pending_events joined with pending_reed_events.  req = None is "no row";
\* disp is dispatched_to, and dispatched_at is NULL exactly when it is.
Row == [req : User, reed : Reeds \cup {None}, name : Names, disp : User, relayed : BOOLEAN]
NoRow == [req |-> None, reed |-> None, name |-> "request_reed", disp |-> None, relayed |-> FALSE]

VARIABLES
    sockets,  \* connManager.userConnections: who has a socket
    online,   \* online_users: who has a presence row
    synced,   \* users whose online_users.sync_request_id is set
    alloc,    \* reed_allocations, pairs <<reed, holder>>
    unfanned, \* pending_fanout: reeds whose PUBLISH_READY is still to come
    ev,       \* pending_events
    next,     \* the next event id to mint
    timer,    \* relayTimers: the holder each armed timer would fail, or None
    asked,    \* RELAY_REQUEST frames a holder has received and not answered
    inbox,    \* relayed bodies a requester has received and not judged
    work,     \* what each goroutine has left to do
    sent,     \* history: pairs <<reed, user>> the server put on a live socket
    judgedOk  \* history: events whose requester verified a copy and sent DATA_ACK

vars == <<sockets, online, synced, alloc, unfanned, ev, next, timer, asked, inbox, work, sent, judgedOk>>

----------------------------------------------------------------------------
(* The operations a goroutine is made of.                                  *)

Op ==
         [op : {"dispatchN"}, h : Users, n : 1 .. RefillBurst, checked : BOOLEAN]
    \cup [op : {"unclaim"}, h : Users, e : Events]
    \cup [op : {"arm"}, h : Users, e : Events, n : 1 .. RefillBurst]
    \cup [op : {"failed"}, h : Users, e : Events, r : Reeds, del : BOOLEAN]
    \cup [op : {"deliver"}, u : Users, e : Events, r : Reeds, name : Names]
    \cup [op : {"mark"}, e : Events, name : Names]
    \cup [op : {"invalid"}, e : Events, r : Reeds, disp : User]
    \cup [op : {"create"}, u : Users, r : Reeds, h : User]
    \cup [op : {"sync", "listPending", "deletePending", "offline"}, u : Users]
    \cup [op : {"catchUp"}, u : Users, rs : SUBSET Reeds]
    \cup [op : {"redispatch"}, claims : SUBSET (Events \X User)]
    \cup [op : {"fanout"}, r : Reeds]
    \cup [op : {"enqueue"}, r : Reeds, to : SUBSET (Users \X Names)]

dispatchN(h, n)            == [op |-> "dispatchN", h |-> h, n |-> n, checked |-> FALSE]
dispatchNIfConnected(h, n) == [op |-> "dispatchN", h |-> h, n |-> n, checked |-> TRUE]

\* dispatchNextIfConnected for the holder a query returned, if it returned one.
dispatchTo(h) == IF h = None THEN <<>> ELSE <<dispatchNIfConnected(h, 1)>>

Runs(t, name) == work[t] # <<>> /\ Head(work[t]).op = name

\* The first operation of t is done and `more` takes its place.
Continue(t, more) == work' = [work EXCEPT ![t] = more \o Tail(@)]

\* One operation, if there is something for it to do.
If(cond, o) == IF cond THEN <<o>> ELSE <<>>

Idle(u) == u \in sockets /\ work[u] = <<>>
Quiet == \A t \in Threads : work[t] = <<>>

----------------------------------------------------------------------------
(* Queries.                                                                *)

Pending(e) == ev[e].req # None
ClaimedBy(e, h) == Pending(e) /\ ev[e].disp = h

HoldersIn(al, r) == {u \in Users : <<r, u>> \in al}

\* GetOnlineHolders and GetOnlineReedHolder take any online holder, None if
\* there is none: no ranking and no ORDER BY.
PickOnline(al, r) ==
    LET here == HoldersIn(al, r) \cap online IN IF here = {} THEN {None} ELSE here

\* GetNextPendingForHolder: undispatched events on reeds h holds, oldest first.
Queue(h) == {e \in Events : ClaimedBy(e, None) /\ <<ev[e].reed, h>> \in alloc}
Oldest(S) == {e \in S : \A f \in S : e <= f}

\* CreatePendingReedEvent: the row's foreign key to online_users makes the
\* insert fail for a requester with no presence row.  A step that would insert
\* waits for good once the model has no event id left (MaxEvents).
CanCreate(u) == u \in online
Created(u, r, name) ==
    /\ next \in Events
    /\ ev' = [ev EXCEPT ![next] = [req |-> u, reed |-> r, name |-> name, disp |-> None, relayed |-> FALSE]]
    /\ next' = next + 1

----------------------------------------------------------------------------
Init ==
    /\ sockets = InitOnline
    /\ online = InitOnline
    /\ synced = InitOnline
    /\ alloc = InitHolders \cup {<<r, Author[r]>> : r \in Reeds}
    /\ unfanned = Unfanned
    /\ ev = [e \in Events |-> NoRow]
    /\ next = 1
    /\ timer = [e \in Events |-> None]
    /\ asked = [u \in Users |-> {}]
    /\ inbox = [u \in Users |-> {}]
    /\ work = [t \in Threads |-> <<>>]
    /\ sent = {}
    /\ judgedOk = {}

----------------------------------------------------------------------------
(* dispatchNext, dispatchN, startRelayTimer.                               *)

\* Nothing to send, or nobody there to ask: the check asks online_users.
DispatchNothing(t) ==
    /\ Runs(t, "dispatchN")
    /\ LET o == Head(work[t]) IN (o.checked /\ o.h \notin online) \/ Queue(o.h) = {}
    /\ Continue(t, <<>>)
    /\ UNCHANGED <<sockets, online, synced, alloc, unfanned, ev, next, timer, asked, inbox, sent, judgedOk>>

\* GetNextPendingForHolder and MarkEventDispatched, then SendToUser: the frame
\* is on the holder's socket before the timer is armed.  A holder without a
\* socket here makes the send fail, or, with the bus on, loses the frame.
DispatchNext(t) ==
    /\ Runs(t, "dispatchN")
    /\ LET o == Head(work[t]) IN
       \E e \in Oldest(Queue(o.h)) :
           /\ o.checked => o.h \in online
           /\ ev' = [ev EXCEPT ![e].disp = o.h]
           /\ asked' = IF o.h \in sockets THEN [asked EXCEPT ![o.h] = @ \cup {e}] ELSE asked
           /\ Continue(t, IF o.h \in sockets \/ BusEnabled
                          THEN <<[op |-> "arm", h |-> o.h, e |-> e, n |-> o.n]>>
                          ELSE <<[op |-> "unclaim", h |-> o.h, e |-> e]>>)
    /\ UNCHANGED <<sockets, online, synced, alloc, unfanned, next, timer, inbox, sent, judgedOk>>

\* The compare-and-set of MarkEventDispatched is lost to a goroutine that has
\* just claimed the event read: the whole dispatchN ends, whatever is queued.
DispatchLost(t) ==
    /\ Runs(t, "dispatchN")
    /\ \E s \in Threads \ {t} :
          Runs(s, "arm") /\ <<ev[Head(work[s]).e].reed, Head(work[t]).h>> \in alloc
    /\ Continue(t, <<>>)
    /\ UNCHANGED <<sockets, online, synced, alloc, unfanned, ev, next, timer, asked, inbox, sent, judgedOk>>

\* ResetDispatchedAt after a failed send.
Unclaim(t) ==
    /\ Runs(t, "unclaim")
    /\ LET o == Head(work[t]) IN
       ev' = IF ClaimedBy(o.e, o.h) THEN [ev EXCEPT ![o.e].disp = None] ELSE ev
    /\ Continue(t, <<>>)
    /\ UNCHANGED <<sockets, online, synced, alloc, unfanned, next, timer, asked, inbox, sent, judgedOk>>

\* startRelayTimer replaces whatever timer the event had; dispatchN goes on.
startRelayTimer(t) ==
    /\ Runs(t, "arm")
    /\ LET o == Head(work[t]) IN
       /\ timer' = [timer EXCEPT ![o.e] = o.h]
       /\ Continue(t, If(o.n > 1, dispatchN(o.h, o.n - 1)))
    /\ UNCHANGED <<sockets, online, synced, alloc, unfanned, ev, next, asked, inbox, sent, judgedOk>>

----------------------------------------------------------------------------
(* handleRelayResponse, deliverOrForward, markEventRelayed.                *)

\* RELAY_RESPONSE: only the holder the event is dispatched to is heard, and
\* an event already gone just advances that holder's queue.
RelayResponse(u, e) ==
    /\ Idle(u)
    /\ e \in asked[u]
    /\ asked' = [asked EXCEPT ![u] = @ \ {e}]
    /\ LET row == ev[e]
           deliver == [op |-> "deliver", u |-> row.req, e |-> e, r |-> row.reed, name |-> row.name]
           heard == IF ~Pending(e) THEN <<dispatchN(u, RefillBurst)>>
                    ELSE IF row.disp # u THEN <<>>
                    ELSE <<deliver, dispatchN(u, RefillBurst)>>
       IN  work' = [work EXCEPT ![u] = heard]
    /\ UNCHANGED <<sockets, online, synced, alloc, unfanned, ev, next, timer, inbox, sent, judgedOk>>

\* SendToUser(requester, body).  A failed write marks nothing and leaves the
\* relay timer to retry; a broadcast is deleted whatever became of it.
deliverOrForward(t) ==
    /\ Runs(t, "deliver")
    /\ LET o == Head(work[t])
           here == o.u \in sockets
           fleeting == o.name = "broadcast_reed"
       IN  /\ inbox' = IF here /\ ~fleeting THEN [inbox EXCEPT ![o.u] = @ \cup {o.e}] ELSE inbox
           /\ sent' = IF here THEN sent \cup {<<o.r, o.u>>} ELSE sent
           /\ ev' = IF fleeting /\ ~here /\ ~BusEnabled THEN [ev EXCEPT ![o.e] = NoRow] ELSE ev
           /\ Continue(t, If(here \/ BusEnabled, [op |-> "mark", e |-> o.e, name |-> o.name]))
    /\ UNCHANGED <<sockets, online, synced, alloc, unfanned, next, timer, asked, judgedOk>>

\* stopRelayTimer and MarkEventRelayed; a broadcast is then deleted at once.
markEventRelayed(t) ==
    /\ Runs(t, "mark")
    /\ LET o == Head(work[t]) IN
       /\ timer' = [timer EXCEPT ![o.e] = None]
       /\ ev' = IF o.name = "broadcast_reed" THEN [ev EXCEPT ![o.e] = NoRow]
                ELSE IF Pending(o.e) THEN [ev EXCEPT ![o.e].relayed = TRUE]
                ELSE ev
    /\ Continue(t, <<>>)
    /\ UNCHANGED <<sockets, online, synced, alloc, unfanned, next, asked, inbox, sent, judgedOk>>

----------------------------------------------------------------------------
(* handleRelayTimeout, handleRelayMiss, handleRelayError.                  *)

\* The checks at the head of handleFailedRelay, for the holder h that failed.
FailedRead(h, e, del) ==
    IF ~Pending(e) THEN <<dispatchN(h, RefillBurst)>>
    ELSE IF ev[e].disp # h THEN <<>>
    ELSE <<[op |-> "failed", h |-> h, e |-> e, r |-> ev[e].reed, del |-> del]>>

\* RELAY_MISS (del) or RELAY_ERROR: only the holder asked may fail the event.
RelayFailed(u, e, del) ==
    /\ Idle(u)
    /\ e \in asked[u]
    /\ asked' = [asked EXCEPT ![u] = @ \ {e}]
    /\ work' = [work EXCEPT ![u] = FailedRead(u, e, del)]
    /\ timer' = IF Pending(e) THEN timer ELSE [timer EXCEPT ![e] = None]
    /\ UNCHANGED <<sockets, online, synced, alloc, unfanned, ev, next, inbox, sent, judgedOk>>

\* Variant that must fail: a holder that is offline is not failed.
LeftAlone_WhenAbsent(e) == ~Pending(e) \/ ev[e].relayed \/ timer[e] \notin sockets

\* handleRelayTimeout leaves a closed or relayed event alone.
LeftAlone(e) == ~Pending(e) \/ ev[e].relayed

\* time.AfterFunc's callback deletes the timer it owns and, unlocked, runs
\* handleRelayTimeout.  One such goroutine per event runs at a time here.
handleRelayTimeout(e) ==
    /\ "silence" \in Failures
    /\ timer[e] # None
    /\ work[e] = <<>>
    /\ timer' = [timer EXCEPT ![e] = None]
    /\ work' = [work EXCEPT ![e] = IF LeftAlone(e) THEN <<>>
                                   ELSE FailedRead(timer[e], e, FALSE)]
    /\ UNCHANGED <<sockets, online, synced, alloc, unfanned, ev, next, asked, inbox, sent, judgedOk>>

\* Variant that must fail: silence or an error costs the row like a miss.
Dropped_OnAnyFailure(o) == {<<o.r, o.h>>}

\* DeleteReedAllocation, for a RELAY_MISS alone.
Dropped(o) == IF o.del THEN {<<o.r, o.h>>} ELSE {}

\* The rest of handleFailedRelay, on what was read before: stopRelayTimer, for
\* a miss DeleteReedAllocation, ResetDispatchedAt on the failed claim, then
\* GetOnlineHolders.  No holder at all: failReedNotHeld tells the requester
\* and deletes the event.
handleFailedRelay(t) ==
    /\ Runs(t, "failed")
    /\ LET o == Head(work[t])
           left == alloc \ Dropped(o)
           refill == <<dispatchN(o.h, RefillBurst)>>
       IN  /\ timer' = [timer EXCEPT ![o.e] = None]
           /\ alloc' = left
           /\ IF ~ClaimedBy(o.e, o.h)
              THEN ev' = ev /\ Continue(t, refill)
              ELSE IF HoldersIn(left, o.r) = {}
              THEN ev' = [ev EXCEPT ![o.e] = NoRow] /\ Continue(t, refill)
              ELSE /\ ev' = [ev EXCEPT ![o.e].disp = None]
                   /\ \E h \in PickOnline(left, o.r) : Continue(t, dispatchTo(h) \o refill)
    /\ UNCHANGED <<sockets, online, synced, unfanned, next, asked, inbox, sent, judgedOk>>

----------------------------------------------------------------------------
(* handleDataAck, handleDataInvalid.                                       *)

\* Variant that must fail: ackAcceptable without its relayed check.
Acked_Unrelayed(u, e) ==
    LET ok == ev[e].req = u IN
    /\ alloc' = IF ok THEN alloc \cup {<<ev[e].reed, u>>} ELSE alloc
    /\ ev' = IF ok THEN [ev EXCEPT ![e] = NoRow] ELSE ev

\* handleDataAck under ackAcceptable: the requester, once the body was marked
\* relayed, becomes a holder, and the event is deleted.
Acked(u, e) ==
    LET ok == ev[e].req = u /\ ev[e].relayed IN
    /\ alloc' = IF ok THEN alloc \cup {<<ev[e].reed, u>>} ELSE alloc
    /\ ev' = IF ok THEN [ev EXCEPT ![e] = NoRow] ELSE ev

\* DATA_ACK for a body the client received and verified.
handleDataAck(u, e) ==
    /\ Idle(u)
    /\ e \in inbox[u]
    /\ inbox' = [inbox EXCEPT ![u] = @ \ {e}]
    /\ judgedOk' = judgedOk \cup {e}
    /\ Acked(u, e)
    /\ UNCHANGED <<sockets, online, synced, unfanned, next, timer, asked, work, sent>>

\* DATA_ACK for an event the client was told of by REQUEST_ACK and holds no
\* copy for.
EarlyAck(u, e) ==
    /\ Idle(u)
    /\ ev[e].req = u
    /\ ev[e].name = "request_reed"
    /\ Acked(u, e)
    /\ UNCHANGED <<sockets, online, synced, unfanned, next, timer, asked, inbox, work, sent, judgedOk>>

\* DATA_INVALID: only the requester is heard; the claim is read here.
DataInvalid(u, e) ==
    /\ "invalid" \in Failures
    /\ Idle(u)
    /\ e \in inbox[u]
    /\ inbox' = [inbox EXCEPT ![u] = @ \ {e}]
    /\ work' = [work EXCEPT ![u] =
                   If(ev[e].req = u, [op |-> "invalid", e |-> e, r |-> ev[e].reed, disp |-> ev[e].disp])]
    /\ UNCHANGED <<sockets, online, synced, alloc, unfanned, ev, next, timer, asked, sent, judgedOk>>

\* ResetEventDelivery on that claim also clears relayed_at; never allocates.
handleDataInvalid(t) ==
    /\ Runs(t, "invalid")
    /\ LET o == Head(work[t]) IN
       IF ClaimedBy(o.e, o.disp)
       THEN /\ ev' = [ev EXCEPT ![o.e].disp = None, ![o.e].relayed = FALSE]
            /\ \E h \in PickOnline(alloc, o.r) : Continue(t, dispatchTo(h))
       ELSE ev' = ev /\ Continue(t, <<>>)
    /\ UNCHANGED <<sockets, online, synced, alloc, unfanned, next, timer, asked, inbox, sent, judgedOk>>

----------------------------------------------------------------------------
(* registerReedRequest (REQUEST_REED from a member of this server).        *)

\* The stale allocation of the requester goes first; with no holder left the
\* answer is REED_NOT_HELD and nothing is created.
requestReed(u, r) ==
    /\ u \in Requesters
    /\ Idle(u)
    /\ next \in Events
    /\ alloc' = alloc \ {<<r, u>>}
    /\ \E h \in PickOnline(alloc', r) :
          work' = [work EXCEPT ![u] =
                     If(HoldersIn(alloc', r) # {}, [op |-> "create", u |-> u, r |-> r, h |-> h])]
    /\ UNCHANGED <<sockets, online, synced, unfanned, ev, next, timer, asked, inbox, sent, judgedOk>>

\* createPendingReedEvent, then a dispatch to the holder found before.
createPendingReedEvent(t) ==
    /\ Runs(t, "create")
    /\ LET o == Head(work[t]) IN
       IF CanCreate(o.u)
       THEN Created(o.u, o.r, "request_reed") /\ Continue(t, dispatchTo(o.h))
       ELSE UNCHANGED <<ev, next>> /\ Continue(t, <<>>)
    /\ UNCHANGED <<sockets, online, synced, alloc, unfanned, timer, asked, inbox, sent, judgedOk>>

----------------------------------------------------------------------------
(* handleSyncRequest: catchUp, then dispatchNext for the user as a holder, *)
(* then redispatchPendingRequests for the user as a requester.             *)

\* Variant that must fail: catch-up leaves out a reed whose fanout is running.
MissingOut_SkipsInFlight(u) == {r \in Follows[u] : <<r, u>> \notin alloc /\ work[r] = <<>>}

\* GetMissingOut: reeds by followed authors u has no allocation for.
MissingOut(u) == {r \in Follows[u] : <<r, u>> \notin alloc}

\* SetSyncRequestID and GetMissingOut.
handleSyncRequest(t) ==
    /\ Runs(t, "sync")
    /\ LET u == Head(work[t]).u
           missing == MissingOut(u)
       IN  /\ synced' = synced \cup ({u} \cap online)
           /\ Continue(t, If(missing # {}, [op |-> "catchUp", u |-> u, rs |-> missing])
                          \o <<dispatchN(u, 1), [op |-> "listPending", u |-> u]>>)
    /\ UNCHANGED <<sockets, online, alloc, unfanned, ev, next, timer, asked, inbox, sent, judgedOk>>

\* One missed reed after the other: an event, then a dispatch to a holder.
catchUpReed(t) ==
    /\ Runs(t, "catchUp")
    /\ LET o == Head(work[t]) IN
       \E r \in o.rs :
          LET rest == If(o.rs # {r}, [o EXCEPT !.rs = @ \ {r}]) IN
          IF CanCreate(o.u)
          THEN /\ Created(o.u, r, "follow_reed")
               /\ \E h \in PickOnline(alloc, r) : Continue(t, dispatchTo(h) \o rest)
          ELSE UNCHANGED <<ev, next>> /\ Continue(t, rest)
    /\ UNCHANGED <<sockets, online, synced, alloc, unfanned, timer, asked, inbox, sent, judgedOk>>

\* GetPendingRequestsForRequester.
listPendingRequests(t) ==
    /\ Runs(t, "listPending")
    /\ LET u == Head(work[t]).u
           claims == {<<e, ev[e].disp>> : e \in {f \in Events : ev[f].req = u}}
       IN  Continue(t, If(claims # {}, [op |-> "redispatch", claims |-> claims]))
    /\ UNCHANGED <<sockets, online, synced, alloc, unfanned, ev, next, timer, asked, inbox, sent, judgedOk>>

\* ResetDispatchedAt on each claim listed, unless it was redispatched since;
\* relayed_at is left as it is.
redispatchPendingRequests(t) ==
    /\ Runs(t, "redispatch")
    /\ LET o == Head(work[t]) IN
       \E c \in o.claims :
          LET e == c[1]
              rest == If(o.claims # {c}, [o EXCEPT !.claims = @ \ {c}])
          IN  IF ClaimedBy(e, c[2])
              THEN /\ ev' = [ev EXCEPT ![e].disp = None]
                   /\ \E h \in PickOnline(alloc, ev[e].reed) : Continue(t, dispatchTo(h) \o rest)
              ELSE ev' = ev /\ Continue(t, rest)
    /\ UNCHANGED <<sockets, online, synced, alloc, unfanned, next, timer, asked, inbox, sent, judgedOk>>

----------------------------------------------------------------------------
(* handlePublishReady, fanoutNewReedCore, dispatchMany.                    *)

\* PUBLISH_READY: ClaimPendingFanout, then the fanout runs in a goroutine.
handlePublishReady(u, r) ==
    /\ Idle(u)
    /\ Author[r] = u
    /\ r \in unfanned
    /\ unfanned' = unfanned \ {r}
    /\ work' = [work EXCEPT ![r] = <<[op |-> "fanout", r |-> r]>>]
    /\ UNCHANGED <<sockets, online, synced, alloc, ev, next, timer, asked, inbox, sent, judgedOk>>

\* Followers that are online get FOLLOW_REED, the rest of the broadcast
\* subscribers BROADCAST_REED; the author gets neither.
fanoutNewReedCore(t) ==
    /\ Runs(t, "fanout")
    /\ LET r == Head(work[t]).r
           others == online \ {Author[r]}
           followers == {u \in others : r \in Follows[u]}
           to == (followers \X {"follow_reed"})
                 \cup (((Broadcast \cap others) \ followers) \X {"broadcast_reed"})
       IN  Continue(t, If(to # {}, [op |-> "enqueue", r |-> r, to |-> to])
                       \o <<dispatchNIfConnected(Author[r], InitialBurst)>>)
    /\ UNCHANGED <<sockets, online, synced, alloc, unfanned, ev, next, timer, asked, inbox, sent, judgedOk>>

\* A recipient that has not synced yet gets the reed through catchUp instead.
dispatchMany(t) ==
    /\ Runs(t, "enqueue")
    /\ LET o == Head(work[t]) IN
       \E p \in o.to :
          /\ Continue(t, If(o.to # {p}, [o EXCEPT !.to = @ \ {p}]))
          /\ IF p[1] \in synced /\ CanCreate(p[1])
             THEN Created(p[1], o.r, p[2])
             ELSE UNCHANGED <<ev, next>>
    /\ UNCHANGED <<sockets, online, synced, alloc, unfanned, timer, asked, inbox, sent, judgedOk>>

----------------------------------------------------------------------------
(* Eviction, sockets and the process.                                      *)

\* handleEviction: the client is about to delete its copy.
handleEviction(u, r) ==
    /\ u \in Evicting
    /\ Idle(u)
    /\ <<r, u>> \in alloc
    /\ alloc' = alloc \ {<<r, u>>}
    /\ UNCHANGED <<sockets, online, synced, unfanned, ev, next, timer, asked, inbox, work, sent, judgedOk>>

\* RegisterClient and MarkUserOnline; the client's first frame is SYNC_REQUEST.
\* A client that is back before its teardown is over is Presence's subject.
Connect(u) ==
    /\ u \notin online
    /\ work[u] = <<>>
    /\ sockets' = sockets \cup {u}
    /\ online' = online \cup {u}
    /\ work' = [work EXCEPT ![u] = <<[op |-> "sync", u |-> u]>>]
    /\ UNCHANGED <<synced, alloc, unfanned, ev, next, timer, asked, inbox, sent, judgedOk>>

\* The socket closes: UnregisterClient, and what was queued on it is lost.  Its
\* goroutine goes on with the teardown.
Disconnect(u) ==
    /\ u \in Leaving
    /\ Idle(u)
    /\ sockets' = sockets \ {u}
    /\ asked' = [asked EXCEPT ![u] = {}]
    /\ inbox' = [inbox EXCEPT ![u] = {}]
    /\ work' = [work EXCEPT ![u] = <<[op |-> "deletePending", u |-> u], [op |-> "offline", u |-> u]>>]
    /\ UNCHANGED <<online, synced, alloc, unfanned, ev, next, timer, sent, judgedOk>>

\* The pending events of u are deleted.
WithoutEventsOf(u) == [e \in Events |-> IF ev[e].req = u THEN NoRow ELSE ev[e]]

\* teardownUser: DeletePendingEventsByUser, while the presence row is there and
\* others may create more.
teardownUser(t) ==
    /\ Runs(t, "deletePending")
    /\ ev' = WithoutEventsOf(Head(work[t]).u)
    /\ Continue(t, <<>>)
    /\ UNCHANGED <<sockets, online, synced, alloc, unfanned, next, timer, asked, inbox, sent, judgedOk>>

\* MarkUserOffline: what was created meanwhile, and the row of online_users
\* with its sync_request_id, in one transaction.
MarkUserOffline(t) ==
    /\ Runs(t, "offline")
    /\ LET u == Head(work[t]).u IN
       /\ online' = online \ {u}
       /\ synced' = synced \ {u}
       /\ ev' = WithoutEventsOf(u)
    /\ Continue(t, <<>>)
    /\ UNCHANGED <<sockets, alloc, unfanned, next, timer, asked, inbox, sent, judgedOk>>

\* A new socket replaces the old one while presence and pending events stay;
\* frames the old socket had not handed to the client are lost.
Supersede(u) ==
    /\ u \in Superseding
    /\ Idle(u)
    /\ asked[u] \cup inbox[u] # {}
    /\ asked' = [asked EXCEPT ![u] = {}]
    /\ inbox' = [inbox EXCEPT ![u] = {}]
    /\ work' = [work EXCEPT ![u] = <<[op |-> "sync", u |-> u]>>]
    /\ UNCHANGED <<sockets, online, synced, alloc, unfanned, ev, next, timer, sent, judgedOk>>

\* The process dies between any two steps and boots: ClearRealtimeState drops
\* the unlogged tables, reed_allocations and pending_fanout stay.
Restart ==
    /\ Restarting
    /\ online # {}
    /\ sockets' = {}
    /\ online' = {}
    /\ synced' = {}
    /\ ev' = [e \in Events |-> NoRow]
    /\ timer' = [e \in Events |-> None]
    /\ asked' = [u \in Users |-> {}]
    /\ inbox' = [u \in Users |-> {}]
    /\ work' = [t \in Threads |-> <<>>]
    /\ UNCHANGED <<alloc, unfanned, next, sent, judgedOk>>

----------------------------------------------------------------------------
Run(t) ==
    \/ DispatchNothing(t) \/ DispatchNext(t) \/ DispatchLost(t)
    \/ Unclaim(t) \/ startRelayTimer(t)
    \/ deliverOrForward(t) \/ markEventRelayed(t)
    \/ handleFailedRelay(t)
    \/ handleDataInvalid(t)
    \/ createPendingReedEvent(t)
    \/ handleSyncRequest(t) \/ catchUpReed(t) \/ listPendingRequests(t) \/ redispatchPendingRequests(t)
    \/ fanoutNewReedCore(t) \/ dispatchMany(t)
    \/ teardownUser(t) \/ MarkUserOffline(t)

ClientFrame(u) ==
    \/ \E e \in Events :
          \/ RelayResponse(u, e)
          \/ \E how \in Failures \cap {"miss", "error"} : RelayFailed(u, e, how = "miss")
          \/ handleDataAck(u, e) \/ EarlyAck(u, e) \/ DataInvalid(u, e)
    \/ \E r \in Reeds : requestReed(u, r) \/ handleEviction(u, r) \/ handlePublishReady(u, r)

Next ==
    \/ \E t \in Threads : Run(t)
    \/ \E e \in Events : handleRelayTimeout(e)
    \/ \E u \in Users : ClientFrame(u)
    \/ \E u \in Users : Connect(u) \/ Disconnect(u) \/ Supersede(u)
    \/ Restart

Spec == Init /\ [][Next]_vars

\* The Go scheduler runs every runnable goroutine and time.AfterFunc fires;
\* what the clients do is never assumed.
Fairness ==
    /\ \A t \in Threads : WF_vars(Run(t))
    /\ \A e \in Events : WF_vars(handleRelayTimeout(e))

FairSpec == Spec /\ Fairness

----------------------------------------------------------------------------
(* Properties.                                                             *)

\* Every table row, frame and goroutine has its shape.
TypeOK ==
    /\ sockets \subseteq Users
    /\ online \subseteq Users
    /\ synced \subseteq online
    /\ alloc \subseteq Reeds \X Users
    /\ unfanned \subseteq Reeds
    /\ ev \in [Events -> Row]
    /\ next \in 1 .. MaxEvents + 1
    /\ timer \in [Events -> User]
    /\ asked \in [Users -> SUBSET Events]
    /\ inbox \in [Users -> SUBSET Events]
    /\ work \in [Threads -> Seq(Op)]
    /\ sent \subseteq Reeds \X Users
    /\ judgedOk \subseteq Events

\* A row of reed_allocations is earned: its holder is the author, was there
\* from the start, or was once handed the body by this server (handleDataAck
\* and ackAcceptable; docs/relay-model.md, "a holder earns a row").
HolderWasSent ==
    \A p \in alloc : p \in InitHolders \/ p[2] = Author[p[1]] \/ p \in sent

\* A row of reed_allocations is lost by its holder's own act alone: its MISS,
\* its eviction or its own request for the reed.  What the goroutine of another
\* user or of a relay timer does never takes it, whatever it read before
\* (handleFailedRelay, handleRelayTimeout, registerReedRequest).
OnlyHolderLosesRow ==
    [][\A p \in alloc \ alloc' : \A t \in Threads \ {p[2]} : work'[t] = work[t]]_vars

\* The relay engine is a HolderDirectory: with all its events, claims, timers
\* and retries, a step of it gives one copy, takes one row on the word of
\* somebody given that copy, drops one row, or does neither.
Directory == INSTANCE HolderDirectory
    WITH held <- alloc, given <- sent,
         InitHeld <- InitHolders \cup {<<r, Author[r]>> : r \in Reeds}
ImplementsDirectory == Directory!DirectorySpec

\* A published reed reaches its followers: with no goroutine running, a
\* synced follower of a reed whose fanout was started holds it or has an event
\* pending for it, whether it synced before, during or after the fanout
\* (fanoutNewReedCore, dispatchMany, catchUp).  A reed nobody holds is excused.
NoFollowerMissed ==
    Quiet => \A u \in synced, r \in Reeds \ unfanned :
        r \in Follows[u] /\ <<r, Author[r]>> \in alloc
            => <<r, u>> \in alloc \/ \E e \in Events : ev[e].req = u /\ ev[e].reed = r

\* A holder that stays silent does not keep an event: claimed and not
\* relayed, it is relayed, unclaimed or gone in the end (startRelayTimer,
\* handleRelayTimeout; here with one holder and one event, see
\* UnansweredClaimTimed for two).
SilenceMovesOn ==
    \A e \in Events :
        Pending(e) /\ ev[e].disp # None /\ ~ev[e].relayed
            ~> ~Pending(e) \/ ev[e].disp = None \/ ev[e].relayed

\* dispatchRequestTimeout bounds the wait for a holder: with no goroutine
\* running, an event claimed by a holder and not yet relayed has a timer armed
\* for that very holder (startRelayTimer, handleFailedRelay).
UnansweredClaimTimed ==
    Quiet => \A e \in Events :
        Pending(e) /\ ev[e].disp # None /\ ~ev[e].relayed => timer[e] = ev[e].disp

\* A verified body earns its row: with no goroutine running, an event whose
\* requester sent DATA_ACK is closed, or another copy is on its way.
AckCloses ==
    Quiet => \A e \in judgedOk :
        Pending(e) => timer[e] # None \/ e \in inbox[ev[e].req] \/ ev[e].disp = None
============================================================================
