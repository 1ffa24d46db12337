--------------------------- MODULE Relay_proofs ---------------------------
(***************************************************************************)
(* Proofs about the relay engine, for any set of users and reeds, any      *)
(* number of events and either setting of the bus: its type invariant,     *)
(* HolderWasSent (a row of reed_allocations is earned), that it implements *)
(* HolderDirectory, and that only its holder loses a row; and about        *)
(* removals, that every copy can be called back (RemovalsHeard).           *)
(*                                                                         *)
(* HolderWasSent is not inductive.  The row an ack writes was read from an *)
(* event marked relayed, the mark was made on the word of an operation a   *)
(* goroutine had carried since its SendToUser, and the message was sent to *)
(* the requester read before that.  So the invariant speaks of what every  *)
(* queued operation knows (Knows), and that what it knows stays true while *)
(* other goroutines run: event ids are never minted twice.                 *)
(* A body put on the bus between the end of a socket and its teardown is   *)
(* marked relayed too, but its requester is gone and cannot acknowledge it *)
(* (HandedOver).                                                           *)
(***************************************************************************)
EXTENDS Relay, Removals, FiniteSetTheorems, SequenceTheorems, TLAPS

\* The reed of event e was handed to its requester, or was put on the bus when
\* the requester's socket had just closed and its teardown was yet to come.
HandedOver(e) == <<ev[e].reed, ev[e].req>> \in sent \/ ev[e].req \notin sockets

\* What the goroutine that carries o has established about its event.
Knows(o) ==
    /\ o.op = "deliver" =>
          o.e < next /\ (Pending(o.e) => ev[o.e].req = o.u /\ ev[o.e].reed = o.r)
    /\ o.op = "mark" =>
          o.e < next /\ (Pending(o.e) => HandedOver(o.e))

Known == {o \in Op : Knows(o)}

\* The shape of everything but the goroutines.
Types ==
    /\ sockets \subseteq Users
    /\ online \subseteq Users
    /\ synced \subseteq online
    /\ alloc \subseteq Reeds \X Users
    /\ sent \subseteq Reeds \X Users
    /\ unfanned \subseteq Reeds
    /\ ev \in [Events -> Row]
    /\ next \in 1 .. MaxEvents + 1
    /\ timer \in [Events -> User]
    /\ asked \in [Users -> SUBSET Events]
    /\ inbox \in [Users -> SUBSET Events]
    /\ judgedOk \subseteq Events

\* An id not minted yet has no row.
Fresh == \A e \in Events : next <= e => ~Pending(e)

\* An event is marked relayed only once its requester was handed its reed, or
\* when nobody is there to acknowledge it.
RelayedSent == \A e \in Events : Pending(e) /\ ev[e].relayed => HandedOver(e)

\* A pending event has a requester with a presence row, and a reed.
RequesterPresent == \A e \in Events : Pending(e) => ev[e].req \in online /\ ev[e].reed \in Reeds

Inv ==
    /\ Types
    /\ work \in [Threads -> Seq(Known)]
    /\ RequesterPresent
    /\ Fresh
    /\ RelayedSent
    /\ HolderWasSent

----------------------------------------------------------------------------
(* The operations of a goroutine.                                          *)

USE DEF Events

\* An operation has the fields its name says.
LEMMA OpFields ==
    ASSUME NEW o \in Op
    PROVE  /\ o.op = "dispatchN" => o.h \in Users /\ o.n \in 1 .. RefillBurst /\ o.checked \in BOOLEAN
           /\ o.op = "unclaim" => o.h \in Users /\ o.e \in Events
           /\ o.op = "arm" => o.h \in Users /\ o.e \in Events /\ o.n \in 1 .. RefillBurst
           /\ o.op = "failed" => o.h \in Users /\ o.e \in Events /\ o.r \in Reeds /\ o.del \in BOOLEAN
           /\ o.op = "deliver" => o.u \in Users /\ o.e \in Events /\ o.r \in Reeds /\ o.name \in Names
           /\ o.op = "mark" => o.e \in Events /\ o.name \in Names
           /\ o.op = "invalid" => o.e \in Events /\ o.r \in Reeds /\ o.disp \in User
           /\ o.op = "create" => o.u \in Users /\ o.r \in Reeds /\ o.h \in User
           /\ o.op = "sync" => o.u \in Users
           /\ o.op = "listPending" => o.u \in Users
           /\ o.op \in {"deletePending", "offline"} => o.u \in Users
           /\ o.op = "catchUp" => o.u \in Users /\ o.rs \in SUBSET Reeds
           /\ o.op = "redispatch" => o.claims \in SUBSET (Events \X User)
           /\ o.op = "fanout" => o.r \in Reeds
           /\ o.op = "enqueue" => o.r \in Reeds /\ o.to \in SUBSET (Users \X Names)
  BY DEF Op

\* A goroutine's first operation, and what is left when it is done.
LEMMA WorkStep ==
    ASSUME NEW S, NEW T, S \subseteq T, NEW w \in [Threads -> Seq(S)],
           NEW t \in Threads, w[t] # <<>>, NEW more \in Seq(T)
    PROVE  /\ Head(w[t]) \in S
           /\ [w EXCEPT ![t] = more \o Tail(@)] \in [Threads -> Seq(T)]
<1>1. w[t] \in Seq(S)
  OBVIOUS
<1>2. Head(w[t]) \in S /\ Tail(w[t]) \in Seq(S)
  BY <1>1, HeadTailProperties
<1>3. Tail(w[t]) \in Seq(T)
  BY <1>2, SeqMonotonic
<1>4. more \o Tail(w[t]) \in Seq(T)
  BY <1>3, ConcatProperties
<1>5. \A s \in Threads : w[s] \in Seq(T)
  BY SeqMonotonic
<1> QED
  BY <1>2, <1>4, <1>5

\* Only the two operations that carry a requester have anything to know.
LEMMA PlainKnown ==
    ASSUME NEW o \in Op, o.op \notin {"deliver", "mark"}
    PROVE  o \in Known /\ o \in Known'
  BY DEF Known, Knows

\* A sequence of one element.
LEMMA OneSeq ==
    ASSUME NEW S, NEW x \in S
    PROVE  <<x>> \in Seq(S)
  OBVIOUS

\* A sequence of two elements.
LEMMA TwoSeq ==
    ASSUME NEW S, NEW x \in S, NEW y \in S
    PROVE  <<x, y>> \in Seq(S)
  OBVIOUS

\* Asking a holder for what it is due is always sound.
LEMMA DispatchKnown ==
    ASSUME NEW h \in Users, NEW n \in 1 .. RefillBurst
    PROVE  /\ dispatchN(h, n) \in Known' /\ <<dispatchN(h, n)>> \in Seq(Known')
           /\ dispatchNIfConnected(h, n) \in Known' /\ <<dispatchNIfConnected(h, n)>> \in Seq(Known')
<1>1. dispatchN(h, n) \in Op /\ dispatchN(h, n).op = "dispatchN"
  BY DEF Op, dispatchN
<1>2. dispatchNIfConnected(h, n) \in Op /\ dispatchNIfConnected(h, n).op = "dispatchN"
  BY DEF Op, dispatchNIfConnected
<1>3. dispatchN(h, n) \in Known' /\ dispatchNIfConnected(h, n) \in Known'
  BY <1>1, <1>2, PlainKnown
<1> QED
  BY <1>3, OneSeq

\* dispatchNextIfConnected of the holder a query returned, or of nobody.
LEMMA DispatchToKnown ==
    ASSUME NEW h \in User
    PROVE  dispatchTo(h) \in Seq(Known')
<1>1. 1 \in 1 .. RefillBurst
  BY RelayAssumption
<1>2. CASE h = None
  BY <1>2, EmptySeq DEF dispatchTo
<1>3. CASE h # None
  <2>1. h \in Users
    BY <1>3 DEF User
  <2> QED
    BY <1>1, <1>3, <2>1, DispatchKnown DEF dispatchTo
<1> QED
  BY <1>2, <1>3

\* The holder queries return a user or None.
LEMMA PickOnlineType ==
    ASSUME NEW al, NEW r
    PROVE  PickOnline(al, r) \subseteq User
  BY DEF PickOnline, HoldersIn, User

----------------------------------------------------------------------------
(* What the steps of one goroutine leave true for the others.              *)

\* Rows that are only claimed, released, unmarked or deleted.
LEMMA RowsKept ==
    ASSUME Inv, sent \subseteq sent', next' = next, ev' \in [Events -> Row],
           online \cap sockets' \subseteq sockets,
           \A e \in Events : Pending(e)' =>
              /\ Pending(e) /\ ev'[e].req = ev[e].req /\ ev'[e].reed = ev[e].reed
              /\ ev'[e].relayed => ev[e].relayed
              /\ ev[e].req \in online'
    PROVE  Known \subseteq Known' /\ RequesterPresent' /\ Fresh' /\ RelayedSent'
<1>1. next \in Nat
  BY RelayAssumption DEF Inv, Types
<1>h. ASSUME NEW e \in Events, Pending(e)', HandedOver(e) PROVE HandedOver(e)'
  <2>1. ev[e].req \in online
    BY <1>h DEF Inv, RequesterPresent
  <2> QED
    BY <1>h, <2>1 DEF HandedOver
<1>2. ASSUME NEW o \in Known PROVE o \in Known'
  <2>1. o \in Op /\ Knows(o)
    BY DEF Known
  <2>2. o.op \in {"deliver", "mark"} => o.e \in Events
    BY <2>1, OpFields
  <2> QED
    BY <1>h, <2>1, <2>2 DEF Known, Knows
<1>3. RequesterPresent'
  BY DEF RequesterPresent, Inv
<1>4. Fresh'
  BY DEF Fresh, Inv
<1>5. RelayedSent'
  BY <1>h DEF RelayedSent, Inv
<1> QED
  BY <1>2, <1>3, <1>4, <1>5

\* Nothing of the tables changes.
LEMMA SameRows ==
    ASSUME Inv, sockets' \subseteq sockets, UNCHANGED <<online, alloc, ev, next, sent>>
    PROVE  Known \subseteq Known' /\ RequesterPresent' /\ Fresh' /\ RelayedSent' /\ HolderWasSent'
<1>1. Known \subseteq Known' /\ RequesterPresent' /\ Fresh' /\ RelayedSent'
  <2>1. \A e \in Events : Pending(e)' => Pending(e) /\ ev[e].req \in online'
    BY DEF Inv, RequesterPresent, Pending
  <2> QED
    BY <2>1, RowsKept DEF Inv, Types
<1>2. HolderWasSent'
  BY DEF Inv, HolderWasSent
<1> QED
  BY <1>1, <1>2

\* Rows deleted, claimed or released while nobody comes, goes or earns a copy.
LEMMA RowsChanged ==
    ASSUME Inv, sockets' \subseteq sockets, UNCHANGED <<online, next>>,
           sent \subseteq sent', alloc' \subseteq alloc,
           ev' \in [Events -> Row],
           \A e \in Events :
              \/ ev'[e] = NoRow
              \/ /\ ev'[e].req = ev[e].req /\ ev'[e].reed = ev[e].reed
                 /\ ev'[e].relayed => ev[e].relayed
    PROVE  Known \subseteq Known' /\ RequesterPresent' /\ Fresh' /\ RelayedSent' /\ HolderWasSent'
<1>1. NoRow.req = None
  BY DEF NoRow
<1>2. \A e \in Events : Pending(e)' =>
         /\ Pending(e) /\ ev'[e].req = ev[e].req /\ ev'[e].reed = ev[e].reed
         /\ ev'[e].relayed => ev[e].relayed
         /\ ev[e].req \in online'
  BY <1>1 DEF Inv, RequesterPresent, Pending
<1>3. HolderWasSent'
  BY DEF Inv, HolderWasSent
<1> QED
  BY <1>2, <1>3, RowsKept

\* A new row takes the next id.
LEMMA CreatedKeeps ==
    ASSUME Inv, NEW u \in online, NEW r \in Reeds, NEW name \in Names, Created(u, r, name),
           UNCHANGED <<sockets, online, alloc, sent>>
    PROVE  /\ ev' \in [Events -> Row] /\ next' \in 1 .. MaxEvents + 1
           /\ Known \subseteq Known' /\ RequesterPresent' /\ Fresh' /\ RelayedSent' /\ HolderWasSent'
<1> DEFINE row == [req |-> u, reed |-> r, name |-> name, disp |-> None, relayed |-> FALSE]
<1>1. row \in Row
  BY DEF Row, User, Inv, Types
<1>2. next \in Events /\ next' = next + 1 /\ next' \in 1 .. MaxEvents + 1
  BY RelayAssumption DEF Created
<1>3. ev' = [ev EXCEPT ![next] = row] /\ ev' \in [Events -> Row]
  BY <1>1 DEF Created, Inv, Types
<1>4. \A e \in Events : e # next => ev'[e] = ev[e]
  BY <1>3 DEF Inv, Types
<1>5. ev'[next] = row
  BY <1>2, <1>3 DEF Inv, Types
<1>6. ASSUME NEW o \in Known PROVE o \in Known'
  <2>1. o \in Op /\ Knows(o)
    BY DEF Known
  <2>2. o.op \in {"deliver", "mark"} => o.e \in Events /\ o.e < next
    BY <2>1, OpFields DEF Knows
  <2>3. o.op \in {"deliver", "mark"} => ev'[o.e] = ev[o.e] /\ o.e < next'
    BY <1>2, <1>4, <2>2
  <2> QED
    BY <2>1, <2>2, <2>3 DEF Known, Knows, Pending, HandedOver
<1>7. RequesterPresent'
  BY <1>4, <1>5 DEF Inv, RequesterPresent, Pending
<1>8. Fresh'
  BY <1>2, <1>4 DEF Inv, Fresh, Pending
<1>9. RelayedSent'
  <2>1. row.relayed = FALSE
    OBVIOUS
  <2>2. \A e \in Events : e # next => (Pending(e)' <=> Pending(e))
    BY <1>4 DEF Pending
  <2>3. sent' = sent
    OBVIOUS
  <2>4. ASSUME NEW e \in Events, Pending(e)', ev'[e].relayed
        PROVE  HandedOver(e)'
    <3>1. e # next
      BY <1>5, <2>1, <2>4
    <3> QED
      BY <1>4, <2>2, <2>3, <2>4, <3>1 DEF Inv, RelayedSent, HandedOver
  <2> QED
    BY <2>4 DEF RelayedSent
<1>10. HolderWasSent'
  BY DEF Inv, HolderWasSent
<1> QED
  BY <1>2, <1>3, <1>6, <1>7, <1>8, <1>9, <1>10

----------------------------------------------------------------------------
(* One lemma per operation.                                                *)

\* What every operation starts from: its record, and the goroutine behind it.
LEMMA FirstOp ==
    ASSUME Inv, NEW t \in Threads, NEW name, Runs(t, name)
    PROVE  /\ work[t] # <<>> /\ Head(work[t]) \in Known /\ Head(work[t]) \in Op
           /\ Head(work[t]).op = name
<1>1. work \in [Threads -> Seq(Known)] /\ work[t] # <<>> /\ Head(work[t]).op = name
  BY DEF Inv, Runs
<1>2. Head(work[t]) \in Known
  BY <1>1, HeadTailProperties
<1> QED
  BY <1>1, <1>2 DEF Known

\* The goroutine goes on with operations that know what they must.
LEMMA Goes ==
    ASSUME Inv, NEW t \in Threads, work[t] # <<>>, Known \subseteq Known',
           NEW more \in Seq(Known'), Continue(t, more)
    PROVE  work' \in [Threads -> Seq(Known')]
  BY WorkStep DEF Inv, Continue

\* A goroutine started afresh.
LEMMA Starts ==
    ASSUME Inv, NEW t \in Threads, Known \subseteq Known', NEW more \in Seq(Known'),
           work' = [work EXCEPT ![t] = more]
    PROVE  work' \in [Threads -> Seq(Known')]
<1>1. \A s \in Threads : work[s] \in Seq(Known')
  BY SeqMonotonic DEF Inv
<1> QED
  BY <1>1 DEF Inv

\* A goroutine with nothing left to do.
LEMMA EmptyKnown == <<>> \in Seq(Known')
  BY EmptySeq

\* DispatchNothing keeps the invariant.
LEMMA DispatchNothingKeeps ==
    ASSUME Inv, NEW t \in Threads, DispatchNothing(t) \/ DispatchLost(t)
    PROVE  Inv'
<1> USE DEF DispatchNothing, DispatchLost
<1>1. Known \subseteq Known' /\ RequesterPresent' /\ Fresh' /\ RelayedSent' /\ HolderWasSent'
  BY SameRows
<1>2. work' \in [Threads -> Seq(Known')]
  BY <1>1, Goes, EmptyKnown DEF Runs
<1>3. Types'
  BY DEF Inv, Types
<1> QED
  BY <1>1, <1>2, <1>3 DEF Inv

\* DispatchNext keeps the invariant.
LEMMA DispatchNextKeeps ==
    ASSUME Inv, NEW t \in Threads, DispatchNext(t)
    PROVE  Inv'
<1> DEFINE o == Head(work[t])
           arm(e) == [op |-> "arm", h |-> o.h, e |-> e, n |-> o.n]
           back(e) == [op |-> "unclaim", h |-> o.h, e |-> e]
<1>1. o \in Op /\ o.op = "dispatchN" /\ work[t] # <<>>
  BY FirstOp DEF DispatchNext
<1>2. o.h \in Users /\ o.n \in 1 .. RefillBurst
  BY <1>1, OpFields
<1>3. PICK e \in Oldest(Queue(o.h)) :
         /\ ev' = [ev EXCEPT ![e].disp = o.h]
         /\ asked' = IF o.h \in sockets THEN [asked EXCEPT ![o.h] = @ \cup {e}] ELSE asked
         /\ Continue(t, IF o.h \in sockets \/ BusEnabled THEN <<arm(e)>> ELSE <<back(e)>>)
  BY DEF DispatchNext
<1>4. e \in Events
  BY DEF Oldest, Queue
<1>5. UNCHANGED <<sockets, online, synced, alloc, unfanned, next, timer, inbox, sent, judgedOk>>
  BY DEF DispatchNext
<1>6. ev' \in [Events -> Row]
  BY <1>2, <1>3, <1>4, ZenonT(40) DEF Inv, Types, Row, User
<1>7. \A f \in Events : ev'[f].req = ev[f].req /\ ev'[f].reed = ev[f].reed /\ ev'[f].relayed = ev[f].relayed
  BY <1>2, <1>3, <1>4 DEF Inv, Types, Row, User
<1>8. Known \subseteq Known' /\ RequesterPresent' /\ Fresh' /\ RelayedSent' /\ HolderWasSent'
  BY <1>5, <1>6, <1>7, RowsChanged
<1>9. arm(e) \in Known' /\ back(e) \in Known'
  <2>1. arm(e) \in Op /\ back(e) \in Op
    BY <1>2, <1>4 DEF Op
  <2> QED
    BY <2>1, PlainKnown
<1>10. work' \in [Threads -> Seq(Known')]
  BY <1>1, <1>3, <1>8, <1>9, Goes, OneSeq
<1>11. asked' \in [Users -> SUBSET Events]
  BY <1>2, <1>3, <1>4 DEF Inv, Types
<1> QED
  BY <1>5, <1>6, <1>8, <1>10, <1>11 DEF Inv, Types

\* Unclaim keeps the invariant.
LEMMA UnclaimKeeps ==
    ASSUME Inv, NEW t \in Threads, Unclaim(t)
    PROVE  Inv'
<1> DEFINE o == Head(work[t])
<1>1. o \in Op /\ o.op = "unclaim" /\ work[t] # <<>>
  BY FirstOp DEF Unclaim
<1>2. o.e \in Events
  BY <1>1, OpFields
<1>3. ev' = IF ClaimedBy(o.e, o.h) THEN [ev EXCEPT ![o.e].disp = None] ELSE ev
  BY DEF Unclaim
<1>4. UNCHANGED <<sockets, online, synced, alloc, unfanned, next, timer, asked, inbox, sent, judgedOk>>
  BY DEF Unclaim
<1>5. /\ ev' \in [Events -> Row]
      /\ \A f \in Events : ev'[f].req = ev[f].req /\ ev'[f].reed = ev[f].reed /\ ev'[f].relayed = ev[f].relayed
  BY <1>2, <1>3, ZenonT(40) DEF Inv, Types, Row, User
<1>6. Known \subseteq Known' /\ RequesterPresent' /\ Fresh' /\ RelayedSent' /\ HolderWasSent'
  BY <1>4, <1>5, RowsChanged
<1>7. work' \in [Threads -> Seq(Known')]
  BY <1>1, <1>6, Goes, EmptyKnown DEF Unclaim
<1> QED
  BY <1>4, <1>5, <1>6, <1>7 DEF Inv, Types

\* startRelayTimer keeps the invariant.
LEMMA startRelayTimerKeeps ==
    ASSUME Inv, NEW t \in Threads, startRelayTimer(t)
    PROVE  Inv'
<1> DEFINE o == Head(work[t])
<1>1. o \in Op /\ o.op = "arm" /\ work[t] # <<>>
  BY FirstOp DEF startRelayTimer
<1>2. o.h \in Users /\ o.e \in Events /\ o.n \in 1 .. RefillBurst
  BY <1>1, OpFields
<1>3. Known \subseteq Known' /\ RequesterPresent' /\ Fresh' /\ RelayedSent' /\ HolderWasSent'
  BY SameRows DEF startRelayTimer
<1>4. If(o.n > 1, dispatchN(o.h, o.n - 1)) \in Seq(Known')
  <2>1. CASE o.n > 1
    <3>1. o.n - 1 \in 1 .. RefillBurst
      BY <1>2, <2>1, RelayAssumption
    <3> QED
      BY <1>2, <2>1, <3>1, DispatchKnown DEF If
  <2>2. CASE ~(o.n > 1)
    BY <2>2, EmptyKnown DEF If
  <2> QED
    BY <2>1, <2>2
<1>5. work' \in [Threads -> Seq(Known')]
  BY <1>1, <1>3, <1>4, Goes DEF startRelayTimer
<1>6. Types'
  BY <1>2 DEF startRelayTimer, Inv, Types, User
<1> QED
  BY <1>3, <1>5, <1>6 DEF Inv

\* RelayResponse keeps the invariant.
LEMMA RelayResponseKeeps ==
    ASSUME Inv, NEW u \in Users, NEW e \in Events, RelayResponse(u, e)
    PROVE  Inv'
<1> DEFINE row == ev[e]
           deliver == [op |-> "deliver", u |-> row.req, e |-> e, r |-> row.reed, name |-> row.name]
           heard == IF ~Pending(e) THEN <<dispatchN(u, RefillBurst)>>
                    ELSE IF row.disp # u THEN <<>>
                    ELSE <<deliver, dispatchN(u, RefillBurst)>>
<1>1. work' = [work EXCEPT ![u] = heard] /\ asked' = [asked EXCEPT ![u] = @ \ {e}]
      /\ UNCHANGED <<sockets, online, synced, alloc, unfanned, ev, next, timer, inbox, sent, judgedOk>>
  BY DEF RelayResponse
<1>2. Known \subseteq Known' /\ RequesterPresent' /\ Fresh' /\ RelayedSent' /\ HolderWasSent'
  BY <1>1, SameRows
<1>3. dispatchN(u, RefillBurst) \in Known' /\ <<dispatchN(u, RefillBurst)>> \in Seq(Known')
  BY DispatchKnown, RelayAssumption
<1>4. heard \in Seq(Known')
  <2>1. CASE Pending(e) /\ row.disp = u
    <3>1. row \in Row /\ row.reed \in Reeds /\ row.req \in Users
      BY <2>1 DEF Inv, Types, RequesterPresent
    <3>2. deliver \in Op
      BY <3>1 DEF Op, Row
    <3>3. e < next
      BY <2>1, RelayAssumption DEF Inv, Types, Fresh
    <3>4. deliver \in Known
      BY <3>2, <3>3 DEF Known, Knows
    <3> QED
      BY <1>2, <1>3, <2>1, <3>4, TwoSeq
  <2>2. CASE ~Pending(e)
    BY <1>3, <2>2
  <2>3. CASE Pending(e) /\ row.disp # u
    BY <2>3, EmptyKnown
  <2> QED
    BY <2>1, <2>2, <2>3
<1>5. work' \in [Threads -> Seq(Known')]
  <2>1. u \in Threads
    BY DEF Threads
  <2> QED
    BY <1>1, <1>2, <1>4, <2>1, Starts
<1>6. Types'
  BY <1>1 DEF Inv, Types
<1> QED
  BY <1>2, <1>5, <1>6 DEF Inv

\* deliverOrForward keeps the invariant.
LEMMA deliverOrForwardKeeps ==
    ASSUME Inv, NEW t \in Threads, deliverOrForward(t)
    PROVE  Inv'
<1>0. PICK o : o = Head(work[t])
  OBVIOUS
<1> DEFINE here == o.u \in sockets
           fleeting == o.name = "broadcast_reed"
           mark == [op |-> "mark", e |-> o.e, name |-> o.name]
<1>1. o \in Op /\ o \in Known /\ o.op = "deliver" /\ work[t] # <<>>
  BY <1>0, FirstOp DEF deliverOrForward
<1>2. o.u \in Users /\ o.e \in Events /\ o.r \in Reeds /\ o.name \in Names
  BY <1>1, OpFields
<1>3. o.e < next /\ (Pending(o.e) => ev[o.e].req = o.u /\ ev[o.e].reed = o.r)
  BY <1>1 DEF Known, Knows
<1>4. /\ inbox' = IF here /\ ~fleeting THEN [inbox EXCEPT ![o.u] = @ \cup {o.e}] ELSE inbox
      /\ sent' = IF here THEN sent \cup {<<o.r, o.u>>} ELSE sent
      /\ ev' = IF fleeting /\ ~here /\ ~BusEnabled THEN [ev EXCEPT ![o.e] = NoRow] ELSE ev
      /\ Continue(t, If(here \/ BusEnabled, mark))
      /\ UNCHANGED <<sockets, online, synced, alloc, unfanned, next, timer, asked, judgedOk>>
  BY <1>0 DEF deliverOrForward
<1>5. NoRow \in Row
  BY DEF NoRow, Row, User, Names
<1>6. ev' \in [Events -> Row] /\ \A f \in Events : ev'[f] = NoRow \/ ev'[f] = ev[f]
  BY <1>2, <1>4, <1>5 DEF Inv, Types
<1>7. Known \subseteq Known' /\ RequesterPresent' /\ Fresh' /\ RelayedSent' /\ HolderWasSent'
  BY <1>4, <1>6, RowsChanged
<1>8. If(here \/ BusEnabled, mark) \in Seq(Known')
  <2>1. CASE here \/ BusEnabled
    <3>1. mark \in Op
      BY <1>2 DEF Op
    <3>2. Pending(o.e)' => Pending(o.e) /\ ev'[o.e] = ev[o.e]
      <4>1. NoRow.req = None
        BY DEF NoRow
      <4> QED
        BY <1>2, <1>6, <4>1 DEF Pending
    <3>3. Pending(o.e)' => HandedOver(o.e)'
      <4>1. CASE here
        BY <1>3, <1>4, <3>2, <4>1 DEF HandedOver
      <4>2. CASE ~here
        BY <1>3, <1>4, <3>2, <4>2 DEF HandedOver
      <4> QED
        BY <4>1, <4>2
    <3>4. mark.op = "mark" /\ mark.e = o.e /\ o.e < next'
      BY <1>3, <1>4
    <3>5. Knows(mark)'
      BY <3>3, <3>4 DEF Knows
    <3>6. mark \in Known'
      BY <3>1, <3>5 DEF Known
    <3> QED
      BY <2>1, <3>6, OneSeq DEF If
  <2>2. CASE ~(here \/ BusEnabled)
    BY <2>2, EmptyKnown DEF If
  <2> QED
    BY <2>1, <2>2
<1>9. work' \in [Threads -> Seq(Known')]
  BY <1>1, <1>4, <1>7, <1>8, Goes
<1>10. Types'
  BY <1>2, <1>4, <1>6 DEF Inv, Types
<1> QED
  BY <1>7, <1>9, <1>10 DEF Inv

\* markEventRelayed keeps the invariant.
LEMMA markEventRelayedKeeps ==
    ASSUME Inv, NEW t \in Threads, markEventRelayed(t)
    PROVE  Inv'
<1>0. PICK o : o = Head(work[t])
  OBVIOUS
<1>1. o \in Op /\ o \in Known /\ o.op = "mark" /\ work[t] # <<>>
  BY <1>0, FirstOp DEF markEventRelayed
<1>2. o.e \in Events
  BY <1>1, OpFields
<1>3. Pending(o.e) => HandedOver(o.e)
  BY <1>1 DEF Known, Knows
<1>4. /\ timer' = [timer EXCEPT ![o.e] = None]
      /\ ev' = IF o.name = "broadcast_reed" THEN [ev EXCEPT ![o.e] = NoRow]
               ELSE IF Pending(o.e) THEN [ev EXCEPT ![o.e].relayed = TRUE]
               ELSE ev
      /\ Continue(t, <<>>)
      /\ UNCHANGED <<sockets, online, synced, alloc, unfanned, next, asked, inbox, sent, judgedOk>>
  BY <1>0 DEF markEventRelayed
<1>5. NoRow \in Row
  BY DEF NoRow, Row, User, Names
<1>6. /\ ev' \in [Events -> Row]
      /\ \A f \in Events : f # o.e => ev'[f] = ev[f]
      /\ ev'[o.e] = NoRow \/ (ev'[o.e].req = ev[o.e].req /\ ev'[o.e].reed = ev[o.e].reed)
  BY <1>2, <1>4, <1>5 DEF Inv, Types, Row
<1>7. \A f \in Events : Pending(f)' =>
         Pending(f) /\ ev'[f].req = ev[f].req /\ ev'[f].reed = ev[f].reed
  BY <1>6 DEF Pending, NoRow
<1>8. Known \subseteq Known'
  <2>1. ASSUME NEW p \in Known PROVE p \in Known'
    <3>1. p \in Op /\ Knows(p)
      BY DEF Known
    <3>2. p.op \in {"deliver", "mark"} => p.e \in Events
      BY <3>1, OpFields
    <3> QED
      BY <1>4, <1>7, <3>1, <3>2 DEF Known, Knows, HandedOver
  <2> QED
    BY <2>1
<1>9. RequesterPresent' /\ Fresh' /\ HolderWasSent'
  BY <1>4, <1>7 DEF Inv, RequesterPresent, Fresh, HolderWasSent
<1>10. RelayedSent'
  <2>1. ASSUME NEW f \in Events, Pending(f)', ev'[f].relayed
        PROVE  HandedOver(f)'
    <3>1. CASE f = o.e
      BY <1>3, <1>4, <1>7, <2>1, <3>1 DEF HandedOver
    <3>2. CASE f # o.e
      BY <1>4, <1>6, <1>7, <2>1, <3>2 DEF Inv, RelayedSent, HandedOver
    <3> QED
      BY <3>1, <3>2
  <2> QED
    BY <2>1 DEF RelayedSent
<1>11. work' \in [Threads -> Seq(Known')]
  BY <1>1, <1>4, <1>8, Goes, EmptyKnown
<1>12. Types'
  BY <1>2, <1>4, <1>6 DEF Inv, Types, User
<1> QED
  BY <1>8, <1>9, <1>10, <1>11, <1>12 DEF Inv

\* What the head of handleFailedRelay leaves to do.
LEMMA FailedReadKnown ==
    ASSUME Inv, NEW h \in Users, NEW e \in Events, NEW del \in BOOLEAN
    PROVE  FailedRead(h, e, del) \in Seq(Known')
<1> DEFINE o == [op |-> "failed", h |-> h, e |-> e, r |-> ev[e].reed, del |-> del]
<1>1. CASE ~Pending(e)
  BY <1>1, DispatchKnown, RelayAssumption DEF FailedRead
<1>2. CASE Pending(e) /\ ev[e].disp # h
  BY <1>2, EmptyKnown DEF FailedRead
<1>3. CASE Pending(e) /\ ev[e].disp = h
  <2>1. ev[e].reed \in Reeds
    BY <1>3 DEF Inv, RequesterPresent
  <2>2. o \in Op /\ o.op = "failed"
    BY <2>1 DEF Op
  <2>3. o \in Known'
    BY <2>2, PlainKnown
  <2>4. <<o>> \in Seq(Known')
    BY <2>3, OneSeq
  <2> QED
    BY <1>3, <2>4 DEF FailedRead
<1> QED
  BY <1>1, <1>2, <1>3

\* RelayFailed keeps the invariant.
LEMMA RelayFailedKeeps ==
    ASSUME Inv, NEW u \in Users, NEW e \in Events, NEW del \in BOOLEAN, RelayFailed(u, e, del)
    PROVE  Inv'
<1>1. u \in Threads
  BY DEF Threads
<1>2. Known \subseteq Known' /\ RequesterPresent' /\ Fresh' /\ RelayedSent' /\ HolderWasSent'
  BY SameRows DEF RelayFailed
<1>3. work' \in [Threads -> Seq(Known')]
  BY <1>1, <1>2, FailedReadKnown, Starts DEF RelayFailed
<1>4. Types'
  BY DEF RelayFailed, Inv, Types, User
<1> QED
  BY <1>2, <1>3, <1>4 DEF Inv

\* handleRelayTimeout keeps the invariant.
LEMMA handleRelayTimeoutKeeps ==
    ASSUME Inv, NEW e \in Events, handleRelayTimeout(e)
    PROVE  Inv'
<1>1. e \in Threads
  BY DEF Threads
<1>2. timer[e] \in Users
  BY DEF handleRelayTimeout, Inv, Types, User
<1>3. Known \subseteq Known' /\ RequesterPresent' /\ Fresh' /\ RelayedSent' /\ HolderWasSent'
  BY SameRows DEF handleRelayTimeout
<1>4. (IF LeftAlone(e) THEN <<>> ELSE FailedRead(timer[e], e, FALSE)) \in Seq(Known')
  BY <1>2, FailedReadKnown, EmptyKnown
<1>5. work' \in [Threads -> Seq(Known')]
  BY <1>1, <1>3, <1>4, Starts DEF handleRelayTimeout
<1>6. Types'
  BY DEF handleRelayTimeout, Inv, Types, User
<1> QED
  BY <1>3, <1>5, <1>6 DEF Inv

\* handleFailedRelay keeps the invariant.
LEMMA handleFailedRelayKeeps ==
    ASSUME Inv, NEW t \in Threads, handleFailedRelay(t)
    PROVE  Inv'
<1>0. PICK o : o = Head(work[t])
  OBVIOUS
<1> DEFINE left == alloc \ Dropped(o)
           refill == <<dispatchN(o.h, RefillBurst)>>
<1>1. o \in Op /\ o.op = "failed" /\ work[t] # <<>>
  BY <1>0, FirstOp DEF handleFailedRelay
<1>2. o.h \in Users /\ o.e \in Events /\ o.r \in Reeds
  BY <1>1, OpFields
<1>3. /\ timer' = [timer EXCEPT ![o.e] = None]
      /\ alloc' = left
      /\ \/ ev' = ev /\ Continue(t, refill)
         \/ ev' = [ev EXCEPT ![o.e] = NoRow] /\ Continue(t, refill)
         \/ /\ ev' = [ev EXCEPT ![o.e].disp = None]
            /\ \E h \in PickOnline(left, o.r) : Continue(t, dispatchTo(h) \o refill)
      /\ UNCHANGED <<sockets, online, synced, unfanned, next, asked, inbox, sent, judgedOk>>
  BY <1>0 DEF handleFailedRelay
<1>4. NoRow \in Row
  BY DEF NoRow, Row, User, Names
<1>5. ev \in [Events -> Row]
  BY DEF Inv, Types
<1>6. /\ ev' \in [Events -> Row]
      /\ \A f \in Events :
            \/ ev'[f] = NoRow
            \/ /\ ev'[f].req = ev[f].req /\ ev'[f].reed = ev[f].reed
               /\ ev'[f].relayed => ev[f].relayed
  <2>1. CASE ev' = ev
    BY <1>5, <2>1
  <2>2. CASE ev' = [ev EXCEPT ![o.e] = NoRow]
    BY <1>2, <1>4, <1>5, <2>2
  <2>3. CASE ev' = [ev EXCEPT ![o.e].disp = None]
    BY <1>2, <1>5, <2>3 DEF Row, User
  <2> QED
    BY <1>3, <2>1, <2>2, <2>3
<1>7. alloc' \subseteq alloc
  BY <1>3
<1>8. Known \subseteq Known' /\ RequesterPresent' /\ Fresh' /\ RelayedSent' /\ HolderWasSent'
  BY <1>3, <1>6, <1>7, RowsChanged
<1>9. refill \in Seq(Known')
  BY <1>2, DispatchKnown, RelayAssumption
<1>10. \E more \in Seq(Known') : Continue(t, more)
  <2>1. ASSUME NEW h \in PickOnline(left, o.r)
        PROVE  dispatchTo(h) \o refill \in Seq(Known')
    BY <1>9, PickOnlineType, DispatchToKnown, ConcatProperties
  <2> QED
    BY <1>3, <1>9, <2>1
<1>11. work' \in [Threads -> Seq(Known')]
  BY <1>1, <1>0, <1>8, <1>10, Goes
<1>12. Types'
  BY <1>2, <1>3, <1>6, <1>7 DEF Inv, Types, User
<1> QED
  BY <1>8, <1>11, <1>12 DEF Inv

\* The only row an ack writes belongs to an event marked relayed.
LEMMA AckedKeeps ==
    ASSUME Inv, NEW u \in Users, u \in sockets, NEW e \in Events, Acked(u, e),
           UNCHANGED <<sockets, online, synced, unfanned, next, work, sent>>,
           timer' \in [Events -> User], asked' \in [Users -> SUBSET Events],
           inbox' \in [Users -> SUBSET Events], judgedOk' \subseteq Events
    PROVE  Inv'
<1> DEFINE ok == ev[e].req = u /\ ev[e].relayed
<1>1. NoRow \in Row
  BY DEF NoRow, Row, User, Names
<1>2. ev' \in [Events -> Row] /\ \A f \in Events : ev'[f] = NoRow \/ ev'[f] = ev[f]
  BY <1>1 DEF Acked, Inv, Types
<1>3. ok => Pending(e)
  BY RelayAssumption DEF Pending
<1>4. ok => <<ev[e].reed, u>> \in sent /\ <<ev[e].reed, u>> \in Reeds \X Users
  BY <1>3 DEF Inv, RelayedSent, RequesterPresent, HandedOver
<1>5. alloc' \subseteq Reeds \X Users /\ \A p \in alloc' : p \in alloc \/ p \in sent
  BY <1>4 DEF Acked, Inv, Types
<1>6. Known \subseteq Known' /\ RequesterPresent' /\ Fresh' /\ RelayedSent'
  <2>1. NoRow.req = None
    BY DEF NoRow
  <2>2. \A f \in Events : Pending(f)' =>
           /\ Pending(f) /\ ev'[f].req = ev[f].req /\ ev'[f].reed = ev[f].reed
           /\ ev'[f].relayed => ev[f].relayed
           /\ ev[f].req \in online'
    BY <1>2, <2>1 DEF Inv, RequesterPresent, Pending
  <2> QED
    BY <1>2, <2>2, RowsKept
<1>7. HolderWasSent'
  BY <1>5 DEF Inv, HolderWasSent
<1>8. work' \in [Threads -> Seq(Known')]
  BY <1>6, SeqMonotonic DEF Inv
<1> QED
  BY <1>2, <1>5, <1>6, <1>7, <1>8 DEF Inv, Types

\* handleDataAck keeps the invariant.
LEMMA handleDataAckKeeps ==
    ASSUME Inv, NEW u \in Users, NEW e \in Events, handleDataAck(u, e) \/ EarlyAck(u, e)
    PROVE  Inv'
<1>1. CASE handleDataAck(u, e)
  BY <1>1, AckedKeeps DEF handleDataAck, Idle, Inv, Types
<1>2. CASE EarlyAck(u, e)
  BY <1>2, AckedKeeps DEF EarlyAck, Idle, Inv, Types
<1> QED
  BY <1>1, <1>2

\* DataInvalid keeps the invariant.
LEMMA DataInvalidKeeps ==
    ASSUME Inv, NEW u \in Users, NEW e \in Events, DataInvalid(u, e)
    PROVE  Inv'
<1> DEFINE o == [op |-> "invalid", e |-> e, r |-> ev[e].reed, disp |-> ev[e].disp]
<1>1. Known \subseteq Known' /\ RequesterPresent' /\ Fresh' /\ RelayedSent' /\ HolderWasSent'
  BY SameRows DEF DataInvalid
<1>2. If(ev[e].req = u, o) \in Seq(Known')
  <2>1. CASE ev[e].req = u
    <3>1. ev[e].reed \in Reeds /\ ev[e].disp \in User
      BY <2>1, RelayAssumption DEF Inv, RequesterPresent, Pending, Types, Row
    <3>2. o \in Op /\ o.op = "invalid"
      BY <3>1 DEF Op
    <3>3. o \in Known'
      BY <3>2, PlainKnown
    <3> QED
      BY <2>1, <3>3, OneSeq DEF If
  <2>2. CASE ev[e].req # u
    BY <2>2, EmptyKnown DEF If
  <2> QED
    BY <2>1, <2>2
<1>3. work' \in [Threads -> Seq(Known')]
  <2>1. u \in Threads
    BY DEF Threads
  <2> QED
    BY <1>1, <1>2, <2>1, Starts DEF DataInvalid
<1>4. Types'
  BY DEF DataInvalid, Inv, Types
<1> QED
  BY <1>1, <1>3, <1>4 DEF Inv

\* handleDataInvalid keeps the invariant.
LEMMA handleDataInvalidKeeps ==
    ASSUME Inv, NEW t \in Threads, handleDataInvalid(t)
    PROVE  Inv'
<1>0. PICK o : o = Head(work[t])
  OBVIOUS
<1>1. o \in Op /\ o.op = "invalid" /\ work[t] # <<>>
  BY <1>0, FirstOp DEF handleDataInvalid
<1>2. o.e \in Events /\ o.r \in Reeds
  BY <1>1, OpFields
<1>3. /\ \/ /\ ev' = [ev EXCEPT ![o.e].disp = None, ![o.e].relayed = FALSE]
            /\ \E h \in PickOnline(alloc, o.r) : Continue(t, dispatchTo(h))
         \/ ev' = ev /\ Continue(t, <<>>)
      /\ UNCHANGED <<sockets, online, synced, alloc, unfanned, next, timer, asked, inbox, sent, judgedOk>>
  BY <1>0 DEF handleDataInvalid
<1>4. ev \in [Events -> Row]
  BY DEF Inv, Types
<1>5. /\ ev' \in [Events -> Row]
      /\ \A f \in Events :
            /\ ev'[f].req = ev[f].req /\ ev'[f].reed = ev[f].reed
            /\ ev'[f].relayed => ev[f].relayed
  <2>1. CASE ev' = ev
    BY <1>4, <2>1
  <2>2. CASE ev' = [ev EXCEPT ![o.e].disp = None, ![o.e].relayed = FALSE]
    BY <1>2, <1>4, <2>2 DEF Row, User
  <2> QED
    BY <1>3, <2>1, <2>2
<1>6. Known \subseteq Known' /\ RequesterPresent' /\ Fresh' /\ RelayedSent' /\ HolderWasSent'
  BY <1>3, <1>5, RowsChanged
<1>7. \E more \in Seq(Known') : Continue(t, more)
  BY <1>3, PickOnlineType, DispatchToKnown, EmptyKnown
<1>8. work' \in [Threads -> Seq(Known')]
  BY <1>0, <1>1, <1>6, <1>7, Goes
<1> QED
  BY <1>3, <1>5, <1>6, <1>8 DEF Inv, Types

\* requestReed keeps the invariant.
LEMMA requestReedKeeps ==
    ASSUME Inv, NEW u \in Users, NEW r \in Reeds, requestReed(u, r)
    PROVE  Inv'
<1>1. /\ alloc' = alloc \ {<<r, u>>}
      /\ UNCHANGED <<sockets, online, synced, unfanned, ev, next, timer, asked, inbox, sent, judgedOk>>
  BY DEF requestReed
<1>2. PICK h \in PickOnline(alloc', r) :
         work' = [work EXCEPT ![u] =
                    If(HoldersIn(alloc', r) # {}, [op |-> "create", u |-> u, r |-> r, h |-> h])]
  BY DEF requestReed
<1>3. Known \subseteq Known' /\ RequesterPresent' /\ Fresh' /\ RelayedSent' /\ HolderWasSent'
  <2>1. alloc' \subseteq alloc
    BY <1>1
  <2> QED
    BY <1>1, <2>1, RowsChanged DEF Inv, Types
<1>4. [op |-> "create", u |-> u, r |-> r, h |-> h] \in Known'
  <2>1. h \in User
    BY PickOnlineType
  <2>2. [op |-> "create", u |-> u, r |-> r, h |-> h] \in Op
    BY <2>1 DEF Op
  <2> QED
    BY <2>2, PlainKnown
<1>5. If(HoldersIn(alloc', r) # {}, [op |-> "create", u |-> u, r |-> r, h |-> h]) \in Seq(Known')
  BY <1>4, OneSeq, EmptyKnown DEF If
<1>6. work' \in [Threads -> Seq(Known')]
  <2>1. u \in Threads
    BY DEF Threads
  <2> QED
    BY <1>2, <1>3, <1>5, <2>1, Starts
<1> QED
  BY <1>1, <1>3, <1>6 DEF Inv, Types

\* createPendingReedEvent keeps the invariant.
LEMMA createPendingReedEventKeeps ==
    ASSUME Inv, NEW t \in Threads, createPendingReedEvent(t)
    PROVE  Inv'
<1>0. PICK o : o = Head(work[t])
  OBVIOUS
<1>1. o \in Op /\ o.op = "create" /\ work[t] # <<>>
  BY <1>0, FirstOp DEF createPendingReedEvent
<1>2. o.u \in Users /\ o.r \in Reeds /\ o.h \in User
  BY <1>1, OpFields
<1>3. UNCHANGED <<sockets, online, synced, alloc, unfanned, timer, asked, inbox, sent, judgedOk>>
  BY DEF createPendingReedEvent
<1>4. CASE CanCreate(o.u)
  <2>1. Created(o.u, o.r, "request_reed") /\ Continue(t, dispatchTo(o.h))
    BY <1>0, <1>4 DEF createPendingReedEvent
  <2>2. o.u \in online /\ "request_reed" \in Names
    BY <1>4 DEF CanCreate, Names
  <2>3. /\ ev' \in [Events -> Row] /\ next' \in 1 .. MaxEvents + 1
        /\ Known \subseteq Known' /\ RequesterPresent' /\ Fresh' /\ RelayedSent' /\ HolderWasSent'
    BY <1>2, <1>3, <2>1, <2>2, CreatedKeeps
  <2>4. work' \in [Threads -> Seq(Known')]
    BY <1>1, <1>2, <2>1, <2>3, DispatchToKnown, Goes
  <2> QED
    BY <1>3, <2>3, <2>4 DEF Inv, Types
<1>5. CASE ~CanCreate(o.u)
  <2>1. UNCHANGED <<ev, next>> /\ Continue(t, <<>>)
    BY <1>0, <1>5 DEF createPendingReedEvent
  <2>2. Known \subseteq Known' /\ RequesterPresent' /\ Fresh' /\ RelayedSent' /\ HolderWasSent'
    BY <1>3, <2>1, SameRows
  <2>3. work' \in [Threads -> Seq(Known')]
    BY <1>1, <2>1, <2>2, Goes, EmptyKnown
  <2> QED
    BY <1>3, <2>1, <2>2, <2>3 DEF Inv, Types
<1> QED
  BY <1>4, <1>5

\* handleSyncRequest keeps the invariant.
LEMMA handleSyncRequestKeeps ==
    ASSUME Inv, NEW t \in Threads, handleSyncRequest(t)
    PROVE  Inv'
<1>0. PICK o : o = Head(work[t])
  OBVIOUS
<1> DEFINE catchUp == [op |-> "catchUp", u |-> o.u, rs |-> MissingOut(o.u)]
           list == [op |-> "listPending", u |-> o.u]
<1>1. o \in Op /\ o.op = "sync" /\ work[t] # <<>>
  BY <1>0, FirstOp DEF handleSyncRequest
<1>2. o.u \in Users
  BY <1>1, OpFields
<1>3. /\ synced' = synced \cup ({o.u} \cap online)
      /\ Continue(t, If(MissingOut(o.u) # {}, catchUp) \o <<dispatchN(o.u, 1), list>>)
      /\ UNCHANGED <<sockets, online, alloc, unfanned, ev, next, timer, asked, inbox, sent, judgedOk>>
  BY <1>0 DEF handleSyncRequest
<1>4. Known \subseteq Known' /\ RequesterPresent' /\ Fresh' /\ RelayedSent' /\ HolderWasSent'
  BY <1>3, SameRows
<1>5. catchUp \in Known' /\ list \in Known'
  <2>1. MissingOut(o.u) \in SUBSET Reeds
    BY <1>2, RelayAssumption DEF MissingOut
  <2>2. catchUp \in Op /\ list \in Op
    BY <1>2, <2>1 DEF Op
  <2> QED
    BY <2>2, PlainKnown
<1>6. dispatchN(o.u, 1) \in Known'
  BY <1>2, DispatchKnown, RelayAssumption
<1>7. If(MissingOut(o.u) # {}, catchUp) \o <<dispatchN(o.u, 1), list>> \in Seq(Known')
  <2>1. If(MissingOut(o.u) # {}, catchUp) \in Seq(Known')
    BY <1>5, OneSeq, EmptyKnown DEF If
  <2>2. <<dispatchN(o.u, 1), list>> \in Seq(Known')
    BY <1>5, <1>6, TwoSeq
  <2> QED
    BY <2>1, <2>2, ConcatProperties
<1>8. work' \in [Threads -> Seq(Known')]
  BY <1>1, <1>3, <1>4, <1>7, Goes
<1> QED
  BY <1>3, <1>4, <1>8 DEF Inv, Types

\* catchUpReed keeps the invariant.
LEMMA catchUpReedKeeps ==
    ASSUME Inv, NEW t \in Threads, catchUpReed(t)
    PROVE  Inv'
<1>0. PICK o : o = Head(work[t])
  OBVIOUS
<1>1. o \in Op /\ o.op = "catchUp" /\ work[t] # <<>>
  BY <1>0, FirstOp DEF catchUpReed
<1>2. o.u \in Users /\ o.rs \in SUBSET Reeds
  BY <1>1, OpFields
<1>3. UNCHANGED <<sockets, online, synced, alloc, unfanned, timer, asked, inbox, sent, judgedOk>>
  BY DEF catchUpReed
<1>4. PICK r \in o.rs :
         LET rest == If(o.rs # {r}, [o EXCEPT !.rs = @ \ {r}]) IN
         IF CanCreate(o.u)
         THEN /\ Created(o.u, r, "follow_reed")
              /\ \E h \in PickOnline(alloc, r) : Continue(t, dispatchTo(h) \o rest)
         ELSE UNCHANGED <<ev, next>> /\ Continue(t, rest)
  BY <1>0 DEF catchUpReed
<1> DEFINE left == [o EXCEPT !.rs = @ \ {r}]
           rest == If(o.rs # {r}, left)
<1>5. rest \in Seq(Known')
  <2>1. left \in Op /\ left.op = "catchUp"
    BY <1>1, <1>2 DEF Op
  <2>2. left \in Known'
    BY <2>1, PlainKnown
  <2> QED
    BY <2>2, OneSeq, EmptyKnown DEF If
<1>6. CASE CanCreate(o.u)
  <2>1. Created(o.u, r, "follow_reed")
    BY <1>4, <1>6
  <2>2. PICK h \in PickOnline(alloc, r) : Continue(t, dispatchTo(h) \o rest)
    BY <1>4, <1>6
  <2>3. o.u \in online /\ "follow_reed" \in Names /\ r \in Reeds
    BY <1>2, <1>6 DEF CanCreate, Names
  <2>4. /\ ev' \in [Events -> Row] /\ next' \in 1 .. MaxEvents + 1
        /\ Known \subseteq Known' /\ RequesterPresent' /\ Fresh' /\ RelayedSent' /\ HolderWasSent'
    BY <1>3, <2>1, <2>3, CreatedKeeps
  <2>5. dispatchTo(h) \o rest \in Seq(Known')
    BY <1>5, PickOnlineType, DispatchToKnown, ConcatProperties
  <2>6. work' \in [Threads -> Seq(Known')]
    BY <1>0, <1>1, <2>2, <2>4, <2>5, Goes
  <2> QED
    BY <1>3, <2>4, <2>6 DEF Inv, Types
<1>7. CASE ~CanCreate(o.u)
  <2>1. UNCHANGED <<ev, next>> /\ Continue(t, rest)
    BY <1>4, <1>7
  <2>2. Known \subseteq Known' /\ RequesterPresent' /\ Fresh' /\ RelayedSent' /\ HolderWasSent'
    BY <1>3, <2>1, SameRows
  <2>3. work' \in [Threads -> Seq(Known')]
    BY <1>0, <1>1, <1>5, <2>1, <2>2, Goes
  <2> QED
    BY <1>3, <2>1, <2>2, <2>3 DEF Inv, Types
<1> QED
  BY <1>6, <1>7

\* listPendingRequests keeps the invariant.
LEMMA listPendingRequestsKeeps ==
    ASSUME Inv, NEW t \in Threads, listPendingRequests(t)
    PROVE  Inv'
<1>0. PICK o : o = Head(work[t])
  OBVIOUS
<1> DEFINE claims == {<<e, ev[e].disp>> : e \in {f \in Events : ev[f].req = o.u}}
           redispatch == [op |-> "redispatch", claims |-> claims]
<1>1. work[t] # <<>> /\ Continue(t, If(claims # {}, redispatch))
      /\ UNCHANGED <<sockets, online, synced, alloc, unfanned, ev, next, timer, asked, inbox, sent, judgedOk>>
  BY <1>0, FirstOp DEF listPendingRequests
<1>2. Known \subseteq Known' /\ RequesterPresent' /\ Fresh' /\ RelayedSent' /\ HolderWasSent'
  BY <1>1, SameRows
<1>3. redispatch \in Known'
  <2>1. claims \in SUBSET (Events \X User)
    BY DEF Inv, Types, Row
  <2>2. redispatch \in Op
    BY <2>1 DEF Op
  <2> QED
    BY <2>2, PlainKnown
<1>4. If(claims # {}, redispatch) \in Seq(Known')
  BY <1>3, OneSeq, EmptyKnown DEF If
<1>5. work' \in [Threads -> Seq(Known')]
  BY <1>1, <1>2, <1>4, Goes
<1> QED
  BY <1>1, <1>2, <1>5 DEF Inv, Types

\* redispatchPendingRequests keeps the invariant.
LEMMA redispatchPendingRequestsKeeps ==
    ASSUME Inv, NEW t \in Threads, redispatchPendingRequests(t)
    PROVE  Inv'
<1>0. PICK o : o = Head(work[t])
  OBVIOUS
<1>1. o \in Op /\ o.op = "redispatch" /\ work[t] # <<>>
  BY <1>0, FirstOp DEF redispatchPendingRequests
<1>2. o.claims \in SUBSET (Events \X User)
  BY <1>1, OpFields
<1>3. UNCHANGED <<sockets, online, synced, alloc, unfanned, next, timer, asked, inbox, sent, judgedOk>>
  BY DEF redispatchPendingRequests
<1>4. PICK c \in o.claims :
         LET e == c[1]
             rest == If(o.claims # {c}, [o EXCEPT !.claims = @ \ {c}])
         IN  IF ClaimedBy(e, c[2])
             THEN /\ ev' = [ev EXCEPT ![e].disp = None]
                  /\ \E h \in PickOnline(alloc, ev[e].reed) : Continue(t, dispatchTo(h) \o rest)
             ELSE ev' = ev /\ Continue(t, rest)
  BY <1>0 DEF redispatchPendingRequests
<1> DEFINE left == [o EXCEPT !.claims = @ \ {c}]
           rest == If(o.claims # {c}, left)
<1>5. c[1] \in Events
  BY <1>2
<1>6. rest \in Seq(Known')
  <2>1. left \in Op /\ left.op = "redispatch"
    BY <1>1, <1>2 DEF Op
  <2>2. left \in Known'
    BY <2>1, PlainKnown
  <2> QED
    BY <2>2, OneSeq, EmptyKnown DEF If
<1>7. ev \in [Events -> Row]
  BY DEF Inv, Types
<1>8. /\ ev' \in [Events -> Row]
      /\ \A f \in Events :
            /\ ev'[f].req = ev[f].req /\ ev'[f].reed = ev[f].reed
            /\ ev'[f].relayed => ev[f].relayed
  <2>1. CASE ev' = ev
    BY <1>7, <2>1
  <2>2. CASE ev' = [ev EXCEPT ![c[1]].disp = None]
    BY <1>5, <1>7, <2>2 DEF Row, User
  <2> QED
    BY <1>4, <2>1, <2>2
<1>9. Known \subseteq Known' /\ RequesterPresent' /\ Fresh' /\ RelayedSent' /\ HolderWasSent'
  BY <1>3, <1>8, RowsChanged
<1>10. \E more \in Seq(Known') : Continue(t, more)
  <2>1. ASSUME NEW h \in PickOnline(alloc, ev[c[1]].reed)
        PROVE  dispatchTo(h) \o rest \in Seq(Known')
    BY <1>6, PickOnlineType, DispatchToKnown, ConcatProperties
  <2> QED
    BY <1>4, <1>6, <2>1
<1>11. work' \in [Threads -> Seq(Known')]
  BY <1>0, <1>1, <1>9, <1>10, Goes
<1> QED
  BY <1>3, <1>8, <1>9, <1>11 DEF Inv, Types

\* handlePublishReady keeps the invariant.
LEMMA handlePublishReadyKeeps ==
    ASSUME Inv, NEW u \in Users, NEW r \in Reeds, handlePublishReady(u, r)
    PROVE  Inv'
<1> DEFINE o == [op |-> "fanout", r |-> r]
<1>1. Known \subseteq Known' /\ RequesterPresent' /\ Fresh' /\ RelayedSent' /\ HolderWasSent'
  BY SameRows DEF handlePublishReady
<1>2. o \in Known'
  <2>1. o \in Op /\ o.op = "fanout"
    BY DEF Op
  <2> QED
    BY <2>1, PlainKnown
<1>3. work' \in [Threads -> Seq(Known')]
  <2>1. r \in Threads
    BY DEF Threads
  <2>2. <<o>> \in Seq(Known')
    BY <1>2, OneSeq
  <2> QED
    BY <1>1, <2>1, <2>2, Starts DEF handlePublishReady
<1> QED
  BY <1>1, <1>3 DEF handlePublishReady, Inv, Types

\* fanoutNewReedCore keeps the invariant.
LEMMA fanoutNewReedCoreKeeps ==
    ASSUME Inv, NEW t \in Threads, fanoutNewReedCore(t)
    PROVE  Inv'
<1>0. PICK r : r = Head(work[t]).r
  OBVIOUS
<1> DEFINE others == online \ {Author[r]}
           followers == {u \in others : r \in Follows[u]}
           to == (followers \X {"follow_reed"})
                 \cup (((Broadcast \cap others) \ followers) \X {"broadcast_reed"})
           o == [op |-> "enqueue", r |-> r, to |-> to]
           first == dispatchNIfConnected(Author[r], InitialBurst)
<1>1. r \in Reeds /\ work[t] # <<>>
  BY <1>0, FirstOp, OpFields DEF fanoutNewReedCore
<1>2. /\ Continue(t, If(to # {}, o) \o <<first>>)
      /\ UNCHANGED <<sockets, online, synced, alloc, unfanned, ev, next, timer, asked, inbox, sent, judgedOk>>
  BY <1>0 DEF fanoutNewReedCore
<1>3. Known \subseteq Known' /\ RequesterPresent' /\ Fresh' /\ RelayedSent' /\ HolderWasSent'
  BY <1>2, SameRows
<1>4. If(to # {}, o) \in Seq(Known')
  <2>1. to \in SUBSET (Users \X Names)
    BY DEF Inv, Types, Names
  <2>2. o \in Op /\ o.op = "enqueue"
    BY <1>1, <2>1 DEF Op
  <2>3. o \in Known'
    BY <2>2, PlainKnown
  <2> QED
    BY <2>3, OneSeq, EmptyKnown DEF If
<1>5. <<first>> \in Seq(Known')
  BY <1>1, DispatchKnown, RelayAssumption
<1>6. work' \in [Threads -> Seq(Known')]
  <2>1. If(to # {}, o) \o <<first>> \in Seq(Known')
    BY <1>4, <1>5, ConcatProperties
  <2> QED
    BY <1>1, <1>2, <1>3, <2>1, Goes
<1> QED
  BY <1>2, <1>3, <1>6 DEF Inv, Types

\* dispatchMany keeps the invariant.
LEMMA dispatchManyKeeps ==
    ASSUME Inv, NEW t \in Threads, dispatchMany(t)
    PROVE  Inv'
<1>0. PICK o : o = Head(work[t])
  OBVIOUS
<1>1. o \in Op /\ o.op = "enqueue" /\ work[t] # <<>>
  BY <1>0, FirstOp DEF dispatchMany
<1>2. o.r \in Reeds /\ o.to \in SUBSET (Users \X Names)
  BY <1>1, OpFields
<1>3. UNCHANGED <<sockets, online, synced, alloc, unfanned, timer, asked, inbox, sent, judgedOk>>
  BY DEF dispatchMany
<1>4. PICK p \in o.to :
         /\ Continue(t, If(o.to # {p}, [o EXCEPT !.to = @ \ {p}]))
         /\ IF p[1] \in synced /\ CanCreate(p[1])
            THEN Created(p[1], o.r, p[2])
            ELSE UNCHANGED <<ev, next>>
  BY <1>0 DEF dispatchMany
<1> DEFINE left == [o EXCEPT !.to = @ \ {p}]
<1>5. If(o.to # {p}, left) \in Seq(Known')
  <2>1. left \in Op /\ left.op = "enqueue"
    BY <1>1, <1>2 DEF Op
  <2>2. left \in Known'
    BY <2>1, PlainKnown
  <2> QED
    BY <2>2, OneSeq, EmptyKnown DEF If
<1>6. /\ ev' \in [Events -> Row] /\ next' \in 1 .. MaxEvents + 1
      /\ Known \subseteq Known' /\ RequesterPresent' /\ Fresh' /\ RelayedSent' /\ HolderWasSent'
  <2>1. CASE p[1] \in synced /\ CanCreate(p[1])
    <3>1. p[1] \in online /\ p[2] \in Names
      BY <1>2, <2>1 DEF CanCreate
    <3> QED
      BY <1>2, <1>3, <1>4, <2>1, <3>1, CreatedKeeps
  <2>2. CASE ~(p[1] \in synced /\ CanCreate(p[1]))
    BY <1>3, <1>4, <2>2, SameRows DEF Inv, Types
  <2> QED
    BY <2>1, <2>2
<1>7. work' \in [Threads -> Seq(Known')]
  BY <1>1, <1>4, <1>5, <1>6, Goes
<1> QED
  BY <1>3, <1>6, <1>7 DEF Inv, Types

\* handleEviction keeps the invariant.
LEMMA handleEvictionKeeps ==
    ASSUME Inv, NEW u \in Users, NEW r \in Reeds, handleEviction(u, r)
    PROVE  Inv'
<1>1. /\ alloc' \subseteq alloc
      /\ UNCHANGED <<sockets, online, synced, unfanned, ev, next, timer, asked, inbox, work, sent, judgedOk>>
  BY DEF handleEviction
<1>2. Known \subseteq Known' /\ RequesterPresent' /\ Fresh' /\ RelayedSent' /\ HolderWasSent'
  BY <1>1, RowsChanged DEF Inv, Types
<1>3. work' \in [Threads -> Seq(Known')]
  BY <1>1, <1>2, SeqMonotonic DEF Inv
<1> QED
  BY <1>1, <1>2, <1>3 DEF Inv, Types

\* A SYNC_REQUEST to come.
LEMMA SyncKnown ==
    ASSUME NEW u \in Users
    PROVE  <<[op |-> "sync", u |-> u]>> \in Seq(Known')
<1> DEFINE o == [op |-> "sync", u |-> u]
<1>1. o \in Op /\ o.op = "sync"
  BY DEF Op
<1> QED
  BY <1>1, PlainKnown, OneSeq

\* A teardown to come.
LEMMA TeardownKnown ==
    ASSUME NEW u \in Users
    PROVE  <<[op |-> "deletePending", u |-> u], [op |-> "offline", u |-> u]>> \in Seq(Known')
<1> DEFINE a == [op |-> "deletePending", u |-> u]
           b == [op |-> "offline", u |-> u]
<1>1. a \in Op /\ a.op = "deletePending" /\ b \in Op /\ b.op = "offline"
  BY DEF Op
<1>2. a \in Known' /\ b \in Known'
  BY <1>1, PlainKnown
<1> QED
  BY <1>2, TwoSeq

\* What is left of the pending events without those of one user.
LEMMA RowsWithout ==
    ASSUME Inv, NEW u
    PROVE  /\ WithoutEventsOf(u) \in [Events -> Row]
           /\ \A e \in Events :
                 \/ WithoutEventsOf(u)[e] = NoRow /\ WithoutEventsOf(u)[e].req = None
                 \/ WithoutEventsOf(u)[e] = ev[e] /\ ev[e].req # u
<1>1. NoRow \in Row /\ NoRow.req = None
  BY DEF NoRow, Row, User, Names
<1> QED
  BY <1>1 DEF Inv, Types, WithoutEventsOf

\* teardownUser keeps the invariant.
LEMMA teardownUserKeeps ==
    ASSUME Inv, NEW t \in Threads, teardownUser(t)
    PROVE  Inv'
<1>0. PICK u : u = Head(work[t]).u
  OBVIOUS
<1>1. /\ work[t] # <<>> /\ Continue(t, <<>>) /\ ev' = WithoutEventsOf(u)
      /\ UNCHANGED <<sockets, online, synced, alloc, unfanned, next, timer, asked, inbox, sent, judgedOk>>
  BY <1>0, FirstOp DEF teardownUser
<1>2. Known \subseteq Known' /\ RequesterPresent' /\ Fresh' /\ RelayedSent' /\ HolderWasSent'
  BY <1>1, RowsWithout, RowsChanged
<1>3. work' \in [Threads -> Seq(Known')]
  BY <1>1, <1>2, Goes, EmptyKnown
<1> QED
  BY <1>1, <1>2, <1>3, RowsWithout DEF Inv, Types

\* MarkUserOffline keeps the invariant: the rows of those who leave go with them.
LEMMA MarkUserOfflineKeeps ==
    ASSUME Inv, NEW t \in Threads, MarkUserOffline(t)
    PROVE  Inv'
<1>0. PICK u : u = Head(work[t]).u
  OBVIOUS
<1>1. /\ work[t] # <<>> /\ Continue(t, <<>>) /\ ev' = WithoutEventsOf(u)
      /\ online' = online \ {u} /\ synced' = synced \ {u}
      /\ UNCHANGED <<sockets, alloc, unfanned, next, timer, asked, inbox, sent, judgedOk>>
  BY <1>0, FirstOp DEF MarkUserOffline
<1>2. \A e \in Events : Pending(e)' => Pending(e) /\ ev'[e] = ev[e] /\ ev[e].req \in online'
  BY <1>1, RowsWithout DEF Inv, RequesterPresent, Pending
<1>3. Known \subseteq Known' /\ RequesterPresent' /\ Fresh' /\ RelayedSent'
  BY <1>1, <1>2, RowsWithout, RowsKept
<1>4. work' \in [Threads -> Seq(Known')]
  BY <1>1, <1>3, Goes, EmptyKnown
<1>5. HolderWasSent'
  BY <1>1 DEF Inv, HolderWasSent
<1> QED
  BY <1>1, <1>3, <1>4, <1>5, RowsWithout DEF Inv, Types

\* Socket keeps the invariant.
LEMMA SocketKeeps ==
    ASSUME Inv, NEW u \in Users, Connect(u) \/ Disconnect(u) \/ Supersede(u)
    PROVE  Inv'
<1>0. u \in Threads
  BY DEF Threads
<1>1. CASE Connect(u)
  <2>1. /\ sockets' = sockets \cup {u} /\ online' = online \cup {u}
        /\ work' = [work EXCEPT ![u] = <<[op |-> "sync", u |-> u]>>]
        /\ UNCHANGED <<synced, alloc, unfanned, ev, next, timer, asked, inbox, sent, judgedOk>>
    BY <1>1 DEF Connect
  <2>2. /\ \A e \in Events : Pending(e)' => Pending(e) /\ ev[e].req \in online'
        /\ u \notin online
    BY <1>1, <2>1 DEF Connect, Inv, RequesterPresent, Pending
  <2>3. Known \subseteq Known' /\ RequesterPresent' /\ Fresh' /\ RelayedSent'
    BY <2>1, <2>2, RowsKept DEF Inv, Types
  <2>4. work' \in [Threads -> Seq(Known')]
    BY <1>0, <2>1, <2>3, SyncKnown, Starts
  <2>5. HolderWasSent'
    BY <2>1 DEF Inv, HolderWasSent
  <2> QED
    BY <2>1, <2>3, <2>4, <2>5 DEF Inv, Types
<1>2. CASE Disconnect(u)
  <2> DEFINE teardown == <<[op |-> "deletePending", u |-> u], [op |-> "offline", u |-> u]>>
  <2>1. /\ sockets' = sockets \ {u}
        /\ asked' = [asked EXCEPT ![u] = {}] /\ inbox' = [inbox EXCEPT ![u] = {}]
        /\ work' = [work EXCEPT ![u] = teardown]
        /\ UNCHANGED <<online, synced, alloc, unfanned, ev, next, timer, sent, judgedOk>>
    BY <1>2 DEF Disconnect
  <2>2. Known \subseteq Known' /\ RequesterPresent' /\ Fresh' /\ RelayedSent' /\ HolderWasSent'
    BY <2>1, SameRows
  <2>3. work' \in [Threads -> Seq(Known')]
    BY <1>0, <2>1, <2>2, TeardownKnown, Starts
  <2> QED
    BY <2>1, <2>2, <2>3 DEF Inv, Types
<1>3. CASE Supersede(u)
  <2>1. /\ asked' = [asked EXCEPT ![u] = {}] /\ inbox' = [inbox EXCEPT ![u] = {}]
        /\ work' = [work EXCEPT ![u] = <<[op |-> "sync", u |-> u]>>]
        /\ UNCHANGED <<sockets, online, synced, alloc, unfanned, ev, next, timer, sent, judgedOk>>
    BY <1>3 DEF Supersede
  <2>2. Known \subseteq Known' /\ RequesterPresent' /\ Fresh' /\ RelayedSent' /\ HolderWasSent'
    BY <2>1, SameRows
  <2>3. work' \in [Threads -> Seq(Known')]
    BY <1>0, <2>1, <2>2, SyncKnown, Starts
  <2> QED
    BY <2>1, <2>2, <2>3 DEF Inv, Types
<1> QED
  BY <1>1, <1>2, <1>3

\* Restart keeps the invariant.
LEMMA RestartKeeps ==
    ASSUME Inv, Restart
    PROVE  Inv'
<1>1. /\ sockets' = {} /\ online' = {} /\ synced' = {}
      /\ ev' = [e \in Events |-> NoRow] /\ timer' = [e \in Events |-> None]
      /\ asked' = [u \in Users |-> {}] /\ inbox' = [u \in Users |-> {}]
      /\ work' = [t \in Threads |-> <<>>]
      /\ UNCHANGED <<alloc, unfanned, next, sent, judgedOk>>
  BY DEF Restart
<1>2. NoRow \in Row /\ NoRow.req = None
  BY DEF NoRow, Row, User, Names
<1>3. Types'
  BY <1>1, <1>2 DEF Inv, Types, User
<1>4. RequesterPresent' /\ Fresh' /\ RelayedSent' /\ HolderWasSent'
  BY <1>1, <1>2 DEF Inv, RequesterPresent, Fresh, RelayedSent, HolderWasSent, Pending
<1>5. work' \in [Threads -> Seq(Known')]
  BY <1>1, EmptyKnown
<1> QED
  BY <1>3, <1>4, <1>5 DEF Inv

----------------------------------------------------------------------------
(* The invariant.                                                          *)

\* A server at boot satisfies the invariant.
LEMMA InitInv == Init => Inv
<1> SUFFICES ASSUME Init PROVE Inv
  OBVIOUS
<1>1. NoRow \in Row /\ NoRow.req = None
  BY DEF NoRow, Row, User, Names
<1>2. Types
  BY <1>1, RelayAssumption DEF Init, Types, User
<1>3. work \in [Threads -> Seq(Known)]
  BY EmptySeq DEF Init
<1>4. RequesterPresent /\ Fresh /\ RelayedSent
  BY <1>1 DEF Init, RequesterPresent, Fresh, RelayedSent, Pending
<1>5. HolderWasSent
  BY RelayAssumption DEF Init, HolderWasSent
<1> QED
  BY <1>2, <1>3, <1>4, <1>5 DEF Inv

\* Run keeps the invariant.
LEMMA RunKeeps ==
    ASSUME Inv, NEW t \in Threads, Run(t)
    PROVE  Inv'
  BY DispatchNothingKeeps, DispatchNextKeeps, UnclaimKeeps, startRelayTimerKeeps,
     deliverOrForwardKeeps, markEventRelayedKeeps, handleFailedRelayKeeps,
     handleDataInvalidKeeps, createPendingReedEventKeeps, handleSyncRequestKeeps,
     catchUpReedKeeps, listPendingRequestsKeeps, redispatchPendingRequestsKeeps,
     fanoutNewReedCoreKeeps, dispatchManyKeeps, teardownUserKeeps, MarkUserOfflineKeeps DEF Run

\* ClientFrame keeps the invariant.
LEMMA ClientFrameKeeps ==
    ASSUME Inv, NEW u \in Users, ClientFrame(u)
    PROVE  Inv'
<1>1. ASSUME NEW e \in Events, NEW how \in Failures \cap {"miss", "error"}, RelayFailed(u, e, how = "miss")
      PROVE  Inv'
  <2>1. (how = "miss") \in BOOLEAN
    OBVIOUS
  <2> QED
    BY <1>1, <2>1, RelayFailedKeeps
<1>2. ASSUME NEW e \in Events,
             RelayResponse(u, e) \/ handleDataAck(u, e) \/ EarlyAck(u, e) \/ DataInvalid(u, e)
      PROVE  Inv'
  BY <1>2, RelayResponseKeeps, handleDataAckKeeps, DataInvalidKeeps
<1>3. ASSUME NEW r \in Reeds, requestReed(u, r) \/ handleEviction(u, r) \/ handlePublishReady(u, r)
      PROVE  Inv'
  BY <1>3, requestReedKeeps, handleEvictionKeeps, handlePublishReadyKeeps
<1> QED
  BY <1>1, <1>2, <1>3 DEF ClientFrame

\* Every step keeps it.
LEMMA NextInv == Inv /\ [Next]_vars => Inv'
<1> SUFFICES ASSUME Inv, [Next]_vars PROVE Inv'
  OBVIOUS
<1>1. CASE Next
  BY <1>1, RunKeeps, handleRelayTimeoutKeeps, ClientFrameKeeps, SocketKeeps, RestartKeeps DEF Next
<1>2. CASE UNCHANGED vars
  <2>1. Known \subseteq Known' /\ RequesterPresent' /\ Fresh' /\ RelayedSent' /\ HolderWasSent'
    BY <1>2, SameRows DEF vars
  <2>2. work' \in [Threads -> Seq(Known')]
    BY <1>2, <2>1, SeqMonotonic DEF vars, Inv
  <2> QED
    BY <1>2, <2>1, <2>2 DEF vars, Inv, Types
<1> QED
  BY <1>1, <1>2

\* The strengthening is an invariant: it holds at boot and every handler,
\* timer, socket change and restart keeps it.
THEOREM Invariance == Spec => []Inv
<1>1. Init => Inv
  BY InitInv
<1>2. Inv /\ [Next]_vars => Inv'
  BY NextInv
<1> QED
  BY <1>1, <1>2, PTL DEF Spec

\* Every table row, frame and goroutine keeps its shape, whatever order the
\* handlers, timers, sockets and restarts run in.
THEOREM TypeCorrect == Spec => []TypeOK
<1>1. Inv => TypeOK
  <2>1. ASSUME Inv PROVE work \in [Threads -> Seq(Op)]
    <3>1. Known \subseteq Op
      BY DEF Known
    <3> QED
      BY <2>1, <3>1, SeqMonotonic DEF Inv
  <2> QED
    BY <2>1 DEF Inv, Types, TypeOK
<1> QED
  BY <1>1, Invariance, PTL

\* No one enters reed_allocations who is not the author, a holder from the
\* start, or someone this server once handed the body to.
THEOREM RowsAreEarned == Spec => []HolderWasSent
<1>1. Inv => HolderWasSent
  BY DEF Inv
<1> QED
  BY <1>1, Invariance, PTL

----------------------------------------------------------------------------
(* The refinement of HolderDirectory.                                      *)

\* A failed relay drops the one row its operation names, or none.
LEMMA FailedDrops ==
    ASSUME Inv, NEW t \in Threads, handleFailedRelay(t)
    PROVE  [Directory!DirectoryNext]_<<alloc, sent>>
<1>1. PICK o : o = Head(work[t])
  OBVIOUS
<1>2. o \in Op /\ o.op = "failed"
  BY <1>1, FirstOp DEF handleFailedRelay
<1>3. o.h \in Users /\ o.r \in Reeds
  BY <1>2, OpFields
<1>4. sent' = sent /\ (alloc' = alloc \/ alloc' = alloc \ {<<o.r, o.h>>})
  BY <1>1 DEF handleFailedRelay, Dropped
<1>5. CASE <<o.r, o.h>> \in alloc
  BY <1>3, <1>4, <1>5 DEF Directory!DirectoryNext, Directory!Drop
<1>6. CASE <<o.r, o.h>> \notin alloc
  BY <1>4, <1>6
<1> QED
  BY <1>5, <1>6

\* An ack takes a row only for an event marked relayed, so for a copy given.
LEMMA AckHolds ==
    ASSUME Inv, NEW u \in Users, NEW e \in Events, handleDataAck(u, e) \/ EarlyAck(u, e)
    PROVE  [Directory!DirectoryNext]_<<alloc, sent>>
<1>1. sent' = sent /\ Acked(u, e) /\ u \in sockets
  BY DEF handleDataAck, EarlyAck, Idle
<1>2. CASE ev[e].req = u /\ ev[e].relayed
  <2>1. Pending(e)
    BY <1>2, RelayAssumption DEF Pending
  <2>2. <<ev[e].reed, u>> \in sent /\ ev[e].reed \in Reeds
    BY <1>1, <1>2, <2>1 DEF Inv, RelayedSent, RequesterPresent, HandedOver
  <2>3. alloc' = alloc \cup {<<ev[e].reed, u>>}
    BY <1>1, <1>2 DEF Acked
  <2> QED
    BY <1>1, <2>2, <2>3 DEF Directory!DirectoryNext, Directory!Hold
<1>3. CASE ~(ev[e].req = u /\ ev[e].relayed)
  BY <1>1, <1>3 DEF Acked
<1> QED
  BY <1>2, <1>3

\* A requester's own request, and an eviction, drop the user's own row.
LEMMA OwnDrops ==
    ASSUME NEW u \in Users, NEW r \in Reeds, requestReed(u, r) \/ handleEviction(u, r)
    PROVE  [Directory!DirectoryNext]_<<alloc, sent>>
<1>1. sent' = sent /\ alloc' = alloc \ {<<r, u>>}
  BY DEF requestReed, handleEviction
<1>2. CASE <<r, u>> \in alloc
  BY <1>1, <1>2 DEF Directory!DirectoryNext, Directory!Drop
<1>3. CASE <<r, u>> \notin alloc
  BY <1>1, <1>3
<1> QED
  BY <1>2, <1>3

\* A delivery gives one copy, to the requester its operation names.
LEMMA DeliveryGives ==
    ASSUME Inv, NEW t \in Threads, deliverOrForward(t)
    PROVE  [Directory!DirectoryNext]_<<alloc, sent>>
<1>1. PICK o : o = Head(work[t])
  OBVIOUS
<1>2. o \in Op /\ o.op = "deliver"
  BY <1>1, FirstOp DEF deliverOrForward
<1>3. o.u \in Users /\ o.r \in Reeds
  BY <1>2, OpFields
<1>4. alloc' = alloc /\ (sent' = sent \/ sent' = sent \cup {<<o.r, o.u>>})
  BY <1>1 DEF deliverOrForward
<1> QED
  BY <1>3, <1>4 DEF Directory!DirectoryNext, Directory!Give

\* The other operations of a goroutine touch neither rows nor copies.
LEMMA RunMaps ==
    ASSUME Inv, NEW t \in Threads, Run(t)
    PROVE  [Directory!DirectoryNext]_<<alloc, sent>>
<1>1. CASE handleFailedRelay(t)
  BY <1>1, FailedDrops
<1>2. CASE deliverOrForward(t)
  BY <1>2, DeliveryGives
<1>3. CASE DispatchNothing(t) \/ DispatchNext(t) \/ DispatchLost(t) \/ Unclaim(t)
           \/ startRelayTimer(t) \/ markEventRelayed(t) \/ handleDataInvalid(t)
  BY <1>3 DEF DispatchNothing, DispatchNext, DispatchLost, Unclaim, startRelayTimer,
     markEventRelayed, handleDataInvalid
<1>4. CASE createPendingReedEvent(t) \/ handleSyncRequest(t) \/ catchUpReed(t)
           \/ listPendingRequests(t) \/ redispatchPendingRequests(t)
           \/ fanoutNewReedCore(t) \/ dispatchMany(t) \/ teardownUser(t) \/ MarkUserOffline(t)
  BY <1>4 DEF createPendingReedEvent, handleSyncRequest, catchUpReed, listPendingRequests,
     redispatchPendingRequests, fanoutNewReedCore, dispatchMany, teardownUser, MarkUserOffline
<1> QED
  BY <1>1, <1>2, <1>3, <1>4 DEF Run

\* So does every frame of a client.
LEMMA FrameMaps ==
    ASSUME Inv, NEW u \in Users, ClientFrame(u)
    PROVE  [Directory!DirectoryNext]_<<alloc, sent>>
<1>1. ASSUME NEW e \in Events, handleDataAck(u, e) \/ EarlyAck(u, e)
      PROVE  [Directory!DirectoryNext]_<<alloc, sent>>
  BY <1>1, AckHolds
<1>2. ASSUME NEW r \in Reeds, requestReed(u, r) \/ handleEviction(u, r)
      PROVE  [Directory!DirectoryNext]_<<alloc, sent>>
  BY <1>2, OwnDrops
<1>3. ASSUME NEW e \in Events, RelayResponse(u, e) \/ DataInvalid(u, e)
      PROVE  [Directory!DirectoryNext]_<<alloc, sent>>
  BY <1>3 DEF RelayResponse, DataInvalid
<1>4. ASSUME NEW e \in Events, NEW how, RelayFailed(u, e, how = "miss")
      PROVE  [Directory!DirectoryNext]_<<alloc, sent>>
  BY <1>4 DEF RelayFailed
<1>5. ASSUME NEW r \in Reeds, handlePublishReady(u, r)
      PROVE  [Directory!DirectoryNext]_<<alloc, sent>>
  BY <1>5 DEF handlePublishReady
<1> QED
  BY <1>1, <1>2, <1>3, <1>4, <1>5 DEF ClientFrame

\* Every step of the relay engine is a step of the directory or leaves it.
LEMMA StepMaps == Inv /\ [Next]_vars => [Directory!DirectoryNext]_<<alloc, sent>>
<1> SUFFICES ASSUME Inv, [Next]_vars PROVE [Directory!DirectoryNext]_<<alloc, sent>>
  OBVIOUS
<1>1. ASSUME NEW e \in Events, handleRelayTimeout(e)
      PROVE  [Directory!DirectoryNext]_<<alloc, sent>>
  BY <1>1 DEF handleRelayTimeout
<1>2. ASSUME NEW u \in Users, Connect(u) \/ Disconnect(u) \/ Supersede(u)
      PROVE  [Directory!DirectoryNext]_<<alloc, sent>>
  BY <1>2 DEF Connect, Disconnect, Supersede
<1>3. CASE Restart
  BY <1>3 DEF Restart
<1>4. CASE UNCHANGED vars
  BY <1>4 DEF vars
<1> QED
  BY <1>1, <1>2, <1>3, <1>4, RunMaps, FrameMaps DEF Next

\* The relay engine implements HolderDirectory: whatever its goroutines do to
\* events, claims and timers, rows are taken only on copies given, and given
\* up one at a time.
THEOREM DirectoryImplemented == Spec => ImplementsDirectory
<1>1. Init => Directory!DirectoryInit
  BY DEF Init, Directory!DirectoryInit
<1>2. Inv /\ [Next]_vars => [Directory!DirectoryNext]_<<alloc, sent>>
  BY StepMaps
<1> QED
  BY <1>1, <1>2, Invariance, PTL DEF Spec, ImplementsDirectory, Directory!DirectorySpec

----------------------------------------------------------------------------
(* Who loses a row: only a goroutine of the holder carries its MISS.       *)

\* Operations a goroutine goes on with, and those that goroutine t may carry.
Plain == {o \in Op : o.op # "failed"}
Own(t) == {o \in Op : o.op = "failed" /\ o.del => o.h = t}

\* A miss that is being handled is handled on its holder's socket.
OwnMisses == \A t \in Threads : work[t] \in Seq(Own(t))

LEMMA PlainOne ==
    ASSUME NEW o \in Op, o.op # "failed", NEW cond \in BOOLEAN
    PROVE  <<o>> \in Seq(Plain) /\ If(cond, o) \in Seq(Plain)
<1>1. o \in Plain
  BY DEF Plain
<1>2. <<o>> \in Seq(Plain) /\ <<>> \in Seq(Plain)
  BY <1>1, OneSeq, EmptySeq
<1> QED
  BY <1>2 DEF If

LEMMA DispatchPlain ==
    ASSUME NEW h \in Users, NEW n \in 1 .. RefillBurst, NEW cond \in BOOLEAN
    PROVE  /\ dispatchN(h, n) \in Plain /\ <<dispatchN(h, n)>> \in Seq(Plain)
           /\ If(cond, dispatchN(h, n)) \in Seq(Plain)
           /\ <<dispatchNIfConnected(h, n)>> \in Seq(Plain)
<1>1. dispatchN(h, n) \in Op /\ dispatchN(h, n).op # "failed"
  BY DEF Op, dispatchN
<1>2. dispatchNIfConnected(h, n) \in Op /\ dispatchNIfConnected(h, n).op # "failed"
  BY DEF Op, dispatchNIfConnected
<1>3. dispatchN(h, n) \in Plain
  BY <1>1 DEF Plain
<1>4. <<dispatchN(h, n)>> \in Seq(Plain) /\ If(cond, dispatchN(h, n)) \in Seq(Plain)
  BY <1>1, PlainOne
<1>5. <<dispatchNIfConnected(h, n)>> \in Seq(Plain)
  BY <1>2, PlainOne
<1> QED
  BY <1>3, <1>4, <1>5

LEMMA DispatchToPlain ==
    ASSUME NEW h \in User
    PROVE  dispatchTo(h) \in Seq(Plain)
<1>1. 1 \in 1 .. RefillBurst
  BY RelayAssumption
<1>2. CASE h = None
  BY <1>2, EmptySeq DEF dispatchTo
<1>3. CASE h # None
  <2>1. h \in Users
    BY <1>3 DEF User
  <2> QED
    BY <1>1, <1>3, <2>1, DispatchPlain DEF dispatchTo
<1> QED
  BY <1>2, <1>3

\* What is plain may be carried by anybody.
LEMMA PlainIsOwn ==
    ASSUME NEW t, NEW s \in Seq(Plain)
    PROVE  s \in Seq(Own(t))
<1>1. Plain \subseteq Own(t)
  BY DEF Plain, Own
<1> QED
  BY <1>1, SeqMonotonic

\* A goroutine that goes on with plain operations, or is started with its own.
LEMMA OwnGoesOn ==
    ASSUME Inv, OwnMisses, NEW t \in Threads, work[t] # <<>>, NEW more \in Seq(Plain),
           Continue(t, more)
    PROVE  OwnMisses'
<1>1. work[t] \in Seq(Own(t)) /\ more \in Seq(Own(t))
  BY PlainIsOwn DEF OwnMisses
<1>2. Tail(work[t]) \in Seq(Own(t))
  BY <1>1, HeadTailProperties
<1>3. more \o Tail(work[t]) \in Seq(Own(t))
  BY <1>1, <1>2, ConcatProperties
<1>4. work' = [work EXCEPT ![t] = more \o Tail(work[t])] /\ DOMAIN work = Threads
  BY DEF Continue, Inv
<1>5. \A s \in Threads : work'[s] = IF s = t THEN more \o Tail(work[t]) ELSE work[s]
  BY <1>4
<1> QED
  BY <1>3, <1>5 DEF OwnMisses

LEMMA OwnStarts ==
    ASSUME Inv, OwnMisses, NEW t \in Threads, NEW more \in Seq(Own(t)),
           work' = [work EXCEPT ![t] = more]
    PROVE  OwnMisses'
<1>1. \A s \in Threads : work'[s] = IF s = t THEN more ELSE work[s]
  BY DEF Inv
<1> QED
  BY <1>1 DEF OwnMisses

\* Operations that end, or go on with one or two others.
LEMMA ShortOwn ==
    ASSUME Inv, OwnMisses, NEW t \in Threads,
           \/ DispatchNothing(t) \/ DispatchLost(t) \/ Unclaim(t) \/ markEventRelayed(t)
           \/ teardownUser(t) \/ MarkUserOffline(t)
           \/ DispatchNext(t) \/ startRelayTimer(t) \/ deliverOrForward(t)
    PROVE  OwnMisses'
<1>0. PICK o : o = Head(work[t])
  OBVIOUS
<1>e. <<>> \in Seq(Plain)
  BY EmptySeq
<1>1. CASE \/ DispatchNothing(t) \/ DispatchLost(t) \/ Unclaim(t) \/ markEventRelayed(t)
           \/ teardownUser(t) \/ MarkUserOffline(t)
  BY <1>1, <1>e, OwnGoesOn DEF DispatchNothing, DispatchLost, Unclaim, markEventRelayed,
     teardownUser, MarkUserOffline, Runs
<1>2. CASE DispatchNext(t)
  <2>1. o \in Op /\ o.op = "dispatchN" /\ work[t] # <<>>
    BY <1>0, <1>2, FirstOp DEF DispatchNext
  <2>2. o.h \in Users /\ o.n \in 1 .. RefillBurst
    BY <2>1, OpFields
  <2>3. PICK e \in Oldest(Queue(o.h)) :
           Continue(t, IF o.h \in sockets \/ BusEnabled
                       THEN <<[op |-> "arm", h |-> o.h, e |-> e, n |-> o.n]>>
                       ELSE <<[op |-> "unclaim", h |-> o.h, e |-> e]>>)
    BY <1>0, <1>2 DEF DispatchNext
  <2>4. e \in Events
    BY DEF Oldest, Queue
  <2>5. [op |-> "arm", h |-> o.h, e |-> e, n |-> o.n] \in Op
        /\ [op |-> "unclaim", h |-> o.h, e |-> e] \in Op
    BY <2>2, <2>4 DEF Op
  <2>6. <<[op |-> "arm", h |-> o.h, e |-> e, n |-> o.n]>> \in Seq(Plain)
        /\ <<[op |-> "unclaim", h |-> o.h, e |-> e]>> \in Seq(Plain)
    BY <2>5, PlainOne
  <2> QED
    BY <2>1, <2>3, <2>6, OwnGoesOn
<1>3. CASE startRelayTimer(t)
  <2>1. o \in Op /\ o.op = "arm" /\ work[t] # <<>>
    BY <1>0, <1>3, FirstOp DEF startRelayTimer
  <2>2. o.h \in Users /\ o.n \in 1 .. RefillBurst
    BY <2>1, OpFields
  <2>3. If(o.n > 1, dispatchN(o.h, o.n - 1)) \in Seq(Plain)
    <3>1. CASE o.n > 1
      <4>1. o.n - 1 \in 1 .. RefillBurst
        BY <2>2, <3>1, RelayAssumption
      <4> QED
        BY <2>2, <3>1, <4>1, DispatchPlain DEF If
    <3>2. CASE ~(o.n > 1)
      BY <1>e, <3>2 DEF If
    <3> QED
      BY <3>1, <3>2
  <2> QED
    BY <1>0, <1>3, <2>1, <2>3, OwnGoesOn DEF startRelayTimer
<1>4. CASE deliverOrForward(t)
  <2>1. o \in Op /\ o.op = "deliver" /\ work[t] # <<>>
    BY <1>0, <1>4, FirstOp DEF deliverOrForward
  <2>2. o.e \in Events /\ o.name \in Names
    BY <2>1, OpFields
  <2>3. [op |-> "mark", e |-> o.e, name |-> o.name] \in Op
    BY <2>2 DEF Op
  <2>4. If(o.u \in sockets \/ BusEnabled, [op |-> "mark", e |-> o.e, name |-> o.name]) \in Seq(Plain)
    BY <2>3, PlainOne
  <2> QED
    BY <1>0, <1>4, <2>1, <2>4, OwnGoesOn DEF deliverOrForward
<1> QED
  BY <1>1, <1>2, <1>3, <1>4

\* Operations that go on with a holder that a query returned.
LEMMA PassedOnOwn ==
    ASSUME Inv, OwnMisses, NEW t \in Threads,
           \/ handleFailedRelay(t) \/ handleDataInvalid(t) \/ createPendingReedEvent(t)
           \/ redispatchPendingRequests(t) \/ catchUpReed(t)
    PROVE  OwnMisses'
<1>0. PICK o : o = Head(work[t])
  OBVIOUS
<1>e. <<>> \in Seq(Plain)
  BY EmptySeq
<1>q. ASSUME NEW al, NEW r, NEW h \in PickOnline(al, r), NEW rest \in Seq(Plain)
      PROVE  dispatchTo(h) \in Seq(Plain) /\ dispatchTo(h) \o rest \in Seq(Plain)
  BY <1>q, PickOnlineType, DispatchToPlain, ConcatProperties
<1>1. CASE handleFailedRelay(t)
  <2>1. o \in Op /\ o.op = "failed" /\ work[t] # <<>>
    BY <1>0, <1>1, FirstOp DEF handleFailedRelay
  <2>2. <<dispatchN(o.h, RefillBurst)>> \in Seq(Plain)
    <3>1. o.h \in Users /\ RefillBurst \in 1 .. RefillBurst /\ TRUE \in BOOLEAN
      BY <2>1, OpFields, RelayAssumption
    <3> QED
      BY <3>1, DispatchPlain
  <2>3. \E more \in Seq(Plain) : Continue(t, more)
    BY <1>0, <1>1, <1>q, <2>2 DEF handleFailedRelay
  <2> QED
    BY <2>1, <2>3, OwnGoesOn
<1>2. CASE handleDataInvalid(t)
  <2>1. work[t] # <<>>
    BY <1>2 DEF handleDataInvalid, Runs
  <2>2. \E more \in Seq(Plain) : Continue(t, more)
    BY <1>2, <1>e, <1>q DEF handleDataInvalid
  <2> QED
    BY <2>1, <2>2, OwnGoesOn
<1>3. CASE createPendingReedEvent(t)
  <2>1. o \in Op /\ o.op = "create" /\ work[t] # <<>>
    BY <1>0, <1>3, FirstOp DEF createPendingReedEvent
  <2>2. dispatchTo(o.h) \in Seq(Plain)
    BY <2>1, OpFields, DispatchToPlain
  <2>3. \E more \in Seq(Plain) : Continue(t, more)
    BY <1>0, <1>3, <1>e, <2>2 DEF createPendingReedEvent
  <2> QED
    BY <2>1, <2>3, OwnGoesOn
<1>4. CASE redispatchPendingRequests(t)
  <2>1. o \in Op /\ o.op = "redispatch" /\ work[t] # <<>>
    BY <1>0, <1>4, FirstOp DEF redispatchPendingRequests
  <2>2. o.claims \in SUBSET (Events \X User)
    BY <2>1, OpFields
  <2>3. ASSUME NEW c \in o.claims
        PROVE  If(o.claims # {c}, [o EXCEPT !.claims = @ \ {c}]) \in Seq(Plain)
    <3>1. [o EXCEPT !.claims = @ \ {c}] \in Op /\ [o EXCEPT !.claims = @ \ {c}].op # "failed"
      BY <2>1, <2>2 DEF Op
    <3> QED
      BY <3>1, PlainOne
  <2>4. PICK c \in o.claims :
           LET rest == If(o.claims # {c}, [o EXCEPT !.claims = @ \ {c}]) IN
           \/ \E h \in PickOnline(alloc, ev[c[1]].reed) : Continue(t, dispatchTo(h) \o rest)
           \/ Continue(t, rest)
    BY <1>0, <1>4 DEF redispatchPendingRequests
  <2>5. \E more \in Seq(Plain) : Continue(t, more)
    BY <1>q, <2>3, <2>4
  <2> QED
    BY <2>1, <2>5, OwnGoesOn
<1>5. CASE catchUpReed(t)
  <2>1. o \in Op /\ o.op = "catchUp" /\ work[t] # <<>>
    BY <1>0, <1>5, FirstOp DEF catchUpReed
  <2>2. o.u \in Users /\ o.rs \in SUBSET Reeds
    BY <2>1, OpFields
  <2>3. ASSUME NEW r \in o.rs
        PROVE  If(o.rs # {r}, [o EXCEPT !.rs = @ \ {r}]) \in Seq(Plain)
    <3>1. [o EXCEPT !.rs = @ \ {r}] \in Op /\ [o EXCEPT !.rs = @ \ {r}].op # "failed"
      BY <2>1, <2>2 DEF Op
    <3> QED
      BY <3>1, PlainOne
  <2>4. \E more \in Seq(Plain) : Continue(t, more)
    BY <1>0, <1>5, <1>q, <2>3 DEF catchUpReed
  <2> QED
    BY <2>1, <2>4, OwnGoesOn
<1> QED
  BY <1>1, <1>2, <1>3, <1>4, <1>5

\* Operations that go on with a list of what they have found.
LEMMA ListedOwn ==
    ASSUME Inv, OwnMisses, NEW t \in Threads,
           \/ handleSyncRequest(t) \/ listPendingRequests(t) \/ fanoutNewReedCore(t)
           \/ dispatchMany(t)
    PROVE  OwnMisses'
<1>0. PICK o : o = Head(work[t])
  OBVIOUS
<1>1. CASE handleSyncRequest(t)
  <2> DEFINE catchUp == [op |-> "catchUp", u |-> o.u, rs |-> MissingOut(o.u)]
             list == [op |-> "listPending", u |-> o.u]
  <2>1. o \in Op /\ o.op = "sync" /\ work[t] # <<>>
    BY <1>0, <1>1, FirstOp DEF handleSyncRequest
  <2>2. o.u \in Users
    BY <2>1, OpFields
  <2>3. MissingOut(o.u) \in SUBSET Reeds
    BY <2>2, RelayAssumption DEF MissingOut
  <2>4. catchUp \in Op /\ list \in Op
    BY <2>2, <2>3 DEF Op
  <2>5. If(MissingOut(o.u) # {}, catchUp) \in Seq(Plain)
    BY <2>4, PlainOne
  <2>6. <<dispatchN(o.u, 1), list>> \in Seq(Plain)
    <3>1. 1 \in 1 .. RefillBurst /\ list \in Plain
      BY <2>4, RelayAssumption DEF Plain
    <3>2. dispatchN(o.u, 1) \in Plain
      BY <2>2, <3>1, DispatchPlain
    <3> QED
      BY <3>1, <3>2, TwoSeq
  <2>7. If(MissingOut(o.u) # {}, catchUp) \o <<dispatchN(o.u, 1), list>> \in Seq(Plain)
    BY <2>5, <2>6, ConcatProperties
  <2>8. Continue(t, If(MissingOut(o.u) # {}, catchUp) \o <<dispatchN(o.u, 1), list>>)
    BY <1>0, <1>1 DEF handleSyncRequest
  <2> QED
    BY <2>1, <2>7, <2>8, OwnGoesOn
<1>2. CASE listPendingRequests(t)
  <2> DEFINE claims == {<<e, ev[e].disp>> : e \in {f \in Events : ev[f].req = o.u}}
  <2>1. o \in Op /\ work[t] # <<>>
    BY <1>0, <1>2, FirstOp DEF listPendingRequests
  <2>2. claims \in SUBSET (Events \X User)
    BY DEF Inv, Types, Row
  <2>3. [op |-> "redispatch", claims |-> claims] \in Op
    BY <2>2 DEF Op
  <2>4. If(claims # {}, [op |-> "redispatch", claims |-> claims]) \in Seq(Plain)
    BY <2>3, PlainOne
  <2>5. Continue(t, If(claims # {}, [op |-> "redispatch", claims |-> claims]))
    BY <1>0, <1>2 DEF listPendingRequests
  <2> QED
    BY <2>1, <2>4, <2>5, OwnGoesOn
<1>3. CASE fanoutNewReedCore(t)
  <2> DEFINE r == o.r
             others == online \ {Author[r]}
             followers == {u \in others : r \in Follows[u]}
             to == (followers \X {"follow_reed"})
                   \cup (((Broadcast \cap others) \ followers) \X {"broadcast_reed"})
             all == [op |-> "enqueue", r |-> r, to |-> to]
             first == dispatchNIfConnected(Author[r], InitialBurst)
  <2>1. r \in Reeds /\ work[t] # <<>>
    BY <1>0, <1>3, FirstOp, OpFields DEF fanoutNewReedCore
  <2>2. to \in SUBSET (Users \X Names)
    BY DEF Inv, Types, Names
  <2>3. all \in Op
    BY <2>1, <2>2 DEF Op
  <2>4. If(to # {}, all) \in Seq(Plain)
    BY <2>3, PlainOne
  <2>5. <<first>> \in Seq(Plain)
    BY <2>1, DispatchPlain, RelayAssumption
  <2>6. If(to # {}, all) \o <<first>> \in Seq(Plain)
    BY <2>4, <2>5, ConcatProperties
  <2>7. Continue(t, If(to # {}, all) \o <<first>>)
    BY <1>0, <1>3 DEF fanoutNewReedCore
  <2> QED
    BY <2>1, <2>6, <2>7, OwnGoesOn
<1>4. CASE dispatchMany(t)
  <2>1. o \in Op /\ o.op = "enqueue" /\ work[t] # <<>>
    BY <1>0, <1>4, FirstOp DEF dispatchMany
  <2>2. o.r \in Reeds /\ o.to \in SUBSET (Users \X Names)
    BY <2>1, OpFields
  <2>3. PICK p \in o.to : Continue(t, If(o.to # {p}, [o EXCEPT !.to = @ \ {p}]))
    BY <1>0, <1>4 DEF dispatchMany
  <2>4. [o EXCEPT !.to = @ \ {p}] \in Op /\ [o EXCEPT !.to = @ \ {p}].op # "failed"
    BY <2>1, <2>2 DEF Op
  <2>5. If(o.to # {p}, [o EXCEPT !.to = @ \ {p}]) \in Seq(Plain)
    BY <2>4, PlainOne
  <2> QED
    BY <2>1, <2>3, <2>5, OwnGoesOn
<1> QED
  BY <1>1, <1>2, <1>3, <1>4

\* What a failed holder is handled with: a miss on its own socket.
LEMMA FailedReadOwn ==
    ASSUME Inv, NEW t, NEW h \in Users, NEW e \in Events, NEW del \in BOOLEAN, del => h = t
    PROVE  FailedRead(h, e, del) \in Seq(Own(t))
<1> DEFINE o == [op |-> "failed", h |-> h, e |-> e, r |-> ev[e].reed, del |-> del]
<1>1. CASE ~Pending(e)
  <2>1. RefillBurst \in 1 .. RefillBurst
    BY RelayAssumption
  <2>2. <<dispatchN(h, RefillBurst)>> \in Seq(Own(t))
    BY <2>1, DispatchPlain, PlainIsOwn
  <2> QED
    BY <1>1, <2>2 DEF FailedRead
<1>2. CASE Pending(e) /\ ev[e].disp # h
  BY <1>2, EmptySeq DEF FailedRead
<1>3. CASE Pending(e) /\ ev[e].disp = h
  <2>1. ev[e].reed \in Reeds
    BY <1>3 DEF Inv, RequesterPresent
  <2>2. o \in Op
    BY <2>1 DEF Op
  <2>3. o \in Own(t)
    BY <2>2 DEF Own
  <2> QED
    BY <1>3, <2>3, OneSeq DEF FailedRead
<1> QED
  BY <1>1, <1>2, <1>3

\* Goroutines that a client's answers start.
LEMMA FrameOwn ==
    ASSUME Inv, OwnMisses, NEW u \in Users, NEW e \in Events, NEW del \in BOOLEAN,
           RelayResponse(u, e) \/ RelayFailed(u, e, del) \/ DataInvalid(u, e)
    PROVE  OwnMisses'
<1>0. u \in Threads /\ RefillBurst \in 1 .. RefillBurst /\ None \notin Users
  BY RelayAssumption DEF Threads
<1>e. <<>> \in Seq(Plain)
  BY EmptySeq
<1>1. CASE RelayFailed(u, e, del)
  BY <1>0, <1>1, FailedReadOwn, OwnStarts DEF RelayFailed
<1>2. CASE RelayResponse(u, e)
  <2> DEFINE deliver == [op |-> "deliver", u |-> ev[e].req, e |-> e, r |-> ev[e].reed, name |-> ev[e].name]
             refill == dispatchN(u, RefillBurst)
             heard == IF ~Pending(e) THEN <<refill>>
                      ELSE IF ev[e].disp # u THEN <<>> ELSE <<deliver, refill>>
  <2>1. refill \in Plain /\ <<refill>> \in Seq(Plain)
    BY <1>0, DispatchPlain
  <2>2. ASSUME Pending(e) PROVE deliver \in Plain
    <3>1. ev[e].req \in Users /\ ev[e].reed \in Reeds /\ ev[e].name \in Names
      BY <2>2 DEF Inv, Types, RequesterPresent, Row
    <3> QED
      BY <3>1 DEF Op, Plain
  <2>3. heard \in Seq(Plain)
    BY <1>e, <2>1, <2>2, TwoSeq
  <2>4. work' = [work EXCEPT ![u] = heard]
    BY <1>2 DEF RelayResponse
  <2> QED
    BY <1>0, <2>3, <2>4, PlainIsOwn, OwnStarts
<1>3. CASE DataInvalid(u, e)
  <2> DEFINE o == [op |-> "invalid", e |-> e, r |-> ev[e].reed, disp |-> ev[e].disp]
  <2>1. ASSUME ev[e].req = u PROVE o \in Op /\ o.op # "failed"
    <3>1. Pending(e)
      BY <1>0, <2>1 DEF Pending
    <3>2. ev[e].reed \in Reeds /\ ev[e].disp \in User
      BY <3>1 DEF Inv, Types, RequesterPresent, Row
    <3> QED
      BY <3>2 DEF Op
  <2>2. If(ev[e].req = u, o) \in Seq(Plain)
    BY <1>e, <2>1, PlainOne DEF If
  <2> QED
    BY <1>0, <1>3, <2>2, PlainIsOwn, OwnStarts DEF DataInvalid
<1> QED
  BY <1>1, <1>2, <1>3

\* A timer that fires fails the holder for silence, never for a miss.
LEMMA TimeoutOwn ==
    ASSUME Inv, OwnMisses, NEW e \in Events, handleRelayTimeout(e)
    PROVE  OwnMisses'
<1>1. timer[e] \in Users /\ e \in Threads
  BY DEF handleRelayTimeout, Inv, Types, User, Threads
<1>2. FailedRead(timer[e], e, FALSE) \in Seq(Own(e)) /\ <<>> \in Seq(Own(e))
  BY <1>1, FailedReadOwn, EmptySeq
<1>3. (IF LeftAlone(e) THEN <<>> ELSE FailedRead(timer[e], e, FALSE)) \in Seq(Own(e))
  BY <1>2
<1>4. work' = [work EXCEPT ![e] = IF LeftAlone(e) THEN <<>> ELSE FailedRead(timer[e], e, FALSE)]
  BY DEF handleRelayTimeout
<1> QED
  BY <1>1, <1>3, <1>4, OwnStarts

\* Goroutines that a request, a publication and a new socket start.
LEMMA RequestOwn ==
    ASSUME Inv, OwnMisses, NEW u \in Users, NEW r \in Reeds,
           requestReed(u, r) \/ handlePublishReady(u, r)
    PROVE  OwnMisses'
<1>0. u \in Threads /\ r \in Threads
  BY DEF Threads
<1>1. CASE requestReed(u, r)
  <2>1. PICK h \in PickOnline(alloc', r) :
           work' = [work EXCEPT ![u] = If(HoldersIn(alloc', r) # {},
                                          [op |-> "create", u |-> u, r |-> r, h |-> h])]
    BY <1>1 DEF requestReed
  <2>2. [op |-> "create", u |-> u, r |-> r, h |-> h] \in Op
    BY <2>1, PickOnlineType DEF Op
  <2>3. If(HoldersIn(alloc', r) # {}, [op |-> "create", u |-> u, r |-> r, h |-> h]) \in Seq(Plain)
    BY <2>2, PlainOne
  <2> QED
    BY <1>0, <2>1, <2>3, PlainIsOwn, OwnStarts
<1>2. CASE handlePublishReady(u, r)
  <2>1. [op |-> "fanout", r |-> r] \in Op
    BY DEF Op
  <2>2. <<[op |-> "fanout", r |-> r]>> \in Seq(Plain)
    BY <2>1, PlainOne
  <2> QED
    BY <1>0, <1>2, <2>2, PlainIsOwn, OwnStarts DEF handlePublishReady
<1> QED
  BY <1>1, <1>2

LEMMA SocketOwn ==
    ASSUME Inv, OwnMisses, NEW u \in Users, Connect(u) \/ Disconnect(u) \/ Supersede(u)
    PROVE  OwnMisses'
<1> DEFINE begun == [op |-> "deletePending", u |-> u]
           ended == [op |-> "offline", u |-> u]
<1>1. [op |-> "sync", u |-> u] \in Op /\ u \in Threads
  BY DEF Op, Threads
<1>2. <<[op |-> "sync", u |-> u]>> \in Seq(Own(u))
  BY <1>1, PlainOne, PlainIsOwn
<1>3. <<begun, ended>> \in Seq(Own(u))
  <2>1. begun \in Op /\ begun.op # "failed" /\ ended \in Op /\ ended.op # "failed"
    BY DEF Op
  <2>2. begun \in Plain /\ ended \in Plain
    BY <2>1 DEF Plain
  <2> QED
    BY <2>2, TwoSeq, PlainIsOwn
<1>4. \/ work' = [work EXCEPT ![u] = <<[op |-> "sync", u |-> u]>>]
      \/ work' = [work EXCEPT ![u] = <<begun, ended>>]
  BY DEF Connect, Disconnect, Supersede
<1> QED
  BY <1>1, <1>2, <1>3, <1>4, OwnStarts

\* Every step keeps it.
LEMMA OwnMissesStay == Inv /\ OwnMisses /\ [Next]_vars => OwnMisses'
<1> SUFFICES ASSUME Inv, OwnMisses, [Next]_vars PROVE OwnMisses'
  OBVIOUS
<1>1. ASSUME NEW t \in Threads, Run(t) PROVE OwnMisses'
  BY <1>1, ShortOwn, PassedOnOwn, ListedOwn DEF Run
<1>2. ASSUME NEW u \in Users, ClientFrame(u) PROVE OwnMisses'
  <2>1. ASSUME NEW e \in Events, NEW how, RelayFailed(u, e, how = "miss") PROVE OwnMisses'
    <3>1. (how = "miss") \in BOOLEAN
      OBVIOUS
    <3> QED
      BY <2>1, <3>1, FrameOwn
  <2>2. ASSUME NEW e \in Events, RelayResponse(u, e) \/ DataInvalid(u, e) PROVE OwnMisses'
    BY <2>2, FrameOwn
  <2>3. ASSUME NEW e \in Events, handleDataAck(u, e) \/ EarlyAck(u, e) PROVE OwnMisses'
    BY <2>3 DEF handleDataAck, EarlyAck, OwnMisses
  <2>4. ASSUME NEW r \in Reeds, handleEviction(u, r) PROVE OwnMisses'
    BY <2>4 DEF handleEviction, OwnMisses
  <2> QED
    BY <1>2, <2>1, <2>2, <2>3, <2>4, RequestOwn DEF ClientFrame
<1>3. CASE Restart
  <2>1. \A t \in Threads : work'[t] = <<>>
    BY <1>3 DEF Restart
  <2> QED
    BY <2>1, EmptySeq DEF OwnMisses
<1>4. CASE UNCHANGED vars
  BY <1>4 DEF vars, OwnMisses
<1> QED
  BY <1>1, <1>2, <1>3, <1>4, TimeoutOwn, SocketOwn DEF Next

\* A goroutine that loses a row carries the miss of the row's holder.
LEMMA FailedLosesOwn ==
    ASSUME Inv, OwnMisses, NEW t \in Threads, handleFailedRelay(t)
    PROVE  \A p \in alloc \ alloc' : \A s \in Threads \ {p[2]} : work'[s] = work[s]
<1>0. PICK o : o = Head(work[t])
  OBVIOUS
<1>1. work[t] # <<>> /\ work[t] \in Seq(Own(t)) /\ o.op = "failed"
  BY <1>0 DEF OwnMisses, handleFailedRelay, Runs
<1>2. o \in Own(t)
  BY <1>0, <1>1, HeadTailProperties
<1>3. alloc' = alloc \ Dropped(o)
  BY <1>0 DEF handleFailedRelay
<1>4. \A p \in alloc \ alloc' : p[2] = t
  BY <1>1, <1>2, <1>3 DEF Dropped, Own
<1>5. \E more : work' = [work EXCEPT ![t] = more]
  <2>1. \E more : Continue(t, more)
    BY DEF handleFailedRelay
  <2> QED
    BY <2>1 DEF Continue
<1>6. \A s \in Threads \ {t} : work'[s] = work[s]
  BY <1>5 DEF Inv
<1> QED
  BY <1>4, <1>6

LEMMA AsksLosesOwn ==
    ASSUME Inv, NEW u \in Users, NEW r \in Reeds, requestReed(u, r) \/ handleEviction(u, r)
    PROVE  \A p \in alloc \ alloc' : \A s \in Threads \ {p[2]} : work'[s] = work[s]
<1>1. alloc' = alloc \ {<<r, u>>}
  BY DEF requestReed, handleEviction
<1>2. \A p \in alloc \ alloc' : p[2] = u
  BY <1>1
<1>3. \A s \in Threads \ {u} : work'[s] = work[s]
  <2>1. CASE handleEviction(u, r)
    BY <2>1 DEF handleEviction
  <2>2. CASE requestReed(u, r)
    <3>1. \E more : work' = [work EXCEPT ![u] = more]
      BY <2>2 DEF requestReed
    <3> QED
      BY <3>1 DEF Inv
  <2> QED
    BY <2>1, <2>2
<1> QED
  BY <1>2, <1>3

\* Every step that loses a row is its holder's own.
LEMMA StepLosesOwn ==
    Inv /\ OwnMisses /\ [Next]_vars
    => [\A p \in alloc \ alloc' : \A t \in Threads \ {p[2]} : work'[t] = work[t]]_vars
<1> SUFFICES ASSUME Inv, OwnMisses, Next
             PROVE  \A p \in alloc \ alloc' : \A t \in Threads \ {p[2]} : work'[t] = work[t]
  OBVIOUS
<1>1. ASSUME NEW t \in Threads, Run(t), ~handleFailedRelay(t) PROVE alloc' = alloc
  <2>1. CASE \/ DispatchNothing(t) \/ DispatchNext(t) \/ DispatchLost(t) \/ Unclaim(t)
             \/ startRelayTimer(t) \/ deliverOrForward(t) \/ markEventRelayed(t)
             \/ handleDataInvalid(t)
    BY <2>1 DEF DispatchNothing, DispatchNext, DispatchLost, Unclaim, startRelayTimer,
       deliverOrForward, markEventRelayed, handleDataInvalid
  <2>2. CASE \/ createPendingReedEvent(t) \/ handleSyncRequest(t) \/ catchUpReed(t)
             \/ listPendingRequests(t) \/ redispatchPendingRequests(t)
             \/ fanoutNewReedCore(t) \/ dispatchMany(t) \/ teardownUser(t) \/ MarkUserOffline(t)
    BY <2>2 DEF createPendingReedEvent, handleSyncRequest, catchUpReed, listPendingRequests,
       redispatchPendingRequests, fanoutNewReedCore, dispatchMany, teardownUser, MarkUserOffline
  <2> QED
    BY <1>1, <2>1, <2>2 DEF Run
<1>2. ASSUME NEW u \in Users, NEW e \in Events,
             \/ RelayResponse(u, e) \/ DataInvalid(u, e)
             \/ \E how : RelayFailed(u, e, how = "miss")
             \/ handleDataAck(u, e) \/ EarlyAck(u, e)
      PROVE  alloc \subseteq alloc'
  BY <1>2 DEF RelayResponse, DataInvalid, RelayFailed, handleDataAck, EarlyAck, Acked
<1>3. ASSUME NEW u \in Users, NEW r \in Reeds, handlePublishReady(u, r) PROVE alloc' = alloc
  BY <1>3 DEF handlePublishReady
<1>4. ASSUME NEW e \in Events, handleRelayTimeout(e) PROVE alloc' = alloc
  BY <1>4 DEF handleRelayTimeout
<1>5. ASSUME NEW u \in Users, Connect(u) \/ Disconnect(u) \/ Supersede(u) PROVE alloc' = alloc
  BY <1>5 DEF Connect, Disconnect, Supersede
<1>6. CASE Restart
  BY <1>6 DEF Restart
<1>7. ASSUME NEW u \in Users, ClientFrame(u)
      PROVE  \/ alloc \subseteq alloc'
             \/ \E r \in Reeds : requestReed(u, r) \/ handleEviction(u, r)
  BY <1>2, <1>3, <1>7 DEF ClientFrame
<1>8. CASE \E t \in Threads : Run(t)
  BY <1>1, <1>8, FailedLosesOwn
<1>9. CASE \E u \in Users : ClientFrame(u)
  BY <1>7, <1>9, AsksLosesOwn
<1> QED
  BY <1>4, <1>5, <1>6, <1>8, <1>9 DEF Next

\* Only its holder loses a row of reed_allocations: the goroutines of others
\* and of relay timers never take it, though they read the claim before.
THEOREM HoldersLoseTheirOwn == Spec => OnlyHolderLosesRow
<1>1. Init => OwnMisses
  BY EmptySeq DEF Init, OwnMisses
<1>2. Inv /\ OwnMisses /\ [Next]_vars => OwnMisses'
  BY OwnMissesStay
<1>3. Inv /\ OwnMisses /\ [Next]_vars
      => [\A p \in alloc \ alloc' : \A t \in Threads \ {p[2]} : work'[t] = work[t]]_vars
  BY StepLosesOwn
<1> QED
  BY <1>1, <1>2, <1>3, Invariance, PTL DEF Spec, OnlyHolderLosesRow
-----------------------------------------------------------------------------
(* What a device hears of removals (Removals).                             *)

\* What a queue holds when something is added to it or taken from it.
LEMMA QueueIn ==
    ASSUME NEW S, NEW q \in Seq(S)
    PROVE  InQueue(q) \subseteq S /\ (InQueue(q) = {} <=> q = <<>>)
<1>1. Len(q) \in Nat /\ (Len(q) = 0 <=> q = <<>>) /\ \A i \in 1 .. Len(q) : q[i] \in S
  BY LenProperties, ElementOfSeq, EmptySeq
<1> QED
  BY <1>1 DEF InQueue

LEMMA QueueAppend ==
    ASSUME NEW S, NEW q \in Seq(S), NEW x \in S
    PROVE  Append(q, x) \in Seq(S) /\ InQueue(Append(q, x)) = InQueue(q) \cup {x}
<1>1. /\ Append(q, x) \in Seq(S) /\ Len(q) \in Nat /\ Len(Append(q, x)) = Len(q) + 1
      /\ \A i \in 1 .. Len(q) + 1 : Append(q, x)[i] = IF i <= Len(q) THEN q[i] ELSE x
  OBVIOUS
<1> QED
  BY <1>1 DEF InQueue

LEMMA QueueTail ==
    ASSUME NEW S, NEW q \in Seq(S), q # <<>>
    PROVE  /\ Head(q) \in S /\ Tail(q) \in Seq(S)
           /\ Head(q) \in InQueue(q) /\ InQueue(q) = InQueue(Tail(q)) \cup {Head(q)}
<1>1. /\ Head(q) \in S /\ Tail(q) \in Seq(S) /\ Len(Tail(q)) = Len(q) - 1
      /\ \A i \in 1 .. Len(Tail(q)) : Tail(q)[i] = q[i + 1]
  BY HeadTailProperties
<1>2. Len(q) \in Nat \ {0} /\ Head(q) = q[1]
  BY EmptySeq
<1>3. ASSUME NEW x \in InQueue(q) PROVE x \in InQueue(Tail(q)) \cup {Head(q)}
  <2>1. PICK i \in 1 .. Len(q) : x = q[i]
    BY <1>3 DEF InQueue
  <2>2. CASE i = 1
    BY <1>2, <2>1, <2>2
  <2>3. CASE i # 1
    <3>1. i - 1 \in 1 .. Len(Tail(q)) /\ (i - 1) + 1 = i
      BY <1>1, <1>2, <2>3
    <3> QED
      BY <1>1, <2>1, <3>1 DEF InQueue
  <2> QED
    BY <2>2, <2>3
<1>4. ASSUME NEW x \in InQueue(Tail(q)) PROVE x \in InQueue(q)
  <2>1. PICK i \in 1 .. Len(Tail(q)) : x = Tail(q)[i]
    BY <1>4 DEF InQueue
  <2>2. i + 1 \in 1 .. Len(q)
    BY <1>1, <1>2
  <2> QED
    BY <1>1, <2>1, <2>2 DEF InQueue
<1>5. Head(q) \in InQueue(q)
  BY <1>2 DEF InQueue
<1> QED
  BY <1>1, <1>3, <1>4, <1>5

LEMMA QueueConcat ==
    ASSUME NEW S, NEW q \in Seq(S), NEW p \in Seq(S)
    PROVE  q \o p \in Seq(S) /\ InQueue(q \o p) = InQueue(q) \cup InQueue(p)
<1>1. /\ q \o p \in Seq(S) /\ Len(q \o p) = Len(q) + Len(p)
      /\ \A i \in 1 .. Len(q) + Len(p) : (q \o p)[i] = IF i <= Len(q) THEN q[i] ELSE p[i - Len(q)]
  BY ConcatProperties
<1>2. Len(q) \in Nat /\ Len(p) \in Nat
  BY LenProperties
<1>3. ASSUME NEW x \in InQueue(q \o p) PROVE x \in InQueue(q) \cup InQueue(p)
  <2>1. PICK i \in 1 .. Len(q) + Len(p) : x = (q \o p)[i]
    BY <1>1, <1>3 DEF InQueue
  <2>2. CASE i <= Len(q)
    BY <1>1, <1>2, <2>1, <2>2 DEF InQueue
  <2>3. CASE ~(i <= Len(q))
    <3>1. i - Len(q) \in 1 .. Len(p)
      BY <1>2, <2>3
    <3> QED
      BY <1>1, <2>1, <2>3, <3>1 DEF InQueue
  <2> QED
    BY <2>2, <2>3
<1>4. ASSUME NEW x \in InQueue(q) PROVE x \in InQueue(q \o p)
  <2>1. PICK i \in 1 .. Len(q) : x = q[i]
    BY <1>4 DEF InQueue
  <2>2. i \in 1 .. Len(q) + Len(p) /\ (q \o p)[i] = x
    BY <1>1, <1>2, <2>1
  <2> QED
    BY <1>1, <2>2 DEF InQueue
<1>5. ASSUME NEW x \in InQueue(p) PROVE x \in InQueue(q \o p)
  <2>1. PICK i \in 1 .. Len(p) : x = p[i]
    BY <1>5 DEF InQueue
  <2>2. i + Len(q) \in 1 .. Len(q) + Len(p) /\ ~(i + Len(q) <= Len(q)) /\ (i + Len(q)) - Len(q) = i
    BY <1>2
  <2> QED
    BY <1>1, <2>1, <2>2 DEF InQueue
<1> QED
  BY <1>1, <1>3, <1>4, <1>5

LEMMA QueueRemoveAt ==
    ASSUME NEW S, NEW q \in Seq(S), NEW i \in DOMAIN q
    PROVE  /\ q[i] \in InQueue(q) /\ Seqs!RemoveAt(q, i) \in Seq(S)
           /\ InQueue(q) = InQueue(Seqs!RemoveAt(q, i)) \cup {q[i]}
<1> DEFINE before == SubSeq(q, 1, i - 1)
           after == SubSeq(q, i + 1, Len(q))
<1>1. Len(q) \in Nat /\ i \in 1 .. Len(q) /\ \A k \in 1 .. Len(q) : q[k] \in S
  BY LenProperties, ElementOfSeq
<1>2. /\ before \in Seq(S) /\ Len(before) = i - 1
      /\ \A k \in 1 .. i - 1 : before[k] = q[k]
  <2>1. \A k \in 1 .. i - 1 : q[k] \in S
    BY <1>1
  <2>2. /\ before \in Seq(S) /\ Len(before) = IF 1 <= i - 1 THEN (i - 1) - 1 + 1 ELSE 0
        /\ \A k \in 1 .. (i - 1) - 1 + 1 : before[k] = q[1 + k - 1]
    BY <1>1, <2>1, SubSeqProperties
  <2> QED
    BY <1>1, <2>2
<1>3. /\ after \in Seq(S) /\ Len(after) = Len(q) - i
      /\ \A k \in 1 .. Len(q) - i : after[k] = q[i + k]
  <2>1. \A k \in i + 1 .. Len(q) : q[k] \in S
    BY <1>1
  <2>2. /\ after \in Seq(S) /\ Len(after) = IF i + 1 <= Len(q) THEN Len(q) - (i + 1) + 1 ELSE 0
        /\ \A k \in 1 .. Len(q) - (i + 1) + 1 : after[k] = q[(i + 1) + k - 1]
    BY <1>1, <2>1, SubSeqProperties
  <2> QED
    BY <1>1, <2>2
<1> HIDE DEF before, after
<1>4. Seqs!RemoveAt(q, i) = before \o after
  BY DEF Seqs!RemoveAt, before, after
<1>5. before \o after \in Seq(S) /\ InQueue(before \o after) = InQueue(before) \cup InQueue(after)
  BY <1>2, <1>3, QueueConcat
<1>6. InQueue(before) \subseteq InQueue(q) /\ InQueue(after) \subseteq InQueue(q)
  <2>1. ASSUME NEW k \in 1 .. Len(before) PROVE before[k] \in InQueue(q)
    BY <1>1, <1>2 DEF InQueue
  <2>2. ASSUME NEW k \in 1 .. Len(after) PROVE after[k] \in InQueue(q)
    <3>1. i + k \in 1 .. Len(q) /\ after[k] = q[i + k]
      BY <1>1, <1>3
    <3> QED
      BY <3>1 DEF InQueue
  <2> QED
    BY <2>1, <2>2 DEF InQueue
<1>7. ASSUME NEW x \in InQueue(q) PROVE x \in InQueue(before) \cup InQueue(after) \cup {q[i]}
  <2>1. PICK k \in 1 .. Len(q) : x = q[k]
    BY <1>7 DEF InQueue
  <2>2. CASE k < i
    <3>1. k \in 1 .. Len(before) /\ before[k] = x
      BY <1>1, <1>2, <2>1, <2>2
    <3> QED
      BY <3>1 DEF InQueue
  <2>3. CASE k > i
    <3>1. k - i \in 1 .. Len(after) /\ i + (k - i) = k
      BY <1>1, <1>3, <2>3
    <3>2. after[k - i] = x
      BY <1>3, <2>1, <3>1
    <3> QED
      BY <3>1, <3>2 DEF InQueue
  <2>4. CASE k = i
    BY <2>1, <2>4
  <2> QED
    BY <1>1, <2>2, <2>3, <2>4
<1>8. q[i] \in InQueue(q)
  BY <1>1 DEF InQueue
<1> QED
  BY <1>4, <1>5, <1>6, <1>7, <1>8

\* A finite set listed in some order.
LEMMA QueueOfSet ==
    ASSUME NEW S, IsFiniteSet(S)
    PROVE  Seqs!SetToSeq(S) \in Seq(S) /\ InQueue(Seqs!SetToSeq(S)) = S
<1> DEFINE n == Cardinality(S)
           list == Seqs!SetToSeq(S)
<1>c. Seqs!Cardinality(S) = n
  BY DEF Cardinality, Seqs!Cardinality
<1>1. n \in Nat /\ ExistsBijection(1 .. n, S)
  BY FS_CardinalityType
<1>2. PICK b \in Bijection(1 .. n, S) : TRUE
  BY <1>1 DEF ExistsBijection
<1>3. b \in [1 .. n -> S] /\ Seqs!IsInjective(b)
  BY <1>2 DEF Bijection, Injection, IsInjective, Seqs!IsInjective
<1>4. list \in [1 .. n -> S] /\ Seqs!IsInjective(list)
  BY <1>3, <1>c DEF Seqs!SetToSeq
<1> HIDE DEF list
<1>5. list \in Injection(1 .. n, S)
  BY <1>4 DEF Injection, IsInjective, Seqs!IsInjective
<1>6. IsFiniteSet(1 .. n) /\ Cardinality(1 .. n) = n
  BY <1>1, FS_Interval
<1>7. list \in Surjection(1 .. n, S)
  BY <1>5, <1>6, FS_Injection
<1>8. list \in Seq(S) /\ Len(list) = n
  BY <1>1, <1>4
<1> QED
  BY <1>4, <1>7, <1>8 DEF Surjection, InQueue, list
\* News of one copy, of a removal, and what travels on the socket.
Singles == {About("data", {r}) : r \in Copyable}
News == {n \in Notice : n.kind = "account_removed" => n.reeds = Copyable}
Downs == {Told(n) : n \in {m \in News : m.kind # "data" \/ m \in Singles}}
            \cup {Evicted(r) : r \in Copyable}
Acks == {Ack(n) : n \in News}
Ups == Acks \cup {AskFrame(r) : r \in Copyable} \cup {Evict(r) : r \in Copyable}
Sweeps == {<<"reeds", "threads", "accounts">>, <<"threads", "accounts">>, <<"accounts">>, <<>>}

RemovalsShaped ==
    /\ session \in {"off", "on", "synced"}
    /\ tied \in BOOLEAN /\ lostAbroad \in BOOLEAN /\ accountGone \in BOOLEAN
    /\ held \subseteq Copyable /\ kept \subseteq Copyable /\ evictions \subseteq Copyable
    /\ reedsGone \subseteq Copyable /\ threadsGone \subseteq SUBSET Copyable
    /\ waiting \in Seq(Singles) /\ answering \in Seq(News)
    /\ toDevice \in Seq(Downs) /\ toServer \in Seq(Ups)
    /\ spreading \subseteq {n \in News : n.kind # "data"} \X {"listing", "found"}
    /\ finding \in Sweeps

\* A request and an eviction wait for a socket with nothing on it.
AcksFollow == toServer # <<>> => InQueue(Tail(toServer)) \subseteq Acks

\* What a device asks for it had not, and if it has got one since its ack is
\* on its way too; what it evicts is still in its queue of evictions.
HeadStands ==
    toServer # <<>> => \A r \in Copyable :
        /\ Head(toServer) = AskFrame(r) =>
              r \notin due /\ (r \in kept => r \in Coming \cup evictions \cup adrift)
        /\ Head(toServer) = Evict(r) => r \in evictions /\ Evicted(r) \notin InQueue(toDevice)

\* Nothing but evictions goes on before the device has synced.
BeforeSync ==
    /\ session # "synced" => /\ waiting = <<>> /\ answering = <<>> /\ finding = <<>> /\ due = {}
                             /\ \A f \in InQueue(toDevice) : f.is = "evicted"
                             /\ \A f \in InQueue(toServer) : f.is = "evict"
    /\ session = "off" => toDevice = <<>> /\ toServer = <<>>

\* What is due is removed, the device has it, and nothing on its way that is
\* not a removal is about it.
DueStands ==
    /\ due \subseteq kept /\ \A r \in due : ~Alive(r)
    /\ \A n \in Unheard \cup InQueue(waiting) : n.reeds \cap due = {}
    /\ \A f \in InQueue(toDevice) : f.is = "told" /\ f.about.kind = "data" => f.about.reeds \cap due = {}

\* A frame that rids the device of its copy of r.
OnWay(r) == \E f \in InQueue(toDevice) :
                r \in f.about.reeds /\ (f.is = "evicted" \/ (f.is = "told" /\ f.about.kind # "data"))

\* What is due is on its way, or a sweep to come finds it.
StillOwed ==
    \A r \in due :
        /\ r \in reedsGone \ adrift =>
              OnWay(r) \/ (r \in held /\ finding = <<"reeds", "threads", "accounts">>)
        /\ r \in (UNION threadsGone) \ adrift =>
              OnWay(r) \/ (r \in held /\ finding \notin {<<"accounts">>, <<>>})
        /\ \/ r \in RemovedSet \ adrift
           \/ accountGone /\ (OnWay(r) \/ (tied /\ ~lostAbroad /\ finding # <<>>))

RemovalsInv ==
    /\ RemovalsShaped /\ AcksFollow /\ HeadStands /\ BeforeSync /\ DueStands /\ StillOwed
    /\ CopyIsListed

\* Frames and news, each of its kind and about something.
LEMMA FrameShapes ==
    /\ \A n \in Singles : n \in News /\ n.kind = "data" /\ \E r \in Copyable : n.reeds = {r}
    /\ \A r \in Copyable : About("data", {r}) \in Singles /\ About("data", {r}).reeds = {r}
    /\ \A n \in News : n.reeds \subseteq Copyable /\ (n.kind = "account_removed" => n.reeds = Copyable)
    /\ \A n : Told(n).is = "told" /\ Told(n).about = n /\ Ack(n).is = "ack" /\ Ack(n).about = n
    /\ \A n \in News : n.kind # "data" \/ n \in Singles => Told(n) \in Downs
    /\ \A n \in News : Ack(n) \in Acks /\ Ack(n) \in Ups
    /\ \A f \in Downs : /\ f.is = "told" => f.about \in News /\ (f.about.kind # "data" \/ f.about \in Singles)
                        /\ f.is # "told" => f.is = "evicted" /\ \E r \in Copyable : f = Evicted(r)
    /\ \A r \in Copyable : /\ Evicted(r) \in Downs /\ Evicted(r).is = "evicted" /\ Evicted(r).about.reeds = {r}
                           /\ AskFrame(r) \in Ups /\ AskFrame(r).is = "ask" /\ AskFrame(r).about.reeds = {r}
                           /\ Evict(r) \in Ups /\ Evict(r).is = "evict" /\ Evict(r).about.reeds = {r}
                           /\ Frame("evicted", Evict(r).about) = Evicted(r)
    /\ \A f \in Acks : f.is = "ack" /\ f.about \in News
    /\ \A f \in Ups : /\ f.is = "ack" => f \in Acks
                      /\ f.is = "ask" => \E r \in Copyable : f = AskFrame(r)
                      /\ f.is = "evict" => \E r \in Copyable : f = Evict(r)
                      /\ f.is \in {"ack", "ask", "evict"}
<1>1. /\ \A n \in Singles : n \in News /\ n.kind = "data" /\ \E r \in Copyable : n.reeds = {r}
      /\ \A r \in Copyable : About("data", {r}) \in Singles /\ About("data", {r}).reeds = {r}
      /\ \A n \in News : n.reeds \subseteq Copyable /\ (n.kind = "account_removed" => n.reeds = Copyable)
  <2>1. \A r \in Copyable : About("data", {r}) \in Singles /\ About("data", {r}).reeds = {r}
    BY DEF Singles, About
  <2>2. \A r \in Copyable : About("data", {r}) \in News /\ About("data", {r}).kind = "data"
    BY DEF News, Notice, NoticeKinds, About
  <2>3. \A n \in Singles : \E r \in Copyable : n = About("data", {r})
    BY DEF Singles
  <2>4. \A n \in News : n.reeds \subseteq Copyable /\ (n.kind = "account_removed" => n.reeds = Copyable)
    BY DEF News, Notice
  <2> QED
    BY <2>1, <2>2, <2>3, <2>4
<1>2. \A n : Told(n).is = "told" /\ Told(n).about = n /\ Ack(n).is = "ack" /\ Ack(n).about = n
  BY DEF Told, Ack, Frame
<1>3. \A r : /\ Evicted(r).is = "evicted" /\ Evicted(r).about = About("data", {r})
             /\ AskFrame(r).is = "ask" /\ AskFrame(r).about = About("data", {r})
             /\ Evict(r).is = "evict" /\ Evict(r).about = About("data", {r})
             /\ Frame("evicted", Evict(r).about) = Evicted(r)
  BY DEF Evicted, AskFrame, Evict, Frame
<1>4. \A n \in News : Ack(n) \in Acks /\ Ack(n) \in Ups
  BY DEF Acks, Ups
<1>5. \A n \in News : n.kind # "data" \/ n \in Singles => Told(n) \in Downs
  BY DEF Downs
<1>6. \A r \in Copyable : Evicted(r) \in Downs /\ AskFrame(r) \in Ups /\ Evict(r) \in Ups
  BY DEF Downs, Ups
<1>7. \A f \in Acks : f.is = "ack" /\ f.about \in News
  BY <1>2 DEF Acks
<1>8. \A f \in Downs : /\ f.is = "told" => f.about \in News /\ (f.about.kind # "data" \/ f.about \in Singles)
                       /\ f.is # "told" => f.is = "evicted" /\ \E r \in Copyable : f = Evicted(r)
  BY <1>2, <1>3 DEF Downs
<1>9. \A f \in Ups : /\ f.is = "ack" => f \in Acks
                     /\ f.is = "ask" => \E r \in Copyable : f = AskFrame(r)
                     /\ f.is = "evict" => \E r \in Copyable : f = Evict(r)
                     /\ f.is \in {"ack", "ask", "evict"}
  BY <1>3, <1>7 DEF Ups
<1>10. \A r \in Copyable : /\ Evicted(r) \in Downs /\ Evicted(r).is = "evicted" /\ Evicted(r).about.reeds = {r}
                           /\ AskFrame(r) \in Ups /\ AskFrame(r).is = "ask" /\ AskFrame(r).about.reeds = {r}
                           /\ Evict(r) \in Ups /\ Evict(r).is = "evict" /\ Evict(r).about.reeds = {r}
                           /\ Frame("evicted", Evict(r).about) = Evicted(r)
  <2> SUFFICES ASSUME NEW r \in Copyable
               PROVE  /\ Evicted(r) \in Downs /\ Evicted(r).is = "evicted" /\ Evicted(r).about.reeds = {r}
                      /\ AskFrame(r) \in Ups /\ AskFrame(r).is = "ask" /\ AskFrame(r).about.reeds = {r}
                      /\ Evict(r) \in Ups /\ Evict(r).is = "evict" /\ Evict(r).about.reeds = {r}
                      /\ Frame("evicted", Evict(r).about) = Evicted(r)
    OBVIOUS
  <2>1. About("data", {r}).reeds = {r}
    BY <1>1
  <2>2. /\ Evicted(r).is = "evicted" /\ Evicted(r).about = About("data", {r})
        /\ AskFrame(r).is = "ask" /\ AskFrame(r).about = About("data", {r})
        /\ Evict(r).is = "evict" /\ Evict(r).about = About("data", {r})
        /\ Frame("evicted", Evict(r).about) = Evicted(r)
    BY <1>3
  <2> QED
    BY <1>6, <2>1, <2>2
<1> QED
  BY <1>1, <1>2, <1>4, <1>5, <1>7, <1>8, <1>9, <1>10

\* The news whose ack the server has not read, before and after a step.
LEMMA UnheardIs ==
    /\ \A n : n \in Unheard <=> \/ n \in InQueue(answering)
                                \/ \E f \in InQueue(toServer) : f.is = "ack" /\ f.about = n
    /\ \A n : n \in Unheard' <=> \/ n \in InQueue(answering')
                                 \/ \E f \in InQueue(toServer') : f.is = "ack" /\ f.about = n
    /\ \A r : r \in Coming <=> \E n \in Unheard : n.kind = "data" /\ r \in n.reeds
    /\ \A r : r \in Coming' <=> \E n \in Unheard' : n.kind = "data" /\ r \in n.reeds
<1>1. InQueue(answering)' = InQueue(answering') /\ InQueue(toServer)' = InQueue(toServer')
  BY DEF InQueue
<1> QED
  BY <1>1 DEF Unheard, Coming

LEMMA UnheardStays ==
    ASSUME InQueue(answering') = InQueue(answering),
           \A f : f.is = "ack" => (f \in InQueue(toServer') <=> f \in InQueue(toServer))
    PROVE  Unheard' = Unheard /\ Coming' = Coming
<1>1. \A n : n \in Unheard' <=> n \in Unheard
  BY UnheardIs
<1>2. \A r : r \in Coming' <=> r \in Coming
  BY <1>1, UnheardIs
<1>3. Unheard' = Unheard
  BY <1>1 DEF Unheard
<1>4. Coming' = Coming
  BY <1>3 DEF Coming
<1> QED
  BY <1>3, <1>4
LEMMA OnWayStays ==
    ASSUME InQueue(toDevice) \subseteq InQueue(toDevice')
    PROVE  \A r : OnWay(r) => OnWay(r)'
<1>1. InQueue(toDevice)' = InQueue(toDevice')
  BY DEF InQueue
<1> QED
  BY <1>1 DEF OnWay

LEMMA OnWayPopped ==
    ASSUME NEW h, InQueue(toDevice) = InQueue(toDevice') \cup {h}
    PROVE  \A r : OnWay(r) => \/ OnWay(r)'
                              \/ r \in h.about.reeds /\ (h.is = "evicted" \/ (h.is = "told" /\ h.about.kind # "data"))
<1>1. InQueue(toDevice)' = InQueue(toDevice')
  BY DEF InQueue
<1> QED
  BY <1>1 DEF OnWay

LEMMA EmptyQueue == InQueue(<<>>) = {}
  BY DEF InQueue

\* Steps that leave the socket, the rows and what the device has alone.
LEMMA QuietRemovalSteps ==
    ASSUME RemovalsInv,
           \/ OpenSocket \/ DeleteAccount \/ PeerUserRemoved
           \/ \E r \in Copyable : RemoveReed(r) \/ QueueEviction(r)
           \/ \E parts \in SUBSET Copyable : RemoveThread(parts)
           \/ \E s \in spreading : ListRecipients(s) \/ PassOver(s)
    PROVE  RemovalsInv'
<1> USE DEF RemovalsInv
<1>1. UNCHANGED <<tied, held, kept, adrift, due, toDevice, toServer, answering, waiting, finding>>
  BY DEF OpenSocket, DeleteAccount, PeerUserRemoved, RemoveReed, QueueEviction, RemoveThread,
     ListRecipients, PassOver, presence, dbRows, device, certs, events, socket, past
<1>2. Unheard' = Unheard /\ Coming' = Coming
  BY <1>1, UnheardStays
<1>3. InQueue(waiting)' = InQueue(waiting) /\ InQueue(toDevice)' = InQueue(toDevice)
      /\ InQueue(toServer)' = InQueue(toServer)
  BY <1>1 DEF InQueue
<1>4. evictions \subseteq evictions' /\ evictions' \subseteq Copyable
  BY DEF RemovalsShaped, OpenSocket, DeleteAccount, PeerUserRemoved, RemoveReed, QueueEviction,
     RemoveThread, ListRecipients, PassOver, device
<1>5. /\ reedsGone \subseteq reedsGone' /\ reedsGone' \subseteq Copyable
      /\ threadsGone \subseteq threadsGone' /\ threadsGone' \subseteq SUBSET Copyable
      /\ accountGone' \in BOOLEAN /\ (accountGone => accountGone')
      /\ \A r \in reedsGone' \ reedsGone : Alive(r)
      /\ \A t \in threadsGone' \ threadsGone : \A r \in t : Alive(r)
  BY DEF RemovalsShaped, OpenSocket, DeleteAccount, PeerUserRemoved, RemoveReed, QueueEviction,
     RemoveThread, VerifyPeerThreadRemoval, InsertAccountRemoval, ListRecipients, PassOver, certs
<1>6. /\ RemovedSet \subseteq RemovedSet'
      /\ \A r \in due : /\ r \in reedsGone' => r \in reedsGone
                        /\ r \in UNION threadsGone' => r \in UNION threadsGone
  <2>1. RemovedSet \subseteq RemovedSet'
    BY <1>5 DEF RemovedSet
  <2> QED
    BY <1>5, <2>1 DEF DueStands
<1>7. /\ session' \in {"off", "on", "synced"} /\ lostAbroad' \in BOOLEAN
      /\ session' # session => session = "off" /\ session' = "on"
      /\ lostAbroad' # lostAbroad => session = "off"
  BY DEF RemovalsShaped, OpenSocket, DeleteAccount, PeerUserRemoved, RemoveReed, QueueEviction,
     RemoveThread, ListRecipients, PassOver, presence, dbRows
<1>8. spreading' \subseteq {n \in News : n.kind # "data"} \X {"listing", "found"}
  <2>1. \A r \in Copyable : About("reed_removed", {r}) \in News /\ About("reed_removed", {r}).kind # "data"
    BY DEF About, News, Notice, NoticeKinds
  <2>2. \A p \in SUBSET Copyable :
            About("thread_removed", p) \in News /\ About("thread_removed", p).kind # "data"
    BY DEF About, News, Notice, NoticeKinds
  <2>3. About("account_removed", Copyable) \in News /\ About("account_removed", Copyable).kind # "data"
    BY DEF About, News, Notice, NoticeKinds
  <2>4. \A s \in spreading : s = <<s[1], s[2]>> /\ s[1] \in {n \in News : n.kind # "data"}
    BY DEF RemovalsShaped
  <2>5. ASSUME NEW s \in spreading, ListRecipients(s) \/ PassOver(s)
        PROVE  spreading' \subseteq {n \in News : n.kind # "data"} \X {"listing", "found"}
    BY <2>4, <2>5 DEF RemovalsShaped, ListRecipients, PassOver
  <2>6. CASE OpenSocket \/ PeerUserRemoved \/ \E r \in Copyable : QueueEviction(r)
    BY <2>6 DEF RemovalsShaped, OpenSocket, PeerUserRemoved, QueueEviction
  <2>7. CASE DeleteAccount \/ (\E r \in Copyable : RemoveReed(r)) \/ \E p \in SUBSET Copyable : RemoveThread(p)
    <3>1. PICK n \in {m \in News : m.kind # "data"} : spreading' = spreading \cup {<<n, "listing">>}
      BY <2>1, <2>2, <2>3, <2>7 DEF DeleteAccount, RemoveReed, RemoveThread, Spread
    <3> QED
      BY <3>1 DEF RemovalsShaped
  <2> QED
    BY <2>5, <2>6, <2>7
<1>s. RemovalsShaped'
  BY <1>1, <1>4, <1>5, <1>7, <1>8 DEF RemovalsShaped
<1>a. AcksFollow'
  BY <1>1, EmptyQueue DEF AcksFollow, InQueue
<1>h. HeadStands'
  BY <1>1, <1>2, <1>3, <1>4 DEF HeadStands
<1>b. BeforeSync'
  BY <1>1, <1>3, <1>7, EmptyQueue DEF BeforeSync
<1>d. DueStands'
  <2>1. \A r \in due : ~Alive(r)'
    BY <1>5, <1>6 DEF DueStands, Alive
  <2> QED
    BY <1>1, <1>2, <1>3, <2>1 DEF DueStands
<1>o. StillOwed'
  <2>1. \A r : OnWay(r)' <=> OnWay(r)
    BY <1>3 DEF OnWay
  <2>2. CASE lostAbroad' = lostAbroad
    <3> SUFFICES ASSUME NEW r \in due
                 PROVE  /\ r \in reedsGone' \ adrift =>
                              OnWay(r) \/ (r \in held /\ finding = <<"reeds", "threads", "accounts">>)
                        /\ r \in (UNION threadsGone') \ adrift =>
                              OnWay(r) \/ (r \in held /\ finding \notin {<<"accounts">>, <<>>})
                        /\ \/ r \in RemovedSet' \ adrift
                           \/ accountGone' /\ (OnWay(r) \/ (tied /\ ~lostAbroad /\ finding # <<>>))
      BY <1>1, <2>1, <2>2 DEF StillOwed
    <3> QED
      BY <1>5, <1>6 DEF StillOwed
  <2>3. CASE session = "off"
    BY <1>1, <2>3 DEF StillOwed, BeforeSync
  <2> QED
    BY <1>7, <2>2, <2>3
<1>c. CopyIsListed'
  BY <1>1, <1>2, <1>4 DEF CopyIsListed
<1> QED
  BY <1>s, <1>a, <1>h, <1>b, <1>d, <1>o, <1>c

LEMMA UntieKeeps ==
    ASSUME RemovalsInv, Untie
    PROVE  RemovalsInv'
<1> USE DEF RemovalsInv
<1>1. /\ UNCHANGED <<session, lostAbroad, held, kept, evictions, reedsGone, threadsGone, accountGone,
                     adrift, toDevice, toServer, answering, waiting, finding, spreading>>
      /\ session = "synced" /\ tied' = FALSE /\ due' = (due \cap RemovedSet) \ adrift
  BY DEF Untie, presence, device, certs, events, socket
<1>2. Unheard' = Unheard /\ Coming' = Coming
  BY <1>1, UnheardStays
<1>3. InQueue(waiting)' = InQueue(waiting) /\ InQueue(toDevice)' = InQueue(toDevice)
      /\ InQueue(toServer)' = InQueue(toServer)
  BY <1>1 DEF InQueue
<1>4. RemovedSet' = RemovedSet /\ \A r : (Alive(r)' <=> Alive(r)) /\ (OnWay(r)' <=> OnWay(r))
  BY <1>1, <1>3 DEF RemovedSet, Alive, OnWay
<1>s. RemovalsShaped'
  BY <1>1 DEF RemovalsShaped
<1>a. AcksFollow'
  BY <1>1 DEF AcksFollow, InQueue
<1>h. HeadStands'
  BY <1>1, <1>2, <1>3 DEF HeadStands
<1>b. BeforeSync'
  BY <1>1 DEF BeforeSync
<1>d. DueStands'
  <2>1. due' \subseteq due
    BY <1>1
  <2> QED
    BY <1>1, <1>2, <1>3, <1>4, <2>1 DEF DueStands
<1>o. StillOwed'
  BY <1>1, <1>4 DEF StillOwed
<1>c. CopyIsListed'
  BY <1>1, <1>2 DEF CopyIsListed
<1> QED
  BY <1>s, <1>a, <1>h, <1>b, <1>d, <1>o, <1>c

\* A sync finds a socket with nothing but evictions on it: what it owes the
\* device of single reeds and threads is in the rows.
LEMMA SendSyncRequestKeeps ==
    ASSUME RemovalsInv, SendSyncRequest
    PROVE  RemovalsInv'
<1> USE DEF RemovalsInv
<1>1. /\ UNCHANGED <<tied, lostAbroad, held, kept, evictions, reedsGone, threadsGone, accountGone,
                     adrift, toDevice, toServer, answering, waiting, spreading>>
      /\ session = "on" /\ session' = "synced" /\ due' = Owed
      /\ finding' = <<"reeds", "threads", "accounts">>
  BY DEF SendSyncRequest, dbRows, device, certs, events, socket
<1>2. Unheard' = Unheard /\ Coming' = Coming
  BY <1>1, UnheardStays
<1>3. InQueue(waiting)' = InQueue(waiting) /\ InQueue(toDevice)' = InQueue(toDevice)
      /\ InQueue(toServer)' = InQueue(toServer)
  BY <1>1 DEF InQueue
<1>4. RemovedSet' = RemovedSet /\ \A r : (Alive(r)' <=> Alive(r)) /\ (OnWay(r)' <=> OnWay(r))
  BY <1>1, <1>3 DEF RemovedSet, Alive, OnWay
<1>5. Unheard = {} /\ Coming = {}
  <2>1. answering = <<>> /\ \A f \in InQueue(toServer) : f.is # "ack"
    BY <1>1 DEF BeforeSync
  <2>2. \A n : n \notin Unheard
    BY <2>1, UnheardIs, EmptyQueue
  <2> QED
    BY <2>2, UnheardIs DEF Unheard, Coming
<1>6. \A r \in Owed : /\ r \in kept /\ r \notin evictions /\ ~Alive(r)
                      /\ r \notin adrift => r \in held
                      /\ r \in RemovedSet \ adrift \/ (accountGone /\ tied /\ ~lostAbroad)
  <2>1. \A r \in Owed : /\ r \in kept /\ r \notin evictions
                        /\ r \in RemovedSet \ adrift \/ (accountGone /\ tied /\ ~lostAbroad)
    BY DEF Owed
  <2> QED
    BY <1>5, <2>1 DEF Alive, CopyIsListed
<1>s. RemovalsShaped'
  BY <1>1 DEF RemovalsShaped, Sweeps
<1>a. AcksFollow'
  BY <1>1 DEF AcksFollow, InQueue
<1>h. HeadStands'
  <2>1. toServer # <<>> => Head(toServer).is = "evict"
    BY <1>1, QueueTail DEF BeforeSync, RemovalsShaped
  <2>2. \A r \in Copyable : AskFrame(r).is = "ask"
    BY FrameShapes
  <2> QED
    BY <1>1, <1>2, <1>3, <2>1, <2>2 DEF HeadStands
<1>b. BeforeSync'
  BY <1>1 DEF BeforeSync
<1>d. DueStands'
  <2>1. Unheard' \cup InQueue(waiting)' = {}
    BY <1>1, <1>2, <1>3, <1>5, EmptyQueue DEF BeforeSync
  <2>2. \A f \in InQueue(toDevice)' : f.is = "evicted"
    BY <1>1, <1>3 DEF BeforeSync
  <2>3. due' \subseteq kept' /\ \A r \in due' : ~Alive(r)'
    BY <1>1, <1>4, <1>6
  <2> QED
    BY <2>1, <2>2, <2>3 DEF DueStands
<1>o. StillOwed'
  <2>1. finding' # <<"accounts">> /\ finding' # <<>>
    BY <1>1
  <2> QED
    BY <1>1, <1>4, <1>6, <2>1 DEF StillOwed
<1>c. CopyIsListed'
  BY <1>1, <1>2 DEF CopyIsListed
<1> QED
  BY <1>s, <1>a, <1>h, <1>b, <1>d, <1>o, <1>c

LEMMA LoseSocketKeeps ==
    ASSUME RemovalsInv, LoseSocket
    PROVE  RemovalsInv'
<1> USE DEF RemovalsInv
<1>1. /\ UNCHANGED <<tied, lostAbroad, held, kept, evictions, reedsGone, threadsGone, accountGone, spreading>>
      /\ session' = "off" /\ due' = {} /\ adrift' = adrift \cup ((kept \cap Coming) \ held)
      /\ toDevice' = <<>> /\ toServer' = <<>> /\ answering' = <<>> /\ waiting' = <<>> /\ finding' = <<>>
  BY DEF LoseSocket, dbRows, device, certs
<1>2. InQueue(waiting)' = {} /\ InQueue(toDevice)' = {} /\ InQueue(toServer)' = {}
  BY <1>1, EmptyQueue DEF InQueue
<1>s. RemovalsShaped'
  <2>1. finding' \in Sweeps
    BY <1>1 DEF Sweeps
  <2> QED
    BY <1>1, <2>1, EmptySeq DEF RemovalsShaped
<1>a. AcksFollow'
  BY <1>1 DEF AcksFollow
<1>h. HeadStands'
  BY <1>1 DEF HeadStands
<1>b. BeforeSync'
  BY <1>1, <1>2 DEF BeforeSync
<1>d. DueStands'
  BY <1>1, <1>2 DEF DueStands
<1>o. StillOwed'
  BY <1>1 DEF StillOwed
<1>c. CopyIsListed'
  BY <1>1 DEF CopyIsListed
<1> QED
  BY <1>s, <1>a, <1>h, <1>b, <1>d, <1>o, <1>c

\* A request or an eviction goes out on a socket with nothing on it.
LEMMA FirstFrameKeeps ==
    ASSUME RemovalsInv, NEW r \in Copyable, RequestReed(r) \/ FlushEviction(r)
    PROVE  RemovalsInv'
<1> USE DEF RemovalsInv
<1>1. /\ UNCHANGED <<session, tied, lostAbroad, held, kept, evictions, reedsGone, threadsGone, accountGone,
                     spreading, toDevice, answering, waiting, finding, due, adrift>>
      /\ \/ toServer' = Append(toServer, AskFrame(r)) /\ session = "synced" /\ r \notin kept
         \/ toServer' = Append(toServer, Evict(r)) /\ session # "off" /\ r \in evictions
               /\ Evicted(r) \notin InQueue(toDevice)
      /\ Len(toServer) = 0
  BY DEF RequestReed, FlushEviction, presence, dbRows, device, certs, events, past
<1>2. PICK f \in {AskFrame(r), Evict(r)} :
        /\ toServer' = <<f>>
        /\ f = AskFrame(r) => session = "synced" /\ r \notin kept
        /\ f = Evict(r) => session # "off" /\ r \in evictions /\ Evicted(r) \notin InQueue(toDevice)
  <2>1. toServer = <<>>
    BY <1>1, EmptySeq DEF RemovalsShaped
  <2>2. AskFrame(r) # Evict(r)
    BY FrameShapes
  <2> QED
    BY <1>1, <2>1, <2>2
<1>3. f \in Ups /\ f.is \in {"ask", "evict"} /\ (f.is = "ask" => f = AskFrame(r))
  BY FrameShapes
<1>4. /\ toServer' \in Seq(Ups) /\ InQueue(toServer') = {f} /\ Head(toServer') = f /\ Tail(toServer') = <<>>
      /\ InQueue(toServer) = {}
  <2>1. toServer = <<>>
    BY <1>1, EmptySeq DEF RemovalsShaped
  <2> QED
    BY <1>2, <1>3, <2>1 DEF InQueue
<1>5. InQueue(waiting)' = InQueue(waiting) /\ InQueue(toDevice)' = InQueue(toDevice)
      /\ InQueue(toServer)' = InQueue(toServer')
  BY <1>1 DEF InQueue
<1>6. Unheard' = Unheard /\ Coming' = Coming
  <2>1. InQueue(answering') = InQueue(answering)
    BY <1>1
  <2> QED
    BY <1>3, <1>4, <2>1, UnheardStays
<1>7. RemovedSet' = RemovedSet /\ \A x : (Alive(x)' <=> Alive(x)) /\ (OnWay(x)' <=> OnWay(x))
  BY <1>1, <1>5 DEF RemovedSet, Alive, OnWay
<1>s. RemovalsShaped'
  BY <1>1, <1>4 DEF RemovalsShaped
<1>a. AcksFollow'
  <2>1. InQueue(Tail(toServer')) = {}
    BY <1>4, EmptyQueue
  <2>2. InQueue(Tail(toServer))' = InQueue(Tail(toServer'))
    BY DEF InQueue
  <2> QED
    BY <2>1, <2>2 DEF AcksFollow
<1>h. HeadStands'
  <2>1. ASSUME NEW x \in Copyable, f = AskFrame(x) PROVE x = r /\ x \notin kept
    <3>1. AskFrame(x).is = "ask" /\ AskFrame(x).about.reeds = {x} /\ AskFrame(r).about.reeds = {r}
      BY FrameShapes
    <3>2. f = AskFrame(r) /\ x = r
      BY <1>3, <2>1, <3>1
    <3> QED
      BY <1>2, <3>2
  <2>2. ASSUME NEW x \in Copyable, f = Evict(x)
        PROVE  x \in evictions /\ Evicted(x) \notin InQueue(toDevice)
    <3>1. /\ Evict(x).is = "evict" /\ Evict(x).about.reeds = {x} /\ Evict(r).about.reeds = {r}
          /\ AskFrame(r).is = "ask"
      BY FrameShapes
    <3>2. f = Evict(r) /\ x = r
      BY <1>3, <2>2, <3>1
    <3> QED
      BY <1>2, <3>2
  <2>3. due \subseteq kept
    BY DEF DueStands
  <2> QED
    BY <1>1, <1>4, <1>5, <2>1, <2>2, <2>3 DEF HeadStands
<1>b. BeforeSync'
  <2>1. f.is # "evict" => session = "synced"
    BY <1>2, <1>3
  <2>2. session # "off"
    BY <1>2
  <2> QED
    BY <1>1, <1>4, <1>5, <2>1, <2>2 DEF BeforeSync
<1>d. DueStands'
  BY <1>1, <1>5, <1>6, <1>7 DEF DueStands
<1>o. StillOwed'
  BY <1>1, <1>7 DEF StillOwed
<1>c. CopyIsListed'
  BY <1>1, <1>6 DEF CopyIsListed
<1> QED
  BY <1>s, <1>a, <1>h, <1>b, <1>d, <1>o, <1>c

\* What is left on the socket behind a frame the server has read.
LEMMA FrameRead ==
    ASSUME RemovalsInv, toServer # <<>>, toServer' = Tail(toServer)
    PROVE  /\ Head(toServer) \in Ups /\ Head(toServer) \in InQueue(toServer)
           /\ toServer' \in Seq(Ups) /\ InQueue(toServer') \subseteq Acks
           /\ InQueue(toServer) = InQueue(toServer') \cup {Head(toServer)}
           /\ InQueue(toServer)' = InQueue(toServer')
           /\ AcksFollow' /\ HeadStands'
<1> USE DEF RemovalsInv
<1>1. /\ Head(toServer) \in Ups /\ Head(toServer) \in InQueue(toServer) /\ toServer' \in Seq(Ups)
      /\ InQueue(toServer) = InQueue(toServer') \cup {Head(toServer)}
  BY QueueTail DEF RemovalsShaped
<1>2. InQueue(toServer') \subseteq Acks
  BY DEF AcksFollow
<1>3. InQueue(toServer)' = InQueue(toServer')
  BY DEF InQueue
<1>4. ASSUME toServer' # <<>>
      PROVE  InQueue(Tail(toServer')) \subseteq Acks /\ Head(toServer') \in Acks
  BY <1>1, <1>2, <1>4, QueueTail
<1>5. AcksFollow'
  <2>1. toServer' # <<>> => InQueue(Tail(toServer')) \subseteq Acks
    BY <1>4
  <2>2. InQueue(Tail(toServer))' = InQueue(Tail(toServer'))
    BY DEF InQueue
  <2> QED
    BY <2>1, <2>2 DEF AcksFollow
<1>6. HeadStands'
  <2>1. \A x \in Copyable : AskFrame(x) \notin Acks /\ Evict(x) \notin Acks
    BY FrameShapes
  <2> QED
    BY <1>4, <2>1 DEF HeadStands
<1> QED
  BY <1>1, <1>2, <1>3, <1>5, <1>6

\* A request for a reed that is there: whoever asks has no copy.
LEMMA HandleAskKeeps ==
    ASSUME RemovalsInv, HandleAsk
    PROVE  RemovalsInv'
<1> USE DEF RemovalsInv
<1>1. /\ UNCHANGED <<session, tied, lostAbroad, kept, evictions, reedsGone, threadsGone, accountGone,
                     spreading, toDevice, answering, finding, due, adrift>>
      /\ toServer # <<>> /\ Head(toServer).is = "ask" /\ toServer' = Tail(toServer)
  BY DEF HandleAsk, Await, presence, device, certs, past
<1>2. /\ Head(toServer) \in Ups /\ Head(toServer) \in InQueue(toServer)
      /\ toServer' \in Seq(Ups) /\ InQueue(toServer') \subseteq Acks
      /\ InQueue(toServer) = InQueue(toServer') \cup {Head(toServer)}
      /\ InQueue(toServer)' = InQueue(toServer') /\ AcksFollow' /\ HeadStands'
  BY <1>1, FrameRead
<1>3. PICK r \in Copyable : Head(toServer) = AskFrame(r) /\ Head(toServer).about.reeds = {r}
  BY <1>1, <1>2, FrameShapes
<1>4. r \notin due /\ (r \in kept => r \in Coming \cup evictions \cup adrift)
  BY <1>1, <1>3 DEF HeadStands
<1>5. /\ held' \subseteq held /\ held \ {r} \subseteq held' /\ waiting' \in Seq(Singles)
      /\ \/ InQueue(waiting') = InQueue(waiting)
         \/ Alive(r) /\ InQueue(waiting') = InQueue(waiting) \cup {About("data", {r})}
  <2>1. (CHOOSE x \in Head(toServer).about.reeds : TRUE) = r
    BY <1>3
  <2>2. \/ Alive(r) /\ held' = held \ {r} /\ waiting' = Append(waiting, About("data", {r}))
        \/ held' = held /\ waiting' = waiting
    BY <2>1 DEF HandleAsk, Await, events
  <2>3. About("data", {r}) \in Singles /\ waiting \in Seq(Singles)
    BY FrameShapes DEF RemovalsShaped
  <2>4. /\ Append(waiting, About("data", {r})) \in Seq(Singles)
        /\ InQueue(Append(waiting, About("data", {r}))) = InQueue(waiting) \cup {About("data", {r})}
    <3>1. PICK q, n : q = waiting /\ n = About("data", {r})
      OBVIOUS
    <3>2. q \in Seq(Singles) /\ n \in Singles
      BY <2>3, <3>1
    <3>3. Append(q, n) \in Seq(Singles) /\ InQueue(Append(q, n)) = InQueue(q) \cup {n}
      BY <3>2, QueueAppend
    <3> QED
      BY <3>1, <3>3
  <2> QED
    BY <2>2, <2>3, <2>4
<1>6. InQueue(waiting)' = InQueue(waiting') /\ InQueue(toDevice)' = InQueue(toDevice)
  BY <1>1 DEF InQueue
<1>7. Unheard' = Unheard /\ Coming' = Coming
  <2>1. InQueue(answering') = InQueue(answering)
    BY <1>1
  <2>2. \A f : f.is = "ack" => (f \in InQueue(toServer') <=> f \in InQueue(toServer))
    BY <1>1, <1>2
  <2> QED
    BY <2>1, <2>2, UnheardStays
<1>8. RemovedSet' = RemovedSet /\ \A x : (Alive(x)' <=> Alive(x)) /\ (OnWay(x)' <=> OnWay(x))
  BY <1>1, <1>6 DEF RemovedSet, Alive, OnWay
<1>9. session = "synced"
  BY <1>1, <1>2 DEF BeforeSync
<1>s. RemovalsShaped'
  BY <1>1, <1>2, <1>5 DEF RemovalsShaped
<1>b. BeforeSync'
  BY <1>1, <1>9 DEF BeforeSync
<1>d. DueStands'
  <2>1. Alive(r) => {r} \cap due = {}
    BY <1>4
  <2>2. About("data", {r}).reeds = {r}
    BY FrameShapes
  <2>3. \A n \in InQueue(waiting') : n.reeds \cap due = {}
    BY <1>5, <2>1, <2>2 DEF DueStands
  <2> QED
    BY <1>1, <1>6, <1>7, <1>8, <2>3 DEF DueStands
<1>o. StillOwed'
  <2>1. \A x \in due : x \in held => x \in held'
    BY <1>4, <1>5
  <2> QED
    BY <1>1, <1>8, <2>1 DEF StillOwed
<1>c. CopyIsListed'
  BY <1>1, <1>4, <1>5, <1>7 DEF CopyIsListed
<1> QED
  BY <1>2, <1>s, <1>b, <1>d, <1>o, <1>c

\* An eviction drops the row of a copy that the device is about to delete.
LEMMA HandleEvictKeeps ==
    ASSUME RemovalsInv, HandleEvict
    PROVE  RemovalsInv'
<1> USE DEF RemovalsInv
<1>1. /\ UNCHANGED <<session, tied, lostAbroad, kept, evictions, reedsGone, threadsGone, accountGone,
                     spreading, waiting, answering, finding, due, adrift>>
      /\ toServer # <<>> /\ Head(toServer).is = "evict" /\ toServer' = Tail(toServer)
      /\ held' = held \ Head(toServer).about.reeds
      /\ toDevice' = Append(toDevice, Frame("evicted", Head(toServer).about))
  BY DEF HandleEvict, presence, device, certs, events, past
<1>2. /\ Head(toServer) \in Ups /\ Head(toServer) \in InQueue(toServer)
      /\ toServer' \in Seq(Ups) /\ InQueue(toServer') \subseteq Acks
      /\ InQueue(toServer) = InQueue(toServer') \cup {Head(toServer)}
      /\ InQueue(toServer)' = InQueue(toServer') /\ AcksFollow' /\ HeadStands'
  BY <1>1, FrameRead
<1>3. PICK r \in Copyable : Head(toServer) = Evict(r)
  BY <1>1, <1>2, FrameShapes
<1>4. r \in evictions
  BY <1>1, <1>3 DEF HeadStands
<1>5. /\ held' = held \ {r} /\ toDevice' = Append(toDevice, Evicted(r))
      /\ Evicted(r) \in Downs /\ Evicted(r).is = "evicted" /\ Evicted(r).about.reeds = {r}
  BY <1>1, <1>3, FrameShapes
<1>6. toDevice' \in Seq(Downs) /\ InQueue(toDevice') = InQueue(toDevice) \cup {Evicted(r)}
  BY <1>5, QueueAppend DEF RemovalsShaped
<1>7. InQueue(waiting)' = InQueue(waiting) /\ InQueue(toDevice)' = InQueue(toDevice')
  BY <1>1 DEF InQueue
<1>8. Unheard' = Unheard /\ Coming' = Coming
  <2>1. InQueue(answering') = InQueue(answering)
    BY <1>1
  <2>2. \A f : f.is = "ack" => (f \in InQueue(toServer') <=> f \in InQueue(toServer))
    BY <1>1, <1>2
  <2> QED
    BY <2>1, <2>2, UnheardStays
<1>9. /\ RemovedSet' = RemovedSet /\ \A x : Alive(x)' <=> Alive(x)
      /\ \A x : OnWay(x) => OnWay(x)'
      /\ OnWay(r)'
  <2>1. RemovedSet' = RemovedSet /\ \A x : Alive(x)' <=> Alive(x)
    BY <1>1 DEF RemovedSet, Alive
  <2>2. \A x : OnWay(x) => OnWay(x)'
    BY <1>6, OnWayStays
  <2>3. OnWay(r)'
    BY <1>5, <1>6, <1>7 DEF OnWay
  <2> QED
    BY <2>1, <2>2, <2>3
<1>10. session # "off" /\ \A f \in InQueue(toServer') : f \in InQueue(toServer)
  BY <1>1, <1>2 DEF BeforeSync
<1>s. RemovalsShaped'
  BY <1>1, <1>2, <1>5, <1>6 DEF RemovalsShaped
<1>b. BeforeSync'
  BY <1>1, <1>2, <1>5, <1>6, <1>7, <1>10 DEF BeforeSync
<1>d. DueStands'
  <2>1. \A f \in InQueue(toDevice') : f.is = "told" => f \in InQueue(toDevice)
    BY <1>5, <1>6
  <2> QED
    BY <1>1, <1>7, <1>8, <1>9, <2>1 DEF DueStands
<1>o. StillOwed'
  <2>1. \A x \in due : x \in held => x \in held' \/ OnWay(x)'
    BY <1>5, <1>9
  <2> QED
    BY <1>1, <1>9, <2>1 DEF StillOwed
<1>c. CopyIsListed'
  BY <1>1, <1>4, <1>5, <1>8 DEF CopyIsListed
<1> QED
  BY <1>2, <1>s, <1>b, <1>d, <1>o, <1>c

\* A copy is offered, or relayed once there is one, of a reed not removed.
LEMMA OfferReedKeeps ==
    ASSUME RemovalsInv, NEW r \in Copyable, OfferReed(r)
    PROVE  RemovalsInv'
<1> USE DEF RemovalsInv
<1>1. /\ UNCHANGED <<session, tied, lostAbroad, held, kept, evictions, reedsGone, threadsGone, accountGone,
                     spreading, toDevice, toServer, answering, finding, due, adrift>>
      /\ session = "synced" /\ Alive(r) /\ waiting' = Append(waiting, About("data", {r}))
  BY DEF OfferReed, Await, presence, dbRows, device, certs, socket, past
<1>2. About("data", {r}) \in Singles /\ About("data", {r}).reeds = {r}
  BY FrameShapes
<1>3. waiting' \in Seq(Singles) /\ InQueue(waiting') = InQueue(waiting) \cup {About("data", {r})}
  <2>1. /\ Append(waiting, About("data", {r})) \in Seq(Singles)
        /\ InQueue(Append(waiting, About("data", {r}))) = InQueue(waiting) \cup {About("data", {r})}
    <3>1. PICK q, n : q = waiting /\ n = About("data", {r})
      OBVIOUS
    <3>2. q \in Seq(Singles) /\ n \in Singles
      BY <1>2, <3>1 DEF RemovalsShaped
    <3>3. Append(q, n) \in Seq(Singles) /\ InQueue(Append(q, n)) = InQueue(q) \cup {n}
      BY <3>2, QueueAppend
    <3> QED
      BY <3>1, <3>3
  <2> QED
    BY <1>1, <2>1
<1>4. InQueue(waiting)' = InQueue(waiting') /\ InQueue(toDevice)' = InQueue(toDevice)
      /\ InQueue(toServer)' = InQueue(toServer)
  BY <1>1 DEF InQueue
<1>5. Unheard' = Unheard /\ Coming' = Coming
  BY <1>1, UnheardStays
<1>6. RemovedSet' = RemovedSet /\ \A x : (Alive(x)' <=> Alive(x)) /\ (OnWay(x)' <=> OnWay(x))
  BY <1>1, <1>4 DEF RemovedSet, Alive, OnWay
<1>s. RemovalsShaped'
  BY <1>1, <1>3 DEF RemovalsShaped
<1>a. AcksFollow'
  BY <1>1 DEF AcksFollow, InQueue
<1>h. HeadStands'
  BY <1>1, <1>4, <1>5 DEF HeadStands
<1>b. BeforeSync'
  BY <1>1 DEF BeforeSync
<1>d. DueStands'
  <2>1. \A n \in InQueue(waiting') : n.reeds \cap due = {}
    BY <1>1, <1>2, <1>3 DEF DueStands
  <2> QED
    BY <1>1, <1>4, <1>5, <1>6, <2>1 DEF DueStands
<1>o. StillOwed'
  BY <1>1, <1>6 DEF StillOwed
<1>c. CopyIsListed'
  BY <1>1, <1>5 DEF CopyIsListed
<1> QED
  BY <1>s, <1>a, <1>h, <1>b, <1>d, <1>o, <1>c

LEMMA RelayedKeeps ==
    ASSUME RemovalsInv, NEW i, Relayed(i)
    PROVE  RemovalsInv'
<1> USE DEF RemovalsInv
<1>1. /\ UNCHANGED <<session, tied, lostAbroad, held, kept, evictions, reedsGone, threadsGone, accountGone,
                     spreading, toServer, answering, finding, due, adrift>>
      /\ i \in DOMAIN waiting /\ waiting' = Seqs!RemoveAt(waiting, i)
      /\ toDevice' = Append(toDevice, Told(waiting[i]))
  BY DEF Relayed, presence, dbRows, device, certs, past
<1>2. /\ waiting[i] \in InQueue(waiting) /\ waiting' \in Seq(Singles)
      /\ InQueue(waiting') \subseteq InQueue(waiting)
  BY <1>1, QueueRemoveAt DEF RemovalsShaped
<1>3. waiting[i] \in Singles
  BY <1>2, QueueIn DEF RemovalsShaped
<1>4. /\ Told(waiting[i]) \in Downs /\ Told(waiting[i]).is = "told" /\ Told(waiting[i]).about = waiting[i]
  BY <1>3, FrameShapes
<1>5. toDevice' \in Seq(Downs) /\ InQueue(toDevice') = InQueue(toDevice) \cup {Told(waiting[i])}
  BY <1>1, <1>4, QueueAppend DEF RemovalsShaped
<1>6. InQueue(waiting)' = InQueue(waiting') /\ InQueue(toDevice)' = InQueue(toDevice')
      /\ InQueue(toServer)' = InQueue(toServer)
  BY <1>1 DEF InQueue
<1>7. Unheard' = Unheard /\ Coming' = Coming
  BY <1>1, UnheardStays
<1>8. /\ RemovedSet' = RemovedSet /\ \A x : Alive(x)' <=> Alive(x)
      /\ \A x : OnWay(x) => OnWay(x)'
  BY <1>1, <1>5, OnWayStays DEF RemovedSet, Alive
<1>9. session = "synced"
  BY <1>2, EmptyQueue DEF BeforeSync, RemovalsShaped
<1>s. RemovalsShaped'
  BY <1>1, <1>2, <1>5 DEF RemovalsShaped
<1>a. AcksFollow'
  BY <1>1 DEF AcksFollow, InQueue
<1>h. HeadStands'
  <2>1. \A r \in Copyable : Evicted(r) \in InQueue(toDevice') => Evicted(r) \in InQueue(toDevice)
    BY <1>4, <1>5, FrameShapes
  <2> QED
    BY <1>1, <1>6, <1>7, <2>1 DEF HeadStands
<1>b. BeforeSync'
  BY <1>1, <1>9 DEF BeforeSync
<1>d. DueStands'
  <2>1. \A f \in InQueue(toDevice') : f.is = "told" /\ f.about.kind = "data" => f.about.reeds \cap due = {}
    BY <1>2, <1>4, <1>5 DEF DueStands
  <2> QED
    BY <1>1, <1>2, <1>6, <1>7, <1>8, <2>1 DEF DueStands
<1>o. StillOwed'
  BY <1>1, <1>8 DEF StillOwed
<1>c. CopyIsListed'
  BY <1>1, <1>7 DEF CopyIsListed
<1> QED
  BY <1>s, <1>a, <1>h, <1>b, <1>d, <1>o, <1>c

\* What the device takes off its socket.
LEMMA FrameTaken ==
    ASSUME RemovalsInv, toDevice # <<>>, toDevice' = Tail(toDevice)
    PROVE  /\ Head(toDevice) \in Downs /\ Head(toDevice) \in InQueue(toDevice) /\ toDevice' \in Seq(Downs)
           /\ InQueue(toDevice) = InQueue(toDevice') \cup {Head(toDevice)}
           /\ InQueue(toDevice)' = InQueue(toDevice')
           /\ session # "off"
<1> USE DEF RemovalsInv
<1>1. /\ Head(toDevice) \in Downs /\ Head(toDevice) \in InQueue(toDevice) /\ toDevice' \in Seq(Downs)
      /\ InQueue(toDevice) = InQueue(toDevice') \cup {Head(toDevice)}
  BY QueueTail DEF RemovalsShaped
<1>2. InQueue(toDevice)' = InQueue(toDevice')
  BY DEF InQueue
<1> QED
  BY <1>1, <1>2 DEF BeforeSync

\* A copy is stored, or a removal is carried out, and an ack is owed.
LEMMA TakeKeeps ==
    ASSUME RemovalsInv, Take
    PROVE  RemovalsInv'
<1> USE DEF RemovalsInv
<1>0. PICK n : n = Head(toDevice).about
  OBVIOUS
<1>1. /\ UNCHANGED <<session, lostAbroad, held, evictions, reedsGone, threadsGone, accountGone,
                     spreading, waiting, toServer, finding, adrift>>
      /\ toDevice # <<>> /\ Head(toDevice).is = "told" /\ toDevice' = Tail(toDevice)
      /\ answering' = Append(answering, n)
      /\ n.kind # "data" => tied' = tied /\ kept' = kept \ n.reeds /\ due' = due \ n.reeds
      /\ n.kind = "data" => kept \subseteq kept' /\ kept' \subseteq kept \cup n.reeds /\ due' = due
      /\ tied' \in {tied, TRUE}
  BY <1>0 DEF Take, presence, certs, events
<1>2. /\ Head(toDevice) \in Downs /\ Head(toDevice) \in InQueue(toDevice) /\ toDevice' \in Seq(Downs)
      /\ InQueue(toDevice) = InQueue(toDevice') \cup {Head(toDevice)}
      /\ InQueue(toDevice)' = InQueue(toDevice') /\ session # "off"
  BY <1>1, FrameTaken
<1>3. n \in News /\ n.reeds \subseteq Copyable
  BY <1>0, <1>1, <1>2, FrameShapes
<1>4. answering' \in Seq(News) /\ InQueue(answering') = InQueue(answering) \cup {n}
  BY <1>1, <1>3, QueueAppend DEF RemovalsShaped
<1>5. /\ InQueue(waiting)' = InQueue(waiting) /\ InQueue(toServer)' = InQueue(toServer)
      /\ InQueue(toServer') = InQueue(toServer)
  BY <1>1 DEF InQueue
<1>6. /\ \A m : m \in Unheard' <=> m \in Unheard \/ m = n
      /\ Coming \subseteq Coming'
      /\ n.kind = "data" => n.reeds \subseteq Coming'
  <2>1. \A m : m \in Unheard' <=> m \in Unheard \/ m = n
    BY <1>4, <1>5, UnheardIs
  <2> QED
    BY <2>1, UnheardIs
<1>7. /\ RemovedSet' = RemovedSet /\ \A x : Alive(x)' <=> Alive(x)
      /\ \A x \in due' : OnWay(x) => OnWay(x)'
  <2>1. \A x : OnWay(x) => \/ OnWay(x)'
                           \/ x \in n.reeds /\ n.kind # "data"
    BY <1>0, <1>1, <1>2, OnWayPopped
  <2> QED
    BY <1>1, <2>1 DEF RemovedSet, Alive
<1>8. due' \subseteq due /\ due' \cap n.reeds = {} /\ due' \subseteq kept'
  <2>1. n.kind = "data" => n.reeds \cap due = {}
    BY <1>0, <1>1, <1>2 DEF DueStands
  <2> QED
    BY <1>1, <2>1 DEF DueStands
<1>9. session = "synced"
  BY <1>1, <1>2 DEF BeforeSync
<1>s. RemovalsShaped'
  <2>1. kept' \subseteq Copyable /\ tied' \in BOOLEAN
    BY <1>1, <1>3 DEF RemovalsShaped
  <2> QED
    BY <1>1, <1>2, <1>4, <2>1 DEF RemovalsShaped
<1>a. AcksFollow'
  BY <1>1 DEF AcksFollow, InQueue
<1>h. HeadStands'
  <2>1. \A r \in kept' : r \in kept \/ r \in Coming'
    BY <1>1, <1>6
  <2>2. \A f : f \in InQueue(toDevice') => f \in InQueue(toDevice)
    BY <1>2
  <2> QED
    BY <1>1, <1>2, <1>6, <1>8, <2>1, <2>2 DEF HeadStands
<1>b. BeforeSync'
  BY <1>1, <1>9 DEF BeforeSync
<1>d. DueStands'
  <2>1. \A f \in InQueue(toDevice') : f \in InQueue(toDevice)
    BY <1>2
  <2>2. \A m \in Unheard' \cup InQueue(waiting)' : m.reeds \cap due' = {}
    BY <1>5, <1>6, <1>8 DEF DueStands
  <2> QED
    BY <1>2, <1>7, <1>8, <2>1, <2>2 DEF DueStands
<1>o. StillOwed'
  <2>1. tied => tied'
    BY <1>1
  <2>2. ASSUME NEW r \in due'
        PROVE  /\ r \in reedsGone \ adrift =>
                     OnWay(r)' \/ (r \in held /\ finding = <<"reeds", "threads", "accounts">>)
               /\ r \in (UNION threadsGone) \ adrift =>
                     OnWay(r)' \/ (r \in held /\ finding \notin {<<"accounts">>, <<>>})
               /\ \/ r \in RemovedSet \ adrift
                  \/ accountGone /\ (OnWay(r)' \/ (tied' /\ ~lostAbroad /\ finding # <<>>))
    BY <1>7, <1>8, <2>1 DEF StillOwed
  <2> QED
    BY <1>1, <1>7, <2>2 DEF StillOwed
<1>c. CopyIsListed'
  BY <1>1, <1>6 DEF CopyIsListed
<1> QED
  BY <1>s, <1>a, <1>h, <1>b, <1>d, <1>o, <1>c

LEMMA RefuseKeeps ==
    ASSUME RemovalsInv, Refuse
    PROVE  RemovalsInv'
<1> USE DEF RemovalsInv
<1>0. PICK n : n = Head(toDevice).about
  OBVIOUS
<1>1. /\ UNCHANGED <<session, tied, lostAbroad, held, kept, evictions, reedsGone, threadsGone, accountGone,
                     spreading, waiting, answering, toServer, finding, adrift>>
      /\ toDevice # <<>> /\ Head(toDevice).is = "told" /\ toDevice' = Tail(toDevice)
      /\ n.kind # "data" /\ due' = due \ n.reeds
  BY <1>0 DEF Refuse, presence, dbRows, device, certs, events
<1>2. /\ Head(toDevice) \in Downs /\ Head(toDevice) \in InQueue(toDevice) /\ toDevice' \in Seq(Downs)
      /\ InQueue(toDevice) = InQueue(toDevice') \cup {Head(toDevice)}
      /\ InQueue(toDevice)' = InQueue(toDevice') /\ session # "off"
  BY <1>1, FrameTaken
<1>3. Unheard' = Unheard /\ Coming' = Coming
  BY <1>1, UnheardStays
<1>4. InQueue(waiting)' = InQueue(waiting) /\ InQueue(toServer)' = InQueue(toServer)
  BY <1>1 DEF InQueue
<1>5. /\ RemovedSet' = RemovedSet /\ \A x : Alive(x)' <=> Alive(x)
      /\ \A x \in due' : OnWay(x) => OnWay(x)'
  <2>1. \A x : OnWay(x) => OnWay(x)' \/ x \in n.reeds
    BY <1>0, <1>2, OnWayPopped
  <2> QED
    BY <1>1, <2>1 DEF RemovedSet, Alive
<1>6. due' \subseteq due /\ \A f \in InQueue(toDevice') : f \in InQueue(toDevice)
  BY <1>1, <1>2
<1>7. session = "synced"
  BY <1>1, <1>2 DEF BeforeSync
<1>s. RemovalsShaped'
  BY <1>1, <1>2 DEF RemovalsShaped
<1>a. AcksFollow'
  BY <1>1 DEF AcksFollow, InQueue
<1>h. HeadStands'
  BY <1>1, <1>2, <1>3, <1>6 DEF HeadStands
<1>b. BeforeSync'
  BY <1>1, <1>7 DEF BeforeSync
<1>d. DueStands'
  BY <1>1, <1>2, <1>3, <1>4, <1>5, <1>6 DEF DueStands
<1>o. StillOwed'
  BY <1>1, <1>5, <1>6 DEF StillOwed
<1>c. CopyIsListed'
  BY <1>1, <1>3 DEF CopyIsListed
<1> QED
  BY <1>s, <1>a, <1>h, <1>b, <1>d, <1>o, <1>c

LEMMA TakeEvictedKeeps ==
    ASSUME RemovalsInv, TakeEvicted
    PROVE  RemovalsInv'
<1> USE DEF RemovalsInv
<1>1. /\ UNCHANGED <<session, tied, lostAbroad, held, reedsGone, threadsGone, accountGone,
                     spreading, waiting, answering, toServer, finding, adrift>>
      /\ toDevice # <<>> /\ Head(toDevice).is = "evicted" /\ toDevice' = Tail(toDevice)
      /\ kept' = kept \ Head(toDevice).about.reeds /\ evictions' = evictions \ Head(toDevice).about.reeds
      /\ due' = due \ Head(toDevice).about.reeds
  BY DEF TakeEvicted, presence, dbRows, certs, events
<1>2. /\ Head(toDevice) \in Downs /\ Head(toDevice) \in InQueue(toDevice) /\ toDevice' \in Seq(Downs)
      /\ InQueue(toDevice) = InQueue(toDevice') \cup {Head(toDevice)}
      /\ InQueue(toDevice)' = InQueue(toDevice') /\ session # "off"
  BY <1>1, FrameTaken
<1>3. PICK r \in Copyable : Head(toDevice) = Evicted(r) /\ Head(toDevice).about.reeds = {r}
  BY <1>1, <1>2, FrameShapes
<1>4. kept' = kept \ {r} /\ evictions' = evictions \ {r} /\ due' = due \ {r}
  BY <1>1, <1>3
<1>5. Unheard' = Unheard /\ Coming' = Coming
  BY <1>1, UnheardStays
<1>6. InQueue(waiting)' = InQueue(waiting) /\ InQueue(toServer)' = InQueue(toServer)
  BY <1>1 DEF InQueue
<1>7. /\ RemovedSet' = RemovedSet /\ \A x : Alive(x)' <=> Alive(x)
      /\ \A x \in due' : OnWay(x) => OnWay(x)'
  <2>1. \A x : OnWay(x) => OnWay(x)' \/ x \in {r}
    BY <1>2, <1>3, OnWayPopped
  <2> QED
    BY <1>1, <1>4, <2>1 DEF RemovedSet, Alive
<1>8. due' \subseteq due /\ \A f \in InQueue(toDevice') : f \in InQueue(toDevice)
  BY <1>1, <1>2
<1>s. RemovalsShaped'
  BY <1>1, <1>2, <1>4 DEF RemovalsShaped
<1>a. AcksFollow'
  BY <1>1 DEF AcksFollow, InQueue
<1>h. HeadStands'
  <2>1. ASSUME NEW x \in Copyable, toServer # <<>>, Head(toServer) = Evict(x)
        PROVE  x \in evictions' /\ Evicted(x) \notin InQueue(toDevice')
    <3>1. x \in evictions /\ Evicted(x) \notin InQueue(toDevice)
      BY <2>1 DEF HeadStands
    <3>2. x # r
      BY <1>2, <1>3, <3>1
    <3> QED
      BY <1>4, <1>8, <3>1, <3>2
  <2>2. ASSUME NEW x \in Copyable, toServer # <<>>, Head(toServer) = AskFrame(x)
        PROVE  x \notin due' /\ (x \in kept' => x \in Coming \cup evictions' \cup adrift)
    <3>1. x \notin due /\ (x \in kept => x \in Coming \cup evictions \cup adrift)
      BY <2>2 DEF HeadStands
    <3> QED
      BY <1>4, <3>1
  <2> QED
    BY <1>1, <1>2, <1>5, <2>1, <2>2 DEF HeadStands
<1>b. BeforeSync'
  BY <1>1, <1>2, <1>4, <1>6, <1>8 DEF BeforeSync
<1>d. DueStands'
  <2>1. due' \subseteq kept'
    BY <1>4 DEF DueStands
  <2> QED
    BY <1>2, <1>5, <1>6, <1>7, <1>8, <2>1 DEF DueStands
<1>o. StillOwed'
  BY <1>1, <1>7, <1>8 DEF StillOwed
<1>c. CopyIsListed'
  BY <1>1, <1>4, <1>5 DEF CopyIsListed
<1> QED
  BY <1>s, <1>a, <1>h, <1>b, <1>d, <1>o, <1>c

\* The ack of a handler that has finished, in whatever order.
LEMMA SendAckKeeps ==
    ASSUME RemovalsInv, NEW i, SendAck(i)
    PROVE  RemovalsInv'
<1> USE DEF RemovalsInv
<1>1. /\ UNCHANGED <<session, tied, lostAbroad, held, kept, evictions, reedsGone, threadsGone, accountGone,
                     spreading, waiting, toDevice, finding, due, adrift>>
      /\ i \in DOMAIN answering /\ answering' = Seqs!RemoveAt(answering, i)
      /\ toServer' = Append(toServer, Ack(answering[i]))
  BY DEF SendAck, presence, dbRows, device, certs, events, past
<1>2. /\ answering[i] \in InQueue(answering) /\ answering' \in Seq(News)
      /\ InQueue(answering) = InQueue(answering') \cup {answering[i]}
  BY <1>1, QueueRemoveAt DEF RemovalsShaped
<1>3. answering[i] \in News
  BY <1>2, QueueIn DEF RemovalsShaped
<1>4. /\ Ack(answering[i]) \in Ups /\ Ack(answering[i]) \in Acks
      /\ Ack(answering[i]).is = "ack" /\ Ack(answering[i]).about = answering[i]
  BY <1>3, FrameShapes
<1>5. toServer' \in Seq(Ups) /\ InQueue(toServer') = InQueue(toServer) \cup {Ack(answering[i])}
  BY <1>1, <1>4, QueueAppend DEF RemovalsShaped
<1>6. /\ InQueue(waiting)' = InQueue(waiting) /\ InQueue(toDevice)' = InQueue(toDevice)
      /\ InQueue(toServer)' = InQueue(toServer')
  BY <1>1 DEF InQueue
<1>7. Unheard' = Unheard /\ Coming' = Coming
  <2>1. \A n : n \in Unheard' <=> n \in Unheard
    <3>1. ASSUME NEW n
          PROVE  (\E f \in InQueue(toServer') : f.is = "ack" /\ f.about = n)
                 <=> n = answering[i] \/ \E f \in InQueue(toServer) : f.is = "ack" /\ f.about = n
      BY <1>4, <1>5
    <3> QED
      BY <1>2, <3>1, UnheardIs
  <2>2. Unheard' = Unheard
    BY <2>1 DEF Unheard
  <2> QED
    BY <2>2 DEF Coming
<1>8. RemovedSet' = RemovedSet /\ \A x : (Alive(x)' <=> Alive(x)) /\ (OnWay(x)' <=> OnWay(x))
  BY <1>1, <1>6 DEF RemovedSet, Alive, OnWay
<1>9. /\ toServer' # <<>>
      /\ toServer = <<>> => Head(toServer') = Ack(answering[i]) /\ InQueue(Tail(toServer')) = {}
      /\ toServer # <<>> => /\ Head(toServer') = Head(toServer)
                            /\ InQueue(Tail(toServer')) = InQueue(Tail(toServer)) \cup {Ack(answering[i])}
  <2>1. CASE toServer = <<>>
    <3>1. toServer' = <<Ack(answering[i])>>
      BY <1>1, <2>1
    <3> QED
      BY <2>1, <3>1, EmptyQueue
  <2>2. CASE toServer # <<>>
    <3>1. /\ toServer' # <<>> /\ Head(toServer') = Head(toServer)
          /\ Tail(toServer') = Append(Tail(toServer), Ack(answering[i]))
      BY <1>1, <1>4, <2>2 DEF RemovalsShaped
    <3>2. Tail(toServer) \in Seq(Ups)
      BY <2>2, QueueTail DEF RemovalsShaped
    <3>3. PICK rest, news : rest = Tail(toServer) /\ news = Ack(answering[i])
      OBVIOUS
    <3>4. InQueue(Append(rest, news)) = InQueue(rest) \cup {news}
      <4>1. rest \in Seq(Ups) /\ news \in Ups
        BY <1>4, <3>2, <3>3
      <4> QED
        BY <4>1, QueueAppend
    <3> QED
      BY <2>2, <3>1, <3>3, <3>4
  <2> QED
    BY <2>1, <2>2
<1>s. RemovalsShaped'
  BY <1>1, <1>2, <1>5 DEF RemovalsShaped
<1>a. AcksFollow'
  <2>1. InQueue(Tail(toServer')) \subseteq Acks
    BY <1>4, <1>9 DEF AcksFollow
  <2>2. InQueue(Tail(toServer))' = InQueue(Tail(toServer'))
    BY DEF InQueue
  <2> QED
    BY <2>1, <2>2 DEF AcksFollow
<1>h. HeadStands'
  <2>1. \A x \in Copyable : Ack(answering[i]) # AskFrame(x) /\ Ack(answering[i]) # Evict(x)
    BY <1>4, FrameShapes
  <2> QED
    BY <1>1, <1>6, <1>7, <1>9, <2>1 DEF HeadStands
<1>b. BeforeSync'
  <2>1. session = "synced"
    BY <1>2, EmptyQueue DEF BeforeSync, RemovalsShaped
  <2> QED
    BY <1>1, <2>1 DEF BeforeSync
<1>d. DueStands'
  BY <1>1, <1>6, <1>7, <1>8 DEF DueStands
<1>o. StillOwed'
  BY <1>1, <1>8 DEF StillOwed
<1>c. CopyIsListed'
  BY <1>1, <1>7 DEF CopyIsListed
<1> QED
  BY <1>s, <1>a, <1>h, <1>b, <1>d, <1>o, <1>c

\* The frame the server reads is an ack.
LEMMA AckRead ==
    ASSUME RemovalsInv, NEW kinds, TakesAck(kinds),
           UNCHANGED <<session, lostAbroad, kept, evictions, reedsGone, threadsGone, accountGone,
                       waiting, toDevice, answering, finding, spreading>>,
           held' \subseteq Copyable, tied' \in BOOLEAN, due' \subseteq due
    PROVE  /\ AckedFrame \in News /\ AckedFrame.kind \in kinds /\ AckedFrame \in Unheard
           /\ \A n : n \in Unheard <=> n \in Unheard' \/ n = AckedFrame
           /\ \A r : r \in Coming' => r \in Coming
           /\ \A r : r \in Coming => r \in Coming' \/ (AckedFrame.kind = "data" /\ r \in AckedFrame.reeds)
           /\ RemovedSet' = RemovedSet /\ \A r : (Alive(r)' <=> Alive(r)) /\ (OnWay(r)' <=> OnWay(r))
           /\ RemovalsShaped' /\ AcksFollow' /\ HeadStands' /\ BeforeSync' /\ DueStands'
<1> USE DEF RemovalsInv
<1>1. /\ toServer # <<>> /\ Head(toServer).is = "ack" /\ AckedFrame.kind \in kinds
      /\ toServer' = Tail(toServer)
  BY DEF TakesAck
<1>2. /\ Head(toServer) \in Ups /\ Head(toServer) \in InQueue(toServer)
      /\ toServer' \in Seq(Ups) /\ InQueue(toServer') \subseteq Acks
      /\ InQueue(toServer) = InQueue(toServer') \cup {Head(toServer)}
      /\ InQueue(toServer)' = InQueue(toServer') /\ AcksFollow' /\ HeadStands'
  BY <1>1, FrameRead
<1>3. AckedFrame \in News
  BY <1>1, <1>2, FrameShapes DEF AckedFrame
<1>4. /\ InQueue(waiting)' = InQueue(waiting) /\ InQueue(toDevice)' = InQueue(toDevice)
      /\ InQueue(answering') = InQueue(answering)
  BY DEF InQueue
<1>5. \A n : n \in Unheard <=> n \in Unheard' \/ n = AckedFrame
  <2>1. ASSUME NEW n
        PROVE  (\E f \in InQueue(toServer) : f.is = "ack" /\ f.about = n)
               <=> n = AckedFrame \/ \E f \in InQueue(toServer') : f.is = "ack" /\ f.about = n
    BY <1>1, <1>2 DEF AckedFrame
  <2> QED
    BY <1>4, <2>1, UnheardIs
<1>6. /\ \A r : r \in Coming' => r \in Coming
      /\ \A r : r \in Coming => r \in Coming' \/ (AckedFrame.kind = "data" /\ r \in AckedFrame.reeds)
  BY <1>5, UnheardIs
<1>7. RemovedSet' = RemovedSet /\ \A r : (Alive(r)' <=> Alive(r)) /\ (OnWay(r)' <=> OnWay(r))
  BY <1>4 DEF RemovedSet, Alive, OnWay
<1>8. session = "synced"
  BY <1>1, <1>2 DEF BeforeSync
<1>s. RemovalsShaped'
  BY <1>2 DEF RemovalsShaped
<1>b. BeforeSync'
  BY <1>8 DEF BeforeSync
<1>d. DueStands'
  <2>1. \A n \in Unheard' \cup InQueue(waiting)' : n \in Unheard \cup InQueue(waiting)
    BY <1>4, <1>5
  <2>2. due' \subseteq kept' /\ \A r \in due' : ~Alive(r)'
    BY <1>7 DEF DueStands
  <2>3. \A n \in Unheard' \cup InQueue(waiting)' : n.reeds \cap due' = {}
    BY <2>1 DEF DueStands
  <2>4. \A f \in InQueue(toDevice)' : f.is = "told" /\ f.about.kind = "data" => f.about.reeds \cap due' = {}
    BY <1>4 DEF DueStands
  <2> QED
    BY <2>2, <2>3, <2>4 DEF DueStands
<1> QED
  BY <1>1, <1>2, <1>3, <1>5, <1>6, <1>7, <1>s, <1>b, <1>d

\* The row a copy gets when its ack is read.
LEMMA AllocateReedKeeps ==
    ASSUME RemovalsInv, AllocateReed
    PROVE  RemovalsInv'
<1> USE DEF RemovalsInv
<1>1. /\ UNCHANGED <<session, tied, lostAbroad, kept, evictions, reedsGone, threadsGone, accountGone,
                     waiting, toDevice, answering, finding, spreading, due>>
      /\ TakesAck({"data"}) /\ held' = held \cup AckedFrame.reeds /\ adrift' = adrift \ AckedFrame.reeds
  BY DEF AllocateReed, presence, device, certs, events
<1>2. held' \subseteq Copyable /\ tied' \in BOOLEAN /\ due' \subseteq due
  <2>1. toServer # <<>> /\ toServer' = Tail(toServer) /\ Head(toServer).is = "ack"
    BY <1>1 DEF TakesAck
  <2>2. Head(toServer) \in Ups
    BY <2>1, FrameRead
  <2>3. AckedFrame \in News
    BY <2>1, <2>2, FrameShapes DEF AckedFrame
  <2> QED
    BY <1>1, <2>3, FrameShapes DEF RemovalsShaped
<1>3. /\ AckedFrame \in News /\ AckedFrame.kind \in {"data"} /\ AckedFrame \in Unheard
      /\ \A r : r \in Coming => r \in Coming' \/ (AckedFrame.kind = "data" /\ r \in AckedFrame.reeds)
      /\ RemovedSet' = RemovedSet /\ \A r : (Alive(r)' <=> Alive(r)) /\ (OnWay(r)' <=> OnWay(r))
      /\ RemovalsShaped' /\ AcksFollow' /\ HeadStands' /\ BeforeSync' /\ DueStands'
  BY <1>1, <1>2, AckRead
<1>4. AckedFrame.reeds \cap due = {}
  BY <1>3 DEF DueStands
<1>o. StillOwed'
  <2>1. \A r \in due : r \in adrift' <=> r \in adrift
    BY <1>1, <1>4
  <2>2. \A r \in due : r \in held => r \in held'
    BY <1>1
  <2> QED
    BY <1>1, <1>3, <2>1, <2>2 DEF StillOwed
<1>c. CopyIsListed'
  BY <1>1, <1>3 DEF CopyIsListed
<1> QED
  BY <1>3, <1>o, <1>c

\* The rows of a removed reed or thread go when the device has acked.
LEMMA DropAllocationsKeeps ==
    ASSUME RemovalsInv, DropAllocations
    PROVE  RemovalsInv'
<1> USE DEF RemovalsInv
<1>1. /\ UNCHANGED <<session, tied, lostAbroad, kept, evictions, reedsGone, threadsGone, accountGone,
                     waiting, toDevice, answering, finding, spreading>>
      /\ TakesAck({"reed_removed", "thread_removed"}) /\ held' = held \ AckedFrame.reeds
      /\ adrift' = adrift \cup Overtaken(AckedFrame.reeds) /\ due' = due \ adrift'
  BY DEF DropAllocations, presence, device, certs, events
<1>2. held' \subseteq Copyable /\ tied' \in BOOLEAN /\ due' \subseteq due
  BY <1>1 DEF RemovalsShaped
<1>3. /\ AckedFrame \in News /\ AckedFrame.kind \in {"reed_removed", "thread_removed"}
      /\ AckedFrame \in Unheard
      /\ \A r : r \in Coming => r \in Coming' \/ (AckedFrame.kind = "data" /\ r \in AckedFrame.reeds)
      /\ RemovedSet' = RemovedSet /\ \A r : (Alive(r)' <=> Alive(r)) /\ (OnWay(r)' <=> OnWay(r))
      /\ RemovalsShaped' /\ AcksFollow' /\ HeadStands' /\ BeforeSync' /\ DueStands'
  BY <1>1, <1>2, AckRead
<1>4. AckedFrame.reeds \cap due = {}
  BY <1>3 DEF DueStands
<1>5. AckedFrame.kind # "data"
  BY <1>3
<1>o. StillOwed'
  <2>1. \A r \in due' : r \in due /\ r \notin adrift'
    BY <1>1
  <2>2. \A r \in due : r \in held => r \in held'
    BY <1>1, <1>4
  <2>3. \A r : r \in adrift => r \in adrift'
    BY <1>1
  <2> QED
    BY <1>1, <1>3, <2>1, <2>2, <2>3 DEF StillOwed
<1>c. CopyIsListed'
  <2>1. \A r \in kept : r \in AckedFrame.reeds => r \in Coming \/ r \in adrift'
    BY <1>1 DEF Overtaken
  <2> QED
    BY <1>1, <1>3, <1>5, <2>1 DEF CopyIsListed
<1> QED
  BY <1>3, <1>o, <1>c

\* What is acked of a removed account is about every reed of it: nothing is
\* due any more.
LEMMA ClearPeerStateKeeps ==
    ASSUME RemovalsInv, ClearPeerStateForRemovedAccount
    PROVE  RemovalsInv'
<1> USE DEF RemovalsInv
<1>1. /\ UNCHANGED <<session, lostAbroad, kept, evictions, reedsGone, threadsGone, accountGone,
                     waiting, toDevice, answering, finding, spreading>>
      /\ TakesAck({"account_removed"}) /\ held' = {} /\ tied' = FALSE
      /\ adrift' = adrift \cup Overtaken(Copyable) /\ due' = (due \cap RemovedSet) \ adrift'
  BY DEF ClearPeerStateForRemovedAccount, presence, device, certs, events
<1>2. held' \subseteq Copyable /\ tied' \in BOOLEAN /\ due' \subseteq due
  BY <1>1
<1>3. /\ AckedFrame \in News /\ AckedFrame.kind \in {"account_removed"} /\ AckedFrame \in Unheard
      /\ \A r : r \in Coming => r \in Coming' \/ (AckedFrame.kind = "data" /\ r \in AckedFrame.reeds)
      /\ RemovalsShaped' /\ AcksFollow' /\ HeadStands' /\ BeforeSync' /\ DueStands'
  BY <1>1, <1>2, AckRead
<1>4. due = {}
  <2>1. AckedFrame.reeds = Copyable
    BY <1>3, FrameShapes
  <2> QED
    BY <1>3, <2>1 DEF DueStands, RemovalsShaped
<1>o. StillOwed'
  BY <1>1, <1>4 DEF StillOwed
<1>c. CopyIsListed'
  <2>1. \A r \in kept : r \in Coming \/ r \in adrift'
    BY <1>1 DEF Overtaken, RemovalsShaped
  <2> QED
    BY <1>1, <1>3, <2>1 DEF CopyIsListed
<1> QED
  BY <1>3, <1>o, <1>c

\* Removals put on the device's socket.
OfRemovals == {n \in News : n.kind # "data"}

LEMMA ToldAll ==
    ASSUME NEW q \in Seq(Downs), NEW ns \in Seq(OfRemovals)
    PROVE  /\ q \o [i \in 1 .. Len(ns) |-> Told(ns[i])] \in Seq(Downs)
           /\ InQueue(q \o [i \in 1 .. Len(ns) |-> Told(ns[i])]) = InQueue(q) \cup {Told(n) : n \in InQueue(ns)}
<1>1. PICK p : p = [i \in 1 .. Len(ns) |-> Told(ns[i])]
  OBVIOUS
<1>2. Len(ns) \in Nat /\ \A i \in 1 .. Len(ns) : ns[i] \in OfRemovals
  BY LenProperties, ElementOfSeq
<1>3. \A i \in 1 .. Len(ns) : Told(ns[i]) \in Downs
  BY <1>2, FrameShapes DEF OfRemovals
<1>4. p \in Seq(Downs) /\ Len(p) = Len(ns) /\ \A i \in 1 .. Len(ns) : p[i] = Told(ns[i])
  BY <1>1, <1>2, <1>3
<1>5. InQueue(p) = {Told(n) : n \in InQueue(ns)}
  BY <1>4 DEF InQueue
<1>6. q \o p \in Seq(Downs) /\ InQueue(q \o p) = InQueue(q) \cup InQueue(p)
  BY <1>4, QueueConcat
<1> QED
  BY <1>1, <1>5, <1>6

\* The server tells a synced device of removals.
LEMMA TellingKeeps ==
    ASSUME RemovalsInv, NEW ns \in Seq(OfRemovals), Tell(ns), session = "synced",
           UNCHANGED <<session, tied, lostAbroad, held, kept, evictions, reedsGone, threadsGone,
                       accountGone, toServer, answering, due, adrift>>,
           spreading' \subseteq spreading, finding' \in Sweeps
    PROVE  /\ RemovedSet' = RemovedSet
           /\ \A r : OnWay(r) => OnWay(r)'
           /\ \A n \in InQueue(ns) : \A r \in n.reeds : OnWay(r)'
           /\ RemovalsShaped' /\ AcksFollow' /\ HeadStands' /\ BeforeSync' /\ DueStands' /\ CopyIsListed'
<1> USE DEF RemovalsInv
<1>1. toDevice' \in Seq(Downs) /\ InQueue(toDevice') = InQueue(toDevice) \cup {Told(n) : n \in InQueue(ns)}
  <2>1. toDevice \in Seq(Downs)
    BY DEF RemovalsShaped
  <2>2. toDevice' = toDevice \o [i \in 1 .. Len(ns) |-> Told(ns[i])]
    BY DEF Tell
  <2> QED
    BY <2>1, <2>2, ToldAll
<1>2. \A n \in InQueue(ns) : /\ n \in News /\ n.kind # "data"
                             /\ Told(n).is = "told" /\ Told(n).about = n
  BY QueueIn, FrameShapes DEF OfRemovals
<1>3. /\ InQueue(waiting)' = InQueue(waiting) /\ InQueue(toDevice)' = InQueue(toDevice')
      /\ InQueue(toServer)' = InQueue(toServer) /\ waiting' = waiting
  BY DEF InQueue, Tell
<1>4. Unheard' = Unheard /\ Coming' = Coming
  BY UnheardStays
<1>5. RemovedSet' = RemovedSet /\ \A r : Alive(r)' <=> Alive(r)
  BY DEF RemovedSet, Alive
<1>6. \A r : OnWay(r) => OnWay(r)'
  BY <1>1, OnWayStays
<1>7. \A n \in InQueue(ns) : \A r \in n.reeds : OnWay(r)'
  BY <1>1, <1>2, <1>3 DEF OnWay
<1>s. RemovalsShaped'
  BY <1>1, <1>3 DEF RemovalsShaped
<1>a. AcksFollow'
  BY DEF AcksFollow, InQueue
<1>h. HeadStands'
  <2>1. \A x \in Copyable : Evicted(x) \in InQueue(toDevice') => Evicted(x) \in InQueue(toDevice)
    <3>1. \A x \in Copyable : Evicted(x).is = "evicted"
      BY FrameShapes
    <3> QED
      BY <1>1, <1>2, <3>1
  <2> QED
    BY <1>3, <1>4, <2>1 DEF HeadStands
<1>b. BeforeSync'
  BY DEF BeforeSync
<1>d. DueStands'
  <2>1. \A f \in InQueue(toDevice') : f.is = "told" /\ f.about.kind = "data" => f.about.reeds \cap due = {}
    BY <1>1, <1>2 DEF DueStands
  <2> QED
    BY <1>3, <1>4, <1>5, <2>1 DEF DueStands
<1>c. CopyIsListed'
  BY <1>4 DEF CopyIsListed
<1> QED
  BY <1>5, <1>6, <1>7, <1>s, <1>a, <1>h, <1>b, <1>d, <1>c

\* A removal reaches whoever was found to tell.
LEMMA DispatchRemovalToKeeps ==
    ASSUME RemovalsInv, NEW s \in spreading, DispatchRemovalTo(s)
    PROVE  RemovalsInv'
<1> USE DEF RemovalsInv
<1>1. /\ UNCHANGED <<session, tied, lostAbroad, held, kept, evictions, reedsGone, threadsGone, accountGone,
                     toServer, answering, finding, due, adrift>>
      /\ IF session = "synced" THEN Tell(<<s[1]>>) ELSE UNCHANGED <<events, toDevice>>
      /\ spreading' \subseteq spreading
  BY DEF DispatchRemovalTo, presence, dbRows, device, certs, past
<1>2. CASE session = "synced"
  <2>1. PICK n \in OfRemovals : n = s[1]
    BY DEF RemovalsShaped, OfRemovals
  <2>2. <<n>> \in Seq(OfRemovals) /\ Tell(<<n>>)
    BY <1>1, <1>2, <2>1
  <2>3. finding' \in Sweeps
    BY <1>1 DEF RemovalsShaped
  <2>4. /\ RemovedSet' = RemovedSet
        /\ \A r : OnWay(r) => OnWay(r)'
        /\ RemovalsShaped' /\ AcksFollow' /\ HeadStands' /\ BeforeSync' /\ DueStands' /\ CopyIsListed'
    BY <1>1, <1>2, <2>2, <2>3, TellingKeeps
  <2>5. StillOwed'
    BY <1>1, <2>4 DEF StillOwed
  <2> QED
    BY <2>4, <2>5
<1>3. CASE session # "synced"
  <2>1. UNCHANGED <<toDevice, waiting>>
    BY <1>1, <1>3 DEF events
  <2>2. Unheard' = Unheard /\ Coming' = Coming
    BY <1>1, UnheardStays
  <2>3. InQueue(waiting)' = InQueue(waiting) /\ InQueue(toDevice)' = InQueue(toDevice)
        /\ InQueue(toServer)' = InQueue(toServer)
    BY <1>1, <2>1 DEF InQueue
  <2>4. RemovedSet' = RemovedSet /\ \A r : (Alive(r)' <=> Alive(r)) /\ (OnWay(r)' <=> OnWay(r))
    BY <1>1, <2>3 DEF RemovedSet, Alive, OnWay
  <2>s. RemovalsShaped'
    BY <1>1, <2>1 DEF RemovalsShaped
  <2>a. AcksFollow'
    BY <1>1 DEF AcksFollow, InQueue
  <2>h. HeadStands'
    BY <1>1, <2>2, <2>3 DEF HeadStands
  <2>b. BeforeSync'
    BY <1>1, <2>1, <2>3 DEF BeforeSync
  <2>d. DueStands'
    BY <1>1, <2>2, <2>3, <2>4 DEF DueStands
  <2>o. StillOwed'
    BY <1>1, <2>4 DEF StillOwed
  <2>c. CopyIsListed'
    BY <1>1, <2>2 DEF CopyIsListed
  <2> QED
    BY <2>s, <2>a, <2>h, <2>b, <2>d, <2>o, <2>c
<1> QED
  BY <1>2, <1>3

\* There is only so much to tell.
LEMMA NewsAreFinite ==
    ASSUME NEW kind, NEW news, news \subseteq {About(kind, x) : x \in SUBSET Copyable}
    PROVE  IsFiniteSet(news)
<1> DEFINE all == {About(kind, x) : x \in SUBSET Copyable}
           f == [x \in SUBSET Copyable |-> About(kind, x)]
<1>1. IsFiniteSet(SUBSET Copyable)
  BY RemovalsAssumption, FS_SUBSET
<1>2. f \in Surjection(SUBSET Copyable, all)
  <2>1. f \in [SUBSET Copyable -> all] /\ \A t \in all : \E x \in SUBSET Copyable : f[x] = t
    OBVIOUS
  <2> HIDE DEF f, all
  <2> QED
    BY <2>1, Zenon DEF Surjection
<1> HIDE DEF f, all
<1>3. IsFiniteSet(all)
  BY <1>1, <1>2, FS_Surjection
<1> QED
  BY <1>3, FS_Subset DEF all

\* Each sweep of the catch-up puts what it is to find on its way.
LEMMA CatchUpKeeps ==
    ASSUME RemovalsInv, CatchUp
    PROVE  RemovalsInv'
<1> USE DEF RemovalsInv
<1> DEFINE ofReeds == {About("reed_removed", {r}) : r \in MissingRemovals}
           ofThreads == {About("thread_removed", t) : t \in MissingThreads}
           ofAccounts == {About("account_removed", a) : a \in MissingAccounts}
<1>1. /\ UNCHANGED <<session, tied, lostAbroad, held, kept, evictions, reedsGone, threadsGone, accountGone,
                     toServer, answering, spreading, due, adrift>>
      /\ finding # <<>> /\ finding' = Tail(finding)
      /\ Tell(Seqs!SetToSeq(CASE Head(finding) = "reeds" -> ofReeds
                              [] Head(finding) = "threads" -> ofThreads
                              [] Head(finding) = "accounts" -> ofAccounts))
  BY DEF CatchUp, presence, dbRows, device, certs, past
<1>2. session = "synced"
  BY <1>1 DEF BeforeSync
<1>3. IsFiniteSet(ofReeds) /\ ofReeds \subseteq OfRemovals
  <2>1. \A r \in MissingRemovals : {r} \in SUBSET Copyable
    BY DEF MissingRemovals, RemovalsShaped
  <2>2. \A x \in SUBSET Copyable : About("reed_removed", x) \in OfRemovals
    BY DEF About, News, Notice, NoticeKinds, OfRemovals
  <2>3. ofReeds \subseteq {About("reed_removed", x) : x \in SUBSET Copyable}
    BY <2>1
  <2> QED
    BY <2>2, <2>3, NewsAreFinite
<1>4. IsFiniteSet(ofThreads) /\ ofThreads \subseteq OfRemovals
  <2>1. MissingThreads \subseteq SUBSET Copyable
    BY DEF MissingThreads, RemovalsShaped
  <2>2. \A x \in SUBSET Copyable : About("thread_removed", x) \in OfRemovals
    BY DEF About, News, Notice, NoticeKinds, OfRemovals
  <2>3. ofThreads \subseteq {About("thread_removed", x) : x \in SUBSET Copyable}
    BY <2>1
  <2> QED
    BY <2>2, <2>3, NewsAreFinite
<1>5. IsFiniteSet(ofAccounts) /\ ofAccounts \subseteq OfRemovals
  <2>1. MissingAccounts \subseteq {Copyable}
    BY DEF MissingAccounts, LoadAccountCert
  <2>2. About("account_removed", Copyable) \in OfRemovals
    BY DEF About, News, Notice, NoticeKinds, OfRemovals
  <2>3. ofAccounts \subseteq {About("account_removed", x) : x \in SUBSET Copyable} /\ ofAccounts \subseteq OfRemovals
    BY <2>1, <2>2
  <2> QED
    BY <2>3, NewsAreFinite
<1> HIDE DEF ofReeds, ofThreads, ofAccounts
<1>7. ASSUME NEW set, IsFiniteSet(set), set \subseteq OfRemovals, Tell(Seqs!SetToSeq(set)), finding' \in Sweeps
      PROVE  /\ RemovedSet' = RemovedSet
             /\ \A r : OnWay(r) => OnWay(r)'
             /\ \A n \in set : \A r \in n.reeds : OnWay(r)'
             /\ RemovalsShaped' /\ AcksFollow' /\ HeadStands' /\ BeforeSync' /\ DueStands' /\ CopyIsListed'
  <2>1. PICK list : list = Seqs!SetToSeq(set)
    OBVIOUS
  <2>2. list \in Seq(set) /\ InQueue(list) = set
    BY <1>7, <2>1, QueueOfSet
  <2>3. list \in Seq(OfRemovals) /\ Tell(list)
    BY <1>7, <2>1, <2>2
  <2>4. /\ RemovedSet' = RemovedSet
        /\ \A r : OnWay(r) => OnWay(r)'
        /\ \A n \in InQueue(list) : \A r \in n.reeds : OnWay(r)'
        /\ RemovalsShaped' /\ AcksFollow' /\ HeadStands' /\ BeforeSync' /\ DueStands' /\ CopyIsListed'
    BY <1>1, <1>2, <1>7, <2>3, TellingKeeps
  <2> QED
    BY <2>2, <2>4
<1>8. CASE finding = <<"reeds", "threads", "accounts">>
  <2>1. finding' = <<"threads", "accounts">> /\ Tell(Seqs!SetToSeq(ofReeds))
    BY <1>1, <1>8
  <2>2. finding' \in Sweeps /\ finding' # <<>> /\ finding' # <<"accounts">>
    BY <2>1 DEF Sweeps
  <2>3. /\ RemovedSet' = RemovedSet
        /\ \A r : OnWay(r) => OnWay(r)'
        /\ \A n \in ofReeds : \A r \in n.reeds : OnWay(r)'
        /\ RemovalsShaped' /\ AcksFollow' /\ HeadStands' /\ BeforeSync' /\ DueStands' /\ CopyIsListed'
    BY <1>3, <1>7, <2>1, <2>2
  <2>4. \A r \in reedsGone \cap held : OnWay(r)'
    <3>1. \A r \in reedsGone \cap held : About("reed_removed", {r}) \in ofReeds
      BY DEF ofReeds, MissingRemovals
    <3>2. \A r : About("reed_removed", {r}).reeds = {r}
      BY DEF About
    <3> QED
      BY <2>3, <3>1, <3>2
  <2>5. ASSUME NEW r \in due
        PROVE  /\ r \in reedsGone \ adrift => OnWay(r)'
               /\ r \in (UNION threadsGone) \ adrift => OnWay(r)' \/ r \in held
               /\ r \in RemovedSet \ adrift \/ (accountGone /\ (OnWay(r)' \/ (tied /\ ~lostAbroad)))
    BY <2>3, <2>4 DEF StillOwed
  <2>6. StillOwed'
    BY <1>1, <2>2, <2>3, <2>5 DEF StillOwed
  <2> QED
    BY <2>3, <2>6
<1>9. CASE finding = <<"threads", "accounts">>
  <2>1. finding' = <<"accounts">> /\ Tell(Seqs!SetToSeq(ofThreads))
    BY <1>1, <1>9
  <2>2. finding' \in Sweeps /\ finding' # <<>>
    BY <2>1 DEF Sweeps
  <2>3. /\ RemovedSet' = RemovedSet
        /\ \A r : OnWay(r) => OnWay(r)'
        /\ \A n \in ofThreads : \A r \in n.reeds : OnWay(r)'
        /\ RemovalsShaped' /\ AcksFollow' /\ HeadStands' /\ BeforeSync' /\ DueStands' /\ CopyIsListed'
    BY <1>4, <1>7, <2>1, <2>2
  <2>4. \A r \in (UNION threadsGone) \cap held : OnWay(r)'
    <3>1. ASSUME NEW r \in (UNION threadsGone) \cap held PROVE OnWay(r)'
      <4>1. PICK t \in threadsGone : r \in t
        OBVIOUS
      <4>2. About("thread_removed", t) \in ofThreads
        BY <4>1 DEF ofThreads, MissingThreads
      <4>3. About("thread_removed", t).reeds = t
        BY DEF About
      <4> QED
        BY <2>3, <4>1, <4>2, <4>3
    <3> QED
      BY <3>1
  <2>5. ASSUME NEW r \in due
        PROVE  /\ r \in reedsGone \ adrift => OnWay(r)'
               /\ r \in (UNION threadsGone) \ adrift => OnWay(r)'
               /\ r \in RemovedSet \ adrift \/ (accountGone /\ (OnWay(r)' \/ (tied /\ ~lostAbroad)))
    <3>1. finding # <<"reeds", "threads", "accounts">>
      BY <1>9
    <3> QED
      BY <2>3, <2>4, <3>1 DEF StillOwed
  <2>6. StillOwed'
    BY <1>1, <2>2, <2>3, <2>5 DEF StillOwed
  <2> QED
    BY <2>3, <2>6
<1>10. CASE finding = <<"accounts">>
  <2>1. finding' = <<>> /\ Tell(Seqs!SetToSeq(ofAccounts))
    BY <1>1, <1>10
  <2>2. finding' \in Sweeps
    BY <2>1 DEF Sweeps
  <2>3. /\ RemovedSet' = RemovedSet
        /\ \A r : OnWay(r) => OnWay(r)'
        /\ \A n \in ofAccounts : \A r \in n.reeds : OnWay(r)'
        /\ RemovalsShaped' /\ AcksFollow' /\ HeadStands' /\ BeforeSync' /\ DueStands' /\ CopyIsListed'
    BY <1>5, <1>7, <2>1, <2>2
  <2>4. accountGone /\ tied /\ ~lostAbroad => \A r \in Copyable : OnWay(r)'
    <3>1. accountGone /\ tied /\ ~lostAbroad => About("account_removed", Copyable) \in ofAccounts
      BY DEF ofAccounts, MissingAccounts, LoadAccountCert
    <3>2. About("account_removed", Copyable).reeds = Copyable
      BY DEF About
    <3> QED
      BY <2>3, <3>1, <3>2
  <2>5. ASSUME NEW r \in due
        PROVE  /\ r \in reedsGone \ adrift => OnWay(r)'
               /\ r \in (UNION threadsGone) \ adrift => OnWay(r)'
               /\ r \in RemovedSet \ adrift \/ (accountGone /\ OnWay(r)')
    <3>1. finding # <<"reeds", "threads", "accounts">> /\ finding \in {<<"accounts">>, <<>>}
      BY <1>10
    <3>2. r \in Copyable
      BY DEF DueStands, RemovalsShaped
    <3> QED
      BY <2>3, <2>4, <3>1, <3>2 DEF StillOwed
  <2>6. StillOwed'
    BY <1>1, <2>3, <2>5 DEF StillOwed
  <2> QED
    BY <2>3, <2>6
<1> QED
  BY <1>1, <1>8, <1>9, <1>10 DEF RemovalsShaped, Sweeps

\* THEOREM: every copy a device keeps can be called back, by a row or an ack
\* on its way, and what was removed before a sync is off the device once it
\* has heard the catch-up out: whatever is due is on the socket, or one of the
\* sweeps still to come will find it.
THEOREM RemovalsAlwaysHeard == RemovalsSpec => []RemovalsHeard
<1>1. RemovalsInit => RemovalsInv
  <2> SUFFICES ASSUME RemovalsInit PROVE RemovalsInv
    OBVIOUS
  <2> USE DEF RemovalsInit
  <2>1. RemovalsShaped
    BY EmptySeq DEF RemovalsShaped, Sweeps
  <2>2. AcksFollow /\ HeadStands
    BY DEF AcksFollow, HeadStands
  <2>3. BeforeSync
    BY EmptyQueue DEF BeforeSync
  <2>4. DueStands /\ StillOwed
    BY EmptyQueue DEF DueStands, StillOwed
  <2>5. CopyIsListed
    BY DEF CopyIsListed
  <2> QED
    BY <2>1, <2>2, <2>3, <2>4, <2>5 DEF RemovalsInv
<1>2. RemovalsInv /\ [RemovalsNext]_removalVars => RemovalsInv'
  <2> SUFFICES ASSUME RemovalsInv, [RemovalsNext]_removalVars PROVE RemovalsInv'
    OBVIOUS
  <2>1. CASE UNCHANGED removalVars
    <3>1. UNCHANGED <<session, tied, lostAbroad, held, kept, evictions, reedsGone, threadsGone, accountGone,
                      waiting, toDevice, toServer, answering, spreading, finding, due, adrift>>
      BY <2>1 DEF removalVars
    <3>2. RemovalsShaped' /\ AcksFollow'
      BY <3>1 DEF RemovalsInv, RemovalsShaped, AcksFollow, InQueue
    <3>3. HeadStands' /\ CopyIsListed'
      BY <3>1 DEF RemovalsInv, HeadStands, CopyIsListed, Unheard, Coming, InQueue
    <3>4. BeforeSync' /\ DueStands'
      BY <3>1 DEF RemovalsInv, BeforeSync, DueStands, Unheard, InQueue, RemovedSet, Alive
    <3>5. StillOwed'
      BY <3>1 DEF RemovalsInv, StillOwed, InQueue, OnWay, RemovedSet
    <3> QED
      BY <3>2, <3>3, <3>4, <3>5 DEF RemovalsInv
  <2>2. CASE \/ OpenSocket \/ DeleteAccount \/ PeerUserRemoved
             \/ \E r \in Copyable : RemoveReed(r) \/ QueueEviction(r)
             \/ \E parts \in SUBSET Copyable : RemoveThread(parts)
             \/ \E s \in spreading : ListRecipients(s) \/ PassOver(s)
    BY <2>2, QuietRemovalSteps
  <2>3. CASE SendSyncRequest \/ LoseSocket \/ Untie
    BY <2>3, SendSyncRequestKeeps, LoseSocketKeeps, UntieKeeps
  <2>4. ASSUME NEW r \in Copyable, RequestReed(r) \/ OfferReed(r) \/ FlushEviction(r) PROVE RemovalsInv'
    BY <2>4, FirstFrameKeeps, OfferReedKeeps
  <2>5. ASSUME NEW i \in 1 .. MaxNotices, Relayed(i) \/ SendAck(i) PROVE RemovalsInv'
    BY <2>5, RelayedKeeps, SendAckKeeps
  <2>6. CASE HandleAsk \/ HandleEvict \/ Take \/ Refuse \/ TakeEvicted
    BY <2>6, HandleAskKeeps, HandleEvictKeeps, TakeKeeps, RefuseKeeps, TakeEvictedKeeps
  <2>7. CASE AllocateReed \/ DropAllocations \/ ClearPeerStateForRemovedAccount
    BY <2>7, AllocateReedKeeps, DropAllocationsKeeps, ClearPeerStateKeeps
  <2>8. ASSUME NEW s \in spreading, DispatchRemovalTo(s) PROVE RemovalsInv'
    BY <2>8, DispatchRemovalToKeeps
  <2>9. CASE CatchUp
    BY <2>9, CatchUpKeeps
  <2> QED
    BY <2>1, <2>2, <2>3, <2>4, <2>5, <2>6, <2>7, <2>8, <2>9 DEF RemovalsNext
<1>3. RemovalsInv => RemovalsHeard
  <2> SUFFICES ASSUME RemovalsInv, finding = <<>>, toDevice = <<>>, due # {} PROVE FALSE
    BY DEF RemovalsHeard, RemovalsInv, DueIsTold
  <2>1. PICK r \in due : TRUE
    OBVIOUS
  <2>2. ~OnWay(r)
    BY EmptyQueue DEF OnWay
  <2>3. r \notin reedsGone \ adrift /\ r \notin (UNION threadsGone) \ adrift
    BY <2>1, <2>2 DEF RemovalsInv, StillOwed
  <2> QED
    BY <2>1, <2>2, <2>3 DEF RemovalsInv, StillOwed, RemovedSet
<1> QED
  BY <1>1, <1>2, <1>3, PTL DEF RemovalsSpec
============================================================================
