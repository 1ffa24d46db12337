-------------------------- MODULE PeerQueue_proofs --------------------------
(***************************************************************************)
(* Proofs about PeerQueue, for any pairs, requests and drains: the type    *)
(* invariant, OwedOrHeard, that no certificate is forgotten, and           *)
(* AgreeUnlessMuddled, that the servers agree on a pair at rest.           *)
(*                                                                         *)
(* OwedOrHeard is not inductive.  A drain deletes the row it read long     *)
(* before, so the invariant says what a drain may rely on while the row it *)
(* holds is still the pair's (Current): a certificate stored meanwhile     *)
(* was owed and took a new row, was taken by the peer already (Taken), or  *)
(* is gone.  That an answer is about what the drain sent is CallsMatch.    *)
(*                                                                         *)
(* AgreeUnlessMuddled needs to know where certificates of a pair can be,   *)
(* and that calls, in whatever order the peer handles them, bring it       *)
(* nothing newer than this server keeps, the peer has handled, or the one  *)
(* request for the pair is about to store (InStep).                        *)
(***************************************************************************)
EXTENDS PeerQueue, TLAPS

\* The peer has handled the certificate kept for p, or a newer one.
Heard(p) == cert[p] = NoCert \/ heard[p] >= cert[p].at

\* Every call with a caller is the one its caller waits for.
CallsMatch ==
    /\ \A k \in calls :
          /\ k.by \in Handlers => handler[k.by] = [pc |-> "offer", p |-> k.p, cert |-> k.cert]
          /\ k.by \in Drains => /\ drain[k.by].pc = "call"
                                /\ drain[k.by].p = k.p
                                /\ drain[k.by].cert = k.cert
    /\ \A k, l \in calls : k.by = l.by /\ k.by # Nobody => k = l

\* A follow that is not owed was taken by the peer.
Taken(h) ==
    handler[h].pc \in SaveStages /\ ~handler[h].owe => heard[handler[h].p] >= handler[h].cert.at

\* As long as the row a drain read is the pair's, nothing newer was stored that
\* the peer is not about to handle or has handled; and the next row is new.
Current(d) ==
    LET o == drain[d] IN
    /\ o.pc \in {"build", "gone", "call", "refused", "answered"} => o.row < nextRow
    /\ o.pc \in {"gone", "refused", "answered"} /\ queue[o.p] = o.row => Heard(o.p)
    /\ o.pc = "call" /\ queue[o.p] = o.row => Heard(o.p) \/ cert[o.p].at <= o.cert.at

\* What the deliveries rely on.
Delivery ==
    /\ \A p \in Pairs : queue[p] < nextRow
    /\ \A h \in Handlers : Taken(h)
    /\ \A d \in Drains : Current(d)
    /\ OwedOrHeard

\* The inductive invariant.
IInv == TypeOK /\ CallsMatch /\ Delivery

----------------------------------------------------------------------------
(* Shapes.                                                                 *)

\* A request handler at work has a pair and a certificate.
LEMMA HandlerFields ==
    ASSUME NEW o \in Handler \cup {Idle}, o.pc # "idle"
    PROVE  /\ o.pc \in SaveStages \cup {"offer"}
           /\ o.p \in Pairs /\ o.cert \in Cert
           /\ o.pc \in SaveStages => o.owe \in BOOLEAN
  BY DEF Handler, Idle, SaveStages

\* A handler that is storing goes on storing the same.
LEMMA SavingGoesOn ==
    ASSUME NEW o \in Handler \cup {Idle}, o.pc \in SaveStages, NEW pc \in SaveStages
    PROVE  /\ [o EXCEPT !.pc = pc] \in Handler
           /\ [o EXCEPT !.pc = pc].pc = pc
           /\ [o EXCEPT !.pc = pc].p = o.p
           /\ [o EXCEPT !.pc = pc].cert = o.cert
           /\ [o EXCEPT !.pc = pc].owe = o.owe
<1>1. o \in [pc : SaveStages, p : Pairs, cert : Cert, owe : BOOLEAN]
  BY DEF Handler, Idle, SaveStages
<1> QED
  BY <1>1 DEF Handler

\* A drain has what its stage says.
LEMMA DrainFields ==
    ASSUME NEW o \in Drain \cup {Idle}
    PROVE  /\ o.pc \in {"idle", "next", "release", "build", "gone", "call", "refused", "answered", "settled"}
           /\ o.pc \in {"build", "gone", "call", "refused", "answered", "settled"} => o.p \in Pairs
           /\ o.pc \in {"build", "gone", "call", "refused", "answered"} => o.row \in Rows
           /\ o.pc \in {"call", "refused", "answered"} => o.cert \in Cert
  BY DEF Drain, Idle

\* A drain that has its answer keeps its row and certificate.
LEMMA DrainAnswered ==
    ASSUME NEW o \in Drain \cup {Idle}, o.pc \in {"call", "refused"},
           NEW pc \in {"refused", "answered"}
    PROVE  /\ [o EXCEPT !.pc = pc] \in Drain
           /\ [o EXCEPT !.pc = pc].pc = pc
           /\ [o EXCEPT !.pc = pc].p = o.p
           /\ [o EXCEPT !.pc = pc].row = o.row
           /\ [o EXCEPT !.pc = pc].cert = o.cert
<1>1. o \in [pc : {"call", "refused", "answered"}, p : Pairs, row : Rows, cert : Cert]
  BY DEF Drain, Idle
<1> QED
  BY <1>1 DEF Drain

\* Certificates carry a second, and so does the place of none.
LEMMA CertFields ==
    ASSUME NEW c \in Stored
    PROVE  /\ c.at \in 0 .. MaxSecond /\ c.follow \in BOOLEAN
           /\ c # NoCert => c \in Cert /\ c.at \in Seconds
<1>1. CASE c \in Cert
  <2>1. c.at \in Seconds /\ c.follow \in BOOLEAN
    BY <1>1 DEF Cert
  <2> QED
    BY <1>1, <2>1, PeerQueueAssumption DEF Seconds
<1>2. CASE c = NoCert
  BY <1>2, PeerQueueAssumption DEF NoCert
<1> QED
  BY <1>1, <1>2 DEF Stored

\* A certificate is kept as it is or not at all.
LEMMA KeptOrNot ==
    ASSUME NEW c, NEW owed
    PROVE  /\ Kept(c, owed) \in {c, NoCert}
           /\ Kept(c, TRUE) = c
  BY DEF Kept

\* A countersigned certificate is not the absence of one.
LEMMA CertIsOne == \A c \in Cert : c # NoCert /\ c \in Stored
<1>1. \A c \in Cert : c.at # 0
  BY PeerQueueAssumption DEF Cert, Seconds
<1>2. NoCert.at = 0
  BY DEF NoCert
<1> QED
  BY <1>1, <1>2 DEF Stored

\* A call that starts is a call.
LEMMA CallOfIsCall ==
    ASSUME NEW g \in Handlers \cup Drains, NEW p \in Pairs, NEW c \in Cert
    PROVE  /\ CallOf(g, p, c) \in Call
           /\ CallOf(g, p, c).by = g /\ CallOf(g, p, c).p = p /\ CallOf(g, p, c).cert = c
  BY DEF CallOf, Call, SaveStages

\* A call whose caller is gone, or that the peer goes on with, is the same call.
LEMMA CallGoesOn ==
    ASSUME NEW k \in Call
    PROVE  /\ k.by \in Handlers \cup Drains \cup {Nobody} /\ k.p \in Pairs
           /\ k.cert \in Cert
           /\ \A s \in SaveStages :
                 /\ [k EXCEPT !.stage = s] \in Call
                 /\ [k EXCEPT !.stage = s].by = k.by
                 /\ [k EXCEPT !.stage = s].p = k.p
                 /\ [k EXCEPT !.stage = s].cert = k.cert
           /\ [k EXCEPT !.by = Nobody] \in Call
           /\ [k EXCEPT !.by = Nobody].by = Nobody
  BY DEF Call

\* A commit here ends one handler's work; those of its pair that waited for the
\* row go on.
LEMMA SaveEnds ==
    ASSUME TypeOK, NEW h \in Handlers, SaveFollowCert(h)
    PROVE  /\ handler' \in [Handlers -> Handler \cup {Idle}]
           /\ handler'[h] = Idle
           /\ \A g \in Handlers : g # h =>
                 \/ handler'[g] = handler[g]
                 \/ /\ handler[g].pc = "save" /\ handler[g].p = handler[h].p
                    /\ handler'[g].pc = "missed" /\ handler'[g].p = handler[g].p
                    /\ handler'[g].cert = handler[g].cert /\ handler'[g].owe = handler[g].owe
<1> DEFINE o == handler[h]
<1>1. PICK W \in SUBSET {g \in Handlers : /\ cert[o.p] # NoCert
                                          /\ handler[g].pc = "save" /\ handler[g].p = o.p} :
        handler' = [g \in Handlers |-> IF g = h THEN Idle
                                       ELSE IF g \in W THEN [handler[g] EXCEPT !.pc = "missed"]
                                       ELSE handler[g]]
  BY DEF SaveFollowCert
<1>2. ASSUME NEW g \in W
      PROVE  /\ handler[g].pc = "save" /\ handler[g].p = o.p
             /\ [handler[g] EXCEPT !.pc = "missed"] \in Handler
             /\ [handler[g] EXCEPT !.pc = "missed"].pc = "missed"
             /\ [handler[g] EXCEPT !.pc = "missed"].p = handler[g].p
             /\ [handler[g] EXCEPT !.pc = "missed"].cert = handler[g].cert
             /\ [handler[g] EXCEPT !.pc = "missed"].owe = handler[g].owe
  <2>1. handler[g] \in Handler \cup {Idle} /\ handler[g].pc = "save" /\ handler[g].p = o.p
    BY <1>1 DEF TypeOK
  <2>2. "save" \in SaveStages /\ "missed" \in SaveStages
    BY DEF SaveStages
  <2> QED
    BY <2>1, <2>2, SavingGoesOn
<1>3. \A g \in Handlers : handler[g] \in Handler \cup {Idle}
  BY DEF TypeOK
<1> HIDE DEF o
<1>4. handler' \in [Handlers -> Handler \cup {Idle}]
  BY <1>1, <1>2, <1>3
<1>5. handler'[h] = Idle
  BY <1>1
<1>6. ASSUME NEW g \in Handlers, g # h
      PROVE  \/ handler'[g] = handler[g]
             \/ /\ handler[g].pc = "save" /\ handler[g].p = o.p
                /\ handler'[g].pc = "missed" /\ handler'[g].p = handler[g].p
                /\ handler'[g].cert = handler[g].cert /\ handler'[g].owe = handler[g].owe
  <2>1. CASE g \in W
    <3>1. handler'[g] = [handler[g] EXCEPT !.pc = "missed"]
      BY <1>1, <1>6, <2>1
    <3> QED
      BY <1>2, <2>1, <3>1
  <2>2. CASE g \notin W
    BY <1>1, <1>6, <2>2
  <2> QED
    BY <2>1, <2>2
<1> QED
  BY <1>4, <1>5, <1>6 DEF o

\* A commit at the peer ends one call; those of its pair that waited for the
\* row go on.
LEMMA TakeEnds ==
    ASSUME TypeOK, NEW k \in calls, PeerTakes(k)
    PROVE  /\ calls' \subseteq Call
           /\ \A l \in calls' : \E m \in calls \ {k} :
                 /\ l.by = m.by /\ l.p = m.p /\ l.cert = m.cert
           /\ \A l, n \in calls' : l = n \/ \E m, o \in calls \ {k} : m # o /\ l.by = m.by /\ n.by = o.by
<1> DEFINE Missed(l) == [l EXCEPT !.stage = "missed"]
<1>1. PICK W \in SUBSET {l \in calls : there[k.p] # NoCert /\ l.stage = "save" /\ l.p = k.p} :
        calls' = (calls \ (W \cup {k})) \cup {Missed(l) : l \in W}
  BY DEF PeerTakes
<1>2. k.stage # "save"
  BY DEF PeerTakes
<1>3. ASSUME NEW l \in W
      PROVE  /\ l \in calls \ {k} /\ Missed(l) \in Call
             /\ Missed(l).by = l.by /\ Missed(l).p = l.p /\ Missed(l).cert = l.cert
  <2>1. l \in calls /\ l \in Call /\ "missed" \in SaveStages /\ l.stage = "save"
    BY <1>1 DEF TypeOK, SaveStages
  <2> QED
    BY <1>2, <2>1, CallGoesOn
<1> HIDE DEF Missed
<1>4. ASSUME NEW l \in calls'
      PROVE  \E m \in calls \ {k} :
               /\ l.by = m.by /\ l.p = m.p /\ l.cert = m.cert /\ l \in Call
               /\ m \in W => l = Missed(m)
               /\ m \notin W => l = m
  <2>1. CASE l \in calls \ (W \cup {k})
    BY <2>1 DEF TypeOK
  <2>2. CASE l \notin calls \ (W \cup {k})
    <3>1. PICK m \in W : l = Missed(m)
      BY <1>1, <1>4, <2>2
    <3> QED
      BY <1>3, <3>1
  <2> QED
    BY <2>1, <2>2
<1>5. ASSUME NEW l \in calls', NEW n \in calls', l # n
      PROVE  \E m, o \in calls \ {k} : m # o /\ l.by = m.by /\ n.by = o.by
  <2>1. PICK m \in calls \ {k} : l.by = m.by /\ (m \in W => l = Missed(m)) /\ (m \notin W => l = m)
    BY <1>4
  <2>2. PICK o \in calls \ {k} : n.by = o.by /\ (o \in W => n = Missed(o)) /\ (o \notin W => n = o)
    BY <1>4
  <2>3. m # o
    BY <1>5, <2>1, <2>2
  <2> QED
    BY <2>1, <2>2, <2>3
<1> QED
  BY <1>4, <1>5

\* The caller resumed keeps the shape of the goroutines.
LEMMA ResumeType ==
    ASSUME TypeOK, CallsMatch, NEW k \in calls,
           NEW h \in Handler \cup {Idle}, NEW d, Resume(k, h, d),
           k.by \in Drains => d \in Drain
    PROVE  /\ handler' \in [Handlers -> Handler \cup {Idle}]
           /\ drain' \in [Drains -> Drain \cup {Idle}]
  BY DEF TypeOK, Resume

----------------------------------------------------------------------------
(* The type invariant.                                                     *)

\* The handlers' steps keep the shape of everything.
LEMMA HandlerTypes ==
    ASSUME TypeOK, NEW h \in Handlers,
           \/ \E p \in Pairs, follow \in BOOLEAN : signFollow(h, p, follow)
           \/ SaveReads(h) \/ SaveSkips(h) \/ SaveFollowCert(h) \/ Abandon(h)
    PROVE  TypeOK'
<1>0. handler[h] \in Handler \cup {Idle}
  BY DEF TypeOK
<1>1. ASSUME NEW p \in Pairs, NEW follow \in BOOLEAN, signFollow(h, p, follow)
      PROVE  TypeOK'
  <2> DEFINE c == [follow |-> follow, at |-> second]
  <2>1. c \in Cert
    BY DEF TypeOK, Cert
  <2>2. /\ [pc |-> "offer", p |-> p, cert |-> c] \in Handler
        /\ [pc |-> "save", p |-> p, cert |-> c, owe |-> TRUE] \in Handler
    BY <2>1 DEF Handler, SaveStages
  <2>3. handler' \in [Handlers -> Handler \cup {Idle}]
    BY <1>1, <2>2 DEF signFollow, TypeOK
  <2>4. calls' \subseteq Call
    BY <1>1, <2>1, CallOfIsCall DEF signFollow, TypeOK
  <2>5. muddled' \subseteq Pairs
    BY <1>1 DEF signFollow, TypeOK
  <2> QED
    BY <1>1, <2>3, <2>4, <2>5 DEF signFollow, TypeOK, here, peer
<1>2. CASE SaveFollowCert(h)
  <2>1. handler[h].p \in Pairs /\ handler[h].cert \in Cert
    BY <1>0, <1>2, HandlerFields DEF SaveFollowCert
  <2>a. \A owed : Kept(handler[h].cert, owed) \in Stored
    BY <2>1, KeptOrNot DEF Stored
  <2>2. cert' \in [Pairs -> Stored]
    BY <1>2, <2>1, <2>a DEF SaveFollowCert, TypeOK
  <2>3. queue' \in [Pairs -> 0 .. MaxRow] /\ nextRow' \in 1 .. MaxRow + 1
    BY <1>2, <2>1, PeerQueueAssumption DEF SaveFollowCert, Enqueue, Rows, TypeOK
  <2>4. handler' \in [Handlers -> Handler \cup {Idle}]
    BY <1>2, SaveEnds
  <2> QED
    BY <1>2, <2>2, <2>3, <2>4 DEF SaveFollowCert, TypeOK, peer
<1>3. CASE Abandon(h)
  <2>1. handler[h].p \in Pairs
    BY <1>0, <1>3, HandlerFields DEF Abandon, SaveStages
  <2>2. handler' \in [Handlers -> Handler \cup {Idle}]
    BY <1>3 DEF Abandon, TypeOK
  <2> QED
    BY <1>3, <2>1, <2>2 DEF Abandon, TypeOK, here, peer
<1>4. CASE SaveReads(h) \/ SaveSkips(h)
  <2>1. handler[h].pc \in SaveStages
    BY <1>4 DEF SaveReads, SaveSkips, SaveStages
  <2>2. \A s \in SaveStages : [handler[h] EXCEPT !.pc = s] \in Handler
    BY <1>0, <2>1, SavingGoesOn
  <2>3. /\ [handler[h] EXCEPT !.pc = "blind"] \in Handler
        /\ [handler[h] EXCEPT !.pc = "locks"] \in Handler
    BY <2>2 DEF SaveStages
  <2>4. \/ handler' = [handler EXCEPT ![h] = Idle]
        \/ handler' = [handler EXCEPT ![h] = [handler[h] EXCEPT !.pc = "blind"]]
        \/ handler' = [handler EXCEPT ![h] = [handler[h] EXCEPT !.pc = "locks"]]
    BY <1>4 DEF SaveReads, SaveSkips
  <2>5. handler' \in [Handlers -> Handler \cup {Idle}]
    BY <2>3, <2>4 DEF TypeOK
  <2> QED
    BY <1>4, <2>5 DEF SaveReads, SaveSkips, TypeOK, here, peer
<1> QED
  BY <1>1, <1>2, <1>3, <1>4

\* So do the peer's answers and callers that give up.
LEMMA CallTypes ==
    ASSUME TypeOK, CallsMatch, NEW k \in calls,
           \/ PeerPasses(k) \/ PeerReads(k) \/ PeerSkips(k) \/ PeerTakes(k)
           \/ PeerRefuses(k) \/ GiveUp(k)
    PROVE  TypeOK'
<1>0. /\ k \in Call
      /\ k.p \in Pairs /\ k.cert \in Cert
      /\ \A s \in SaveStages : [k EXCEPT !.stage = s] \in Call
      /\ [k EXCEPT !.by = Nobody] \in Call
  BY CallGoesOn DEF TypeOK
<1>1. /\ [pc |-> "save", p |-> k.p, cert |-> k.cert, owe |-> TRUE] \in Handler
      /\ [pc |-> "save", p |-> k.p, cert |-> k.cert, owe |-> FALSE] \in Handler
      /\ [pc |-> "release"] \in Drain
  BY <1>0 DEF Handler, Drain, SaveStages
<1>2. k.by \in Drains => /\ [drain[k.by] EXCEPT !.pc = "answered"] \in Drain
                         /\ [drain[k.by] EXCEPT !.pc = "refused"] \in Drain
  BY DrainAnswered DEF TypeOK, CallsMatch
<1>3. k.cert.at \in Seconds
  BY <1>0 DEF Cert
<1>4. heard[k.p] \in 0 .. MaxSecond /\ Later(heard[k.p], k.cert.at) \in 0 .. MaxSecond
  BY <1>0, <1>3, PeerQueueAssumption DEF Later, TypeOK, Seconds
<1>5. CASE PeerPasses(k) \/ PeerReads(k)
  <2>1. \E s \in SaveStages : calls' = (calls \ {k}) \cup {[k EXCEPT !.stage = s]}
    BY <1>5 DEF PeerPasses, PeerReads, SaveStages
  <2>2. calls' \subseteq Call
    BY <1>0, <2>1 DEF TypeOK
  <2>3. muddled' \subseteq Pairs
    BY <1>0, <1>5 DEF PeerPasses, PeerReads, TypeOK
  <2> QED
    BY <1>5, <2>2, <2>3 DEF PeerPasses, PeerReads, TypeOK, here, peer
<1>6. CASE PeerTakes(k) \/ PeerSkips(k)
  <2>1. /\ handler' \in [Handlers -> Handler \cup {Idle}]
        /\ drain' \in [Drains -> Drain \cup {Idle}]
    BY <1>1, <1>2, <1>6, ResumeType DEF PeerTakes, PeerSkips, PeerAnswers
  <2>a. Kept(k.cert, TRUE) = k.cert /\ k.cert \in Stored /\ k.cert # NoCert
    BY <1>0, KeptOrNot, CertIsOne
  <2>2. there' \in [Pairs -> Stored] /\ unacked' \subseteq {p \in Pairs : there'[p] # NoCert}
    <3>1. CASE PeerTakes(k)
      <4>1. there' = [there EXCEPT ![k.p] = k.cert] /\ unacked' = unacked \cup {k.p}
        BY <2>a, <3>1 DEF PeerTakes
      <4> QED
        BY <1>0, <2>a, <4>1 DEF TypeOK
    <3>2. CASE PeerSkips(k)
      BY <3>2 DEF PeerSkips, TypeOK
    <3> QED
      BY <1>6, <3>1, <3>2
  <2>3. heard' \in [Pairs -> 0 .. MaxSecond]
    <3>1. heard' = [heard EXCEPT ![k.p] = Later(heard[k.p], k.cert.at)]
      BY <1>6 DEF PeerTakes, PeerSkips, PeerAnswers
    <3> QED
      BY <1>0, <1>4, <3>1 DEF TypeOK
  <2>5. muddled' \subseteq Pairs
    BY <1>0, <1>6 DEF PeerTakes, PeerSkips, TypeOK
  <2>4. calls' \subseteq Call
    BY <1>6, TakeEnds DEF PeerSkips, TypeOK
  <2> QED
    BY <1>6, <2>1, <2>2, <2>3, <2>4, <2>5 DEF PeerTakes, PeerSkips, PeerAnswers, TypeOK, here
<1>7. CASE PeerRefuses(k)
  <2>1. /\ handler' \in [Handlers -> Handler \cup {Idle}]
        /\ drain' \in [Drains -> Drain \cup {Idle}]
    BY <1>2, <1>7, ResumeType DEF PeerRefuses
  <2>2. cert' \in [Pairs -> Stored] /\ known' \subseteq blocked
    BY <1>0, <1>7 DEF PeerRefuses, AcceptBlock, TypeOK, Stored
  <2>3. heard' \in [Pairs -> 0 .. MaxSecond] /\ calls' \subseteq Call
    BY <1>0, <1>4, <1>7 DEF PeerRefuses, TypeOK
  <2> QED
    BY <1>7, <2>1, <2>2, <2>3 DEF PeerRefuses, TypeOK, peer
<1>8. CASE GiveUp(k)
  <2>1. /\ handler' \in [Handlers -> Handler \cup {Idle}]
        /\ drain' \in [Drains -> Drain \cup {Idle}]
    BY <1>1, <1>8, ResumeType DEF GiveUp
  <2>2. calls' \subseteq Call
    BY <1>0, <1>8 DEF GiveUp, TypeOK
  <2> QED
    BY <1>8, <2>1, <2>2 DEF GiveUp, TypeOK, here, peer
<1> QED
  BY <1>5, <1>6, <1>7, <1>8

\* So do the drains.
LEMMA DrainTypes ==
    ASSUME TypeOK, NEW d \in Drains, ClaimPeerEvents(d) \/ Works(d)
    PROVE  TypeOK'
<1> DEFINE o == drain[d]
<1>0. o \in Drain \cup {Idle} /\ d \in Handlers \cup Drains
  BY DEF TypeOK
<1>1. /\ [pc |-> "next"] \in Drain
      /\ [pc |-> "release"] \in Drain
  BY DEF Drain
<1>2. CASE ClaimPeerEvents(d)
  BY <1>1, <1>2 DEF ClaimPeerEvents, Go, TypeOK, peer
<1>3. CASE NextPeerEvent(d)
  <2>1. \A p \in Pairs : Oldest(p) => [pc |-> "build", p |-> p, row |-> queue[p]] \in Drain
    BY PeerQueueAssumption DEF Oldest, TypeOK, Drain, Rows
  <2>2. drain' \in [Drains -> Drain \cup {Idle}]
    BY <1>1, <1>3, <2>1 DEF NextPeerEvent, Go, TypeOK
  <2> QED
    BY <1>3, <2>2 DEF NextPeerEvent, TypeOK, here, peer
<1>4. CASE Build(d)
  <2>1. o.p \in Pairs /\ o.row \in Rows
    BY <1>0, <1>4, DrainFields DEF Build
  <2>2. [pc |-> "gone", p |-> o.p, row |-> o.row] \in Drain
    BY <2>1 DEF Drain
  <2>3. CASE cert[o.p] = NoCert
    BY <1>4, <2>2, <2>3 DEF Build, Go, TypeOK, here, peer
  <2>4. CASE cert[o.p] # NoCert
    <3>1. cert[o.p] \in Cert
      BY <2>1, <2>4 DEF TypeOK, Stored
    <3>2. [pc |-> "call", p |-> o.p, row |-> o.row, cert |-> cert[o.p]] \in Drain
      BY <2>1, <3>1 DEF Drain
    <3>3. CallOf(d, o.p, cert[o.p]) \in Call
      BY <1>0, <2>1, <3>1, CallOfIsCall
    <3> QED
      BY <1>4, <2>4, <3>2, <3>3 DEF Build, Go, TypeOK, here, peer
  <2> QED
    BY <2>3, <2>4
<1>5. CASE UndoRefusedFollow(d)
  <2>1. o.p \in Pairs /\ [o EXCEPT !.pc = "answered"] \in Drain
    BY <1>0, <1>5, DrainFields, DrainAnswered DEF UndoRefusedFollow
  <2>2. cert' \in [Pairs -> Stored]
    BY <1>5, <2>1 DEF UndoRefusedFollow, TypeOK, Stored
  <2> QED
    BY <1>5, <2>1, <2>2 DEF UndoRefusedFollow, Go, TypeOK, peer
<1>6. CASE Settle(d)
  <2>1. o.p \in Pairs
    BY <1>0, <1>6, DrainFields DEF Settle
  <2>2. AfterSettle(o) \in Drain
    BY <1>1, <2>1 DEF AfterSettle, Drain
  <2>3. queue' \in [Pairs -> 0 .. MaxRow]
    BY <1>6, <2>1, PeerQueueAssumption DEF Settle, TypeOK
  <2> QED
    BY <1>6, <2>2, <2>3 DEF Settle, Go, TypeOK, peer
<1>7. CASE Settled(d)
  <2>1. o.p \in Pairs
    BY <1>0, <1>7, DrainFields DEF Settled
  <2>2. \A owed : Kept(cert[o.p], owed) \in Stored
    BY <2>1, KeptOrNot DEF TypeOK, Stored
  <2>3. cert' \in [Pairs -> Stored]
    BY <1>7, <2>2 DEF Settled, TypeOK
  <2> QED
    BY <1>1, <1>7, <2>3 DEF Settled, Go, TypeOK, peer
<1>8. CASE ReleasePeerEvents(d)
  BY <1>8 DEF ReleasePeerEvents, Go, TypeOK, peer
<1> QED
  BY <1>2, <1>3, <1>4, <1>5, <1>6, <1>7, <1>8 DEF Works

\* So do crashes, the clock and the peer on its own.
LEMMA OtherTypes ==
    ASSUME TypeOK,
           \/ Tick \/ Crash \/ ClaimExpires
           \/ \E d \in BOOLEAN : SetPeerDown(d)
           \/ \E p \in Pairs : AckFollowEvent(p) \/ InsertBlock(p) \/ BlockNotifyFromPeer(p)
           \/ UNCHANGED vars
    PROVE  TypeOK'
<1>1. CASE Tick
  BY <1>1, PeerQueueAssumption DEF Tick, TypeOK, Seconds, here, peer
<1>2. CASE Crash
  <2>0. \A k \in calls : [k EXCEPT !.by = Nobody] \in Call
    BY CallGoesOn DEF TypeOK
  <2>1. calls' \subseteq Call
    BY <1>2, <2>0 DEF Crash
  <2>2. crashes' \in 0 .. MaxCrashes
    BY <1>2, PeerQueueAssumption DEF Crash, TypeOK
  <2> QED
    BY <1>2, <2>1, <2>2 DEF Crash, TypeOK, here, peer
<1>3. CASE ClaimExpires
  BY <1>3 DEF ClaimExpires, TypeOK, peer
<1>4. ASSUME NEW d \in BOOLEAN, SetPeerDown(d)
      PROVE  TypeOK'
  BY <1>4 DEF SetPeerDown, TypeOK, peer
<1>5. ASSUME NEW p \in Pairs, AckFollowEvent(p)
      PROVE  TypeOK'
  <2>1. \A owed : Kept(there[p], owed) \in Stored
    BY KeptOrNot DEF TypeOK, Stored
  <2>2. there' \in [Pairs -> Stored] /\ unacked' \subseteq {q \in Pairs : there'[q] # NoCert}
    BY <1>5, <2>1 DEF AckFollowEvent, TypeOK
  <2> QED
    BY <1>5, <2>2 DEF AckFollowEvent, TypeOK, here
<1>6. ASSUME NEW p \in Pairs, InsertBlock(p)
      PROVE  TypeOK'
  <2>1. there' \in [Pairs -> Stored] /\ unacked' \subseteq {q \in Pairs : there'[q] # NoCert}
    BY <1>6 DEF InsertBlock, TypeOK, Stored
  <2> QED
    BY <1>6, <2>1 DEF InsertBlock, TypeOK, here
<1>7. ASSUME NEW p \in Pairs, BlockNotifyFromPeer(p)
      PROVE  TypeOK'
  BY <1>7 DEF BlockNotifyFromPeer, AcceptBlock, TypeOK, Stored, peer
<1>8. CASE UNCHANGED vars
  BY <1>8 DEF vars, TypeOK, here, peer
<1> QED
  BY <1>1, <1>2, <1>3, <1>4, <1>5, <1>6, <1>7, <1>8

\* The type invariant of one step.
LEMMA TypeStep ==
    ASSUME TypeOK, CallsMatch, [Next]_vars
    PROVE  TypeOK'
  BY HandlerTypes, CallTypes, DrainTypes, OtherTypes DEF Next

----------------------------------------------------------------------------
(* Calls and their callers.                                                *)

\* Only g moves, and no call of its own is left.
LEMMA CallsLeft ==
    ASSUME CallsMatch, NEW g \in Handlers \cup Drains,
           \A k \in calls' : (k \in calls /\ k.by # g) \/ k.by = Nobody,
           \A h \in Handlers : h # g => handler'[h] = handler[h] \/ handler[h].pc # "offer",
           \A d \in Drains : d # g => drain'[d] = drain[d]
    PROVE  CallsMatch'
<1>1. ASSUME NEW k \in calls', k.by # Nobody
      PROVE  k \in calls /\ k.by # g
  BY <1>1
<1>2. \A k \in calls' : k.by \in Handlers \cup Drains => k.by # Nobody
  BY PeerQueueAssumption
<1>3. ASSUME NEW k \in calls, k.by \in Handlers
      PROVE  handler[k.by].pc = "offer"
  <2>1. handler[k.by] = [pc |-> "offer", p |-> k.p, cert |-> k.cert]
    BY <1>3 DEF CallsMatch
  <2> QED
    BY <2>1
<1> QED
  BY <1>1, <1>2, <1>3 DEF CallsMatch

\* A goroutine with no call moves, and no call starts or ends.
LEMMA CallerMoves ==
    ASSUME CallsMatch, NEW g \in Handlers \cup Drains,
           calls' = calls,
           g \in Handlers => handler[g].pc # "offer",
           g \in Drains => drain[g].pc # "call",
           \A h \in Handlers : h # g => handler'[h] = handler[h] \/ handler[h].pc # "offer",
           \A d \in Drains : d # g => drain'[d] = drain[d]
    PROVE  CallsMatch'
<1>1. ASSUME NEW k \in calls, k.by = g
      PROVE  FALSE
  <2>1. CASE g \in Handlers
    <3>1. handler[g] = [pc |-> "offer", p |-> k.p, cert |-> k.cert]
      BY <1>1, <2>1 DEF CallsMatch
    <3> QED
      BY <2>1, <3>1
  <2>2. CASE g \in Drains
    BY <1>1, <2>2 DEF CallsMatch
  <2> QED
    BY <2>1, <2>2
<1> QED
  BY <1>1, CallsLeft

\* A goroutine with no call starts one.
LEMMA CallStarts ==
    ASSUME CallsMatch, NEW g \in Handlers \cup Drains, NEW p \in Pairs, NEW c \in Cert,
           calls' = calls \cup {CallOf(g, p, c)},
           g \in Handlers => handler[g].pc # "offer" /\ handler'[g] = [pc |-> "offer", p |-> p, cert |-> c],
           g \in Drains => drain[g].pc # "call" /\ drain'[g].pc = "call" /\ drain'[g].p = p /\ drain'[g].cert = c,
           \A h \in Handlers : h # g => handler'[h] = handler[h],
           \A d \in Drains : d # g => drain'[d] = drain[d]
    PROVE  CallsMatch'
<1>1. ASSUME NEW k \in calls, k.by = g
      PROVE  FALSE
  <2>1. CASE g \in Handlers
    <3>1. handler[g] = [pc |-> "offer", p |-> k.p, cert |-> k.cert]
      BY <1>1, <2>1 DEF CallsMatch
    <3> QED
      BY <2>1, <3>1
  <2>2. CASE g \in Drains
    BY <1>1, <2>2 DEF CallsMatch
  <2> QED
    BY <2>1, <2>2
<1>2. CallOf(g, p, c).by = g /\ CallOf(g, p, c).p = p /\ CallOf(g, p, c).cert = c
  BY CallOfIsCall
<1>3. ASSUME NEW k \in calls'
      PROVE  \/ k \in calls /\ k.by # g
             \/ k = CallOf(g, p, c)
  BY <1>1, <1>3
<1>4. ASSUME NEW k \in calls'
      PROVE  /\ k.by \in Handlers => handler'[k.by] = [pc |-> "offer", p |-> k.p, cert |-> k.cert]
             /\ k.by \in Drains => /\ drain'[k.by].pc = "call"
                                   /\ drain'[k.by].p = k.p
                                   /\ drain'[k.by].cert = k.cert
  <2>1. CASE k \in calls /\ k.by # g
    BY <2>1 DEF CallsMatch
  <2>2. CASE k = CallOf(g, p, c)
    BY <1>2, <2>2
  <2> QED
    BY <1>3, <2>1, <2>2
<1>5. ASSUME NEW k \in calls', NEW l \in calls', k.by = l.by, k.by # Nobody
      PROVE  k = l
  BY <1>2, <1>3, <1>5 DEF CallsMatch
<1> QED
  BY <1>4, <1>5 DEF CallsMatch

\* The callers of one step.
LEMMA CallsStep ==
    ASSUME TypeOK, CallsMatch, [Next]_vars
    PROVE  CallsMatch'
<1>1. ASSUME NEW h \in Handlers, NEW p \in Pairs, NEW follow \in BOOLEAN, signFollow(h, p, follow)
      PROVE  CallsMatch'
  <2>1. /\ handler[h].pc = "idle" /\ h \notin Drains /\ h \in Handlers \cup Drains
        /\ drain' = drain
        /\ \A g \in Handlers : g # h => handler'[g] = handler[g]
    BY <1>1, PeerQueueAssumption DEF signFollow, TypeOK
  <2> DEFINE c == [follow |-> follow, at |-> second]
  <2>2. c \in Cert
    BY DEF TypeOK, Cert
  <2>3. CASE follow
    <3>1. /\ calls' = calls \cup {CallOf(h, p, c)}
          /\ handler'[h] = [pc |-> "offer", p |-> p, cert |-> c]
      BY <1>1, <2>3 DEF signFollow, TypeOK
    <3> QED
      BY <2>1, <2>2, <3>1, CallStarts
  <2>4. CASE ~follow
    <3>1. calls' = calls
      BY <1>1, <2>4 DEF signFollow
    <3> QED
      BY <2>1, <3>1, CallerMoves
  <2> QED
    BY <2>3, <2>4
<1>2. ASSUME NEW h \in Handlers,
             SaveReads(h) \/ SaveSkips(h) \/ SaveFollowCert(h) \/ Abandon(h)
      PROVE  CallsMatch'
  <2>1. /\ handler[h].pc # "offer" /\ h \notin Drains /\ h \in Handlers \cup Drains
        /\ drain' = drain /\ calls' = calls
    BY <1>2, PeerQueueAssumption
    DEF SaveReads, SaveSkips, SaveFollowCert, Abandon, SaveStages, TypeOK
  <2>2. \A g \in Handlers : g # h => handler'[g] = handler[g] \/ handler[g].pc # "offer"
    <3>1. CASE SaveFollowCert(h)
      BY <3>1, SaveEnds
    <3>2. CASE SaveReads(h) \/ SaveSkips(h) \/ Abandon(h)
      BY <3>2 DEF SaveReads, SaveSkips, Abandon, TypeOK
    <3> QED
      BY <1>2, <3>1, <3>2
  <2> QED
    BY <2>1, <2>2, CallerMoves
<1>3. ASSUME NEW k \in calls, PeerPasses(k) \/ PeerReads(k)
      PROVE  CallsMatch'
  <2>0. PICK st \in SaveStages : calls' = (calls \ {k}) \cup {[k EXCEPT !.stage = st]}
    BY <1>3 DEF PeerPasses, PeerReads, SaveStages
  <2> DEFINE n == [k EXCEPT !.stage = st]
  <2>1. n.by = k.by /\ n.p = k.p /\ n.cert = k.cert
    BY CallGoesOn DEF TypeOK
  <2>2. calls' = (calls \ {k}) \cup {n} /\ handler' = handler /\ drain' = drain
    BY <1>3, <2>0 DEF PeerPasses, PeerReads
  <2> HIDE DEF n
  <2> QED
    BY <2>1, <2>2 DEF CallsMatch
<1>a. ASSUME NEW k \in calls, PeerTakes(k)
      PROVE  CallsMatch'
  <2>1. k.by \in Handlers \cup Drains \cup {Nobody}
    BY CallGoesOn DEF TypeOK
  <2>2. /\ \A h \in Handlers : h # k.by => handler'[h] = handler[h]
        /\ \A d \in Drains : d # k.by => drain'[d] = drain[d]
    BY <1>a, ZenonT(40) DEF PeerTakes, PeerAnswers, Resume, TypeOK
  <2>3. ASSUME NEW l \in calls'
        PROVE  \E m \in calls \ {k} : l.by = m.by /\ l.p = m.p /\ l.cert = m.cert
    BY <1>a, <2>3, TakeEnds
  <2>4. ASSUME NEW l \in calls', NEW n \in calls', l.by = n.by, l.by # Nobody
        PROVE  l = n
    <3>1. l = n \/ \E m, o \in calls \ {k} : m # o /\ l.by = m.by /\ n.by = o.by
      BY <1>a, TakeEnds
    <3> QED
      BY <2>4, <3>1 DEF CallsMatch
  <2>5. ASSUME NEW l \in calls', l.by \in Handlers \cup Drains
        PROVE  l.by # k.by /\ l.by # Nobody
    <3>1. PICK m \in calls \ {k} : l.by = m.by
      BY <2>3
    <3> QED
      BY <2>5, <3>1, PeerQueueAssumption DEF CallsMatch
  <2>6. ASSUME NEW l \in calls'
        PROVE  /\ l.by \in Handlers => handler'[l.by] = [pc |-> "offer", p |-> l.p, cert |-> l.cert]
               /\ l.by \in Drains => /\ drain'[l.by].pc = "call"
                                     /\ drain'[l.by].p = l.p
                                     /\ drain'[l.by].cert = l.cert
    <3>1. PICK m \in calls \ {k} : l.by = m.by /\ l.p = m.p /\ l.cert = m.cert
      BY <2>3
    <3>2. /\ l.by \in Handlers => handler'[l.by] = handler[m.by]
          /\ l.by \in Drains => drain'[l.by] = drain[m.by]
      BY <2>2, <2>5, <3>1
    <3> QED
      BY <3>1, <3>2 DEF CallsMatch
  <2> QED
    BY <2>4, <2>6 DEF CallsMatch
<1>4. ASSUME NEW k \in calls, PeerSkips(k) \/ PeerRefuses(k) \/ GiveUp(k)
      PROVE  CallsMatch'
  <2>1. k.by \in Handlers \cup Drains \cup {Nobody}
    BY CallGoesOn DEF TypeOK
  <2>2. /\ \A h \in Handlers : h # k.by => handler'[h] = handler[h]
        /\ \A d \in Drains : d # k.by => drain'[d] = drain[d]
    BY <1>4, ZenonT(40) DEF PeerSkips, PeerAnswers, PeerRefuses, GiveUp, Resume, TypeOK
  <2>3. [k EXCEPT !.by = Nobody].by = Nobody
    BY CallGoesOn DEF TypeOK
  <2>4. \A l \in calls' : (l \in calls /\ l # k) \/ l.by = Nobody
    BY <1>4, <2>3 DEF PeerSkips, PeerRefuses, GiveUp
  <2>5. CASE k.by \in Handlers \cup Drains
    <3>1. k.by # Nobody
      BY <2>5, PeerQueueAssumption
    <3>2. \A l \in calls' : (l \in calls /\ l.by # k.by) \/ l.by = Nobody
      BY <2>4, <3>1 DEF CallsMatch
    <3> QED
      BY <2>2, <2>5, <3>2, CallsLeft
  <2>6. CASE k.by = Nobody
    <3>1. k.by \notin Handlers /\ k.by \notin Drains
      BY <2>6, PeerQueueAssumption
    <3>2. handler' = handler /\ drain' = drain
      BY <1>4, <3>1 DEF PeerSkips, PeerAnswers, PeerRefuses, GiveUp, Resume
    <3>3. \A l \in calls' : l \in calls \/ l.by = Nobody
      BY <2>4
    <3>4. \A l \in calls' : l.by # Nobody => l \in calls
      BY <3>3
    <3> QED
      BY <3>2, <3>4, PeerQueueAssumption DEF CallsMatch
  <2> QED
    BY <2>1, <2>5, <2>6
<1>5. ASSUME NEW d \in Drains, ClaimPeerEvents(d) \/ Works(d)
      PROVE  CallsMatch'
  <2>1. /\ d \notin Handlers /\ d \in Handlers \cup Drains
        /\ drain[d].pc # "call" /\ handler' = handler
        /\ \A e \in Drains : e # d => drain'[e] = drain[e]
    BY <1>5, PeerQueueAssumption
    DEF ClaimPeerEvents, Works, NextPeerEvent, Build, UndoRefusedFollow, Settle, Settled,
        ReleasePeerEvents, Go, TypeOK, peer
  <2>2. CASE calls' = calls
    BY <2>1, <2>2, CallerMoves
  <2>3. CASE calls' # calls
    <3> DEFINE o == drain[d]
    <3>1. Build(d) /\ cert[o.p] # NoCert
      BY <1>5, <2>3
      DEF ClaimPeerEvents, Works, NextPeerEvent, Build, UndoRefusedFollow, Settle, Settled,
          ReleasePeerEvents
    <3>2. o.p \in Pairs /\ o.row \in Rows
      BY <3>1, DrainFields DEF Build, TypeOK
    <3>3. cert[o.p] \in Cert
      BY <3>1, <3>2 DEF TypeOK, Stored
    <3>4. drain'[d] = [pc |-> "call", p |-> o.p, row |-> o.row, cert |-> cert[o.p]]
      BY <3>1 DEF Build, Go, TypeOK
    <3>5. calls' = calls \cup {CallOf(d, o.p, cert[o.p])}
      BY <3>1 DEF Build
    <3>6. drain'[d].pc = "call" /\ drain'[d].p = o.p /\ drain'[d].cert = cert[o.p]
      BY <3>4
    <3>7. \A h \in Handlers : handler'[h] = handler[h]
      BY <2>1
    <3> HIDE DEF o
    <3> QED
      BY <2>1, <3>2, <3>3, <3>5, <3>6, <3>7, CallStarts
  <2> QED
    BY <2>2, <2>3
<1>6. CASE Crash
  <2>1. \A k \in calls : [k EXCEPT !.by = Nobody].by = Nobody
    BY CallGoesOn DEF TypeOK
  <2>2. PICK S \in SUBSET calls : calls' = {[k EXCEPT !.by = Nobody] : k \in S}
    BY <1>6 DEF Crash
  <2>3. \A k \in calls' : k.by = Nobody
    BY <2>1, <2>2
  <2> QED
    BY <2>3, PeerQueueAssumption DEF CallsMatch
<1>7. ASSUME calls' = calls, handler' = handler, drain' = drain
      PROVE  CallsMatch'
  BY <1>7 DEF CallsMatch
<1>8. CASE Tick \/ ClaimExpires \/ (\E d \in BOOLEAN : SetPeerDown(d)) \/ UNCHANGED vars
  BY <1>7, <1>8 DEF Tick, ClaimExpires, SetPeerDown, vars
<1>9. CASE \E p \in Pairs : AckFollowEvent(p) \/ InsertBlock(p) \/ BlockNotifyFromPeer(p)
  BY <1>7, <1>9 DEF AckFollowEvent, InsertBlock, BlockNotifyFromPeer
<1> QED
  BY <1>1, <1>2, <1>3, <1>a, <1>4, <1>5, <1>6, <1>8, <1>9 DEF Next

----------------------------------------------------------------------------
(* Deliveries.                                                             *)

\* What was handled stays handled while certificates only go.
LEMMA HeardStays ==
    ASSUME TypeOK, TypeOK', NEW p \in Pairs, Heard(p),
           cert'[p] = cert[p] \/ cert'[p] = NoCert,
           heard'[p] >= heard[p]
    PROVE  Heard(p)'
<1>1. cert[p].at \in Nat /\ heard[p] \in Nat /\ heard'[p] \in Nat
  BY CertFields, PeerQueueAssumption DEF TypeOK
<1> QED
  BY <1>1 DEF Heard

\* A step that leaves the queue and stores no certificate disturbs nobody but
\* the goroutine g that takes it.
LEMMA Quiet ==
    ASSUME TypeOK, TypeOK', Delivery, NEW g,
           queue' = queue, nextRow' = nextRow,
           \A p \in Pairs : cert'[p] = cert[p] \/ cert'[p] = NoCert,
           \A p \in Pairs : heard'[p] >= heard[p],
           \A h \in Handlers : h # g => handler'[h] = handler[h],
           \A d \in Drains : d # g => drain'[d] = drain[d],
           g \in Handlers => Taken(g)',
           g \in Drains => Current(g)'
    PROVE  Delivery'
<1>1. ASSUME NEW h \in Handlers, h # g
      PROVE  Taken(h)'
  <2>1. handler'[h] = handler[h] /\ handler[h] \in Handler \cup {Idle}
    BY <1>1 DEF TypeOK
  <2>2. ASSUME handler[h].pc \in SaveStages
        PROVE  /\ handler[h].p \in Pairs
               /\ handler[h].cert.at \in Nat
    <3>1. handler[h].p \in Pairs /\ handler[h].cert \in Cert
      BY <2>1, <2>2, HandlerFields DEF SaveStages
    <3> QED
      BY <3>1, PeerQueueAssumption DEF Cert, Seconds
  <2>3. \A p \in Pairs : heard[p] \in Nat /\ heard'[p] \in Nat
    BY PeerQueueAssumption DEF TypeOK
  <2>4. Taken(h)
    BY DEF Delivery
  <2> QED
    BY <2>1, <2>2, <2>3, <2>4 DEF Taken
<1>2. ASSUME NEW d \in Drains, d # g
      PROVE  Current(d)'
  <2> DEFINE o == drain[d]
  <2>1. drain'[d] = o /\ o \in Drain \cup {Idle}
    BY <1>2 DEF TypeOK
  <2>2. Current(d)
    BY DEF Delivery
  <2>3. o.pc \in {"gone", "refused", "answered", "call"} => o.p \in Pairs
    BY <2>1, DrainFields
  <2>4. o.pc = "call" => o.cert \in Cert
    BY <2>1, DrainFields
  <2>5. \A p \in Pairs : Heard(p) => Heard(p)'
    BY HeardStays
  <2>6. \A p \in Pairs : cert'[p] = NoCert => Heard(p)'
    BY DEF Heard
  <2> HIDE DEF o
  <2> QED
    BY <2>1, <2>2, <2>3, <2>4, <2>5, <2>6 DEF Current, o
<1>3. OwedOrHeard'
  <2>1. \A p \in Pairs : queue[p] # 0 \/ Heard(p)
    BY DEF Delivery, OwedOrHeard, Heard
  <2>2. \A p \in Pairs : Heard(p) => Heard(p)'
    BY HeardStays
  <2> QED
    BY <2>1, <2>2 DEF OwedOrHeard, Heard
<1> QED
  BY <1>1, <1>2, <1>3 DEF Delivery

\* Storing a certificate: what is owed moves the pair's row out of every
\* drain's reach, and what is not owed was taken.
LEMMA SaveDelivers ==
    ASSUME TypeOK, TypeOK', Delivery, NEW h \in Handlers, SaveFollowCert(h)
    PROVE  Delivery'
<1> DEFINE o == handler[h]
<1>1. o.p \in Pairs /\ o.cert \in Cert /\ o.owe \in BOOLEAN /\ o.pc \in SaveStages
  BY HandlerFields DEF SaveFollowCert, TypeOK, SaveStages
<1>2. drain' = drain /\ heard' = heard
  BY DEF SaveFollowCert
<1>3. ASSUME NEW g \in Handlers
      PROVE  Taken(g)'
  <2>1. CASE g = h
    BY <2>1, SaveEnds DEF Taken, Idle, SaveStages
  <2>2. CASE g # h
    BY <1>2, <2>2, SaveEnds DEF Delivery, Taken, SaveStages
  <2> QED
    BY <2>1, <2>2
<1>4. \A p \in Pairs : heard[p] \in Nat /\ queue[p] \in Nat
  BY PeerQueueAssumption DEF TypeOK
<1>5. nextRow \in Nat \ {0}
  BY PeerQueueAssumption DEF TypeOK
<1>7. CASE o.owe
  <2>1. /\ queue' = [queue EXCEPT ![o.p] = nextRow]
        /\ nextRow' = nextRow + 1
        /\ \A p \in Pairs : p # o.p => cert'[p] = cert[p]
    BY <1>7 DEF SaveFollowCert, Enqueue, TypeOK
  <2>2. queue'[o.p] = nextRow /\ \A p \in Pairs : p # o.p => queue'[p] = queue[p]
    BY <1>1, <2>1 DEF TypeOK
  <2>3. \A p \in Pairs : queue'[p] < nextRow'
    BY <1>4, <1>5, <2>1, <2>2 DEF Delivery
  <2>4. \A p \in Pairs : p # o.p /\ Heard(p) => Heard(p)'
    BY <1>2, <2>1 DEF Heard
  <2>5. ASSUME NEW d \in Drains
        PROVE  Current(d)'
    <3> DEFINE e == drain[d]
    <3>1. e \in Drain \cup {Idle} /\ drain'[d] = e
      BY <1>2 DEF TypeOK
    <3>2. /\ e.pc \in {"build", "gone", "call", "refused", "answered"} => e.row \in Nat
          /\ e.pc \in {"gone", "call", "refused", "answered"} => e.p \in Pairs
      BY <3>1, DrainFields DEF Rows
    <3>3. Current(d)
      BY DEF Delivery
    <3>4. e.pc \in {"build", "gone", "call", "refused", "answered"} => e.row < nextRow
      BY <3>3 DEF Current
    <3>5. e.pc \in {"build", "gone", "call", "refused", "answered"} => e.row < nextRow'
      BY <1>5, <2>1, <3>2, <3>4
    <3>6. ASSUME e.pc \in {"gone", "call", "refused", "answered"}, queue'[e.p] = e.row
          PROVE  e.p # o.p /\ queue[e.p] = e.row
      BY <1>5, <2>2, <3>2, <3>4, <3>6
    <3> HIDE DEF e
    <3> QED
      BY <2>1, <2>4, <3>1, <3>2, <3>3, <3>5, <3>6 DEF Current, e
  <2>6. OwedOrHeard'
    BY <1>2, <1>5, <2>1, <2>2 DEF OwedOrHeard, Delivery
  <2> QED
    BY <1>3, <2>3, <2>5, <2>6 DEF Delivery
<1>8. CASE ~o.owe
  <2>0. PICK q \in Pairs : q = o.p
    BY <1>1
  <2>1. /\ queue' = queue /\ nextRow' = nextRow
        /\ \A p \in Pairs : p # q => cert'[p] = cert[p]
        /\ cert'[q] = Kept(o.cert, o.owe \/ queue[q] # 0)
    BY <1>8, <2>0 DEF SaveFollowCert, TypeOK
  <2>2. cert'[q] = o.cert \/ cert'[q] = NoCert
    BY <2>1 DEF Kept
  <2>3. heard[q] >= o.cert.at
    BY <1>1, <1>8, <2>0 DEF Delivery, Taken
  <2>4. Heard(q)'
    BY <1>2, <2>2, <2>3 DEF Heard
  <2>5. \A p \in Pairs : Heard(p) => Heard(p)'
    BY <1>2, <2>1, <2>4 DEF Heard
  <2>6. ASSUME NEW d \in Drains
        PROVE  Current(d)'
    <3> DEFINE e == drain[d]
    <3>1. e \in Drain \cup {Idle} /\ drain'[d] = e
      BY <1>2 DEF TypeOK
    <3>2. e.pc \in {"gone", "call", "refused", "answered"} => e.p \in Pairs
      BY <3>1, DrainFields
    <3>3. Current(d)
      BY DEF Delivery
    <3> HIDE DEF e
    <3> QED
      BY <2>1, <2>4, <2>5, <3>1, <3>2, <3>3 DEF Current, e
  <2>7. OwedOrHeard'
    BY <2>1, <2>4, <2>5 DEF OwedOrHeard, Heard, Delivery
  <2> QED
    BY <1>3, <2>1, <2>6, <2>7 DEF Delivery
<1> QED
  BY <1>7, <1>8

\* Deleting a row by the id that was read: the pair was handled.
LEMMA SettleDelivers ==
    ASSUME TypeOK, TypeOK', Delivery, NEW d \in Drains, Settle(d)
    PROVE  Delivery'
<1> DEFINE o == drain[d]
<1>1. o \in Drain \cup {Idle} /\ o.pc \in {"gone", "answered"}
  BY DEF Settle, TypeOK
<1>2. PICK q \in Pairs : q = o.p
  BY <1>1, DrainFields
<1>3. /\ cert' = cert /\ heard' = heard /\ handler' = handler /\ nextRow' = nextRow
      /\ drain' = [drain EXCEPT ![d] = AfterSettle(o)]
      /\ queue' = IF queue[q] = o.row THEN [queue EXCEPT ![q] = 0] ELSE queue
  BY <1>2 DEF Settle, Go
<1>a. \A p \in Pairs : queue'[p] = queue[p] \/ queue'[p] = 0
  BY <1>3 DEF TypeOK
<1>4. \A p \in Pairs : queue'[p] # queue[p] => p = q /\ queue[q] = o.row
  BY <1>3 DEF TypeOK
<1>5. \A p \in Pairs : queue'[p] < nextRow'
  BY <1>3, <1>a, PeerQueueAssumption DEF Delivery, TypeOK
<1>6. \A h \in Handlers : Taken(h)'
  BY <1>3 DEF Delivery, Taken
<1>7. ASSUME NEW e \in Drains
      PROVE  Current(e)'
  <2>1. CASE e = d
    <3>1. drain'[e] = AfterSettle(o)
      BY <1>3, <2>1 DEF TypeOK
    <3> QED
      BY <3>1 DEF Current, AfterSettle
  <2>2. CASE e # d
    <3> DEFINE f == drain[e]
    <3>1. drain'[e] = f /\ f \in Drain \cup {Idle} /\ Current(e)
      BY <1>3, <2>2 DEF TypeOK, Delivery
    <3>2. f.pc \in {"gone", "call", "refused", "answered"} => f.p \in Pairs /\ f.row # 0
      BY <3>1, DrainFields DEF Rows
    <3>3. ASSUME f.pc \in {"gone", "call", "refused", "answered"}, queue'[f.p] = f.row
          PROVE  queue[f.p] = f.row
      <4>1. f.p \in Pairs /\ f.row # 0
        BY <3>2, <3>3
      <4>2. PICK r \in Pairs : r = f.p
        BY <4>1
      <4>3. queue'[r] = queue[r] \/ queue'[r] = 0
        BY <1>a
      <4> QED
        BY <3>3, <4>1, <4>2, <4>3
    <3> HIDE DEF f
    <3> QED
      BY <1>3, <3>1, <3>3 DEF Current, Heard, f
  <2> QED
    BY <2>1, <2>2
<1>8. OwedOrHeard'
  <2>1. queue[q] = o.row => Heard(q)
    BY <1>1, <1>2 DEF Delivery, Current
  <2>2. \A p \in Pairs : queue[p] # 0 \/ Heard(p)
    BY DEF Delivery, OwedOrHeard, Heard
  <2>3. \A p \in Pairs : queue'[p] # 0 \/ Heard(p)
    BY <1>a, <1>4, <2>1, <2>2
  <2> QED
    BY <1>3, <2>3 DEF OwedOrHeard, Heard
<1> QED
  BY <1>5, <1>6, <1>7, <1>8 DEF Delivery

\* A call that ends: an answer means the peer handled what was sent.
LEMMA CallDelivers ==
    ASSUME TypeOK, TypeOK', CallsMatch, Delivery, NEW k \in calls,
           PeerTakes(k) \/ PeerSkips(k) \/ PeerRefuses(k) \/ GiveUp(k)
    PROVE  Delivery'
<1>1. k.p \in Pairs /\ k.cert \in Cert
  BY CallGoesOn DEF TypeOK
<1>2. /\ k.cert.at \in Nat
      /\ \A p \in Pairs : heard[p] \in Nat /\ heard'[p] \in Nat /\ cert[p].at \in Nat
  BY <1>1, CertFields, PeerQueueAssumption DEF TypeOK, Cert, Seconds
<1>a. queue' = queue /\ nextRow' = nextRow
  BY DEF PeerTakes, PeerSkips, PeerAnswers, PeerRefuses, GiveUp, here
<1>b. \A p \in Pairs : cert'[p] = cert[p] \/ cert'[p] = NoCert
  <2>1. cert' = cert \/ cert' = [cert EXCEPT ![k.p] = NoCert]
    BY DEF PeerTakes, PeerSkips, PeerAnswers, PeerRefuses, GiveUp, AcceptBlock, here
  <2> QED
    BY <2>1 DEF TypeOK
<1>c. /\ \A h \in Handlers : h # k.by => handler'[h] = handler[h]
      /\ \A d \in Drains : d # k.by => drain'[d] = drain[d]
  <2>1. \/ handler' = handler
        \/ \E h : handler' = [handler EXCEPT ![k.by] = h]
    BY DEF PeerTakes, PeerSkips, PeerAnswers, PeerRefuses, GiveUp, Resume
  <2>2. \/ drain' = drain
        \/ \E d : drain' = [drain EXCEPT ![k.by] = d]
    BY DEF PeerTakes, PeerSkips, PeerAnswers, PeerRefuses, GiveUp, Resume
  <2> QED
    BY <2>1, <2>2 DEF TypeOK
<1>3. /\ queue' = queue /\ nextRow' = nextRow
      /\ \A p \in Pairs : cert'[p] = cert[p] \/ cert'[p] = NoCert
      /\ \A h \in Handlers : h # k.by => handler'[h] = handler[h]
      /\ \A d \in Drains : d # k.by => drain'[d] = drain[d]
  BY <1>a, <1>b, <1>c
<1>d. /\ Later(heard[k.p], k.cert.at) >= heard[k.p]
      /\ Later(heard[k.p], k.cert.at) >= k.cert.at
  BY <1>1, <1>2 DEF Later
<1>e. PeerTakes(k) \/ PeerSkips(k) \/ PeerRefuses(k) => heard' = [heard EXCEPT ![k.p] = Later(heard[k.p], k.cert.at)]
  BY DEF PeerTakes, PeerSkips, PeerAnswers, PeerRefuses
<1>f. GiveUp(k) => heard' = heard
  BY DEF GiveUp
<1>4. \A p \in Pairs : heard'[p] >= heard[p]
  BY <1>2, <1>d, <1>e, <1>f DEF TypeOK
<1>5. PeerTakes(k) \/ PeerSkips(k) \/ PeerRefuses(k) => heard'[k.p] >= k.cert.at
  BY <1>1, <1>d, <1>e DEF TypeOK
<1>6. ASSUME k.by \in Handlers
      PROVE  Taken(k.by)'
  <2>1. CASE PeerTakes(k) \/ PeerSkips(k)
    <3>1. handler'[k.by] = [pc |-> "save", p |-> k.p, cert |-> k.cert, owe |-> FALSE]
      BY <1>6, <2>1 DEF PeerTakes, PeerSkips, PeerAnswers, Resume, TypeOK
    <3> QED
      BY <1>5, <2>1, <3>1 DEF Taken
  <2>2. CASE PeerRefuses(k)
    <3>1. handler'[k.by] = Idle
      BY <1>6, <2>2 DEF PeerRefuses, Resume, TypeOK
    <3> QED
      BY <3>1 DEF Taken, Idle, SaveStages
  <2>3. CASE GiveUp(k)
    <3>1. handler'[k.by] = [pc |-> "save", p |-> k.p, cert |-> k.cert, owe |-> TRUE]
      BY <1>6, <2>3 DEF GiveUp, Resume, TypeOK
    <3> QED
      BY <3>1 DEF Taken
  <2> QED
    BY <2>1, <2>2, <2>3
<1>7. ASSUME k.by \in Drains
      PROVE  Current(k.by)'
  <2> DEFINE o == drain[k.by]
  <2>1. /\ o \in Drain \cup {Idle} /\ o.pc = "call"
        /\ o.p = k.p /\ o.cert = k.cert
        /\ o.row < nextRow
        /\ queue[k.p] = o.row => Heard(k.p) \/ cert[k.p].at <= k.cert.at
    <3>1. o \in Drain \cup {Idle} /\ o.pc = "call" /\ o.p = k.p /\ o.cert = k.cert
      BY <1>7 DEF TypeOK, CallsMatch
    <3>2. Current(k.by)
      BY <1>7 DEF Delivery
    <3> QED
      BY <3>1, <3>2 DEF Current
  <2>2. CASE GiveUp(k)
    <3>1. drain'[k.by] = [pc |-> "release"]
      BY <1>7, <2>2 DEF GiveUp, Resume, TypeOK
    <3> QED
      BY <3>1 DEF Current
  <2>3. CASE PeerTakes(k) \/ PeerSkips(k) \/ PeerRefuses(k)
    <3>0. \/ drain' = [drain EXCEPT ![k.by] = [o EXCEPT !.pc = "answered"]]
          \/ drain' = [drain EXCEPT ![k.by] = [o EXCEPT !.pc = "refused"]]
      BY <1>7, <2>3 DEF PeerTakes, PeerSkips, PeerAnswers, PeerRefuses, Resume
    <3>1. PICK pc \in {"answered", "refused"} : drain'[k.by] = [o EXCEPT !.pc = pc]
      BY <1>7, <3>0 DEF TypeOK
    <3>2. drain'[k.by].pc = pc /\ drain'[k.by].p = k.p /\ drain'[k.by].row = o.row
      BY <2>1, <3>1, DrainAnswered
    <3>3. queue[k.p] = o.row => Heard(k.p)'
      <4>1. Heard(k.p) => Heard(k.p)'
        BY <1>1, <1>3, <1>4, HeardStays
      <4>2. cert[k.p].at <= k.cert.at => Heard(k.p)'
        BY <1>1, <1>2, <1>3, <1>5, <2>3 DEF Heard
      <4> QED
        BY <2>1, <4>1, <4>2
    <3> HIDE DEF o
    <3> QED
      BY <1>3, <2>1, <3>2, <3>3 DEF Current
  <2> QED
    BY <2>2, <2>3
<1> QED
  BY <1>3, <1>4, <1>6, <1>7, Quiet

\* The other steps of a drain.
LEMMA DrainDelivers ==
    ASSUME TypeOK, TypeOK', Delivery, NEW d \in Drains,
           ClaimPeerEvents(d) \/ (Works(d) /\ ~Settle(d))
    PROVE  Delivery'
<1> DEFINE o == drain[d]
<1>1. o \in Drain \cup {Idle}
  BY DEF TypeOK
<1>a. /\ queue' = queue /\ nextRow' = nextRow /\ handler' = handler /\ heard' = heard
      /\ \A e \in Drains : e # d => drain'[e] = drain[e]
  BY DEF ClaimPeerEvents, Works, NextPeerEvent, Build, UndoRefusedFollow, Settled,
         ReleasePeerEvents, Go, TypeOK, here
<1>b. \/ cert' = cert
      \/ cert' = [cert EXCEPT ![o.p] = NoCert]
      \/ cert' = [cert EXCEPT ![o.p] = Kept(@, queue[o.p] # 0)]
  BY DEF ClaimPeerEvents, Works, NextPeerEvent, Build, UndoRefusedFollow, Settled,
         ReleasePeerEvents, here
<1>c. \A p \in Pairs : cert'[p] = cert[p] \/ cert'[p] = NoCert
  BY <1>b DEF Kept, TypeOK
<1>2. /\ queue' = queue /\ nextRow' = nextRow /\ handler' = handler /\ heard' = heard
      /\ \A e \in Drains : e # d => drain'[e] = drain[e]
      /\ \A p \in Pairs : cert'[p] = cert[p] \/ cert'[p] = NoCert
  BY <1>a, <1>c
<1>3. \A p \in Pairs : heard[p] \in Nat /\ heard'[p] >= heard[p]
  BY <1>2, PeerQueueAssumption DEF TypeOK
<1>4. Current(d)'
  <2>1. CASE ClaimPeerEvents(d) \/ Settled(d) \/ ReleasePeerEvents(d)
    <3>1. drain'[d] \in {[pc |-> "next"], Idle}
      BY <2>1 DEF ClaimPeerEvents, Settled, ReleasePeerEvents, Go, TypeOK
    <3> QED
      BY <3>1 DEF Current, Idle
  <2>2. CASE NextPeerEvent(d)
    <3>1. \/ drain'[d] = [pc |-> "release"]
          \/ \E p \in Pairs : drain'[d] = [pc |-> "build", p |-> p, row |-> queue[p]]
      BY <2>2 DEF NextPeerEvent, Go, TypeOK
    <3>2. CASE drain'[d] = [pc |-> "release"]
      BY <3>2 DEF Current
    <3>3. ASSUME NEW p \in Pairs, drain'[d] = [pc |-> "build", p |-> p, row |-> queue[p]]
          PROVE  Current(d)'
      <4>1. queue[p] < nextRow
        BY DEF Delivery
      <4> QED
        BY <1>2, <3>3, <4>1 DEF Current
    <3> QED
      BY <3>1, <3>2, <3>3
  <2>3. CASE Build(d)
    <3>1. PICK q \in Pairs : q = o.p
      BY <1>1, <2>3, DrainFields DEF Build
    <3>2. o.row < nextRow
      BY <2>3 DEF Build, Delivery, Current
    <3>3. cert' = cert
      BY <2>3 DEF Build, here
    <3>4. CASE cert[q] = NoCert
      <4>1. drain'[d] = [pc |-> "gone", p |-> q, row |-> o.row]
        BY <2>3, <3>1, <3>4 DEF Build, Go, TypeOK
      <4> QED
        BY <1>2, <3>2, <3>3, <3>4, <4>1 DEF Current, Heard
    <3>5. CASE cert[q] # NoCert
      <4>1. drain'[d] = [pc |-> "call", p |-> q, row |-> o.row, cert |-> cert[q]]
        BY <2>3, <3>1, <3>5 DEF Build, Go, TypeOK
      <4>2. cert[q].at <= cert[q].at
        BY CertFields DEF TypeOK
      <4> QED
        BY <1>2, <3>2, <3>3, <4>1, <4>2 DEF Current
    <3> QED
      BY <3>4, <3>5
  <2>4. CASE UndoRefusedFollow(d)
    <3>1. o.pc = "refused" /\ drain'[d] = [o EXCEPT !.pc = "answered"]
      BY <2>4 DEF UndoRefusedFollow, Go, TypeOK
    <3>2. PICK q \in Pairs : q = o.p
      BY <1>1, <3>1, DrainFields
    <3>3. drain'[d].pc = "answered" /\ drain'[d].p = q /\ drain'[d].row = o.row
      BY <1>1, <3>1, <3>2, DrainAnswered
    <3>4. o.row < nextRow /\ (queue[q] = o.row => Heard(q))
      BY <3>1, <3>2 DEF Delivery, Current
    <3>5. Heard(q) => Heard(q)'
      BY <1>2, <1>3, HeardStays
    <3> HIDE DEF o
    <3> QED
      BY <1>2, <3>3, <3>4, <3>5 DEF Current
  <2> QED
    BY <2>1, <2>2, <2>3, <2>4 DEF Works
<1>5. d \notin Handlers
  BY PeerQueueAssumption
<1> QED
  BY <1>2, <1>3, <1>4, <1>5, Quiet

\* A crash leaves nobody who has anything to know.
LEMMA CrashDelivers ==
    ASSUME Delivery, Crash
    PROVE  Delivery'
<1>1. /\ \A h \in Handlers : handler'[h] = Idle
      /\ \A d \in Drains : drain'[d] = Idle
      /\ UNCHANGED <<cert, queue, nextRow, heard>>
  BY DEF Crash, here
<1>2. \A h \in Handlers : Taken(h)'
  BY <1>1 DEF Taken, Idle, SaveStages
<1>3. \A d \in Drains : Current(d)'
  BY <1>1 DEF Current, Idle
<1> QED
  BY <1>1, <1>2, <1>3 DEF Delivery, OwedOrHeard

\* The inductive invariant of one step.
LEMMA Step ==
    ASSUME IInv, [Next]_vars
    PROVE  IInv'
<1>1. TypeOK /\ CallsMatch /\ Delivery
  BY DEF IInv
<1>2. TypeOK' /\ CallsMatch'
  BY <1>1, TypeStep, CallsStep
<1>3. \A p \in Pairs : heard[p] \in Nat
  BY <1>1, PeerQueueAssumption DEF TypeOK
<1>4. ASSUME NEW h \in Handlers, NEW p \in Pairs, NEW follow \in BOOLEAN, signFollow(h, p, follow)
      PROVE  Delivery'
  <2>1. /\ UNCHANGED <<cert, queue, nextRow, heard, drain>>
        /\ \A g \in Handlers : g # h => handler'[g] = handler[g]
        /\ handler'[h].pc \in SaveStages => handler'[h].owe
    BY <1>1, <1>4 DEF signFollow, TypeOK, here, SaveStages
  <2>2. h \notin Drains /\ Taken(h)' /\ \A q \in Pairs : heard'[q] >= heard[q]
    BY <1>3, <2>1, PeerQueueAssumption DEF Taken
  <2> QED
    BY <1>1, <1>2, <2>1, <2>2, Quiet
<1>5. ASSUME NEW h \in Handlers, Abandon(h)
      PROVE  Delivery'
  <2>1. /\ UNCHANGED <<cert, queue, nextRow, heard, drain>>
        /\ \A g \in Handlers : g # h => handler'[g] = handler[g]
        /\ handler'[h] = Idle
    BY <1>1, <1>5 DEF Abandon, TypeOK, here
  <2>2. h \notin Drains /\ Taken(h)' /\ \A q \in Pairs : heard'[q] >= heard[q]
    BY <1>3, <2>1, PeerQueueAssumption DEF Taken, Idle, SaveStages
  <2> QED
    BY <1>1, <1>2, <2>1, <2>2, Quiet
<1>a. ASSUME NEW h \in Handlers, SaveReads(h) \/ SaveSkips(h)
      PROVE  Delivery'
  <2>1. /\ UNCHANGED <<cert, queue, nextRow, heard, drain>>
        /\ \A g \in Handlers : g # h => handler'[g] = handler[g]
    BY <1>1, <1>a DEF SaveReads, SaveSkips, TypeOK, here
  <2>2. Taken(h)'
    <3>1. handler[h] \in Handler \cup {Idle} /\ handler[h].pc \in SaveStages
      BY <1>1, <1>a DEF SaveReads, SaveSkips, SaveStages, TypeOK
    <3>2. \/ handler'[h] = Idle
          \/ \E pc \in SaveStages : handler'[h] = [handler[h] EXCEPT !.pc = pc]
      BY <1>1, <1>a DEF SaveReads, SaveSkips, SaveStages, TypeOK
    <3>3. CASE handler'[h] = Idle
      BY <3>3 DEF Taken, Idle, SaveStages
    <3>4. ASSUME NEW pc \in SaveStages, handler'[h] = [handler[h] EXCEPT !.pc = pc]
          PROVE  Taken(h)'
      <4>1. /\ handler'[h].p = handler[h].p /\ handler'[h].cert = handler[h].cert
            /\ handler'[h].owe = handler[h].owe
        BY <3>1, <3>4, SavingGoesOn
      <4>2. ~handler[h].owe => heard[handler[h].p] >= handler[h].cert.at
        BY <1>1, <3>1 DEF Delivery, Taken
      <4> QED
        BY <2>1, <4>1, <4>2 DEF Taken
    <3> QED
      BY <3>2, <3>3, <3>4
  <2>3. h \notin Drains /\ \A q \in Pairs : heard'[q] >= heard[q]
    BY <1>3, <2>1, PeerQueueAssumption
  <2> QED
    BY <1>1, <1>2, <2>1, <2>2, <2>3, Quiet
<1>6. ASSUME UNCHANGED <<queue, nextRow, heard, handler, drain>>,
             \A p \in Pairs : cert'[p] = cert[p] \/ cert'[p] = NoCert
      PROVE  Delivery'
  <2>1. \A p \in Pairs : heard'[p] >= heard[p]
    BY <1>3, <1>6
  <2> QED
    BY <1>1, <1>2, <1>6, <2>1, PeerQueueAssumption, Quiet
<1>7. ASSUME \E k \in calls : PeerPasses(k) \/ PeerReads(k)
      PROVE  Delivery'
  BY <1>6, <1>7 DEF PeerPasses, PeerReads, here
<1>8. ASSUME Tick \/ ClaimExpires \/ (\E d \in BOOLEAN : SetPeerDown(d)) \/ UNCHANGED vars
      PROVE  Delivery'
  BY <1>6, <1>8 DEF Tick, ClaimExpires, SetPeerDown, vars, here
<1>9. ASSUME \E p \in Pairs : AckFollowEvent(p) \/ InsertBlock(p) \/ BlockNotifyFromPeer(p)
      PROVE  Delivery'
  <2>1. PICK p \in Pairs : AckFollowEvent(p) \/ InsertBlock(p) \/ BlockNotifyFromPeer(p)
    BY <1>9
  <2>2. cert' = cert \/ cert' = [cert EXCEPT ![p] = NoCert]
    BY <2>1 DEF AckFollowEvent, InsertBlock, BlockNotifyFromPeer, AcceptBlock, here
  <2>3. \A q \in Pairs : cert'[q] = cert[q] \/ cert'[q] = NoCert
    BY <1>1, <2>2 DEF TypeOK
  <2> QED
    BY <1>6, <2>1, <2>3 DEF AckFollowEvent, InsertBlock, BlockNotifyFromPeer, here
<1>10. Delivery'
  BY <1>1, <1>2, <1>4, <1>5, <1>a, <1>7, <1>8, <1>9, SaveDelivers, SettleDelivers, CallDelivers,
     DrainDelivers, CrashDelivers DEF Next
<1> QED
  BY <1>2, <1>10 DEF IInv

\* It holds at the start.
LEMMA Start ==
    ASSUME Init
    PROVE  IInv
<1>1. TypeOK
  <2>1. NoCert \in Stored /\ 1 \in Seconds /\ 0 \in 0 .. MaxRow /\ 0 \in 0 .. MaxSecond
        /\ 1 \in 1 .. MaxRow + 1 /\ 0 \in 0 .. MaxCrashes
    BY PeerQueueAssumption DEF Stored, Seconds
  <2> QED
    BY <2>1 DEF Init, TypeOK
<1>2. CallsMatch
  BY DEF Init, CallsMatch
<1>3. Delivery
  BY DEF Init, Delivery, Taken, Current, OwedOrHeard, Idle, SaveStages
<1> QED
  BY <1>1, <1>2, <1>3 DEF IInv

----------------------------------------------------------------------------
(* The theorems.                                                           *)

\* The inductive invariant of the queue holds in every behavior.
THEOREM Inductive == Spec => []IInv
<1>1. Init => IInv
  BY Start
<1>2. IInv /\ [Next]_vars => IInv'
  BY Step
<1> QED
  BY <1>1, <1>2, PTL DEF Spec

\* Rows, certificates, calls and goroutines have their shape, for any number
\* of pairs, requests and drains.
THEOREM QueueTypes == Spec => []TypeOK
<1>1. IInv => TypeOK
  BY DEF IInv
<1> QED
  BY <1>1, Inductive, PTL

\* No certificate is forgotten: what this server keeps for a pair, the peer
\* has handled or is owed (peer_event_queue.go, drainPeerEventsWith).
THEOREM NothingForgotten == Spec => []OwedOrHeard
<1>1. IInv => OwedOrHeard
  BY DEF IInv, Delivery
<1> QED
  BY <1>1, Inductive, PTL

----------------------------------------------------------------------------
(* The servers agree (AgreeUnlessMuddled).                                 *)

\* A request for p is being handled by h.
Busy(h, p) == handler[h].pc # "idle" /\ handler[h].p = p

\* Where a certificate of p can be: at a server, with a request, in a call.
Around(p, c) ==
    \/ c = cert[p] \/ c = there[p]
    \/ \E h \in Handlers : Busy(h, p) /\ c = handler[h].cert
    \/ \E k \in calls : k.p = p /\ c = k.cert

\* All of p is of the past, and certificates of one second are one.
Distinct(p) ==
    /\ heard[p] <= second
    /\ \A c \in Cert : Around(p, c) => c.at <= second
    /\ \A c, e \in Cert : Around(p, c) /\ Around(p, e) /\ c.at = e.at => c = e

\* One request at a time, and it is the newest.
OneRequest(p) ==
    /\ \A h, g \in Handlers : Busy(h, p) /\ Busy(g, p) => h = g
    /\ \A h \in Handlers : Busy(h, p) => /\ handler[h].cert.at > cert[p].at
                                         /\ handler[h].cert.at >= heard[p]

\* A call brings nothing newer than this server keeps, the peer has handled,
\* or a request is about to store; nor has the peer handled any such.
NothingNewer(p) ==
    /\ \A k \in calls : k.p = p =>
          \/ k.cert.at <= cert[p].at \/ k.cert.at <= heard[p]
          \/ \E h \in Handlers : Busy(h, p) /\ handler[h].cert = k.cert
    /\ cert[p] # NoCert =>
          \/ heard[p] <= cert[p].at
          \/ \E h \in Handlers : Busy(h, p) /\ handler[h].cert.at = heard[p]

\* The peer keeps the newest it has handled, or that was an unfollow; and it
\* follows nothing that this server has forgotten.
PeerKeeps(p) ==
    /\ \/ there[p].at = heard[p]
       \/ there[p] = NoCert /\ \A c \in Cert : Around(p, c) /\ c.at = heard[p] => ~c.follow
    /\ cert[p] = NoCert /\ there[p].follow =>
          \E h \in Handlers : Busy(h, p) /\ handler[h].cert = there[p]

InStep(p) == Distinct(p) /\ OneRequest(p) /\ NothingNewer(p) /\ PeerKeeps(p)

\* One transaction at the peer holds the pair's row, and what it is about to
\* store is as new as all the peer has handled.
LockNewest(p) ==
    /\ \A k, l \in calls : k.p = p /\ l.p = p /\ k.stage = "locks" /\ l.stage = "locks" => k = l
    /\ \A k \in calls : k.p = p /\ k.stage = "locks" => k.cert.at >= heard[p]

\* The inductive invariant, on top of IInv.
AgreeInv ==
    /\ blocked \subseteq muddled
    /\ \A d \in Drains : drain[d].pc = "refused" => drain[d].p \in muddled
    /\ \A p \in Pairs \ muddled : InStep(p) /\ LockNewest(p)

\* What of p is undisturbed stays in step.
LEMMA Undisturbed ==
    ASSUME NEW p, InStep(p), second <= second',
           second \in Nat, second' \in Nat, heard[p] \in Nat,
           cert'[p] = cert[p], there'[p] = there[p], heard'[p] = heard[p],
           \A h \in Handlers : Busy(h, p)' <=> Busy(h, p),
           \A h \in Handlers : Busy(h, p) => handler'[h].cert = handler[h].cert,
           \A k \in calls' : k.p = p => k.cert = cert[p] \/ \E l \in calls : l.p = p /\ l.cert = k.cert,
           cert[p].at \in Nat
    PROVE  InStep(p)'
<1>0. Distinct(p) /\ OneRequest(p) /\ NothingNewer(p) /\ PeerKeeps(p)
  BY DEF InStep
<1>1. \A c : Around(p, c)' => Around(p, c)
  <2> SUFFICES ASSUME NEW c, Around(p, c)' PROVE Around(p, c)
    OBVIOUS
  <2>1. CASE c = cert'[p] \/ c = there'[p]
    BY <2>1 DEF Around
  <2>2. CASE \E h \in Handlers : Busy(h, p)' /\ c = handler'[h].cert
    BY <2>2 DEF Around
  <2>3. CASE \E k \in calls' : k.p = p /\ c = k.cert
    BY <2>3 DEF Around
  <2> QED
    BY <2>1, <2>2, <2>3 DEF Around
<1>2. Distinct(p)'
  <2>1. heard'[p] <= second'
    BY <1>0 DEF Distinct
  <2>2. ASSUME NEW c \in Cert, Around(p, c)'
        PROVE  c.at <= second'
    <3>1. c.at <= second
      BY <1>0, <1>1, <2>2 DEF Distinct
    <3>2. c.at \in Nat
      BY DEF Cert, Seconds
    <3> QED
      BY <3>1, <3>2
  <2>3. \A c, e \in Cert : Around(p, c)' /\ Around(p, e)' /\ c.at = e.at => c = e
    BY <1>0, <1>1 DEF Distinct
  <2> QED
    BY <2>1, <2>2, <2>3 DEF Distinct
<1>3. OneRequest(p)'
  BY <1>0 DEF OneRequest
<1>4. NothingNewer(p)'
  <2>1. ASSUME NEW k \in calls', k.p = p
        PROVE  \/ k.cert.at <= cert'[p].at \/ k.cert.at <= heard'[p]
               \/ \E h \in Handlers : Busy(h, p)' /\ handler'[h].cert = k.cert
    <3>1. CASE k.cert = cert[p]
      BY <3>1
    <3>2. ASSUME NEW l \in calls, l.p = p, l.cert = k.cert
          PROVE  \/ k.cert.at <= cert'[p].at \/ k.cert.at <= heard'[p]
                 \/ \E h \in Handlers : Busy(h, p)' /\ handler'[h].cert = k.cert
      BY <1>0, <3>2 DEF NothingNewer
    <3> QED
      BY <2>1, <3>1, <3>2
  <2>2. cert'[p] # NoCert =>
          \/ heard'[p] <= cert'[p].at
          \/ \E h \in Handlers : Busy(h, p)' /\ handler'[h].cert.at = heard'[p]
    BY <1>0 DEF NothingNewer
  <2> QED
    BY <2>1, <2>2 DEF NothingNewer
<1>5. PeerKeeps(p)'
  <2>1. \/ there'[p].at = heard'[p]
        \/ there'[p] = NoCert /\ \A c \in Cert : Around(p, c)' /\ c.at = heard'[p] => ~c.follow
    BY <1>0, <1>1 DEF PeerKeeps
  <2>2. cert'[p] = NoCert /\ there'[p].follow =>
          \E h \in Handlers : Busy(h, p)' /\ handler'[h].cert = there'[p]
    BY <1>0 DEF PeerKeeps
  <2> QED
    BY <2>1, <2>2 DEF PeerKeeps
<1> QED
  BY <1>2, <1>3, <1>4, <1>5 DEF InStep

\* The values of p.
LEMMA PairFields ==
    ASSUME TypeOK, NEW p \in Pairs
    PROVE  /\ second \in Nat \ {0} /\ heard[p] \in Nat
           /\ cert[p] \in Stored /\ cert[p].at \in Nat /\ cert[p].follow \in BOOLEAN
           /\ there[p] \in Stored /\ there[p].at \in Nat /\ there[p].follow \in BOOLEAN
           /\ cert[p] # NoCert => cert[p] \in Cert
           /\ there[p] # NoCert => there[p] \in Cert
           /\ \A h \in Handlers : Busy(h, p) => handler[h].cert \in Cert /\ handler[h].cert.at \in Nat \ {0}
           /\ \A k \in calls : k.cert \in Cert /\ k.cert.at \in Nat \ {0}
<1>1. second \in Nat \ {0} /\ heard[p] \in Nat /\ cert[p] \in Stored /\ there[p] \in Stored
  BY PeerQueueAssumption DEF TypeOK, Seconds
<1>2. /\ cert[p].at \in Nat /\ cert[p].follow \in BOOLEAN
      /\ there[p].at \in Nat /\ there[p].follow \in BOOLEAN
      /\ cert[p] # NoCert => cert[p] \in Cert
      /\ there[p] # NoCert => there[p] \in Cert
  BY <1>1, CertFields
<1>3. \A c \in Cert : c.at \in Nat \ {0}
  BY DEF Cert, Seconds
<1>4. ASSUME NEW h \in Handlers, Busy(h, p)
      PROVE  handler[h].cert \in Cert
  <2>1. handler[h] \in Handler \cup {Idle}
    BY DEF TypeOK
  <2> QED
    BY <1>4, <2>1, HandlerFields DEF Busy
<1>5. \A k \in calls : k.cert \in Cert
  BY DEF TypeOK, Call
<1> QED
  BY <1>1, <1>2, <1>3, <1>4, <1>5

\* No certificate is of second 0.
LEMMA AtZero ==
    /\ NoCert.at = 0 /\ NoCert.follow = FALSE /\ NoCert \notin Cert
    /\ \A c \in Cert : c.at \in Nat \ {0} /\ c.follow \in BOOLEAN
<1>1. \A c \in Cert : c.at \in Nat \ {0} /\ c.follow \in BOOLEAN
  BY DEF Cert, Seconds
<1>2. NoCert.at = 0 /\ NoCert.follow = FALSE
  BY DEF NoCert
<1> QED
  BY <1>1, <1>2

\* At rest, a pair in step is one the servers agree on.
LEMMA InStepAgrees ==
    ASSUME TypeOK, OwedOrHeard, NEW p \in Pairs, InStep(p), AtRest(p)
    PROVE  cert[p].follow = there[p].follow
<1>1. /\ heard[p] \in Nat
      /\ cert[p].at \in Nat /\ cert[p].follow \in BOOLEAN
      /\ there[p].at \in Nat /\ there[p].follow \in BOOLEAN
      /\ cert[p] # NoCert => cert[p] \in Cert
      /\ there[p] # NoCert => there[p] \in Cert
  BY PairFields
<1>2. \A h \in Handlers : ~Busy(h, p)
  BY DEF AtRest, Busy
<1>a. NothingNewer(p) /\ PeerKeeps(p)
  BY DEF InStep
<1>b. cert[p] # NoCert => heard[p] <= cert[p].at
  BY <1>2, <1>a DEF NothingNewer
<1>c. cert[p] = NoCert => ~there[p].follow
  BY <1>2, <1>a DEF PeerKeeps
<1>d. \/ there[p].at = heard[p]
      \/ there[p] = NoCert /\ \A c \in Cert : Around(p, c) /\ c.at = heard[p] => ~c.follow
  BY <1>a DEF PeerKeeps
<1>4. Around(p, cert[p]) /\ Around(p, there[p])
  BY DEF Around
<1>5. CASE cert[p] = NoCert
  BY <1>1, <1>5, <1>c, AtZero
<1>6. CASE cert[p] # NoCert
  <2>1. heard[p] = cert[p].at /\ cert[p] \in Cert
    BY <1>1, <1>6, <1>b DEF OwedOrHeard, AtRest
  <2>2. CASE there[p].at = heard[p]
    <3>1. there[p] \in Cert
      BY <1>1, <2>1, <2>2, AtZero
    <3>2. there[p] = cert[p]
      BY <1>4, <2>1, <2>2, <3>1 DEF InStep, Distinct
    <3> QED
      BY <3>2
  <2>3. CASE there[p] = NoCert /\ \A c \in Cert : Around(p, c) /\ c.at = heard[p] => ~c.follow
    BY <1>1, <1>4, <2>1, <2>3, AtZero
  <2> QED
    BY <1>d, <2>2, <2>3
<1> QED
  BY <1>5, <1>6

\* A request for a pair no other is being handled for, in a second of its own.
LEMMA SignInStep ==
    ASSUME TypeOK, NEW h \in Handlers, NEW p \in Pairs, NEW follow \in BOOLEAN,
           signFollow(h, p, follow), p \notin muddled', InStep(p)
    PROVE  InStep(p)'
<1> DEFINE c == [follow |-> follow, at |-> second]
<1>1. Distinct(p) /\ NothingNewer(p) /\ PeerKeeps(p)
  BY DEF InStep
<1>2. /\ \A g \in Handlers : ~Busy(g, p)
      /\ second # cert[p].at /\ second # heard[p]
  BY DEF signFollow, Overlaps, Busy
<1>3. /\ second \in Nat \ {0} /\ heard[p] \in Nat
      /\ cert[p].at \in Nat
      /\ there[p].at \in Nat
      /\ cert[p] # NoCert => cert[p] \in Cert
      /\ \A k \in calls : k.cert \in Cert /\ k.cert.at \in Nat \ {0}
  BY PairFields
<1>4. c \in Cert /\ c.at = second
  BY DEF Cert, TypeOK
<1>5. second' = second /\ cert' = cert /\ there' = there /\ heard' = heard
  BY DEF signFollow, here, peer
<1>6. /\ handler'[h].pc # "idle" /\ handler'[h].p = p /\ handler'[h].cert = c
      /\ \A g \in Handlers : g # h => handler'[g] = handler[g]
  BY DEF signFollow, TypeOK
<1>7. \A g \in Handlers : Busy(g, p)' => g = h
  BY <1>2, <1>6 DEF Busy
<1>8. Busy(h, p)'
  BY <1>6 DEF Busy
<1>9. \A k \in calls' : k \in calls \/ k.cert = c
  BY DEF signFollow, CallOf
<1>10. heard[p] < second
  BY <1>1, <1>2, <1>3 DEF Distinct
<1>11. cert[p].at < second
  <2>1. CASE cert[p] = NoCert
    BY <1>3, <2>1, AtZero
  <2>2. CASE cert[p] # NoCert
    <3>1. Around(p, cert[p])
      BY DEF Around
    <3> QED
      BY <1>1, <1>2, <1>3, <2>2, <3>1 DEF Distinct
  <2> QED
    BY <2>1, <2>2
<1>12. \A k \in calls : k.p = p => k.cert.at <= cert[p].at \/ k.cert.at <= heard[p]
  BY <1>1, <1>2 DEF NothingNewer
<1>13. ASSUME NEW e \in Cert, Around(p, e)
       PROVE  e.at < second
  <2>1. CASE e = cert[p]
    BY <1>11, <2>1
  <2>2. CASE e = there[p]
    <3>1. there[p].at = heard[p]
      BY <1>1, <2>2, AtZero DEF PeerKeeps
    <3> QED
      BY <1>10, <2>2, <3>1
  <2>3. ASSUME NEW k \in calls, k.p = p, e = k.cert
        PROVE  e.at < second
    BY <1>3, <1>10, <1>11, <1>12, <2>3
  <2> QED
    BY <1>2, <1>13, <2>1, <2>2, <2>3 DEF Around
<1>14. ASSUME NEW e, Around(p, e)'
       PROVE  e = c \/ Around(p, e)
  <2>1. CASE e = cert'[p] \/ e = there'[p]
    BY <1>5, <2>1 DEF Around
  <2>2. CASE \E g \in Handlers : Busy(g, p)' /\ e = handler'[g].cert
    BY <1>6, <1>7, <2>2
  <2>3. CASE \E k \in calls' : k.p = p /\ e = k.cert
    BY <1>9, <2>3 DEF Around
  <2> QED
    BY <1>14, <2>1, <2>2, <2>3 DEF Around
<1>15. Distinct(p)'
  <2>1. heard'[p] <= second'
    BY <1>1, <1>5 DEF Distinct
  <2>2. ASSUME NEW e \in Cert, Around(p, e)'
        PROVE  e.at <= second' /\ (e.at = second => e = c)
    <3>1. e = c \/ Around(p, e)
      BY <1>14, <2>2
    <3>2. e.at \in Nat
      BY AtZero
    <3> QED
      BY <1>3, <1>4, <1>5, <1>13, <3>1, <3>2
  <2>3. ASSUME NEW e \in Cert, NEW f \in Cert, Around(p, e)', Around(p, f)', e.at = f.at
        PROVE  e = f
    <3>1. CASE e.at = second
      BY <2>2, <2>3, <3>1
    <3>2. CASE e.at # second
      <4>1. Around(p, e) /\ Around(p, f)
        BY <1>4, <1>14, <2>3, <3>2
      <4> QED
        BY <1>1, <2>3, <4>1 DEF Distinct
    <3> QED
      BY <3>1, <3>2
  <2> QED
    BY <2>1, <2>2, <2>3 DEF Distinct
<1>16. OneRequest(p)'
  <2>1. \A g \in Handlers : Busy(g, p)' => handler'[g].cert.at > cert'[p].at
                                           /\ handler'[g].cert.at >= heard'[p]
    BY <1>3, <1>4, <1>5, <1>6, <1>7, <1>10, <1>11
  <2> QED
    BY <1>7, <2>1 DEF OneRequest
<1>17. NothingNewer(p)'
  <2>1. ASSUME NEW k \in calls', k.p = p
        PROVE  \/ k.cert.at <= cert'[p].at \/ k.cert.at <= heard'[p]
               \/ \E g \in Handlers : Busy(g, p)' /\ handler'[g].cert = k.cert
    BY <1>5, <1>6, <1>8, <1>9, <1>12, <2>1
  <2>2. cert'[p] # NoCert => heard'[p] <= cert'[p].at
    BY <1>1, <1>2, <1>5 DEF NothingNewer
  <2> QED
    BY <2>1, <2>2 DEF NothingNewer
<1>18. PeerKeeps(p)'
  <2>1. cert'[p] = NoCert => ~there'[p].follow
    BY <1>1, <1>2, <1>5 DEF PeerKeeps
  <2>2. CASE there[p].at = heard[p]
    BY <1>5, <2>1, <2>2 DEF PeerKeeps
  <2>3. CASE there[p] = NoCert /\ \A e \in Cert : Around(p, e) /\ e.at = heard[p] => ~e.follow
    <3>1. \A e \in Cert : Around(p, e)' /\ e.at = heard'[p] => ~e.follow
      BY <1>2, <1>4, <1>5, <1>14, <2>3
    <3> QED
      BY <1>5, <2>1, <2>3, <3>1 DEF PeerKeeps
  <2> QED
    BY <1>1, <2>2, <2>3 DEF PeerKeeps
<1> QED
  BY <1>15, <1>16, <1>17, <1>18 DEF InStep

\* A pair whose certificates become fewer.
LEMMA FewerDistinct ==
    ASSUME NEW p, Distinct(p), second' = second, heard'[p] = heard[p],
           \A c \in Cert : Around(p, c)' => Around(p, c)
    PROVE  Distinct(p)'
  BY DEF Distinct

\* The one request for a pair is stored.
LEMMA SaveInStep ==
    ASSUME TypeOK, NEW h \in Handlers, Taken(h), SaveFollowCert(h),
           NEW p \in Pairs, handler[h].p = p, InStep(p)
    PROVE  InStep(p)'
<1>0. handler[h] \in Handler \cup {Idle}
  BY DEF TypeOK
<1>2. PICK c \in Cert : c = handler[h].cert
  BY <1>0, HandlerFields DEF SaveFollowCert, SaveStages
<1>3. Distinct(p) /\ OneRequest(p) /\ NothingNewer(p) /\ PeerKeeps(p)
  BY DEF InStep
<1>4. /\ second \in Nat \ {0} /\ heard[p] \in Nat
      /\ cert[p].at \in Nat /\ there[p].at \in Nat
      /\ there[p] # NoCert => there[p] \in Cert
      /\ \A k \in calls : k.cert \in Cert /\ k.cert.at \in Nat \ {0}
  BY PairFields
<1>5. c.at \in Nat /\ c # NoCert
  BY <1>2, AtZero
<1>6. Busy(h, p) /\ Around(p, c)
  BY <1>2 DEF Busy, Around, SaveFollowCert
<1>7. /\ \A g \in Handlers : Busy(g, p) => g = h
      /\ c.at > cert[p].at /\ c.at >= heard[p]
  BY <1>2, <1>3, <1>6 DEF OneRequest
<1>8. second' = second /\ there' = there /\ heard' = heard /\ calls' = calls
  BY DEF SaveFollowCert, peer
<1>9. ASSUME NEW g \in Handlers
      PROVE  ~Busy(g, p)'
  <2>1. CASE g = h
    BY <2>1, SaveEnds DEF Busy, Idle
  <2>2. CASE g # h
    <3>1. ~Busy(g, p)
      BY <1>7, <2>2
    <3>2. handler'[g] = handler[g] \/ (handler[g].pc = "save" /\ handler[g].p = p)
      BY <2>2, SaveEnds
    <3> QED
      BY <3>1, <3>2 DEF Busy
  <2> QED
    BY <2>1, <2>2
<1>10. cert'[p] = Kept(c, handler[h].owe \/ queue[p] # 0)
  BY <1>2 DEF SaveFollowCert, TypeOK
<1>11. cert'[p] = c \/ (cert'[p] = NoCert /\ ~c.follow /\ heard[p] = c.at)
  <2>1. CASE cert'[p] = c
    BY <2>1
  <2>2. CASE cert'[p] # c
    <3>1. cert'[p] = NoCert /\ ~c.follow /\ ~handler[h].owe
      BY <1>10, <2>2 DEF Kept
    <3>2. heard[p] >= c.at
      BY <1>2, <3>1 DEF Taken, SaveFollowCert, SaveStages
    <3> QED
      BY <1>4, <1>5, <1>7, <3>1, <3>2
  <2> QED
    BY <2>1, <2>2
<1>12. ASSUME NEW e \in Cert, Around(p, e)'
       PROVE  Around(p, e)
  <2>1. e = cert'[p] \/ e = there[p] \/ \E k \in calls : k.p = p /\ e = k.cert
    BY <1>8, <1>9, <1>12 DEF Around
  <2>2. CASE e = cert'[p]
    BY <1>6, <1>11, <2>2, AtZero
  <2> QED
    BY <2>1, <2>2 DEF Around
<1>13. Distinct(p)'
  BY <1>3, <1>8, <1>12, FewerDistinct
<1>14. OneRequest(p)'
  BY <1>9 DEF OneRequest
<1>15. NothingNewer(p)'
  <2>1. ASSUME NEW k \in calls, k.p = p
        PROVE  k.cert.at <= cert'[p].at \/ k.cert.at <= heard[p]
    <3>1. k.cert.at <= c.at \/ k.cert.at <= heard[p]
      BY <1>2, <1>3, <1>4, <1>5, <1>7, <2>1 DEF NothingNewer
    <3> QED
      BY <1>11, <3>1
  <2>2. cert'[p] # NoCert => heard[p] <= cert'[p].at
    BY <1>4, <1>5, <1>7, <1>11
  <2> QED
    BY <1>8, <2>1, <2>2 DEF NothingNewer
<1>16. PeerKeeps(p)'
  <2>1. ASSUME cert'[p] = NoCert, there[p].follow
        PROVE  FALSE
    <3>1. ~c.follow /\ heard[p] = c.at
      BY <1>5, <1>11, <2>1
    <3>2. there[p] # NoCert
      BY <2>1, AtZero
    <3>3. there[p].at = heard[p] /\ there[p] \in Cert /\ Around(p, there[p])
      BY <1>3, <1>4, <3>2 DEF PeerKeeps, Around
    <3>4. there[p] = c
      BY <1>3, <1>6, <3>1, <3>3 DEF Distinct
    <3> QED
      BY <2>1, <3>1, <3>4
  <2>2. \/ there'[p].at = heard'[p]
        \/ there'[p] = NoCert /\ \A e \in Cert : Around(p, e)' /\ e.at = heard'[p] => ~e.follow
    BY <1>3, <1>8, <1>12 DEF PeerKeeps
  <2> QED
    BY <1>8, <2>1, <2>2 DEF PeerKeeps
<1> QED
  BY <1>13, <1>14, <1>15, <1>16 DEF InStep

\* A request whose call is over goes on for its pair and certificate.
LEMMA StaysBusy ==
    ASSUME TypeOK, CallsMatch, NEW k \in calls, NEW o, NEW d, Resume(k, o, d),
           o.pc # "idle", o.p = k.p, o.cert = k.cert, NEW q
    PROVE  /\ \A h \in Handlers : Busy(h, q)' <=> Busy(h, q)
           /\ \A h \in Handlers : Busy(h, q) => handler'[h].cert = handler[h].cert
<1>1. CASE k.by \in Handlers
  <2>1. handler[k.by] = [pc |-> "offer", p |-> k.p, cert |-> k.cert]
    BY <1>1 DEF CallsMatch
  <2>2. /\ handler'[k.by] = o
        /\ \A h \in Handlers : h # k.by => handler'[h] = handler[h]
    BY <1>1 DEF Resume, TypeOK
  <2> QED
    BY <2>1, <2>2 DEF Busy
<1>2. CASE k.by \notin Handlers
  BY <1>2 DEF Resume, Busy
<1> QED
  BY <1>1, <1>2

\* The peer takes a certificate of the pair.
LEMMA TakeInStep ==
    ASSUME TypeOK, CallsMatch, NEW k \in calls, PeerTakes(k) \/ PeerSkips(k),
           NEW p \in Pairs, k.p = p, p \notin muddled', InStep(p), LockNewest(p)
    PROVE  InStep(p)'
<1> DEFINE c == k.cert
<1>1. Distinct(p) /\ OneRequest(p) /\ NothingNewer(p) /\ PeerKeeps(p)
  BY DEF InStep
<1>2. /\ second \in Nat \ {0} /\ heard[p] \in Nat
      /\ cert[p].at \in Nat /\ there[p].at \in Nat
      /\ cert[p] # NoCert => cert[p] \in Cert
      /\ there[p] # NoCert => there[p] \in Cert
      /\ \A h \in Handlers : Busy(h, p) => handler[h].cert \in Cert /\ handler[h].cert.at \in Nat \ {0}
      /\ \A l \in calls : l.cert \in Cert /\ l.cert.at \in Nat \ {0}
  BY PairFields
<1>3. /\ second' = second /\ cert' = cert
      /\ heard'[p] = Later(heard[p], c.at)
  BY DEF PeerTakes, PeerSkips, PeerAnswers, here, TypeOK
<1>a. \A l \in calls' : \E m \in calls : l.p = m.p /\ l.cert = m.cert
  <2>1. CASE PeerTakes(k)
    BY <2>1, TakeEnds
  <2>2. CASE PeerSkips(k)
    BY <2>2 DEF PeerSkips
  <2> QED
    BY <2>1, <2>2
<1>4. /\ c \in Cert /\ c.at \in Nat \ {0} /\ Around(p, c)
  BY <1>2 DEF Around
<1>5. /\ \A h \in Handlers : Busy(h, p)' <=> Busy(h, p)
      /\ \A h \in Handlers : Busy(h, p) => handler'[h].cert = handler[h].cert
  <2>1. Resume(k, [pc |-> "save", p |-> k.p, cert |-> k.cert, owe |-> FALSE],
                  [drain[k.by] EXCEPT !.pc = "answered"])
    BY DEF PeerTakes, PeerSkips, PeerAnswers
  <2>2. \A o, d : Resume(k, o, d) /\ o.pc # "idle" /\ o.p = k.p /\ o.cert = k.cert =>
          /\ \A h \in Handlers : Busy(h, p)' <=> Busy(h, p)
          /\ \A h \in Handlers : Busy(h, p) => handler'[h].cert = handler[h].cert
    BY StaysBusy
  <2> QED
    BY <2>1, <2>2
<1>6. \/ there[p].at <= c.at /\ c.at >= heard[p] /\ there'[p] = c /\ heard'[p] = c.at
      \/ there[p].at >= c.at /\ there'[p] = there[p] /\ heard'[p] = heard[p] /\ heard[p] = there[p].at
  <2>1. CASE PeerTakes(k)
    <3>1. there'[p] = c
      BY <2>1, KeptOrNot DEF PeerTakes, TypeOK
    <3>2. c.at >= heard[p]
      <4>1. CASE k.stage = "locks"
        BY <4>1 DEF LockNewest
      <4>2. CASE k.stage = "blind"
        BY <1>2, <1>4, <2>1, <4>2 DEF PeerTakes, TypeOK
      <4> QED
        BY <2>1, <4>1, <4>2 DEF PeerTakes
    <3>3. there[p].at <= heard[p]
      BY <1>1, <1>2, AtZero DEF PeerKeeps
    <3> QED
      BY <1>2, <1>3, <1>4, <3>1, <3>2, <3>3 DEF Later
  <2>2. CASE PeerSkips(k)
    <3>1. there'[p] = there[p] /\ there[p].at >= c.at
      BY <1>2, <1>4, <2>2 DEF PeerSkips, Supersedes
    <3>2. there[p] # NoCert
      BY <1>4, <3>1, AtZero
    <3>3. there[p].at = heard[p]
      BY <1>1, <3>2 DEF PeerKeeps
    <3> QED
      BY <1>2, <1>3, <1>4, <3>1, <3>3 DEF Later
  <2> QED
    BY <2>1, <2>2
<1>7. heard[p] <= heard'[p] /\ heard'[p] \in Nat /\ (heard'[p] = heard[p] \/ heard'[p] = c.at)
  BY <1>2, <1>4, <1>6
<1>8. ASSUME NEW e \in Cert, Around(p, e)'
      PROVE  Around(p, e)
  <2>1. CASE e = cert'[p]
    BY <1>3, <2>1 DEF Around
  <2>2. CASE e = there'[p]
    BY <1>4, <1>6, <2>2 DEF Around
  <2>3. CASE \E h \in Handlers : Busy(h, p)' /\ e = handler'[h].cert
    BY <1>5, <2>3 DEF Around
  <2>4. CASE \E l \in calls' : l.p = p /\ e = l.cert
    <3>1. PICK l \in calls : l.p = p /\ e = l.cert
      BY <1>a, <2>4
    <3> QED
      BY <3>1 DEF Around
  <2> QED
    BY <1>8, <2>1, <2>2, <2>3, <2>4 DEF Around
<1>9. \/ c.at <= cert[p].at \/ c.at <= heard[p]
      \/ \E h \in Handlers : Busy(h, p) /\ handler[h].cert = c
  BY <1>1 DEF NothingNewer
<1>10. Distinct(p)'
  <2>1. heard'[p] <= second'
    BY <1>1, <1>3, <1>4, <1>7 DEF Distinct
  <2> QED
    BY <1>1, <1>3, <1>8, <2>1 DEF Distinct
<1>11. OneRequest(p)'
  <2>1. ASSUME NEW h \in Handlers, Busy(h, p)
        PROVE  handler[h].cert.at > cert[p].at /\ handler[h].cert.at >= heard'[p]
    <3>1. handler[h].cert.at > cert[p].at /\ handler[h].cert.at >= heard[p] /\ handler[h].cert.at \in Nat
      BY <1>1, <1>2, <2>1 DEF OneRequest
    <3>2. \A g \in Handlers : Busy(g, p) => g = h
      BY <1>1, <2>1 DEF OneRequest
    <3>3. handler[h].cert.at >= c.at
      BY <1>2, <1>4, <1>9, <3>1, <3>2
    <3> QED
      BY <1>7, <3>1, <3>3
  <2> QED
    BY <1>1, <1>3, <1>5, <2>1 DEF OneRequest
<1>12. NothingNewer(p)'
  <2>1. ASSUME NEW l \in calls', l.p = p
        PROVE  \/ l.cert.at <= cert[p].at \/ l.cert.at <= heard'[p]
               \/ \E h \in Handlers : Busy(h, p) /\ handler[h].cert = l.cert
    <3>1. PICK m \in calls : m.p = p /\ l.cert = m.cert /\ l.cert.at \in Nat
      BY <1>2, <1>a, <2>1
    <3>2. \/ l.cert.at <= cert[p].at \/ l.cert.at <= heard[p]
          \/ \E h \in Handlers : Busy(h, p) /\ handler[h].cert = l.cert
      BY <1>1, <3>1 DEF NothingNewer
    <3> QED
      BY <1>2, <1>7, <3>1, <3>2
  <2>2. ASSUME cert[p] # NoCert
        PROVE  \/ heard'[p] <= cert[p].at
               \/ \E h \in Handlers : Busy(h, p) /\ handler[h].cert.at = heard'[p]
    <3>1. \/ heard[p] <= cert[p].at
          \/ \E h \in Handlers : Busy(h, p) /\ handler[h].cert.at = heard[p]
      BY <1>1, <2>2 DEF NothingNewer
    <3>2. CASE heard'[p] = heard[p]
      BY <3>1, <3>2
    <3>3. CASE heard'[p] = c.at /\ heard[p] < c.at
      BY <1>2, <1>4, <1>9, <3>3
    <3> QED
      BY <1>2, <1>4, <1>6, <3>2, <3>3
  <2>3. \A l \in calls' : l.p = p =>
          \/ l.cert.at <= cert'[p].at \/ l.cert.at <= heard'[p]
          \/ \E h \in Handlers : Busy(h, p)' /\ handler'[h].cert = l.cert
    BY <1>3, <1>5, <2>1
  <2>4. cert'[p] # NoCert =>
          \/ heard'[p] <= cert'[p].at
          \/ \E h \in Handlers : Busy(h, p)' /\ handler'[h].cert.at = heard'[p]
    BY <1>3, <1>5, <2>2
  <2> QED
    BY <2>3, <2>4 DEF NothingNewer
<1>13. PeerKeeps(p)'
  <2>1. there'[p].at = heard'[p]
    BY <1>6
  <2>2. ASSUME cert[p] = NoCert, there'[p].follow
        PROVE  \E h \in Handlers : Busy(h, p) /\ handler[h].cert = there'[p]
    <3>1. CASE there'[p] = there[p]
      BY <1>1, <2>2, <3>1 DEF PeerKeeps
    <3>2. CASE there[p].at <= c.at /\ c.at >= heard[p] /\ there'[p] = c /\ there'[p] # there[p]
      <4>1. CASE \E h \in Handlers : Busy(h, p) /\ handler[h].cert = c
        BY <3>2, <4>1
      <4>2. CASE ~ \E h \in Handlers : Busy(h, p) /\ handler[h].cert = c
        <5>1. c.at = heard[p]
          BY <1>2, <1>4, <1>9, <2>2, <3>2, <4>2, AtZero
        <5>2. there[p].at # heard[p]
          <6>1. ASSUME there[p].at = c.at
                PROVE  FALSE
            <7>1. there[p] \in Cert /\ Around(p, there[p])
              BY <1>2, <1>4, <6>1, AtZero DEF Around
            <7>2. there[p] = c
              BY <1>1, <1>4, <6>1, <7>1 DEF Distinct
            <7> QED
              BY <3>2, <7>2
          <6> QED
            BY <5>1, <6>1
        <5>3. ~c.follow
          BY <1>1, <1>4, <5>1, <5>2 DEF PeerKeeps
        <5> QED
          BY <2>2, <3>2, <5>3
      <4> QED
        BY <4>1, <4>2
    <3> QED
      BY <1>6, <3>1, <3>2
  <2>3. cert'[p] = NoCert /\ there'[p].follow =>
          \E h \in Handlers : Busy(h, p)' /\ handler'[h].cert = there'[p]
    BY <1>3, <1>5, <2>2
  <2> QED
    BY <2>1, <2>3 DEF PeerKeeps
<1> QED
  BY <1>10, <1>11, <1>12, <1>13 DEF InStep

\* An unfollow that is not owed is dropped here.
LEMMA SettledInStep ==
    ASSUME TypeOK, OwedOrHeard, NEW d \in Drains, Settled(d),
           NEW p \in Pairs, drain[d].p = p, InStep(p)
    PROVE  InStep(p)'
<1>1. Distinct(p) /\ OneRequest(p) /\ NothingNewer(p) /\ PeerKeeps(p)
  BY DEF InStep
<1>2. /\ heard[p] \in Nat
      /\ cert[p].at \in Nat /\ there[p].at \in Nat
      /\ cert[p] # NoCert => cert[p] \in Cert
      /\ there[p] # NoCert => there[p] \in Cert
      /\ \A h \in Handlers : Busy(h, p) => handler[h].cert \in Cert /\ handler[h].cert.at \in Nat \ {0}
      /\ \A k \in calls : k.cert \in Cert /\ k.cert.at \in Nat \ {0}
  BY PairFields
<1>3. /\ UNCHANGED <<second, there, heard, calls, handler>>
      /\ \A h \in Handlers : Busy(h, p)' <=> Busy(h, p)
  BY DEF Settled, peer, Busy
<1>4. cert'[p] = Kept(cert[p], queue[p] # 0)
  BY DEF Settled, TypeOK
<1>5. \/ cert'[p] = cert[p]
      \/ cert'[p] = NoCert /\ cert[p] # NoCert /\ ~cert[p].follow /\ heard[p] >= cert[p].at
  <2>1. CASE cert'[p] = cert[p]
    BY <2>1
  <2>2. CASE cert'[p] # cert[p]
    <3>1. cert'[p] = NoCert /\ ~cert[p].follow /\ queue[p] = 0
      BY <1>4, <2>2 DEF Kept
    <3> QED
      BY <2>2, <3>1 DEF OwedOrHeard
  <2> QED
    BY <2>1, <2>2
<1>6. ASSUME NEW e \in Cert, Around(p, e)'
      PROVE  Around(p, e)
  <2>1. e = cert[p] \/ e = there[p] \/ (\E h \in Handlers : Busy(h, p) /\ e = handler[h].cert)
        \/ \E k \in calls : k.p = p /\ e = k.cert
    BY <1>3, <1>5, <1>6, AtZero DEF Around
  <2> QED
    BY <2>1 DEF Around
<1>7. Distinct(p)'
  BY <1>1, <1>3, <1>6, FewerDistinct
<1>8. CASE cert'[p] = cert[p]
  <2>1. second \in Nat /\ second' \in Nat
    BY <1>3, PairFields
  <2>2. \A k \in calls' : k.p = p => \E l \in calls : l.p = p /\ l.cert = k.cert
    BY <1>3
  <2> QED
    BY <1>2, <1>3, <1>8, <2>1, <2>2, Undisturbed
<1>9. CASE cert'[p] = NoCert /\ cert[p] # NoCert /\ ~cert[p].follow /\ heard[p] >= cert[p].at
  <2>1. OneRequest(p)'
    <3>1. \A h \in Handlers : Busy(h, p) => handler[h].cert.at > cert'[p].at
      BY <1>2, <1>9, AtZero
    <3> QED
      BY <1>1, <1>3, <3>1 DEF OneRequest
  <2>2. NothingNewer(p)'
    <3>1. ASSUME NEW k \in calls, k.p = p
          PROVE  \/ k.cert.at <= heard[p]
                 \/ \E h \in Handlers : Busy(h, p) /\ handler[h].cert = k.cert
      BY <1>1, <1>2, <1>9, <3>1 DEF NothingNewer
    <3> QED
      BY <1>3, <1>9, <3>1 DEF NothingNewer
  <2>3. ASSUME there[p].follow
        PROVE  \E h \in Handlers : Busy(h, p) /\ handler[h].cert = there[p]
    <3>1. there[p] # NoCert
      BY <2>3, AtZero
    <3>2. there[p].at = heard[p] /\ there[p] \in Cert /\ Around(p, there[p]) /\ Around(p, cert[p])
      BY <1>1, <1>2, <3>1 DEF PeerKeeps, Around
    <3>3. cert[p].at # heard[p]
      BY <1>1, <1>2, <1>9, <2>3, <3>2 DEF Distinct
    <3>4. PICK h \in Handlers : Busy(h, p) /\ handler[h].cert.at = heard[p]
      BY <1>1, <1>2, <1>9, <3>3 DEF NothingNewer
    <3>5. Around(p, handler[h].cert) /\ handler[h].cert \in Cert
      BY <1>2, <3>4 DEF Around
    <3>6. handler[h].cert = there[p]
      BY <1>1, <3>2, <3>4, <3>5 DEF Distinct
    <3> QED
      BY <3>4, <3>6
  <2>4. \/ there'[p].at = heard'[p]
        \/ there'[p] = NoCert /\ \A e \in Cert : Around(p, e)' /\ e.at = heard'[p] => ~e.follow
    BY <1>1, <1>3, <1>6 DEF PeerKeeps
  <2>5. PeerKeeps(p)'
    BY <1>3, <2>3, <2>4 DEF PeerKeeps
  <2> QED
    BY <1>7, <2>1, <2>2, <2>5 DEF InStep
<1> QED
  BY <1>5, <1>8, <1>9

\* An unfollow that was acknowledged is dropped at the peer.
LEMMA AckInStep ==
    ASSUME TypeOK, NEW p \in Pairs, AckFollowEvent(p), InStep(p)
    PROVE  InStep(p)'
<1>1. Distinct(p) /\ OneRequest(p) /\ NothingNewer(p) /\ PeerKeeps(p)
  BY DEF InStep
<1>2. /\ there[p] # NoCert => there[p] \in Cert
      /\ there[p] # NoCert
  BY PairFields DEF AckFollowEvent, TypeOK
<1>3. /\ UNCHANGED <<second, cert, heard, calls, handler>>
      /\ \A h \in Handlers : Busy(h, p)' <=> Busy(h, p)
  BY DEF AckFollowEvent, here, Busy
<1>4. there'[p] = there[p] \/ (there'[p] = NoCert /\ ~there[p].follow)
  BY DEF AckFollowEvent, Kept, TypeOK
<1>5. ASSUME NEW e \in Cert, Around(p, e)'
      PROVE  Around(p, e)
  <2>1. e = cert[p] \/ e = there[p] \/ (\E h \in Handlers : Busy(h, p) /\ e = handler[h].cert)
        \/ \E k \in calls : k.p = p /\ e = k.cert
    BY <1>3, <1>4, <1>5, AtZero DEF Around
  <2> QED
    BY <2>1 DEF Around
<1>6. Distinct(p)'
  BY <1>1, <1>3, <1>5, FewerDistinct
<1>7. OneRequest(p)'
  BY <1>1, <1>3 DEF OneRequest
<1>8. NothingNewer(p)'
  BY <1>1, <1>3 DEF NothingNewer
<1>9. PeerKeeps(p)'
  <2>1. cert'[p] = NoCert /\ there'[p].follow =>
          \E h \in Handlers : Busy(h, p)' /\ handler'[h].cert = there'[p]
    BY <1>1, <1>3, <1>4, AtZero DEF PeerKeeps
  <2>2. there[p].at = heard[p] /\ Around(p, there[p]) /\ there[p] \in Cert
    BY <1>1, <1>2 DEF PeerKeeps, Around
  <2>3. CASE there'[p] = there[p]
    BY <1>3, <2>1, <2>2, <2>3 DEF PeerKeeps
  <2>4. CASE there'[p] = NoCert /\ ~there[p].follow
    <3>1. ASSUME NEW e \in Cert, Around(p, e)', e.at = heard'[p]
          PROVE  ~e.follow
      <4>1. e = there[p]
        BY <1>1, <1>3, <1>5, <2>2, <3>1 DEF Distinct
      <4> QED
        BY <2>4, <4>1
    <3> QED
      BY <2>1, <2>4, <3>1 DEF PeerKeeps
  <2> QED
    BY <1>4, <2>3, <2>4
<1> QED
  BY <1>6, <1>7, <1>8, <1>9 DEF InStep

\* A step that is not about p.
LEMMA Aside ==
    ASSUME TypeOK, TypeOK', NEW p \in Pairs, InStep(p), second <= second',
           cert'[p] = cert[p], there'[p] = there[p], heard'[p] = heard[p],
           \A h \in Handlers : handler'[h] = handler[h] \/ (~Busy(h, p) /\ ~Busy(h, p)'),
           \A k \in calls' : k.p = p => k.cert = cert[p] \/ \E l \in calls : l.p = p /\ l.cert = k.cert
    PROVE  InStep(p)'
<1>1. /\ \A h \in Handlers : Busy(h, p)' <=> Busy(h, p)
      /\ \A h \in Handlers : Busy(h, p) => handler'[h].cert = handler[h].cert
  BY DEF Busy
<1>2. /\ second \in Nat /\ second' \in Nat
      /\ heard[p] \in Nat /\ cert[p].at \in Nat
  BY PairFields DEF TypeOK, Seconds
<1> QED
  BY <1>1, <1>2, Undisturbed

\* Every pair that stays clear of muddles stays in step, whatever a handler does.
LEMMA HandlerInStep ==
    ASSUME TypeOK, TypeOK', \A h \in Handlers : Taken(h), NEW p \in Pairs, p \notin muddled', InStep(p),
           NEW h \in Handlers,
           \/ \E q \in Pairs, follow \in BOOLEAN : signFollow(h, q, follow)
           \/ SaveReads(h) \/ SaveSkips(h) \/ SaveFollowCert(h) \/ Abandon(h)
    PROVE  InStep(p)'
<1>0. second \in Nat
  BY PairFields
<1>1. ASSUME NEW q \in Pairs, NEW follow \in BOOLEAN, signFollow(h, q, follow)
      PROVE  InStep(p)'
  <2>1. CASE q = p
    BY <1>1, <2>1, SignInStep
  <2>2. CASE q # p
    <3>1. second' = second /\ cert' = cert /\ there' = there /\ heard' = heard
      BY <1>1 DEF signFollow, here, peer
    <3>2. /\ handler[h].pc = "idle" /\ handler'[h].p = q
          /\ \A g \in Handlers : g # h => handler'[g] = handler[g]
      BY <1>1 DEF signFollow, TypeOK
    <3>3. \A g \in Handlers : handler'[g] = handler[g] \/ (~Busy(g, p) /\ ~Busy(g, p)')
      BY <2>2, <3>2 DEF Busy
    <3>4. \A k \in calls' : k \in calls \/ k.p = q
      BY <1>1 DEF signFollow, CallOf
    <3>5. \A k \in calls' : k.p = p => k.cert = cert[p] \/ \E l \in calls : l.p = p /\ l.cert = k.cert
      BY <2>2, <3>4
    <3> QED
      BY <1>0, <3>1, <3>3, <3>5, Aside
  <2> QED
    BY <2>1, <2>2
<1>2. CASE SaveFollowCert(h)
  <2>1. CASE handler[h].p = p
    BY <1>2, <2>1, SaveInStep
  <2>2. CASE handler[h].p # p
    <3>1. second' = second /\ cert'[p] = cert[p] /\ there' = there /\ heard' = heard /\ calls' = calls
      BY <1>2, <2>2 DEF SaveFollowCert, peer, TypeOK
    <3>3. ASSUME NEW g \in Handlers
          PROVE  handler'[g] = handler[g] \/ (~Busy(g, p) /\ ~Busy(g, p)')
      <4>1. CASE g = h
        BY <1>2, <2>2, <4>1, SaveEnds DEF Busy, Idle
      <4>2. CASE g # h
        BY <1>2, <2>2, <4>2, SaveEnds DEF Busy
      <4> QED
        BY <4>1, <4>2
    <3> QED
      BY <1>0, <3>1, <3>3, Aside
  <2> QED
    BY <2>1, <2>2
<1>3. CASE Abandon(h)
  <2>1. second' = second /\ cert' = cert /\ there' = there /\ heard' = heard /\ calls' = calls
    BY <1>3 DEF Abandon, here, peer
  <2>2. /\ handler'[h].pc = "idle" /\ handler[h].p # p
        /\ \A g \in Handlers : g # h => handler'[g] = handler[g]
    BY <1>3 DEF Abandon, TypeOK, Idle
  <2>3. \A g \in Handlers : handler'[g] = handler[g] \/ (~Busy(g, p) /\ ~Busy(g, p)')
    BY <2>2 DEF Busy
  <2> QED
    BY <1>0, <2>1, <2>3, Aside
<1>4. CASE SaveReads(h) \/ SaveSkips(h)
  <2>0. handler[h] \in Handler \cup {Idle} /\ handler[h].pc \in SaveStages
    BY <1>4 DEF SaveReads, SaveSkips, SaveStages, TypeOK
  <2>1. second' = second /\ cert' = cert /\ there' = there /\ heard' = heard /\ calls' = calls
    BY <1>4 DEF SaveReads, SaveSkips, here, peer
  <2>2. \A g \in Handlers : g # h => handler'[g] = handler[g]
    BY <1>4 DEF SaveReads, SaveSkips, TypeOK
  <2>3. CASE handler[h].p = p
    <3>1. handler[h].pc # "idle" /\ Busy(h, p) /\ handler[h].cert \in Cert
      BY <2>0, <2>3, HandlerFields DEF Busy, SaveStages
    <3>2. handler[h].cert.at > cert[p].at
      BY <3>1 DEF InStep, OneRequest
    <3>3. SaveReads(h)
      BY <1>4, <2>3, <3>2 DEF SaveSkips, Supersedes
    <3>4. PICK pc \in SaveStages : handler'[h] = [handler[h] EXCEPT !.pc = pc]
      BY <3>3 DEF SaveReads, SaveStages, TypeOK
    <3>5. handler'[h].pc # "idle" /\ handler'[h].p = p /\ handler'[h].cert = handler[h].cert
      BY <2>0, <2>3, <3>4, SavingGoesOn DEF SaveStages
    <3>6. /\ \A g \in Handlers : Busy(g, p)' <=> Busy(g, p)
          /\ \A g \in Handlers : Busy(g, p) => handler'[g].cert = handler[g].cert
      BY <2>2, <3>1, <3>5 DEF Busy
    <3>7. \A k \in calls' : k.p = p => \E l \in calls : l.p = p /\ l.cert = k.cert
      BY <2>1
    <3>8. heard[p] \in Nat /\ cert[p].at \in Nat
      BY PairFields
    <3> QED
      BY <1>0, <2>1, <3>6, <3>7, <3>8, Undisturbed
  <2>4. CASE handler[h].p # p
    <3>1. \/ handler'[h] = Idle
          \/ \E pc \in SaveStages : handler'[h] = [handler[h] EXCEPT !.pc = pc]
      BY <1>4 DEF SaveReads, SaveSkips, SaveStages, TypeOK
    <3>2. ~Busy(h, p)'
      <4>1. CASE handler'[h] = Idle
        BY <4>1 DEF Busy, Idle
      <4>2. ASSUME NEW pc \in SaveStages, handler'[h] = [handler[h] EXCEPT !.pc = pc]
            PROVE  ~Busy(h, p)'
        <5>1. handler'[h].p = handler[h].p
          BY <2>0, <4>2, SavingGoesOn
        <5> QED
          BY <2>4, <5>1 DEF Busy
      <4> QED
        BY <3>1, <4>1, <4>2
    <3>3. \A g \in Handlers : handler'[g] = handler[g] \/ (~Busy(g, p) /\ ~Busy(g, p)')
      BY <2>2, <2>4, <3>2 DEF Busy
    <3> QED
      BY <1>0, <2>1, <3>3, Aside
  <2> QED
    BY <2>3, <2>4
<1> QED
  BY <1>1, <1>2, <1>3, <1>4

\* And whatever comes of a call.
LEMMA CallInStep ==
    ASSUME TypeOK, TypeOK', CallsMatch, blocked \subseteq muddled,
           NEW p \in Pairs, p \notin muddled', InStep(p), LockNewest(p), NEW k \in calls,
           \/ PeerPasses(k) \/ PeerReads(k) \/ PeerSkips(k) \/ PeerTakes(k)
           \/ PeerRefuses(k) \/ GiveUp(k)
    PROVE  InStep(p)'
<1>0. second \in Nat /\ heard[p] \in Nat /\ cert[p].at \in Nat /\ k \in Call
  BY PairFields DEF TypeOK
<1>1. CASE PeerPasses(k) \/ PeerReads(k)
  <2>1. second' = second /\ cert' = cert /\ there' = there /\ heard' = heard /\ handler' = handler
    BY <1>1 DEF PeerPasses, PeerReads, here, peer
  <2>2. \A l \in calls' : l.p = p => l.cert = cert[p] \/ \E m \in calls : m.p = p /\ m.cert = l.cert
    <3>2. PICK st \in SaveStages : calls' = (calls \ {k}) \cup {[k EXCEPT !.stage = st]}
      BY <1>1 DEF PeerPasses, PeerReads, SaveStages
    <3>1. [k EXCEPT !.stage = st].p = k.p /\ [k EXCEPT !.stage = st].cert = k.cert
      BY <1>0, CallGoesOn
    <3> QED
      BY <3>1, <3>2
  <2> QED
    BY <1>0, <2>1, <2>2, Aside
<1>2. CASE PeerTakes(k) \/ PeerSkips(k)
  <2>1. CASE k.p = p
    BY <1>2, <2>1, TakeInStep
  <2>2. CASE k.p # p
    <3>1. second' = second /\ cert' = cert /\ there'[p] = there[p] /\ heard'[p] = heard[p]
      BY <1>2, <2>2 DEF PeerTakes, PeerSkips, PeerAnswers, here, TypeOK
    <3>2. Resume(k, [pc |-> "save", p |-> k.p, cert |-> k.cert, owe |-> FALSE],
                    [drain[k.by] EXCEPT !.pc = "answered"])
      BY <1>2 DEF PeerTakes, PeerSkips, PeerAnswers
    <3>3. \A o, d : Resume(k, o, d) /\ o.pc # "idle" /\ o.p = k.p /\ o.cert = k.cert =>
            /\ \A h \in Handlers : Busy(h, p)' <=> Busy(h, p)
            /\ \A h \in Handlers : Busy(h, p) => handler'[h].cert = handler[h].cert
      BY StaysBusy
    <3>4. /\ \A h \in Handlers : Busy(h, p)' <=> Busy(h, p)
          /\ \A h \in Handlers : Busy(h, p) => handler'[h].cert = handler[h].cert
      BY <3>2, <3>3
    <3>5. \A l \in calls' : l.p = p => l.cert = cert[p] \/ \E m \in calls : m.p = p /\ m.cert = l.cert
      <4>1. CASE PeerTakes(k)
        BY <4>1, TakeEnds
      <4>2. CASE PeerSkips(k)
        BY <4>2 DEF PeerSkips
      <4> QED
        BY <1>2, <4>1, <4>2
    <3> QED
      BY <1>0, <3>1, <3>4, <3>5, Undisturbed
  <2> QED
    BY <2>1, <2>2
<1>3. CASE PeerRefuses(k)
  <2>1. k.p # p /\ k.p \in Pairs
    BY <1>0, <1>3, CallGoesOn DEF PeerRefuses
  <2>2. second' = second /\ there' = there /\ heard'[p] = heard[p] /\ calls' = calls \ {k}
    BY <1>3, <2>1 DEF PeerRefuses, peer, TypeOK
  <2>3. cert'[p] = cert[p]
    BY <1>3, <2>1 DEF PeerRefuses, AcceptBlock, TypeOK
  <2>4. \A h \in Handlers : handler'[h] = handler[h] \/ (~Busy(h, p) /\ ~Busy(h, p)')
    <3>1. CASE k.by \in Handlers
      <4>a. handler[k.by] = [pc |-> "offer", p |-> k.p, cert |-> k.cert]
        BY <3>1 DEF CallsMatch
      <4>1. handler[k.by].p = k.p
        BY <4>a
      <4>2. handler'[k.by].pc = "idle" /\ \A h \in Handlers : h # k.by => handler'[h] = handler[h]
        BY <1>3, <3>1 DEF PeerRefuses, Resume, TypeOK, Idle
      <4> QED
        BY <2>1, <4>1, <4>2 DEF Busy
    <3>2. CASE k.by \notin Handlers
      BY <1>3, <3>2 DEF PeerRefuses, Resume
    <3> QED
      BY <3>1, <3>2
  <2> QED
    BY <1>0, <2>2, <2>3, <2>4, Aside
<1>4. CASE GiveUp(k)
  <2>1. second' = second /\ cert' = cert /\ there' = there /\ heard' = heard
    BY <1>4 DEF GiveUp, here, peer
  <2>2. Resume(k, [pc |-> "save", p |-> k.p, cert |-> k.cert, owe |-> TRUE], [pc |-> "release"])
    BY <1>4 DEF GiveUp
  <2>3. \A o, d : Resume(k, o, d) /\ o.pc # "idle" /\ o.p = k.p /\ o.cert = k.cert =>
          /\ \A h \in Handlers : Busy(h, p)' <=> Busy(h, p)
          /\ \A h \in Handlers : Busy(h, p) => handler'[h].cert = handler[h].cert
    BY StaysBusy
  <2>4. /\ \A h \in Handlers : Busy(h, p)' <=> Busy(h, p)
        /\ \A h \in Handlers : Busy(h, p) => handler'[h].cert = handler[h].cert
    BY <2>2, <2>3
  <2>5. [k EXCEPT !.by = Nobody].p = k.p /\ [k EXCEPT !.by = Nobody].cert = k.cert
    BY <1>0 DEF Call
  <2>6. \A l \in calls' : l.p = p => l.cert = cert[p] \/ \E m \in calls : m.p = p /\ m.cert = l.cert
    BY <1>4, <2>5 DEF GiveUp
  <2> QED
    BY <1>0, <2>1, <2>4, <2>6, Undisturbed
<1> QED
  BY <1>1, <1>2, <1>3, <1>4

\* What of the peer's transactions is undisturbed keeps its newest.
LEMMA LockStays ==
    ASSUME NEW p, LockNewest(p), heard'[p] = heard[p],
           \A k \in calls' : k.p = p /\ k.stage = "locks" => k \in calls
    PROVE  LockNewest(p)'
  BY DEF LockNewest

\* The lock is kept by one, and by the newest, whatever becomes of a call.
LEMMA LockCalls ==
    ASSUME TypeOK, blocked \subseteq muddled, NEW p \in Pairs, p \notin muddled', muddled \subseteq muddled',
           InStep(p), LockNewest(p), NEW k \in calls,
           \/ PeerPasses(k) \/ PeerReads(k) \/ PeerSkips(k) \/ PeerTakes(k)
           \/ PeerRefuses(k) \/ GiveUp(k)
    PROVE  LockNewest(p)'
<1>0. /\ k \in Call /\ k.p \in Pairs
      /\ [k EXCEPT !.by = Nobody].by = Nobody
      /\ \A s : /\ [k EXCEPT !.stage = s].p = k.p /\ [k EXCEPT !.stage = s].stage = s
               /\ [k EXCEPT !.stage = s].cert = k.cert
  BY DEF TypeOK, Call
<1>1. CASE PeerPasses(k)
  <2>1. heard' = heard /\ calls' = (calls \ {k}) \cup {[k EXCEPT !.stage = "save"]}
    BY <1>1 DEF PeerPasses
  <2>2. [k EXCEPT !.stage = "save"].stage = "save"
    BY <1>0
  <2> QED
    BY <2>1, <2>2, LockStays
<1>2. CASE PeerReads(k)
  <2>1. PICK s : /\ s = IF there[k.p] = NoCert THEN "blind" ELSE "locks"
                 /\ calls' = (calls \ {k}) \cup {[k EXCEPT !.stage = s]}
    BY <1>2 DEF PeerReads
  <2>2. heard' = heard
    BY <1>2 DEF PeerReads
  <2>3. CASE k.p # p \/ s # "locks"
    <3>1. ASSUME NEW l \in calls', l.p = p, l.stage = "locks"
          PROVE  l \in calls
      BY <1>0, <2>1, <2>3, <3>1
    <3> QED
      BY <2>2, <3>1, LockStays
  <2>4. CASE k.p = p /\ s = "locks"
    <3>1. \A l \in calls : ~(l.p = p /\ l.stage = "locks")
      BY <1>2, <2>4 DEF PeerReads, LockedThere
    <3>2. there[p] # NoCert /\ there[p].at = heard[p]
      BY <2>1, <2>4 DEF InStep, PeerKeeps
    <3>3. k.cert.at >= heard[p]
      <4>1. k.cert.at \in Nat /\ there[p].at \in Nat /\ heard[p] \in Nat
        BY PairFields
      <4>2. CASE k.stage = "save"
        BY <1>2, <2>4, <3>2, <4>1, <4>2 DEF PeerReads, Supersedes
      <4>3. CASE k.stage = "missed"
        BY <1>2, <2>4, <4>1, <4>3 DEF PeerReads, TypeOK
      <4> QED
        BY <1>2, <4>2, <4>3 DEF PeerReads
    <3>4. \A l \in calls' : l.p = p /\ l.stage = "locks" => l = [k EXCEPT !.stage = s]
      BY <2>1, <3>1
    <3> QED
      BY <1>0, <2>2, <3>3, <3>4 DEF LockNewest
  <2> QED
    BY <2>3, <2>4
<1>3. CASE PeerSkips(k)
  <2>1. calls' = calls \ {k}
    BY <1>3 DEF PeerSkips
  <2>2. CASE k.p = p
    <3>1. \A l \in calls' : ~(l.p = p /\ l.stage = "locks")
      BY <1>3, <2>1, <2>2 DEF PeerSkips, LockedThere
    <3> QED
      BY <3>1 DEF LockNewest
  <2>3. CASE k.p # p
    <3>1. heard'[p] = heard[p]
      BY <1>3, <2>3 DEF PeerSkips, PeerAnswers, TypeOK
    <3> QED
      BY <2>1, <3>1, LockStays
  <2> QED
    BY <2>2, <2>3
<1>4. CASE PeerTakes(k)
  <2>1. PICK W \in SUBSET {l \in calls : there[k.p] # NoCert /\ l.stage = "save" /\ l.p = k.p} :
          calls' = (calls \ (W \cup {k})) \cup {[l EXCEPT !.stage = "missed"] : l \in W}
    BY <1>4 DEF PeerTakes
  <2>2. \A l \in W : [l EXCEPT !.stage = "missed"].stage = "missed"
    BY <2>1 DEF TypeOK, Call
  <2>3. \A l \in calls' : l.stage = "locks" => l \in calls \ {k}
    BY <2>1, <2>2
  <2>4. CASE k.p = p
    <3>1. \A l \in calls' : ~(l.p = p /\ l.stage = "locks")
      BY <1>4, <2>3, <2>4 DEF PeerTakes, LockedThere, LockNewest
    <3> QED
      BY <3>1 DEF LockNewest
  <2>5. CASE k.p # p
    <3>1. heard'[p] = heard[p]
      BY <1>4, <2>5 DEF PeerTakes, PeerAnswers, TypeOK
    <3> QED
      BY <2>3, <3>1, LockStays
  <2> QED
    BY <2>4, <2>5
<1>5. CASE PeerRefuses(k)
  <2>1. calls' = calls \ {k} /\ k.p # p
    BY <1>5 DEF PeerRefuses
  <2>2. heard'[p] = heard[p]
    BY <1>5, <2>1 DEF PeerRefuses, TypeOK
  <2> QED
    BY <2>1, <2>2, LockStays
<1>6. CASE GiveUp(k)
  <2> DEFINE n == [k EXCEPT !.by = Nobody]
  <2>1. heard' = heard /\ calls' \subseteq (calls \ {k}) \cup {n}
    BY <1>6 DEF GiveUp
  <2>2. n.p = k.p /\ n.stage = k.stage /\ n.cert = k.cert
    BY <1>0 DEF Call
  <2> HIDE DEF n
  <2>3. CASE k.p = p /\ k.stage = "locks"
    <3>1. \A l \in calls' : l.p = p /\ l.stage = "locks" => l = n
      BY <2>1, <2>3 DEF LockNewest
    <3> QED
      BY <2>1, <2>2, <2>3, <3>1 DEF LockNewest
  <2>4. CASE ~(k.p = p /\ k.stage = "locks")
    <3>1. \A l \in calls' : l.p = p /\ l.stage = "locks" => l \in calls
      BY <2>1, <2>2, <2>4
    <3> QED
      BY <2>1, <3>1, LockStays
  <2> QED
    BY <2>3, <2>4
<1> QED
  BY <1>1, <1>2, <1>3, <1>4, <1>5, <1>6

\* Nothing else touches what the peer's transactions hold.
LEMMA LockElsewhere ==
    ASSUME TypeOK, NEW p \in Pairs, LockNewest(p),
           \/ \E h \in Handlers :
                 \/ \E q \in Pairs, follow \in BOOLEAN : signFollow(h, q, follow)
                 \/ SaveReads(h) \/ SaveSkips(h) \/ SaveFollowCert(h) \/ Abandon(h)
           \/ \E d \in Drains : ClaimPeerEvents(d) \/ Works(d)
           \/ Tick \/ Crash \/ ClaimExpires
           \/ \E d \in BOOLEAN : SetPeerDown(d)
           \/ \E q \in Pairs : AckFollowEvent(q) \/ InsertBlock(q) \/ BlockNotifyFromPeer(q)
           \/ UNCHANGED vars
    PROVE  LockNewest(p)'
<1>1. \A g, q, c : CallOf(g, q, c).stage \in {"sent", "save"}
  BY DEF CallOf
<1>2. ASSUME NEW h \in Handlers, NEW q \in Pairs, NEW follow \in BOOLEAN, signFollow(h, q, follow)
      PROVE  LockNewest(p)'
  <2>1. heard' = heard /\ \A k \in calls' : k.stage = "locks" => k \in calls
    BY <1>1, <1>2 DEF signFollow
  <2> QED
    BY <2>1, LockStays
<1>3. ASSUME NEW d \in Drains, ClaimPeerEvents(d) \/ Works(d)
      PROVE  LockNewest(p)'
  <2>1. heard' = heard
    BY <1>3 DEF Works, ClaimPeerEvents, NextPeerEvent, Build, UndoRefusedFollow, Settle, Settled,
                ReleasePeerEvents
  <2>2. \A k \in calls' : k.stage = "locks" => k \in calls
    <3>1. CASE Build(d)
      BY <1>1, <3>1 DEF Build
    <3>2. CASE ~Build(d)
      BY <1>3, <3>2 DEF Works, ClaimPeerEvents, NextPeerEvent, UndoRefusedFollow, Settle, Settled,
                        ReleasePeerEvents
    <3> QED
      BY <3>1, <3>2
  <2> QED
    BY <2>1, <2>2, LockStays
<1>4. CASE Crash
  <2>1. PICK S \in SUBSET calls : calls' = {[k EXCEPT !.by = Nobody] : k \in S}
    BY <1>4 DEF Crash
  <2>2. heard' = heard
    BY <1>4 DEF Crash
  <2>3. \A k \in calls : /\ [k EXCEPT !.by = Nobody].p = k.p
                        /\ [k EXCEPT !.by = Nobody].stage = k.stage
                        /\ [k EXCEPT !.by = Nobody].cert = k.cert
    BY DEF TypeOK, Call
  <2>4. ASSUME NEW k \in calls', NEW l \in calls', k.p = p, l.p = p, k.stage = "locks", l.stage = "locks"
        PROVE  k = l /\ k.cert.at >= heard[p]
    <3>1. PICK m \in calls : k = [m EXCEPT !.by = Nobody]
      BY <2>1
    <3>2. PICK o \in calls : l = [o EXCEPT !.by = Nobody]
      BY <2>1
    <3>3. m.p = p /\ m.stage = "locks" /\ k.cert = m.cert /\ o.p = p /\ o.stage = "locks"
      BY <2>3, <2>4, <3>1, <3>2
    <3>4. m = o /\ m.cert.at >= heard[p]
      BY <3>3 DEF LockNewest
    <3> QED
      BY <3>1, <3>2, <3>3, <3>4
  <2> QED
    BY <2>2, <2>4 DEF LockNewest
<1>5. CASE \/ \E h \in Handlers : SaveReads(h) \/ SaveSkips(h) \/ SaveFollowCert(h) \/ Abandon(h)
           \/ Tick \/ ClaimExpires
           \/ \E d \in BOOLEAN : SetPeerDown(d)
           \/ \E q \in Pairs : AckFollowEvent(q) \/ InsertBlock(q) \/ BlockNotifyFromPeer(q)
           \/ UNCHANGED vars
  <2>1. heard' = heard /\ calls' = calls
    BY <1>5 DEF SaveReads, SaveSkips, SaveFollowCert, Abandon, Tick, ClaimExpires, SetPeerDown,
                AckFollowEvent, InsertBlock, BlockNotifyFromPeer, vars
  <2> QED
    BY <2>1, LockStays
<1> QED
  BY <1>2, <1>3, <1>4, <1>5

\* And whatever a drain does.
LEMMA DrainInStep ==
    ASSUME TypeOK, TypeOK', OwedOrHeard, NEW p \in Pairs, p \notin muddled', InStep(p), NEW d \in Drains,
           drain[d].pc = "refused" => drain[d].p \in muddled,
           ClaimPeerEvents(d) \/ Works(d)
    PROVE  InStep(p)'
<1>0. second \in Nat /\ drain[d] \in Drain \cup {Idle}
  BY PairFields DEF TypeOK
<1>1. UNCHANGED <<second, there, heard, handler, muddled>>
  BY DEF Works, ClaimPeerEvents, NextPeerEvent, Build, UndoRefusedFollow, Settle, Settled,
         ReleasePeerEvents, here, peer
<1>2. CASE cert'[p] = cert[p] /\ calls' = calls
  BY <1>0, <1>1, <1>2, Aside
<1>3. CASE ClaimPeerEvents(d) \/ NextPeerEvent(d) \/ Settle(d) \/ ReleasePeerEvents(d)
  BY <1>2, <1>3 DEF ClaimPeerEvents, NextPeerEvent, Settle, ReleasePeerEvents, here
<1>4. CASE Build(d)
  <2>1. cert' = cert
    BY <1>4 DEF Build, here
  <2>2. \A k \in calls' : k.p = p => k.cert = cert[p] \/ \E l \in calls : l.p = p /\ l.cert = k.cert
    BY <1>4 DEF Build, CallOf
  <2> QED
    BY <1>0, <1>1, <2>1, <2>2, Aside
<1>5. CASE UndoRefusedFollow(d)
  <2>1. drain[d].p # p /\ calls' = calls
    BY <1>1, <1>5 DEF UndoRefusedFollow
  <2>2. cert'[p] = cert[p]
    BY <1>5, <2>1 DEF UndoRefusedFollow, TypeOK
  <2> QED
    BY <1>2, <2>1, <2>2
<1>6. CASE Settled(d)
  <2>1. CASE drain[d].p = p
    BY <1>6, <2>1, SettledInStep
  <2>2. CASE drain[d].p # p
    <3>1. cert'[p] = cert[p] /\ calls' = calls
      BY <1>6, <2>2 DEF Settled, TypeOK
    <3> QED
      BY <1>2, <3>1
  <2> QED
    BY <2>1, <2>2
<1> QED
  BY <1>3, <1>4, <1>5, <1>6 DEF Works

\* And whatever else happens.
LEMMA OtherInStep ==
    ASSUME TypeOK, TypeOK', blocked \subseteq muddled, NEW p \in Pairs, p \notin muddled', InStep(p),
           \/ Tick \/ Crash \/ ClaimExpires
           \/ \E d \in BOOLEAN : SetPeerDown(d)
           \/ \E q \in Pairs : AckFollowEvent(q) \/ InsertBlock(q) \/ BlockNotifyFromPeer(q)
           \/ UNCHANGED vars
    PROVE  InStep(p)'
<1>0. second \in Nat
  BY PairFields
<1>1. ASSUME UNCHANGED <<heard, handler, calls>>, second <= second', cert'[p] = cert[p], there'[p] = there[p]
      PROVE  InStep(p)'
  BY <1>1, Aside
<1>2. CASE Tick \/ ClaimExpires \/ (\E d \in BOOLEAN : SetPeerDown(d)) \/ UNCHANGED vars
  <2>1. UNCHANGED <<heard, handler, calls, cert, there>>
    BY <1>2 DEF Tick, ClaimExpires, SetPeerDown, vars, here, peer
  <2>2. second <= second'
    BY <1>0, <1>2 DEF Tick, ClaimExpires, SetPeerDown, vars, here, peer
  <2> QED
    BY <1>1, <2>1, <2>2
<1>3. CASE Crash
  <2>1. UNCHANGED <<second, cert, there, heard>>
    BY <1>3 DEF Crash, here, peer
  <2>2. \A h \in Handlers : ~Busy(h, p) /\ ~Busy(h, p)'
    BY <1>3 DEF Crash, Busy, Idle
  <2>3. \A k \in calls : [k EXCEPT !.by = Nobody].p = k.p /\ [k EXCEPT !.by = Nobody].cert = k.cert
    BY DEF Call, TypeOK
  <2>4. \A k \in calls' : k.p = p => k.cert = cert[p] \/ \E l \in calls : l.p = p /\ l.cert = k.cert
    <3>1. PICK S \in SUBSET calls : calls' = {[k EXCEPT !.by = Nobody] : k \in S}
      BY <1>3 DEF Crash
    <3>2. \A k \in calls' : \E l \in calls : k = [l EXCEPT !.by = Nobody]
      BY <3>1
    <3>3. ASSUME NEW k \in calls', k.p = p
          PROVE  \E l \in calls : l.p = p /\ l.cert = k.cert
      <4>1. PICK l \in calls : k = [l EXCEPT !.by = Nobody]
        BY <3>2
      <4>2. k.p = l.p /\ k.cert = l.cert
        BY <2>3, <4>1
      <4> QED
        BY <3>3, <4>2
    <3> QED
      BY <3>3
  <2> QED
    BY <1>0, <2>1, <2>2, <2>4, Aside
<1>4. ASSUME NEW q \in Pairs, AckFollowEvent(q)
      PROVE  InStep(p)'
  <2>1. CASE q = p
    BY <1>4, <2>1, AckInStep
  <2>2. CASE q # p
    <3>1. UNCHANGED <<second, heard, handler, calls, cert>> /\ there'[p] = there[p]
      BY <1>4, <2>2 DEF AckFollowEvent, here, TypeOK
    <3> QED
      BY <1>0, <1>1, <3>1
  <2> QED
    BY <2>1, <2>2
<1>5. ASSUME NEW q \in Pairs, InsertBlock(q)
      PROVE  InStep(p)'
  <2>1. q # p
    BY <1>5 DEF InsertBlock, TypeOK
  <2> QED
    BY <1>0, <1>1, <1>5, <2>1 DEF InsertBlock, here, TypeOK
<1>6. ASSUME NEW q \in Pairs, BlockNotifyFromPeer(q)
      PROVE  InStep(p)'
  <2>1. q # p
    BY <1>6 DEF BlockNotifyFromPeer
  <2> QED
    BY <1>0, <1>1, <1>6, <2>1 DEF BlockNotifyFromPeer, AcceptBlock, peer, TypeOK
<1> QED
  BY <1>2, <1>3, <1>4, <1>5, <1>6

\* Muddles stay, blocks muddle, and only a blocked pair's follow is refused.
LEMMA MuddleStep ==
    ASSUME TypeOK, CallsMatch, blocked \subseteq muddled,
           \A d \in Drains : drain[d].pc = "refused" => drain[d].p \in muddled,
           [Next]_vars
    PROVE  /\ muddled \subseteq muddled'
           /\ blocked' \subseteq muddled'
           /\ \A d \in Drains : drain'[d].pc = "refused" => drain'[d].p \in muddled'
<1>1. ASSUME muddled \subseteq muddled', blocked' = blocked,
             \A d \in Drains : drain'[d] = drain[d] \/ drain'[d].pc # "refused"
      PROVE  /\ blocked' \subseteq muddled'
             /\ \A d \in Drains : drain'[d].pc = "refused" => drain'[d].p \in muddled'
  BY <1>1
<1>2. CASE \E h \in Handlers :
              \/ \E p \in Pairs, follow \in BOOLEAN : signFollow(h, p, follow)
              \/ SaveReads(h) \/ SaveSkips(h) \/ SaveFollowCert(h) \/ Abandon(h)
  <2>1. muddled \subseteq muddled' /\ blocked' = blocked /\ drain' = drain
    BY <1>2 DEF signFollow, SaveReads, SaveSkips, SaveFollowCert, Abandon, peer
  <2> QED
    BY <1>1, <2>1
<1>3. ASSUME NEW k \in calls, PeerPasses(k) \/ PeerReads(k) \/ GiveUp(k)
      PROVE  /\ muddled \subseteq muddled' /\ blocked' = blocked
             /\ \A d \in Drains : drain'[d] = drain[d] \/ drain'[d].pc # "refused"
  BY <1>3 DEF PeerPasses, PeerReads, GiveUp, Resume, TypeOK, peer
<1>4. ASSUME NEW k \in calls, PeerTakes(k) \/ PeerSkips(k)
      PROVE  /\ muddled \subseteq muddled' /\ blocked' = blocked
             /\ \A d \in Drains : drain'[d] = drain[d] \/ drain'[d].pc # "refused"
  <2>1. muddled \subseteq muddled' /\ blocked' = blocked
    BY <1>4 DEF PeerTakes, PeerSkips, PeerAnswers
  <2>2. k.by \in Drains => [drain[k.by] EXCEPT !.pc = "answered"].pc = "answered"
    BY DrainAnswered DEF CallsMatch, TypeOK
  <2>3. \A d \in Drains : drain'[d] = drain[d] \/ drain'[d].pc # "refused"
    BY <1>4, <2>2 DEF PeerTakes, PeerSkips, PeerAnswers, Resume, TypeOK
  <2> QED
    BY <2>1, <2>3
<1>5. ASSUME NEW k \in calls, PeerRefuses(k)
      PROVE  /\ muddled \subseteq muddled' /\ blocked' = blocked
             /\ \A d \in Drains : drain'[d].pc = "refused" => drain'[d].p \in muddled'
  <2>1. muddled' = muddled /\ blocked' = blocked /\ k.p \in muddled
    BY <1>5 DEF PeerRefuses, peer
  <2>2. ASSUME NEW d \in Drains, drain'[d].pc = "refused"
        PROVE  drain'[d].p \in muddled
    <3>1. CASE k.by = d
      <4>1. drain[d].p = k.p /\ drain[d].pc = "call" /\ drain[d] \in Drain \cup {Idle}
        BY <3>1 DEF CallsMatch, TypeOK
      <4>2. drain'[d] = [drain[d] EXCEPT !.pc = "refused"]
        BY <1>5, <3>1 DEF PeerRefuses, Resume, TypeOK
      <4>3. drain'[d].p = k.p
        BY <4>1, <4>2, DrainAnswered
      <4> QED
        BY <2>1, <4>3
    <3>2. CASE k.by # d
      <4>1. drain'[d] = drain[d]
        BY <1>5, <3>2 DEF PeerRefuses, Resume, TypeOK
      <4> QED
        BY <2>2, <4>1
    <3> QED
      BY <3>1, <3>2
  <2> QED
    BY <2>1, <2>2
<1>6. ASSUME NEW d \in Drains, ClaimPeerEvents(d) \/ Works(d)
      PROVE  /\ muddled \subseteq muddled' /\ blocked' = blocked
             /\ \A g \in Drains : drain'[g] = drain[g] \/ drain'[g].pc # "refused"
  <2>1. muddled' = muddled /\ blocked' = blocked
    BY <1>6 DEF Works, ClaimPeerEvents, NextPeerEvent, Build, UndoRefusedFollow, Settle, Settled,
                ReleasePeerEvents, peer
  <2>2. \A g \in Drains : g # d => drain'[g] = drain[g]
    BY <1>6 DEF Works, ClaimPeerEvents, NextPeerEvent, Build, UndoRefusedFollow, Settle, Settled,
                ReleasePeerEvents, Go, TypeOK
  <2>3. drain'[d].pc # "refused"
    <3>1. CASE UndoRefusedFollow(d)
      <4>1. drain[d] \in Drain \cup {Idle} /\ drain[d].pc = "refused"
        BY <3>1 DEF UndoRefusedFollow, TypeOK
      <4>2. drain'[d] = [drain[d] EXCEPT !.pc = "answered"]
        BY <3>1 DEF UndoRefusedFollow, Go, TypeOK
      <4> QED
        BY <4>1, <4>2, DrainAnswered
    <3>2. CASE Build(d)
      BY <3>2 DEF Build, Go, TypeOK
    <3>3. CASE ClaimPeerEvents(d) \/ NextPeerEvent(d) \/ ReleasePeerEvents(d)
      BY <3>3 DEF ClaimPeerEvents, NextPeerEvent, ReleasePeerEvents, Go, TypeOK, Idle
    <3>4. CASE Settle(d) \/ Settled(d)
      BY <3>4 DEF Settle, Settled, AfterSettle, Go, TypeOK
    <3> QED
      BY <1>6, <3>1, <3>2, <3>3, <3>4 DEF Works
  <2> QED
    BY <2>1, <2>2, <2>3
<1>7. CASE Tick \/ ClaimExpires \/ (\E d \in BOOLEAN : SetPeerDown(d)) \/ UNCHANGED vars
  <2>1. muddled' = muddled /\ blocked' = blocked /\ drain' = drain
    BY <1>7 DEF Tick, ClaimExpires, SetPeerDown, vars, peer
  <2> QED
    BY <1>1, <2>1
<1>8. CASE Crash
  <2>1. muddled \subseteq muddled' /\ blocked' = blocked /\ \A d \in Drains : drain'[d].pc # "refused"
    BY <1>8 DEF Crash, peer, Idle
  <2> QED
    BY <1>1, <2>1
<1>9. ASSUME NEW p \in Pairs, AckFollowEvent(p) \/ BlockNotifyFromPeer(p)
      PROVE  muddled' = muddled /\ blocked' = blocked /\ drain' = drain
  BY <1>9 DEF AckFollowEvent, BlockNotifyFromPeer, peer
<1>10. ASSUME NEW p \in Pairs, InsertBlock(p)
       PROVE  blocked' = blocked \cup {p} /\ muddled' = muddled \cup {p} /\ drain' = drain
  BY <1>10 DEF InsertBlock
<1> QED
  BY <1>1, <1>2, <1>3, <1>4, <1>5, <1>6, <1>7, <1>8, <1>9, <1>10 DEF Next

\* Everything that is not muddled stays in step.
LEMMA AgreeStep ==
    ASSUME IInv, AgreeInv, [Next]_vars
    PROVE  AgreeInv'
<1>1. /\ TypeOK /\ CallsMatch /\ OwedOrHeard /\ \A h \in Handlers : Taken(h)
      /\ TypeOK'
  BY Step DEF IInv, Delivery
<1>2. /\ blocked \subseteq muddled
      /\ \A d \in Drains : drain[d].pc = "refused" => drain[d].p \in muddled
      /\ \A p \in Pairs : p \notin muddled => InStep(p) /\ LockNewest(p)
  BY DEF AgreeInv
<1>3. /\ muddled \subseteq muddled'
      /\ blocked' \subseteq muddled'
      /\ \A d \in Drains : drain'[d].pc = "refused" => drain'[d].p \in muddled'
  BY <1>1, <1>2, MuddleStep
<1>4. ASSUME NEW p \in Pairs, p \notin muddled'
      PROVE  InStep(p)' /\ LockNewest(p)'
  <2>1. InStep(p) /\ LockNewest(p)
    BY <1>2, <1>3, <1>4
  <2>2. CASE \E h \in Handlers :
                \/ \E q \in Pairs, follow \in BOOLEAN : signFollow(h, q, follow)
                \/ SaveReads(h) \/ SaveSkips(h) \/ SaveFollowCert(h) \/ Abandon(h)
    BY <1>1, <1>4, <2>1, <2>2, HandlerInStep, LockElsewhere
  <2>3. CASE \E k \in calls : \/ PeerPasses(k) \/ PeerReads(k) \/ PeerSkips(k) \/ PeerTakes(k)
                             \/ PeerRefuses(k) \/ GiveUp(k)
    BY <1>1, <1>2, <1>4, <2>1, <1>3, <2>3, CallInStep, LockCalls
  <2>4. CASE \E d \in Drains : ClaimPeerEvents(d) \/ Works(d)
    BY <1>1, <1>2, <1>4, <2>1, <2>4, DrainInStep, LockElsewhere
  <2>5. CASE \/ Tick \/ Crash \/ ClaimExpires
             \/ \E d \in BOOLEAN : SetPeerDown(d)
             \/ \E q \in Pairs : AckFollowEvent(q) \/ InsertBlock(q) \/ BlockNotifyFromPeer(q)
             \/ UNCHANGED vars
    BY <1>1, <1>2, <1>4, <2>1, <2>5, OtherInStep, LockElsewhere
  <2> QED
    BY <2>2, <2>3, <2>4, <2>5 DEF Next
<1> QED
  BY <1>3, <1>4 DEF AgreeInv

\* Nothing has happened at the start.
LEMMA AgreeStart ==
    ASSUME Init
    PROVE  AgreeInv
<1>1. blocked \subseteq muddled /\ \A d \in Drains : drain[d].pc = "refused" => drain[d].p \in muddled
  BY DEF Init, Idle
<1>2. ASSUME NEW p \in Pairs
      PROVE  InStep(p) /\ LockNewest(p)
  <2>1. /\ second = 1 /\ cert[p] = NoCert /\ there[p] = NoCert /\ heard[p] = 0 /\ calls = {}
        /\ \A h \in Handlers : ~Busy(h, p)
    BY DEF Init, Busy, Idle
  <2>2. \A c \in Cert : ~Around(p, c)
    BY <2>1, AtZero DEF Around
  <2>3. Distinct(p)
    BY <2>1, <2>2 DEF Distinct
  <2>4. OneRequest(p) /\ NothingNewer(p)
    BY <2>1 DEF OneRequest, NothingNewer
  <2>5. PeerKeeps(p)
    BY <2>1, AtZero DEF PeerKeeps
  <2>6. LockNewest(p)
    BY <2>1 DEF LockNewest
  <2> QED
    BY <2>3, <2>4, <2>5, <2>6 DEF InStep
<1> QED
  BY <1>1, <1>2 DEF AgreeInv

\* The servers agree on a pair at rest, whatever the pairs, requests and
\* drains and however often calls are lost or late, unless the pair was
\* muddled (signFollow, saveFollowCertTx, dropSettledUnfollowTx).
THEOREM ServersAgree == Spec => []AgreeUnlessMuddled
<1>1. Init => AgreeInv
  BY AgreeStart
<1>2. IInv /\ AgreeInv /\ [Next]_vars => AgreeInv'
  BY AgreeStep
<1>3. IInv /\ AgreeInv => AgreeUnlessMuddled
  BY InStepAgrees DEF IInv, Delivery, AgreeInv, AgreeUnlessMuddled
<1> QED
  BY <1>1, <1>2, <1>3, Inductive, PTL DEF Spec

=============================================================================
