------------------------------ MODULE Publish ------------------------------
(***************************************************************************)
(* Publishing and removing the reeds of one author, who may use several    *)
(* devices at once: signing a reed or a thread on the tip of the author's  *)
(* history, PUBLISH_READY, signed removals, and what of all this is owed   *)
(* to a peer (handlers.go SignReed, CreateThread, DeleteReed, DeleteThread *)
(* and the statements of services.go they run).                            *)
(*                                                                         *)
(* A handler reads what is stored, takes the second of its countersignature*)
(* and only then opens the transaction that stores it; two steps here.     *)
(***************************************************************************)
EXTENDS Naturals, Sequences, FiniteSets

CONSTANTS
    MaxReeds,       \* BOUND: ids the devices use; ids are ordered as uuidv7s are
    Publications,   \* BOUND: reeds <<i>> and threads <<i, j>> they may sign
    Signatures,     \* BOUND: user signatures over one subject (contents differ)
    Workers,       \* BOUND: requests handled at once (model values)
    MaxRequests,    \* BOUND: requests the devices make that are not replays
    MaxClock        \* BOUND: seconds

Reeds == 1 .. MaxReeds
Stamps == 1 .. MaxClock

ASSUME PublishAssumption ==
    /\ MaxReeds \in Nat
    /\ Publications \subseteq {<<i>> : i \in Reeds} \cup
                              {p \in Reeds \X Reeds : p[1] < p[2]}
    /\ Signatures \subseteq Nat \ {0}
    /\ MaxRequests \in Nat
    /\ MaxClock \in Nat \ {0}

\* A countersigned statement: who said it and in which second we signed it.
Countersigned == [sig : Signatures, stamp : Stamps]
NotSigned == [sig |-> 0, stamp |-> 0]

\* reeds: the row's statement, the tip it was put on (history: the server
\* checks it and forgets it), thread_head (0: not of a thread), published_at.
ReedRow == [cert : Countersigned \cup {NotSigned}, prev : Reeds \cup {0},
            head : Reeds \cup {0}, published : BOOLEAN]
NoReed == [cert |-> NotSigned, prev |-> 0, head |-> 0, published |-> FALSE]

\* What a handler has read and means to store.
NoJob == [step |-> "idle"]
Job ==   {NoJob}
    \cup [step : {"create"}, ids : Publications, prev : Reeds \cup {0}, cert : Countersigned]
    \cup [step : {"remove", "removeThread"}, id : Reeds, cert : Countersigned]

VARIABLES
    reeds,      \* reeds and reed_threads
    removals,   \* reed_removals, and thread_removals at a thread's head
    stash,      \* pending_fanout
    owed,       \* peer_event_queue of one peer, oldest first
    told,       \* what that peer has been told of each reed
    job,        \* what each handler is at
    requests,   \* requests made so far
    clock,      \* the second it is
    strayed,    \* history: kinds of answers that were not what is stored
    disordered, \* history: a reed was stored below the tip it was put on
    late        \* history: reeds published after their removal

publishVars == <<reeds, removals, stash, owed, told, job, requests,
                 clock, strayed, disordered, late>>
publishTables == <<reeds, removals, stash, owed, told>>

InTable(i) == reeds[i].cert # NotSigned
Removed(i) == removals[i] # NotSigned
Live == {i \in Reeds : InTable(i) /\ ~Removed(i)}
Parts(i) == {j \in Reeds : reeds[j].head = i}
IsThread(i) == Parts(i) # {}

\* ORDER BY signed_at DESC, id DESC: the order tips are taken in.
Newer(i, j) == \/ reeds[i].cert.stamp > reeds[j].cert.stamp
               \/ reeds[i].cert.stamp = reeds[j].cert.stamp /\ i > j

\* Variant that must fail: the first reed's empty previousID passes always.
IsTip_EmptyPasses(i) == i = 0 \/ (i \in Live /\ \A j \in Live \ {i} : Newer(i, j))
\* checkReedTipTx: the newest reed that is not removed, 0 if there is none.
IsTip(i) == IF Live = {} THEN i = 0
            ELSE i \in Live /\ \A j \in Live \ {i} : Newer(i, j)

\* Where a reed stored now would stand.
WouldLead(i, stamp) ==
    \A j \in Live : \/ reeds[j].cert.stamp < stamp
                    \/ reeds[j].cert.stamp = stamp /\ j < i

\* A 200 or 201 that carries cert, where kept is what the tables have.
HandsOut(op, cert, kept) == strayed' = IF cert = kept THEN strayed ELSE strayed \cup {op}
Done(h) == job' = [job EXCEPT ![h] = NoJob]

----------------------------------------------------------------------------
PublishInit ==
    /\ reeds = [i \in Reeds |-> NoReed]
    /\ removals = [i \in Reeds |-> NotSigned]
    /\ stash = {}
    /\ owed = <<>>
    /\ told = [i \in Reeds |-> "unheard"]
    /\ job = [h \in Workers |-> NoJob]
    /\ requests = 0
    /\ clock = 1
    /\ strayed = {}
    /\ disordered = FALSE
    /\ late = {}

PublishTick ==
    /\ clock < MaxClock
    /\ clock' = clock + 1
    /\ UNCHANGED <<publishTables, job, requests, strayed, disordered, late>>

----------------------------------------------------------------------------
(* Signing.                                                                *)

\* GetReedAttestation or GetThreadRecord finds what the request is about.
AlreadyThere(ids) == IF Len(ids) = 1 THEN InTable(ids[1]) ELSE IsThread(ids[1])

\* What is there already is answered with the stored countersignature, or with
\* a conflict if the user signature differs (respondSignReedReplay,
\* respondThreadReplay); else this is what the handler is about to store.
Countersign(h, ids, prev, sig) ==
    /\ job[h] = NoJob
    /\ requests < MaxRequests
    /\ requests' = requests + 1
    /\ ~AlreadyThere(ids)
    /\ prev \in {0} \cup {i \in Reeds : InTable(i)}
    /\ job' = [job EXCEPT ![h] = [step |-> "create", ids |-> ids, prev |-> prev,
                                  cert |-> [sig |-> sig, stamp |-> clock]]]
    /\ UNCHANGED <<publishTables, clock, strayed, disordered, late>>

\* The two handlers up to the transaction.
SignReed(h, ids, prev, sig) == Len(ids) = 1 /\ Countersign(h, ids, prev, sig)
CreateThread(h, ids, prev, sig) == Len(ids) > 1 /\ Countersign(h, ids, prev, sig)

Creates(h) == job[h].step = "create"

\* insertReedCoreTx for every part, in one transaction.
Create(h) ==
    /\ Creates(h)
    /\ LET ids == job[h].ids  cert == job[h].cert IN
       /\ IsTip(job[h].prev)
       /\ \A k \in DOMAIN ids : ~InTable(ids[k])
       /\ Len(ids) > 1 => WouldLead(ids[1], cert.stamp)
       /\ reeds' = [i \in Reeds |->
            IF \E k \in DOMAIN ids : ids[k] = i
            THEN [cert |-> cert, published |-> FALSE,
                  prev |-> IF i = ids[1] THEN job[h].prev ELSE ids[1],
                  head |-> IF Len(ids) = 1 THEN 0 ELSE ids[1]]
            ELSE reeds[i]]
       /\ stash' = stash \cup {ids[k] : k \in DOMAIN ids}
       /\ HandsOut("sign", cert, reeds'[ids[1]].cert)
       /\ disordered' = (disordered \/ ~WouldLead(ids[1], cert.stamp))
    /\ Done(h)
    /\ UNCHANGED <<removals, owed, told, requests, clock, late>>

\* ErrReedFork: the first part is not on the tip, or did not become it.
Fork(h) ==
    /\ Creates(h)
    /\ \/ ~IsTip(job[h].prev)
       \/ /\ Len(job[h].ids) > 1
          /\ ~InTable(job[h].ids[1])
          /\ ~WouldLead(job[h].ids[1], job[h].cert.stamp)
    /\ Done(h)
    /\ UNCHANGED <<publishTables, requests, clock, strayed, disordered, late>>

\* Variant that must fail: the loser hands out the countersignature it minted.
Duplicate_OwnCountersignature(h) ==
    /\ Creates(h)
    /\ IsTip(job[h].prev)
    /\ \E k \in DOMAIN job[h].ids : InTable(job[h].ids[k])
    /\ HandsOut("sign", job[h].cert, reeds[job[h].ids[1]].cert)
    /\ Done(h)
    /\ UNCHANGED <<publishTables, requests, clock, disordered, late>>

\* A unique violation: somebody stored the reed since it was looked for, and
\* the winner's row is read and answered.
Duplicate(h) ==
    /\ Creates(h)
    /\ IsTip(job[h].prev)
    /\ \E k \in DOMAIN job[h].ids : InTable(job[h].ids[k])
    /\ Done(h)
    /\ UNCHANGED <<publishTables, requests, clock, strayed, disordered, late>>

\* publishUnitSQL: a reed, or every part of the thread it heads.
Unit(i) == IF reeds[i].head = 0 THEN {i} ELSE Parts(i)

\* PUBLISH_READY: ClaimPendingFanout, which does not ask whether the reed has
\* been removed.
PublishReady(i) ==
    /\ Unit(i) \cap stash # {}
    /\ stash' = stash \ Unit(i)
    /\ reeds' = [j \in Reeds |-> IF j \in Unit(i) THEN [reeds[j] EXCEPT !.published = TRUE]
                                 ELSE reeds[j]]
    /\ owed' = Append(owed, [kind |-> "new", id |-> i])
    /\ late' = late \cup {j \in Unit(i) : Removed(j)}
    /\ UNCHANGED <<removals, told, job, requests, clock, strayed, disordered>>

----------------------------------------------------------------------------
(* Removing.                                                               *)

\* A removal that is stored is answered with the stored one.
Remove(h, i, sig, step) ==
    /\ job[h] = NoJob
    /\ requests < MaxRequests
    /\ requests' = requests + 1
    /\ InTable(i) /\ ~Removed(i)
    /\ job' = [job EXCEPT ![h] = [step |-> step, id |-> i,
                                  cert |-> [sig |-> sig, stamp |-> clock]]]
    /\ UNCHANGED <<publishTables, clock, strayed, disordered, late>>

\* Variant that must fail: a part of a thread is removed like any reed.
DeleteReed_AnyPart(h, i, sig) == Remove(h, i, sig, "remove")
\* The handler up to the transaction; a part of a thread is refused.
DeleteReed(h, i, sig) == reeds[i].head = 0 /\ Remove(h, i, sig, "remove")

\* The same for the thread that i heads.
DeleteThread(h, i, sig) == IsThread(i) /\ Remove(h, i, sig, "removeThread")

\* enqueuePublishedRemovalTx: peers have not heard of any other.
OwesRemoval(i) == owed' = IF reeds[i].published
                          THEN Append(owed, [kind |-> "removal", id |-> i]) ELSE owed

\* insertReedRemovalCert finds none.
InsertReedRemoval(h) ==
    /\ job[h].step = "remove"
    /\ LET i == job[h].id IN
       /\ ~Removed(i)
       /\ removals' = [removals EXCEPT ![i] = job[h].cert]
       /\ OwesRemoval(i)
       /\ HandsOut("remove", job[h].cert, removals'[i])
    /\ Done(h)
    /\ UNCHANGED <<reeds, stash, told, requests, clock, disordered, late>>

\* It finds one: errRemovalConflict, and the stored one is read and answered,
\* if the user signature is its.  (Two inserts that overlap: the second fails.)
RemovalConflict(h) ==
    /\ job[h].step = "remove"
    /\ Removed(job[h].id)
    /\ Done(h)
    /\ UNCHANGED <<publishTables, requests, clock, strayed, disordered, late>>

\* Variant that must fail: a thread's removal is stored and owed to nobody.
InsertThreadRemoval_NotOwed(h) ==
    /\ job[h].step = "removeThread"
    /\ ~Removed(job[h].id)
    /\ removals' = [i \in Reeds |-> IF i \in Parts(job[h].id) /\ ~Removed(i)
                                    THEN job[h].cert ELSE removals[i]]
    /\ HandsOut("removeThread", job[h].cert, removals'[job[h].id])
    /\ Done(h)
    /\ UNCHANGED <<reeds, stash, owed, told, requests, clock, disordered, late>>

\* InsertThreadRemoval finds none: the certificate, and a row for every part.
InsertThreadRemoval(h) ==
    /\ job[h].step = "removeThread"
    /\ ~Removed(job[h].id)
    /\ removals' = [i \in Reeds |-> IF i \in Parts(job[h].id) /\ ~Removed(i)
                                    THEN job[h].cert ELSE removals[i]]
    /\ OwesRemoval(job[h].id)
    /\ HandsOut("removeThread", job[h].cert, removals'[job[h].id])
    /\ Done(h)
    /\ UNCHANGED <<reeds, stash, told, requests, clock, disordered, late>>

\* It finds the same user signature and returns no error: the handler answers
\* with the countersignature it has just minted.  Another one is a conflict.
ThreadRemovalThere(h) ==
    /\ job[h].step = "removeThread"
    /\ LET kept == removals[job[h].id] IN
       /\ kept # NotSigned
       /\ IF kept.sig = job[h].cert.sig
          THEN HandsOut("removeThread", job[h].cert, kept)
          ELSE UNCHANGED strayed
    /\ Done(h)
    /\ UNCHANGED <<publishTables, requests, clock, disordered, late>>

\* The drain sends the oldest event and the peer takes it (module PeerQueue).
DeliverToPeer ==
    /\ owed # <<>>
    /\ owed' = Tail(owed)
    /\ told' = [told EXCEPT ![Head(owed).id] =
                    IF Head(owed).kind = "new" THEN "heard" ELSE "removed"]
    /\ UNCHANGED <<reeds, removals, stash, job, requests, clock, strayed, disordered, late>>

PublishNext ==
    \/ PublishTick
    \/ DeliverToPeer
    \/ \E i \in Reeds : PublishReady(i)
    \/ \E h \in Workers :
        \/ \E ids \in Publications, prev \in Reeds \cup {0}, sig \in Signatures :
                SignReed(h, ids, prev, sig) \/ CreateThread(h, ids, prev, sig)
        \/ \E i \in Reeds, sig \in Signatures :
                DeleteReed(h, i, sig) \/ DeleteThread(h, i, sig)
        \/ Create(h) \/ Fork(h) \/ Duplicate(h)
        \/ InsertReedRemoval(h) \/ RemovalConflict(h)
        \/ InsertThreadRemoval(h) \/ ThreadRemovalThere(h)

PublishSpec == PublishInit /\ [][PublishNext]_publishVars

----------------------------------------------------------------------------
Event == [kind : {"new", "removal"}, id : Reeds]

\* Tables and handlers keep their shape; what waits for its fanout is stored.
PublishTypeOK ==
    /\ reeds \in [Reeds -> ReedRow]
    /\ removals \in [Reeds -> Countersigned \cup {NotSigned}]
    /\ stash \subseteq {i \in Reeds : InTable(i)}
    /\ owed \in Seq(Event)
    /\ told \in [Reeds -> {"unheard", "heard", "removed"}]
    /\ job \in [Workers -> Job]
    /\ requests \in 0 .. MaxRequests
    /\ clock \in Stamps
    /\ strayed \subseteq {"sign", "remove", "removeThread"}
    /\ disordered \in BOOLEAN
    /\ late \subseteq Reeds

\* The author's live reeds are one chain, whatever two devices sign at once,
\* unless a reed was stored below the tip it was put on (its second was taken
\* before the lock, or its id is smaller within one second): then the old tip
\* is a tip still, and takes another one (checkReedTipTx).
ChainUnlessDisordered ==
    disordered \/ \A i, j \in Live : i # j => reeds[i].prev # reeds[j].prev

\* Every answer to a request about one reed carries one countersignature, the
\* stored one, however retries and duplicates overlap (respondSignReedReplay,
\* errRemovalConflict); removals of threads excepted, see the README.
OneCountersignature == strayed \subseteq {"removeThread"}

\* A thread is removed whole or not at all (DeleteReed refuses a part).
ThreadsGoWhole ==
    \A i, j \in Reeds : reeds[i].head # 0 /\ reeds[i].head = reeds[j].head
                            => Removed(i) = Removed(j)

\* Once the queue is empty, a peer that was told of a reed has been told of its
\* removal, unless PUBLISH_READY came after the removal had found the reed not
\* published (enqueuePublishedRemovalTx, ClaimPendingFanout).
PeersHearOfRemovals ==
    owed = <<>> => \A i \in Reeds : told[i] = "heard" /\ Removed(i) => i \in late

\* What is removed is gone for every reader: no part of a thread stays behind,
\* and no peer keeps a reed whose removal it is not told of (DeleteReed,
\* DeleteThread, enqueuePublishedRemovalTx).
RemovalsReachAll == ThreadsGoWhole /\ PeersHearOfRemovals

\* However the devices of an author overlap, they end with one history: one
\* chain of reeds, and one countersignature under each (checkReedTipTx,
\* respondSignReedReplay).
OneHistory == ChainUnlessDisordered /\ OneCountersignature
=============================================================================
