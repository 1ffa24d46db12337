---------------------------- MODULE Copies_proofs ----------------------------
(* Theorems about an author's reeds and keys and the copies others keep of *)
(* them, each for any value of its constants: signing and removing reeds   *)
(* (Publish), keys and who hears of their revocation (Keys), crossings     *)
(* between two servers (Border), and what a block takes away (Blocks).     *)
EXTENDS Publish, Keys, Border, Blocks, FiniteSetTheorems, SequenceTheorems, TLAPS

-----------------------------------------------------------------------------
(* Publish                                                                 *)

CreateJob == [step : {"create"}, ids : Publications, prev : Reeds \cup {0}, cert : Countersigned]
RemoveJob == [step : {"remove", "removeThread"}, id : Reeds, cert : Countersigned]

LEMMA JobShapes ==
    /\ NoJob.step = "idle" /\ NoJob \in Job /\ CreateJob \subseteq Job /\ RemoveJob \subseteq Job
    /\ \A j \in Job : j.step = "create" => j \in CreateJob
    /\ \A j \in Job : j.step \in {"remove", "removeThread"} => j \in RemoveJob
BY DEF NoJob, Job, CreateJob, RemoveJob

\* A publication is one reed, or a thread of two in the order of their ids.
LEMMA PublicationShapes ==
    ASSUME NEW ids \in Publications
    PROVE  \E first, second \in Reeds :
              /\ ids[1] = first
              /\ {ids[k] : k \in DOMAIN ids} = {first, second}
              /\ \/ Len(ids) = 1 /\ second = first
                 \/ Len(ids) = 2 /\ second > first
<1>1. CASE \E i \in Reeds : ids = <<i>>
  <2>1. PICK i \in Reeds : ids = <<i>>
    BY <1>1
  <2>2. Len(ids) = 1 /\ ids[1] = i /\ DOMAIN ids = {1}
    BY <2>1
  <2>3. {ids[k] : k \in DOMAIN ids} = {i, i}
    BY <2>2
  <2>4. QED
    BY <2>2, <2>3
<1>2. CASE ids \in {p \in Reeds \X Reeds : p[1] < p[2]}
  <2>1. PICK i, j \in Reeds : ids = <<i, j>> /\ i < j
    BY <1>2
  <2>2. Len(ids) = 2 /\ ids[1] = i /\ ids[2] = j /\ DOMAIN ids = {1, 2}
    BY <2>1
  <2>3. {ids[k] : k \in DOMAIN ids} = {i, j}
    BY <2>2
  <2>4. j > i
    BY <2>1 DEF Reeds
  <2>5. QED
    BY <2>2, <2>3, <2>4
<1>3. QED
  BY <1>1, <1>2, PublishAssumption

\* A row is put on one that is there, below it in the order of tips unless
\* that went wrong once, and every part of a thread names the same head.
RowsHang ==
    /\ \A i \in Reeds : ~InTable(i) => reeds[i] = NoReed /\ ~Removed(i)
    /\ \A i, q \in Reeds : reeds[i].prev = q =>
          InTable(q) /\ (disordered \/ Newer(i, q))
    /\ \A i \in Reeds : reeds[i].head # 0 => reeds[reeds[i].head].head = reeds[i].head

\* A removal under way is of a reed that is no part of a thread, or of a head.
RemovalsFit ==
    \A h \in Workers :
        /\ job[h].step = "remove" => InTable(job[h].id) /\ reeds[job[h].id].head = 0
        /\ job[h].step = "removeThread" => reeds[job[h].id].head = job[h].id

\* The peer knows of reed i or is to be told; the queue takes it back at its end.
NewOf(i) == [kind |-> "new", id |-> i]
RemovalOf(i) == [kind |-> "removal", id |-> i]
ToldOrWillBe(i) == told[i] = "heard" \/ \E n \in DOMAIN owed : owed[n] = NewOf(i)
TakenBack(i) ==
    \E n \in DOMAIN owed : /\ owed[n] = RemovalOf(i)
                           /\ \A m \in DOMAIN owed : m > n => owed[m] # NewOf(i)

\* Peers hear of what is published, by its head, and of its removal after that.
PeerFollows ==
    \A i \in Reeds : ToldOrWillBe(i) =>
        /\ reeds[i].published /\ reeds[i].head \in {0, i}
        /\ Removed(i) /\ i \notin late => TakenBack(i)

PublishInv ==
    /\ PublishTypeOK /\ RowsHang /\ RemovalsFit /\ PeerFollows
    /\ ChainUnlessDisordered /\ OneCountersignature /\ ThreadsGoWhole

\* Small facts about rows.
LEMMA RowFacts ==
    ASSUME PublishTypeOK
    PROVE  /\ 0 \notin Reeds /\ Reeds \subseteq Nat
           /\ NoReed \in ReedRow /\ NoReed.cert = NotSigned /\ NoReed.head = 0 /\ NoReed.prev = 0
           /\ ~NoReed.published
           /\ \A cert \in Countersigned : cert # NotSigned /\ cert.stamp \in Nat
           /\ \A i \in Reeds : reeds[i] \in ReedRow /\ reeds[i].cert.stamp \in Nat
<1>1. 0 \notin Reeds /\ Reeds \subseteq Nat
  BY DEF Reeds
<1>2. /\ NoReed \in ReedRow /\ NoReed.cert = NotSigned /\ NoReed.head = 0 /\ NoReed.prev = 0
      /\ ~NoReed.published
  BY DEF NoReed, ReedRow
<1>3. \A cert \in Countersigned : cert # NotSigned /\ cert.stamp \in Nat
  BY PublishAssumption DEF Countersigned, NotSigned, Stamps
<1>4. \A i \in Reeds : reeds[i] \in ReedRow /\ reeds[i].cert.stamp \in Nat
  BY <1>3 DEF PublishTypeOK, ReedRow, NotSigned
<1>5. QED
  BY <1>1, <1>2, <1>3, <1>4

\* Before the first reed it holds.
LEMMA PublishInitInv == PublishInit => PublishInv
<1> SUFFICES ASSUME PublishInit PROVE PublishInv
  OBVIOUS
<1>1. /\ NoReed \in ReedRow /\ NoReed.cert = NotSigned /\ NoReed.head = 0 /\ NoReed.prev = 0
      /\ 0 \notin Reeds
  BY DEF NoReed, ReedRow, Reeds
<1>2. PublishTypeOK
  <2>1. reeds \in [Reeds -> ReedRow] /\ removals \in [Reeds -> Countersigned \cup {NotSigned}]
    BY <1>1 DEF PublishInit
  <2>2. owed \in Seq(Event) /\ told \in [Reeds -> {"unheard", "heard", "removed"}]
    BY DEF PublishInit
  <2>3. job \in [Workers -> Job]
    BY JobShapes DEF PublishInit
  <2>4. requests \in 0 .. MaxRequests /\ clock \in Stamps
    BY PublishAssumption DEF PublishInit, Stamps
  <2>5. stash \subseteq {i \in Reeds : InTable(i)} /\ late \subseteq Reeds
    BY DEF PublishInit
  <2>6. strayed \subseteq {"sign", "remove", "removeThread"} /\ disordered \in BOOLEAN
    BY DEF PublishInit
  <2>7. QED
    BY <2>1, <2>2, <2>3, <2>4, <2>5, <2>6 DEF PublishTypeOK
<1>3. /\ \A i \in Reeds : reeds[i] = NoReed /\ removals[i] = NotSigned
      /\ \A h \in Workers : job[h].step = "idle"
      /\ DOMAIN owed = {} /\ \A i \in Reeds : told[i] = "unheard"
  BY JobShapes DEF PublishInit
<1>4. RowsHang /\ ThreadsGoWhole /\ RemovalsFit
  BY <1>1, <1>3 DEF RowsHang, InTable, Removed, ThreadsGoWhole, RemovalsFit
<1>5. PeerFollows
  BY <1>3 DEF PeerFollows, ToldOrWillBe
<1>6. ChainUnlessDisordered /\ OneCountersignature
  BY <1>1, <1>3 DEF ChainUnlessDisordered, OneCountersignature, Live, InTable, PublishInit
<1>7. QED
  BY <1>2, <1>4, <1>5, <1>6 DEF PublishInv

\* Setting one job leaves the others.
LEMMA OneJobOnly ==
    ASSUME PublishTypeOK, NEW h \in Workers, NEW j \in Job, job' = [job EXCEPT ![h] = j]
    PROVE  /\ job' \in [Workers -> Job] /\ job'[h] = j
           /\ \A k \in Workers : k # h => job'[k] = job[k]
BY DEF PublishTypeOK

\* What the tables say stays when they do, and answers may stray over threads.
LEMMA TablesStand ==
    ASSUME PublishInv, UNCHANGED <<publishTables, disordered, late>>,
           strayed' \subseteq strayed \cup {"removeThread"}
    PROVE  /\ RowsHang' /\ PeerFollows'
           /\ ChainUnlessDisordered' /\ OneCountersignature' /\ ThreadsGoWhole'
<1> USE DEF PublishInv, publishTables
<1>1. RowsHang' /\ ThreadsGoWhole'
  BY DEF RowsHang, InTable, Removed, Newer, ThreadsGoWhole
<1>2. PeerFollows'
  BY DEF PeerFollows, ToldOrWillBe, TakenBack, Removed
<1>3. ChainUnlessDisordered' /\ OneCountersignature'
  BY DEF ChainUnlessDisordered, OneCountersignature, Live, InTable, Removed
<1>4. QED
  BY <1>1, <1>2, <1>3

\* A clock that ticks, a handler that starts or gives up: no table is touched.
LEMMA NoTableTouched ==
    ASSUME PublishInv, UNCHANGED <<publishTables, disordered, late>>,
           strayed' \subseteq strayed \cup {"removeThread"},
           job' \in [Workers -> Job], requests' \in 0 .. MaxRequests, clock' \in Stamps,
           \A h \in Workers :
              \/ job'[h] = job[h] \/ job'[h].step \notin {"remove", "removeThread"}
              \/ job'[h].step = "remove" /\ InTable(job'[h].id) /\ reeds[job'[h].id].head = 0
              \/ job'[h].step = "removeThread" /\ reeds[job'[h].id].head = job'[h].id
    PROVE  PublishInv'
<1>1. PublishTypeOK'
  BY DEF PublishInv, PublishTypeOK, publishTables, InTable
<1>2. RemovalsFit'
  BY DEF PublishInv, RemovalsFit, publishTables, InTable
<1>3. QED
  BY <1>1, <1>2, TablesStand DEF PublishInv

LEMMA HandlersStartInv ==
    ASSUME PublishInv, NEW h \in Workers,
           \/ \E ids \in Publications, prev \in Reeds \cup {0}, sig \in Signatures :
                 SignReed(h, ids, prev, sig) \/ CreateThread(h, ids, prev, sig)
           \/ \E i \in Reeds, sig \in Signatures :
                 DeleteReed(h, i, sig) \/ DeleteThread(h, i, sig)
    PROVE  PublishInv'
<1> USE DEF PublishInv
<1>0. clock \in Stamps /\ (requests < MaxRequests => requests + 1 \in 0 .. MaxRequests)
  BY PublishAssumption DEF PublishTypeOK
<1>1. ASSUME NEW ids \in Publications, NEW prev \in Reeds \cup {0}, NEW sig \in Signatures,
             Countersign(h, ids, prev, sig)
      PROVE  PublishInv'
  <2>1. PICK j : j = [step |-> "create", ids |-> ids, prev |-> prev,
                      cert |-> [sig |-> sig, stamp |-> clock]]
    OBVIOUS
  <2>2. j \in Job /\ j.step = "create"
    BY <1>0, <2>1 DEF Job, Countersigned
  <2>3. /\ job' = [job EXCEPT ![h] = j] /\ requests' = requests + 1 /\ requests < MaxRequests
        /\ UNCHANGED <<publishTables, clock, strayed, disordered, late>>
    BY <1>1, <2>1 DEF Countersign
  <2>4. /\ job' \in [Workers -> Job] /\ job'[h] = j
        /\ \A k \in Workers : k # h => job'[k] = job[k]
    BY <2>2, <2>3, OneJobOnly
  <2>5. QED
    BY <1>0, <2>2, <2>3, <2>4, NoTableTouched
<1>2. ASSUME NEW i \in Reeds, NEW sig \in Signatures, NEW step \in {"remove", "removeThread"},
             Remove(h, i, sig, step),
             step = "remove" => reeds[i].head = 0, step = "removeThread" => IsThread(i)
      PROVE  PublishInv'
  <2>1. PICK j : j = [step |-> step, id |-> i, cert |-> [sig |-> sig, stamp |-> clock]]
    OBVIOUS
  <2>2. j \in Job /\ j.step = step /\ j.id = i
    BY <1>0, <2>1 DEF Job, Countersigned
  <2>3. /\ job' = [job EXCEPT ![h] = j] /\ requests' = requests + 1 /\ requests < MaxRequests
        /\ InTable(i)
        /\ UNCHANGED <<publishTables, clock, strayed, disordered, late>>
    BY <1>2, <2>1 DEF Remove
  <2>4. /\ job' \in [Workers -> Job] /\ job'[h] = j
        /\ \A k \in Workers : k # h => job'[k] = job[k]
    BY <2>2, <2>3, OneJobOnly
  <2>5. step = "removeThread" => reeds[i].head = i
    BY <1>2, RowFacts DEF IsThread, Parts, RowsHang
  <2>6. QED
    BY <1>0, <1>2, <2>2, <2>3, <2>4, <2>5, NoTableTouched
<1>3. QED
  BY <1>1, <1>2 DEF SignReed, CreateThread, DeleteReed, DeleteThread

LEMMA HandlersEndInv ==
    ASSUME PublishInv, NEW h \in Workers,
           \/ Fork(h) \/ Duplicate(h) \/ RemovalConflict(h)
    PROVE  PublishInv'
<1>1. /\ job' = [job EXCEPT ![h] = NoJob]
      /\ UNCHANGED <<publishTables, requests, clock, strayed, disordered, late>>
  BY DEF Fork, Duplicate, RemovalConflict, Done
<1>2. /\ job' \in [Workers -> Job] /\ job'[h] = NoJob
      /\ \A k \in Workers : k # h => job'[k] = job[k]
  BY <1>1, JobShapes, OneJobOnly DEF PublishInv
<1>3. QED
  BY <1>1, <1>2, JobShapes, NoTableTouched DEF PublishInv, PublishTypeOK

\* What a transaction stores: a row, or two, where none were, on the tip.
LEMMA RowsCreated ==
    ASSUME PublishInv, NEW h \in Workers, Create(h)
    PROVE  \E first, second \in Reeds, p \in Reeds \cup {0}, cert \in Countersigned,
              head \in Reeds \cup {0} :
              /\ ~InTable(first) /\ ~InTable(second) /\ IsTip(p)
              /\ second = first \/ second > first
              /\ head = IF second = first THEN 0 ELSE first
              /\ reeds' = [i \in Reeds |->
                    IF i \in {first, second}
                    THEN [cert |-> cert, published |-> FALSE,
                          prev |-> IF i = first THEN p ELSE first, head |-> head]
                    ELSE reeds[i]]
              /\ stash' = stash \cup {first, second}
              /\ strayed' = strayed
              /\ disordered' = (disordered \/ ~WouldLead(first, cert.stamp))
<1> USE DEF PublishInv
<1>1. job[h] \in CreateJob
  BY JobShapes DEF Create, Creates, PublishTypeOK
<1>2. PICK ids \in Publications, p \in Reeds \cup {0}, cert \in Countersigned :
        ids = job[h].ids /\ p = job[h].prev /\ cert = job[h].cert
  BY <1>1 DEF CreateJob
<1>3. PICK first, second \in Reeds :
        /\ ids[1] = first
        /\ {ids[k] : k \in DOMAIN ids} = {first, second}
        /\ \/ Len(ids) = 1 /\ second = first
           \/ Len(ids) = 2 /\ second > first
  BY PublicationShapes
<1>4. PICK head \in Reeds \cup {0} : head = IF second = first THEN 0 ELSE first
  OBVIOUS
<1>5. Len(ids) = 1 <=> second = first
  BY <1>3 DEF Reeds
<1>6. \A i : (\E k \in DOMAIN ids : ids[k] = i) <=> i \in {first, second}
  BY <1>3
<1>7. /\ IsTip(p) /\ \A k \in DOMAIN ids : ~InTable(ids[k])
      /\ stash' = stash \cup {ids[k] : k \in DOMAIN ids}
      /\ disordered' = (disordered \/ ~WouldLead(ids[1], cert.stamp))
  BY <1>2 DEF Create
<1>8. reeds' = [i \in Reeds |->
            IF \E k \in DOMAIN ids : ids[k] = i
            THEN [cert |-> cert, published |-> FALSE,
                  prev |-> IF i = ids[1] THEN p ELSE ids[1],
                  head |-> IF Len(ids) = 1 THEN 0 ELSE ids[1]]
            ELSE reeds[i]]
  BY <1>2 DEF Create
<1>9. reeds' = [i \in Reeds |->
            IF i \in {first, second}
            THEN [cert |-> cert, published |-> FALSE,
                  prev |-> IF i = first THEN p ELSE first, head |-> head]
            ELSE reeds[i]]
  BY <1>3, <1>4, <1>5, <1>6, <1>8
<1>10. strayed' = strayed
  <2>1. HandsOut("sign", cert, reeds'[ids[1]].cert)
    BY <1>2 DEF Create
  <2>2. reeds'[first].cert = cert
    BY <1>9
  <2>3. QED
    BY <1>3, <2>1, <2>2 DEF HandsOut
<1>11. ~InTable(first) /\ ~InTable(second)
  BY <1>6, <1>7
<1>12. disordered' = (disordered \/ ~WouldLead(first, cert.stamp))
  BY <1>3, <1>7
<1>13. stash' = stash \cup {first, second}
  BY <1>3, <1>7
<1>14. second = first \/ second > first
  BY <1>3
<1>15. WITNESS first \in Reeds, second \in Reeds, p \in Reeds \cup {0},
              cert \in Countersigned, head \in Reeds \cup {0}
<1>16. QED
  BY <1>4, <1>7, <1>9, <1>10, <1>11, <1>12, <1>13, <1>14

\* insertReedCoreTx.
LEMMA CreateInv ==
    ASSUME PublishInv, NEW h \in Workers, Create(h)
    PROVE  PublishInv'
<1> USE RowFacts DEF PublishInv
<1>1. PICK first, second \in Reeds, p \in Reeds \cup {0}, cert \in Countersigned,
           head \in Reeds \cup {0} :
        /\ ~InTable(first) /\ ~InTable(second) /\ IsTip(p)
        /\ second = first \/ second > first
        /\ head = IF second = first THEN 0 ELSE first
        /\ reeds' = [i \in Reeds |->
              IF i \in {first, second}
              THEN [cert |-> cert, published |-> FALSE,
                    prev |-> IF i = first THEN p ELSE first, head |-> head]
              ELSE reeds[i]]
        /\ stash' = stash \cup {first, second}
        /\ strayed' = strayed
        /\ disordered' = (disordered \/ ~WouldLead(first, cert.stamp))
  BY RowsCreated
<1>2. /\ job' = [job EXCEPT ![h] = NoJob]
      /\ UNCHANGED <<removals, owed, told, requests, clock, late>>
  BY DEF Create, Done
<1>3. /\ job' \in [Workers -> Job] /\ job'[h] = NoJob
      /\ \A k \in Workers : k # h => job'[k] = job[k]
  BY <1>2, JobShapes, OneJobOnly
<1>4. /\ \A i \in {first, second} :
            /\ reeds'[i] \in ReedRow /\ reeds'[i].cert = cert /\ ~reeds'[i].published
            /\ reeds'[i].prev = (IF i = first THEN p ELSE first) /\ reeds'[i].head = head
      /\ \A i \in Reeds : i \notin {first, second} => reeds'[i] = reeds[i]
  BY <1>1 DEF ReedRow
<1>5. \A i \in Reeds : /\ InTable(i)' <=> InTable(i) \/ i \in {first, second}
                       /\ Removed(i)' <=> Removed(i)
                       /\ InTable(i) => i \notin {first, second} /\ reeds'[i] = reeds[i]
                       /\ i \in {first, second} => ~Removed(i) /\ reeds[i] = NoReed
  BY <1>1, <1>2, <1>4 DEF InTable, Removed, RowsHang
<1>6. PublishTypeOK'
  <2>1. reeds' \in [Reeds -> ReedRow]
    BY <1>1, <1>4
  <2>2. stash' \subseteq {i \in Reeds : InTable(i)'}
    <3>1. stash \subseteq {i \in Reeds : InTable(i)}
      BY DEF PublishTypeOK
    <3>2. QED
      BY <1>1, <1>5, <3>1
  <2>3. disordered' \in BOOLEAN
    BY <1>1 DEF PublishTypeOK
  <2>4. QED
    BY <1>1, <1>2, <1>3, <2>1, <2>2, <2>3 DEF PublishTypeOK
<1>7. p # 0 => p \in Live /\ InTable(p)
  BY <1>1 DEF IsTip, Live
<1>8. ~disordered' => p = 0 \/ Newer(first, p)'
  <2>1. SUFFICES ASSUME ~disordered', p # 0 PROVE Newer(first, p)'
    OBVIOUS
  <2>2. reeds[p].cert.stamp < cert.stamp \/ (reeds[p].cert.stamp = cert.stamp /\ p < first)
    BY <1>1, <1>7, <2>1 DEF WouldLead
  <2>3. reeds'[p] = reeds[p] /\ p \in Reeds
    BY <1>5, <1>7, <2>1
  <2>4. QED
    BY <1>4, <2>2, <2>3 DEF Newer
<1>9. RowsHang'
  <2>1. \A i \in Reeds : ~InTable(i)' => reeds'[i] = NoReed /\ ~Removed(i)'
    BY <1>4, <1>5 DEF RowsHang
  <2>2. ASSUME NEW i \in Reeds, NEW q \in Reeds, reeds'[i].prev = q
        PROVE  InTable(q)' /\ (disordered' \/ Newer(i, q)')
    <3>1. CASE i \notin {first, second}
      <4>2. InTable(q) /\ (disordered \/ Newer(i, q)) /\ reeds'[i] = reeds[i]
        BY <1>4, <2>2, <3>1 DEF RowsHang
      <4>3. InTable(q)' /\ reeds'[q] = reeds[q]
        BY <1>5, <4>2
      <4>4. Newer(i, q) => Newer(i, q)'
        BY <4>2, <4>3 DEF Newer
      <4>5. disordered => disordered'
        BY <1>1
      <4>6. QED
        BY <4>2, <4>3, <4>4, <4>5
    <3>2. CASE i = first
      <4>1. q = p /\ p # 0 /\ p \in Reeds
        BY <1>4, <2>2, <3>2
      <4>2. InTable(p)'
        BY <1>5, <1>7, <4>1
      <4>3. QED
        BY <1>8, <3>2, <4>1, <4>2
    <3>3. CASE i = second /\ second # first
      <4>1. q = first /\ second > first
        BY <1>1, <1>4, <2>2, <3>3
      <4>2. InTable(first)'
        BY <1>5
      <4>3. Newer(second, first)'
        <5>1. reeds'[second].cert.stamp = reeds'[first].cert.stamp
          BY <1>4
        <5>2. QED
          BY <4>1, <5>1 DEF Newer
      <4>4. QED
        BY <3>3, <4>1, <4>2, <4>3
    <3>4. QED
      BY <3>1, <3>2, <3>3
  <2>3. ASSUME NEW i \in Reeds, reeds'[i].head # 0
        PROVE  reeds'[reeds'[i].head].head = reeds'[i].head
    <3>1. CASE i \in {first, second}
      BY <1>1, <1>4, <2>3, <3>1
    <3>2. CASE i \notin {first, second}
      <4>1. PICK q \in Reeds : q = reeds[i].head /\ reeds'[i] = reeds[i]
        BY <1>4, <2>3, <3>2 DEF ReedRow
      <4>2. reeds[q].head = q
        BY <2>3, <4>1 DEF RowsHang
      <4>3. q \notin {first, second}
        BY <1>5, <4>2
      <4>4. QED
        BY <1>4, <4>1, <4>2, <4>3
    <3>3. QED
      BY <3>1, <3>2
  <2>4. QED
    BY <2>1, <2>2, <2>3 DEF RowsHang
<1>10. RemovalsFit'
  <2>1. ASSUME NEW k \in Workers, job'[k].step \in {"remove", "removeThread"}
        PROVE  job'[k] = job[k] /\ job[k].id \in Reeds
    BY <1>3, <2>1, JobShapes DEF PublishTypeOK, RemoveJob
  <2>2. \A k \in Workers : job'[k].step = "removeThread" => reeds[job[k].id].head # 0
    BY <2>1 DEF RemovalsFit
  <2>3. \A k \in Workers : job'[k].step \in {"remove", "removeThread"} => job[k].id \notin {first, second}
    BY <1>5, <2>1, <2>2 DEF RemovalsFit
  <2>4. QED
    BY <1>4, <2>1, <2>3 DEF RemovalsFit, InTable
<1>11. PeerFollows'
  <2> SUFFICES ASSUME NEW i \in Reeds, ToldOrWillBe(i)'
               PROVE  /\ reeds'[i].published /\ reeds'[i].head \in {0, i}
                      /\ Removed(i)' /\ i \notin late' => TakenBack(i)'
    BY DEF PeerFollows
  <2>1. ToldOrWillBe(i) /\ (TakenBack(i)' <=> TakenBack(i))
    BY <1>2 DEF ToldOrWillBe, TakenBack
  <2>2. /\ reeds[i].published /\ reeds[i].head \in {0, i}
        /\ Removed(i) /\ i \notin late => TakenBack(i)
    BY <2>1 DEF PeerFollows
  <2>3. reeds'[i] = reeds[i]
    BY <1>4, <1>5, <2>2
  <2>4. QED
    BY <1>2, <1>5, <2>1, <2>2, <2>3
<1>12. ChainUnlessDisordered'
  <2> SUFFICES ASSUME ~disordered', NEW i \in Live', NEW j \in Live', i # j
               PROVE  reeds'[i].prev # reeds'[j].prev
    BY DEF ChainUnlessDisordered
  <2>1. ~disordered
    BY <1>1
  <2>2. \A k \in Live' : k \in Reeds /\ (k \in Live \/ k \in {first, second})
    BY <1>5 DEF Live
  <2>3. ASSUME NEW k \in Live PROVE k \notin {first, second} /\ reeds'[k] = reeds[k]
                                    /\ reeds[k].prev # p /\ reeds[k].prev # first
    <3>1. k \in Reeds /\ InTable(k) /\ k \notin {first, second} /\ reeds'[k] = reeds[k]
      BY <1>5, <2>3 DEF Live
    <3>2. reeds[k].prev # first
      BY <1>1, <3>1 DEF RowsHang
    <3>3. reeds[k].prev # p
      <4>1. p # 0 /\ \A q \in Live \ {p} : Newer(p, q)
        BY <1>1, <2>3 DEF IsTip, Live
      <4>2. SUFFICES ASSUME reeds[k].prev = p PROVE FALSE
        OBVIOUS
      <4>3. Newer(k, p)
        BY <2>1, <3>1, <4>1, <4>2 DEF RowsHang
      <4>4. k # p => Newer(p, k)
        BY <2>3, <4>1
      <4>5. k \in Reeds /\ p \in Reeds
        BY <3>1, <4>1
      <4>6. reeds[k].cert.stamp \in Nat /\ reeds[p].cert.stamp \in Nat /\ k \in Nat /\ p \in Nat
        BY <4>5
      <4>7. QED
        BY <4>3, <4>4, <4>6 DEF Newer
    <3>4. QED
      BY <3>1, <3>2, <3>3
  <2>4. CASE i \in Live /\ j \in Live
    BY <2>1, <2>3, <2>4 DEF ChainUnlessDisordered
  <2>5. CASE i \in Live /\ j \notin Live
    BY <1>4, <2>2, <2>3, <2>5
  <2>6. CASE i \notin Live /\ j \in Live
    BY <1>4, <2>2, <2>3, <2>6
  <2>7. CASE i \notin Live /\ j \notin Live
    <3>1. p # first
      BY <1>1, <1>7
    <3>2. QED
      BY <1>4, <2>2, <2>7, <3>1
  <2>8. QED
    BY <2>4, <2>5, <2>6, <2>7
<1>13. ThreadsGoWhole'
  <2> SUFFICES ASSUME NEW i \in Reeds, NEW j \in Reeds, reeds'[i].head # 0,
                      reeds'[i].head = reeds'[j].head
               PROVE  Removed(i)' = Removed(j)'
    BY DEF ThreadsGoWhole
  <2>1. \A k \in Reeds : k \notin {first, second} /\ reeds[k].head # 0 => reeds[k].head # first
    BY <1>5 DEF RowsHang
  <2>2. CASE i \in {first, second} /\ j \in {first, second}
    BY <1>5, <2>2 DEF Removed
  <2>3. CASE i \notin {first, second} /\ j \notin {first, second}
    BY <1>2, <1>4, <2>3 DEF Removed, ThreadsGoWhole
  <2>4. CASE \/ i \in {first, second} /\ j \notin {first, second}
             \/ i \notin {first, second} /\ j \in {first, second}
    BY <1>1, <1>4, <2>1, <2>4
  <2>5. QED
    BY <2>2, <2>3, <2>4
<1>14. OneCountersignature'
  BY <1>1 DEF OneCountersignature
<1>15. QED
  BY <1>6, <1>9, <1>10, <1>11, <1>12, <1>13, <1>14

\* Appending an event, and what that does to who is told of what.
LEMMA Appended ==
    ASSUME PublishTypeOK, NEW e \in Event, owed' = Append(owed, e), told' = told
    PROVE  /\ owed' \in Seq(Event)
           /\ \A i \in Reeds : ToldOrWillBe(i)' <=> ToldOrWillBe(i) \/ e = NewOf(i)
           /\ \A i \in Reeds : e # NewOf(i) /\ TakenBack(i) => TakenBack(i)'
           /\ \A i \in Reeds : e = RemovalOf(i) => TakenBack(i)'
<1>1. PICK n \in Nat : n = Len(owed)
  BY DEF PublishTypeOK
<1>2. /\ owed' \in Seq(Event) /\ DOMAIN owed = 1 .. n /\ DOMAIN owed' = 1 .. (n + 1)
      /\ \A m \in 1 .. n : owed'[m] = owed[m]
      /\ owed'[n + 1] = e
  BY <1>1 DEF PublishTypeOK
<1>3. n + 1 \in 1 .. (n + 1) /\ \A m \in 1 .. (n + 1) : m \in 1 .. n \/ m = n + 1
  OBVIOUS
<1>4. ASSUME NEW i \in Reeds PROVE ToldOrWillBe(i)' <=> ToldOrWillBe(i) \/ e = NewOf(i)
  <2>1. (\E m \in DOMAIN owed' : owed'[m] = NewOf(i))
            <=> (\E m \in DOMAIN owed : owed[m] = NewOf(i)) \/ e = NewOf(i)
    BY <1>2, <1>3
  <2>2. QED
    BY <2>1 DEF ToldOrWillBe, NewOf
<1>5. ASSUME NEW i \in Reeds, e # NewOf(i), TakenBack(i) PROVE TakenBack(i)'
  <2>1. PICK m \in DOMAIN owed : /\ owed[m] = RemovalOf(i)
                                 /\ \A o \in DOMAIN owed : o > m => owed[o] # NewOf(i)
    BY <1>5 DEF TakenBack
  <2>2. /\ m \in DOMAIN owed' /\ owed'[m] = RemovalOf(i)
        /\ \A o \in DOMAIN owed' : o > m => owed'[o] # NewOf(i)
    BY <1>2, <1>3, <1>5, <2>1
  <2>3. QED
    BY <2>2 DEF TakenBack, RemovalOf, NewOf
<1>6. ASSUME NEW i \in Reeds, e = RemovalOf(i) PROVE TakenBack(i)'
  <2>1. /\ n + 1 \in DOMAIN owed' /\ owed'[n + 1] = RemovalOf(i)
        /\ \A o \in DOMAIN owed' : ~(o > n + 1)
    BY <1>2, <1>6
  <2>2. QED
    BY <2>1 DEF TakenBack, RemovalOf, NewOf
<1>7. QED
  BY <1>2, <1>4, <1>5, <1>6

\* ClaimPendingFanout publishes a reed that is no part of a thread, or a whole thread.
LEMMA PublishReadyInv ==
    ASSUME PublishInv, NEW i \in Reeds, PublishReady(i)
    PROVE  PublishInv'
<1> USE RowFacts DEF PublishInv
<1>1. \A j \in Unit(i) : j \in Reeds /\ InTable(j) /\ reeds[j].head = reeds[i].head
  <2>1. CASE reeds[i].head = 0
    BY <2>1 DEF PublishReady, Unit, PublishTypeOK
  <2>2. CASE reeds[i].head # 0
    <3>1. PICK j \in Reeds : reeds[j].head = i
      BY <2>2 DEF PublishReady, Unit, Parts
    <3>2. reeds[i].head = i
      BY <3>1 DEF RowsHang
    <3>3. QED
      BY <2>2, <3>2 DEF Unit, Parts, RowsHang
  <2>3. QED
    BY <2>1, <2>2
<1>2. i \in Unit(i) /\ reeds[i].head \in {0, i}
  <2>1. CASE reeds[i].head = 0
    BY <2>1 DEF Unit
  <2>2. CASE reeds[i].head # 0
    <3>1. PICK j \in Reeds : reeds[j].head = i
      BY <2>2 DEF PublishReady, Unit, Parts
    <3>2. reeds[i].head = i
      BY <3>1 DEF RowsHang
    <3>3. QED
      BY <2>2, <3>2 DEF Unit, Parts
  <2>3. QED
    BY <2>1, <2>2
<1>3. PICK unit : unit = Unit(i)
  OBVIOUS
<1>4. /\ stash' = stash \ unit
      /\ reeds' = [j \in Reeds |-> IF j \in unit THEN [reeds[j] EXCEPT !.published = TRUE]
                                   ELSE reeds[j]]
      /\ owed' = Append(owed, NewOf(i)) /\ told' = told
      /\ late' = late \cup {j \in unit : Removed(j)}
      /\ UNCHANGED <<removals, told, job, requests, clock, strayed, disordered>>
  BY <1>3 DEF PublishReady, NewOf
<1>5. /\ \A j \in Reeds : /\ reeds'[j] \in ReedRow /\ reeds'[j].cert = reeds[j].cert
                          /\ reeds'[j].prev = reeds[j].prev /\ reeds'[j].head = reeds[j].head
                          /\ reeds[j].published \/ j \in unit => reeds'[j].published
                          /\ j \notin unit => reeds'[j] = reeds[j]
      /\ reeds' \in [Reeds -> ReedRow]
  <2>1. ASSUME NEW j \in Reeds
        PROVE  /\ reeds'[j] \in ReedRow /\ reeds'[j].cert = reeds[j].cert
               /\ reeds'[j].prev = reeds[j].prev /\ reeds'[j].head = reeds[j].head
               /\ reeds[j].published \/ j \in unit => reeds'[j].published
               /\ j \notin unit => reeds'[j] = reeds[j]
    <3>1. reeds[j] \in ReedRow
      OBVIOUS
    <3>2. reeds'[j] = IF j \in unit THEN [reeds[j] EXCEPT !.published = TRUE] ELSE reeds[j]
      BY <1>4
    <3>3. QED
      BY <3>1, <3>2 DEF ReedRow
  <2>2. QED
    BY <1>4, <2>1
<1>6. \A j \in Reeds : /\ (InTable(j)' <=> InTable(j)) /\ (Removed(j)' <=> Removed(j))
                       /\ \A k \in Reeds : Newer(j, k)' <=> Newer(j, k)
  BY <1>4, <1>5 DEF InTable, Removed, Newer
<1>7. NewOf(i) \in Event
  BY DEF NewOf, Event
<1>8. PublishTypeOK'
  <2>1. owed' \in Seq(Event)
    BY <1>4, <1>7, Appended
  <2>2. stash' \subseteq {j \in Reeds : InTable(j)'}
    BY <1>4, <1>6 DEF PublishTypeOK
  <2>3. late' \subseteq Reeds
    BY <1>1, <1>3, <1>4 DEF PublishTypeOK
  <2>4. QED
    BY <1>4, <1>5, <2>1, <2>2, <2>3 DEF PublishTypeOK
<1>9. RowsHang'
  <2>1. \A j \in Reeds : ~InTable(j)' => reeds'[j] = NoReed /\ ~Removed(j)'
    BY <1>1, <1>3, <1>5, <1>6 DEF RowsHang
  <2>2. \A j, q \in Reeds : reeds'[j].prev = q => InTable(q)' /\ (disordered' \/ Newer(j, q)')
    BY <1>4, <1>5, <1>6 DEF RowsHang
  <2>3. \A j \in Reeds : reeds'[j].head # 0 => reeds'[reeds'[j].head].head = reeds'[j].head
    <3>1. \A j \in Reeds : reeds[j].head # 0 => reeds[j].head \in Reeds
      BY DEF ReedRow
    <3>2. QED
      BY <1>5, <3>1 DEF RowsHang
  <2>4. QED
    BY <2>1, <2>2, <2>3 DEF RowsHang
<1>10. RemovalsFit'
  <2>1. \A h \in Workers : job[h].step \in {"remove", "removeThread"} => job[h].id \in Reeds
    BY JobShapes DEF PublishTypeOK, RemoveJob
  <2>2. QED
    BY <1>4, <1>5, <1>6, <2>1 DEF RemovalsFit, InTable
<1>11. PeerFollows'
  <2> SUFFICES ASSUME NEW k \in Reeds, ToldOrWillBe(k)'
               PROVE  /\ reeds'[k].published /\ reeds'[k].head \in {0, k}
                      /\ Removed(k)' /\ k \notin late' => TakenBack(k)'
    BY DEF PeerFollows
  <2>1. CASE k = i
    BY <1>2, <1>3, <1>4, <1>5, <1>6, <2>1
  <2>2. CASE k # i
    <3>1. NewOf(i) # NewOf(k)
      BY <2>2 DEF NewOf
    <3>2. ToldOrWillBe(k) /\ (TakenBack(k) => TakenBack(k)')
      BY <1>4, <1>7, <3>1, Appended
    <3>3. QED
      BY <1>4, <1>5, <1>6, <3>2 DEF PeerFollows
  <2>3. QED
    BY <2>1, <2>2
<1>12. Live' = Live
  BY <1>6 DEF Live
<1>13. ChainUnlessDisordered'
  BY <1>4, <1>5, <1>12 DEF ChainUnlessDisordered, Live
<1>14. ThreadsGoWhole'
  BY <1>4, <1>5 DEF ThreadsGoWhole, Removed
<1>15. OneCountersignature'
  BY <1>4 DEF OneCountersignature
<1>16. QED
  BY <1>8, <1>9, <1>10, <1>11, <1>13, <1>14, <1>15

\* A removal is stored, of what is there and whole: gone, which i stands for.
LEMMA RemovalStored ==
    ASSUME PublishInv, NEW h \in Workers, NEW i \in Reeds, NEW cert \in Countersigned,
           NEW gone \in SUBSET Reeds,
           \A j \in gone : InTable(j) /\ ~Removed(j) /\ (reeds[j].head \in {0, j} => j = i),
           \A j \in gone, k \in Reeds :
              reeds[j].head # 0 /\ reeds[k].head = reeds[j].head => k \in gone,
           removals' = [j \in Reeds |-> IF j \in gone THEN cert ELSE removals[j]],
           OwesRemoval(i), strayed' = strayed, Done(h),
           UNCHANGED <<reeds, stash, told, requests, clock, disordered, late>>
    PROVE  PublishInv'
<1> USE RowFacts DEF PublishInv
<1>1. /\ job' \in [Workers -> Job] /\ job'[h] = NoJob
      /\ \A k \in Workers : k # h => job'[k] = job[k]
  BY JobShapes, OneJobOnly DEF Done
<1>2. \A j \in Reeds : /\ (InTable(j)' <=> InTable(j))
                       /\ Removed(j)' <=> Removed(j) \/ j \in gone
  BY DEF InTable, Removed
<1>3. RemovalOf(i) \in Event /\ \A k \in Reeds : RemovalOf(i) # NewOf(k)
  BY DEF RemovalOf, NewOf, Event
<1>4. IF reeds[i].published THEN owed' = Append(owed, RemovalOf(i)) ELSE owed' = owed
  BY DEF OwesRemoval, RemovalOf
<1>5. /\ owed' \in Seq(Event)
      /\ \A k \in Reeds : (ToldOrWillBe(k)' => ToldOrWillBe(k)) /\ (TakenBack(k) => TakenBack(k)')
      /\ reeds[i].published => TakenBack(i)'
  <2>1. CASE reeds[i].published
    BY <1>3, <1>4, <2>1, Appended
  <2>2. CASE ~reeds[i].published
    BY <1>4, <2>2 DEF ToldOrWillBe, TakenBack, PublishTypeOK
  <2>3. QED
    BY <2>1, <2>2
<1>6. PublishTypeOK'
  BY <1>1, <1>5 DEF PublishTypeOK, InTable
<1>7. RowsHang'
  BY <1>2 DEF RowsHang, InTable, Newer
<1>8. RemovalsFit'
  BY <1>1, JobShapes DEF RemovalsFit, InTable
<1>9. PeerFollows'
  <2> SUFFICES ASSUME NEW k \in Reeds, ToldOrWillBe(k)'
               PROVE  /\ reeds'[k].published /\ reeds'[k].head \in {0, k}
                      /\ Removed(k)' /\ k \notin late' => TakenBack(k)'
    BY DEF PeerFollows
  <2>1. /\ reeds[k].published /\ reeds[k].head \in {0, k}
        /\ Removed(k) /\ k \notin late => TakenBack(k)
    BY <1>5 DEF PeerFollows
  <2>2. k \in gone => TakenBack(k)'
    BY <1>5, <2>1
  <2>3. QED
    BY <1>2, <1>5, <2>1, <2>2
<1>10. ChainUnlessDisordered'
  BY <1>2 DEF ChainUnlessDisordered, Live
<1>11. ThreadsGoWhole'
  <2> SUFFICES ASSUME NEW j \in Reeds, NEW k \in Reeds, reeds[j].head # 0,
                      reeds[j].head = reeds[k].head
               PROVE  Removed(j)' = Removed(k)'
    BY DEF ThreadsGoWhole
  <2>1. (j \in gone <=> k \in gone) /\ (Removed(j) <=> Removed(k))
    BY DEF ThreadsGoWhole, Removed
  <2>2. QED
    BY <1>2, <2>1 DEF Removed
<1>12. OneCountersignature'
  BY DEF OneCountersignature
<1>13. QED
  BY <1>6, <1>7, <1>8, <1>9, <1>10, <1>11, <1>12

LEMMA InsertReedRemovalInv ==
    ASSUME PublishInv, NEW h \in Workers, InsertReedRemoval(h)
    PROVE  PublishInv'
<1> USE DEF PublishInv
<1>1. PICK i \in Reeds, cert \in Countersigned : i = job[h].id /\ cert = job[h].cert
  BY JobShapes DEF InsertReedRemoval, PublishTypeOK, RemoveJob
<1>2. InTable(i) /\ ~Removed(i) /\ reeds[i].head = 0
  BY <1>1 DEF InsertReedRemoval, RemovalsFit
<1>3. removals' = [removals EXCEPT ![i] = cert]
  BY <1>1 DEF InsertReedRemoval
<1>4. removals' = [j \in Reeds |-> IF j \in {i} THEN cert ELSE removals[j]]
  BY <1>3 DEF PublishTypeOK
<1>5. strayed' = strayed
  BY <1>1, <1>4 DEF InsertReedRemoval, HandsOut
<1>6. OwesRemoval(i) /\ Done(h) /\ UNCHANGED <<reeds, stash, told, requests, clock, disordered, late>>
  BY <1>1 DEF InsertReedRemoval
<1>7. {i} \in SUBSET Reeds
  OBVIOUS
<1>8. QED
  BY <1>2, <1>4, <1>5, <1>6, <1>7, RemovalStored

LEMMA InsertThreadRemovalInv ==
    ASSUME PublishInv, NEW h \in Workers, InsertThreadRemoval(h)
    PROVE  PublishInv'
<1> USE DEF PublishInv
<1>1. PICK i \in Reeds, cert \in Countersigned : i = job[h].id /\ cert = job[h].cert
  BY JobShapes DEF InsertThreadRemoval, PublishTypeOK, RemoveJob
<1>2. ~Removed(i) /\ reeds[i].head = i
  BY <1>1 DEF InsertThreadRemoval, RemovalsFit
<1>3. PICK gone \in SUBSET Reeds : gone = Parts(i)
  BY DEF Parts
<1>4. \A j \in gone : reeds[j].head = i /\ InTable(j) /\ ~Removed(j)
  BY <1>2, <1>3, RowFacts DEF Parts, RowsHang, ThreadsGoWhole
<1>5. removals' = [j \in Reeds |-> IF j \in gone THEN cert ELSE removals[j]]
  <2>1. removals' = [j \in Reeds |-> IF j \in gone /\ ~Removed(j) THEN cert ELSE removals[j]]
    BY <1>1, <1>3 DEF InsertThreadRemoval
  <2>2. QED
    BY <1>4, <2>1
<1>6. strayed' = strayed
  <2>1. i \in gone
    BY <1>2, <1>3 DEF Parts
  <2>2. QED
    BY <1>1, <1>5, <2>1 DEF InsertThreadRemoval, HandsOut
<1>7. OwesRemoval(i) /\ Done(h) /\ UNCHANGED <<reeds, stash, told, requests, clock, disordered, late>>
  BY <1>1 DEF InsertThreadRemoval
<1>8. \A j \in gone, k \in Reeds :
         reeds[j].head # 0 /\ reeds[k].head = reeds[j].head => k \in gone
  BY <1>3, <1>4 DEF Parts
<1>9. \A j \in gone : reeds[j].head \in {0, j} => j = i
  BY <1>4, RowFacts
<1>10. QED
  BY <1>4, <1>5, <1>6, <1>7, <1>8, <1>9, RemovalStored

LEMMA ThreadRemovalThereInv ==
    ASSUME PublishInv, NEW h \in Workers, ThreadRemovalThere(h)
    PROVE  PublishInv'
<1>1. /\ job' = [job EXCEPT ![h] = NoJob]
      /\ UNCHANGED <<publishTables, requests, clock, disordered, late>>
      /\ strayed' \subseteq strayed \cup {"removeThread"}
  BY DEF ThreadRemovalThere, Done, HandsOut
<1>2. /\ job' \in [Workers -> Job] /\ job'[h] = NoJob
      /\ \A k \in Workers : k # h => job'[k] = job[k]
  BY <1>1, JobShapes, OneJobOnly DEF PublishInv
<1>3. QED
  BY <1>1, <1>2, JobShapes, NoTableTouched DEF PublishInv, PublishTypeOK

\* The oldest event leaves the queue; what was behind it is one place further on.
LEMMA DeliverToPeerInv ==
    ASSUME PublishInv, DeliverToPeer
    PROVE  PublishInv'
<1> USE DEF PublishInv
<1>1. PICK n \in Nat : n = Len(owed)
  BY DEF PublishTypeOK
<1>2. PICK e \in Event : e = owed[1] /\ e = Head(owed)
  BY DEF PublishTypeOK, DeliverToPeer
<1>3. /\ owed' \in Seq(Event) /\ DOMAIN owed = 1 .. n /\ DOMAIN owed' = 1 .. (n - 1) /\ n > 0
      /\ \A m \in 1 .. (n - 1) : owed'[m] = owed[m + 1]
  BY <1>1 DEF PublishTypeOK, DeliverToPeer
<1>4. /\ told' \in [Reeds -> {"unheard", "heard", "removed"}]
      /\ told'[e.id] = (IF e.kind = "new" THEN "heard" ELSE "removed")
      /\ \A k \in Reeds : k # e.id => told'[k] = told[k]
  BY <1>2 DEF PublishTypeOK, DeliverToPeer, Event
<1>5. UNCHANGED <<reeds, removals, stash, job, requests, clock, strayed, disordered, late>>
  BY DEF DeliverToPeer
<1>6. ASSUME NEW k \in Reeds, ToldOrWillBe(k)' PROVE ToldOrWillBe(k)
  <2>1. CASE told'[k] = "heard"
    <3>1. CASE k = e.id
      <4>1. e = NewOf(k)
        BY <1>4, <2>1, <3>1 DEF Event, NewOf
      <4>2. 1 \in DOMAIN owed
        BY <1>3
      <4>3. QED
        BY <1>2, <4>1, <4>2 DEF ToldOrWillBe
    <3>2. CASE k # e.id
      BY <1>4, <2>1, <3>2 DEF ToldOrWillBe
    <3>3. QED
      BY <3>1, <3>2
  <2>2. CASE \E m \in DOMAIN owed' : owed'[m] = NewOf(k)
    <3>1. PICK m \in 1 .. (n - 1) : owed[m + 1] = NewOf(k)
      BY <1>3, <2>2
    <3>2. m + 1 \in DOMAIN owed
      BY <1>3
    <3>3. QED
      BY <3>1, <3>2 DEF ToldOrWillBe
  <2>3. QED
    BY <1>6, <2>1, <2>2 DEF ToldOrWillBe, NewOf
<1>7. ASSUME NEW k \in Reeds, ToldOrWillBe(k)', TakenBack(k) PROVE TakenBack(k)'
  <2>1. PICK m \in 1 .. n : /\ owed[m] = RemovalOf(k)
                            /\ \A o \in 1 .. n : o > m => owed[o] # NewOf(k)
    BY <1>3, <1>7 DEF TakenBack
  <2>2. m # 1
    <3>1. SUFFICES ASSUME m = 1 PROVE FALSE
      OBVIOUS
    <3>2. told'[k] = "removed"
      BY <1>2, <1>4, <2>1, <3>1 DEF RemovalOf
    <3>3. PICK o \in 1 .. (n - 1) : owed[o + 1] = NewOf(k)
      BY <1>3, <1>7, <3>2 DEF ToldOrWillBe, NewOf
    <3>4. o + 1 \in 1 .. n /\ o + 1 > 1
      BY <1>3
    <3>5. QED
      BY <2>1, <3>1, <3>3, <3>4
  <2>3. m - 1 \in 1 .. (n - 1) /\ owed'[m - 1] = RemovalOf(k)
    <3>1. m - 1 \in 1 .. (n - 1) /\ (m - 1) + 1 = m
      BY <2>2
    <3>2. QED
      BY <1>3, <2>1, <3>1
  <2>4. \A o \in 1 .. (n - 1) : o > m - 1 => owed'[o] # NewOf(k)
    <3>1. SUFFICES ASSUME NEW o \in 1 .. (n - 1), o > m - 1 PROVE owed[o + 1] # NewOf(k)
      BY <1>3
    <3>2. o + 1 \in 1 .. n /\ o + 1 > m
      BY <3>1
    <3>3. QED
      BY <2>1, <3>2
  <2>5. QED
    BY <1>3, <2>3, <2>4 DEF TakenBack, NewOf, RemovalOf
<1>8. PublishTypeOK'
  BY <1>3, <1>4, <1>5 DEF PublishTypeOK, InTable
<1>9. RowsHang' /\ RemovalsFit' /\ ThreadsGoWhole'
  BY <1>5 DEF RowsHang, InTable, Removed, Newer, ThreadsGoWhole, RemovalsFit
<1>10. PeerFollows'
  <2> SUFFICES ASSUME NEW k \in Reeds, ToldOrWillBe(k)'
               PROVE  /\ reeds'[k].published /\ reeds'[k].head \in {0, k}
                      /\ Removed(k)' /\ k \notin late' => TakenBack(k)'
    BY DEF PeerFollows
  <2>1. /\ reeds[k].published /\ reeds[k].head \in {0, k}
        /\ Removed(k) /\ k \notin late => TakenBack(k)
    BY <1>6 DEF PeerFollows
  <2>2. QED
    BY <1>5, <1>7, <2>1 DEF Removed
<1>11. ChainUnlessDisordered' /\ OneCountersignature'
  BY <1>5 DEF ChainUnlessDisordered, OneCountersignature, Live, InTable, Removed
<1>12. QED
  BY <1>8, <1>9, <1>10, <1>11

\* The inductive invariant holds at every step of every handler.
LEMMA PublishNextInv == PublishInv /\ [PublishNext]_publishVars => PublishInv'
<1> SUFFICES ASSUME PublishInv, [PublishNext]_publishVars PROVE PublishInv'
  OBVIOUS
<1>1. CASE UNCHANGED publishVars
  <2>1. UNCHANGED <<publishTables, job, requests, clock, strayed, disordered, late>>
    BY <1>1 DEF publishVars, publishTables
  <2>2. QED
    BY <2>1, NoTableTouched DEF PublishInv, PublishTypeOK
<1>2. CASE PublishTick
  <2>1. clock' \in Stamps /\ UNCHANGED <<publishTables, job, requests, strayed, disordered, late>>
    BY <1>2, PublishAssumption DEF PublishTick, PublishInv, PublishTypeOK, Stamps
  <2>2. QED
    BY <2>1, NoTableTouched DEF PublishInv, PublishTypeOK
<1>3. CASE DeliverToPeer
  BY <1>3, DeliverToPeerInv
<1>4. CASE \E i \in Reeds : PublishReady(i)
  BY <1>4, PublishReadyInv
<1>5. ASSUME NEW h \in Workers,
             \/ \E ids \in Publications, prev \in Reeds \cup {0}, sig \in Signatures :
                     SignReed(h, ids, prev, sig) \/ CreateThread(h, ids, prev, sig)
             \/ \E i \in Reeds, sig \in Signatures :
                     DeleteReed(h, i, sig) \/ DeleteThread(h, i, sig)
      PROVE  PublishInv'
  BY <1>5, HandlersStartInv
<1>6. ASSUME NEW h \in Workers, Create(h) PROVE PublishInv'
  BY <1>6, CreateInv
<1>7. ASSUME NEW h \in Workers, Fork(h) \/ Duplicate(h) \/ RemovalConflict(h) PROVE PublishInv'
  BY <1>7, HandlersEndInv
<1>8. ASSUME NEW h \in Workers,
             InsertReedRemoval(h) \/ InsertThreadRemoval(h) \/ ThreadRemovalThere(h)
      PROVE  PublishInv'
  BY <1>8, InsertReedRemovalInv, InsertThreadRemovalInv, ThreadRemovalThereInv
<1>9. QED
  BY <1>1, <1>2, <1>3, <1>4, <1>5, <1>6, <1>7, <1>8 DEF PublishNext

\* However many devices sign and remove at once, in whatever order their
\* transactions commit: one chain of reeds unless one was stored below its tip,
\* and one countersignature under each (checkReedTipTx, respondSignReedReplay).
THEOREM OneHistoryHolds == PublishSpec => []OneHistory
<1>1. PublishInv => OneHistory
  BY DEF PublishInv, OneHistory
<1>2. QED
  BY <1>1, PublishInitInv, PublishNextInv, PTL DEF PublishSpec

\* No part of a thread outlives its removal, and a peer with nothing left to
\* hear keeps no removed reed that was published before it was removed
\* (DeleteReed, DeleteThread, enqueuePublishedRemovalTx, ClaimPendingFanout).
THEOREM RemovalsAlwaysReachAll == PublishSpec => []RemovalsReachAll
<1>1. PublishInv => RemovalsReachAll
  <2> SUFFICES ASSUME PublishInv PROVE PeersHearOfRemovals
    BY DEF PublishInv, RemovalsReachAll
  <2>1. SUFFICES ASSUME owed = <<>>, NEW i \in Reeds, told[i] = "heard", Removed(i), i \notin late
                 PROVE  FALSE
    BY DEF PeersHearOfRemovals
  <2>2. TakenBack(i)
    BY <2>1 DEF PublishInv, PeerFollows, ToldOrWillBe
  <2>3. QED
    BY <2>1, <2>2 DEF TakenBack
<1>2. QED
  BY <1>1, PublishInitInv, PublishNextInv, PTL DEF PublishSpec

-----------------------------------------------------------------------------
(* Keys                                                                    *)

\* A fetch that has found key p[2] not revoked; who has such a key, or is to
\* store the answer that carries it.
Fetching(p) == keyFetch[p[1]].key = p[2] /\ ~keyFetch[p[1]].revoked
Holding(p) == cached[p] = "good" \/ (Fetching(p) /\ keyFetch[p[1]].step = "answered")

\* Nothing is said of a key that is not revoked.
OnlyRevokedNamed ==
    /\ keyRow[activeKey].state # "none"
    /\ noticed \subseteq keyOwed
    /\ \A k \in noticed : Revoked(k)
    /\ \A m \in toFanOut : Revoked(m[2])
    /\ \A f \in fanning : Revoked(f.key) /\ f.key \in Fetched
    /\ \A p \in pushed \cup acked : Revoked(p[2])

\* A key is fetched by who has none, and deleted by who has one.
FetchesStand ==
    /\ \A v \in KeyViewers :
          \/ keyFetch[v] = NoFetch
          \/ /\ keyFetch[v].key \in Fetched /\ cached[<<v, keyFetch[v].key>>] = "none"
             /\ keyFetch[v].step # "idle" /\ (keyFetch[v].step = "read" => ~keyFetch[v].revoked)
    /\ \A p \in evicting : cached[p] # "none"

\* Who acked a revocation has marked the key, or a race left them with it.
AcksSettled == \A p \in acked : cached[p] = "good" \/ Fetching(p) => p \in untold

\* StaleIsOwed, of the keys not revoked yet and the answers on their way too.
HoldersListed ==
    \A p \in Pair : Holding(p) /\ p \notin evicting \cup untold =>
        /\ p \in keyAlloc
        /\ Revoked(p[2]) /\ p[1] \in Remote => p \in flagged \/ p[2] \in keyOwed

\* What the peer's handler has not flagged was allocated after it had read.
AllocatedSince ==
    \A p \in keyAlloc :
        Holding(p) /\ p[1] \in Remote /\ p[2] \in noticed /\ p \notin flagged
            => p \in unpushed \cup untold

\* And who is to hear while the answer is on its way.
HoldersHear ==
    \A p \in keyAlloc \ (unpushed \cup untold \cup acked) :
        Holding(p) /\ Revoked(p[2]) /\ p[1] \in inSync /\ p \notin evicting => ToBePushed(p)

KeysInv ==
    /\ KeysTypeOK /\ OnlyRevokedNamed /\ FetchesStand /\ AcksSettled
    /\ HoldersListed /\ AllocatedSince /\ HoldersHear

LEMMA KeyFacts ==
    /\ 0 \notin Keys /\ Keys = 1 .. MaxKeys /\ Fetched \subseteq Keys /\ 1 \in Keys
    /\ NoFetch = [key |-> 0, step |-> "idle", revoked |-> FALSE]
    /\ NoFetch \in [key : 0 .. MaxKeys, step : {"idle", "read", "answered"}, revoked : BOOLEAN]
    /\ NoKeyRow \in KeyRow /\ NoKeyRow.state = "none"
    /\ \A p \in Pair : p = <<p[1], p[2]>> /\ p[1] \in KeyViewers /\ p[2] \in Fetched
    /\ \A v \in KeyViewers, k \in Fetched : <<v, k>> \in Pair /\ <<v, k>>[1] = v /\ <<v, k>>[2] = k
BY KeysAssumption DEF Keys, NoFetch, NoKeyRow, KeyRow, Pair

LEMMA GetKeyInv ==
    ASSUME KeysInv, NEW v \in KeyViewers, NEW k \in Fetched, GetKey(v, k)
    PROVE  KeysInv'
<1> USE KeyFacts DEF KeysInv, KeysTypeOK, chainVars, tellVars, socketVars, evictVars
<1>1. PICK served \in GetPublicKey(k) :
         keyFetch' = [keyFetch EXCEPT ![v] =
               [key |-> k, step |-> IF served.revoked THEN "answered" ELSE "read",
                revoked |-> served.revoked]]
  BY DEF GetKey
<1>2. served.revoked \in BOOLEAN /\ (served.revoked <=> Revoked(k))
  <2>1. served = [key |-> k, revoked |-> Revoked(k)]
    BY DEF GetPublicKey
  <2>2. Revoked(k) \in BOOLEAN
    BY DEF Revoked
  <2>3. served.revoked = Revoked(k)
    BY <2>1
  <2>4. QED
    BY <2>2, <2>3
<1>3. /\ keyFetch'[v].key = k /\ (keyFetch'[v].revoked <=> Revoked(k))
      /\ keyFetch'[v].step \in {"answered", "read"} /\ (keyFetch'[v].step = "read" <=> ~Revoked(k))
      /\ \A w \in KeyViewers : w # v => keyFetch'[w] = keyFetch[w]
      /\ keyFetch' \in [KeyViewers ->
            [key : 0 .. MaxKeys, step : {"idle", "read", "answered"}, revoked : BOOLEAN]]
  BY <1>1, <1>2
<1>4. /\ cached[<<v, k>>] = "none"
      /\ UNCHANGED <<chainVars, tellVars, keyAlloc, flagged, socketVars, cached, evictVars,
                     untold, unpushed>>
  BY DEF GetKey
<1>5. KeysTypeOK'
  BY <1>1, <1>2, <1>3, <1>4 DEF KeysTypeOK, GoOffline
<1>6. OnlyRevokedNamed'
  BY <1>1, <1>2, <1>3, <1>4 DEF OnlyRevokedNamed, Revoked
<1>7. FetchesStand'
  BY <1>1, <1>2, <1>3, <1>4, ZenonT(40) DEF FetchesStand
<1>8. AcksSettled'
  BY <1>1, <1>2, <1>3, <1>4 DEF OnlyRevokedNamed, AcksSettled, Fetching
<1>9. HoldersListed'
  BY <1>1, <1>2, <1>3, <1>4 DEF HoldersListed, Holding, Fetching, Revoked
<1>10. AllocatedSince'
  BY <1>1, <1>2, <1>3, <1>4 DEF AllocatedSince, Holding, Fetching
<1>11. HoldersHear'
  BY <1>1, <1>2, <1>3, <1>4 DEF HoldersHear, Holding, Fetching, Revoked, ToBePushed
<1>12. QED
  BY <1>5, <1>6, <1>7, <1>8, <1>9, <1>10, <1>11

LEMMA AllocateServedKeyInv ==
    ASSUME KeysInv, NEW v \in KeyViewers, AllocateServedKey(v)
    PROVE  KeysInv'
<1> USE KeyFacts DEF KeysInv, KeysTypeOK, chainVars, tellVars, socketVars, evictVars
<1>1. PICK k \in Fetched : k = keyFetch[v].key /\ cached[<<v, k>>] = "none" /\ ~keyFetch[v].revoked
  BY DEF AllocateServedKey, FetchesStand
<1>2. /\ keyFetch'[v].key = k /\ keyFetch'[v].step = "answered" /\ ~keyFetch'[v].revoked
      /\ \A w \in KeyViewers : w # v => keyFetch'[w] = keyFetch[w]
      /\ keyFetch' \in [KeyViewers ->
            [key : 0 .. MaxKeys, step : {"idle", "read", "answered"}, revoked : BOOLEAN]]
  BY <1>1 DEF AllocateServedKey
<1>3. /\ keyFetch[v].step = "read" /\ keyAlloc' = keyAlloc \cup {<<v, k>>}
      /\ untold' = IF v \in Remote /\ Revoked(k) /\ k \notin keyOwed /\ <<v, k>> \notin flagged
                   THEN untold \cup {<<v, k>>} ELSE untold
      /\ unpushed' = IF Revoked(k) THEN unpushed \cup {<<v, k>>} ELSE unpushed
      /\ UNCHANGED <<chainVars, tellVars, flagged, socketVars, cached, evictVars>>
  BY <1>1 DEF AllocateServedKey
<1>4. \A p \in Pair : /\ p = <<v, k>> \/ (Holding(p)' <=> Holding(p))
                     /\ Fetching(p)' <=> Fetching(p)
  BY <1>1, <1>2, <1>3 DEF Holding, Fetching
<1>5. KeysTypeOK'
  BY <1>1, <1>2, <1>3, <1>4 DEF KeysTypeOK, GoOffline
<1>6. OnlyRevokedNamed'
  BY <1>1, <1>2, <1>3, <1>4 DEF OnlyRevokedNamed, Revoked
<1>7. FetchesStand'
  BY <1>1, <1>2, <1>3, <1>4 DEF FetchesStand
<1>8. AcksSettled'
  BY <1>1, <1>2, <1>3, <1>4 DEF OnlyRevokedNamed, AcksSettled, Fetching
<1>9. HoldersListed'
  <2> SUFFICES ASSUME NEW p \in Pair, Holding(p)', p \notin evicting' \cup untold'
               PROVE  /\ p \in keyAlloc'
                      /\ Revoked(p[2])' /\ p[1] \in Remote => p \in flagged' \/ p[2] \in keyOwed'
    BY DEF HoldersListed
  <2>1. CASE p = <<v, k>>
    BY <1>3, <2>1 DEF Revoked
  <2>2. CASE p # <<v, k>>
    <3>1. Holding(p) /\ p \notin evicting \cup untold
      BY <1>1, <1>2, <1>3, <2>2 DEF Holding, Fetching
    <3>2. QED
      BY <1>3, <3>1 DEF HoldersListed, Revoked
  <2>3. QED
    BY <2>1, <2>2
<1>10. AllocatedSince'
  <2> SUFFICES ASSUME NEW p \in keyAlloc', Holding(p)', p[1] \in Remote, p[2] \in noticed',
                      p \notin flagged'
               PROVE  p \in unpushed' \cup untold'
    BY DEF AllocatedSince
  <2>1. CASE p = <<v, k>>
    BY <1>3, <2>1 DEF OnlyRevokedNamed
  <2>2. CASE p # <<v, k>>
    <3>1. p \in keyAlloc /\ p \in Pair
      BY <1>3, <2>2
    <3>2. Holding(p)
      BY <1>1, <1>2, <1>3, <2>2, <3>1 DEF Holding, Fetching
    <3>3. QED
      BY <1>3, <3>1, <3>2 DEF AllocatedSince
  <2>3. QED
    BY <2>1, <2>2
<1>11. HoldersHear'
  BY <1>1, <1>2, <1>3, <1>4 DEF HoldersHear, Holding, Fetching, Revoked, ToBePushed
<1>12. QED
  BY <1>5, <1>6, <1>7, <1>8, <1>9, <1>10, <1>11

LEMMA KeyArrivesInv ==
    ASSUME KeysInv, NEW v \in KeyViewers, KeyArrives(v)
    PROVE  KeysInv'
<1> USE KeyFacts DEF KeysInv, KeysTypeOK, chainVars, tellVars, socketVars, evictVars, KeyArrives
<1>1. KeysTypeOK'
  BY DEF KeysTypeOK
<1>2. OnlyRevokedNamed'
  BY DEF OnlyRevokedNamed, Revoked
<1>3. FetchesStand'
  BY ZenonT(40) DEF FetchesStand
<1>4. AcksSettled'
  BY DEF OnlyRevokedNamed, AcksSettled, Fetching
<1>5. HoldersListed'
  BY DEF HoldersListed, Holding, Fetching, Revoked
<1>6. AllocatedSince'
  BY DEF AllocatedSince, Holding, Fetching
<1>7. HoldersHear'
  BY DEF HoldersHear, Holding, Fetching, Revoked, ToBePushed
<1>8. QED
  BY <1>1, <1>2, <1>3, <1>4, <1>5, <1>6, <1>7

LEMMA FetchFailsInv ==
    ASSUME KeysInv, NEW v \in KeyViewers, FetchFails(v)
    PROVE  KeysInv'
<1> USE KeyFacts DEF KeysInv, KeysTypeOK, chainVars, tellVars, socketVars, evictVars, FetchFails
<1>1. KeysTypeOK'
  BY DEF KeysTypeOK
<1>2. OnlyRevokedNamed'
  BY DEF OnlyRevokedNamed, Revoked
<1>3. FetchesStand'
  BY DEF FetchesStand
<1>4. AcksSettled'
  BY DEF OnlyRevokedNamed, AcksSettled, Fetching
<1>5. HoldersListed'
  BY DEF HoldersListed, Holding, Fetching, Revoked
<1>6. AllocatedSince'
  BY DEF AllocatedSince, Holding, Fetching
<1>7. HoldersHear'
  BY DEF HoldersHear, Holding, Fetching, Revoked, ToBePushed
<1>8. QED
  BY <1>1, <1>2, <1>3, <1>4, <1>5, <1>6, <1>7

LEMMA KeyRevocationFromPeerInv ==
    ASSUME KeysInv, NEW k \in Keys, KeyRevocationFromPeer(k)
    PROVE  KeysInv'
<1> USE KeyFacts DEF KeysInv, KeysTypeOK, chainVars, tellVars, socketVars, evictVars,
       KeyRevocationFromPeer, VerifyPeerKeyRevocation, MarkAllocatedKeyRevoked
<1>1. KeysTypeOK'
  <2>1. flagged' \subseteq keyAlloc' /\ noticed' \subseteq Keys
    OBVIOUS
  <2>2. toFanOut' \subseteq Ends \X Keys
    BY DEF Ends
  <2>3. QED
    BY <2>1, <2>2
<1>2. OnlyRevokedNamed'
  BY DEF OnlyRevokedNamed, Revoked
<1>3. FetchesStand'
  BY DEF FetchesStand
<1>4. AcksSettled'
  BY DEF OnlyRevokedNamed, AcksSettled, Fetching
<1>5. HoldersListed'
  BY DEF HoldersListed, Holding, Fetching, Revoked
<1>6. AllocatedSince'
  BY DEF AllocatedSince, Holding, Fetching
<1>7. HoldersHear'
  <2> SUFFICES ASSUME NEW p \in keyAlloc' \ (unpushed' \cup untold' \cup acked'), Holding(p)',
                      Revoked(p[2])', p[1] \in inSync', p \notin evicting'
               PROVE  ToBePushed(p)'
    BY DEF HoldersHear
  <2>1. p \in Pair /\ ToBePushed(p)
    BY DEF HoldersHear, Holding, Fetching, Revoked
  <2>2. CASE p[1] \in Remote /\ p[2] = k
    <3>1. EndOf(p[1]) = "peer"
      BY <2>2 DEF EndOf
    <3>2. <<EndOf(p[1]), p[2]>> \in toFanOut'
      BY <2>2, <3>1
    <3>3. QED
      BY <3>2 DEF ToBePushed
  <2>3. CASE ~(p[1] \in Remote /\ p[2] = k)
    BY <2>1, <2>3 DEF ToBePushed
  <2>4. QED
    BY <2>2, <2>3
<1>8. QED
  BY <1>1, <1>2, <1>3, <1>4, <1>5, <1>6, <1>7

LEMMA NoticeSettledInv ==
    ASSUME KeysInv, NEW k \in Keys, NoticeSettled(k)
    PROVE  KeysInv'
<1> USE KeyFacts DEF KeysInv, KeysTypeOK, chainVars, tellVars, socketVars, evictVars, NoticeSettled
<1>1. KeysTypeOK'
  BY DEF KeysTypeOK
<1>2. OnlyRevokedNamed'
  BY DEF OnlyRevokedNamed, Revoked
<1>3. FetchesStand'
  BY DEF FetchesStand
<1>4. AcksSettled'
  BY DEF OnlyRevokedNamed, AcksSettled, Fetching
<1>5. HoldersListed'
  BY DEF HoldersListed, Holding, Fetching, Revoked
<1>6. AllocatedSince'
  BY DEF AllocatedSince, Holding, Fetching
<1>7. HoldersHear'
  BY DEF HoldersHear, Holding, Fetching, Revoked, ToBePushed
<1>8. QED
  BY <1>1, <1>2, <1>3, <1>4, <1>5, <1>6, <1>7

LEMMA NoticeLostInv ==
    ASSUME KeysInv, NEW k \in Keys, NoticeLost(k)
    PROVE  KeysInv'
<1> USE KeyFacts DEF KeysInv, KeysTypeOK, chainVars, tellVars, socketVars, evictVars, NoticeLost
<1>1. KeysTypeOK'
  BY DEF KeysTypeOK
<1>2. OnlyRevokedNamed'
  BY DEF OnlyRevokedNamed, Revoked
<1>3. FetchesStand'
  BY DEF FetchesStand
<1>4. AcksSettled'
  BY DEF OnlyRevokedNamed, AcksSettled, Fetching
<1>5. HoldersListed'
  BY DEF HoldersListed, Holding, Fetching, Revoked
<1>6. AllocatedSince'
  BY DEF AllocatedSince, Holding, Fetching
<1>7. HoldersHear'
  BY DEF HoldersHear, Holding, Fetching, Revoked, ToBePushed
<1>8. QED
  BY <1>1, <1>2, <1>3, <1>4, <1>5, <1>6, <1>7

LEMMA AgeInv ==
    ASSUME KeysInv, NEW k \in Keys, Age(k)
    PROVE  KeysInv'
<1> USE KeyFacts DEF KeysInv, KeysTypeOK, chainVars, tellVars, socketVars, evictVars, Age
<1>1. KeysTypeOK'
  BY DEF KeysTypeOK
<1>2. OnlyRevokedNamed'
  BY DEF OnlyRevokedNamed, Revoked
<1>3. FetchesStand'
  BY DEF FetchesStand
<1>4. AcksSettled'
  BY DEF OnlyRevokedNamed, AcksSettled, Fetching
<1>5. HoldersListed'
  BY DEF HoldersListed, Holding, Fetching, Revoked
<1>6. AllocatedSince'
  BY DEF AllocatedSince, Holding, Fetching
<1>7. HoldersHear'
  BY DEF HoldersHear, Holding, Fetching, Revoked, ToBePushed
<1>8. QED
  BY <1>1, <1>2, <1>3, <1>4, <1>5, <1>6, <1>7

LEMMA SyncRequestInv ==
    ASSUME KeysInv, NEW v \in KeyViewers, SyncRequest(v)
    PROVE  KeysInv'
<1> USE KeyFacts DEF KeysInv, KeysTypeOK, chainVars, tellVars, socketVars, evictVars, SyncRequest
<1>1. KeysTypeOK'
  BY DEF KeysTypeOK
<1>2. OnlyRevokedNamed'
  BY DEF OnlyRevokedNamed, Revoked
<1>3. FetchesStand'
  BY DEF FetchesStand
<1>4. AcksSettled'
  BY DEF OnlyRevokedNamed, AcksSettled, Fetching
<1>5. HoldersListed'
  BY DEF HoldersListed, Holding, Fetching, Revoked
<1>6. AllocatedSince'
  BY DEF AllocatedSince, Holding, Fetching
<1>7. HoldersHear'
  BY DEF HoldersHear, Holding, Fetching, Revoked, ToBePushed
<1>8. QED
  BY <1>1, <1>2, <1>3, <1>4, <1>5, <1>6, <1>7

LEMMA ApplyKeyRevocationInv ==
    ASSUME KeysInv, NEW v \in KeyViewers, NEW k \in Fetched, ApplyKeyRevocation(v, k)
    PROVE  KeysInv'
<1> USE KeyFacts DEF KeysInv, KeysTypeOK, chainVars, tellVars, socketVars, evictVars, ApplyKeyRevocation
<1>1. KeysTypeOK'
  BY DEF KeysTypeOK
<1>2. OnlyRevokedNamed'
  BY DEF OnlyRevokedNamed, Revoked
<1>3. FetchesStand'
  <2>1. \A p \in Pair : cached'[p] = "none" <=> cached[p] = "none"
    OBVIOUS
  <2>2. QED
    BY <2>1 DEF FetchesStand
<1>4. AcksSettled'
  BY DEF OnlyRevokedNamed, AcksSettled, Fetching
<1>5. HoldersListed'
  BY DEF HoldersListed, Holding, Fetching, Revoked
<1>6. AllocatedSince'
  BY DEF AllocatedSince, Holding, Fetching
<1>7. HoldersHear'
  BY DEF HoldersHear, Holding, Fetching, Revoked, ToBePushed
<1>8. QED
  BY <1>1, <1>2, <1>3, <1>4, <1>5, <1>6, <1>7

LEMMA AckKeyRevokedInv ==
    ASSUME KeysInv, NEW v \in KeyViewers, NEW k \in Fetched, AckKeyRevoked(v, k)
    PROVE  KeysInv'
<1> USE KeyFacts DEF KeysInv, KeysTypeOK, chainVars, tellVars, socketVars, evictVars, AckKeyRevoked
<1>1. KeysTypeOK'
  BY DEF KeysTypeOK
<1>2. OnlyRevokedNamed'
  BY DEF OnlyRevokedNamed, Revoked
<1>3. FetchesStand'
  BY DEF FetchesStand
<1>4. AcksSettled'
  BY DEF OnlyRevokedNamed, AcksSettled, Fetching
<1>5. HoldersListed'
  <2>1. Holding(<<v, k>>) => <<v, k>> \in untold
    BY DEF AcksSettled, Holding
  <2>2. QED
    BY <2>1 DEF HoldersListed, Revoked, Holding, Fetching
<1>6. AllocatedSince'
  BY DEF AllocatedSince, Holding, Fetching
<1>7. HoldersHear'
  BY DEF HoldersHear, Holding, Fetching, Revoked, ToBePushed
<1>8. QED
  BY <1>1, <1>2, <1>3, <1>4, <1>5, <1>6, <1>7

LEMMA DisconnectViewerInv ==
    ASSUME KeysInv, NEW v \in KeyViewers, DisconnectViewer(v)
    PROVE  KeysInv'
<1> USE KeyFacts DEF KeysInv, KeysTypeOK, chainVars, tellVars, socketVars, evictVars,
       DisconnectViewer, GoOffline
<1>1. KeysTypeOK'
  BY KeysAssumption
<1>2. OnlyRevokedNamed'
  BY DEF OnlyRevokedNamed, Revoked
<1>3. FetchesStand'
  BY DEF FetchesStand
<1>4. AcksSettled'
  BY DEF OnlyRevokedNamed, AcksSettled, Fetching
<1>5. HoldersListed'
  BY DEF HoldersListed, Holding, Fetching, Revoked
<1>6. AllocatedSince'
  BY DEF AllocatedSince, Holding, Fetching
<1>7. HoldersHear'
  BY DEF HoldersHear, Holding, Fetching, Revoked, ToBePushed
<1>8. QED
  BY <1>1, <1>2, <1>3, <1>4, <1>5, <1>6, <1>7

LEMMA ServerStopsInv ==
    ASSUME KeysInv, NEW at \in Ends, ServerStops(at)
    PROVE  KeysInv'
<1> USE KeyFacts DEF KeysInv, KeysTypeOK, chainVars, tellVars, socketVars, evictVars, ServerStops, GoOffline
<1>1. KeysTypeOK'
  <2>1. keyFetch' \in [KeyViewers ->
            [key : 0 .. MaxKeys, step : {"idle", "read", "answered"}, revoked : BOOLEAN]]
    OBVIOUS
  <2>2. evictFrames' \in [Pair -> 0 .. MaxFrames]
    BY KeysAssumption
  <2>3. QED
    BY <2>1, <2>2
<1>2. OnlyRevokedNamed'
  BY DEF OnlyRevokedNamed, Revoked
<1>3. FetchesStand'
  BY DEF FetchesStand
<1>4. AcksSettled'
  BY DEF OnlyRevokedNamed, AcksSettled, Fetching
<1>5. HoldersListed'
  BY DEF HoldersListed, Holding, Fetching, Revoked
<1>6. AllocatedSince'
  BY DEF AllocatedSince, Holding, Fetching
<1>7. HoldersHear'
  BY DEF HoldersHear, Holding, Fetching, Revoked, ToBePushed
<1>8. QED
  BY <1>1, <1>2, <1>3, <1>4, <1>5, <1>6, <1>7

LEMMA EvictKeyInv ==
    ASSUME KeysInv, NEW v \in KeyViewers, NEW k \in Fetched, EvictKey(v, k)
    PROVE  KeysInv'
<1> USE KeyFacts DEF KeysInv, KeysTypeOK, chainVars, tellVars, socketVars, evictVars, EvictKey
<1>1. KeysTypeOK'
  BY DEF KeysTypeOK
<1>2. OnlyRevokedNamed'
  BY DEF OnlyRevokedNamed, Revoked
<1>3. FetchesStand'
  BY DEF FetchesStand
<1>4. AcksSettled'
  BY DEF OnlyRevokedNamed, AcksSettled, Fetching
<1>5. HoldersListed'
  BY DEF HoldersListed, Holding, Fetching, Revoked
<1>6. AllocatedSince'
  BY DEF AllocatedSince, Holding, Fetching
<1>7. HoldersHear'
  BY DEF HoldersHear, Holding, Fetching, Revoked, ToBePushed
<1>8. QED
  BY <1>1, <1>2, <1>3, <1>4, <1>5, <1>6, <1>7

LEMMA SendEvictionInv ==
    ASSUME KeysInv, NEW v \in KeyViewers, NEW k \in Fetched, SendEviction(v, k)
    PROVE  KeysInv'
<1> USE KeyFacts DEF KeysInv, KeysTypeOK, chainVars, tellVars, socketVars, evictVars, SendEviction
<1>1. KeysTypeOK'
  <2>1. evictFrames' \in [Pair -> 0 .. MaxFrames]
    BY KeysAssumption
  <2>2. evictWait' \subseteq evicting'
    BY ZenonT(40)
  <2>3. UNCHANGED <<chainVars, tellVars, keyAlloc, flagged, socketVars, keyFetch, cached, evicting,
                    evictAcks, untold, unpushed>>
    OBVIOUS
  <2> HIDE DEF SendEviction
  <2>4. QED
    BY <2>1, <2>2, <2>3
<1>2. OnlyRevokedNamed'
  BY DEF OnlyRevokedNamed, Revoked
<1>3. FetchesStand'
  BY DEF FetchesStand
<1>4. AcksSettled'
  BY DEF OnlyRevokedNamed, AcksSettled, Fetching
<1>5. HoldersListed'
  BY DEF HoldersListed, Holding, Fetching, Revoked
<1>6. AllocatedSince'
  BY DEF AllocatedSince, Holding, Fetching
<1>7. HoldersHear'
  BY DEF HoldersHear, Holding, Fetching, Revoked, ToBePushed
<1>8. QED
  BY <1>1, <1>2, <1>3, <1>4, <1>5, <1>6, <1>7

LEMMA EvictionTimeoutInv ==
    ASSUME KeysInv, NEW v \in KeyViewers, NEW k \in Fetched, EvictionTimeout(v, k)
    PROVE  KeysInv'
<1> USE KeyFacts DEF KeysInv, KeysTypeOK, chainVars, tellVars, socketVars, evictVars, EvictionTimeout
<1>1. KeysTypeOK'
  BY DEF KeysTypeOK
<1>2. OnlyRevokedNamed'
  BY DEF OnlyRevokedNamed, Revoked
<1>3. FetchesStand'
  BY DEF FetchesStand
<1>4. AcksSettled'
  BY DEF OnlyRevokedNamed, AcksSettled, Fetching
<1>5. HoldersListed'
  BY DEF HoldersListed, Holding, Fetching, Revoked
<1>6. AllocatedSince'
  BY DEF AllocatedSince, Holding, Fetching
<1>7. HoldersHear'
  BY DEF HoldersHear, Holding, Fetching, Revoked, ToBePushed
<1>8. QED
  BY <1>1, <1>2, <1>3, <1>4, <1>5, <1>6, <1>7

LEMMA HandleKeyEvictionInv ==
    ASSUME KeysInv, NEW v \in KeyViewers, NEW k \in Fetched, HandleKeyEviction(v, k)
    PROVE  KeysInv'
<1> USE KeyFacts DEF KeysInv, KeysTypeOK, chainVars, tellVars, socketVars, evictVars, HandleKeyEviction
<1>1. KeysTypeOK'
  <2>1. evictFrames' \in [Pair -> 0 .. MaxFrames]
    BY KeysAssumption
  <2>2. QED
    BY <2>1
<1>2. OnlyRevokedNamed'
  BY DEF OnlyRevokedNamed, Revoked
<1>3. FetchesStand'
  BY DEF FetchesStand
<1>4. AcksSettled'
  BY DEF OnlyRevokedNamed, AcksSettled, Fetching
<1>5. HoldersListed'
  <2>1. <<v, k>> \in keyAlloc \ evicting => <<v, k>> \in untold'
    OBVIOUS
  <2>2. untold \subseteq untold'
    OBVIOUS
  <2>3. UNCHANGED <<chainVars, tellVars, socketVars, keyFetch, cached, evicting>>
    OBVIOUS
  <2>4. keyAlloc' = keyAlloc \ {<<v, k>>} /\ flagged' = flagged \ {<<v, k>>}
    OBVIOUS
  <2> HIDE DEF HandleKeyEviction
  <2>5. QED
    BY <2>1, <2>2, <2>3, <2>4, ZenonT(40) DEF HoldersListed, Revoked, Holding, Fetching
<1>6. AllocatedSince'
  BY DEF AllocatedSince, Holding, Fetching
<1>7. HoldersHear'
  BY DEF HoldersHear, Holding, Fetching, Revoked, ToBePushed
<1>8. QED
  BY <1>1, <1>2, <1>3, <1>4, <1>5, <1>6, <1>7

LEMMA EvictionAckInv ==
    ASSUME KeysInv, NEW v \in KeyViewers, NEW k \in Fetched, EvictionAck(v, k)
    PROVE  KeysInv'
<1> USE KeyFacts DEF KeysInv, KeysTypeOK, chainVars, tellVars, socketVars, evictVars
<1>1. /\ evictAcks' \subseteq evictAcks
      /\ UNCHANGED <<chainVars, tellVars, keyAlloc, flagged, socketVars, keyFetch, evictFrames>>
  BY DEF EvictionAck
<1>2. CASE <<v, k>> \notin evictWait
  <2>1. UNCHANGED <<cached, evicting, evictWait, untold, unpushed>>
    BY <1>2 DEF EvictionAck
  <2>2. KeysTypeOK'
    BY <1>1, <2>1 DEF KeysTypeOK
  <2>3. OnlyRevokedNamed'
    BY <1>1, <2>1 DEF OnlyRevokedNamed, Revoked
  <2>4. FetchesStand'
    BY <1>1, <2>1 DEF FetchesStand
  <2>5. AcksSettled'
    BY <1>1, <2>1 DEF AcksSettled, Fetching
  <2>6. HoldersListed'
    BY <1>1, <2>1 DEF HoldersListed, Holding, Fetching, Revoked
  <2>7. AllocatedSince'
    BY <1>1, <2>1 DEF AllocatedSince, Holding, Fetching
  <2>8. HoldersHear'
    BY <1>1, <2>1 DEF HoldersHear, Holding, Fetching, Revoked, ToBePushed
  <2>9. QED
    BY <2>2, <2>3, <2>4, <2>5, <2>6, <2>7, <2>8
<1>3. CASE <<v, k>> \in evictWait
  <2>1. /\ cached' \in [Pair -> {"none", "good", "revoked"}] /\ cached'[<<v, k>>] = "none"
        /\ \A p \in Pair : p # <<v, k>> => cached'[p] = cached[p]
        /\ evicting' = evicting \ {<<v, k>>} /\ evictWait' = evictWait \ {<<v, k>>}
        /\ untold' = untold \ {<<v, k>>} /\ unpushed' = unpushed \ {<<v, k>>}
    <3>1. <<v, k>> \in Pair
      OBVIOUS
    <3>2. cached' = [cached EXCEPT ![<<v, k>>] = "none"]
      BY <1>3 DEF EvictionAck
    <3>3. /\ cached' \in [Pair -> {"none", "good", "revoked"}] /\ cached'[<<v, k>>] = "none"
          /\ \A p \in Pair : p # <<v, k>> => cached'[p] = cached[p]
      BY <3>1, <3>2
    <3>4. QED
      BY <1>3, <3>3 DEF EvictionAck
  <2>2. \A p \in Pair : cached'[p] = "good" \/ keyFetch[p[1]].key = p[2] => p # <<v, k>>
    <3>1. cached[<<v, k>>] # "none"
      BY <1>3 DEF FetchesStand
    <3>2. keyFetch[v].key # k
      BY <3>1 DEF FetchesStand
    <3>3. SUFFICES ASSUME NEW p \in Pair, p = <<v, k>>
                   PROVE  cached'[p] # "good" /\ keyFetch[p[1]].key # p[2]
      OBVIOUS
    <3>4. p[1] = v /\ p[2] = k
      BY <3>3
    <3>5. QED
      BY <2>1, <3>2, <3>3, <3>4
  <2>3. KeysTypeOK'
    BY <1>1, <2>1, <2>2 DEF KeysTypeOK
  <2>4. OnlyRevokedNamed'
    BY <1>1, <2>1, <2>2 DEF OnlyRevokedNamed, Revoked
  <2>5. FetchesStand'
    BY <1>1, <2>1, <2>2 DEF FetchesStand
  <2>6. AcksSettled'
    BY <1>1, <2>1, <2>2 DEF AcksSettled, Fetching
  <2>7. HoldersListed'
    BY <1>1, <2>1, <2>2 DEF HoldersListed, Holding, Fetching, Revoked
  <2>8. AllocatedSince'
    BY <1>1, <2>1, <2>2 DEF AllocatedSince, Holding, Fetching
  <2>9. HoldersHear'
    BY <1>1, <2>1, <2>2 DEF HoldersHear, Holding, Fetching, Revoked, ToBePushed
  <2>10. QED
    BY <2>3, <2>4, <2>5, <2>6, <2>7, <2>8, <2>9
<1>4. QED
  BY <1>2, <1>3

LEMMA FanoutKeyRevocationInv ==
    ASSUME KeysInv, NEW at \in Ends, NEW k \in Keys, FanoutKeyRevocation(at, k)
    PROVE  KeysInv'
<1> USE KeyFacts DEF KeysInv, KeysTypeOK, chainVars, tellVars, socketVars, evictVars, FanoutKeyRevocation
<1>1. KeysTypeOK'
  <2>1. PICK holders \in SUBSET KeyViewers :
            fanning' = IF holders = {} THEN fanning
                       ELSE fanning \cup {[at |-> at, key |-> k, left |-> holders]}
    OBVIOUS
  <2>2. [at |-> at, key |-> k, left |-> holders] \in [at : Ends, key : Keys, left : SUBSET KeyViewers]
    OBVIOUS
  <2>3. toFanOut' \subseteq Ends \X Keys
    OBVIOUS
  <2>4. UNCHANGED <<chainVars, keyOwed, noticed, keyAlloc, flagged, socketVars, keyFetch, cached,
                    evictVars, untold, unpushed>>
    OBVIOUS
  <2> HIDE DEF FanoutKeyRevocation
  <2>5. QED
    BY <2>1, <2>2, <2>3, <2>4
<1>2. OnlyRevokedNamed'
  BY DEF OnlyRevokedNamed, Revoked
<1>3. FetchesStand'
  BY DEF FetchesStand
<1>4. AcksSettled'
  BY DEF OnlyRevokedNamed, AcksSettled, Fetching
<1>5. HoldersListed'
  BY DEF HoldersListed, Holding, Fetching, Revoked
<1>6. AllocatedSince'
  BY DEF AllocatedSince, Holding, Fetching
<1>7. HoldersHear'
  <2> SUFFICES ASSUME NEW p \in keyAlloc' \ (unpushed' \cup untold' \cup acked'), Holding(p)',
                      Revoked(p[2])', p[1] \in inSync', p \notin evicting'
               PROVE  ToBePushed(p)'
    BY DEF HoldersHear
  <2>1. p \in Pair /\ p \in keyAlloc /\ ToBePushed(p)
    BY DEF HoldersHear, Holding, Fetching, Revoked
  <2>2. CASE EndOf(p[1]) = at /\ p[2] = k
    <3>1. PICK holders : holders = {w \in KeyViewers : EndOf(w) = at /\ <<w, k>> \in keyAlloc}
      OBVIOUS
    <3>2. p[1] \in holders
      BY <2>1, <2>2, <3>1
    <3>3. PICK f : f = [at |-> at, key |-> k, left |-> holders]
      OBVIOUS
    <3>4. f \in fanning' /\ f.at = EndOf(p[1]) /\ f.key = p[2] /\ p[1] \in f.left
      BY <2>2, <3>1, <3>2, <3>3
    <3>5. QED
      BY <3>4 DEF ToBePushed
  <2>3. CASE ~(EndOf(p[1]) = at /\ p[2] = k)
    BY <2>1, <2>3 DEF ToBePushed
  <2>4. QED
    BY <2>2, <2>3
<1>8. QED
  BY <1>1, <1>2, <1>3, <1>4, <1>5, <1>6, <1>7

LEMMA FanToInv ==
    ASSUME KeysInv, NEW f \in fanning, NEW v \in f.left, FanTo(f, v)
    PROVE  KeysInv'
<1> USE KeyFacts DEF KeysInv, KeysTypeOK, chainVars, tellVars, socketVars, evictVars
<1>1. PICK at \in Ends, k \in Fetched, left \in SUBSET KeyViewers :
        /\ f.at = at /\ f.key = k /\ f.left = left /\ v \in left
        /\ f = [at |-> at, key |-> k, left |-> left]
  BY DEF OnlyRevokedNamed
<1>2. PICK g \in [at : Ends, key : Keys, left : SUBSET KeyViewers] :
        /\ g.at = at /\ g.key = k /\ g.left = left \ {v}
        /\ g = [f EXCEPT !.left = @ \ {v}]
  BY <1>1
<1>3. /\ fanning' = (fanning \ {f}) \cup (IF left = {v} THEN {} ELSE {g})
      /\ pushed' = IF v \in inSync THEN pushed \cup {<<v, k>>} ELSE pushed
  BY <1>1, <1>2 DEF FanTo
<1>4. UNCHANGED <<chainVars, keyOwed, noticed, toFanOut, keyAlloc, flagged, inSync, catching, acked,
                  keyFetch, cached, evictVars, untold, unpushed>>
  BY DEF FanTo
<1>5. v \in KeyViewers /\ Revoked(k) /\ <<v, k>> \in Pair
  BY <1>1 DEF OnlyRevokedNamed
<1>6. KeysTypeOK'
  BY <1>2, <1>3, <1>4, <1>5
<1>7. OnlyRevokedNamed'
  <2>1. \A h \in fanning' : Revoked(h.key) /\ h.key \in Fetched
    BY <1>2, <1>3, <1>5 DEF OnlyRevokedNamed
  <2>2. \A p \in pushed' \cup acked : Revoked(p[2])
    BY <1>3, <1>5 DEF OnlyRevokedNamed
  <2>3. QED
    BY <1>4, <2>1, <2>2 DEF OnlyRevokedNamed, Revoked
<1>8. FetchesStand' /\ AcksSettled'
  BY <1>4 DEF FetchesStand, AcksSettled, Fetching
<1>9. HoldersListed' /\ AllocatedSince'
  BY <1>4 DEF HoldersListed, AllocatedSince, Holding, Fetching, Revoked
<1>10. HoldersHear'
  <2> SUFFICES ASSUME NEW p \in keyAlloc' \ (unpushed' \cup untold' \cup acked'), Holding(p)',
                      Revoked(p[2])', p[1] \in inSync', p \notin evicting'
               PROVE  ToBePushed(p)'
    BY DEF HoldersHear
  <2>1. p \in Pair /\ p[1] \in inSync /\ ToBePushed(p)
    BY <1>4 DEF HoldersHear, Holding, Fetching, Revoked
  <2>2. CASE \E h \in fanning : h.at = EndOf(p[1]) /\ h.key = p[2] /\ p[1] \in h.left
    <3>1. PICK h \in fanning : h.at = EndOf(p[1]) /\ h.key = p[2] /\ p[1] \in h.left
      BY <2>2
    <3>2. CASE h # f
      BY <1>3, <3>1, <3>2 DEF ToBePushed
    <3>3. CASE h = f /\ p[1] # v
      <4>1. g \in fanning' /\ g.at = EndOf(p[1]) /\ g.key = p[2] /\ p[1] \in g.left
        BY <1>1, <1>2, <1>3, <3>1, <3>3
      <4>2. QED
        BY <4>1 DEF ToBePushed
    <3>4. CASE h = f /\ p[1] = v
      <4>1. p = <<v, k>>
        BY <1>1, <2>1, <3>1, <3>4
      <4>2. QED
        BY <1>3, <2>1, <3>4, <4>1 DEF ToBePushed
    <3>5. QED
      BY <3>2, <3>3, <3>4
  <2>3. CASE ~\E h \in fanning : h.at = EndOf(p[1]) /\ h.key = p[2] /\ p[1] \in h.left
    <3>1. pushed \subseteq pushed'
      BY <1>3
    <3>2. QED
      BY <1>4, <2>1, <2>3, <3>1 DEF ToBePushed
  <2>4. QED
    BY <2>2, <2>3
<1>11. QED
  BY <1>6, <1>7, <1>8, <1>9, <1>10

LEMMA CatchUpKeysInv ==
    ASSUME KeysInv, NEW v \in KeyViewers, NEW failing \in SUBSET Fetched, CatchUpKeys(v, failing)
    PROVE  KeysInv'
<1> USE KeyFacts DEF KeysInv, KeysTypeOK, chainVars, tellVars, socketVars, evictVars
<1>1. PICK missing \in SUBSET Fetched :
        /\ missing = MissingRevocations(v)
        /\ \A k \in Fetched : k \in missing <=>
              <<v, k>> \in keyAlloc /\ (<<v, k>> \in flagged \/ (v \notin Remote /\ Revoked(k)))
  <2>1. MissingRevocations(v) \in SUBSET Fetched
    BY DEF MissingRevocations
  <2>2. \A k \in Fetched : k \in MissingRevocations(v) <=>
            <<v, k>> \in keyAlloc /\ (<<v, k>> \in flagged \/ (v \notin Remote /\ Revoked(k)))
    BY DEF MissingRevocations
  <2>3. QED
    BY <2>1, <2>2
<1>2. PICK sent \in SUBSET Fetched :
        /\ sent = UNION {FetchForeignKeyRevocation(j, failing) : j \in missing}
        /\ \A k \in Fetched : k \in sent <=> k \in missing \ failing /\ Revoked(k)
  <2>1. \A k : k \in UNION {FetchForeignKeyRevocation(j, failing) : j \in missing}
                <=> k \in missing \ failing /\ Revoked(k)
    BY <1>1 DEF FetchForeignKeyRevocation, GetKeyRevocation
  <2>2. UNION {FetchForeignKeyRevocation(j, failing) : j \in missing} \subseteq Fetched
    BY <1>1, <2>1
  <2>3. QED
    BY <2>1, <2>2
<1>3. /\ v \in catching /\ failing \subseteq missing /\ (failing # {} => v \in Remote)
      /\ catching' = catching \ {v}
      /\ pushed' = pushed \cup {<<v, k>> : k \in sent}
      /\ unpushed' = (unpushed \ {<<v, k>> : k \in missing}) \cup {<<v, k>> : k \in failing}
      /\ UNCHANGED <<chainVars, tellVars, keyAlloc, flagged, inSync, acked, keyFetch, cached, evictVars,
                     untold>>
  BY <1>1, <1>2 DEF CatchUpKeys
<1>4. KeysTypeOK'
  <2>1. pushed' \subseteq Pair /\ unpushed' \subseteq Pair
    BY <1>1, <1>2, <1>3 DEF Pair
  <2>2. QED
    BY <1>3, <2>1
<1>5. OnlyRevokedNamed'
  BY <1>2, <1>3 DEF OnlyRevokedNamed, Revoked
<1>6. FetchesStand' /\ AcksSettled'
  BY <1>3 DEF FetchesStand, AcksSettled, Fetching
<1>7. HoldersListed'
  BY <1>3 DEF HoldersListed, Holding, Fetching, Revoked
<1>8. AllocatedSince'
  <2> SUFFICES ASSUME NEW p \in keyAlloc', Holding(p)', p[1] \in Remote, p[2] \in noticed',
                      p \notin flagged'
               PROVE  p \in unpushed' \cup untold'
    BY DEF AllocatedSince
  <2>1. p \in Pair /\ p \in unpushed \cup untold
    BY <1>3 DEF AllocatedSince, Holding, Fetching
  <2>2. p[1] = v => p[2] \notin missing
    BY <1>1, <1>3, <2>1
  <2>3. QED
    BY <1>3, <2>1, <2>2
<1>9. HoldersHear'
  <2> SUFFICES ASSUME NEW p \in keyAlloc' \ (unpushed' \cup untold' \cup acked'), Holding(p)',
                      Revoked(p[2])', p[1] \in inSync', p \notin evicting'
               PROVE  ToBePushed(p)'
    BY DEF HoldersHear
  <2>1. p \in Pair /\ p \in keyAlloc /\ p \notin untold \cup acked \cup evicting /\ Holding(p)
        /\ Revoked(p[2]) /\ p[1] \in inSync
    BY <1>3 DEF Holding, Fetching, Revoked
  <2>2. CASE p[1] = v /\ p[2] \in missing
    <3>1. p[2] \notin failing
      BY <1>3, <2>1, <2>2
    <3>2. p[2] \in sent
      BY <1>2, <2>1, <2>2, <3>1
    <3>3. p \in pushed'
      BY <1>3, <2>1, <2>2, <3>2
    <3>4. QED
      BY <3>3 DEF ToBePushed
  <2>3. CASE p[1] = v /\ p[2] \notin missing
    <3>1. v \in Remote /\ p \notin flagged
      BY <1>1, <2>1, <2>3
    <3>2. p[2] \in keyOwed
      BY <2>1, <2>3, <3>1 DEF HoldersListed
    <3>3. p \notin unpushed
      BY <1>3, <2>1, <2>3
    <3>4. p[2] \notin noticed
      BY <2>1, <2>3, <3>1, <3>3 DEF AllocatedSince
    <3>5. QED
      BY <1>3, <2>3, <3>1, <3>2, <3>4 DEF ToBePushed
  <2>4. CASE p[1] # v
    <3>1. p \notin unpushed
      BY <1>3, <2>1, <2>4
    <3>2. ToBePushed(p)
      BY <2>1, <3>1 DEF HoldersHear
    <3>3. QED
      BY <1>3, <2>4, <3>2 DEF ToBePushed
  <2>5. QED
    BY <2>2, <2>3, <2>4
<1>10. QED
  BY <1>4, <1>5, <1>6, <1>7, <1>8, <1>9

\* Setting one field of a key's row.
LEMMA KeyRowSet ==
    ASSUME NEW row \in KeyRow
    PROVE  /\ \A x \in {"none", "active", "revoked"} :
                 [row EXCEPT !.state = x] \in KeyRow /\ [row EXCEPT !.state = x].state = x
           /\ \A k \in Keys \cup {0} :
                 [row EXCEPT !.successor = k] \in KeyRow /\ [row EXCEPT !.successor = k].state = row.state
           /\ \A b \in BOOLEAN :
                 [row EXCEPT !.restricted = b] \in KeyRow /\ [row EXCEPT !.restricted = b].state = row.state
BY DEF KeyRow

\* The row of a key is replaced and its revocation owed, by both who may do so.
LEMMA ReplaceInv ==
    ASSUME KeysInv, NEW pred \in Keys, NEW new \in Keys, NEW restricted \in BOOLEAN,
           Unregistered(new), keyRow[pred].state # "none",
           Replace(pred, new, restricted),
           keyOwed' = keyOwed \cup {pred} \/ (keyOwed' = keyOwed /\ Revoked(pred))
    PROVE  KeysInv'
<1> USE KeyFacts DEF KeysInv, KeysTypeOK, chainVars, tellVars, socketVars, evictVars
<1>1. PICK row \in KeyRow :
        row = [NoKeyRow EXCEPT !.state = "active", !.restricted = restricted] /\ row.state = "active"
  <2>1. [NoKeyRow EXCEPT !.state = "active"] \in KeyRow
    BY KeyRowSet
  <2>2. [[NoKeyRow EXCEPT !.state = "active"] EXCEPT !.restricted = restricted] \in KeyRow
    BY <2>1, KeyRowSet
  <2>3. [[NoKeyRow EXCEPT !.state = "active"] EXCEPT !.restricted = restricted].state = "active"
    BY <2>1, KeyRowSet
  <2>4. QED
    BY <2>2, <2>3
<1>2. PICK old \in KeyRow :
        old = [[keyRow[pred] EXCEPT !.state = "revoked"] EXCEPT !.successor = new] /\ old.state = "revoked"
  <2>1. /\ [keyRow[pred] EXCEPT !.state = "revoked"] \in KeyRow
        /\ [keyRow[pred] EXCEPT !.state = "revoked"].state = "revoked"
    BY KeyRowSet
  <2>2. /\ [[keyRow[pred] EXCEPT !.state = "revoked"] EXCEPT !.successor = new] \in KeyRow
        /\ [[keyRow[pred] EXCEPT !.state = "revoked"] EXCEPT !.successor = new].state = "revoked"
    BY <2>1, KeyRowSet, ZenonT(40)
  <2>3. QED
    BY <2>2
<1>3. pred # new
  BY DEF Unregistered
<1>4. keyRow' = [keyRow EXCEPT ![pred] = old, ![new] = row]
  BY <1>1, <1>2, <1>3 DEF Replace
<1>5. /\ keyRow' \in [Keys -> KeyRow]
      /\ keyRow'[pred] = old /\ keyRow'[new] = row
      /\ \A k \in Keys : k \notin {pred, new} => keyRow'[k] = keyRow[k]
  BY <1>1, <1>2, <1>3, <1>4
<1>6. \A k \in Keys : Revoked(k)' <=> Revoked(k) \/ k = pred
  BY <1>1, <1>2, <1>5 DEF Revoked, Unregistered
<1>7. /\ activeKey' = new /\ toFanOut' = toFanOut \cup {<<"home", pred>>}
      /\ UNCHANGED <<aged, noticed, keyAlloc, flagged, fanning, socketVars, keyFetch, cached, evictVars,
                     untold, unpushed>>
  BY DEF Replace
<1>8. keyOwed \subseteq keyOwed' /\ (pred \in keyOwed' \/ Revoked(pred))
      /\ \A k \in keyOwed' : k \in keyOwed \/ k = pred
  OBVIOUS
<1>9. KeysTypeOK'
  <2>1. <<"home", pred>> \in Ends \X Keys
    BY DEF Ends
  <2>2. keyOwed' \subseteq Keys
    BY <1>8
  <2>3. QED
    BY <1>5, <1>7, <2>1, <2>2
<1>10. OnlyRevokedNamed'
  <2>1. keyRow'[activeKey'].state # "none"
    BY <1>1, <1>5, <1>7
  <2>2. \A k \in Keys : Revoked(k) => Revoked(k)'
    BY <1>6
  <2>3. (\A k \in noticed : Revoked(k)') /\ (\A m \in toFanOut : Revoked(m[2])')
    BY <2>2 DEF OnlyRevokedNamed
  <2>4. (\A f \in fanning : Revoked(f.key)') /\ (\A p \in pushed \cup acked : Revoked(p[2])')
    BY <2>2 DEF OnlyRevokedNamed
  <2>5. Revoked(pred)'
    BY <1>6
  <2>6. QED
    BY <1>7, <1>8, <2>1, <2>3, <2>4, <2>5 DEF OnlyRevokedNamed
<1>11. FetchesStand' /\ AcksSettled'
  BY <1>7 DEF FetchesStand, AcksSettled, Fetching
<1>12. HoldersListed'
  BY <1>6, <1>7, <1>8 DEF HoldersListed, Holding, Fetching
<1>13. AllocatedSince'
  BY <1>7 DEF AllocatedSince, Holding, Fetching
<1>14. HoldersHear'
  <2> SUFFICES ASSUME NEW p \in keyAlloc' \ (unpushed' \cup untold' \cup acked'), Holding(p)',
                      Revoked(p[2])', p[1] \in inSync', p \notin evicting'
               PROVE  ToBePushed(p)'
    BY DEF HoldersHear
  <2>1. p \in Pair /\ p \in keyAlloc /\ p \notin unpushed \cup untold \cup acked \cup evicting
        /\ p[1] \in inSync /\ Holding(p)
    BY <1>7 DEF Holding, Fetching
  <2>2. CASE Revoked(p[2])
    <3>1. ToBePushed(p)
      BY <2>1, <2>2 DEF HoldersHear
    <3>2. QED
      BY <1>7, <1>8, <3>1 DEF ToBePushed
  <2>3. CASE ~Revoked(p[2])
    <3>1. p[2] = pred /\ pred \in keyOwed'
      BY <1>6, <1>8, <2>1, <2>3
    <3>2. pred \notin noticed
      BY <2>3, <3>1 DEF OnlyRevokedNamed
    <3>3. p[1] \notin Remote => <<EndOf(p[1]), p[2]>> \in toFanOut'
      BY <1>7, <3>1 DEF EndOf
    <3>4. QED
      BY <1>7, <3>1, <3>2, <3>3 DEF ToBePushed
  <2>4. QED
    BY <2>2, <2>3
<1>15. QED
  BY <1>9, <1>10, <1>11, <1>12, <1>13, <1>14

\* Nobody has fetched anything yet.
LEMMA KeysInitInv == KeysInit => KeysInv
<1> SUFFICES ASSUME KeysInit PROVE KeysInv
  OBVIOUS
<1> USE KeyFacts DEF KeysInit
<1>1. KeysTypeOK
  <2>1. keyRow \in [Keys -> KeyRow]
    BY DEF NoKeyRow, KeyRow
  <2>2. evictFrames \in [Pair -> 0 .. MaxFrames]
    BY KeysAssumption
  <2>3. QED
    BY <2>1, <2>2 DEF KeysTypeOK
<1>2. OnlyRevokedNamed
  BY DEF OnlyRevokedNamed, NoKeyRow
<1>3. FetchesStand /\ AcksSettled /\ AllocatedSince /\ HoldersHear
  BY DEF FetchesStand, AcksSettled, AllocatedSince, HoldersHear
<1>4. HoldersListed
  BY DEF HoldersListed, Holding, Fetching
<1>5. QED
  BY <1>1, <1>2, <1>3, <1>4 DEF KeysInv

LEMMA KeysNextInv == KeysInv /\ [KeysNext]_keyVars => KeysInv'
<1> SUFFICES ASSUME KeysInv, [KeysNext]_keyVars PROVE KeysInv'
  OBVIOUS
<1>1. CASE UNCHANGED keyVars
  <2> USE <1>1 DEF KeysInv, keyVars
  <2>1. KeysTypeOK' /\ OnlyRevokedNamed' /\ FetchesStand'
    BY DEF KeysTypeOK, OnlyRevokedNamed, FetchesStand, Revoked
  <2>2. AcksSettled' /\ HoldersListed' /\ AllocatedSince'
    BY DEF AcksSettled, HoldersListed, AllocatedSince, Holding, Fetching, Revoked
  <2>3. HoldersHear'
    BY DEF HoldersHear, Holding, Fetching, Revoked, ToBePushed
  <2>4. QED
    BY <2>1, <2>2, <2>3
<1>2. ASSUME NEW new \in Keys, Rebind(new) PROVE KeysInv'
  <2>1. activeKey \in Keys /\ keyRow[activeKey].state # "none"
    BY DEF KeysInv, KeysTypeOK, OnlyRevokedNamed
  <2>2. QED
    BY <1>2, <2>1, ReplaceInv DEF Rebind, OweRevocation
<1>3. ASSUME NEW new \in Keys, NEW pred \in Keys, RotateKey(pred, new) PROVE KeysInv'
  BY <1>3, ReplaceInv DEF RotateKey, MayRotate, OweRevocation
<1>4. ASSUME NEW k \in Keys, Age(k) \/ KeyRevocationFromPeer(k) \/ NoticeSettled(k) \/ NoticeLost(k)
      PROVE  KeysInv'
  BY <1>4, AgeInv, KeyRevocationFromPeerInv, NoticeSettledInv, NoticeLostInv
<1>5. ASSUME NEW v \in KeyViewers,
             AllocateServedKey(v) \/ KeyArrives(v) \/ FetchFails(v) \/ SyncRequest(v) \/ DisconnectViewer(v)
      PROVE  KeysInv'
  BY <1>5, AllocateServedKeyInv, KeyArrivesInv, FetchFailsInv, SyncRequestInv, DisconnectViewerInv
<1>6. ASSUME NEW v \in KeyViewers, NEW failing \in SUBSET Fetched, CatchUpKeys(v, failing)
      PROVE  KeysInv'
  BY <1>6, CatchUpKeysInv
<1>7. ASSUME NEW v \in KeyViewers, NEW k \in Fetched,
             \/ GetKey(v, k) \/ ApplyKeyRevocation(v, k) \/ AckKeyRevoked(v, k)
             \/ EvictKey(v, k) \/ SendEviction(v, k) \/ EvictionTimeout(v, k)
             \/ HandleKeyEviction(v, k) \/ EvictionAck(v, k)
      PROVE  KeysInv'
  BY <1>7, GetKeyInv, ApplyKeyRevocationInv, AckKeyRevokedInv, EvictKeyInv, SendEvictionInv,
     EvictionTimeoutInv, HandleKeyEvictionInv, EvictionAckInv
<1>8. ASSUME NEW at \in Ends, ServerStops(at) PROVE KeysInv'
  BY <1>8, ServerStopsInv
<1>9. ASSUME NEW at \in Ends, NEW k \in Keys, FanoutKeyRevocation(at, k) PROVE KeysInv'
  BY <1>9, FanoutKeyRevocationInv
<1>10. ASSUME NEW f \in fanning, NEW v \in f.left, FanTo(f, v) PROVE KeysInv'
  BY <1>10, FanToInv
<1>11. QED
  BY <1>1, <1>2, <1>3, <1>4, <1>5, <1>6, <1>7, <1>8, <1>9, <1>10 DEF KeysNext

\* However fetches, fanouts, catch-ups, acks and evictions overlap on the two
\* servers: who holds a revoked key unmarked is on a list that will be worked
\* off, but for the pairs a listed race has left out (keyRevocation.ts,
\* fanoutKeyRevocation, catchUp).
THEOREM RevocationAlwaysOwed == KeysSpec => []RevocationOwed
<1>1. KeysInv => RevocationOwed
  <2> SUFFICES ASSUME KeysInv PROVE RevocationOwed
    OBVIOUS
  <2>1. StaleIsOwed
    BY DEF KeysInv, HoldersListed, StaleIsOwed, Holding
  <2>2. QED
    BY <2>1 DEF KeysInv, HoldersHear, RevocationOwed, Holding
<1>2. QED
  BY <1>1, KeysInitInv, KeysNextInv, PTL DEF KeysSpec

-----------------------------------------------------------------------------
(* Border                                                                  *)

\* A step that neither decides on a crossing nor waits for the answer to one.
Passive(s) == s.step \notin {"register", "await"}

\* An offer is named by the ask it was registered for, while the caller waits
\* for the answer and once the answer has been mapped.
AsksNamed ==
    \A e \in Asks : ask[e].offer # 0 => ask[e].offer < nextOffer /\ wrote[ask[e].offer] = e
AwaitsNamed ==
    \A t \in Goroutines : \A n \in DOMAIN todo[t] :
        todo[t][n].step = "await" =>
            todo[t][n].p < nextOffer /\ wrote[todo[t][n].p] = todo[t][n].e

\* Who decides does so now, and nothing is left to decide later.
DecidesFirst ==
    \A t \in Goroutines : \A n \in DOMAIN todo[t] : n # 1 => Passive(todo[t][n])

\* One goroutine at a time, and there is room for what it decides.
OneDecides ==
    overlapped \/ /\ \A s, t \in Deciding : s = t
                  /\ Cardinality(Crossings) <= MaxCrossings
                  /\ Deciding # {} => Cardinality(Crossings) < MaxCrossings

BorderInv ==
    BorderTypeOK /\ AsksNamed /\ AwaitsNamed /\ DecidesFirst /\ OneDecides

\* The shapes of the steps whose arguments matter.
LEMMA StepShapes ==
    ASSUME NEW s \in Step
    PROVE  /\ s.step = "open" => s.u \in Viewers /\ s.name \in AskNames
           /\ s.step \in {"fold", "register", "await"} => s.e \in Asks /\ s.promoting \in BOOLEAN
           /\ s.step \in {"await", "record", "deliver", "markHome", "notHeld"} => s.p \in Offers
           /\ s.step \in {"cancel", "leave"} => s.ps \in SUBSET Offers
           /\ s.step = "leave" => s.u \in Viewers
           /\ s.step \in {"ackPeer", "close"} => s.e \in Asks
BY DEF Step

\* The steps the goroutines are given.
LEMMA StepsMade ==
    /\ \A u \in Viewers, name \in AskNames : [step |-> "open", u |-> u, name |-> name] \in Step
    /\ \A e \in Asks, b \in BOOLEAN : /\ [step |-> "fold", e |-> e, promoting |-> b] \in Step
                                      /\ [step |-> "register", e |-> e, promoting |-> b] \in Step
    /\ \A e \in Asks, b \in BOOLEAN, p \in Offers :
          [step |-> "await", e |-> e, p |-> p, promoting |-> b] \in Step
    /\ \A b \in BOOLEAN, p \in Offers : [step |-> "record", p |-> p, online |-> b] \in Step
    /\ \A p \in Offers : /\ [step |-> "deliver", p |-> p] \in Step
                         /\ [step |-> "markHome", p |-> p] \in Step
                         /\ [step |-> "notHeld", p |-> p] \in Step
    /\ [step |-> "promote"] \in Step /\ [step |-> "holderNotify"] \in Step
    /\ \A e \in Asks : [step |-> "ackPeer", e |-> e] \in Step /\ [step |-> "close", e |-> e] \in Step
    /\ \A u \in Viewers, ps \in SUBSET Offers :
          [step |-> "leave", u |-> u, ps |-> ps] \in Step /\ [step |-> "cancel", ps |-> ps] \in Step
<1>1. \A u \in Viewers, name \in AskNames : [step |-> "open", u |-> u, name |-> name] \in Step
  BY DEF Step
<1>2. \A e \in Asks, b \in BOOLEAN : /\ [step |-> "fold", e |-> e, promoting |-> b] \in Step
                                     /\ [step |-> "register", e |-> e, promoting |-> b] \in Step
  BY DEF Step
<1>3. \A e \in Asks, b \in BOOLEAN, p \in Offers :
          [step |-> "await", e |-> e, p |-> p, promoting |-> b] \in Step
  BY DEF Step
<1>4. \A b \in BOOLEAN, p \in Offers : [step |-> "record", p |-> p, online |-> b] \in Step
  BY DEF Step
<1>5. \A p \in Offers : /\ [step |-> "deliver", p |-> p] \in Step
                        /\ [step |-> "markHome", p |-> p] \in Step
                        /\ [step |-> "notHeld", p |-> p] \in Step
  BY DEF Step
<1>6. [step |-> "promote"] \in Step /\ [step |-> "holderNotify"] \in Step
  BY DEF Step
<1>7. \A e \in Asks : [step |-> "ackPeer", e |-> e] \in Step /\ [step |-> "close", e |-> e] \in Step
  BY DEF Step
<1>8. \A u \in Viewers, ps \in SUBSET Offers :
          [step |-> "leave", u |-> u, ps |-> ps] \in Step /\ [step |-> "cancel", ps |-> ps] \in Step
  BY DEF Step
<1>9. QED
  BY <1>1, <1>2, <1>3, <1>4, <1>5, <1>6, <1>7, <1>8

\* Every goroutine goes on as it was or has only passive steps left.
OnlyPassive ==
    \A g \in Goroutines : todo'[g] = todo[g] \/ \A n \in DOMAIN todo'[g] : Passive(todo'[g][n])

\* What a goroutine is at is a step, and what comes after it is passive.
LEMMA AtStep ==
    ASSUME BorderInv, NEW t \in Goroutines, todo[t] # <<>>
    PROVE  /\ Arg(t) \in Step /\ Arg(t) = todo[t][1] /\ 1 \in DOMAIN todo[t]
           /\ Tail(todo[t]) \in Seq(Step)
           /\ \A n \in DOMAIN Tail(todo[t]) : Passive(Tail(todo[t])[n])
<1>1. PICK q \in Seq(Step) : q = todo[t] /\ q # <<>>
  BY DEF BorderInv, BorderTypeOK
<1>2. /\ Head(q) \in Step /\ Head(q) = q[1] /\ 1 \in DOMAIN q
      /\ Tail(q) \in Seq(Step)
      /\ \A n \in DOMAIN Tail(q) : n + 1 \in DOMAIN q /\ n + 1 # 1 /\ Tail(q)[n] = q[n + 1]
  BY <1>1
<1>3. QED
  BY <1>1, <1>2 DEF Arg, BorderInv, DecidesFirst

\* Then and its kin, with passive steps.
LEMMA GoesOnPassively ==
    ASSUME BorderInv, NEW t \in Goroutines, NEW more \in Seq(Step),
           todo' = [todo EXCEPT ![t] = more], \A n \in DOMAIN more : Passive(more[n])
    PROVE  todo' \in [Goroutines -> Seq(Step)] /\ OnlyPassive
BY DEF BorderInv, BorderTypeOK, OnlyPassive

LEMMA ThenPassively ==
    ASSUME BorderInv, NEW t \in Goroutines, todo[t] # <<>>, NEW more \in Seq(Step),
           Then(t, more), \A n \in DOMAIN more : Passive(more[n])
    PROVE  todo' \in [Goroutines -> Seq(Step)] /\ OnlyPassive
<1>1. PICK rest \in Seq(Step) : rest = Tail(todo[t]) /\ \A n \in DOMAIN rest : Passive(rest[n])
  BY AtStep
<1>2. PICK all \in Seq(Step) : all = more \o rest
  <2>1. more \o rest \in Seq(Step)
    BY ConcatProperties
  <2>2. QED
    BY <2>1
<1>3. \A n \in DOMAIN all : \/ n \in DOMAIN more /\ all[n] = more[n]
                            \/ n - Len(more) \in DOMAIN rest /\ all[n] = rest[n - Len(more)]
  BY <1>1, <1>2
<1>4. \A n \in DOMAIN all : Passive(all[n])
  BY <1>1, <1>3
<1>5. todo' = [todo EXCEPT ![t] = all]
  BY <1>1, <1>2 DEF Then
<1>6. QED
  BY <1>4, <1>5, GoesOnPassively

\* What nobody decides: crossings may end, and no name is given.
LEMMA PassiveInv ==
    ASSUME BorderInv, BorderTypeOK', OnlyPassive, wrote' = wrote, nextOffer' = nextOffer,
           overlapped' = overlapped,
           \A e \in Asks : ask'[e].offer \in {0, ask[e].offer} /\ (Crossing(e)' => Crossing(e))
    PROVE  BorderInv'
<1>1. AsksNamed' /\ AwaitsNamed' /\ DecidesFirst'
  <2>1. AsksNamed'
    BY DEF BorderInv, AsksNamed
  <2>2. AwaitsNamed'
    BY DEF BorderInv, AwaitsNamed, OnlyPassive, Passive
  <2>3. DecidesFirst'
    BY DEF BorderInv, DecidesFirst, OnlyPassive
  <2>4. QED
    BY <2>1, <2>2, <2>3
<1>2. Deciding' \subseteq Deciding
  <2>1. SUFFICES ASSUME NEW t \in Goroutines, Doing(t, "register")' \/ Doing(t, "await")'
                 PROVE  Doing(t, "register") \/ Doing(t, "await")
    BY DEF Deciding
  <2>2. PICK q \in Seq(Step) : q = todo'[t] /\ q # <<>> /\ Head(q).step \in {"register", "await"}
    BY <2>1 DEF Doing, BorderTypeOK
  <2>3. 1 \in DOMAIN q /\ ~Passive(q[1])
    BY <2>2 DEF Passive
  <2>4. todo'[t] = todo[t]
    BY <2>2, <2>3 DEF OnlyPassive
  <2>5. QED
    BY <2>1, <2>4 DEF Doing
<1>3. IsFiniteSet(Crossings) /\ Crossings' \subseteq Crossings
  <2>1. IsFiniteSet(Asks)
    BY FS_Interval, BorderAssumption DEF Asks
  <2>2. QED
    BY <2>1, FS_Subset DEF Crossings
<1>4. /\ Cardinality(Crossings') \in Nat /\ Cardinality(Crossings) \in Nat
      /\ Cardinality(Crossings') <= Cardinality(Crossings)
  BY <1>3, FS_Subset, FS_CardinalityType
<1>5. OneDecides'
  <2>1. SUFFICES ASSUME ~overlapped
                 PROVE  /\ \A s, t \in Deciding' : s = t
                        /\ Cardinality(Crossings') <= MaxCrossings
                        /\ Deciding' # {} => Cardinality(Crossings') < MaxCrossings
    BY DEF OneDecides
  <2>2. /\ \A s, t \in Deciding : s = t
        /\ Cardinality(Crossings) <= MaxCrossings
        /\ Deciding # {} => Cardinality(Crossings) < MaxCrossings
    BY <2>1 DEF BorderInv, OneDecides
  <2>3. QED
    BY <1>2, <1>4, <2>2, BorderAssumption
<1>6. QED
  BY <1>1, <1>5 DEF BorderInv

\* The asks that remain are those that were, or end.
AskKept(e) ==
    \/ ask'[e] = ask[e]
    \/ ask'[e] = NoAsk
    \/ /\ ask'[e] \in AskRow /\ ask'[e].user # NoViewer
       /\ ask'[e].offer \in {0, ask[e].offer}
       /\ ask'[e].offer # 0 => ask[e].user # NoViewer

LEMMA AsksEnd ==
    ASSUME BorderInv, DOMAIN ask' = Asks, ask' = [e \in DOMAIN ask' |-> ask'[e]],
           \A e \in Asks : AskKept(e)
    PROVE  /\ ask' \in [Asks -> AskRow] /\ \A e \in Asks : ask'[e].user = NoViewer => ask'[e] = NoAsk
           /\ \A e \in Asks : ask'[e].offer \in {0, ask[e].offer} /\ (Crossing(e)' => Crossing(e))
<1>1. NoAsk \in AskRow /\ NoAsk.offer = 0 /\ NoAsk.user = NoViewer
  BY DEF NoAsk, AskRow, AskNames
<1>2. \A e \in Asks : ask'[e] \in AskRow /\ (ask'[e].user = NoViewer => ask'[e] = NoAsk)
  BY <1>1 DEF BorderInv, BorderTypeOK, AskKept
<1>3. \A e \in Asks : ask'[e].offer \in {0, ask[e].offer} /\ (Crossing(e)' => Crossing(e))
  BY <1>1 DEF AskKept, Crossing, Asked
<1>4. QED
  BY <1>2, <1>3

\* One of them is changed.
LEMMA OneAskEnds ==
    ASSUME BorderInv, NEW e \in Asks, NEW row, ask' = [ask EXCEPT ![e] = row],
           \/ row = NoAsk \/ row = ask[e]
           \/ /\ row \in AskRow /\ row.user # NoViewer
              /\ row.offer \in {0, ask[e].offer}
              /\ row.offer # 0 => ask[e].user # NoViewer
    PROVE  /\ ask' \in [Asks -> AskRow] /\ \A f \in Asks : ask'[f].user = NoViewer => ask'[f] = NoAsk
           /\ \A f \in Asks : ask'[f].offer \in {0, ask[f].offer} /\ (Crossing(f)' => Crossing(f))
<1>1. DOMAIN ask' = Asks /\ ask' = [f \in DOMAIN ask' |-> ask'[f]]
  BY DEF BorderInv, BorderTypeOK
<1>2. \A f \in Asks : AskKept(f)
  BY DEF BorderInv, BorderTypeOK, AskKept
<1>3. QED
  BY <1>1, <1>2, AsksEnd

LEMMA NoAskEnds ==
    ASSUME BorderInv, ask' = ask
    PROVE  /\ ask' \in [Asks -> AskRow] /\ \A f \in Asks : ask'[f].user = NoViewer => ask'[f] = NoAsk
           /\ \A f \in Asks : ask'[f].offer \in {0, ask[f].offer} /\ (Crossing(f)' => Crossing(f))
BY DEF BorderInv, BorderTypeOK, Crossing, Asked

\* Steps in a row that decide nothing.
LEMMA PassiveRow ==
    ASSUME NEW s \in Step, Passive(s)
    PROVE  /\ <<s>> \in Seq(Step) /\ \A n \in DOMAIN <<s>> : Passive(<<s>>[n])
           /\ \A r \in Step, q \in Step : Passive(r) /\ Passive(q) =>
                 /\ <<s, r, q>> \in Seq(Step)
                 /\ \A n \in DOMAIN <<s, r, q>> : Passive(<<s, r, q>>[n])
<1>1. <<s>> \in Seq(Step) /\ \A n \in DOMAIN <<s>> : Passive(<<s>>[n])
  OBVIOUS
<1>2. ASSUME NEW r \in Step, NEW q \in Step, Passive(r), Passive(q)
      PROVE  <<s, r, q>> \in Seq(Step) /\ \A n \in DOMAIN <<s, r, q>> : Passive(<<s, r, q>>[n])
  <2>1. <<s, r, q>> \in Seq(Step) /\ DOMAIN <<s, r, q>> = {1, 2, 3}
    OBVIOUS
  <2>2. QED
    BY <1>2, <2>1
<1>3. QED
  BY <1>1, <1>2

\* What is left of the shapes when asks and steps have theirs.
Elsewhere ==
    /\ present' \subseteq Viewers /\ copies' \subseteq Viewers
    /\ nextAsk' \in 1 .. MaxAsks + 1 /\ toFan' \subseteq Viewers
    /\ home' \in {"online", "offline", "none"} /\ offer' \in [Offers -> OfferRow]
    /\ peerHolds' \in BOOLEAN /\ parted' \subseteq Offers /\ dropped' \in BOOLEAN

LEMMA PassiveStepInv ==
    ASSUME BorderInv, Elsewhere, todo' \in [Goroutines -> Seq(Step)] /\ OnlyPassive,
           wrote' = wrote, nextOffer' = nextOffer, overlapped' = overlapped,
           /\ ask' \in [Asks -> AskRow] /\ \A f \in Asks : ask'[f].user = NoViewer => ask'[f] = NoAsk
           /\ \A f \in Asks : ask'[f].offer \in {0, ask[f].offer} /\ (Crossing(f)' => Crossing(f))
    PROVE  BorderInv'
<1>1. BorderTypeOK'
  BY DEF BorderInv, BorderTypeOK, Elsewhere
<1>2. QED
  BY <1>1, PassiveInv

LEMMA RowsStand ==
    ASSUME BorderInv
    PROVE  /\ present \subseteq Viewers /\ copies \subseteq Viewers
           /\ nextAsk \in 1 .. MaxAsks + 1 /\ toFan \subseteq Viewers
           /\ home \in {"online", "offline", "none"} /\ offer \in [Offers -> OfferRow]
           /\ peerHolds \in BOOLEAN /\ parted \subseteq Offers /\ dropped \in BOOLEAN
           /\ \A e \in Asks : ask[e] \in AskRow
           /\ \A e \in Asks : OfferOf(e) \subseteq Offers
           /\ <<"fanout", 0>> \in Goroutines
           /\ \A u \in Viewers : Socket(u) \in Goroutines /\ <<"teardown", u>> \in Goroutines
           /\ \A p \in Offers : Delivery(p) \in Goroutines /\ <<"handler", p>> \in Goroutines
           /\ <<>> \in Seq(Step)
<1>1. \A e \in Asks : ask[e] \in AskRow
  BY DEF BorderInv, BorderTypeOK
<1>2. \A e \in Asks : OfferOf(e) \subseteq Offers
  BY <1>1 DEF OfferOf, AskRow
<1>3. /\ <<"fanout", 0>> \in Goroutines
      /\ \A u \in Viewers : Socket(u) \in Goroutines /\ <<"teardown", u>> \in Goroutines
      /\ \A p \in Offers : Delivery(p) \in Goroutines /\ <<"handler", p>> \in Goroutines
  BY DEF Goroutines, Socket, Delivery
<1>4. <<>> \in Seq(Step)
  OBVIOUS
<1>5. QED
  BY <1>1, <1>2, <1>3, <1>4 DEF BorderInv, BorderTypeOK

LEMMA AskInv ==
    ASSUME BorderInv, NEW u \in Viewers, Ask(u)
    PROVE  BorderInv'
<1> USE RowsStand DEF askVars, homeVars, history
<1>1. PICK s \in Step : s = [step |-> "open", u |-> u, name |-> "data"] /\ Passive(s)
  BY StepsMade DEF Passive, AskNames
<1>2. PICK q \in Seq(Step) : q = <<s>> /\ \A n \in DOMAIN q : Passive(q[n])
  BY <1>1, PassiveRow
<1>3. todo' \in [Goroutines -> Seq(Step)] /\ OnlyPassive
  BY <1>1, <1>2, GoesOnPassively DEF Ask
<1>4. Elsewhere
  BY DEF Ask, Elsewhere
<1>5. QED
  BY <1>3, <1>4, NoAskEnds, PassiveStepInv DEF Ask

LEMMA FanInv ==
    ASSUME BorderInv, NEW u \in Viewers, Fan(u)
    PROVE  BorderInv'
<1> USE RowsStand DEF askVars, homeVars, history
<1>1. PICK s \in Step : s = [step |-> "open", u |-> u, name |-> "broadcast"] /\ Passive(s)
  BY StepsMade DEF Passive, AskNames
<1>2. PICK q \in Seq(Step) : q = <<s>> /\ \A n \in DOMAIN q : Passive(q[n])
  BY <1>1, PassiveRow
<1>3. todo' \in [Goroutines -> Seq(Step)] /\ OnlyPassive
  BY <1>1, <1>2, GoesOnPassively DEF Fan
<1>4. Elsewhere
  BY DEF Fan, Elsewhere
<1>5. QED
  BY <1>3, <1>4, NoAskEnds, PassiveStepInv DEF Fan

LEMMA HomeAnswersInv ==
    ASSUME BorderInv, NEW p \in Offers, HomeAnswers(p)
    PROVE  BorderInv'
<1> USE RowsStand DEF askVars, homeVars, history
<1>1. PICK s \in Step : s = [step |-> "deliver", p |-> p] /\ Passive(s)
  BY StepsMade DEF Passive
<1>2. PICK q \in Seq(Step) : q = <<s>> /\ \A n \in DOMAIN q : Passive(q[n])
  BY <1>1, PassiveRow
<1>3. todo' \in [Goroutines -> Seq(Step)] /\ OnlyPassive
  BY <1>1, <1>2, GoesOnPassively DEF HomeAnswers
<1>4. Elsewhere
  BY DEF HomeAnswers, Elsewhere
<1>5. QED
  BY <1>3, <1>4, NoAskEnds, PassiveStepInv DEF HomeAnswers

LEMMA DataAckInv ==
    ASSUME BorderInv, NEW u \in Viewers, NEW e \in Asks, DataAck(u, e)
    PROVE  BorderInv'
<1> USE RowsStand DEF askVars, homeVars, history
<1>1. PICK s \in Step : s = [step |-> "holderNotify"] /\ Passive(s)
  BY StepsMade DEF Passive
<1>2. PICK q \in Seq(Step) : /\ q = <<s, [step |-> "ackPeer", e |-> e], [step |-> "close", e |-> e]>>
                             /\ \A n \in DOMAIN q : Passive(q[n])
  <2>1. /\ [step |-> "ackPeer", e |-> e] \in Step /\ [step |-> "close", e |-> e] \in Step
        /\ Passive([step |-> "ackPeer", e |-> e]) /\ Passive([step |-> "close", e |-> e])
    BY StepsMade DEF Passive
  <2>2. QED
    BY <1>1, <2>1, PassiveRow
<1>3. todo' \in [Goroutines -> Seq(Step)] /\ OnlyPassive
  BY <1>1, <1>2, GoesOnPassively DEF DataAck
<1>4. Elsewhere
  BY DEF DataAck, Elsewhere
<1>5. QED
  BY <1>3, <1>4, NoAskEnds, PassiveStepInv DEF DataAck

LEMMA ViewerLeavesInv ==
    ASSUME BorderInv, NEW u \in Viewers, ViewerLeaves(u)
    PROVE  BorderInv'
<1> USE RowsStand DEF askVars, homeVars, history
<1>1. PICK s \in Step : s = [step |-> "leave", u |-> u,
           ps |-> {ask[e].offer : e \in {f \in Crossings : ask[f].user = u}}] /\ Passive(s)
  <2>1. {ask[e].offer : e \in {f \in Crossings : ask[f].user = u}} \in SUBSET Offers
    BY DEF Crossings, Crossing, AskRow
  <2>2. QED
    BY <2>1, StepsMade DEF Passive
<1>2. PICK q \in Seq(Step) : q = <<s>> /\ \A n \in DOMAIN q : Passive(q[n])
  BY <1>1, PassiveRow
<1>3. todo' \in [Goroutines -> Seq(Step)] /\ OnlyPassive
  BY <1>1, <1>2, GoesOnPassively DEF ViewerLeaves
<1>4. Elsewhere
  BY DEF ViewerLeaves, Elsewhere
<1>5. QED
  BY <1>3, <1>4, NoAskEnds, PassiveStepInv DEF ViewerLeaves

LEMMA PassiveNone == <<>> \in Seq(Step) /\ \A n \in DOMAIN <<>> : Passive(<<>>[n])
OBVIOUS

LEMMA PassiveOne ==
    /\ \E q \in Seq(Step) : q = <<[step |-> "promote"]>> /\ \A n \in DOMAIN q : Passive(q[n])
    /\ \A e \in Asks : \E q \in Seq(Step) :
          q = <<[step |-> "fold", e |-> e, promoting |-> FALSE]>> /\ \A n \in DOMAIN q : Passive(q[n])
    /\ \A p \in Offers : \E q \in Seq(Step) :
          q = <<[step |-> "markHome", p |-> p]>> /\ \A n \in DOMAIN q : Passive(q[n])
    /\ \A ps \in SUBSET Offers : \E q \in Seq(Step) :
          q = <<[step |-> "cancel", ps |-> ps]>> /\ \A n \in DOMAIN q : Passive(q[n])
<1>1. PICK s \in Step : s = [step |-> "promote"] /\ Passive(s)
  BY StepsMade DEF Passive
<1>2. ASSUME NEW e \in Asks
      PROVE  \E r \in Step : r = [step |-> "fold", e |-> e, promoting |-> FALSE] /\ Passive(r)
  BY StepsMade DEF Passive
<1>3. ASSUME NEW p \in Offers PROVE \E r \in Step : r = [step |-> "markHome", p |-> p] /\ Passive(r)
  BY StepsMade DEF Passive
<1>4. ASSUME NEW ps \in SUBSET Offers
      PROVE  \E r \in Step : r = [step |-> "cancel", ps |-> ps] /\ Passive(r)
  <2>1. CASE Viewers # {}
    BY <2>1, StepsMade DEF Passive
  <2>2. [step |-> "cancel", ps |-> ps] \in Step
    BY DEF Step
  <2>3. QED
    BY <2>2 DEF Passive
<1>5. QED
  BY <1>1, <1>2, <1>3, <1>4, PassiveRow

LEMMA RecordInv ==
    ASSUME BorderInv, NEW t \in Goroutines, Record(t)
    PROVE  BorderInv'
<1> USE RowsStand DEF askVars, homeVars, history
<1>1. PICK s \in Step : s = Arg(t) /\ s.step = "record" /\ todo[t] # <<>>
  BY AtStep DEF Record, Doing, Arg
<1>2. s.p \in Offers
  BY <1>1, StepShapes
<1>3. todo[t] # <<>> /\ \E more \in Seq(Step) : Then(t, more) /\ \A n \in DOMAIN more : Passive(more[n])
  BY <1>1, <1>2, PassiveNone DEF Record, Doing
<1>4. todo' \in [Goroutines -> Seq(Step)] /\ OnlyPassive
  BY <1>3, ThenPassively
<1>5. Elsewhere
  BY <1>1, <1>2, RowsStand DEF Record, Elsewhere, OfferRow
<1>6. /\ ask' \in [Asks -> AskRow] /\ \A f \in Asks : ask'[f].user = NoViewer => ask'[f] = NoAsk
      /\ \A f \in Asks : ask'[f].offer \in {0, ask[f].offer} /\ (Crossing(f)' => Crossing(f))
  BY NoAskEnds DEF Record
<1>7. QED
  BY <1>4, <1>5, <1>6, PassiveStepInv DEF Record

LEMMA MarkHomeInv ==
    ASSUME BorderInv, NEW t \in Goroutines, MarkHome(t)
    PROVE  BorderInv'
<1> USE RowsStand DEF askVars, homeVars, history
<1>1. PICK s \in Step : s = Arg(t) /\ s.step = "markHome" /\ todo[t] # <<>>
  BY AtStep DEF MarkHome, Doing, Arg
<1>2. s.p \in Offers
  BY <1>1, StepShapes
<1>3. todo[t] # <<>> /\ \E more \in Seq(Step) : Then(t, more) /\ \A n \in DOMAIN more : Passive(more[n])
  BY <1>1, <1>2, PassiveNone DEF MarkHome, Doing
<1>4. todo' \in [Goroutines -> Seq(Step)] /\ OnlyPassive
  BY <1>3, ThenPassively
<1>5. Elsewhere
  BY <1>1, <1>2, RowsStand DEF MarkHome, Elsewhere, OfferRow
<1>6. /\ ask' \in [Asks -> AskRow] /\ \A f \in Asks : ask'[f].user = NoViewer => ask'[f] = NoAsk
      /\ \A f \in Asks : ask'[f].offer \in {0, ask[f].offer} /\ (Crossing(f)' => Crossing(f))
  BY NoAskEnds DEF MarkHome
<1>7. QED
  BY <1>4, <1>5, <1>6, PassiveStepInv DEF MarkHome

LEMMA HolderNotifyInv ==
    ASSUME BorderInv, NEW t \in Goroutines, HolderNotify(t)
    PROVE  BorderInv'
<1> USE RowsStand DEF askVars, homeVars, history
<1>1. todo[t] # <<>> /\ \E more \in Seq(Step) : Then(t, more) /\ \A n \in DOMAIN more : Passive(more[n])
  BY PassiveNone DEF HolderNotify, Doing
<1>2. todo' \in [Goroutines -> Seq(Step)] /\ OnlyPassive
  BY <1>1, ThenPassively
<1>3. Elsewhere
  BY RowsStand DEF HolderNotify, Elsewhere
<1>4. /\ ask' \in [Asks -> AskRow] /\ \A f \in Asks : ask'[f].user = NoViewer => ask'[f] = NoAsk
      /\ \A f \in Asks : ask'[f].offer \in {0, ask[f].offer} /\ (Crossing(f)' => Crossing(f))
  BY NoAskEnds DEF HolderNotify
<1>5. QED
  BY <1>2, <1>3, <1>4, PassiveStepInv DEF HolderNotify

LEMMA AckPeerInv ==
    ASSUME BorderInv, NEW t \in Goroutines, AckPeer(t)
    PROVE  BorderInv'
<1> USE RowsStand DEF askVars, homeVars, history
<1>1. PICK s \in Step : s = Arg(t) /\ s.step = "ackPeer" /\ todo[t] # <<>>
  BY AtStep DEF AckPeer, Doing, Arg
<1>2. s.e \in Asks
  BY <1>1, StepShapes
<1>3. PICK p \in Offers \cup {0} : p = ask[s.e].offer
  BY <1>2, RowsStand DEF AskRow
<1>4. todo[t] # <<>> /\ \E more \in Seq(Step) : Then(t, more) /\ \A n \in DOMAIN more : Passive(more[n])
  BY <1>1, <1>2, <1>3, PassiveNone DEF AckPeer, Doing
<1>5. todo' \in [Goroutines -> Seq(Step)] /\ OnlyPassive
  BY <1>4, ThenPassively
<1>6. Elsewhere
  <2>1. OfferOf(s.e) \subseteq Offers
    BY <1>2
  <2>2. CASE p # 0 /\ AwaitsAck(p)
    <3>1. p \in Offers /\ offer' = [offer EXCEPT ![p].state = "absent"] /\ peerHolds' = TRUE
          /\ parted' = parted
      BY <1>1, <1>3, <2>2 DEF AckPeer, Acks
    <3>2. offer' \in [Offers -> OfferRow]
      BY <3>1 DEF OfferRow
    <3>3. QED
      BY <3>1, <3>2 DEF AckPeer, Elsewhere
  <2>3. CASE ~(p # 0 /\ AwaitsAck(p))
    <3>1. offer' = offer /\ peerHolds' = peerHolds /\ parted' = parted \cup OfferOf(s.e)
      BY <1>1, <1>3, <2>3 DEF AckPeer
    <3>2. QED
      BY <2>1, <3>1 DEF AckPeer, Elsewhere
  <2>4. QED
    BY <2>2, <2>3
<1>7. /\ ask' \in [Asks -> AskRow] /\ \A f \in Asks : ask'[f].user = NoViewer => ask'[f] = NoAsk
      /\ \A f \in Asks : ask'[f].offer \in {0, ask[f].offer} /\ (Crossing(f)' => Crossing(f))
  BY NoAskEnds DEF AckPeer
<1>8. QED
  BY <1>5, <1>6, <1>7, PassiveStepInv DEF AckPeer

LEMMA AckPeerLostInv ==
    ASSUME BorderInv, NEW t \in Goroutines, AckPeerLost(t)
    PROVE  BorderInv'
<1> USE RowsStand DEF askVars, homeVars, history
<1>1. PICK s \in Step : s = Arg(t) /\ s.step = "ackPeer" /\ todo[t] # <<>>
  BY AtStep DEF AckPeerLost, Doing, Arg
<1>2. s.e \in Asks
  BY <1>1, StepShapes
<1>3. todo[t] # <<>> /\ \E more \in Seq(Step) : Then(t, more) /\ \A n \in DOMAIN more : Passive(more[n])
  BY <1>1, <1>2, PassiveNone DEF AckPeerLost, Doing
<1>4. todo' \in [Goroutines -> Seq(Step)] /\ OnlyPassive
  BY <1>3, ThenPassively
<1>5. Elsewhere
  BY <1>1, <1>2, RowsStand DEF AckPeerLost, Elsewhere
<1>6. /\ ask' \in [Asks -> AskRow] /\ \A f \in Asks : ask'[f].user = NoViewer => ask'[f] = NoAsk
      /\ \A f \in Asks : ask'[f].offer \in {0, ask[f].offer} /\ (Crossing(f)' => Crossing(f))
  BY NoAskEnds DEF AckPeerLost
<1>7. QED
  BY <1>4, <1>5, <1>6, PassiveStepInv DEF AckPeerLost

LEMMA CloseInv ==
    ASSUME BorderInv, NEW t \in Goroutines, Close(t)
    PROVE  BorderInv'
<1> USE RowsStand DEF askVars, homeVars, history
<1>1. PICK s \in Step : s = Arg(t) /\ s.step = "close" /\ todo[t] # <<>>
  BY AtStep DEF Close, Doing, Arg
<1>2. s.e \in Asks
  BY <1>1, StepShapes
<1>3. todo[t] # <<>> /\ \E more \in Seq(Step) : Then(t, more) /\ \A n \in DOMAIN more : Passive(more[n])
  BY <1>1, <1>2, PassiveNone DEF Close, Doing
<1>4. todo' \in [Goroutines -> Seq(Step)] /\ OnlyPassive
  BY <1>3, ThenPassively
<1>5. Elsewhere
  BY <1>1, <1>2, RowsStand DEF Close, Elsewhere
<1>6. /\ ask' \in [Asks -> AskRow] /\ \A f \in Asks : ask'[f].user = NoViewer => ask'[f] = NoAsk
      /\ \A f \in Asks : ask'[f].offer \in {0, ask[f].offer} /\ (Crossing(f)' => Crossing(f))
  BY <1>1, <1>2, OneAskEnds DEF Close
<1>7. QED
  BY <1>4, <1>5, <1>6, PassiveStepInv DEF Close

LEMMA DeliverNobodyInv ==
    ASSUME BorderInv, NEW t \in Goroutines, DeliverNobody(t)
    PROVE  BorderInv'
<1> USE RowsStand DEF askVars, homeVars, history
<1>1. PICK s \in Step : s = Arg(t) /\ s.step = "deliver" /\ todo[t] # <<>>
  BY AtStep DEF DeliverNobody, Doing, Arg
<1>2. s.p \in Offers
  BY <1>1, StepShapes
<1>3. todo[t] # <<>> /\ \E more \in Seq(Step) : Then(t, more) /\ \A n \in DOMAIN more : Passive(more[n])
  BY <1>1, <1>2, PassiveNone, PassiveOne DEF DeliverNobody, Doing
<1>4. todo' \in [Goroutines -> Seq(Step)] /\ OnlyPassive
  BY <1>3, ThenPassively
<1>5. Elsewhere
  BY <1>1, <1>2, RowsStand DEF DeliverNobody, Elsewhere
<1>6. /\ ask' \in [Asks -> AskRow] /\ \A f \in Asks : ask'[f].user = NoViewer => ask'[f] = NoAsk
      /\ \A f \in Asks : ask'[f].offer \in {0, ask[f].offer} /\ (Crossing(f)' => Crossing(f))
  BY NoAskEnds DEF DeliverNobody
<1>7. QED
  BY <1>4, <1>5, <1>6, PassiveStepInv DEF DeliverNobody

LEMMA NotHeldInv ==
    ASSUME BorderInv, NEW t \in Goroutines, NotHeld(t)
    PROVE  BorderInv'
<1> USE RowsStand DEF askVars, homeVars, history
<1>1. PICK s \in Step : s = Arg(t) /\ s.step = "notHeld" /\ todo[t] # <<>>
  BY AtStep DEF NotHeld, Doing, Arg
<1>2. s.p \in Offers
  BY <1>1, StepShapes
<1>3. todo[t] # <<>> /\ \E more \in Seq(Step) : Then(t, more) /\ \A n \in DOMAIN more : Passive(more[n])
  BY <1>1, <1>2, PassiveNone, PassiveOne DEF NotHeld, GivesUp, Doing
<1>4. todo' \in [Goroutines -> Seq(Step)] /\ OnlyPassive
  BY <1>3, ThenPassively
<1>5. Elsewhere
  BY <1>1, <1>2, RowsStand DEF NotHeld, Elsewhere
<1>6. /\ ask' \in [Asks -> AskRow] /\ \A f \in Asks : ask'[f].user = NoViewer => ask'[f] = NoAsk
      /\ \A f \in Asks : ask'[f].offer \in {0, ask[f].offer} /\ (Crossing(f)' => Crossing(f))
  BY <1>1, <1>2, OneAskEnds, NoAskEnds DEF NotHeld, GivesUp, AskOf
<1>7. QED
  BY <1>4, <1>5, <1>6, PassiveStepInv DEF NotHeld

LEMMA CancelInv ==
    ASSUME BorderInv, NEW t \in Goroutines, Cancel(t)
    PROVE  BorderInv'
<1> USE RowsStand DEF askVars, homeVars, history
<1>1. PICK s \in Step : s = Arg(t) /\ s.step = "cancel" /\ todo[t] # <<>>
  BY AtStep DEF Cancel, Doing, Arg
<1>2. s.ps \in SUBSET Offers
  BY <1>1, StepShapes
<1>3. todo[t] # <<>> /\ \E more \in Seq(Step) : Then(t, more) /\ \A n \in DOMAIN more : Passive(more[n])
  BY <1>1, <1>2, PassiveNone, PassiveOne DEF Cancel, Doing
<1>4. todo' \in [Goroutines -> Seq(Step)] /\ OnlyPassive
  BY <1>3, ThenPassively
<1>5. Elsewhere
  BY <1>1, <1>2, RowsStand DEF Cancel, Elsewhere, Cancelled, OfferRow
<1>6. /\ ask' \in [Asks -> AskRow] /\ \A f \in Asks : ask'[f].user = NoViewer => ask'[f] = NoAsk
      /\ \A f \in Asks : ask'[f].offer \in {0, ask[f].offer} /\ (Crossing(f)' => Crossing(f))
  BY NoAskEnds DEF Cancel
<1>7. QED
  BY <1>4, <1>5, <1>6, PassiveStepInv DEF Cancel

\* The rows an ask becomes, and the steps a teardown leaves.
LEMMA AskRows ==
    /\ \A u \in Viewers, name \in AskNames : \E row \in AskRow :
          /\ row = [user |-> u, name |-> name, offer |-> 0, relayed |-> FALSE]
          /\ row.user # NoViewer /\ row.offer = 0
    /\ \A r \in AskRow : \E row \in AskRow :
          row = [r EXCEPT !.relayed = FALSE] /\ row.user = r.user /\ row.offer = r.offer
    /\ \A r \in AskRow, p \in Offers : \E row \in AskRow :
          row = [r EXCEPT !.offer = p] /\ row.user = r.user /\ row.offer = p
<1>1. ASSUME NEW u \in Viewers, NEW name \in AskNames
      PROVE  \E row \in AskRow :
                /\ row = [user |-> u, name |-> name, offer |-> 0, relayed |-> FALSE]
                /\ row.user # NoViewer /\ row.offer = 0
  <2>1. [user |-> u, name |-> name, offer |-> 0, relayed |-> FALSE] \in AskRow
    BY DEF AskRow
  <2>2. QED
    BY <2>1, BorderAssumption
<1>2. ASSUME NEW r \in AskRow
      PROVE  \E row \in AskRow :
                row = [r EXCEPT !.relayed = FALSE] /\ row.user = r.user /\ row.offer = r.offer
  <2>1. [r EXCEPT !.relayed = FALSE] \in AskRow
    BY DEF AskRow
  <2>2. [r EXCEPT !.relayed = FALSE].user = r.user /\ [r EXCEPT !.relayed = FALSE].offer = r.offer
    BY DEF AskRow
  <2>3. QED
    BY <2>1, <2>2
<1>3. ASSUME NEW r \in AskRow, NEW p \in Offers
      PROVE  \E row \in AskRow :
                row = [r EXCEPT !.offer = p] /\ row.user = r.user /\ row.offer = p
  <2>1. [r EXCEPT !.offer = p] \in AskRow
    BY DEF AskRow
  <2>2. [r EXCEPT !.offer = p].user = r.user /\ [r EXCEPT !.offer = p].offer = p
    BY DEF AskRow
  <2>3. QED
    BY <2>1, <2>2
<1>4. QED
  BY <1>1, <1>2, <1>3

LEMMA ManyPromotes ==
    ASSUME NEW count \in Nat
    PROVE  \E q \in Seq(Step) : /\ q = [i \in 1 .. count |-> [step |-> "promote"]]
                               /\ \A n \in DOMAIN q : Passive(q[n])
<1>1. PICK s \in Step : s = [step |-> "promote"] /\ Passive(s)
  BY StepsMade DEF Passive
<1>2. [i \in 1 .. count |-> s] \in Seq(Step)
  OBVIOUS
<1>3. \A n \in DOMAIN [i \in 1 .. count |-> s] : [i \in 1 .. count |-> s][n] = s
  OBVIOUS
<1>4. QED
  BY <1>1, <1>2, <1>3

\* A copy is taken: a request waits for its ack, a broadcast is over.
LEMMA CopyTaken ==
    ASSUME BorderInv, NEW e \in Asks, Asked(e), TakesCopy(e)
    PROVE  /\ ask' \in [Asks -> AskRow] /\ \A f \in Asks : ask'[f].user = NoViewer => ask'[f] = NoAsk
           /\ \A f \in Asks : ask'[f].offer \in {0, ask[f].offer} /\ (Crossing(f)' => Crossing(f))
<1>1. PICK row : row = (IF ask[e].name = "data" THEN [ask[e] EXCEPT !.relayed = TRUE] ELSE NoAsk)
  OBVIOUS
<1>2. ask' = [ask EXCEPT ![e] = row]
  BY <1>1 DEF TakesCopy
<1>3. \/ row = NoAsk
      \/ row \in AskRow /\ row.user = ask[e].user /\ row.offer = ask[e].offer
  BY <1>1, RowsStand DEF AskRow
<1>4. QED
  BY <1>2, <1>3, OneAskEnds DEF Asked

\* createPendingReedEvent
LEMMA OpenEventInv ==
    ASSUME BorderInv, NEW t \in Goroutines, OpenEvent(t)
    PROVE  BorderInv'
<1> USE RowsStand DEF homeVars, history
<1>1. PICK s \in Step : s = Arg(t) /\ s.step = "open" /\ todo[t] # <<>>
  BY AtStep DEF OpenEvent, Doing, Arg
<1>2. PICK u \in Viewers, name \in AskNames : u = s.u /\ name = s.name
  BY <1>1, StepShapes
<1>3. CASE u \in present
  <2>1. PICK e \in Asks : /\ e = nextAsk /\ nextAsk' = e + 1
                          /\ ask' = [ask EXCEPT ![e] = [user |-> u, name |-> name,
                                                        offer |-> 0, relayed |-> FALSE]]
                          /\ Then(t, <<[step |-> "fold", e |-> e, promoting |-> FALSE]>>)
    BY <1>1, <1>2, <1>3 DEF OpenEvent
  <2>2. PICK row \in AskRow : /\ row = [user |-> u, name |-> name, offer |-> 0, relayed |-> FALSE]
                              /\ row.user # NoViewer /\ row.offer = 0
    BY AskRows
  <2>3. /\ ask' \in [Asks -> AskRow] /\ \A f \in Asks : ask'[f].user = NoViewer => ask'[f] = NoAsk
        /\ \A f \in Asks : ask'[f].offer \in {0, ask[f].offer} /\ (Crossing(f)' => Crossing(f))
    BY <2>1, <2>2, OneAskEnds
  <2>4. todo' \in [Goroutines -> Seq(Step)] /\ OnlyPassive
    BY <1>1, <2>1, PassiveOne, ThenPassively
  <2>5. nextAsk' \in 1 .. MaxAsks + 1
    BY <2>1, BorderAssumption DEF Asks
  <2>6. Elsewhere
    BY <2>5 DEF OpenEvent, Elsewhere
  <2>7. QED
    BY <2>3, <2>4, <2>6, PassiveStepInv DEF OpenEvent
<1>4. CASE u \notin present
  <2>1. Then(t, <<>>) /\ ask' = ask /\ nextAsk' = nextAsk
    BY <1>1, <1>2, <1>4 DEF OpenEvent
  <2>2. todo' \in [Goroutines -> Seq(Step)] /\ OnlyPassive
    BY <1>1, <2>1, PassiveNone, ThenPassively
  <2>3. Elsewhere
    BY <2>1 DEF OpenEvent, Elsewhere
  <2>4. QED
    BY <2>1, <2>2, <2>3, NoAskEnds, PassiveStepInv DEF OpenEvent
<1>5. QED
  BY <1>3, <1>4

\* The two ways a decision comes to nothing.
LEMMA CrossingFailsInv ==
    ASSUME BorderInv, NEW t \in Goroutines, RegisterFails(t) \/ CrossFails(t)
    PROVE  BorderInv'
<1> USE RowsStand DEF homeVars
<1>1. PICK s \in Step : s = Arg(t) /\ s.step \in {"register", "await"} /\ todo[t] # <<>>
  BY AtStep DEF RegisterFails, CrossFails, Doing, Arg
<1>2. PICK e \in Asks : e = s.e
  BY <1>1, StepShapes
<1>3. /\ Fails(t, e, s.promoting)
      /\ UNCHANGED <<present, copies, nextAsk, toFan, homeVars, overlapped>>
      /\ parted' \subseteq Offers
  <2>1. CASE RegisterFails(t)
    BY <1>1, <1>2, <2>1 DEF RegisterFails
  <2>2. CASE CrossFails(t)
    <3>1. s.step = "await"
      BY <1>1, <2>2 DEF CrossFails, Doing, Arg
    <3>2. s.p \in Offers
      BY <3>1, StepShapes
    <3>3. QED
      BY <1>1, <1>2, <2>2, <3>2 DEF CrossFails
  <2>3. QED
    BY <2>1, <2>2
<1>4. todo' \in [Goroutines -> Seq(Step)] /\ OnlyPassive
  BY <1>1, <1>3, PassiveOne, PassiveNone, ThenPassively DEF Fails
<1>5. /\ ask' \in [Asks -> AskRow] /\ \A f \in Asks : ask'[f].user = NoViewer => ask'[f] = NoAsk
      /\ \A f \in Asks : ask'[f].offer \in {0, ask[f].offer} /\ (Crossing(f)' => Crossing(f))
  BY <1>3, OneAskEnds DEF Fails
<1>6. dropped' \in BOOLEAN
  BY <1>3 DEF Fails, Crossing
<1>7. Elsewhere
  BY <1>3, <1>6 DEF Elsewhere
<1>8. QED
  BY <1>3, <1>4, <1>5, <1>7, PassiveStepInv

\* DeliverRelayResponseFromPeer, of both kinds.
LEMMA DeliversInv ==
    ASSUME BorderInv, NEW t \in Goroutines, Deliver(t) \/ DeliverBroadcast(t)
    PROVE  BorderInv'
<1> USE RowsStand DEF homeVars
<1>1. PICK s \in Step : s = Arg(t) /\ s.step = "deliver" /\ todo[t] # <<>>
  BY AtStep DEF Deliver, DeliverBroadcast, Doing, Arg
<1>2. s.p \in Offers
  BY <1>1, StepShapes
<1>3. PICK e \in Asks : Asked(e) /\ TakesCopy(e)
  BY <1>1 DEF Deliver, DeliverBroadcast, AskOf, Crossing
<1>4. /\ Then(t, <<[step |-> "markHome", p |-> s.p]>>) \/ Then(t, <<>>)
      /\ parted' \subseteq Offers /\ dropped' \in BOOLEAN
      /\ UNCHANGED <<present, copies, nextAsk, toFan, homeVars, overlapped>>
  BY <1>1, <1>2 DEF Deliver, DeliverBroadcast
<1>5. todo' \in [Goroutines -> Seq(Step)] /\ OnlyPassive
  BY <1>1, <1>2, <1>4, PassiveOne, PassiveNone, ThenPassively
<1>6. Elsewhere
  BY <1>4 DEF Elsewhere
<1>7. QED
  BY <1>3, <1>4, <1>5, <1>6, CopyTaken, PassiveStepInv

LEMMA NoStepTaken == BorderInv /\ todo' = todo => todo' \in [Goroutines -> Seq(Step)] /\ OnlyPassive
BY DEF BorderInv, BorderTypeOK, OnlyPassive

\* What is served, moves or reconnects without a goroutine of this model.
LEMMA NoGoroutineInv ==
    ASSUME BorderInv,
           \/ \E e \in Asks : Serve(e)
           \/ \E u \in Viewers : Reconnect(u)
           \/ HomeMove
    PROVE  BorderInv'
<1> USE RowsStand DEF askVars, homeVars, history
<1>1. ASSUME NEW e \in Asks, Serve(e) PROVE BorderInv'
  <2>1. Asked(e) /\ TakesCopy(e)
    BY <1>1 DEF Serve, Waiting
  <2>2. Elsewhere /\ todo' = todo
    BY <1>1 DEF Serve, Elsewhere
  <2>3. QED
    BY <1>1, <2>1, <2>2, CopyTaken, NoStepTaken, PassiveStepInv DEF Serve
<1>2. ASSUME NEW u \in Viewers, Reconnect(u) PROVE BorderInv'
  <2>1. Elsewhere /\ todo' = todo /\ ask' = ask
    BY <1>2 DEF Reconnect, Elsewhere
  <2>2. QED
    BY <1>2, <2>1, NoAskEnds, NoStepTaken, PassiveStepInv DEF Reconnect
<1>3. ASSUME HomeMove PROVE BorderInv'
  <2>1. Elsewhere /\ todo' = todo /\ ask' = ask
    BY <1>3 DEF HomeMove, Elsewhere
  <2>2. QED
    BY <1>3, <2>1, NoAskEnds, NoStepTaken, PassiveStepInv DEF HomeMove
<1>4. QED
  BY <1>1, <1>2, <1>3

\* failReedNotHeld
LEMMA HomeGivesUpInv ==
    ASSUME BorderInv, NEW p \in Offers, HomeGivesUp(p)
    PROVE  BorderInv'
<1> USE RowsStand DEF askVars, history
<1>1. PICK s \in Step : s = [step |-> "notHeld", p |-> p] /\ Passive(s)
  BY StepsMade DEF Passive
<1>2. PICK q \in Seq(Step) : q = <<s>> /\ \A n \in DOMAIN q : Passive(q[n])
  BY <1>1, PassiveRow
<1>3. todo' \in [Goroutines -> Seq(Step)] /\ OnlyPassive
  BY <1>1, <1>2, GoesOnPassively, NoStepTaken DEF HomeGivesUp
<1>4. Elsewhere
  BY DEF HomeGivesUp, Elsewhere, OfferRow
<1>5. QED
  BY <1>3, <1>4, NoAskEnds, PassiveStepInv DEF HomeGivesUp

\* DATA_INVALID
LEMMA ViewerRejectsInv ==
    ASSUME BorderInv, NEW u \in Viewers, NEW e \in Asks, ViewerRejects(u, e)
    PROVE  BorderInv'
<1> USE RowsStand DEF homeVars
<1>1. ask[e].user # NoViewer /\ UNCHANGED <<present, copies, nextAsk, toFan, homeVars, dropped, overlapped>>
  BY BorderAssumption DEF ViewerRejects
<1>2. CASE Crossing(e)
  <2>1. /\ ask' = [ask EXCEPT ![e] = NoAsk] /\ parted' = parted \cup {ask[e].offer}
        /\ todo' = [todo EXCEPT ![Socket(u)] = <<[step |-> "promote"]>>]
    BY <1>2 DEF ViewerRejects
  <2>2. ask[e].offer \in Offers
    BY <1>2 DEF Crossing, AskRow
  <2>3. Elsewhere
    BY <1>1, <2>1, <2>2 DEF Elsewhere
  <2>4. todo' \in [Goroutines -> Seq(Step)] /\ OnlyPassive
    BY <2>1, PassiveOne, GoesOnPassively
  <2>5. QED
    BY <1>1, <2>1, <2>3, <2>4, OneAskEnds, PassiveStepInv
<1>3. CASE ~Crossing(e)
  <2>1. PICK row \in AskRow : /\ row = [ask[e] EXCEPT !.relayed = FALSE]
                              /\ row.user = ask[e].user /\ row.offer = ask[e].offer
    BY AskRows
  <2>2. ask' = [ask EXCEPT ![e] = row] /\ parted' = parted /\ todo' = todo
    BY <1>3, <2>1 DEF ViewerRejects
  <2>3. Elsewhere
    BY <1>1, <2>2 DEF Elsewhere
  <2>4. QED
    BY <1>1, <2>1, <2>2, <2>3, OneAskEnds, NoStepTaken, PassiveStepInv
<1>4. QED
  BY <1>2, <1>3

\* teardownUser, once it has read what is crossing.
LEMMA LeaveInv ==
    ASSUME BorderInv, NEW t \in Goroutines, Leave(t)
    PROVE  BorderInv'
<1> USE RowsStand DEF homeVars
<1>1. PICK s \in Step : s = Arg(t) /\ s.step = "leave" /\ todo[t] # <<>>
  BY AtStep DEF Leave, Doing, Arg
<1>2. PICK u \in Viewers, ps \in SUBSET Offers : u = s.u /\ ps = s.ps
  BY <1>1, StepShapes
<1>3. PICK mine \in SUBSET Asks : mine = {e \in Asks : ask[e].user = u}
  OBVIOUS
<1>4. PICK unread \in SUBSET Offers : unread = (UNION {OfferOf(e) : e \in mine}) \ ps
  OBVIOUS
<1>5. PICK rest \in Seq(Step) : rest = Tail(todo[t]) /\ \A n \in DOMAIN rest : Passive(rest[n])
  BY <1>1, AtStep
<1>6. PICK count \in Nat : count = Cardinality(ps)
  <2>1. IsFiniteSet(Offers)
    BY FS_Interval, BorderAssumption DEF Offers
  <2>2. QED
    BY <2>1, FS_Subset, FS_CardinalityType
<1>7. PICK after \in Seq(Step) :
        /\ after = IF ps = {} THEN <<>>
                   ELSE <<[step |-> "cancel", ps |-> ps]>> \o [i \in 1 .. count |-> [step |-> "promote"]]
        /\ \A n \in DOMAIN after : Passive(after[n])
  <2>1. PICK cancel \in Seq(Step) : /\ cancel = <<[step |-> "cancel", ps |-> ps]>>
                                    /\ \A n \in DOMAIN cancel : Passive(cancel[n])
    BY PassiveOne
  <2>3. PICK promotes \in Seq(Step) : /\ promotes = [i \in 1 .. count |-> [step |-> "promote"]]
                                      /\ \A n \in DOMAIN promotes : Passive(promotes[n])
    BY ManyPromotes
  <2>4. PICK all \in Seq(Step) : all = cancel \o promotes
    <3>1. cancel \o promotes \in Seq(Step)
      BY ConcatProperties
    <3>2. QED
      BY <3>1
  <2>5. \A n \in DOMAIN all : \/ n \in DOMAIN cancel /\ all[n] = cancel[n]
                              \/ n - Len(cancel) \in DOMAIN promotes /\ all[n] = promotes[n - Len(cancel)]
    BY <2>4
  <2>6. \A n \in DOMAIN all : Passive(all[n])
    BY <2>1, <2>3, <2>5
  <2>7. QED
    BY <2>1, <2>3, <2>4, <2>6, PassiveNone
<1>8. /\ ask' = [e \in Asks |-> IF e \in mine THEN NoAsk ELSE ask[e]]
      /\ present' = present \ {u}
      /\ todo' = [todo EXCEPT ![t] = rest, ![<<"teardown", u>>] = after]
      /\ parted' = parted \cup unread
      /\ dropped' = (dropped \/ unread # {} \/ u \in copies)
      /\ UNCHANGED <<copies, nextAsk, toFan, homeVars, overlapped>>
  BY <1>1, <1>2, <1>3, <1>4, <1>5, <1>6, <1>7 DEF Leave
<1>9. todo' \in [Goroutines -> Seq(Step)] /\ OnlyPassive
  BY <1>5, <1>7, <1>8 DEF OnlyPassive, BorderInv, BorderTypeOK
<1>10. /\ ask' \in [Asks -> AskRow] /\ \A f \in Asks : ask'[f].user = NoViewer => ask'[f] = NoAsk
       /\ \A f \in Asks : ask'[f].offer \in {0, ask[f].offer} /\ (Crossing(f)' => Crossing(f))
  <2>1. \A e \in Asks : AskKept(e)
    BY <1>8 DEF AskKept
  <2>2. QED
    BY <1>8, <2>1, AsksEnd
<1>11. dropped' \in BOOLEAN
  BY <1>8
<1>12. Elsewhere
  BY <1>8, <1>11 DEF Elsewhere
<1>13. QED
  BY <1>8, <1>9, <1>10, <1>12, PassiveStepInv

\* The first step of a row.
LEMMA AtFirst ==
    ASSUME NEW q \in Seq(Step), q # <<>>
    PROVE  Head(q) = q[1] /\ 1 \in DOMAIN q
OBVIOUS

\* Who decides is at such a step.
LEMMA DecidersNow ==
    ASSUME todo \in [Goroutines -> Seq(Step)], NEW g \in Goroutines
    PROVE  g \in Deciding <=> todo[g] # <<>> /\ 1 \in DOMAIN todo[g] /\ ~Passive(todo[g][1])
<1>1. PICK q \in Seq(Step) : q = todo[g]
  OBVIOUS
<1>2. QED
  BY <1>1, AtFirst DEF Deciding, Doing, Passive

LEMMA DecidersNext ==
    ASSUME todo' \in [Goroutines -> Seq(Step)], NEW g \in Goroutines
    PROVE  g \in Deciding' <=> todo'[g] # <<>> /\ 1 \in DOMAIN todo'[g] /\ ~Passive(todo'[g][1])
<1>1. PICK q \in Seq(Step) : q = todo'[g]
  OBVIOUS
<1>2. QED
  BY <1>1, AtFirst DEF Deciding, Doing, Passive

\* A row of steps put before what a goroutine had left.
LEMMA GoesOnWith ==
    ASSUME BorderInv, NEW t \in Goroutines, todo[t] # <<>>, NEW s \in Step
    PROVE  \E all \in Seq(Step) : /\ all = <<s>> \o Tail(todo[t])
                                  /\ all # <<>> /\ all[1] = s
                                  /\ \A n \in DOMAIN all : n # 1 => Passive(all[n])
<1>1. PICK rest \in Seq(Step) : rest = Tail(todo[t]) /\ \A n \in DOMAIN rest : Passive(rest[n])
  BY AtStep
<1>2. PICK more \in Seq(Step) : more = <<s>> /\ Len(more) = 1 /\ more[1] = s
  <2>1. <<s>> \in Seq(Step) /\ Len(<<s>>) = 1 /\ <<s>>[1] = s
    OBVIOUS
  <2>2. QED
    BY <2>1
<1>3. PICK all \in Seq(Step) : all = more \o rest
  <2>1. more \o rest \in Seq(Step)
    BY ConcatProperties
  <2>2. QED
    BY <2>1
<1>4. /\ all # <<>> /\ all[1] = s
      /\ \A n \in DOMAIN all : n # 1 => n - 1 \in DOMAIN rest /\ all[n] = rest[n - 1]
  BY <1>2, <1>3
<1>5. all = <<s>> \o Tail(todo[t])
  BY <1>1, <1>2, <1>3
<1>6. \A n \in DOMAIN all : n # 1 => Passive(all[n])
  BY <1>1, <1>4
<1>7. QED
  BY <1>4, <1>5, <1>6

\* The crossings are few enough to count.
LEMMA CrossingsCount ==
    /\ IsFiniteSet(Crossings) /\ Cardinality(Crossings) \in Nat /\ MaxCrossings \in Nat
    /\ \A e \in Asks : /\ IsFiniteSet(Crossings \cup {e})
                       /\ e \notin Crossings =>
                             Cardinality(Crossings \cup {e}) = Cardinality(Crossings) + 1
<1>1. IsFiniteSet(Asks)
  BY FS_Interval, BorderAssumption DEF Asks
<1>2. IsFiniteSet(Crossings)
  BY <1>1, FS_Subset DEF Crossings
<1>3. QED
  BY <1>2, FS_CardinalityType, FS_AddElement, BorderAssumption

\* Room was found: a goroutine decides on a crossing.
LEMMA DecidesInv ==
    ASSUME BorderInv, NEW t \in Goroutines, todo[t] # <<>>, NEW e \in Asks, NEW b \in BOOLEAN,
           Then(t, <<[step |-> "register", e |-> e, promoting |-> b]>>),
           ~Full, DecidesToCross, UNCHANGED <<askVars, homeVars, parted, dropped>>
    PROVE  BorderInv'
<1> USE DEF askVars, homeVars
<1>1. PICK s \in Step : /\ s = [step |-> "register", e |-> e, promoting |-> b]
                        /\ s.step = "register"
  BY StepsMade
<1>2. PICK all \in Seq(Step) : /\ all = <<s>> \o Tail(todo[t])
                               /\ all # <<>> /\ all[1] = s
                               /\ \A n \in DOMAIN all : n # 1 => Passive(all[n])
  BY GoesOnWith
<1>3. todo' = [todo EXCEPT ![t] = all] /\ todo' \in [Goroutines -> Seq(Step)]
  BY <1>1, <1>2 DEF Then, BorderInv, BorderTypeOK
<1>4. /\ todo'[t] = all
      /\ \A g \in Goroutines : g # t => todo'[g] = todo[g]
  BY <1>3 DEF BorderInv, BorderTypeOK
<1>5. overlapped' = (overlapped \/ Deciding # {}) /\ overlapped' \in BOOLEAN
  BY DEF DecidesToCross
<1>6. BorderTypeOK'
  BY <1>3, <1>5 DEF BorderInv, BorderTypeOK
<1>7. AsksNamed'
  BY DEF BorderInv, AsksNamed
<1>8. AwaitsNamed'
  <2>1. \A n \in DOMAIN all : all[n].step # "await"
    BY <1>1, <1>2 DEF Passive
  <2>2. QED
    BY <1>4, <2>1 DEF BorderInv, AwaitsNamed
<1>9. DecidesFirst'
  BY <1>2, <1>4 DEF BorderInv, DecidesFirst
<1>10. OneDecides'
  <2>1. SUFFICES ASSUME ~overlapped' PROVE OneDecides'
    BY DEF OneDecides
  <2>2. Deciding = {}
    BY <1>5, <2>1
  <2>3. \A g \in Goroutines : g # t => g \notin Deciding'
    BY <1>3, <1>4, <2>2, DecidersNow, DecidersNext DEF BorderInv, BorderTypeOK
  <2>4. Deciding' \subseteq {t}
    BY <2>3 DEF Deciding
  <2>5. Crossings' = Crossings /\ Cardinality(Crossings) < MaxCrossings
    BY CrossingsCount DEF Full, Crossings, Crossing, Asked
  <2>6. Cardinality(Crossings)' < MaxCrossings
    BY <2>5
  <2>7. QED
    BY <2>4, <2>6, <2>5, CrossingsCount DEF OneDecides
<1>11. QED
  BY <1>6, <1>7, <1>8, <1>9, <1>10 DEF BorderInv

\* The fold and one turn of a promotion.
LEMMA FoldsInv ==
    ASSUME BorderInv, NEW t \in Goroutines, Fold(t) \/ Promote(t)
    PROVE  BorderInv'
<1> USE RowsStand DEF askVars, homeVars
<1>1. PICK s \in Step : s = Arg(t) /\ s.step \in {"fold", "promote"} /\ todo[t] # <<>>
  BY AtStep DEF Fold, Promote, Doing, Arg
<1>2. UNCHANGED <<askVars, homeVars, parted, dropped>>
  BY DEF Fold, Promote
<1>3. CASE Then(t, <<>>) /\ UNCHANGED overlapped
  <2>1. todo' \in [Goroutines -> Seq(Step)] /\ OnlyPassive
    BY <1>1, <1>3, PassiveNone, ThenPassively
  <2>2. Elsewhere /\ ask' = ask /\ wrote' = wrote /\ nextOffer' = nextOffer
    BY <1>2 DEF Elsewhere
  <2>3. /\ ask' \in [Asks -> AskRow] /\ \A f \in Asks : ask'[f].user = NoViewer => ask'[f] = NoAsk
        /\ \A f \in Asks : ask'[f].offer \in {0, ask[f].offer} /\ (Crossing(f)' => Crossing(f))
    BY <2>2, NoAskEnds
  <2>4. QED
    BY <1>3, <2>1, <2>2, <2>3, PassiveStepInv
<1>4. CASE /\ ~Full /\ DecidesToCross
           /\ \E e \in Asks, b \in BOOLEAN :
                Then(t, <<[step |-> "register", e |-> e, promoting |-> b]>>)
  BY <1>1, <1>2, <1>4, DecidesInv
<1>5. \/ Then(t, <<>>) /\ UNCHANGED overlapped
      \/ /\ ~Full /\ DecidesToCross
         /\ \E e \in Asks, b \in BOOLEAN :
              Then(t, <<[step |-> "register", e |-> e, promoting |-> b]>>)
  <2>1. CASE Fold(t)
    <3>1. s.step = "fold"
      BY <1>1, <2>1 DEF Fold, Doing, Arg
    <3>2. Arg(t).e \in Asks
      BY <1>1, <3>1, StepShapes
    <3>3. QED
      BY <2>1, <3>2 DEF Fold
  <2>2. CASE Promote(t)
    BY <2>2 DEF Promote, OldestWaiting, Waiting
  <2>3. QED
    BY <2>1, <2>2
<1>6. QED
  BY <1>3, <1>4, <1>5

\* registerReedRequest: the peer mints an event for the ask, and its handler
\* goes on with it.
LEMMA RegisterInv ==
    ASSUME BorderInv, NEW t \in Goroutines, Register(t)
    PROVE  BorderInv'
<1> USE DEF askVars, history
<1>1. PICK s \in Step : s = Arg(t) /\ s.step = "register" /\ todo[t] # <<>> /\ s = todo[t][1]
  BY AtStep DEF Register, Doing, Arg
<1>2. PICK e \in Asks, b \in BOOLEAN : e = s.e /\ b = s.promoting
  BY <1>1, StepShapes
<1>3. PICK p \in Offers : p = nextOffer
  BY DEF Register
<1>4. PICK r \in Step : /\ r = [step |-> "await", e |-> e, p |-> p, promoting |-> b]
                        /\ r.step = "await" /\ r.e = e /\ r.p = p
  BY StepsMade
<1>5. PICK all \in Seq(Step) : /\ all = <<r>> \o Tail(todo[t])
                               /\ all # <<>> /\ all[1] = r
                               /\ \A n \in DOMAIN all : n # 1 => Passive(all[n])
  BY <1>1, GoesOnWith
<1>6. PICK answers \in Seq(Step) : /\ answers = <<[step |-> "record", p |-> p, online |-> home = "online"]>>
                                   /\ \A n \in DOMAIN answers : Passive(answers[n])
  <2>1. PICK b2 \in BOOLEAN : b2 = (home = "online")
    OBVIOUS
  <2>2. PICK a \in Step : a = [step |-> "record", p |-> p, online |-> b2] /\ Passive(a)
    BY StepsMade DEF Passive
  <2>3. PICK q \in Seq(Step) : q = <<a>> /\ \A n \in DOMAIN q : Passive(q[n])
    BY <2>2, PassiveRow
  <2>4. QED
    BY <2>1, <2>2, <2>3
<1>7. /\ todo' = [todo EXCEPT ![t] = all, ![<<"handler", p>>] = answers]
      /\ offer' = [offer EXCEPT ![p].state = "mute"]
      /\ wrote' = [wrote EXCEPT ![p] = e] /\ nextOffer' = p + 1
      /\ UNCHANGED <<askVars, home, peerHolds, history>>
  BY <1>1, <1>2, <1>3, <1>4, <1>5, <1>6 DEF Register
<1>8. /\ todo' \in [Goroutines -> Seq(Step)]
      /\ todo'[t] \in {all, answers}
      /\ \A g \in Goroutines : g # t => todo'[g] \in {todo[g], answers}
  <2>1. todo \in [Goroutines -> Seq(Step)] /\ <<"handler", p>> \in Goroutines
    BY RowsStand DEF BorderInv, BorderTypeOK
  <2>2. QED
    BY <1>7, <2>1
<1>9. BorderTypeOK'
  <2>1. offer' \in [Offers -> OfferRow]
    BY <1>7, RowsStand DEF OfferRow
  <2>2. wrote' \in [Offers -> Asks \cup {0}] /\ nextOffer' \in 1 .. MaxOffers + 1
    BY <1>7, BorderAssumption DEF Offers, BorderInv, BorderTypeOK
  <2>3. QED
    BY <1>7, <1>8, <2>1, <2>2 DEF BorderInv, BorderTypeOK
<1>10. \A o \in Offers : o < nextOffer => wrote'[o] = wrote[o] /\ o < nextOffer'
  BY <1>3, <1>7 DEF Offers, BorderInv, BorderTypeOK
<1>11. AsksNamed'
  <2>1. \A f \in Asks : ask[f].offer # 0 => ask[f].offer \in Offers
    BY RowsStand DEF AskRow
  <2>2. QED
    BY <1>7, <1>10, <2>1 DEF BorderInv, AsksNamed
<1>12. AwaitsNamed'
  <2>1. SUFFICES ASSUME NEW g \in Goroutines, NEW n \in DOMAIN todo'[g],
                        todo'[g][n].step = "await"
                 PROVE  /\ todo'[g][n].p < nextOffer'
                        /\ wrote'[todo'[g][n].p] = todo'[g][n].e
    BY DEF AwaitsNamed
  <2>2. CASE g = t
    <3>1. todo'[g] = all /\ n = 1
      BY <1>5, <1>6, <1>8, <2>1, <2>2 DEF Passive
    <3>2. todo'[g][n] = r
      BY <1>5, <3>1
    <3>3. wrote'[p] = e /\ p < nextOffer'
      BY <1>7 DEF Offers, BorderInv, BorderTypeOK
    <3>4. QED
      BY <1>4, <3>2, <3>3
  <2>3. CASE g # t
    <3>1. todo'[g] = todo[g]
      BY <1>6, <1>8, <2>1, <2>3 DEF Passive
    <3>2. PICK q \in Seq(Step) : q = todo[g]
      BY DEF BorderInv, BorderTypeOK
    <3>3. q[n] \in Step /\ q[n].step = "await"
      BY <2>1, <3>1, <3>2
    <3>4. q[n].p \in Offers
      BY <3>3, StepShapes
    <3>5. q[n].p < nextOffer /\ wrote[q[n].p] = q[n].e
      BY <2>1, <3>1, <3>2 DEF BorderInv, AwaitsNamed
    <3>6. QED
      BY <1>10, <3>1, <3>2, <3>4, <3>5
  <2>4. QED
    BY <2>2, <2>3
<1>13. DecidesFirst'
  BY <1>5, <1>6, <1>8 DEF BorderInv, DecidesFirst
<1>14. Deciding' \subseteq Deciding
  <2>1. t \in Deciding
    BY <1>1 DEF Register, Deciding
  <2>2. \A g \in Goroutines : g # t /\ g \in Deciding' => g \in Deciding
    BY <1>6, <1>8, DecidersNow, DecidersNext DEF BorderInv, BorderTypeOK
  <2>3. QED
    BY <2>1, <2>2 DEF Deciding
<1>15. OneDecides'
  <2>1. Crossings' = Crossings
    BY <1>7 DEF Crossings, Crossing, Asked
  <2>2. QED
    BY <1>7, <1>14, <2>1 DEF BorderInv, OneDecides
<1>16. QED
  BY <1>9, <1>11, <1>12, <1>13, <1>15 DEF BorderInv

\* createForeignPendingEvent: the crossing is recorded under the name the
\* caller was answered with.
LEMMA CrossInv ==
    ASSUME BorderInv, NEW t \in Goroutines, Cross(t)
    PROVE  BorderInv'
<1> USE DEF homeVars, history
<1>1. PICK s \in Step : /\ s = Arg(t) /\ s.step = "await" /\ todo[t] # <<>>
                        /\ s = todo[t][1] /\ 1 \in DOMAIN todo[t]
  BY AtStep DEF Cross, Doing, Arg
<1>2. PICK e \in Asks, p \in Offers : e = s.e /\ p = s.p
  BY <1>1, StepShapes
<1>3. p < nextOffer /\ wrote[p] = e
  BY <1>1, <1>2 DEF BorderInv, AwaitsNamed
<1>4. PICK row \in AskRow : row = [ask[e] EXCEPT !.offer = p] /\ row.user = ask[e].user /\ row.offer = p
  BY AskRows, RowsStand
<1>5. /\ ask' = [ask EXCEPT ![e] = row] /\ Asked(e) /\ ~Crossing(e)
      /\ parted' \in {parted, parted \cup {p}}
      /\ UNCHANGED <<present, copies, nextAsk, toFan, homeVars, dropped, overlapped>>
  BY <1>1, <1>2, <1>4 DEF Cross
<1>6. PICK more \in Seq(Step) : Then(t, more) /\ \A n \in DOMAIN more : Passive(more[n])
  BY PassiveOne, PassiveNone DEF Cross
<1>7. PICK all \in Seq(Step) : todo' = [todo EXCEPT ![t] = all] /\ \A n \in DOMAIN all : Passive(all[n])
  <2>1. PICK rest \in Seq(Step) : rest = Tail(todo[t]) /\ \A n \in DOMAIN rest : Passive(rest[n])
    BY <1>1, AtStep
  <2>2. PICK all \in Seq(Step) : all = more \o rest
    <3>1. more \o rest \in Seq(Step)
      BY ConcatProperties
    <3>2. QED
      BY <3>1
  <2>3. \A n \in DOMAIN all : \/ n \in DOMAIN more /\ all[n] = more[n]
                              \/ n - Len(more) \in DOMAIN rest /\ all[n] = rest[n - Len(more)]
    BY <2>1, <2>2
  <2>4. QED
    BY <1>6, <2>1, <2>2, <2>3 DEF Then
<1>8. /\ todo' \in [Goroutines -> Seq(Step)] /\ todo'[t] = all
      /\ \A g \in Goroutines : g # t => todo'[g] = todo[g]
  BY <1>7 DEF BorderInv, BorderTypeOK
<1>9. /\ ask' \in [Asks -> AskRow] /\ ask'[e] = row
      /\ \A f \in Asks : f # e => ask'[f] = ask[f]
  BY <1>5 DEF BorderInv, BorderTypeOK
<1>10. BorderTypeOK'
  <2>1. \A f \in Asks : ask'[f].user = NoViewer => ask'[f] = NoAsk
    BY <1>4, <1>5, <1>9 DEF Asked, BorderInv, BorderTypeOK
  <2>2. QED
    BY <1>5, <1>8, <1>9, <2>1 DEF BorderInv, BorderTypeOK
<1>11. AsksNamed'
  BY <1>3, <1>4, <1>5, <1>9 DEF BorderInv, AsksNamed
<1>12. AwaitsNamed'
  BY <1>5, <1>7, <1>8 DEF BorderInv, AwaitsNamed, Passive
<1>13. DecidesFirst'
  BY <1>7, <1>8 DEF BorderInv, DecidesFirst
<1>14. OneDecides'
  <2>1. SUFFICES ASSUME ~overlapped
                 PROVE  Deciding' = {} /\ Cardinality(Crossings)' <= MaxCrossings
    BY <1>5 DEF OneDecides
  <2>2. t \in Deciding
    BY <1>1 DEF Cross, Deciding
  <2>3. (\A g \in Deciding : g = t) /\ Cardinality(Crossings) < MaxCrossings
    BY <2>1, <2>2 DEF BorderInv, OneDecides
  <2>4. \A g \in Goroutines : g \notin Deciding'
    BY <1>7, <1>8, <2>3, DecidersNow, DecidersNext DEF BorderInv, BorderTypeOK
  <2>5. Deciding' = {}
    BY <2>4 DEF Deciding
  <2>6. Crossings' = Crossings \cup {e} /\ e \notin Crossings
    <3>1. p # 0
      BY DEF Offers
    <3>2. Asked(e)' /\ ask'[e].offer # 0
      BY <1>4, <1>5, <1>9, <3>1 DEF Asked
    <3>3. \A f \in Asks : f # e => (Crossing(f)' <=> Crossing(f))
      BY <1>9 DEF Crossing, Asked
    <3>4. QED
      BY <1>5, <3>2, <3>3 DEF Crossings, Crossing
  <2>7. Cardinality(Crossings \cup {e}) = Cardinality(Crossings) + 1
    BY <2>6, CrossingsCount
  <2>8. QED
    BY <2>3, <2>5, <2>6, <2>7, CrossingsCount
<1>15. QED
  BY <1>10, <1>11, <1>12, <1>13, <1>14 DEF BorderInv

LEMMA BorderInitInv == BorderInit => BorderInv
<1> SUFFICES ASSUME BorderInit PROVE BorderInv
  OBVIOUS
<1>1. NoAsk \in AskRow /\ NoAsk.user = NoViewer /\ NoAsk.offer = 0
  BY DEF NoAsk, AskRow, AskNames
<1>2. \A e \in Asks : ask[e] = NoAsk /\ \A t \in Goroutines : todo[t] = <<>>
  BY DEF BorderInit
<1>3. BorderTypeOK
  <2>1. ask \in [Asks -> AskRow]
    BY <1>1 DEF BorderInit
  <2>2. offer \in [Offers -> OfferRow]
    BY DEF BorderInit, OfferRow
  <2>3. <<>> \in Seq(Step)
    OBVIOUS
  <2>4. todo \in [Goroutines -> Seq(Step)]
    BY <2>3 DEF BorderInit
  <2>5. nextAsk \in 1 .. MaxAsks + 1 /\ nextOffer \in 1 .. MaxOffers + 1
    BY BorderAssumption DEF BorderInit
  <2>6. wrote \in [Offers -> Asks \cup {0}] /\ home \in {"online", "offline", "none"}
    BY BorderAssumption DEF BorderInit
  <2>7. present \subseteq Viewers /\ copies \subseteq Viewers /\ toFan \subseteq Viewers
    BY BorderAssumption DEF BorderInit
  <2>8. QED
    BY <1>2, <2>1, <2>2, <2>4, <2>5, <2>6, <2>7 DEF BorderInit, BorderTypeOK
<1>4. AsksNamed
  BY <1>1 DEF BorderInit, AsksNamed
<1>5. \A t \in Goroutines : todo[t] = <<>> /\ DOMAIN todo[t] = {}
  BY DEF BorderInit
<1>6. AwaitsNamed /\ DecidesFirst
  BY <1>5 DEF AwaitsNamed, DecidesFirst
<1>7. Deciding = {}
  BY <1>5 DEF Deciding, Doing
<1>8. Crossings = {}
  BY <1>1 DEF BorderInit, Crossings, Crossing
<1>9. Cardinality(Crossings) = 0
  BY <1>8, FS_EmptySet
<1>10. OneDecides
  BY <1>7, <1>9, BorderAssumption DEF OneDecides
<1>11. QED
  BY <1>3, <1>4, <1>6, <1>10 DEF BorderInv

LEMMA BorderNextInv == BorderInv /\ [BorderNext]_borderVars => BorderInv'
<1> SUFFICES ASSUME BorderInv, [BorderNext]_borderVars PROVE BorderInv'
  OBVIOUS
<1>1. ASSUME NEW u \in Viewers, SocketSays(u) \/ Fan(u) \/ ViewerLeaves(u) \/ Reconnect(u)
      PROVE  BorderInv'
  BY <1>1, AskInv, DataAckInv, ViewerRejectsInv, FanInv, ViewerLeavesInv, NoGoroutineInv DEF SocketSays
<1>2. ASSUME NEW p \in Offers, HomeAnswers(p) \/ HomeGivesUp(p) PROVE BorderInv'
  BY <1>2, HomeAnswersInv, HomeGivesUpInv
<1>3. ASSUME NEW t \in Goroutines,
             \/ OpenEvent(t) \/ Fold(t) \/ Promote(t) \/ Register(t) \/ RegisterFails(t)
             \/ Record(t) \/ Cross(t) \/ CrossFails(t)
      PROVE  BorderInv'
  BY <1>3, OpenEventInv, FoldsInv, RegisterInv, CrossingFailsInv, RecordInv, CrossInv
<1>4. ASSUME NEW t \in Goroutines,
             \/ Deliver(t) \/ DeliverBroadcast(t) \/ DeliverNobody(t) \/ MarkHome(t) \/ NotHeld(t)
             \/ HolderNotify(t) \/ AckPeer(t) \/ AckPeerLost(t) \/ Close(t)
             \/ Leave(t) \/ Cancel(t)
      PROVE  BorderInv'
  BY <1>4, DeliversInv, DeliverNobodyInv, MarkHomeInv, NotHeldInv, HolderNotifyInv, AckPeerInv,
     AckPeerLostInv, CloseInv, LeaveInv, CancelInv
<1>5. ASSUME UNCHANGED borderVars PROVE BorderInv'
  BY <1>5 DEF borderVars, BorderInv, BorderTypeOK, AsksNamed, AwaitsNamed, DecidesFirst, OneDecides,
     Crossings, Crossing, Asked, Deciding, Doing
<1>6. QED
  BY <1>1, <1>2, <1>3, <1>4, <1>5, NoGoroutineInv DEF BorderNext

\* A copy that arrives from the home server (HandleForeignRelayResponse) finds
\* the one reader it was asked and encrypted for: the name the crossing is
\* recorded under is the one its own call was answered with.
THEOREM CopiesAlwaysFindTheirAsk == BorderSpec => []CopyFindsItsAsk
<1>1. BorderInv => CopyFindsItsAsk
  BY DEF BorderInv, AsksNamed, CopyFindsItsAsk, Crossings, Crossing
<1>2. QED
  BY <1>1, BorderInitInv, BorderNextInv, PTL DEF BorderSpec

\* The fold keeps to maxForeignCrossings as long as no two goroutines decide
\* on a crossing at once; what the fold reads is not locked.
THEOREM CrossingsStayCapped == BorderSpec => []CappedUnlessOverlapped
<1>1. BorderInv => CappedUnlessOverlapped
  BY DEF BorderInv, OneDecides, CappedUnlessOverlapped
<1>2. QED
  BY <1>1, BorderInitInv, BorderNextInv, PTL DEF BorderSpec

-----------------------------------------------------------------------------
(* Border at rest: what the goroutines are at                              *)

IdleStep == [step |-> "idle"]
PromoteStep == [step |-> "promote"]
AckStep(e) == [step |-> "ackPeer", e |-> e]
CloseStep(e) == [step |-> "close", e |-> e]

\* The step a goroutine is at, and whether a promotion is among those it has left.
FirstOf(q) == IF q = <<>> THEN IdleStep ELSE Head(q)
PromotesIn(q) == \E n \in DOMAIN q : q[n].step = "promote"
Now(t) == FirstOf(todo[t])
Promotes(t) == PromotesIn(todo[t])

\* The handling of a DATA_ACK, from one of its steps on.
AckQueues(e) == {<<[step |-> "holderNotify"], AckStep(e), CloseStep(e)>>, <<AckStep(e), CloseStep(e)>>, <<CloseStep(e)>>}
AckKinds == {"holderNotify", "ackPeer", "close"}
\* Any other queue: whatever comes later is the loop of a promotion.
PlainQueue(q) ==
    /\ \A n \in DOMAIN q : n # 1 => q[n].step = "promote"
    /\ FirstOf(q).step \notin AckKinds

\* What a plain queue becomes when its first step is done.
LEMMA RestOfPlain ==
    ASSUME NEW q \in Seq(Step), q # <<>>, PlainQueue(q)
    PROVE  /\ FirstOf(q) = Head(q) /\ FirstOf(q) \in Step /\ FirstOf(q) # IdleStep
           /\ PlainQueue(Tail(q)) /\ Tail(q) \in Seq(Step)
           /\ FirstOf(Tail(q)) \in {IdleStep, PromoteStep}
           /\ ~PromotesIn(q) => FirstOf(Tail(q)) = IdleStep /\ Tail(q) = <<>>
           /\ FirstOf(q).step # "promote" /\ PromotesIn(q) => PromotesIn(Tail(q))
<1>1. /\ FirstOf(q) = Head(q) /\ FirstOf(q) = q[1] /\ FirstOf(q) \in Step /\ Tail(q) \in Seq(Step)
      /\ 1 \in DOMAIN q
      /\ \A n \in DOMAIN Tail(q) : n + 1 \in DOMAIN q /\ n + 1 # 1 /\ Tail(q)[n] = q[n + 1]
      /\ \A n \in DOMAIN q : n # 1 => n - 1 \in DOMAIN Tail(q) /\ Tail(q)[n - 1] = q[n]
      /\ Tail(q) # <<>> => Head(Tail(q)) = Tail(q)[1] /\ 1 \in DOMAIN Tail(q)
  BY DEF FirstOf
<1>2. FirstOf(q) # IdleStep
  BY <1>1 DEF IdleStep, Step
<1>3. \A n \in DOMAIN Tail(q) : Tail(q)[n].step = "promote" /\ Tail(q)[n] \in Step
  BY <1>1 DEF PlainQueue
<1>4. CASE Tail(q) = <<>>
  <2>1. FirstOf(Tail(q)) = IdleStep
    BY <1>4 DEF FirstOf
  <2>2. PlainQueue(Tail(q))
    BY <1>3, <2>1 DEF PlainQueue, IdleStep, AckKinds
  <2>3. FirstOf(q).step # "promote" /\ PromotesIn(q) => PromotesIn(Tail(q))
    BY <1>1 DEF PromotesIn
  <2> QED
    BY <1>1, <1>2, <1>4, <2>1, <2>2, <2>3
<1>5. CASE Tail(q) # <<>>
  <2>1. FirstOf(Tail(q)) \in Step /\ FirstOf(Tail(q)).step = "promote"
    BY <1>1, <1>3, <1>5 DEF FirstOf
  <2>2. FirstOf(Tail(q)) = PromoteStep
    BY <2>1 DEF Step, PromoteStep
  <2>3. PlainQueue(Tail(q))
    BY <1>3, <2>2 DEF PlainQueue, PromoteStep, AckKinds
  <2>4. PromotesIn(q) /\ PromotesIn(Tail(q))
    BY <1>1, <1>3, <1>5 DEF PromotesIn
  <2> QED
    BY <1>1, <1>2, <2>2, <2>3, <2>4
<1> QED
  BY <1>4, <1>5

\* Nothing left to do is a plain queue that promotes nobody.
LEMMA NothingLeft ==
    FirstOf(<<>>) = IdleStep /\ PlainQueue(<<>>) /\ ~PromotesIn(<<>>) /\ <<>> \in Seq(Step)
BY DEF FirstOf, PlainQueue, PromotesIn, IdleStep, AckKinds

\* Another step in the place of the first.
LEMMA PutFirst ==
    ASSUME NEW rest \in Seq(Step), \A n \in DOMAIN rest : rest[n].step = "promote",
           NEW s \in Step, s.step \notin AckKinds
    PROVE  /\ <<s>> \o rest \in Seq(Step) /\ <<s>> \o rest # <<>>
           /\ FirstOf(<<s>> \o rest) = s /\ PlainQueue(<<s>> \o rest)
           /\ s.step = "promote" => PromotesIn(<<s>> \o rest)
           /\ PromotesIn(rest) => PromotesIn(<<s>> \o rest)
<1>1. PICK r \in Seq(Step) : r = <<s>> \o rest
  <2>1. <<s>> \in Seq(Step)
    OBVIOUS
  <2> QED
    BY <2>1, ConcatProperties
<1>2. /\ r # <<>> /\ Head(r) = s /\ r[1] = s /\ 1 \in DOMAIN r
      /\ \A n \in DOMAIN r : n # 1 => n - 1 \in DOMAIN rest /\ r[n] = rest[n - 1]
      /\ \A n \in DOMAIN rest : n + 1 \in DOMAIN r /\ r[n + 1] = rest[n]
  BY <1>1
<1>3. FirstOf(r) = s
  BY <1>2 DEF FirstOf
<1>4. PlainQueue(r)
  BY <1>2, <1>3 DEF PlainQueue
<1>5. /\ s.step = "promote" => PromotesIn(r)
      /\ PromotesIn(rest) => PromotesIn(r)
  BY <1>2 DEF PromotesIn
<1> QED
  BY <1>1, <1>2, <1>3, <1>4, <1>5

\* A queue of one step.
LEMMA OneStep ==
    ASSUME NEW s \in Step, s.step \notin AckKinds
    PROVE  /\ <<s>> \in Seq(Step) /\ <<s>> # <<>> /\ FirstOf(<<s>>) = s /\ PlainQueue(<<s>>)
           /\ s.step = "promote" => PromotesIn(<<s>>)
<1>1. <<s>> = <<s>> \o <<>> /\ <<>> \in Seq(Step) /\ \A n \in DOMAIN <<>> : <<>>[n].step = "promote"
  <2>1. <<s>> \in Seq(Step) /\ <<>> \in Seq(Step)
    OBVIOUS
  <2> QED
    BY <2>1, ConcatEmptySeq
<1> QED
  BY <1>1, PutFirst

\* The three steps of a DATA_ACK, one after the other.
LEMMA AckQueueSteps ==
    ASSUME NEW e \in Asks, NEW q \in AckQueues(e)
    PROVE  /\ q \in Seq(Step) /\ q # <<>> /\ FirstOf(q) = Head(q) /\ FirstOf(q) # IdleStep
           /\ FirstOf(q).step \in AckKinds /\ ~PromotesIn(q)
           /\ FirstOf(q).step = "holderNotify" =>
                 Tail(q) \in AckQueues(e) /\ FirstOf(Tail(q)) = AckStep(e)
           /\ FirstOf(q).step = "ackPeer" =>
                 FirstOf(q) = AckStep(e) /\ Tail(q) \in AckQueues(e) /\ FirstOf(Tail(q)) = CloseStep(e)
           /\ FirstOf(q).step = "close" => FirstOf(q) = CloseStep(e) /\ Tail(q) = <<>>
<1>1. PICK n, a, c \in Step : /\ n = [step |-> "holderNotify"] /\ a = AckStep(e) /\ c = CloseStep(e)
                              /\ n.step = "holderNotify" /\ a.step = "ackPeer" /\ c.step = "close"
  BY StepsMade DEF AckStep, CloseStep
<1>2. n # IdleStep /\ a # IdleStep /\ c # IdleStep
  BY <1>1 DEF IdleStep
<1>3. CASE q = <<n, a, c>>
  <2>1. /\ q \in Seq(Step) /\ q # <<>> /\ Head(q) = n /\ Tail(q) = <<a, c>>
        /\ DOMAIN q = {1, 2, 3} /\ q[1] = n /\ q[2] = a /\ q[3] = c
        /\ <<a, c>> # <<>> /\ Head(<<a, c>>) = a
    BY <1>3
  <2>2. ~PromotesIn(q)
    BY <1>1, <2>1 DEF PromotesIn
  <2>3. FirstOf(q) = n /\ FirstOf(Tail(q)) = a /\ Tail(q) \in AckQueues(e)
    BY <1>1, <2>1 DEF FirstOf, AckQueues
  <2> QED
    BY <1>1, <1>2, <2>1, <2>2, <2>3 DEF AckKinds
<1>4. CASE q = <<a, c>>
  <2>1. /\ q \in Seq(Step) /\ q # <<>> /\ Head(q) = a /\ Tail(q) = <<c>>
        /\ DOMAIN q = {1, 2} /\ q[1] = a /\ q[2] = c
        /\ <<c>> # <<>> /\ Head(<<c>>) = c
    BY <1>4
  <2>2. ~PromotesIn(q)
    BY <1>1, <2>1 DEF PromotesIn
  <2>3. FirstOf(q) = a /\ FirstOf(Tail(q)) = c /\ Tail(q) \in AckQueues(e)
    BY <1>1, <2>1 DEF FirstOf, AckQueues
  <2> QED
    BY <1>1, <1>2, <2>1, <2>2, <2>3 DEF AckKinds
<1>5. CASE q = <<c>>
  <2>1. /\ q \in Seq(Step) /\ q # <<>> /\ Head(q) = c /\ Tail(q) = <<>>
        /\ DOMAIN q = {1} /\ q[1] = c
    BY <1>5
  <2>2. ~PromotesIn(q)
    BY <1>1, <2>1 DEF PromotesIn
  <2>3. FirstOf(q) = c
    BY <2>1 DEF FirstOf
  <2> QED
    BY <1>1, <1>2, <2>1, <2>2, <2>3 DEF AckKinds
<1> QED
  BY <1>1, <1>3, <1>4, <1>5 DEF AckQueues
\* The three steps belong to an ask that was minted, and whose reader holds the
\* reed by now if it is still there.
Acking(t, e) == todo[t] \in AckQueues(e) /\ e < nextAsk /\ (Asked(e) => ask[e].user \in copies)
Shaped == \A t \in Goroutines : PlainQueue(todo[t]) \/ \E e \in Asks : Acking(t, e)

\* Handlers record, and nobody else; who leaves finds the last teardown over.
IsHandler(t) == \E p \in Offers : t = <<"handler", p>>
IsTeardown(t) == \E u \in Viewers : t = <<"teardown", u>>
Handling ==
    /\ \A t \in Goroutines : IsHandler(t) => todo[t] = <<>> \/ Now(t).step = "record"
    /\ \A t \in Goroutines : Now(t).step = "record" => t = <<"handler", Now(t).p>> /\ ~Promotes(t)
Leaving ==
    \A t \in Goroutines : Now(t).step = "leave" =>
        t = Socket(Now(t).u) /\ todo[<<"teardown", Now(t).u>>] = <<>>

\* Events that are there were minted, for users who are there.
Names(s, p) ==
    \/ s.step \in {"await", "record", "deliver", "markHome", "notHeld"} /\ s.p = p
    \/ s.step \in {"cancel", "leave"} /\ p \in s.ps
Opening == {"fold", "register", "await"}
Minted ==
    /\ \A e \in Asks : e >= nextAsk => ask[e] = NoAsk
    /\ \A e \in Asks : Asked(e) => ask[e].user \in present
    /\ \A t \in Goroutines : Now(t).step \in Opening => Now(t).e < nextAsk
    /\ \A t \in Goroutines, p \in Offers : Names(Now(t), p) => p < nextOffer

\* A waiting request has a crossing, a holder, a promotion or its own opener.
Carrying(t) == Promotes(t) \/ (Now(t).step \in {"register", "await"} /\ Now(t).promoting)
Owns(t, e) == Now(t).step \in Opening /\ Now(t).e = e
Carried ==
    \/ dropped \/ LocalHolder \/ Crossings # {}
    \/ \E t \in Goroutines : Carrying(t)
    \/ \A e \in Waiting : \E t \in Goroutines : Owns(t, e)
Served == \A e \in Asks : ask[e].relayed => Crossing(e) \/ LocalHolder \/ dropped

\* Where the two ends of an offer are, and who is at work on it.
At(name, p) == \E t \in Goroutines : Now(t).step = name /\ Now(t).p = p
Among(name, p) == \E t \in Goroutines : Now(t).step = name /\ p \in Now(t).ps
Closes(e) == \E t \in Goroutines : Now(t).step = "close" /\ Now(t).e = e
Mapped(p) == AskOf(p) # {}
Closing(p) == \E e \in AskOf(p) : Closes(e)
Sent(p) == \A e \in AskOf(p) : ask[e].relayed
OneAwaits(p) ==
    \A s, t \in Goroutines :
        /\ Now(s).step = "await" /\ Now(s).p = p
        /\ Now(t).step = "await" /\ Now(t).p = p
        => s = t
TheirOwn(p) ==
    \A t \in Goroutines : Now(t).step = "leave" /\ p \in Now(t).ps =>
        \A e \in AskOf(p) : ask[e].user = Now(t).u

EndsMeet(p) ==
    /\ At("await", p) => offer[p].state # "relayed" /\ ~At("markHome", p)
    /\ offer[p].state # "absent" => Mapped(p) \/ At("await", p) \/ Among("cancel", p)
    /\ offer[p].state = "absent" /\ (Mapped(p) \/ (At("await", p) /\ offer[p].answer = "ok")) =>
           At("notHeld", p) \/ Closing(p)
    /\ Closing(p) => offer[p].state = "absent"
    /\ offer[p].state = "relayed" \/ At("markHome", p) => Sent(p)
EndsOf(p) ==
    /\ p >= nextOffer => offer[p].state = "absent" /\ offer[p].answer = "none" /\ p \notin parted
    /\ OneAwaits(p) /\ TheirOwn(p)
    /\ At("await", p) => ~Mapped(p) /\ ~Among("cancel", p) /\ ~Among("leave", p)
    /\ offer[p].state = "mute" \/ At("record", p) => offer[p].answer = "none"
    /\ Mapped(p) => offer[p].answer = "ok"
    /\ At("notHeld", p) => offer[p].state = "absent"
    /\ Among("cancel", p) => ~Mapped(p)
    /\ p \notin parted => EndsMeet(p)
BothEnds == \A p \in Offers : EndsOf(p)

\* A border at rest, and on its way there.
RestParts == Shaped /\ Handling /\ Leaving /\ Minted /\ Carried /\ Served /\ BothEnds

\* What a goroutine is at, said in either way.
LEMMA NowIs ==
    ASSUME BorderInv, Shaped, NEW t \in Goroutines
    PROVE  /\ todo[t] \in Seq(Step)
           /\ todo[t] = <<>> <=> Now(t) = IdleStep
           /\ todo[t] = <<>> => PlainQueue(todo[t]) /\ ~Promotes(t)
           /\ todo[t] # <<>> => Now(t) = Arg(t) /\ Now(t) \in Step /\ Now(t).step # "idle"
           /\ \A name : name # "idle" => (Doing(t, name) <=> Now(t).step = name)
           /\ PlainQueue(todo[t]) <=> Now(t).step \notin AckKinds
           /\ Now(t).step \in AckKinds => \E e \in Asks : Acking(t, e)
<1>1. PICK q \in Seq(Step) : q = todo[t]
  BY DEF BorderInv, BorderTypeOK
<1>2. PlainQueue(q) \/ \E e \in Asks : Acking(t, e) /\ q \in AckQueues(e)
  BY <1>1 DEF Shaped, Acking
<1>3. PlainQueue(q) <=> FirstOf(q).step \notin AckKinds
  <2>1. PlainQueue(q) => FirstOf(q).step \notin AckKinds
    BY DEF PlainQueue
  <2> QED
    BY <1>2, <2>1, AckQueueSteps
<1>4. CASE q = <<>>
  <2>1. FirstOf(q) = IdleStep /\ ~PromotesIn(q) /\ IdleStep.step = "idle"
    BY <1>4, NothingLeft DEF IdleStep
  <2>2. \A name : name # "idle" => ~Doing(t, name) /\ Now(t).step # name
    BY <1>1, <1>4, <2>1 DEF Doing, Now
  <2> QED
    BY <1>1, <1>2, <1>3, <1>4, <2>1, <2>2, NothingLeft DEF Now, Promotes
<1>5. CASE q # <<>>
  <2>1. FirstOf(q) = Head(q) /\ Head(q) \in Step
    BY <1>5 DEF FirstOf
  <2>2. FirstOf(q) # IdleStep /\ FirstOf(q).step # "idle"
    BY <2>1 DEF IdleStep, Step
  <2>3. \A name : Doing(t, name) <=> Now(t).step = name
    BY <1>1, <1>5, <2>1 DEF Doing, Now
  <2> QED
    BY <1>1, <1>2, <1>3, <1>5, <2>1, <2>2, <2>3 DEF Now, Arg
<1> QED
  BY <1>4, <1>5

\* Goroutines t and h go on to s and r, and the others stay where they are.
Turns(t, s, h, r) ==
    /\ \A g \in Goroutines \ {t, h} : todo'[g] = todo[g]
    /\ FirstOf(todo'[t]) = s /\ FirstOf(todo'[h]) = r
\* One of them goes on to s, and drops no promotion but the one it was at.
Advances(t, s) ==
    /\ PlainQueue(todo'[t])
    /\ Promotes(t) /\ Now(t).step # "promote" => PromotesIn(todo'[t])
    /\ s.step = "promote" => PromotesIn(todo'[t])
Moves(t, s) == Turns(t, s, t, s) /\ Advances(t, s)

\* A goroutine is done with a step and adds none: it rests or promotes.
LEMMA GoesOn ==
    ASSUME BorderInv, Shaped, NEW t \in Goroutines,
           todo[t] # <<>>, Now(t).step \notin AckKinds, Then(t, <<>>)
    PROVE  \E s \in {IdleStep, PromoteStep} : /\ Moves(t, s)
                                              /\ ~Promotes(t) => s = IdleStep /\ todo'[t] = <<>>
<1>1. PICK q \in Seq(Step) : q = todo[t] /\ q # <<>> /\ PlainQueue(q) /\ Now(t) = FirstOf(q)
  BY NowIs DEF Now
<1>2. PICK rest \in Seq(Step) : rest = Tail(q) /\ <<>> \o rest = rest
  <2>1. Tail(q) \in Seq(Step)
    BY <1>1
  <2> QED
    BY <2>1, ConcatEmptySeq
<1>3. todo' = [todo EXCEPT ![t] = rest]
  BY <1>1, <1>2 DEF Then
<1>4. todo'[t] = rest /\ \A g \in Goroutines \ {t} : todo'[g] = todo[g]
  BY <1>3 DEF BorderInv, BorderTypeOK
<1>5. PICK s \in {IdleStep, PromoteStep} : s = FirstOf(rest)
  BY <1>1, <1>2, RestOfPlain
<1>6. s.step = "promote" => PromotesIn(rest)
  <2>1. s.step = "promote" => s # IdleStep
    BY DEF IdleStep
  <2>3. s # IdleStep => PromotesIn(rest)
    <3>1. SUFFICES ASSUME s # IdleStep PROVE PromotesIn(rest)
      OBVIOUS
    <3>2. rest # <<>>
      BY <1>5, <3>1, NothingLeft
    <3>3. Head(rest) = rest[1] /\ 1 \in DOMAIN rest
      BY <3>2
    <3>4. rest[1].step = "promote"
      BY <1>5, <3>1, <3>2, <3>3 DEF FirstOf, PromoteStep
    <3> QED
      BY <3>3, <3>4 DEF PromotesIn
  <2> QED
    BY <2>1, <2>3
<1>7. Moves(t, s)
  BY <1>1, <1>2, <1>4, <1>5, <1>6, RestOfPlain DEF Moves, Turns, Advances, Promotes
<1> QED
  BY <1>1, <1>2, <1>4, <1>5, <1>7, RestOfPlain DEF Promotes

\* A goroutine goes on to another step in the place of the one it was at.
LEMMA GoesOnTo ==
    ASSUME BorderInv, Shaped, NEW t \in Goroutines,
           todo[t] # <<>>, Now(t).step \notin AckKinds,
           NEW s \in Step, s.step \notin AckKinds, Then(t, <<s>>)
    PROVE  Moves(t, s)
<1>1. PICK q \in Seq(Step) : q = todo[t] /\ q # <<>> /\ PlainQueue(q) /\ Now(t) = FirstOf(q)
  BY NowIs DEF Now
<1>2. PICK rest \in Seq(Step) : rest = Tail(q) /\ \A n \in DOMAIN rest : rest[n].step = "promote"
  <2>1. Tail(q) \in Seq(Step) /\ \A n \in DOMAIN Tail(q) : n + 1 \in DOMAIN q /\ n + 1 # 1 /\ Tail(q)[n] = q[n + 1]
    <3>1. q \in Seq(Step) /\ q # <<>>
      BY <1>1
    <3>2. Tail(q) \in Seq(Step) /\ Len(Tail(q)) = Len(q) - 1 /\ Len(q) \in Nat
      BY <3>1
    <3>3. DOMAIN Tail(q) = 1..(Len(q) - 1) /\ DOMAIN q = 1..Len(q)
      BY <3>1, <3>2
    <3>4. \A n \in 1..(Len(q) - 1) : n + 1 \in 1..Len(q) /\ n + 1 # 1
      BY <3>2
    <3>5. \A n \in 1..(Len(q) - 1) : Tail(q)[n] = q[n + 1]
      BY <3>1
    <3> QED
      BY <3>2, <3>3, <3>4, <3>5
  <2>2. \A n \in DOMAIN q : n # 1 => q[n].step = "promote"
    BY <1>1 DEF PlainQueue
  <2>3. PICK r : r = Tail(q)
    OBVIOUS
  <2>4. \A n \in DOMAIN r : r[n].step = "promote"
    BY <2>1, <2>2, <2>3
  <2> QED
    BY <2>1, <2>3, <2>4
<1>3. PICK all \in Seq(Step) : all = <<s>> \o rest
  BY <1>2, PutFirst
<1>4. todo' = [todo EXCEPT ![t] = all]
  BY <1>1, <1>2, <1>3 DEF Then
<1>5. todo'[t] = all /\ \A g \in Goroutines \ {t} : todo'[g] = todo[g]
  BY <1>4 DEF BorderInv, BorderTypeOK
<1>6. /\ FirstOf(all) = s /\ PlainQueue(all)
      /\ s.step = "promote" => PromotesIn(all)
      /\ PromotesIn(rest) => PromotesIn(all)
  BY <1>2, <1>3, PutFirst
<1>7. FirstOf(q).step # "promote" /\ PromotesIn(q) => PromotesIn(rest)
  BY <1>1, <1>2, RestOfPlain
<1> QED
  BY <1>1, <1>5, <1>6, <1>7 DEF Moves, Turns, Advances, Promotes

\* A goroutine that rests is given a step.
LEMMA Starts ==
    ASSUME BorderInv, Shaped, NEW t \in Goroutines, todo[t] = <<>>,
           NEW s \in Step, s.step \notin AckKinds, todo' = [todo EXCEPT ![t] = <<s>>]
    PROVE  Moves(t, s)
<1>1. todo'[t] = <<s>> /\ \A g \in Goroutines \ {t} : todo'[g] = todo[g]
  BY DEF BorderInv, BorderTypeOK
<1>2. /\ FirstOf(<<s>>) = s /\ PlainQueue(<<s>>)
      /\ s.step = "promote" => PromotesIn(<<s>>)
  BY OneStep
<1> QED
  BY <1>1, <1>2, NowIs DEF Moves, Turns, Advances

\* Who is at what, once two goroutines have gone on.
LEMMA AfterTurns ==
    ASSUME NEW t \in Goroutines, NEW s, NEW h \in Goroutines, NEW r, Turns(t, s, h, r)
    PROVE  /\ \A g \in Goroutines \ {t, h} : Now(g)' = Now(g) /\ Promotes(g)' = Promotes(g)
           /\ Now(t)' = s /\ Now(h)' = r
           /\ \A name, p : At(name, p)' => \/ At(name, p)
                                           \/ s.step = name /\ s.p = p
                                           \/ r.step = name /\ r.p = p
           /\ \A name, p : At(name, p) => \/ At(name, p)'
                                          \/ Now(t).step = name /\ Now(t).p = p
                                          \/ Now(h).step = name /\ Now(h).p = p
           /\ \A name, p : (s.step = name /\ s.p = p) \/ (r.step = name /\ r.p = p) => At(name, p)'
           /\ \A name, p : Among(name, p)' => \/ Among(name, p)
                                              \/ s.step = name /\ p \in s.ps
                                              \/ r.step = name /\ p \in r.ps
           /\ \A name, p : Among(name, p) => \/ Among(name, p)'
                                             \/ Now(t).step = name /\ p \in Now(t).ps
                                             \/ Now(h).step = name /\ p \in Now(h).ps
           /\ \A name, p : (s.step = name /\ p \in s.ps) \/ (r.step = name /\ p \in r.ps) => Among(name, p)'
           /\ \A e : Closes(e)' => \/ Closes(e)
                                   \/ s.step = "close" /\ s.e = e
                                   \/ r.step = "close" /\ r.e = e
           /\ \A e : Closes(e) => \/ Closes(e)'
                                  \/ Now(t).step = "close" /\ Now(t).e = e
                                  \/ Now(h).step = "close" /\ Now(h).e = e
           /\ \A e : (s.step = "close" /\ s.e = e) \/ (r.step = "close" /\ r.e = e) => Closes(e)'
<1>1. /\ \A g \in Goroutines \ {t, h} : Now(g)' = Now(g) /\ Promotes(g)' = Promotes(g)
      /\ Now(t)' = s /\ Now(h)' = r
  BY DEF Turns, Now, Promotes
<1>2. ASSUME NEW name, NEW p
      PROVE  /\ At(name, p)' => \/ At(name, p)
                                \/ s.step = name /\ s.p = p
                                \/ r.step = name /\ r.p = p
             /\ At(name, p) => \/ At(name, p)'
                               \/ Now(t).step = name /\ Now(t).p = p
                               \/ Now(h).step = name /\ Now(h).p = p
             /\ (s.step = name /\ s.p = p) \/ (r.step = name /\ r.p = p) => At(name, p)'
  BY <1>1 DEF At
<1>3. ASSUME NEW name, NEW p
      PROVE  /\ Among(name, p)' => \/ Among(name, p)
                                   \/ s.step = name /\ p \in s.ps
                                   \/ r.step = name /\ p \in r.ps
             /\ Among(name, p) => \/ Among(name, p)'
                                  \/ Now(t).step = name /\ p \in Now(t).ps
                                  \/ Now(h).step = name /\ p \in Now(h).ps
             /\ (s.step = name /\ p \in s.ps) \/ (r.step = name /\ p \in r.ps) => Among(name, p)'
  BY <1>1 DEF Among
<1>4. ASSUME NEW e
      PROVE  /\ Closes(e)' => \/ Closes(e)
                              \/ s.step = "close" /\ s.e = e
                              \/ r.step = "close" /\ r.e = e
             /\ Closes(e) => \/ Closes(e)'
                             \/ Now(t).step = "close" /\ Now(t).e = e
                             \/ Now(h).step = "close" /\ Now(h).e = e
             /\ (s.step = "close" /\ s.e = e) \/ (r.step = "close" /\ r.e = e) => Closes(e)'
  BY <1>1 DEF Closes
<1> QED
  BY <1>1, <1>2, <1>3, <1>4

\* What is left of each part of the invariant by a step that does not touch it.
LEMMA RowsAside ==
    ASSUME NEW e, \A f \in Asks \ {e} : ask'[f] = ask[f]
    PROVE  /\ \A f \in Asks : f # e => (Asked(f)' <=> Asked(f)) /\ (Crossing(f)' <=> Crossing(f))
           /\ \A f \in Asks : f # e => (f \in Crossings' <=> f \in Crossings)
           /\ \A f \in Asks : f # e => (f \in Waiting' <=> f \in Waiting)
           /\ Crossings' \subseteq Asks /\ Crossings \subseteq Asks
           /\ Waiting' \subseteq Asks /\ Waiting \subseteq Asks
<1>1. \A f \in Asks : f # e => (Asked(f)' <=> Asked(f)) /\ (Crossing(f)' <=> Crossing(f)) /\ ask'[f] = ask[f]
  BY DEF Asked, Crossing
<1> QED
  BY <1>1 DEF Crossings, Waiting

\* The asks an offer is mapped to are those it was mapped to, but for one row.
LEMMA AskOfAside ==
    ASSUME NEW e, \A f \in Asks \ {e} : ask'[f] = ask[f], NEW p
    PROVE  \A f \in Asks : f # e => (f \in AskOf(p)' <=> f \in AskOf(p))
BY DEF AskOf, Crossing, Asked

\* The rows that are not minted yet are left alone, and the others keep their reader.
SameReaders == \A e \in Asks : e < nextAsk /\ Asked(e)' => Asked(e) /\ ask'[e].user = ask[e].user

\* The queues keep their shape if those of the goroutines that go on do.
LEMMA ShapedKept ==
    ASSUME Shaped, nextAsk \in Nat, nextAsk' \in Nat, nextAsk <= nextAsk', copies \subseteq copies', SameReaders,
           NEW t \in Goroutines, NEW s, NEW h \in Goroutines, NEW r, Turns(t, s, h, r),
           PlainQueue(todo'[t]) \/ \E e \in Asks : Acking(t, e)',
           PlainQueue(todo'[h]) \/ \E e \in Asks : Acking(h, e)'
    PROVE  Shaped'
<1>1. SUFFICES ASSUME NEW g \in Goroutines \ {t, h}
               PROVE  PlainQueue(todo'[g]) \/ \E e \in Asks : Acking(g, e)'
  BY DEF Shaped
<1>2. todo'[g] = todo[g]
  BY DEF Turns
<1>3. ASSUME NEW e \in Asks, Acking(g, e) PROVE Acking(g, e)'
  <2>1. e < nextAsk'
    BY <1>3 DEF Acking, Asks
  <2> QED
    BY <1>2, <1>3, <2>1 DEF Acking, SameReaders
<1> QED
  BY <1>2, <1>3 DEF Shaped

\* Handlers go on recording, and teardowns stay over for who leaves.
LEMMA HandlingKept ==
    ASSUME Handling, Leaving,
           NEW t \in Goroutines, NEW s, NEW h \in Goroutines, NEW r, Turns(t, s, h, r),
           IsHandler(t) => todo'[t] = <<>>, IsHandler(h) => todo'[h] = <<>>, s.step \notin {"record", "leave"}, r.step \notin {"record", "leave"},
           IsTeardown(t) => todo[t] # <<>>, IsTeardown(h) => todo[h] # <<>>
    PROVE  Handling' /\ Leaving'
<1>0. /\ \A g \in Goroutines : g \notin {t, h} => Now(g)' = Now(g) /\ Promotes(g)' = Promotes(g)
      /\ Now(t)' = s /\ Now(h)' = r
  BY AfterTurns
<1>1. \A g \in Goroutines : IsHandler(g) => todo'[g] = <<>> \/ Now(g)'.step = "record"
  <2>1. SUFFICES ASSUME NEW g \in Goroutines, IsHandler(g)
                 PROVE  todo'[g] = <<>> \/ Now(g)'.step = "record"
    OBVIOUS
  <2>2. CASE g \in {t, h}
    BY <2>1, <2>2
  <2>3. CASE g \notin {t, h}
    <3>1. todo'[g] = todo[g] /\ Now(g)' = Now(g)
      BY <1>0, <2>3 DEF Turns
    <3> QED
      BY <2>1, <3>1 DEF Handling
  <2> QED
    BY <2>2, <2>3
<1>2. \A g \in Goroutines : Now(g)'.step = "record" => g = <<"handler", Now(g)'.p>> /\ ~Promotes(g)'
  BY <1>0 DEF Handling
<1>3. ASSUME NEW g \in Goroutines, Now(g)'.step = "leave"
      PROVE  g = Socket(Now(g)'.u) /\ todo'[<<"teardown", Now(g)'.u>>] = <<>>
  <2>1. g \notin {t, h} /\ Now(g)' = Now(g)
    BY <1>0, <1>3
  <2>2. g = Socket(Now(g).u) /\ todo[<<"teardown", Now(g).u>>] = <<>>
    BY <1>3, <2>1 DEF Leaving
  <2>3. PICK u \in Viewers : u = Now(g).u
    BY <2>2 DEF Socket, Goroutines
  <2>4. <<"teardown", u>> \in Goroutines /\ IsTeardown(<<"teardown", u>>)
    BY DEF IsTeardown, Goroutines
  <2>5. <<"teardown", u>> \notin {t, h}
    BY <2>2, <2>3, <2>4
  <2> QED
    BY <2>1, <2>2, <2>3, <2>4, <2>5 DEF Turns
<1> QED
  BY <1>1, <1>2, <1>3 DEF Handling, Leaving

\* Nobody new is asked for, and nobody who is asked for goes.
KeptOrGone(e) == ask'[e] = NoAsk \/ (Asked(e) /\ ask'[e].user = ask[e].user)

\* Rows that are kept or gone have the readers they had.
LEMMA ReadersSame == (\A e \in Asks : KeptOrGone(e)) => SameReaders
BY DEF KeptOrGone, SameReaders, Asked, NoAsk

\* Whatever is named was minted, if the steps gone on to name no more.
LEMMA MintedKept ==
    ASSUME Minted, nextAsk' = nextAsk, nextOffer' = nextOffer, present \subseteq present',
           \A e \in Asks : KeptOrGone(e),
           NEW t \in Goroutines, NEW s, NEW h \in Goroutines, NEW r, Turns(t, s, h, r),
           s.step \in Opening => s.e < nextAsk, r.step \in Opening => r.e < nextAsk,
           \A p \in Offers : Names(s, p) \/ Names(r, p) => p < nextOffer
    PROVE  Minted'
<1>0. /\ \A g \in Goroutines : g \notin {t, h} => Now(g)' = Now(g) /\ Promotes(g)' = Promotes(g)
      /\ Now(t)' = s /\ Now(h)' = r
  BY AfterTurns
<1>1. \A e \in Asks : e >= nextAsk' => ask'[e] = NoAsk
  <2>1. \A e \in Asks : ask[e] = NoAsk => ~Asked(e)
    BY DEF Asked, NoAsk
  <2> QED
    BY <2>1 DEF Minted, KeptOrGone
<1>2. \A e \in Asks : Asked(e)' => ask'[e].user \in present'
  BY DEF Minted, KeptOrGone, Asked, NoAsk
<1>3. \A g \in Goroutines : Now(g)'.step \in Opening => Now(g)'.e < nextAsk'
  BY <1>0 DEF Minted
<1>4. \A g \in Goroutines, p \in Offers : Names(Now(g)', p) => p < nextOffer'
  BY <1>0 DEF Minted
<1> QED
  BY <1>1, <1>2, <1>3, <1>4 DEF Minted

\* A waiting request keeps what it waits for, if those who go on hand it over.
LEMMA CarriedKept ==
    ASSUME Carried, dropped => dropped', LocalHolder => LocalHolder' \/ dropped',
           Crossings # {} => Crossings' # {} \/ dropped' \/ \E g \in Goroutines : Carrying(g)',
           NEW t \in Goroutines, NEW s, NEW h \in Goroutines, NEW r, Turns(t, s, h, r),
           Carrying(t) \/ Carrying(h) => Carrying(t)' \/ Carrying(h)',
           \A e \in Waiting' : e \in Waiting \/ \E g \in Goroutines : Owns(g, e)',
           \A e \in Waiting' : Owns(t, e) \/ Owns(h, e) => \E g \in Goroutines : Owns(g, e)'
    PROVE  Carried'
<1>0. /\ \A g \in Goroutines : g \notin {t, h} => Now(g)' = Now(g) /\ Promotes(g)' = Promotes(g)
      /\ Now(t)' = s /\ Now(h)' = r
  BY AfterTurns
<1>1. (\E g \in Goroutines : Carrying(g)) => \E g \in Goroutines : Carrying(g)'
  BY <1>0 DEF Carrying
<1>2. ASSUME \A e \in Waiting : \E g \in Goroutines : Owns(g, e)
      PROVE  \A e \in Waiting' : \E g \in Goroutines : Owns(g, e)'
  <2>1. SUFFICES ASSUME NEW e \in Waiting', e \in Waiting PROVE \E g \in Goroutines : Owns(g, e)'
    OBVIOUS
  <2>2. PICK g \in Goroutines : Owns(g, e)
    BY <1>2, <2>1
  <2>3. CASE g \in {t, h}
    BY <2>2, <2>3
  <2>4. CASE g \notin {t, h}
    <3>1. Owns(g, e)'
      BY <1>0, <2>2, <2>4 DEF Owns
    <3> QED
      BY <3>1
  <2> QED
    BY <2>3, <2>4
<1> QED
  BY <1>1, <1>2 DEF Carried

\* A step that goes on with the two ends of an offer, or ends an ask.
Concerns(s, p) ==
    \/ s.step \in {"await", "record", "markHome", "notHeld"} /\ s.p = p
    \/ s.step \in {"cancel", "leave"} /\ p \in s.ps
Ending(s, e) == s.step = "close" /\ s.e = e
OthersAside(o) ==
    \A g \in Goroutines : \/ Now(g)' = Now(g)
                          \/ /\ ~Concerns(Now(g), o) /\ ~Concerns(Now(g)', o)
                             /\ \A e \in AskOf(o) : ~Ending(Now(g), e) /\ ~Ending(Now(g)', e)

\* An offer nobody goes on with keeps its two ends.
LEMMA EndsAside ==
    ASSUME NEW o \in Offers, EndsOf(o), OthersAside(o),
           offer'[o] = offer[o], o \in parted' <=> o \in parted, o >= nextOffer' => o >= nextOffer,
           \A e \in Asks : e \in AskOf(o)' <=> e \in AskOf(o),
           \A e \in AskOf(o) : ask'[e].user = ask[e].user /\ ask'[e].relayed = ask[e].relayed
    PROVE  EndsOf(o)'
<1>1. AskOf(o)' = AskOf(o)
  BY DEF AskOf
<1>2. /\ \A name \in {"await", "record", "markHome", "notHeld"} : At(name, o)' <=> At(name, o)
      /\ \A name \in {"cancel", "leave"} : Among(name, o)' <=> Among(name, o)
  <2>1. ASSUME NEW name \in {"await", "record", "markHome", "notHeld"} PROVE At(name, o)' <=> At(name, o)
    BY DEF OthersAside, Concerns, At
  <2>2. ASSUME NEW name \in {"cancel", "leave"} PROVE Among(name, o)' <=> Among(name, o)
    BY DEF OthersAside, Concerns, Among
  <2> QED
    BY <2>1, <2>2
<1>3. Mapped(o)' <=> Mapped(o)
  BY <1>1 DEF Mapped
<1>4. Sent(o)' <=> Sent(o)
  BY <1>1 DEF Sent
<1>5. Closing(o)' <=> Closing(o)
  <2>1. \A e \in AskOf(o) : Closes(e)' <=> Closes(e)
    BY DEF OthersAside, Ending, Closes
  <2> QED
    BY <1>1, <2>1 DEF Closing
<1>6. OneAwaits(o)'
  <2>1. OneAwaits(o)
    BY DEF EndsOf
  <2> QED
    BY <2>1 DEF OneAwaits, OthersAside, Concerns
<1>7. TheirOwn(o)'
  <2>1. TheirOwn(o)
    BY DEF EndsOf
  <2> QED
    BY <1>1, <2>1 DEF TheirOwn, OthersAside, Concerns
<1>8. EndsMeet(o) => EndsMeet(o)'
  BY <1>2, <1>3, <1>4, <1>5 DEF EndsMeet
<1> QED
  BY <1>2, <1>3, <1>6, <1>7, <1>8 DEF EndsOf

\* Goroutines that go on without an offer leave it aside.
LEMMA TurnsAside ==
    ASSUME NEW o \in Offers, NEW t \in Goroutines, NEW s, NEW h \in Goroutines, NEW r, Turns(t, s, h, r),
           ~Concerns(Now(t), o), ~Concerns(Now(h), o), ~Concerns(s, o), ~Concerns(r, o),
           \A e \in AskOf(o) : ~Ending(Now(t), e) /\ ~Ending(Now(h), e) /\ ~Ending(s, e) /\ ~Ending(r, e)
    PROVE  OthersAside(o)
<1>0. /\ \A g \in Goroutines : g \notin {t, h} => Now(g)' = Now(g) /\ Promotes(g)' = Promotes(g)
      /\ Now(t)' = s /\ Now(h)' = r
  BY AfterTurns
<1> QED
  BY <1>0 DEF OthersAside

\* The names of goroutines tell them apart, and what the tables hold has its types.
LEMMA GoroutineNames ==
    /\ \A u \in Viewers : /\ Socket(u) \in Goroutines /\ ~IsHandler(Socket(u)) /\ ~IsTeardown(Socket(u))
                          /\ <<"teardown", u>> \in Goroutines /\ ~IsHandler(<<"teardown", u>>)
                          /\ Socket(u) # <<"teardown", u>>
    /\ \A p \in Offers : /\ Delivery(p) \in Goroutines /\ ~IsHandler(Delivery(p)) /\ ~IsTeardown(Delivery(p))
                         /\ <<"handler", p>> \in Goroutines /\ IsHandler(<<"handler", p>>)
                         /\ ~IsTeardown(<<"handler", p>>)
    /\ <<"fanout", 0>> \in Goroutines /\ ~IsHandler(<<"fanout", 0>>) /\ ~IsTeardown(<<"fanout", 0>>)
    /\ \A u, v \in Viewers : Socket(u) = Socket(v) \/ <<"teardown", u>> = <<"teardown", v>> => u = v
    /\ \A p, q \in Offers : <<"handler", p>> = <<"handler", q>> => p = q
<1>1. \A u \in Viewers : /\ Socket(u) \in Goroutines /\ ~IsHandler(Socket(u)) /\ ~IsTeardown(Socket(u))
                         /\ <<"teardown", u>> \in Goroutines /\ ~IsHandler(<<"teardown", u>>)
                         /\ Socket(u) # <<"teardown", u>>
  BY DEF Goroutines, Socket, IsHandler, IsTeardown
<1>2. \A p \in Offers : /\ Delivery(p) \in Goroutines /\ ~IsHandler(Delivery(p)) /\ ~IsTeardown(Delivery(p))
                        /\ <<"handler", p>> \in Goroutines /\ IsHandler(<<"handler", p>>)
                        /\ ~IsTeardown(<<"handler", p>>)
  BY DEF Goroutines, Delivery, IsHandler, IsTeardown
<1>3. <<"fanout", 0>> \in Goroutines /\ ~IsHandler(<<"fanout", 0>>) /\ ~IsTeardown(<<"fanout", 0>>)
  BY DEF Goroutines, IsHandler, IsTeardown
<1>4. /\ \A u, v \in Viewers : Socket(u) = Socket(v) \/ <<"teardown", u>> = <<"teardown", v>> => u = v
      /\ \A p, q \in Offers : <<"handler", p>> = <<"handler", q>> => p = q
  BY DEF Socket
<1> QED
  BY <1>1, <1>2, <1>3, <1>4

\* The counters are numbers, a row without a user is empty, and an offer is
\* mapped to the ask it was registered for if to any.
LEMMA Counters ==
    ASSUME BorderInv
    PROVE  /\ nextAsk \in Nat /\ nextOffer \in Nat /\ Asks \subseteq Nat /\ Offers \subseteq Nat
           /\ \A e \in Asks : ask[e] \in AskRow /\ (~Asked(e) => ask[e] = NoAsk)
           /\ NoAsk.user = NoViewer /\ NoAsk.offer = 0 /\ NoAsk.relayed = FALSE /\ 0 \notin Offers
           /\ \A p \in Offers : AskOf(p) \subseteq {wrote[p]}
<1>1. nextAsk \in Nat /\ nextOffer \in Nat /\ Asks \subseteq Nat /\ Offers \subseteq Nat /\ 0 \notin Offers
  BY BorderAssumption DEF BorderInv, BorderTypeOK, Asks, Offers
<1>2. \A e \in Asks : ask[e] \in AskRow /\ (~Asked(e) => ask[e] = NoAsk)
  BY DEF BorderInv, BorderTypeOK, Asked
<1>3. NoAsk.user = NoViewer /\ NoAsk.offer = 0 /\ NoAsk.relayed = FALSE
  BY DEF NoAsk
<1>4. \A p \in Offers : AskOf(p) \subseteq {wrote[p]}
  BY <1>1 DEF BorderInv, AsksNamed, AskOf
<1> QED
  BY <1>1, <1>2, <1>3, <1>4

\* Only a handler that records is at work.
LEMMA NoHandler ==
    ASSUME BorderInv, RestParts, NEW t \in Goroutines, Now(t).step \notin {"idle", "record"}
    PROVE  ~IsHandler(t) /\ todo[t] # <<>>
<1>1. Now(t) # IdleStep
  BY DEF IdleStep
<1> QED
  BY <1>1, NowIs DEF RestParts, Handling

\* What no offer hears of: what crosses is what crossed, and nobody who goes on
\* does so with an offer.
Unheard == {"await", "record", "markHome", "notHeld", "cancel", "leave", "close"}
\* No offer hears of a step outside its own.
LEMMA QuietEnds ==
    ASSUME BothEnds, offer' = offer, parted' = parted, nextOffer' = nextOffer,
           \A e \in Asks : Crossing(e) \/ Crossing(e)' => ask'[e] = ask[e],
           NEW t \in Goroutines, NEW s, Turns(t, s, t, s),
           s = Now(t) \/ (s.step \notin Unheard /\ Now(t).step \notin Unheard)
    PROVE  BothEnds'
<1> SUFFICES ASSUME NEW o \in Offers PROVE EndsOf(o)'
  BY DEF BothEnds
<1>1. EndsOf(o)
  BY DEF BothEnds
<1>2. \A e \in Asks : e \in AskOf(o)' <=> e \in AskOf(o)
  BY DEF AskOf, Crossing, Asked
<1>3. \A e \in AskOf(o) : ask'[e] = ask[e]
  BY DEF AskOf
<1>4. OthersAside(o)
  <2>1. CASE s = Now(t)
    BY <2>1, AfterTurns DEF OthersAside
  <2>2. CASE s.step \notin Unheard /\ Now(t).step \notin Unheard
    BY <2>2, TurnsAside DEF Unheard, Concerns, Ending
  <2> QED
    BY <2>1, <2>2
<1> QED
  BY <1>1, <1>2, <1>3, <1>4, EndsAside

\* A step that changes no table of events.
LEMMA QuietTurn ==
    ASSUME BorderInv, RestParts,
           ask' = ask, offer' = offer, parted' = parted, nextAsk' = nextAsk, nextOffer' = nextOffer,
           dropped' = dropped, present \subseteq present', copies \subseteq copies',
           NEW t \in Goroutines, NEW s, Turns(t, s, t, s), ~IsHandler(t), IsTeardown(t) => todo[t] # <<>>,
           PlainQueue(todo'[t]) \/ \E e \in Asks : Acking(t, e)',
           s.step \notin Unheard /\ Now(t).step \notin Unheard,
           s.step \in Opening => s.e < nextAsk,
           \A p \in Offers : Names(s, p) => p < nextOffer,
           Carried' \/ ((Carrying(t) => Carrying(t)') /\ \A e \in Waiting : Owns(t, e) => Owns(t, e)')
    PROVE  RestParts'
<1>1. \A e \in Asks : KeptOrGone(e)
  BY Counters DEF KeptOrGone
<1>2. Shaped' /\ Minted'
  <2>1. nextAsk \in Nat /\ nextAsk' \in Nat /\ nextAsk <= nextAsk' /\ SameReaders /\ Shaped /\ Minted
    BY <1>1, Counters, ReadersSame DEF RestParts
  <2>2. Shaped'
    BY <2>1, ShapedKept
  <2>3. Minted'
    BY <1>1, <2>1, MintedKept
  <2> QED
    BY <2>2, <2>3
<1>3. Handling' /\ Leaving'
  BY HandlingKept DEF RestParts, Unheard
<1>4. BothEnds'
  BY QuietEnds DEF RestParts
<1>5. /\ LocalHolder => LocalHolder'
      /\ Crossings' = Crossings /\ Waiting' = Waiting
      /\ \A e \in Asks : Crossing(e)' <=> Crossing(e)
  BY DEF LocalHolder, Crossings, Waiting, Crossing, Asked
<1>6. Carried'
  BY <1>5, CarriedKept DEF RestParts
<1>7. Served'
  BY <1>5 DEF RestParts, Served
<1> QED
  BY <1>2, <1>3, <1>4, <1>6, <1>7 DEF RestParts

SameTables == UNCHANGED <<ask, offer, parted, nextAsk, nextOffer, dropped, present, copies>>

\* Who rests carries and opens nothing.
LEMMA IdleThere ==
    ASSUME BorderInv, Shaped, NEW t \in Goroutines, todo[t] = <<>>
    PROVE  Now(t).step = "idle" /\ ~Carrying(t) /\ \A e : ~Owns(t, e)
<1>1. Now(t) = IdleStep /\ ~Promotes(t)
  BY NowIs
<1> QED
  BY <1>1 DEF IdleStep, Carrying, Owns, Opening

\* A goroutine that rests starts to open an ask or to deliver a copy.
LEMMA QuietStart ==
    ASSUME BorderInv, RestParts, SameTables, NEW t \in Goroutines, todo[t] = <<>>,
           ~IsHandler(t), ~IsTeardown(t),
           NEW s \in Step, s.step \in {"open", "deliver"}, s.step = "deliver" => s.p < nextOffer,
           todo' = [todo EXCEPT ![t] = <<s>>]
    PROVE  RestParts'
<1>1. s.step \notin AckKinds /\ s.step \notin Opening /\ s.step \notin Unheard
  BY DEF AckKinds, Opening, Unheard
<1>2. Shaped /\ Now(t).step \notin Unheard /\ ~Carrying(t) /\ \A e : ~Owns(t, e)
  BY IdleThere DEF RestParts, Unheard
<1>3. Turns(t, s, t, s) /\ PlainQueue(todo'[t])
  BY <1>1, <1>2, Starts DEF Moves, Advances
<1>4. \A p \in Offers : Names(s, p) => p < nextOffer
  BY DEF Names
<1>5. /\ ask' = ask /\ offer' = offer /\ parted' = parted /\ nextAsk' = nextAsk /\ nextOffer' = nextOffer
      /\ dropped' = dropped /\ present \subseteq present' /\ copies \subseteq copies'
  BY DEF SameTables
<1> QED
  BY <1>1, <1>2, <1>3, <1>4, <1>5, QuietTurn

\* A goroutine is done with a step that concerns no offer.
LEMMA QuietGo ==
    ASSUME BorderInv, RestParts, SameTables, NEW t \in Goroutines, todo[t] # <<>>,
           Now(t).step \notin AckKinds, Now(t).step \notin Unheard, Then(t, <<>>),
           Carried' \/ (Now(t).step # "promote" /\ Now(t).step \notin Opening)
    PROVE  RestParts'
<1>1. PICK s \in {IdleStep, PromoteStep} : Moves(t, s)
  BY GoesOn DEF RestParts
<1>2. s.step \in {"idle", "promote"}
  BY DEF IdleStep, PromoteStep
<1>3. s.step \notin Opening /\ s.step \notin Unheard /\ \A p \in Offers : ~Names(s, p)
  BY <1>2 DEF Opening, Unheard, Names
<1>4. /\ Turns(t, s, t, s) /\ PlainQueue(todo'[t])
      /\ Promotes(t) /\ Now(t).step # "promote" => Promotes(t)'
  BY <1>1 DEF Moves, Advances, Promotes
<1>5. Carried' \/ ((Carrying(t) => Carrying(t)') /\ \A e \in Waiting : Owns(t, e) => Owns(t, e)')
  BY <1>4 DEF Carrying, Owns, Opening
<1>6. ~IsHandler(t)
  BY NowIs, NoHandler DEF RestParts, IdleStep, Unheard
<1>7. /\ ask' = ask /\ offer' = offer /\ parted' = parted /\ nextAsk' = nextAsk /\ nextOffer' = nextOffer
      /\ dropped' = dropped /\ present \subseteq present' /\ copies \subseteq copies'
  BY DEF SameTables
<1> QED
  BY <1>3, <1>4, <1>5, <1>6, <1>7, QuietTurn

\* REQUEST_REED, the fanout and a holder's answer: they start a goroutine.
LEMMA AskRest ==
    ASSUME BorderInv, RestParts, NEW u \in Viewers, Ask(u) \/ Fan(u)
    PROVE  RestParts'
<1>1. PICK t \in Goroutines, s \in Step : /\ s.step = "open" /\ todo[t] = <<>>
                                          /\ ~IsHandler(t) /\ ~IsTeardown(t)
                                          /\ todo' = [todo EXCEPT ![t] = <<s>>]
  <2>1. CASE Ask(u)
    BY <2>1, GoroutineNames, StepsMade DEF Ask, BorderIdle, AskNames
  <2>2. CASE Fan(u)
    BY <2>2, GoroutineNames, StepsMade DEF Fan, BorderIdle, AskNames
  <2> QED
    BY <2>1, <2>2
<1>2. SameTables
  BY DEF Ask, Fan, SameTables, askVars, homeVars, history
<1> QED
  BY <1>1, <1>2, QuietStart

\* A holder's answer starts the delivery of an event that is there.
LEMMA HomeAnswersRest ==
    ASSUME BorderInv, RestParts, NEW p \in Offers, HomeAnswers(p)
    PROVE  RestParts'
<1>1. PICK s \in Step : s = [step |-> "deliver", p |-> p] /\ s.step = "deliver" /\ s.p = p
  BY StepsMade
<1>2. p < nextOffer
  BY Counters DEF HomeAnswers, RestParts, BothEnds, EndsOf
<1>3. SameTables /\ todo[Delivery(p)] = <<>> /\ todo' = [todo EXCEPT ![Delivery(p)] = <<s>>]
  BY <1>1 DEF HomeAnswers, SameTables, askVars, homeVars, history, BorderIdle
<1> QED
  BY <1>1, <1>2, <1>3, GoroutineNames, QuietStart

\* The fold and a turn of a promotion: there is a crossing or a holder to wait
\* for, nobody waits, or somebody opens.
LEMMA FoldsRest ==
    ASSUME BorderInv, RestParts, NEW t \in Goroutines, Fold(t) \/ Promote(t)
    PROVE  RestParts'
<1>1. /\ Now(t).step \in {"fold", "promote"} /\ todo[t] # <<>> /\ Now(t) = Arg(t) /\ Now(t) \in Step
      /\ Fold(t) => Now(t).step = "fold"
      /\ Promote(t) => Now(t).step = "promote"
  BY NowIs DEF Fold, Promote, Doing, RestParts
<1>2. SameTables
  BY DEF Fold, Promote, SameTables, askVars, homeVars
<1>3. Now(t).step \notin AckKinds /\ Now(t).step \notin Unheard
  BY <1>1 DEF AckKinds, Unheard
<1>4. ASSUME LocalHolder \/ Full \/ (Promote(t) /\ Waiting = {}), Then(t, <<>>) PROVE RestParts'
  <2>1. LocalHolder \/ Crossings # {} \/ Waiting = {}
    <3>1. Crossings = {} => Cardinality(Crossings) = 0
      BY FS_EmptySet
    <3> QED
      BY <1>4, <3>1, BorderAssumption DEF Full
  <2>2. Carried'
    <3>1. LocalHolder' = LocalHolder /\ Crossings' = Crossings /\ Waiting' = Waiting
      BY <1>2 DEF SameTables, LocalHolder, Crossings, Waiting, Crossing, Asked
    <3> QED
      BY <2>1, <3>1 DEF Carried
  <2> QED
    BY <1>1, <1>2, <1>3, <1>4, <2>2, QuietGo
<1>5. ASSUME NEW e \in Asks, e < nextAsk, NEW b \in BOOLEAN,
             Then(t, <<[step |-> "register", e |-> e, promoting |-> b]>>),
             \/ Now(t).step = "promote" /\ b
             \/ Now(t).step = "fold" /\ Now(t).e = e
      PROVE  RestParts'
  <2>1. PICK s \in Step : /\ s = [step |-> "register", e |-> e, promoting |-> b]
                          /\ s.step = "register" /\ s.e = e /\ s.promoting = b
    BY StepsMade
  <2>2. Turns(t, s, t, s) /\ PlainQueue(todo'[t]) /\ (Promotes(t) /\ Now(t).step # "promote" => Promotes(t)')
    <3>1. s.step \notin AckKinds
      BY <2>1 DEF AckKinds
    <3>2. Moves(t, s)
      BY <1>1, <1>3, <1>5, <2>1, <3>1, GoesOnTo DEF RestParts
    <3> QED
      BY <3>2 DEF Moves, Advances, Promotes
  <2>3. s.step \notin Unheard /\ \A p \in Offers : ~Names(s, p)
    BY <2>1 DEF Unheard, Names
  <2>4. (Carrying(t) => Carrying(t)') /\ \A f \in Waiting : Owns(t, f) => Owns(t, f)'
    <3>1. Now(t)' = s
      BY <2>2, AfterTurns
    <3>2. \A f \in Waiting : Owns(t, f) => Owns(t, f)'
      BY <1>1, <1>5, <2>1, <3>1 DEF Owns, Opening
    <3>3. CASE b = TRUE
      BY <2>1, <3>1, <3>2, <3>3 DEF Carrying
    <3>4. CASE b = FALSE
      BY <1>1, <1>5, <2>2, <3>2, <3>4 DEF Carrying
    <3> QED
      BY <3>3, <3>4
  <2>5. ~IsHandler(t)
    BY <1>1, NoHandler
  <2>6. /\ ask' = ask /\ offer' = offer /\ parted' = parted /\ nextAsk' = nextAsk /\ nextOffer' = nextOffer
        /\ dropped' = dropped /\ present \subseteq present' /\ copies \subseteq copies'
    BY <1>2 DEF SameTables
  <2> QED
    BY <1>1, <1>3, <1>5, <2>1, <2>2, <2>3, <2>4, <2>5, <2>6, QuietTurn
<1>6. CASE Fold(t)
  <2>1. Now(t).e \in Asks /\ Now(t).e < nextAsk
    BY <1>1, <1>6, StepShapes DEF RestParts, Minted, Opening
  <2> QED
    BY <1>1, <1>4, <1>5, <1>6, <2>1 DEF Fold
<1>7. CASE Promote(t)
  <2>1. \A e \in OldestWaiting : e \in Asks /\ e < nextAsk
    <3>1. \A e \in Asks : Asked(e) => e < nextAsk
      BY Counters DEF RestParts, Minted, Asked
    <3> QED
      BY <3>1 DEF OldestWaiting, Waiting
  <2> QED
    BY <1>1, <1>4, <1>5, <1>7, <2>1 DEF Promote
<1> QED
  BY <1>6, <1>7

\* createPendingReedEvent: the event it makes is its own to open.
LEMMA OpenEventRest ==
    ASSUME BorderInv, RestParts, NEW t \in Goroutines, OpenEvent(t)
    PROVE  RestParts'
<1>1. /\ Now(t).step = "open" /\ todo[t] # <<>> /\ Now(t) = Arg(t) /\ Now(t) \in Step
      /\ Now(t).step \notin AckKinds /\ Now(t).step \notin Unheard
  BY NowIs DEF OpenEvent, Doing, RestParts, AckKinds, Unheard
<1>2. CASE Arg(t).u \notin present
  <2>1. Then(t, <<>>) /\ SameTables
    BY <1>2 DEF OpenEvent, SameTables, homeVars, history
  <2> QED
    BY <1>1, <2>1, QuietGo DEF Opening
<1>3. CASE Arg(t).u \in present
  <2>0. PICK row : row = [user |-> Arg(t).u, name |-> Arg(t).name, offer |-> 0, relayed |-> FALSE]
    OBVIOUS
  <2>1. PICK e \in Asks : /\ e = nextAsk /\ nextAsk' = e + 1
                          /\ ask' = [ask EXCEPT ![e] = row]
                          /\ Then(t, <<[step |-> "fold", e |-> e, promoting |-> FALSE]>>)
    BY <1>3, <2>0 DEF OpenEvent
  <2>2. /\ present' = present /\ copies' = copies /\ offer' = offer /\ parted' = parted
        /\ nextOffer' = nextOffer /\ dropped' = dropped
    BY DEF OpenEvent, homeVars, history
  <2>3. ask'[e] = row /\ \A f \in Asks \ {e} : ask'[f] = ask[f]
    BY <2>1 DEF BorderInv, BorderTypeOK
  <2>4. ask[e] = NoAsk /\ ~Crossing(e) /\ e \notin Crossings
    BY <2>1, Counters DEF RestParts, Minted, Crossing, Crossings
  <2>5. row.user = Arg(t).u /\ row.offer = 0 /\ row.relayed = FALSE /\ ~Crossing(e)'
    BY <2>0, <2>3 DEF Crossing
  <2>6. PICK s \in Step : /\ s = [step |-> "fold", e |-> e, promoting |-> FALSE]
                          /\ s.step = "fold" /\ s.e = e /\ s.step \notin AckKinds /\ s.step \notin Unheard
    BY StepsMade DEF AckKinds, Unheard
  <2>7. Turns(t, s, t, s) /\ PlainQueue(todo'[t]) /\ (Promotes(t) => Promotes(t)') /\ Now(t)' = s
    <3>1. Moves(t, s)
      BY <1>1, <2>1, <2>6, GoesOnTo DEF RestParts
    <3> QED
      BY <1>1, <3>1, AfterTurns DEF Moves, Advances, Promotes
  <2>8. ~IsHandler(t)
    BY <1>1, NoHandler
  <2>9. nextAsk \in Nat /\ nextAsk' \in Nat /\ nextAsk <= nextAsk' /\ Asks \subseteq Nat
    BY <2>1, Counters
  <2>10. Shaped'
    <3>1. SameReaders
      BY <2>1, <2>3, <2>9 DEF SameReaders, Asked
    <3> QED
      BY <2>2, <2>7, <2>9, <3>1, ShapedKept DEF RestParts
  <2>11. Handling' /\ Leaving'
    BY <1>1, <2>6, <2>7, <2>8, HandlingKept DEF RestParts
  <2>12. Minted'
    <3>1. \A f \in Asks : f >= nextAsk' => ask'[f] = NoAsk
      <4>1. \A f \in Asks : f >= nextAsk' => f # e /\ f >= nextAsk
        BY <2>1, <2>9
      <4> QED
        BY <2>3, <4>1 DEF RestParts, Minted
    <3>2. \A f \in Asks : Asked(f)' => ask'[f].user \in present'
      BY <1>3, <2>2, <2>3, <2>5 DEF RestParts, Minted, Asked
    <3>3. \A g \in Goroutines : Now(g)'.step \in Opening => Now(g)'.e < nextAsk'
      <4>1. SUFFICES ASSUME NEW g \in Goroutines, Now(g)'.step \in Opening PROVE Now(g)'.e < nextAsk'
        OBVIOUS
      <4>2. CASE g = t
        BY <2>1, <2>6, <2>7, <2>9, <4>2
      <4>3. CASE g # t
        <5>1. Now(g)' = Now(g)
          BY <2>7, <4>3, AfterTurns
        <5>3. Now(g) \in Step
          <6>1. Now(g) # IdleStep
            BY <4>1, <5>1 DEF Opening, IdleStep
          <6> QED
            BY <6>1, NowIs DEF RestParts
        <5>2. PICK f \in Asks : f = Now(g).e /\ f < nextAsk
          BY <4>1, <5>1, <5>3, StepShapes DEF RestParts, Minted, Opening
        <5>4. f < nextAsk'
          BY <2>9, <5>2
        <5> QED
          BY <5>1, <5>2, <5>4
      <4> QED
        BY <4>2, <4>3
    <3>4. \A g \in Goroutines, p \in Offers : Names(Now(g)', p) => p < nextOffer'
      <4>1. \A g \in Goroutines : g # t => Now(g)' = Now(g)
        BY <2>7, AfterTurns
      <4>2. \A p \in Offers : ~Names(s, p)
        BY <2>6 DEF Names
      <4>3. SUFFICES ASSUME NEW g \in Goroutines, NEW p \in Offers, Names(Now(g)', p)
                     PROVE  p < nextOffer'
        OBVIOUS
      <4>4. g # t /\ Now(g)' = Now(g)
        BY <2>7, <4>1, <4>2, <4>3
      <4> QED
        BY <2>2, <4>3, <4>4 DEF RestParts, Minted
    <3> QED
      BY <3>1, <3>2, <3>3, <3>4 DEF Minted
  <2>13. BothEnds'
    <3>1. \A f \in Asks : Crossing(f) \/ Crossing(f)' => ask'[f] = ask[f]
      BY <2>3, <2>4, <2>5
    <3> QED
      BY <1>1, <2>2, <2>6, <2>7, <3>1, QuietEnds DEF RestParts
  <2>14. /\ \A f \in Asks : f # e => (Crossing(f)' <=> Crossing(f))
         /\ \A f \in Asks : f # e => (f \in Crossings' <=> f \in Crossings)
         /\ \A f \in Asks : f # e => (f \in Waiting' <=> f \in Waiting)
    BY <2>3, RowsAside
  <2>15. LocalHolder' = LocalHolder
    BY <2>2 DEF LocalHolder
  <2>16. Carried'
    <3>1. \A f \in Waiting' : f \in Waiting \/ \E g \in Goroutines : Owns(g, f)'
      <4>1. Owns(t, e)'
        BY <2>6, <2>7 DEF Owns, Opening
      <4>2. Waiting' \subseteq Asks
        BY DEF Waiting
      <4> QED
        BY <2>14, <4>1, <4>2
    <3>2. Crossings # {} => Crossings' # {}
      <4>1. Crossings \subseteq Asks
        BY DEF Crossings
      <4> QED
        BY <2>4, <2>14, <4>1
    <3>3. (Carrying(t) => Carrying(t)') /\ \A f : ~Owns(t, f)
      BY <1>1, <2>7 DEF Carrying, Owns, Opening
    <3> QED
      BY <2>2, <2>7, <2>15, <3>1, <3>2, <3>3, CarriedKept DEF RestParts
  <2>17. Served'
    BY <2>2, <2>3, <2>5, <2>14, <2>15 DEF RestParts, Served
  <2> QED
    BY <2>10, <2>11, <2>12, <2>13, <2>16, <2>17 DEF RestParts
<1> QED
  BY <1>2, <1>3

\* What comes and goes without a goroutine: a holder at home, a reader who is back.
LEMMA TableSteady ==
    ASSUME BorderInv, RestParts,
           ask' = ask, offer' = offer, parted' = parted, nextAsk' = nextAsk, nextOffer' = nextOffer,
           dropped' = dropped, present \subseteq present', copies' = copies, todo' = todo
    PROVE  RestParts'
<1>1. PICK t \in Goroutines : t = <<"fanout", 0>> /\ ~IsHandler(t) /\ ~IsTeardown(t)
  BY GoroutineNames
<1>2. PICK s : s = Now(t)
  OBVIOUS
<1>3. Turns(t, s, t, s) /\ Now(t)' = s
  BY <1>2 DEF Turns, Now
<1>4. LocalHolder => LocalHolder'
  BY DEF LocalHolder
<1>5. /\ Crossings' = Crossings /\ Waiting' = Waiting
      /\ \A e \in Asks : (Crossing(e)' <=> Crossing(e)) /\ (Asked(e)' <=> Asked(e))
  BY DEF Crossings, Waiting, Crossing, Asked
<1>6. Shaped'
  BY <1>5 DEF RestParts, Shaped, Acking
<1>7. Handling' /\ Leaving'
  BY DEF RestParts, Handling, Leaving, Now, Promotes
<1>8. Minted'
  BY <1>5 DEF RestParts, Minted, Now
<1>9. BothEnds'
  BY <1>2, <1>3, QuietEnds DEF RestParts
<1>10. Carried'
  BY <1>4, <1>5 DEF RestParts, Carried, Carrying, Owns, Now, Promotes
<1>11. Served'
  BY <1>4, <1>5 DEF RestParts, Served
<1> QED
  BY <1>6, <1>7, <1>8, <1>9, <1>10, <1>11 DEF RestParts

\* The home server's holders come and go, and so do readers.
LEMMA MovesRest ==
    ASSUME BorderInv, RestParts, HomeMove \/ \E u \in Viewers : Reconnect(u)
    PROVE  RestParts'
BY TableSteady DEF HomeMove, Reconnect, askVars, homeVars, history

\* A step that moves one goroutine, and lets asks end or go on.
LEMMA KindsTurn ==
    ASSUME BorderInv, RestParts, nextAsk' = nextAsk, nextOffer' = nextOffer,
           present \subseteq present', copies \subseteq copies', \A e \in Asks : KeptOrGone(e),
           NEW t \in Goroutines, NEW s, Turns(t, s, t, s),
           IsHandler(t) => todo'[t] = <<>>, IsTeardown(t) => todo[t] # <<>>,
           PlainQueue(todo'[t]) \/ \E e \in Asks : Acking(t, e)',
           s.step \notin {"record", "leave"}, s.step \in Opening => s.e < nextAsk,
           \A p \in Offers : Names(s, p) => p < nextOffer
    PROVE  Shaped' /\ Handling' /\ Leaving' /\ Minted'
<1>1. nextAsk \in Nat /\ nextAsk' \in Nat /\ nextAsk <= nextAsk' /\ SameReaders /\ Shaped /\ Minted
  BY Counters, ReadersSame DEF RestParts
<1>2. Shaped'
  BY <1>1, ShapedKept
<1>3. Minted'
  BY <1>1, MintedKept
<1>4. Handling' /\ Leaving'
  BY HandlingKept DEF RestParts
<1> QED
  BY <1>2, <1>3, <1>4

\* Rows end or go on while no goroutine does.
LEMMA KindsSteady ==
    ASSUME BorderInv, RestParts, nextAsk' = nextAsk, nextOffer' = nextOffer,
           present \subseteq present', copies \subseteq copies', \A e \in Asks : KeptOrGone(e), todo' = todo
    PROVE  Shaped' /\ Handling' /\ Leaving' /\ Minted'
<1>1. Handling' /\ Leaving'
  BY DEF RestParts, Handling, Leaving, Now, Promotes
<1>2. Shaped'
  <2>1. SameReaders
    BY ReadersSame
  <2>2. ASSUME NEW t \in Goroutines, NEW e \in Asks, Acking(t, e) PROVE Acking(t, e)'
    BY <2>1, <2>2 DEF Acking, SameReaders
  <2> QED
    BY <2>2 DEF RestParts, Shaped
<1>3. Minted'
  <2>1. \A e \in Asks : e >= nextAsk' => ask'[e] = NoAsk
    <3>1. \A e \in Asks : ask[e] = NoAsk => ~Asked(e)
      BY DEF Asked, NoAsk
    <3> QED
      BY <3>1 DEF RestParts, Minted, KeptOrGone
  <2>2. \A e \in Asks : Asked(e)' => ask'[e].user \in present'
    BY DEF RestParts, Minted, KeptOrGone, Asked, NoAsk
  <2> QED
    BY <2>1, <2>2 DEF RestParts, Minted, Now
<1> QED
  BY <1>1, <1>2, <1>3

\* An ask ends, and its mapping with it.
LEMMA RowEnds ==
    ASSUME BorderInv, NEW e \in Asks, ask' = [ask EXCEPT ![e] = NoAsk]
    PROVE  /\ ask'[e] = NoAsk /\ \A f \in Asks : f # e => ask'[f] = ask[f]
           /\ \A f \in Asks : KeptOrGone(f)
           /\ Crossings' = Crossings \ {e} /\ Waiting' = Waiting \ {e}
           /\ \A f \in Asks : Crossing(f)' <=> f # e /\ Crossing(f)
           /\ \A o \in Offers : AskOf(o)' = AskOf(o) \ {e}
           /\ \A o \in Offers : e \in AskOf(o) => ~Mapped(o)' /\ o \in OfferOf(e)
           /\ \A o \in OfferOf(e) : e \in AskOf(o) /\ o \in Offers /\ o < nextOffer
<1>1. ask'[e] = NoAsk /\ \A f \in Asks : f # e => ask'[f] = ask[f]
  BY DEF BorderInv, BorderTypeOK
<1>2. /\ NoAsk.user = NoViewer /\ 0 \notin Offers /\ \A f \in Asks : ask[f] \in AskRow /\ (~Asked(f) => ask[f] = NoAsk)
      /\ \A p \in Offers : AskOf(p) \subseteq {wrote[p]}
      /\ NoAsk.offer = 0
  BY Counters
<1>3. /\ ~Asked(e)' /\ ~Crossing(e)'
      /\ \A f \in Asks : f # e => (Asked(f)' <=> Asked(f)) /\ (Crossing(f)' <=> Crossing(f))
  BY <1>1, <1>2 DEF Asked, Crossing
<1>4. \A f \in Asks : KeptOrGone(f)
  BY <1>1, <1>2 DEF KeptOrGone
<1>5. Crossings' = Crossings \ {e} /\ Waiting' = Waiting \ {e}
  BY <1>1, <1>3 DEF Crossings, Waiting
<1>6. \A o \in Offers : AskOf(o)' = AskOf(o) \ {e}
  BY <1>1, <1>3 DEF AskOf
<1>7. \A o \in Offers : e \in AskOf(o) => ~Mapped(o)' /\ o \in OfferOf(e)
  BY <1>2, <1>6 DEF Mapped, AskOf, OfferOf
<1>8. \A o \in OfferOf(e) : e \in AskOf(o) /\ o \in Offers /\ o < nextOffer
  BY <1>2 DEF OfferOf, AskOf, Crossing, BorderInv, AsksNamed, AskRow
<1> QED
  BY <1>1, <1>3, <1>4, <1>5, <1>6, <1>7, <1>8

\* Of an offer whose ends a listed race left different, little has to hold.
LEMMA EndsParted ==
    ASSUME NEW o \in Offers, EndsOf(o), o < nextOffer', nextOffer' \in Nat, o \in Nat,
           o \in parted', offer'[o] = offer[o],
           \A e \in AskOf(o)' : e \in AskOf(o) /\ ask'[e].user = ask[e].user,
           NEW t \in Goroutines, NEW s, NEW h \in Goroutines, NEW r, Turns(t, s, h, r),
           ~Concerns(s, o) \/ s.step = "markHome" \/ (s.step = "cancel" /\ Among("cancel", o)),
           ~Concerns(r, o) \/ r.step = "markHome" \/ (r.step = "cancel" /\ Among("cancel", o))
    PROVE  EndsOf(o)'
<1>1. /\ \A g \in Goroutines : g \notin {t, h} => Now(g)' = Now(g)
      /\ Now(t)' = s /\ Now(h)' = r
  BY DEF Turns, Now
<1>2. \A name \in {"await", "record", "notHeld"} : At(name, o)' => At(name, o)
  BY <1>1 DEF At, Concerns
<1>3. \A name \in {"cancel", "leave"} : Among(name, o)' => Among(name, o)
  BY <1>1 DEF Among, Concerns
<1>4. Mapped(o)' => Mapped(o)
  BY DEF Mapped
<1>5. OneAwaits(o)'
  <2>1. OneAwaits(o)
    BY DEF EndsOf
  <2> QED
    BY <1>1, <2>1 DEF OneAwaits, Concerns
<1>6. TheirOwn(o)'
  <2>1. TheirOwn(o)
    BY DEF EndsOf
  <2> QED
    BY <1>1, <2>1 DEF TheirOwn, Concerns
<1>7. ~(o >= nextOffer')
  OBVIOUS
<1> QED
  BY <1>2, <1>3, <1>4, <1>5, <1>6, <1>7 DEF EndsOf

\* A local holder serves one who waits.
LEMMA ServeRest ==
    ASSUME BorderInv, RestParts, NEW e \in Asks, Serve(e)
    PROVE  RestParts'
<1>1. /\ e \in Waiting /\ LocalHolder /\ TakesCopy(e) /\ todo' = todo
      /\ present' = present /\ copies' = copies /\ offer' = offer /\ parted' = parted
      /\ nextAsk' = nextAsk /\ nextOffer' = nextOffer /\ dropped' = dropped
  BY DEF Serve, homeVars, history
<1>2. PICK row : /\ row = (IF ask[e].name = "data" THEN [ask[e] EXCEPT !.relayed = TRUE] ELSE NoAsk)
                 /\ ask' = [ask EXCEPT ![e] = row]
  BY <1>1 DEF TakesCopy
<1>3. Asked(e) /\ ask[e].offer = 0 /\ ask[e] \in AskRow
  BY <1>1, Counters DEF Waiting, Crossing
<1>4. row = NoAsk \/ (row.user = ask[e].user /\ row.offer = 0)
  BY <1>2, <1>3 DEF AskRow
<1>5. ask'[e] = row /\ \A f \in Asks \ {e} : ask'[f] = ask[f]
  BY <1>2 DEF BorderInv, BorderTypeOK
<1>6. ~Crossing(e) /\ ~Crossing(e)' /\ \A f \in Asks : f # e => (Crossing(f)' <=> Crossing(f))
  <2>1. row.offer = 0
    BY <1>4, Counters
  <2> QED
    BY <1>3, <1>5, <2>1, RowsAside DEF Crossing
<1>7. \A f \in Asks : KeptOrGone(f)
  BY <1>3, <1>4, <1>5, Counters DEF KeptOrGone
<1>8. Shaped' /\ Handling' /\ Leaving' /\ Minted'
  BY <1>1, <1>7, KindsSteady
<1>9. LocalHolder'
  BY <1>1 DEF LocalHolder
<1>10. BothEnds'
  <2>1. PICK t \in Goroutines : t = <<"fanout", 0>>
    BY GoroutineNames
  <2>2. PICK s : s = Now(t)
    OBVIOUS
  <2>3. Turns(t, s, t, s)
    BY <1>1, <2>2 DEF Turns, Now
  <2>4. \A f \in Asks : Crossing(f) \/ Crossing(f)' => ask'[f] = ask[f]
    BY <1>5, <1>6
  <2> QED
    BY <1>1, <2>2, <2>3, <2>4, QuietEnds DEF RestParts
<1> QED
  BY <1>8, <1>9, <1>10 DEF RestParts, Carried, Served

\* Who carries what waits, as long as nobody stops carrying.
LEMMA CarrySame ==
    ASSUME RestParts, ask' = ask, dropped' = dropped, present \subseteq present', copies \subseteq copies',
           NEW t \in Goroutines, NEW s, Turns(t, s, t, s),
           Carrying(t) => Carrying(t)', \A e : ~Owns(t, e)
    PROVE  Carried' /\ Served'
<1>1. /\ LocalHolder => LocalHolder'
      /\ Crossings' = Crossings /\ Waiting' = Waiting
      /\ \A e \in Asks : Crossing(e)' <=> Crossing(e)
  BY DEF LocalHolder, Crossings, Waiting, Crossing, Asked
<1>2. Carried'
  BY <1>1, CarriedKept DEF RestParts
<1>3. Served'
  BY <1>1 DEF RestParts, Served
<1> QED
  BY <1>2, <1>3

\* DATA_ACK, one step after the other.
LEMMA AckGoesOn ==
    ASSUME BorderInv, Shaped, NEW t \in Goroutines, Now(t).step \in AckKinds, Then(t, <<>>)
    PROVE  /\ ~Carrying(t) /\ (\A e : ~Owns(t, e)) /\ todo[t] # <<>>
           /\ \E e \in Asks : /\ Acking(t, e)
                              /\ Now(t).step = "holderNotify" =>
                                    Turns(t, AckStep(e), t, AckStep(e)) /\ todo'[t] \in AckQueues(e)
                              /\ Now(t).step = "ackPeer" =>
                                    /\ Now(t) = AckStep(e)
                                    /\ Turns(t, CloseStep(e), t, CloseStep(e)) /\ todo'[t] \in AckQueues(e)
                              /\ Now(t).step = "close" =>
                                    /\ Now(t) = CloseStep(e)
                                    /\ Turns(t, IdleStep, t, IdleStep) /\ PlainQueue(todo'[t])
<1>1. PICK e \in Asks : Acking(t, e)
  BY NowIs
<1>2. PICK q \in Seq(Step) : q = todo[t] /\ q \in AckQueues(e) /\ Now(t) = FirstOf(q) /\ q # <<>>
  BY <1>1, AckQueueSteps DEF Acking, Now
<1>3. ~Promotes(t)
  BY <1>2, AckQueueSteps DEF Promotes
<1>4. PICK rest \in Seq(Step) : rest = Tail(q) /\ <<>> \o rest = rest
  <2>1. Tail(q) \in Seq(Step)
    BY <1>2
  <2> QED
    BY <2>1, ConcatEmptySeq
<1>5. todo' = [todo EXCEPT ![t] = rest]
  BY <1>2, <1>4 DEF Then
<1>6. todo'[t] = rest /\ \A g \in Goroutines \ {t} : todo'[g] = todo[g]
  BY <1>5 DEF BorderInv, BorderTypeOK
<1>7. \A s : FirstOf(rest) = s => Turns(t, s, t, s)
  BY <1>6 DEF Turns
<1>8. /\ Now(t).step = "holderNotify" => rest \in AckQueues(e) /\ FirstOf(rest) = AckStep(e)
      /\ Now(t).step = "ackPeer" =>
            Now(t) = AckStep(e) /\ rest \in AckQueues(e) /\ FirstOf(rest) = CloseStep(e)
      /\ Now(t).step = "close" => Now(t) = CloseStep(e) /\ FirstOf(rest) = IdleStep /\ PlainQueue(rest)
  BY <1>2, <1>4, AckQueueSteps, NothingLeft
<1>9. ~Carrying(t) /\ \A f : ~Owns(t, f)
  BY <1>3 DEF Carrying, Owns, AckKinds, Opening
<1> QED
  BY <1>1, <1>2, <1>6, <1>7, <1>8, <1>9

\* The home server is told of the new holder, and its ack is next.
LEMMA HolderNotifyRest ==
    ASSUME BorderInv, RestParts, NEW t \in Goroutines, HolderNotify(t)
    PROVE  RestParts'
<1>1. Now(t).step = "holderNotify" /\ Now(t).step \in AckKinds /\ Then(t, <<>>) /\ SameTables
  BY NowIs DEF HolderNotify, RestParts, AckKinds, SameTables, askVars, history
<1>2. PICK e \in Asks : Acking(t, e) /\ Turns(t, AckStep(e), t, AckStep(e)) /\ todo'[t] \in AckQueues(e)
  BY <1>1, AckGoesOn DEF RestParts
<1>3. PICK s : s = AckStep(e) /\ s.step = "ackPeer"
  <2>1. AckStep(e).step = "ackPeer"
    BY DEF AckStep
  <2> QED
    BY <2>1
<1>4. Acking(t, e)'
  BY <1>1, <1>2 DEF Acking, SameTables, Asked
<1>5. s.step \notin Unheard /\ Now(t).step \notin Unheard /\ s.step \notin Opening /\ \A p \in Offers : ~Names(s, p)
  BY <1>1, <1>3 DEF Unheard, Opening, Names
<1>6. ~IsHandler(t) /\ todo[t] # <<>> /\ ~Carrying(t) /\ \A f : ~Owns(t, f)
  BY <1>1, NoHandler, AckGoesOn DEF RestParts
<1>7. /\ ask' = ask /\ offer' = offer /\ parted' = parted /\ nextAsk' = nextAsk /\ nextOffer' = nextOffer
      /\ dropped' = dropped /\ present \subseteq present' /\ copies \subseteq copies'
  BY <1>1 DEF SameTables
<1> QED
  BY <1>2, <1>3, <1>4, <1>5, <1>6, <1>7, QuietTurn

\* The reader's socket goroutine starts on a DATA_ACK.
LEMMA DataAckRest ==
    ASSUME BorderInv, RestParts, NEW u \in Viewers, NEW e \in Asks, DataAck(u, e)
    PROVE  RestParts'
<1>1. PICK t \in Goroutines : t = Socket(u) /\ ~IsHandler(t) /\ ~IsTeardown(t)
  BY GoroutineNames
<1>2. PICK q \in AckQueues(e) : q = <<[step |-> "holderNotify"], AckStep(e), CloseStep(e)>>
  BY DEF AckQueues
<1>3. todo[t] = <<>> /\ todo' = [todo EXCEPT ![t] = q]
  BY <1>1, <1>2 DEF DataAck, BorderIdle, AckStep, CloseStep
<1>4. todo'[t] = q /\ \A g \in Goroutines \ {t} : todo'[g] = todo[g]
  BY <1>3 DEF BorderInv, BorderTypeOK
<1>5. PICK s : s = FirstOf(q) /\ s.step = "holderNotify"
  <2>1. PICK a, b, c : a = [step |-> "holderNotify"] /\ b = AckStep(e) /\ c = CloseStep(e)
    OBVIOUS
  <2>2. <<a, b, c>> # <<>> /\ Head(<<a, b, c>>) = a
    OBVIOUS
  <2>3. FirstOf(q) = a
    BY <1>2, <2>1, <2>2 DEF FirstOf
  <2> QED
    BY <2>1, <2>3
<1>6. Turns(t, s, t, s)
  BY <1>4, <1>5 DEF Turns
<1>7. s.step \notin Unheard /\ s.step \notin Opening /\ \A p \in Offers : ~Names(s, p)
  BY <1>5 DEF Unheard, Opening, Names
<1>8. Now(t).step \notin Unheard /\ ~Carrying(t) /\ \A f : ~Owns(t, f)
  BY <1>3, IdleThere DEF RestParts, Unheard
<1>9. /\ ask' = ask /\ offer' = offer /\ parted' = parted /\ nextAsk' = nextAsk /\ nextOffer' = nextOffer
      /\ dropped' = dropped /\ present \subseteq present' /\ copies' = copies \cup {u}
  BY DEF DataAck, homeVars, history
<1>10. Acking(t, e)'
  <2>1. Asked(e)
    BY BorderAssumption DEF DataAck, Asked
  <2>2. e < nextAsk
    BY <2>1, Counters DEF RestParts, Minted, Asked
  <2>3. ask[e].user = u
    BY DEF DataAck
  <2> QED
    BY <1>4, <1>9, <2>2, <2>3 DEF Acking, Asked
<1> QED
  BY <1>1, <1>6, <1>7, <1>8, <1>9, <1>10, QuietTurn

\* AckRelayDeliveryFromPeer: the home server's event is over, or parted.
LEMMA AckPeerRest ==
    ASSUME BorderInv, RestParts, NEW t \in Goroutines, AckPeer(t) \/ AckPeerLost(t)
    PROVE  RestParts'
<1>1. /\ Now(t).step = "ackPeer" /\ Now(t).step \in AckKinds /\ Then(t, <<>>) /\ Arg(t) = Now(t)
      /\ ask' = ask /\ nextAsk' = nextAsk /\ nextOffer' = nextOffer /\ dropped' = dropped
      /\ present' = present /\ copies' = copies
  <2>1. Doing(t, "ackPeer")
    BY DEF AckPeer, AckPeerLost
  <2>2. todo[t] # <<>>
    BY <2>1 DEF Doing
  <2> QED
    BY <2>1, <2>2, NowIs DEF AckPeer, AckPeerLost, RestParts, AckKinds, askVars, homeVars
<1>2. PICK e \in Asks : /\ Acking(t, e) /\ Now(t) = AckStep(e)
                        /\ Turns(t, CloseStep(e), t, CloseStep(e)) /\ todo'[t] \in AckQueues(e)
  BY <1>1, AckGoesOn DEF RestParts
<1>3. PICK s : s = CloseStep(e) /\ s.step = "close" /\ s.e = e
  <2>1. CloseStep(e).step = "close" /\ CloseStep(e).e = e
    BY DEF CloseStep
  <2> QED
    BY <2>1
<1>4. Arg(t).e = e
  BY <1>1, <1>2 DEF AckStep
<1>5. \/ /\ ask[e].offer \in Offers /\ offer[ask[e].offer].state = "relayed"
         /\ offer' = [offer EXCEPT ![ask[e].offer].state = "absent"] /\ parted' = parted
      \/ offer' = offer /\ parted' = parted \cup OfferOf(e)
  <2>1. ask[e].offer # 0 => ask[e].offer \in Offers
    BY Counters DEF AskRow
  <2> QED
    BY <1>4, <2>1 DEF AckPeer, AckPeerLost, AwaitsAck, Acks, homeVars
<1>6. Acking(t, e)'
  BY <1>1, <1>2 DEF Acking, Asked
<1>7. ~IsHandler(t) /\ todo[t] # <<>> /\ ~Carrying(t) /\ \A f : ~Owns(t, f)
  BY <1>1, NoHandler, AckGoesOn DEF RestParts
<1>8. Shaped' /\ Handling' /\ Leaving' /\ Minted'
  <2>1. \A f \in Asks : KeptOrGone(f)
    BY <1>1, Counters DEF KeptOrGone
  <2>2. s.step \notin {"record", "leave"} /\ s.step \notin Opening /\ \A p \in Offers : ~Names(s, p)
    BY <1>3 DEF Opening, Names
  <2> QED
    BY <1>1, <1>2, <1>3, <1>6, <1>7, <2>1, <2>2, KindsTurn
<1>9. Carried' /\ Served'
  BY <1>1, <1>2, <1>3, <1>7, CarrySame
<1>10. ASSUME NEW o \in Offers PROVE EndsOf(o)'
  <2>1. EndsOf(o) /\ \A f \in Asks : f \in AskOf(o)' <=> f \in AskOf(o)
    BY <1>1 DEF RestParts, BothEnds, AskOf, Crossing, Asked
  <2>2. ~Concerns(Now(t), o) /\ ~Concerns(s, o)
    BY <1>1, <1>3 DEF Concerns
  <2>3. e \in AskOf(o) <=> ask[e].offer = o
    BY Counters DEF AskOf, Crossing
  <2>4. CASE e \notin AskOf(o)
    <3>1. offer'[o] = offer[o] /\ (o \in parted' <=> o \in parted)
      BY <1>5, <2>3, <2>4 DEF OfferOf, BorderInv, BorderTypeOK
    <3>2. \A f \in AskOf(o) : ~Ending(Now(t), f) /\ ~Ending(s, f)
      BY <1>1, <1>3, <2>4 DEF Ending
    <3>3. OthersAside(o)
      BY <1>2, <1>3, <2>2, <3>2, TurnsAside
    <3> QED
      BY <1>1, <2>1, <3>1, <3>3, EndsAside
  <2>5. CASE e \in AskOf(o) /\ offer' = offer /\ parted' = parted \cup OfferOf(e)
    <3>1. o \in parted'
      BY <2>3, <2>5, Counters DEF OfferOf
    <3>2. o < nextOffer' /\ nextOffer' \in Nat /\ o \in Nat
      BY <1>1, <2>3, <2>5, Counters DEF BorderInv, AsksNamed
    <3>3. \A f \in AskOf(o)' : f \in AskOf(o) /\ ask'[f].user = ask[f].user
      BY <1>1, <2>1 DEF AskOf
    <3>4. offer'[o] = offer[o]
      BY <2>5
    <3>5. Turns(t, s, t, s)
      BY <1>2, <1>3
    <3> QED
      BY <2>1, <2>2, <3>1, <3>2, <3>3, <3>4, <3>5, EndsParted
  <2>6. CASE /\ e \in AskOf(o) /\ offer[o].state = "relayed" /\ parted' = parted
             /\ offer' = [offer EXCEPT ![o].state = "absent"]
    <3>1. offer'[o].state = "absent" /\ offer'[o].answer = offer[o].answer
      BY <2>6 DEF BorderInv, BorderTypeOK, OfferRow
    <3>2. AskOf(o)' = AskOf(o)
      BY <2>1 DEF AskOf
    <3>3. (Mapped(o)' <=> Mapped(o)) /\ (Sent(o)' <=> Sent(o)) /\ Mapped(o)
      BY <1>1, <2>6, <3>2 DEF Mapped, Sent
    <3>4. Closing(o)'
      <4>1. Closes(e)'
        BY <1>2, <1>3, AfterTurns
      <4> QED
        BY <2>6, <3>2, <4>1 DEF Closing
    <3>5. /\ \A g \in Goroutines : g # t => Now(g)' = Now(g)
          /\ Now(t)' = s
      BY <1>2, <1>3 DEF Turns, Now
    <3>6. /\ \A name \in {"await", "record", "markHome", "notHeld"} : At(name, o)' <=> At(name, o)
          /\ \A name \in {"cancel", "leave"} : Among(name, o)' <=> Among(name, o)
      BY <2>2, <3>5 DEF At, Among, Concerns
    <3>7. OneAwaits(o)' /\ TheirOwn(o)'
      <4>1. OneAwaits(o) /\ TheirOwn(o)
        BY <2>1 DEF EndsOf
      <4>2. OneAwaits(o)'
        BY <2>2, <3>5, <4>1 DEF OneAwaits, Concerns
      <4>3. TheirOwn(o)'
        BY <1>1, <2>2, <3>2, <3>5, <4>1 DEF TheirOwn, Concerns
      <4> QED
        BY <4>2, <4>3
    <3>8. ~At("await", o)
      BY <2>1, <3>3 DEF EndsOf
    <3>9. EndsMeet(o)' \/ o \in parted
      BY <2>1, <2>6, <3>1, <3>3, <3>4, <3>6, <3>8 DEF EndsOf, EndsMeet
    <3> QED
      BY <1>1, <2>1, <2>6, <3>1, <3>3, <3>6, <3>7, <3>9 DEF EndsOf
  <2>7. e \in AskOf(o) => ask[e].offer = o
    BY <2>3
  <2> QED
    BY <1>5, <2>4, <2>5, <2>6, <2>7
<1> QED
  BY <1>8, <1>9, <1>10 DEF RestParts, BothEnds

\* The steps that work on an offer.
AtKinds == {"await", "record", "markHome", "notHeld"}
AmongKinds == {"cancel", "leave"}

\* Who is at work on an offer once one goroutine has gone on.
LEMMA WorkOn ==
    ASSUME NEW o \in Offers, NEW t \in Goroutines, NEW s, Turns(t, s, t, s), s.step \notin {"await", "leave"},
           \A e \in AskOf(o)' : e \in AskOf(o) /\ ask'[e].user = ask[e].user
    PROVE  /\ OneAwaits(o) => OneAwaits(o)'
           /\ TheirOwn(o) => TheirOwn(o)'
           /\ \A name \in AtKinds :
                 /\ At(name, o)' => At(name, o) \/ (s.step = name /\ s.p = o)
                 /\ At(name, o) /\ ~(Now(t).step = name /\ Now(t).p = o) => At(name, o)'
                 /\ s.step = name /\ s.p = o => At(name, o)'
           /\ \A name \in AmongKinds :
                 /\ Among(name, o)' => Among(name, o) \/ (s.step = name /\ o \in s.ps)
                 /\ Among(name, o) /\ ~(Now(t).step = name /\ o \in Now(t).ps) => Among(name, o)'
                 /\ s.step = name /\ o \in s.ps => Among(name, o)'
<1>1. /\ \A g \in Goroutines : g # t => Now(g)' = Now(g)
      /\ Now(t)' = s
  BY DEF Turns, Now
<1>2. OneAwaits(o) => OneAwaits(o)'
  BY <1>1 DEF OneAwaits
<1>3. TheirOwn(o) => TheirOwn(o)'
  BY <1>1 DEF TheirOwn
<1>4. ASSUME NEW name \in AtKinds
      PROVE  /\ At(name, o)' => At(name, o) \/ (s.step = name /\ s.p = o)
             /\ At(name, o) /\ ~(Now(t).step = name /\ Now(t).p = o) => At(name, o)'
             /\ s.step = name /\ s.p = o => At(name, o)'
  BY <1>1 DEF At
<1>5. ASSUME NEW name \in AmongKinds
      PROVE  /\ Among(name, o)' => Among(name, o) \/ (s.step = name /\ o \in s.ps)
             /\ Among(name, o) /\ ~(Now(t).step = name /\ o \in Now(t).ps) => Among(name, o)'
             /\ s.step = name /\ o \in s.ps => Among(name, o)'
  BY <1>1 DEF Among
<1> QED
  BY <1>2, <1>3, <1>4, <1>5

\* deletePendingEvent, by the reader's DATA_ACK: the home server's end of a
\* crossing is over already, and who was served holds the reed.
LEMMA CloseRest ==
    ASSUME BorderInv, RestParts, NEW t \in Goroutines, Close(t)
    PROVE  RestParts'
<1>1. /\ Now(t).step = "close" /\ Now(t).step \in AckKinds /\ Then(t, <<>>) /\ Arg(t) = Now(t)
      /\ ask' = [ask EXCEPT ![Arg(t).e] = NoAsk] /\ offer' = offer /\ parted' = parted
      /\ nextAsk' = nextAsk /\ nextOffer' = nextOffer /\ dropped' = dropped
      /\ present' = present /\ copies' = copies
  <2>1. Doing(t, "close") /\ todo[t] # <<>>
    BY DEF Close, Doing
  <2> QED
    BY <2>1, NowIs DEF Close, RestParts, AckKinds, homeVars, history
<1>2. PICK e \in Asks : /\ Acking(t, e) /\ Now(t) = CloseStep(e)
                        /\ Turns(t, IdleStep, t, IdleStep) /\ PlainQueue(todo'[t])
  BY <1>1, AckGoesOn DEF RestParts
<1>3. PICK s : s = IdleStep /\ s.step = "idle"
  <2>1. IdleStep.step = "idle"
    BY DEF IdleStep
  <2> QED
    BY <2>1
<1>4. Now(t).e = e /\ ask' = [ask EXCEPT ![e] = NoAsk]
  BY <1>1, <1>2 DEF CloseStep
<1>5. ~IsHandler(t) /\ todo[t] # <<>> /\ ~Carrying(t) /\ \A f : ~Owns(t, f)
  BY <1>1, NoHandler, AckGoesOn DEF RestParts
<1>6. Turns(t, s, t, s)
  BY <1>2, <1>3
<1>7. Shaped' /\ Handling' /\ Leaving' /\ Minted'
  <2>1. \A f \in Asks : KeptOrGone(f)
    BY <1>4, RowEnds
  <2>2. s.step \notin {"record", "leave"} /\ s.step \notin Opening /\ \A p \in Offers : ~Names(s, p)
    BY <1>3 DEF Opening, Names
  <2> QED
    BY <1>1, <1>2, <1>5, <1>6, <2>1, <2>2, KindsTurn
<1>8. Carried' /\ Served'
  <2>1. CASE Asked(e)
    <3>1. LocalHolder
      BY <1>2, <2>1 DEF Acking, RestParts, Minted, LocalHolder
    <3>2. LocalHolder'
      BY <1>1, <3>1 DEF LocalHolder
    <3> QED
      BY <3>2 DEF Carried, Served
  <2>2. CASE ~Asked(e)
    <3>1. ask' = ask
      BY <1>4, <2>2, Counters DEF BorderInv, BorderTypeOK
    <3> QED
      BY <1>1, <1>5, <1>6, <3>1, CarrySame
  <2> QED
    BY <2>1, <2>2
<1>9. ASSUME NEW o \in Offers PROVE EndsOf(o)'
  <2>1. EndsOf(o)
    BY DEF RestParts, BothEnds
  <2>2. ~Concerns(Now(t), o) /\ ~Concerns(s, o)
    BY <1>1, <1>3 DEF Concerns
  <2>3. AskOf(o)' = AskOf(o) \ {e} /\ \A f \in Asks : f # e => ask'[f] = ask[f]
    BY <1>4, RowEnds
  <2>4. AskOf(o) \subseteq Asks
    BY DEF AskOf
  <2>5. CASE e \notin AskOf(o)
    <3>1. OthersAside(o)
      <4>1. \A f \in AskOf(o) : ~Ending(Now(t), f) /\ ~Ending(s, f)
        BY <1>3, <1>4, <2>5 DEF Ending
      <4> QED
        BY <1>6, <2>2, <4>1, TurnsAside
    <3>2. \A f \in AskOf(o) : ask'[f].user = ask[f].user /\ ask'[f].relayed = ask[f].relayed
      BY <2>3, <2>4, <2>5
    <3> QED
      BY <1>1, <2>1, <2>3, <2>5, <3>1, <3>2, EndsAside
  <2>6. CASE e \in AskOf(o)
    <3>1. ~Mapped(o)' /\ AskOf(o)' = {} /\ Mapped(o)
      BY <1>4, <2>6, RowEnds DEF Mapped
    <3>2. Closing(o) /\ ~Closing(o)' /\ Sent(o)'
      <4>1. Closes(e)
        BY <1>1, <1>4 DEF Closes
      <4> QED
        BY <2>6, <3>1, <4>1 DEF Closing, Sent
    <3>3. /\ OneAwaits(o)' /\ TheirOwn(o)'
          /\ \A name \in AtKinds : At(name, o)' <=> At(name, o)
          /\ \A name \in AmongKinds : Among(name, o)' <=> Among(name, o)
      <4>1. OneAwaits(o) /\ TheirOwn(o) /\ \A f \in AskOf(o)' : f \in AskOf(o) /\ ask'[f].user = ask[f].user
        BY <2>1, <3>1 DEF EndsOf
      <4>2. s.step \notin {"await", "leave"} /\ s.step \notin AtKinds /\ s.step \notin AmongKinds
        BY <1>3 DEF AtKinds, AmongKinds
      <4>3. Now(t).step \notin AtKinds /\ Now(t).step \notin AmongKinds
        BY <1>1 DEF AtKinds, AmongKinds
      <4> QED
        BY <1>6, <4>1, <4>2, <4>3, WorkOn
    <3> QED
      BY <1>1, <2>1, <3>1, <3>2, <3>3 DEF EndsOf, EndsMeet, AtKinds, AmongKinds
  <2> QED
    BY <2>5, <2>6
<1> QED
  BY <1>7, <1>8, <1>9 DEF RestParts, BothEnds

\* DATA_INVALID: what crossed makes room and the next one is promoted, and who
\* was served here waits for the holder there is.
LEMMA ViewerRejectsRest ==
    ASSUME BorderInv, RestParts, NEW u \in Viewers, NEW e \in Asks, ViewerRejects(u, e)
    PROVE  RestParts'
<1>1. /\ ask[e].relayed /\ ask[e].user = u /\ u # NoViewer /\ offer' = offer
      /\ nextAsk' = nextAsk /\ nextOffer' = nextOffer /\ dropped' = dropped
      /\ present' = present /\ copies' = copies
  BY BorderAssumption DEF ViewerRejects, homeVars
<1>2. CASE ~Crossing(e)
  <2>1. PICK row : row = [ask[e] EXCEPT !.relayed = FALSE] /\ ask' = [ask EXCEPT ![e] = row]
    BY <1>2 DEF ViewerRejects
  <2>2. parted' = parted /\ todo' = todo
    BY <1>2 DEF ViewerRejects
  <2>3. row.user = ask[e].user /\ row.offer = ask[e].offer /\ row.relayed = FALSE
    BY <2>1, Counters DEF AskRow
  <2>4. ask'[e] = row /\ \A f \in Asks \ {e} : ask'[f] = ask[f]
    BY <2>1 DEF BorderInv, BorderTypeOK
  <2>5. Asked(e) /\ ~Crossing(e)' /\ \A f \in Asks : f # e => (Crossing(f)' <=> Crossing(f))
    BY <1>1, <1>2, <2>3, <2>4, RowsAside DEF Asked, Crossing
  <2>6. \A f \in Asks : KeptOrGone(f)
    BY <2>3, <2>4, <2>5, Counters DEF KeptOrGone
  <2>7. Shaped' /\ Handling' /\ Leaving' /\ Minted'
    BY <1>1, <2>2, <2>6, KindsSteady
  <2>8. LocalHolder' \/ dropped'
    BY <1>1, <1>2 DEF RestParts, Served, LocalHolder
  <2>9. BothEnds'
    <3>1. PICK t \in Goroutines : t = <<"fanout", 0>>
      BY GoroutineNames
    <3>2. PICK s : s = Now(t)
      OBVIOUS
    <3>3. Turns(t, s, t, s)
      BY <2>2, <3>2 DEF Turns, Now
    <3>4. \A f \in Asks : Crossing(f) \/ Crossing(f)' => ask'[f] = ask[f]
      BY <1>2, <2>4, <2>5
    <3> QED
      BY <1>1, <2>2, <3>2, <3>3, <3>4, QuietEnds DEF RestParts
  <2> QED
    BY <2>7, <2>8, <2>9 DEF RestParts, Carried, Served
<1>3. CASE Crossing(e)
  <2>1. PICK t \in Goroutines : t = Socket(u) /\ ~IsHandler(t) /\ ~IsTeardown(t)
    BY GoroutineNames
  <2>2. PICK s \in Step : s = [step |-> "promote"] /\ s.step = "promote" /\ s.step \notin AckKinds
    BY StepsMade DEF AckKinds
  <2>3. /\ todo[t] = <<>> /\ todo' = [todo EXCEPT ![t] = <<s>>]
        /\ ask' = [ask EXCEPT ![e] = NoAsk] /\ parted' = parted \cup {ask[e].offer}
    BY <1>3, <2>1, <2>2 DEF ViewerRejects, BorderIdle
  <2>4. Turns(t, s, t, s) /\ PlainQueue(todo'[t]) /\ Promotes(t)'
    BY <2>2, <2>3, Starts DEF RestParts, Moves, Advances, Promotes
  <2>5. Shaped' /\ Handling' /\ Leaving' /\ Minted'
    <3>1. \A f \in Asks : KeptOrGone(f)
      BY <2>3, RowEnds
    <3>2. s.step \notin {"record", "leave"} /\ s.step \notin Opening /\ \A p \in Offers : ~Names(s, p)
      BY <2>2 DEF Opening, Names
    <3> QED
      BY <1>1, <2>1, <2>4, <3>1, <3>2, KindsTurn
  <2>6. Carried'
    BY <2>4 DEF Carried, Carrying
  <2>7. Served'
    <3>1. LocalHolder' = LocalHolder
      BY <1>1 DEF LocalHolder
    <3>2. ask'[e].relayed = FALSE /\ \A f \in Asks : f # e => ask'[f] = ask[f] /\ (Crossing(f)' <=> Crossing(f))
      BY <2>3, RowEnds, Counters
    <3> QED
      BY <1>1, <3>1, <3>2 DEF RestParts, Served
  <2>8. ASSUME NEW o \in Offers PROVE EndsOf(o)'
    <3>1. EndsOf(o) /\ AskOf(o) \subseteq Asks
      BY DEF RestParts, BothEnds, AskOf
    <3>2. AskOf(o)' = AskOf(o) \ {e} /\ \A f \in Asks : f # e => ask'[f] = ask[f]
      BY <2>3, RowEnds
    <3>3. ~Concerns(s, o) /\ ~Concerns(Now(t), o) /\ \A f : ~Ending(s, f) /\ ~Ending(Now(t), f)
      <4>1. Now(t).step = "idle"
        BY <2>3, IdleThere DEF RestParts
      <4> QED
        BY <2>2, <4>1 DEF Concerns, Ending
    <3>4. e \in AskOf(o) <=> ask[e].offer = o
      BY <1>3, Counters DEF AskOf
    <3>5. CASE e \notin AskOf(o)
      <4>1. OthersAside(o)
        BY <2>4, <3>3, TurnsAside
      <4>2. o \in parted' <=> o \in parted
        BY <2>3, <3>4, <3>5
      <4>3. \A f \in AskOf(o) : ask'[f].user = ask[f].user /\ ask'[f].relayed = ask[f].relayed
        BY <3>1, <3>2, <3>5
      <4> QED
        BY <1>1, <3>1, <3>2, <3>5, <4>1, <4>2, <4>3, EndsAside
    <3>6. CASE e \in AskOf(o)
      <4>1. o \in parted'
        BY <2>3, <3>4, <3>6
      <4>2. o < nextOffer' /\ nextOffer' \in Nat /\ o \in Nat
        BY <1>1, <3>4, <3>6, Counters DEF BorderInv, AsksNamed
      <4>3. \A f \in AskOf(o)' : f \in AskOf(o) /\ ask'[f].user = ask[f].user
        BY <3>1, <3>2
      <4> QED
        BY <1>1, <2>4, <3>1, <3>3, <4>1, <4>2, <4>3, EndsParted
    <3> QED
      BY <3>5, <3>6
  <2> QED
    BY <2>5, <2>6, <2>7, <2>8 DEF RestParts, BothEnds
<1> QED
  BY <1>2, <1>3

\* A goroutine of the home server or a background one goes on after a step.
LEMMA RestsFrom ==
    ASSUME BorderInv, RestParts, NEW t \in Goroutines, todo[t] # <<>>, Now(t).step \notin AckKinds, Then(t, <<>>)
    PROVE  \E s : /\ s.step \in {"idle", "promote"} /\ s.step \notin Opening
                  /\ \A o : ~Concerns(s, o) /\ ~Names(s, o) /\ ~Ending(s, o)
                  /\ Turns(t, s, t, s) /\ PlainQueue(todo'[t])
                  /\ Promotes(t) /\ Now(t).step # "promote" => Promotes(t)'
<1>1. PICK s \in {IdleStep, PromoteStep} : Moves(t, s)
  BY GoesOn DEF RestParts
<1>2. s.step \in {"idle", "promote"}
  BY DEF IdleStep, PromoteStep
<1>3. s.step \notin Opening /\ \A o : ~Concerns(s, o) /\ ~Names(s, o) /\ ~Ending(s, o)
  BY <1>2 DEF Opening, Concerns, Names, Ending
<1>4. Turns(t, s, t, s) /\ PlainQueue(todo'[t]) /\ (Promotes(t) /\ Now(t).step # "promote" => Promotes(t)')
  BY <1>1 DEF Moves, Advances, Promotes
<1> QED
  BY <1>2, <1>3, <1>4

\* A goroutine of the home server or a background one goes on to a step.
LEMMA MovesTo ==
    ASSUME BorderInv, RestParts, NEW t \in Goroutines, todo[t] # <<>>, Now(t).step \notin AckKinds,
           NEW s \in Step, s.step \notin AckKinds, Then(t, <<s>>)
    PROVE  /\ Turns(t, s, t, s) /\ PlainQueue(todo'[t])
           /\ Promotes(t) /\ Now(t).step # "promote" => Promotes(t)'
           /\ s.step = "promote" => Promotes(t)'
BY GoesOnTo DEF RestParts, Moves, Advances, Promotes

\* The steps of a delivery at the home server.
HomeKinds == {"deliver", "markHome", "notHeld"}

\* A goroutine that is at one of them.
LEMMA HomeStep ==
    ASSUME BorderInv, RestParts, NEW t \in Goroutines, NEW name \in HomeKinds, Doing(t, name)
    PROVE  /\ todo[t] # <<>> /\ Now(t) = Arg(t) /\ Now(t).step = name /\ Now(t).p \in Offers
           /\ Now(t).p < nextOffer /\ ~IsHandler(t) /\ Now(t).step \notin AckKinds
           /\ Carrying(t) => Promotes(t)
           /\ \A e : ~Owns(t, e) /\ ~Ending(Now(t), e)
           /\ \A o : o # Now(t).p => ~Concerns(Now(t), o)
<1>1. todo[t] # <<>> /\ Now(t) = Arg(t) /\ Now(t).step = name /\ Now(t) \in Step
  <2>1. todo[t] # <<>> /\ name # "idle"
    BY DEF Doing, HomeKinds
  <2> QED
    BY <2>1, NowIs DEF RestParts
<1>2. PICK p \in Offers : p = Now(t).p
  BY <1>1, StepShapes DEF HomeKinds
<1>3. p < nextOffer
  BY <1>1, <1>2 DEF RestParts, Minted, Names, HomeKinds
<1>4. ~IsHandler(t) /\ Now(t).step \notin AckKinds
  BY <1>1, NoHandler DEF HomeKinds, AckKinds
<1>5. /\ Carrying(t) => Promotes(t)
      /\ \A e : ~Owns(t, e) /\ ~Ending(Now(t), e)
      /\ \A o : o # Now(t).p => ~Concerns(Now(t), o)
  BY <1>1 DEF HomeKinds, Carrying, Owns, Opening, Ending, Concerns
<1> QED
  BY <1>1, <1>2, <1>3, <1>4, <1>5

\* Nobody is mapped to the event that a holder's answer was for.
LEMMA DeliverNobodyRest ==
    ASSUME BorderInv, RestParts, NEW t \in Goroutines, DeliverNobody(t)
    PROVE  RestParts'
<1>1. /\ todo[t] # <<>> /\ Now(t) = Arg(t) /\ Now(t).step = "deliver" /\ Now(t).p \in Offers
      /\ Now(t).p < nextOffer /\ ~IsHandler(t) /\ Now(t).step \notin AckKinds
      /\ Carrying(t) => Promotes(t)
      /\ \A e : ~Owns(t, e) /\ ~Ending(Now(t), e)
      /\ \A o : o # Now(t).p => ~Concerns(Now(t), o)
  BY HomeStep DEF DeliverNobody, HomeKinds
<1>2. PICK p \in Offers : p = Now(t).p
  BY <1>1
<1>3. /\ ask' = ask /\ offer' = offer /\ nextAsk' = nextAsk /\ nextOffer' = nextOffer /\ dropped' = dropped
      /\ present' = present /\ copies' = copies
  BY DEF DeliverNobody, askVars, homeVars
<1>4. CASE Then(t, <<>>) /\ parted' = parted
  <2>1. SameTables /\ Now(t).step \notin Unheard /\ Now(t).step # "promote" /\ Now(t).step \notin Opening
    BY <1>1, <1>3, <1>4 DEF SameTables, Unheard, Opening
  <2> QED
    BY <1>1, <1>4, <2>1, QuietGo
<1>5. CASE AskOf(p) = {} /\ Then(t, <<[step |-> "markHome", p |-> p]>>) /\ parted' = parted \cup {p}
  <2>1. PICK s \in Step : /\ s = [step |-> "markHome", p |-> p] /\ s.step = "markHome" /\ s.p = p
                          /\ s.step \notin AckKinds
    BY StepsMade DEF AckKinds
  <2>2. Turns(t, s, t, s) /\ PlainQueue(todo'[t]) /\ (Promotes(t) => Promotes(t)')
    BY <1>1, <1>5, <2>1, MovesTo
  <2>3. Shaped' /\ Handling' /\ Leaving' /\ Minted'
    <3>1. \A f \in Asks : KeptOrGone(f)
      BY <1>3, Counters DEF KeptOrGone
    <3>2. s.step \notin {"record", "leave"} /\ s.step \notin Opening /\ \A o \in Offers : Names(s, o) => o < nextOffer
      BY <1>1, <1>2, <2>1 DEF Opening, Names
    <3> QED
      BY <1>1, <1>3, <2>2, <3>1, <3>2, KindsTurn
  <2>4. Carried' /\ Served'
    <3>1. Carrying(t) => Carrying(t)'
      BY <1>1, <2>2 DEF Carrying
    <3> QED
      BY <1>1, <1>3, <2>2, <3>1, CarrySame
  <2>5. ASSUME NEW o \in Offers PROVE EndsOf(o)'
    <3>1. EndsOf(o) /\ AskOf(o)' = AskOf(o)
      BY <1>3 DEF RestParts, BothEnds, AskOf, Crossing, Asked
    <3>2. CASE o = p
      <4>1. o \in parted' /\ offer'[o] = offer[o] /\ o < nextOffer' /\ nextOffer' \in Nat /\ o \in Nat
        BY <1>1, <1>2, <1>3, <1>5, <3>2, Counters
      <4>2. \A f \in AskOf(o)' : f \in AskOf(o) /\ ask'[f].user = ask[f].user
        BY <1>3, <3>1
      <4> QED
        BY <2>1, <2>2, <3>1, <4>1, <4>2, EndsParted
    <3>3. CASE o # p
      <4>1. OthersAside(o)
        <5>1. ~Concerns(s, o) /\ \A f : ~Ending(s, f)
          BY <2>1, <3>3 DEF Concerns, Ending
        <5> QED
          BY <1>1, <1>2, <2>2, <3>3, <5>1, TurnsAside
      <4> QED
        BY <1>3, <1>5, <3>1, <3>3, <4>1, EndsAside
    <3> QED
      BY <3>2, <3>3
  <2> QED
    BY <2>3, <2>4, <2>5 DEF RestParts, BothEnds
<1> QED
  BY <1>1, <1>2, <1>4, <1>5 DEF DeliverNobody

\* markEventRelayed: the copy was delivered, or the offer is parted.
LEMMA MarkHomeRest ==
    ASSUME BorderInv, RestParts, NEW t \in Goroutines, MarkHome(t)
    PROVE  RestParts'
<1>1. /\ todo[t] # <<>> /\ Now(t) = Arg(t) /\ Now(t).step = "markHome" /\ Now(t).p \in Offers
      /\ Now(t).p < nextOffer /\ ~IsHandler(t) /\ Now(t).step \notin AckKinds
      /\ Carrying(t) => Promotes(t)
      /\ \A e : ~Owns(t, e) /\ ~Ending(Now(t), e)
      /\ \A o : o # Now(t).p => ~Concerns(Now(t), o)
  BY HomeStep DEF MarkHome, HomeKinds
<1>2. PICK p \in Offers : p = Now(t).p
  BY <1>1
<1>3. /\ ask' = ask /\ parted' = parted /\ nextAsk' = nextAsk /\ nextOffer' = nextOffer /\ dropped' = dropped
      /\ present' = present /\ copies' = copies /\ Then(t, <<>>)
      /\ offer' = [offer EXCEPT ![p].state = IF @ = "open" THEN "relayed" ELSE @]
  BY <1>1, <1>2 DEF MarkHome, askVars, history
<1>4. PICK s : /\ s.step \in {"idle", "promote"} /\ s.step \notin Opening
               /\ \A o : ~Concerns(s, o) /\ ~Names(s, o) /\ ~Ending(s, o)
               /\ Turns(t, s, t, s) /\ PlainQueue(todo'[t])
               /\ Promotes(t) /\ Now(t).step # "promote" => Promotes(t)'
  BY <1>1, <1>3, RestsFrom
<1>5. Shaped' /\ Handling' /\ Leaving' /\ Minted'
  <2>1. \A f \in Asks : KeptOrGone(f)
    BY <1>3, Counters DEF KeptOrGone
  <2> QED
    BY <1>1, <1>3, <1>4, <2>1, KindsTurn
<1>6. Carried' /\ Served'
  <2>1. Carrying(t) => Carrying(t)'
    BY <1>1, <1>4 DEF Carrying
  <2> QED
    BY <1>1, <1>3, <1>4, <2>1, CarrySame
<1>7. ASSUME NEW o \in Offers PROVE EndsOf(o)'
  <2>1. EndsOf(o) /\ AskOf(o)' = AskOf(o)
    BY <1>3 DEF RestParts, BothEnds, AskOf, Crossing, Asked
  <2>2. CASE o # p
    <3>1. OthersAside(o)
      BY <1>1, <1>2, <1>4, <2>2, TurnsAside
    <3>2. offer'[o] = offer[o]
      BY <1>3, <2>2 DEF BorderInv, BorderTypeOK
    <3> QED
      BY <1>3, <2>1, <3>1, <3>2, EndsAside
  <2>3. CASE o = p
    <3>1. /\ offer'[o].answer = offer[o].answer
          /\ offer'[o].state = IF offer[o].state = "open" THEN "relayed" ELSE offer[o].state
      BY <1>3, <2>3 DEF BorderInv, BorderTypeOK, OfferRow
    <3>2. /\ OneAwaits(o)' /\ TheirOwn(o)'
          /\ \A name \in {"await", "record", "notHeld"} : At(name, o)' <=> At(name, o)
          /\ At("markHome", o)' => At("markHome", o)
          /\ \A name \in AmongKinds : Among(name, o)' <=> Among(name, o)
      <4>1. OneAwaits(o) /\ TheirOwn(o) /\ \A f \in AskOf(o)' : f \in AskOf(o) /\ ask'[f].user = ask[f].user
        BY <1>3, <2>1 DEF EndsOf
      <4>2. s.step \notin {"await", "leave"} /\ s.step \notin AtKinds /\ s.step \notin AmongKinds
        BY <1>4 DEF AtKinds, AmongKinds
      <4> QED
        BY <1>1, <1>4, <4>1, <4>2, WorkOn DEF AtKinds, AmongKinds
    <3>3. (Mapped(o)' <=> Mapped(o)) /\ (Sent(o)' <=> Sent(o))
      BY <1>3, <2>1 DEF Mapped, Sent
    <3>4. Closing(o)' <=> Closing(o)
      <4>1. \A f : Closes(f)' <=> Closes(f)
        BY <1>1, <1>4, AfterTurns DEF Ending
      <4> QED
        BY <2>1, <4>1 DEF Closing
    <3>5. At("markHome", o)
      BY <1>1, <1>2, <2>3 DEF At
    <3>6. o < nextOffer' /\ nextOffer' \in Nat /\ o \in Nat
      BY <1>1, <1>2, <1>3, <2>3, Counters
    <3>7. ~(o >= nextOffer')
      BY <3>6
    <3>8. EndsMeet(o) => EndsMeet(o)'
      BY <3>1, <3>2, <3>3, <3>4, <3>5 DEF EndsMeet, AmongKinds
    <3> QED
      BY <1>3, <2>1, <3>1, <3>2, <3>3, <3>7, <3>8 DEF EndsOf, AmongKinds
  <2> QED
    BY <2>2, <2>3
<1> QED
  BY <1>5, <1>6, <1>7 DEF RestParts, BothEnds

\* The answer to a delivery is in, or lost: the home server marks its event, or not.
LEMMA AnswersGo ==
    ASSUME BorderInv, RestParts, NEW t \in Goroutines, Doing(t, "deliver"), NEW answered \in BOOLEAN,
           Then(t, IF answered THEN <<[step |-> "markHome", p |-> Arg(t).p]>> ELSE <<>>)
    PROVE  \E s : /\ s.step \in {"idle", "promote", "markHome"}
                  /\ answered <=> s.step = "markHome"
                  /\ s.step = "markHome" => s.p = Now(t).p
                  /\ \A o : (o # Now(t).p => ~Concerns(s, o)) /\ ~Ending(s, o)
                  /\ \A o \in Offers : Names(s, o) => o < nextOffer
                  /\ s.step \notin Opening
                  /\ Turns(t, s, t, s) /\ PlainQueue(todo'[t]) /\ (Promotes(t) => Promotes(t)')
<1>1. /\ todo[t] # <<>> /\ Now(t) = Arg(t) /\ Now(t).step = "deliver" /\ Now(t).p \in Offers
      /\ Now(t).p < nextOffer /\ Now(t).step \notin AckKinds
  BY HomeStep DEF HomeKinds
<1>2. CASE answered = TRUE
  <2>1. PICK s \in Step : /\ s = [step |-> "markHome", p |-> Now(t).p]
                          /\ s.step = "markHome" /\ s.p = Now(t).p /\ s.step \notin AckKinds
    BY <1>1, StepsMade DEF AckKinds
  <2>2. Then(t, <<s>>)
    BY <1>1, <1>2, <2>1
  <2>3. Turns(t, s, t, s) /\ PlainQueue(todo'[t]) /\ (Promotes(t) => Promotes(t)')
    BY <1>1, <2>1, <2>2, MovesTo
  <2>4. /\ \A o : (o # Now(t).p => ~Concerns(s, o)) /\ ~Ending(s, o)
        /\ \A o \in Offers : Names(s, o) => o < nextOffer
        /\ s.step \notin Opening
    BY <1>1, <2>1 DEF Concerns, Ending, Names, Opening
  <2> QED
    BY <1>2, <2>1, <2>3, <2>4
<1>3. CASE answered = FALSE
  <2>1. Then(t, <<>>)
    BY <1>3
  <2>2. PICK s : /\ s.step \in {"idle", "promote"} /\ s.step \notin Opening
                 /\ \A o : ~Concerns(s, o) /\ ~Names(s, o) /\ ~Ending(s, o)
                 /\ Turns(t, s, t, s) /\ PlainQueue(todo'[t])
                 /\ Promotes(t) /\ Now(t).step # "promote" => Promotes(t)'
    BY <1>1, <2>1, RestsFrom
  <2> QED
    BY <1>1, <1>3, <2>2
<1> QED
  BY <1>2, <1>3

\* DeliverRelayResponseFromPeer: the reader has the copy, and the home server
\* marks it delivered unless it does not hear of it.
LEMMA DeliverRest ==
    ASSUME BorderInv, RestParts, NEW t \in Goroutines, Deliver(t)
    PROVE  RestParts'
<1>1. /\ todo[t] # <<>> /\ Now(t) = Arg(t) /\ Now(t).step = "deliver" /\ Now(t).p \in Offers
      /\ Now(t).p < nextOffer /\ ~IsHandler(t) /\ Now(t).step \notin AckKinds
      /\ Carrying(t) => Promotes(t)
      /\ \A e : ~Owns(t, e) /\ ~Ending(Now(t), e)
      /\ \A o : o # Now(t).p => ~Concerns(Now(t), o)
  BY HomeStep DEF Deliver, HomeKinds
<1>2. PICK p \in Offers : p = Now(t).p
  BY <1>1
<1>3. PICK e \in AskOf(p), answered \in BOOLEAN :
         /\ ask[e].name = "data" /\ TakesCopy(e)
         /\ Then(t, IF answered THEN <<[step |-> "markHome", p |-> Arg(t).p]>> ELSE <<>>)
         /\ parted' = IF answered THEN parted ELSE parted \cup {p}
  BY <1>1, <1>2, BorderAssumption DEF Deliver
<1>4. /\ offer' = offer /\ nextAsk' = nextAsk /\ nextOffer' = nextOffer /\ dropped' = dropped
      /\ present' = present /\ copies' = copies
  BY DEF Deliver, homeVars
<1>5. PICK s : /\ s.step \in {"idle", "promote", "markHome"}
               /\ answered <=> s.step = "markHome"
               /\ s.step = "markHome" => s.p = p
               /\ \A o : (o # p => ~Concerns(s, o)) /\ ~Ending(s, o)
               /\ \A o \in Offers : Names(s, o) => o < nextOffer
               /\ s.step \notin Opening
               /\ Turns(t, s, t, s) /\ PlainQueue(todo'[t]) /\ (Promotes(t) => Promotes(t)')
  <2>1. Doing(t, "deliver")
    BY DEF Deliver
  <2>2. \E s : /\ s.step \in {"idle", "promote", "markHome"}
               /\ answered <=> s.step = "markHome"
               /\ s.step = "markHome" => s.p = Now(t).p
               /\ \A o : (o # Now(t).p => ~Concerns(s, o)) /\ ~Ending(s, o)
               /\ \A o \in Offers : Names(s, o) => o < nextOffer
               /\ s.step \notin Opening
               /\ Turns(t, s, t, s) /\ PlainQueue(todo'[t]) /\ (Promotes(t) => Promotes(t)')
    BY <1>3, <2>1, AnswersGo
  <2> QED
    BY <1>2, <2>2
<1>6. e \in Asks /\ Crossing(e) /\ Asked(e) /\ ask[e] \in AskRow /\ ask[e].offer = p
  BY Counters DEF AskOf, Crossing
<1>7. PICK row : row = [ask[e] EXCEPT !.relayed = TRUE] /\ ask' = [ask EXCEPT ![e] = row]
  BY <1>3 DEF TakesCopy
<1>8. row.user = ask[e].user /\ row.offer = ask[e].offer /\ row.relayed = TRUE
  BY <1>6, <1>7 DEF AskRow
<1>9. ask'[e] = row /\ \A f \in Asks \ {e} : ask'[f] = ask[f]
  BY <1>6, <1>7 DEF BorderInv, BorderTypeOK
<1>10. /\ \A f \in Asks : (Crossing(f)' <=> Crossing(f)) /\ (Asked(f)' <=> Asked(f)) /\ ask'[f].user = ask[f].user
       /\ \A f \in Asks : f # e => ask'[f] = ask[f]
       /\ \A f \in Asks : ask'[f].offer = ask[f].offer
  BY <1>8, <1>9 DEF Crossing, Asked
<1>11. \A f \in Asks : KeptOrGone(f)
  BY <1>6, <1>10, Counters DEF KeptOrGone
<1>12. Shaped' /\ Handling' /\ Leaving' /\ Minted'
  BY <1>1, <1>4, <1>5, <1>11, KindsTurn
<1>13. Carried' /\ Served'
  <2>1. LocalHolder' = LocalHolder /\ Crossings' = Crossings /\ Crossings' # {}
    BY <1>4, <1>6, <1>10 DEF LocalHolder, Crossings
  <2>2. Carried'
    BY <2>1 DEF Carried
  <2>3. Served'
    BY <1>4, <1>6, <1>10, <2>1 DEF RestParts, Served
  <2> QED
    BY <2>2, <2>3
<1>14. ASSUME NEW o \in Offers PROVE EndsOf(o)'
  <2>1. EndsOf(o) /\ AskOf(o)' = AskOf(o) /\ \A f \in AskOf(o) : f \in Asks
    BY <1>10 DEF RestParts, BothEnds, AskOf
  <2>2. CASE o # p
    <3>1. e \notin AskOf(o)
      BY <1>6, <2>2 DEF AskOf
    <3>2. OthersAside(o)
      BY <1>1, <1>2, <1>5, <2>2, TurnsAside
    <3>3. \A f \in AskOf(o) : ask'[f].user = ask[f].user /\ ask'[f].relayed = ask[f].relayed
      BY <1>10, <2>1, <3>1
    <3>4. o \in parted' <=> o \in parted
      BY <1>3, <2>2
    <3> QED
      BY <1>4, <2>1, <3>2, <3>3, <3>4, EndsAside
  <2>3. CASE o = p /\ ~answered
    <3>1. o \in parted' /\ offer'[o] = offer[o] /\ o < nextOffer' /\ nextOffer' \in Nat /\ o \in Nat
      BY <1>1, <1>2, <1>3, <1>4, <2>3, Counters
    <3>2. \A f \in AskOf(o)' : f \in AskOf(o) /\ ask'[f].user = ask[f].user
      BY <1>10, <2>1
    <3>3. ~Concerns(s, o)
      BY <1>5, <2>3 DEF Concerns
    <3> QED
      BY <1>5, <2>1, <3>1, <3>2, <3>3, EndsParted
  <2>4. CASE o = p /\ answered
    <3>1. parted' = parted /\ s.step = "markHome"
      BY <1>3, <1>5, <2>4
    <3>2. AskOf(o) = {e}
      BY <1>2, <2>4, Counters
    <3>3. Mapped(o) /\ Mapped(o)' /\ Sent(o)' /\ ~At("await", o)
      BY <1>8, <1>9, <2>1, <3>2 DEF Mapped, Sent, EndsOf
    <3>4. Closing(o)' <=> Closing(o)
      <4>1. \A f : Closes(f)' <=> Closes(f)
        BY <1>1, <1>5, AfterTurns DEF Ending
      <4> QED
        BY <2>1, <4>1 DEF Closing
    <3>5. /\ OneAwaits(o)' /\ TheirOwn(o)'
          /\ \A name \in {"await", "record", "notHeld"} : At(name, o)' <=> At(name, o)
          /\ \A name \in AmongKinds : Among(name, o)' <=> Among(name, o)
      <4>1. OneAwaits(o) /\ TheirOwn(o) /\ \A f \in AskOf(o)' : f \in AskOf(o) /\ ask'[f].user = ask[f].user
        BY <1>10, <2>1 DEF EndsOf
      <4>2. Now(t).step \notin AtKinds /\ Now(t).step \notin AmongKinds
        BY <1>1 DEF AtKinds, AmongKinds
      <4> QED
        BY <1>5, <3>1, <4>1, <4>2, WorkOn DEF AtKinds, AmongKinds
    <3>6. EndsMeet(o) => EndsMeet(o)'
      BY <1>4, <3>3, <3>4, <3>5 DEF EndsMeet, AmongKinds
    <3> QED
      BY <1>4, <2>1, <3>1, <3>3, <3>5, <3>6 DEF EndsOf, AmongKinds
  <2> QED
    BY <2>2, <2>3, <2>4
<1> QED
  BY <1>12, <1>13, <1>14 DEF RestParts, BothEnds

\* The same for a broadcast, which is over with its delivery.
LEMMA DeliverBroadcastRest ==
    ASSUME BorderInv, RestParts, NEW t \in Goroutines, DeliverBroadcast(t)
    PROVE  RestParts'
<1>1. /\ todo[t] # <<>> /\ Now(t) = Arg(t) /\ Now(t).step = "deliver" /\ Now(t).p \in Offers
      /\ Now(t).p < nextOffer /\ ~IsHandler(t) /\ Now(t).step \notin AckKinds
      /\ Carrying(t) => Promotes(t)
      /\ \A e : ~Owns(t, e) /\ ~Ending(Now(t), e)
      /\ \A o : o # Now(t).p => ~Concerns(Now(t), o)
  BY HomeStep DEF DeliverBroadcast, HomeKinds
<1>2. PICK p \in Offers : p = Now(t).p
  BY <1>1
<1>3. PICK e \in AskOf(p), answered \in BOOLEAN :
         /\ ask[e].name = "broadcast" /\ TakesCopy(e)
         /\ Then(t, IF answered THEN <<[step |-> "markHome", p |-> Arg(t).p]>> ELSE <<>>)
  BY <1>1, <1>2, BorderAssumption DEF DeliverBroadcast
<1>4. /\ offer' = offer /\ nextAsk' = nextAsk /\ nextOffer' = nextOffer /\ dropped' = TRUE
      /\ present' = present /\ copies' = copies /\ parted' = parted \cup {p}
  BY <1>1, <1>2 DEF DeliverBroadcast, homeVars
<1>5. PICK s : /\ s.step \in {"idle", "promote", "markHome"}
               /\ \A o : (o # p => ~Concerns(s, o)) /\ ~Ending(s, o)
               /\ \A o \in Offers : Names(s, o) => o < nextOffer
               /\ s.step \notin Opening
               /\ Turns(t, s, t, s) /\ PlainQueue(todo'[t]) /\ (Promotes(t) => Promotes(t)')
  <2>1. Doing(t, "deliver")
    BY DEF DeliverBroadcast
  <2>2. \E s : /\ s.step \in {"idle", "promote", "markHome"}
               /\ answered <=> s.step = "markHome"
               /\ s.step = "markHome" => s.p = Now(t).p
               /\ \A o : (o # Now(t).p => ~Concerns(s, o)) /\ ~Ending(s, o)
               /\ \A o \in Offers : Names(s, o) => o < nextOffer
               /\ s.step \notin Opening
               /\ Turns(t, s, t, s) /\ PlainQueue(todo'[t]) /\ (Promotes(t) => Promotes(t)')
    BY <1>3, <2>1, AnswersGo
  <2> QED
    BY <1>2, <2>2
<1>6. e \in Asks /\ ask[e].offer = p
  BY DEF AskOf
<1>7. ask' = [ask EXCEPT ![e] = NoAsk]
  BY <1>3 DEF TakesCopy
<1>8. Shaped' /\ Handling' /\ Leaving' /\ Minted'
  <2>1. \A f \in Asks : KeptOrGone(f)
    BY <1>6, <1>7, RowEnds
  <2> QED
    BY <1>1, <1>4, <1>5, <2>1, KindsTurn
<1>9. ASSUME NEW o \in Offers PROVE EndsOf(o)'
  <2>1. EndsOf(o) /\ AskOf(o)' = AskOf(o) \ {e} /\ (\A f \in Asks : f # e => ask'[f] = ask[f]) /\ AskOf(o) \subseteq Asks
    <3>1. AskOf(o)' = AskOf(o) \ {e} /\ \A f \in Asks : f # e => ask'[f] = ask[f]
      BY <1>6, <1>7, RowEnds
    <3> QED
      BY <3>1 DEF RestParts, BothEnds, AskOf
  <2>2. CASE o # p
    <3>1. e \notin AskOf(o)
      BY <1>6, <2>2 DEF AskOf
    <3>2. OthersAside(o)
      BY <1>1, <1>2, <1>5, <2>2, TurnsAside
    <3>3. \A f \in AskOf(o) : ask'[f].user = ask[f].user /\ ask'[f].relayed = ask[f].relayed
      BY <2>1, <3>1
    <3>4. (o \in parted' <=> o \in parted) /\ offer'[o] = offer[o]
      BY <1>4, <2>2
    <3> QED
      BY <1>4, <2>1, <3>1, <3>2, <3>3, <3>4, EndsAside
  <2>3. CASE o = p
    <3>1. o \in parted' /\ offer'[o] = offer[o] /\ o < nextOffer' /\ nextOffer' \in Nat /\ o \in Nat
      BY <1>1, <1>2, <1>4, <2>3, Counters
    <3>2. \A f \in AskOf(o)' : f \in AskOf(o) /\ ask'[f].user = ask[f].user
      BY <2>1
    <3>3. ~Concerns(s, o) \/ s.step = "markHome"
      BY <1>5 DEF Concerns
    <3> QED
      BY <1>5, <2>1, <3>1, <3>2, <3>3, EndsParted
  <2> QED
    BY <2>2, <2>3
<1> QED
  BY <1>4, <1>8, <1>9 DEF RestParts, BothEnds, Carried, Served

\* RelayNotHeldFromPeer: the ask ends and its place goes to the next, or the
\* notification finds nobody.
LEMMA NotHeldRest ==
    ASSUME BorderInv, RestParts, NEW t \in Goroutines, NotHeld(t)
    PROVE  RestParts'
<1>1. /\ todo[t] # <<>> /\ Now(t) = Arg(t) /\ Now(t).step = "notHeld" /\ Now(t).p \in Offers
      /\ Now(t).p < nextOffer /\ ~IsHandler(t) /\ Now(t).step \notin AckKinds
      /\ Carrying(t) => Promotes(t)
      /\ \A e : ~Owns(t, e) /\ ~Ending(Now(t), e)
      /\ \A o : o # Now(t).p => ~Concerns(Now(t), o)
  BY HomeStep DEF NotHeld, HomeKinds
<1>2. PICK p \in Offers : p = Now(t).p
  BY <1>1
<1>3. /\ offer' = offer /\ nextAsk' = nextAsk /\ nextOffer' = nextOffer /\ dropped' = dropped
      /\ present' = present /\ copies' = copies
  BY DEF NotHeld, homeVars
<1>4. CASE Then(t, <<>>) /\ parted' = parted \cup {p} /\ ask' = ask
  <2>1. PICK s : /\ s.step \in {"idle", "promote"} /\ s.step \notin Opening
                 /\ \A o : ~Concerns(s, o) /\ ~Names(s, o) /\ ~Ending(s, o)
                 /\ Turns(t, s, t, s) /\ PlainQueue(todo'[t])
                 /\ Promotes(t) /\ Now(t).step # "promote" => Promotes(t)'
    BY <1>1, <1>4, RestsFrom
  <2>2. Shaped' /\ Handling' /\ Leaving' /\ Minted'
    <3>1. \A f \in Asks : KeptOrGone(f)
      BY <1>4, Counters DEF KeptOrGone
    <3> QED
      BY <1>1, <1>3, <2>1, <3>1, KindsTurn
  <2>3. Carried' /\ Served'
    <3>1. Carrying(t) => Carrying(t)'
      BY <1>1, <2>1 DEF Carrying
    <3> QED
      BY <1>1, <1>3, <1>4, <2>1, <3>1, CarrySame
  <2>4. ASSUME NEW o \in Offers PROVE EndsOf(o)'
    <3>1. EndsOf(o) /\ AskOf(o)' = AskOf(o)
      BY <1>4 DEF RestParts, BothEnds, AskOf, Crossing, Asked
    <3>2. CASE o # p
      <4>1. OthersAside(o)
        BY <1>1, <1>2, <2>1, <3>2, TurnsAside
      <4> QED
        BY <1>3, <1>4, <3>1, <3>2, <4>1, EndsAside
    <3>3. CASE o = p
      <4>1. o \in parted' /\ offer'[o] = offer[o] /\ o < nextOffer' /\ nextOffer' \in Nat /\ o \in Nat
        BY <1>1, <1>2, <1>3, <1>4, <3>3, Counters
      <4>2. \A f \in AskOf(o)' : f \in AskOf(o) /\ ask'[f].user = ask[f].user
        BY <1>4, <3>1
      <4> QED
        BY <2>1, <3>1, <4>1, <4>2, EndsParted
    <3> QED
      BY <3>2, <3>3
  <2> QED
    BY <2>2, <2>3, <2>4 DEF RestParts, BothEnds
<1>5. ASSUME NEW e \in AskOf(p), GivesUp(t, e), parted' = parted PROVE RestParts'
  <2>1. e \in Asks /\ ask[e].offer = p /\ ask' = [ask EXCEPT ![e] = NoAsk]
    BY <1>5 DEF AskOf, GivesUp
  <2>2. PICK s \in Step : /\ s = [step |-> "promote"] /\ s.step = "promote" /\ s.step \notin AckKinds
    BY StepsMade DEF AckKinds
  <2>3. Turns(t, s, t, s) /\ PlainQueue(todo'[t]) /\ Promotes(t)'
    BY <1>1, <1>5, <2>2, MovesTo DEF GivesUp
  <2>4. s.step \notin Opening /\ \A o : ~Concerns(s, o) /\ ~Names(s, o) /\ ~Ending(s, o)
    BY <2>2 DEF Opening, Concerns, Names, Ending
  <2>5. Shaped' /\ Handling' /\ Leaving' /\ Minted'
    <3>1. \A f \in Asks : KeptOrGone(f)
      BY <2>1, RowEnds
    <3> QED
      BY <1>1, <1>3, <2>2, <2>3, <2>4, <3>1, KindsTurn
  <2>6. Carried'
    BY <2>3 DEF Carried, Carrying
  <2>7. Served'
    <3>1. LocalHolder' = LocalHolder
      BY <1>3 DEF LocalHolder
    <3>2. ask'[e].relayed = FALSE /\ \A f \in Asks : f # e => ask'[f] = ask[f] /\ (Crossing(f)' <=> Crossing(f))
      BY <2>1, RowEnds, Counters
    <3> QED
      BY <1>3, <3>1, <3>2 DEF RestParts, Served
  <2>8. ASSUME NEW o \in Offers PROVE EndsOf(o)'
    <3>1. EndsOf(o) /\ AskOf(o)' = AskOf(o) \ {e} /\ (\A f \in Asks : f # e => ask'[f] = ask[f]) /\ AskOf(o) \subseteq Asks
      <4>1. AskOf(o)' = AskOf(o) \ {e} /\ \A f \in Asks : f # e => ask'[f] = ask[f]
        BY <2>1, RowEnds
      <4> QED
        BY <4>1 DEF RestParts, BothEnds, AskOf
    <3>2. CASE o # p
      <4>1. e \notin AskOf(o)
        BY <2>1, <3>2 DEF AskOf
      <4>2. OthersAside(o)
        BY <1>1, <1>2, <2>3, <2>4, <3>2, TurnsAside
      <4>3. \A f \in AskOf(o) : ask'[f].user = ask[f].user /\ ask'[f].relayed = ask[f].relayed
        BY <3>1, <4>1
      <4>4. (o \in parted' <=> o \in parted) /\ offer'[o] = offer[o]
        BY <1>3, <1>5
      <4> QED
        BY <1>3, <3>1, <4>1, <4>2, <4>3, <4>4, EndsAside
    <3>3. CASE o = p
      <4>1. AskOf(o) = {e} /\ AskOf(o)' = {} /\ Mapped(o) /\ ~Mapped(o)'
        BY <1>5, <3>1, <3>3, Counters DEF Mapped
      <4>2. At("notHeld", o)
        BY <1>1, <1>2, <3>3 DEF At
      <4>3. /\ OneAwaits(o)' /\ TheirOwn(o)'
            /\ \A name \in AtKinds : At(name, o)' => At(name, o)
            /\ \A name \in AmongKinds : Among(name, o)' => Among(name, o)
        <5>1. OneAwaits(o) /\ TheirOwn(o) /\ \A f \in AskOf(o)' : f \in AskOf(o) /\ ask'[f].user = ask[f].user
          BY <3>1, <4>1 DEF EndsOf
        <5>2. s.step \notin {"await", "leave"} /\ s.step \notin AtKinds /\ s.step \notin AmongKinds
          BY <2>2 DEF AtKinds, AmongKinds
        <5> QED
          BY <2>3, <5>1, <5>2, WorkOn
      <4>4. Sent(o)' /\ ~Closing(o)'
        BY <4>1 DEF Sent, Closing
      <4>5. ~At("await", o) /\ offer[o].state = "absent" /\ ~At("await", o)'
        BY <3>1, <4>1, <4>2, <4>3 DEF EndsOf, AtKinds
      <4>6. EndsMeet(o)'
        BY <1>3, <4>1, <4>4, <4>5 DEF EndsMeet
      <4> QED
        BY <1>3, <1>5, <3>1, <4>1, <4>3, <4>5, <4>6 DEF EndsOf, AtKinds, AmongKinds
    <3> QED
      BY <3>2, <3>3
  <2> QED
    BY <2>5, <2>6, <2>7, <2>8 DEF RestParts, BothEnds
<1> QED
  BY <1>1, <1>2, <1>4, <1>5 DEF NotHeld

\* failReedNotHeld: an event that says which peer it is for starts a notification,
\* and one that does not was answered to nobody.
LEMMA HomeGivesUpRest ==
    ASSUME BorderInv, RestParts, NEW p \in Offers, HomeGivesUp(p)
    PROVE  RestParts'
<1>1. /\ offer' = [offer EXCEPT ![p].state = "absent"]
      /\ ask' = ask /\ parted' = parted /\ nextAsk' = nextAsk /\ nextOffer' = nextOffer /\ dropped' = dropped
      /\ present' = present /\ copies' = copies
  BY DEF HomeGivesUp, askVars, history
<1>2. /\ offer'[p].state = "absent" /\ offer'[p].answer = offer[p].answer
      /\ \A o \in Offers : o # p => offer'[o] = offer[o]
  BY <1>1 DEF BorderInv, BorderTypeOK, OfferRow
<1>3. \A f \in Asks : KeptOrGone(f)
  BY <1>1, Counters DEF KeptOrGone
<1>4. \A o \in Offers : EndsOf(o) /\ AskOf(o)' = AskOf(o)
  BY <1>1 DEF RestParts, BothEnds, AskOf, Crossing, Asked
<1>5. p < nextOffer' /\ ~(p >= nextOffer')
  <2>1. ~(p >= nextOffer)
    BY <1>4 DEF HomeGivesUp, EndsOf
  <2> QED
    BY <1>1, <2>1, Counters
<1>6. CASE offer[p].state = "mute"
  <2>1. todo' = todo
    BY <1>6 DEF HomeGivesUp
  <2>2. Shaped' /\ Handling' /\ Leaving' /\ Minted'
    BY <1>1, <1>3, <2>1, KindsSteady
  <2>3. Carried' /\ Served'
    BY <1>1, <2>1 DEF RestParts, Carried, Served, LocalHolder, Crossings, Waiting, Crossing, Asked,
       Carrying, Owns, Now, Promotes
  <2>4. /\ \A name, o : (At(name, o)' <=> At(name, o)) /\ (Among(name, o)' <=> Among(name, o))
        /\ \A o \in Offers : /\ OneAwaits(o)' <=> OneAwaits(o)
                             /\ TheirOwn(o)' <=> TheirOwn(o)
                             /\ Closing(o)' <=> Closing(o)
                             /\ Mapped(o)' <=> Mapped(o)
                             /\ Sent(o)' <=> Sent(o)
    BY <1>1, <1>4, <2>1 DEF At, Among, OneAwaits, TheirOwn, Closing, Closes, Mapped, Sent, Now
  <2>5. \A o \in Offers : o # p => EndsOf(o)'
    BY <1>1, <1>2, <1>4, <2>4 DEF EndsOf, EndsMeet
  <2>6. EndsOf(p)'
    <3>1. EndsOf(p) /\ ~Mapped(p) /\ offer[p].answer = "none"
      BY <1>4, <1>6 DEF EndsOf
    <3>2. Sent(p)
      BY <3>1 DEF Mapped, Sent
    <3>3. EndsMeet(p) => EndsMeet(p)'
      BY <1>2, <2>4, <3>1, <3>2 DEF EndsMeet
    <3> QED
      BY <1>1, <1>2, <1>5, <2>4, <3>1, <3>3 DEF EndsOf
  <2> QED
    BY <2>2, <2>3, <2>5, <2>6 DEF RestParts, BothEnds
<1>7. CASE offer[p].state = "open"
  <2>1. PICK t \in Goroutines : t = Delivery(p) /\ ~IsHandler(t) /\ ~IsTeardown(t)
    BY GoroutineNames
  <2>2. PICK s \in Step : /\ s = [step |-> "notHeld", p |-> p] /\ s.step = "notHeld" /\ s.p = p
                          /\ s.step \notin AckKinds
    BY StepsMade DEF AckKinds
  <2>3. todo[t] = <<>> /\ todo' = [todo EXCEPT ![t] = <<s>>]
    BY <1>7, <2>1, <2>2 DEF HomeGivesUp, BorderIdle
  <2>4. Turns(t, s, t, s) /\ PlainQueue(todo'[t])
    BY <2>2, <2>3, Starts DEF RestParts, Moves, Advances
  <2>5. Now(t).step = "idle" /\ ~Carrying(t) /\ \A e : ~Owns(t, e)
    BY <2>3, IdleThere DEF RestParts
  <2>6. Shaped' /\ Handling' /\ Leaving' /\ Minted'
    <3>1. s.step \notin {"record", "leave"} /\ s.step \notin Opening /\ \A o \in Offers : Names(s, o) => o < nextOffer
      BY <1>1, <1>5, <2>2 DEF Opening, Names
    <3> QED
      BY <1>1, <1>3, <2>1, <2>4, <3>1, KindsTurn
  <2>7. Carried' /\ Served'
    BY <1>1, <2>4, <2>5, CarrySame
  <2>8. \A e : ~Ending(Now(t), e) /\ ~Ending(s, e)
    BY <2>2, <2>5 DEF Ending
  <2>9. ASSUME NEW o \in Offers PROVE EndsOf(o)'
    <3>1. CASE o # p
      <4>1. OthersAside(o)
        <5>1. ~Concerns(Now(t), o) /\ ~Concerns(s, o)
          BY <2>2, <2>5, <3>1 DEF Concerns
        <5> QED
          BY <2>4, <2>8, <5>1, TurnsAside
      <4> QED
        BY <1>1, <1>2, <1>4, <3>1, <4>1, EndsAside
    <3>2. CASE o = p
      <4>1. /\ OneAwaits(o)' /\ TheirOwn(o)'
            /\ \A name \in {"await", "record", "markHome"} : At(name, o)' <=> At(name, o)
            /\ At("notHeld", o)'
            /\ \A name \in AmongKinds : Among(name, o)' <=> Among(name, o)
        <5>1. OneAwaits(o) /\ TheirOwn(o) /\ \A f \in AskOf(o)' : f \in AskOf(o) /\ ask'[f].user = ask[f].user
          BY <1>1, <1>4 DEF EndsOf
        <5>2. Now(t).step \notin AtKinds /\ Now(t).step \notin AmongKinds
          BY <2>5 DEF AtKinds, AmongKinds
        <5>3. s.step = "notHeld" /\ s.p = o
          BY <2>2, <3>2
        <5> QED
          BY <2>4, <5>1, <5>2, <5>3, WorkOn DEF AtKinds, AmongKinds
      <4>2. (Mapped(o)' <=> Mapped(o)) /\ (Sent(o)' <=> Sent(o))
        BY <1>1, <1>4 DEF Mapped, Sent
      <4>3. EndsMeet(o) => EndsMeet(o)'
        BY <1>2, <3>2, <4>1, <4>2 DEF EndsMeet, AmongKinds
      <4> QED
        BY <1>1, <1>2, <1>4, <1>5, <3>2, <4>1, <4>2, <4>3 DEF EndsOf, AmongKinds
    <3> QED
      BY <3>1, <3>2
  <2> QED
    BY <2>6, <2>7, <2>9 DEF RestParts, BothEnds
<1> QED
  BY <1>6, <1>7 DEF HomeGivesUp

\* recordForeignRelayRequest: the event says which peer it is for, or the caller
\* hears of an error.
LEMMA RecordRest ==
    ASSUME BorderInv, RestParts, NEW t \in Goroutines, Record(t)
    PROVE  RestParts'
<1>1. /\ todo[t] # <<>> /\ Now(t) = Arg(t) /\ Now(t).step = "record" /\ Now(t) \in Step
      /\ Now(t).step \notin AckKinds
  <2>1. Doing(t, "record")
    BY DEF Record
  <2>2. todo[t] # <<>>
    BY <2>1 DEF Doing
  <2> QED
    BY <2>1, <2>2, NowIs DEF RestParts, AckKinds
<1>2. PICK p \in Offers : p = Now(t).p
  BY <1>1, StepShapes
<1>3. t = <<"handler", p>> /\ ~Promotes(t) /\ p < nextOffer
  BY <1>1, <1>2 DEF RestParts, Handling, Minted, Names
<1>4. /\ ask' = ask /\ parted' = parted /\ nextAsk' = nextAsk /\ nextOffer' = nextOffer /\ dropped' = dropped
      /\ present' = present /\ copies' = copies /\ Then(t, <<>>)
  BY DEF Record, askVars, history
<1>5. PICK answer : /\ answer # "none"
                    /\ offer' = [offer EXCEPT ![p] = IF @.state = "mute" THEN [state |-> "open", answer |-> answer]
                                                     ELSE [@ EXCEPT !.answer = "error"]]
                    /\ answer \in {"ok", "accepted"}
  <2>1. CASE Arg(t).online = TRUE
    BY <1>1, <1>2, <2>1 DEF Record
  <2>2. CASE Arg(t).online = FALSE
    BY <1>1, <1>2, <2>2 DEF Record
  <2>3. Arg(t).online \in BOOLEAN
    BY <1>1 DEF Step
  <2> QED
    BY <2>1, <2>2, <2>3
<1>6. /\ \A o \in Offers : o # p => offer'[o] = offer[o]
      /\ offer[p].state = "mute" => offer'[p].state = "open" /\ offer'[p].answer = answer
      /\ offer[p].state # "mute" => offer'[p].state = offer[p].state /\ offer'[p].answer = "error"
  BY <1>5 DEF BorderInv, BorderTypeOK, OfferRow
<1>7. Turns(t, IdleStep, t, IdleStep) /\ PlainQueue(todo'[t]) /\ todo'[t] = <<>>
  BY <1>1, <1>3, <1>4, GoesOn DEF RestParts, Moves, Advances
<1>8. PICK s : s = IdleStep /\ s.step = "idle"
  <2>1. IdleStep.step = "idle"
    BY DEF IdleStep
  <2> QED
    BY <2>1
<1>9. Turns(t, s, t, s)
  BY <1>7, <1>8
<1>10. Shaped' /\ Handling' /\ Leaving' /\ Minted'
  <2>1. \A f \in Asks : KeptOrGone(f)
    BY <1>4, Counters DEF KeptOrGone
  <2>2. s.step \notin {"record", "leave"} /\ s.step \notin Opening /\ \A o \in Offers : ~Names(s, o)
    BY <1>8 DEF Opening, Names
  <2> QED
    BY <1>1, <1>4, <1>7, <1>9, <2>1, <2>2, KindsTurn
<1>11. Carried' /\ Served'
  <2>1. ~Carrying(t) /\ \A e : ~Owns(t, e)
    BY <1>1, <1>3 DEF Carrying, Owns, Opening
  <2> QED
    BY <1>4, <1>9, <2>1, CarrySame
<1>12. ASSUME NEW o \in Offers PROVE EndsOf(o)'
  <2>1. EndsOf(o) /\ AskOf(o)' = AskOf(o)
    BY <1>4 DEF RestParts, BothEnds, AskOf, Crossing, Asked
  <2>2. CASE o # p
    <3>1. OthersAside(o)
      <4>1. ~Concerns(Now(t), o) /\ ~Concerns(s, o) /\ \A f : ~Ending(Now(t), f) /\ ~Ending(s, f)
        BY <1>1, <1>2, <1>8, <2>2 DEF Concerns, Ending
      <4> QED
        BY <1>9, <4>1, TurnsAside
    <3> QED
      BY <1>4, <1>6, <2>1, <2>2, <3>1, EndsAside
  <2>3. CASE o = p
    <3>1. At("record", o)
      BY <1>1, <1>2, <2>3 DEF At
    <3>2. ~At("record", o)'
      <4>1. SUFFICES ASSUME NEW g \in Goroutines, Now(g)'.step = "record", Now(g)'.p = o PROVE FALSE
        BY DEF At
      <4>2. g = <<"handler", o>>
        BY <1>10, <4>1 DEF Handling
      <4>3. Now(g)' = s
        BY <1>3, <1>9, <2>3, <4>2 DEF Turns, Now
      <4> QED
        BY <1>8, <4>1, <4>3
    <3>3. offer[o].answer = "none" /\ ~Mapped(o) /\ ~Mapped(o)' /\ Sent(o)' /\ ~Closing(o)'
      <4>1. offer[o].answer = "none" /\ ~Mapped(o)
        BY <2>1, <3>1 DEF EndsOf
      <4> QED
        BY <2>1, <4>1 DEF Mapped, Sent, Closing
    <3>4. /\ OneAwaits(o)' /\ TheirOwn(o)'
          /\ \A name \in {"await", "markHome", "notHeld"} : At(name, o)' <=> At(name, o)
          /\ \A name \in AmongKinds : Among(name, o)' <=> Among(name, o)
      <4>1. OneAwaits(o) /\ TheirOwn(o) /\ \A f \in AskOf(o)' : f \in AskOf(o) /\ ask'[f].user = ask[f].user
        BY <1>4, <2>1 DEF EndsOf
      <4>2. s.step \notin {"await", "leave"} /\ s.step \notin AtKinds /\ s.step \notin AmongKinds
        BY <1>8 DEF AtKinds, AmongKinds
      <4> QED
        BY <1>1, <1>9, <4>1, <4>2, WorkOn DEF AtKinds, AmongKinds
    <3>5. EndsMeet(o) => EndsMeet(o)'
      BY <1>5, <1>6, <2>3, <3>3, <3>4 DEF EndsMeet, AmongKinds
    <3>6. ~(o >= nextOffer')
      BY <1>3, <1>4, <2>3, Counters
    <3> QED
      BY <1>4, <1>6, <2>1, <2>3, <3>2, <3>3, <3>4, <3>5, <3>6 DEF EndsOf, AmongKinds
  <2> QED
    BY <2>2, <2>3
<1> QED
  BY <1>10, <1>11, <1>12 DEF RestParts, BothEnds

\* registerReedRequest: a new event at the home server, whose handler says which
\* peer it is for while the caller waits for the answer.
LEMMA RegisterRest ==
    ASSUME BorderInv, RestParts, NEW t \in Goroutines, Register(t)
    PROVE  RestParts'
<1>1. /\ todo[t] # <<>> /\ Now(t) = Arg(t) /\ Now(t).step = "register" /\ Now(t) \in Step
      /\ Now(t).step \notin AckKinds /\ ~IsHandler(t)
  <2>1. Doing(t, "register") /\ todo[t] # <<>>
    BY DEF Register, Doing
  <2>2. Now(t) = Arg(t) /\ Now(t).step = "register" /\ Now(t) \in Step
    BY <2>1, NowIs DEF RestParts
  <2> QED
    BY <2>1, <2>2, NoHandler DEF AckKinds
<1>2. PICK e \in Asks, b \in BOOLEAN : e = Now(t).e /\ b = Now(t).promoting /\ e < nextAsk
  BY <1>1, StepShapes DEF RestParts, Minted, Opening
<1>3. PICK p \in Offers : p = nextOffer
  BY DEF Register
<1>4. PICK h \in Goroutines : h = <<"handler", p>> /\ IsHandler(h) /\ ~IsTeardown(h)
  BY GoroutineNames
<1>5. PICK s \in Step : /\ s = [step |-> "await", e |-> e, p |-> p, promoting |-> b]
                        /\ s.step = "await" /\ s.e = e /\ s.p = p /\ s.promoting = b /\ s.step \notin AckKinds
  BY StepsMade DEF AckKinds
<1>6. PICK r \in Step : /\ r = [step |-> "record", p |-> p, online |-> home = "online"]
                        /\ r.step = "record" /\ r.p = p /\ r.step \notin AckKinds
  BY StepsMade DEF AckKinds
<1>7. /\ ask' = ask /\ parted' = parted /\ nextAsk' = nextAsk /\ nextOffer' = nextOffer + 1 /\ dropped' = dropped
      /\ present' = present /\ copies' = copies /\ offer' = [offer EXCEPT ![p].state = "mute"]
  BY <1>3 DEF Register, askVars, history
<1>8. \A g \in Goroutines, o \in Offers : Names(Now(g), o) => o < nextOffer /\ o # p
  BY <1>3, Counters DEF RestParts, Minted
<1>9. t # h /\ todo[h] = <<>>
  <2>1. Now(h).step = "record" => h = <<"handler", Now(h).p>>
    BY DEF RestParts, Handling
  <2>2. Now(h).step # "record"
    BY <1>4, <1>8, <2>1 DEF Names
  <2> QED
    BY <1>1, <1>4, <2>2 DEF RestParts, Handling
<1>10. PICK q \in Seq(Step) : q = todo[t] /\ q # <<>> /\ PlainQueue(q) /\ Now(t) = FirstOf(q)
  BY <1>1, NowIs DEF Now, RestParts
<1>11. PICK rest \in Seq(Step) : rest = Tail(q) /\ \A n \in DOMAIN rest : rest[n].step = "promote"
  <2>1. Tail(q) \in Seq(Step) /\ \A n \in DOMAIN Tail(q) : n + 1 \in DOMAIN q /\ n + 1 # 1 /\ Tail(q)[n] = q[n + 1]
    BY <1>10
  <2>2. \A n \in DOMAIN q : n # 1 => q[n].step = "promote"
    BY <1>10 DEF PlainQueue
  <2> QED
    BY <2>1, <2>2
<1>12. PICK all \in Seq(Step) : /\ all = <<s>> \o rest /\ FirstOf(all) = s /\ PlainQueue(all)
                                /\ PromotesIn(rest) => PromotesIn(all)
  BY <1>5, <1>11, PutFirst
<1>13. PICK one \in Seq(Step) : one = <<r>> /\ FirstOf(one) = r /\ PlainQueue(one) /\ ~PromotesIn(one)
  <2>1. <<r>> \in Seq(Step) /\ FirstOf(<<r>>) = r /\ PlainQueue(<<r>>)
    BY <1>6, OneStep
  <2>2. ~PromotesIn(<<r>>)
    BY <1>6 DEF PromotesIn
  <2> QED
    BY <2>1, <2>2
<1>14. todo' = [todo EXCEPT ![t] = all, ![h] = one]
  <2>1. todo' = [todo EXCEPT ![t] = <<s>> \o Tail(@), ![h] = one]
    BY <1>1, <1>2, <1>3, <1>4, <1>5, <1>6, <1>13 DEF Register
  <2> QED
    BY <1>10, <1>11, <1>12, <2>1 DEF BorderInv, BorderTypeOK
<1>15. todo'[t] = all /\ todo'[h] = one /\ \A g \in Goroutines \ {t, h} : todo'[g] = todo[g]
  BY <1>9, <1>14 DEF BorderInv, BorderTypeOK
<1>16. Turns(t, s, h, r)
  BY <1>12, <1>13, <1>15 DEF Turns
<1>17. /\ \A g \in Goroutines : g \notin {t, h} => Now(g)' = Now(g) /\ Promotes(g)' = Promotes(g)
       /\ Now(t)' = s /\ Now(h)' = r /\ ~Promotes(h)' /\ (Promotes(t) => Promotes(t)')
  <2>1. Promotes(t) => PromotesIn(rest)
    BY <1>1, <1>10, <1>11, RestOfPlain DEF Promotes
  <2> QED
    BY <1>12, <1>13, <1>15, <1>16, <2>1 DEF Turns, Now, Promotes
<1>18. /\ Now(h).step = "idle" /\ ~Carrying(h) /\ \A f : ~Owns(h, f)
  BY <1>9, IdleThere DEF RestParts
<1>19. Shaped'
  <2>1. SameReaders /\ nextAsk \in Nat /\ nextAsk' \in Nat /\ nextAsk <= nextAsk'
    BY <1>7, Counters DEF SameReaders, Asked
  <2> QED
    BY <1>7, <1>12, <1>13, <1>15, <1>16, <2>1, ShapedKept DEF RestParts
<1>20. Handling'
  <2>1. \A g \in Goroutines : IsHandler(g) => todo'[g] = <<>> \/ Now(g)'.step = "record"
    BY <1>1, <1>6, <1>15, <1>17 DEF RestParts, Handling
  <2>2. ASSUME NEW g \in Goroutines, Now(g)'.step = "record"
        PROVE  g = <<"handler", Now(g)'.p>> /\ ~Promotes(g)'
    <3>1. CASE g \in {t, h}
      BY <1>4, <1>5, <1>6, <1>17, <2>2, <3>1
    <3>2. CASE g \notin {t, h}
      BY <1>17, <2>2, <3>2 DEF RestParts, Handling
    <3> QED
      BY <3>1, <3>2
  <2> QED
    BY <2>1, <2>2 DEF Handling
<1>21. Leaving'
  <2>1. SUFFICES ASSUME NEW g \in Goroutines, Now(g)'.step = "leave"
                 PROVE  g = Socket(Now(g)'.u) /\ todo'[<<"teardown", Now(g)'.u>>] = <<>>
    BY DEF Leaving
  <2>2. Now(g)' = Now(g)
    BY <1>5, <1>6, <1>17, <2>1
  <2>3. g = Socket(Now(g).u) /\ todo[<<"teardown", Now(g).u>>] = <<>>
    BY <2>1, <2>2 DEF RestParts, Leaving
  <2>4. PICK u \in Viewers : u = Now(g).u
    BY <2>3 DEF Socket, Goroutines
  <2>5. <<"teardown", u>> \in Goroutines /\ <<"teardown", u>> \notin {t, h}
    BY <1>1, <1>4, <2>3, <2>4, GoroutineNames
  <2> QED
    BY <1>15, <2>2, <2>3, <2>4, <2>5
<1>22. Minted'
  <2>1. \A f \in Asks : (f >= nextAsk' => ask'[f] = NoAsk) /\ (Asked(f)' => ask'[f].user \in present')
    BY <1>7 DEF RestParts, Minted, Asked
  <2>2. \A g \in Goroutines : Now(g)'.step \in Opening => Now(g)'.e < nextAsk'
    BY <1>2, <1>5, <1>6, <1>7, <1>17 DEF RestParts, Minted, Opening
  <2>3. ASSUME NEW g \in Goroutines, NEW o \in Offers, Names(Now(g)', o) PROVE o < nextOffer'
    <3>1. CASE g \in {t, h}
      <4>1. o = p
        BY <1>5, <1>6, <1>17, <2>3, <3>1 DEF Names
      <4> QED
        BY <1>3, <1>7, <4>1, Counters
    <3>2. CASE g \notin {t, h}
      <4>1. o < nextOffer
        BY <1>8, <1>17, <2>3, <3>2
      <4> QED
        BY <1>7, <4>1, Counters
    <3> QED
      BY <3>1, <3>2
  <2> QED
    BY <2>1, <2>2, <2>3 DEF Minted
<1>23. Carried' /\ Served'
  <2>1. /\ LocalHolder' = LocalHolder
        /\ Crossings' = Crossings /\ Waiting' = Waiting
        /\ \A f \in Asks : Crossing(f)' <=> Crossing(f)
    BY <1>7 DEF LocalHolder, Crossings, Waiting, Crossing, Asked
  <2>2. Carrying(t) => Carrying(t)'
    BY <1>1, <1>2, <1>5, <1>17 DEF Carrying
  <2>3. \A f : Owns(t, f) => Owns(t, f)'
    BY <1>1, <1>2, <1>5, <1>17 DEF Owns, Opening
  <2>4. Carried'
    BY <1>7, <1>16, <1>18, <2>1, <2>2, <2>3, CarriedKept DEF RestParts
  <2>5. Served'
    BY <1>7, <2>1 DEF RestParts, Served
  <2> QED
    BY <2>4, <2>5
<1>24. ASSUME NEW o \in Offers PROVE EndsOf(o)'
  <2>1. EndsOf(o) /\ AskOf(o)' = AskOf(o)
    BY <1>7 DEF RestParts, BothEnds, AskOf, Crossing, Asked
  <2>2. CASE o # p
    <3>1. OthersAside(o)
      <4>1. ~Concerns(Now(t), o) /\ ~Concerns(Now(h), o) /\ ~Concerns(s, o) /\ ~Concerns(r, o)
        BY <1>1, <1>5, <1>6, <1>18, <2>2 DEF Concerns
      <4>2. \A f : ~Ending(Now(t), f) /\ ~Ending(Now(h), f) /\ ~Ending(s, f) /\ ~Ending(r, f)
        BY <1>1, <1>5, <1>6, <1>18 DEF Ending
      <4> QED
        BY <1>16, <4>1, <4>2, TurnsAside
    <3>2. offer'[o] = offer[o] /\ (o >= nextOffer' => o >= nextOffer)
      <4>1. offer'[o] = offer[o]
        BY <1>7, <2>2 DEF BorderInv, BorderTypeOK
      <4>2. o \in Nat /\ nextOffer \in Nat
        BY Counters
      <4> QED
        BY <1>7, <4>1, <4>2
    <3> QED
      BY <1>7, <2>1, <3>1, <3>2, EndsAside
  <2>3. CASE o = p
    <3>1. offer[o].answer = "none" /\ o \notin parted
      BY <1>3, <2>1, <2>3, Counters DEF EndsOf
    <3>2. offer'[o].state = "mute" /\ offer'[o].answer = "none"
      BY <1>7, <2>3, <3>1 DEF BorderInv, BorderTypeOK, OfferRow
    <3>3. AskOf(o) = {}
      <4>1. \A f \in Asks : ask[f].offer # 0 => ask[f].offer < nextOffer
        BY DEF BorderInv, AsksNamed
      <4>2. \A f \in AskOf(o) : f \in Asks /\ ask[f].offer = o /\ ask[f].offer # 0
        BY DEF AskOf, Crossing
      <4>3. nextOffer \in Nat /\ ~(nextOffer < nextOffer)
        BY Counters
      <4> QED
        BY <1>3, <2>3, <4>1, <4>2, <4>3
    <3>4. ~Mapped(o)' /\ Sent(o)' /\ ~Closing(o)'
      BY <2>1, <3>3 DEF Mapped, Sent, Closing
    <3>5. \A g \in Goroutines : Names(Now(g)', o) => g \in {t, h}
      BY <1>8, <1>17, <2>3
    <3>6. OneAwaits(o)' /\ At("await", o)'
      <4>1. \A g \in Goroutines : Now(g)'.step = "await" /\ Now(g)'.p = o => g = t
        BY <1>6, <1>17, <3>5 DEF Names
      <4> QED
        BY <1>5, <1>17, <2>3, <4>1 DEF OneAwaits, At
    <3>7. TheirOwn(o)' /\ ~Among("leave", o)' /\ ~Among("cancel", o)'
      <4>1. \A g \in Goroutines : Now(g)'.step \in {"leave", "cancel"} => o \notin Now(g)'.ps
        BY <1>5, <1>6, <1>17, <3>5 DEF Names
      <4> QED
        BY <4>1 DEF TheirOwn, Among
    <3>8. ~At("markHome", o)' /\ ~At("notHeld", o)'
      <4>1. \A g \in Goroutines : Now(g)'.step \in {"markHome", "notHeld"} => Now(g)'.p # o
        BY <1>5, <1>6, <1>17, <3>5 DEF Names
      <4> QED
        BY <4>1 DEF At
    <3>9. ~(o >= nextOffer')
      BY <1>3, <1>7, <2>3, Counters
    <3> QED
      BY <3>2, <3>4, <3>6, <3>7, <3>8, <3>9 DEF EndsOf, EndsMeet
  <2> QED
    BY <2>2, <2>3
<1> QED
  BY <1>19, <1>20, <1>21, <1>22, <1>23, <1>24 DEF RestParts, BothEnds

\* Who opened an ask is done with it, and the loop of a promotion goes on.
LEMMA OpenerGoes ==
    ASSUME BorderInv, RestParts, NEW t \in Goroutines, NEW name \in {"register", "await"}, Doing(t, name),
           Then(t, IF Arg(t).promoting THEN <<[step |-> "promote"]>> ELSE <<>>)
    PROVE  \E s : /\ s.step \in {"idle", "promote"} /\ s.step \notin Opening
                  /\ \A o : ~Concerns(s, o) /\ ~Names(s, o) /\ ~Ending(s, o)
                  /\ Turns(t, s, t, s) /\ PlainQueue(todo'[t])
                  /\ Carrying(t) => Carrying(t)'
<1>1. /\ todo[t] # <<>> /\ Now(t) = Arg(t) /\ Now(t).step = name /\ Now(t) \in Step
      /\ Now(t).step \notin AckKinds /\ Now(t).step # "promote"
  <2>1. todo[t] # <<>> /\ name # "idle"
    BY DEF Doing
  <2> QED
    BY <2>1, NowIs DEF RestParts, AckKinds
<1>2. PICK b \in BOOLEAN : b = Now(t).promoting
  BY <1>1, StepShapes
<1>3. CASE b = TRUE
  <2>1. PICK s \in Step : /\ s = [step |-> "promote"] /\ s.step = "promote" /\ s.step \notin AckKinds
    BY StepsMade DEF AckKinds
  <2>2. Then(t, <<s>>)
    BY <1>1, <1>2, <1>3, <2>1
  <2>3. Turns(t, s, t, s) /\ PlainQueue(todo'[t]) /\ Promotes(t)'
    BY <1>1, <2>1, <2>2, MovesTo
  <2>4. s.step \notin Opening /\ \A o : ~Concerns(s, o) /\ ~Names(s, o) /\ ~Ending(s, o)
    BY <2>1 DEF Opening, Concerns, Names, Ending
  <2> QED
    BY <2>1, <2>3, <2>4 DEF Carrying
<1>4. CASE b = FALSE
  <2>1. Then(t, <<>>)
    BY <1>1, <1>2, <1>4
  <2>2. PICK s : /\ s.step \in {"idle", "promote"} /\ s.step \notin Opening
                 /\ \A o : ~Concerns(s, o) /\ ~Names(s, o) /\ ~Ending(s, o)
                 /\ Turns(t, s, t, s) /\ PlainQueue(todo'[t])
                 /\ Promotes(t) /\ Now(t).step # "promote" => Promotes(t)'
    BY <1>1, <2>1, RestsFrom
  <2>3. Carrying(t) => Carrying(t)'
    BY <1>1, <1>2, <1>4, <2>2 DEF Carrying
  <2> QED
    BY <2>2, <2>3
<1> QED
  BY <1>3, <1>4

\* failForeignRequest: the ask goes, and what it had crossed with is parted.
LEMMA FailsRest ==
    ASSUME BorderInv, RestParts, NEW t \in Goroutines, NEW name \in {"register", "await"}, Doing(t, name),
           Fails(t, Arg(t).e, Arg(t).promoting), offer' = offer,
           nextAsk' = nextAsk, nextOffer' = nextOffer, present' = present, copies' = copies,
           \A o \in Offers : o \in parted' <=> o \in parted \/ o \in OfferOf(Arg(t).e) \/ Concerns(Now(t), o)
    PROVE  RestParts'
<1>1. /\ todo[t] # <<>> /\ Now(t) = Arg(t) /\ Now(t).step = name /\ Now(t) \in Step /\ ~IsHandler(t)
  <2>1. todo[t] # <<>> /\ name # "idle"
    BY DEF Doing
  <2>2. Now(t) = Arg(t) /\ Now(t).step = name /\ Now(t) \in Step
    BY <2>1, NowIs DEF RestParts
  <2> QED
    BY <2>1, <2>2, NoHandler
<1>2. PICK e \in Asks : e = Now(t).e /\ e = Arg(t).e
  BY <1>1, StepShapes
<1>3. /\ ask' = [ask EXCEPT ![e] = NoAsk] /\ dropped' = (dropped \/ Crossing(e))
      /\ Then(t, IF Arg(t).promoting THEN <<[step |-> "promote"]>> ELSE <<>>)
  BY <1>2 DEF Fails
<1>4. PICK s : /\ s.step \in {"idle", "promote"} /\ s.step \notin Opening
               /\ \A o : ~Concerns(s, o) /\ ~Names(s, o) /\ ~Ending(s, o)
               /\ Turns(t, s, t, s) /\ PlainQueue(todo'[t])
               /\ Carrying(t) => Carrying(t)'
  BY <1>3, OpenerGoes
<1>5. /\ ask'[e] = NoAsk /\ \A f \in Asks : f # e => ask'[f] = ask[f]
      /\ \A f \in Asks : KeptOrGone(f)
      /\ Crossings' = Crossings \ {e} /\ Waiting' = Waiting \ {e}
      /\ \A f \in Asks : Crossing(f)' <=> f # e /\ Crossing(f)
      /\ \A o \in Offers : AskOf(o)' = AskOf(o) \ {e}
      /\ \A o \in Offers : e \in AskOf(o) => o \in OfferOf(e)
      /\ \A o \in OfferOf(e) : o < nextOffer
  BY <1>3, RowEnds
<1>6. Shaped' /\ Handling' /\ Leaving' /\ Minted'
  BY <1>1, <1>4, <1>5, KindsTurn
<1>7. LocalHolder' = LocalHolder
  BY DEF LocalHolder
<1>8. Carried'
  <2>1. Crossings # {} => Crossings' # {} \/ dropped'
    BY <1>3, <1>5 DEF Crossings
  <2>2. \A f \in Waiting' : f \in Waiting /\ f # e
    BY <1>5
  <2>3. \A f : Owns(t, f) => f = e
    BY <1>2 DEF Owns
  <2> QED
    BY <1>3, <1>4, <1>7, <2>1, <2>2, <2>3, CarriedKept DEF RestParts
<1>9. Served'
  <2>1. ask'[e].relayed = FALSE
    BY <1>5, Counters
  <2> QED
    BY <1>3, <1>5, <1>7, <2>1 DEF RestParts, Served
<1>10. ASSUME NEW o \in Offers PROVE EndsOf(o)'
  <2>1. EndsOf(o) /\ AskOf(o) \subseteq Asks /\ AskOf(o)' = AskOf(o) \ {e}
    BY <1>5 DEF RestParts, BothEnds, AskOf
  <2>2. CASE o \in OfferOf(e) \/ Concerns(Now(t), o)
    <3>1. o < nextOffer
      BY <1>1, <1>5, <2>2 DEF RestParts, Minted, Concerns, Names
    <3>2. o \in parted' /\ offer'[o] = offer[o] /\ o < nextOffer' /\ nextOffer' \in Nat /\ o \in Nat
      BY <1>2, <2>2, <3>1, Counters
    <3>3. \A f \in AskOf(o)' : f \in AskOf(o) /\ ask'[f].user = ask[f].user
      BY <1>5, <2>1
    <3> QED
      BY <1>4, <2>1, <3>2, <3>3, EndsParted
  <2>3. CASE o \notin OfferOf(e) /\ ~Concerns(Now(t), o)
    <3>1. e \notin AskOf(o) /\ (o \in parted' <=> o \in parted)
      BY <1>2, <1>5, <2>3
    <3>2. OthersAside(o)
      <4>1. \A f : ~Ending(Now(t), f)
        BY <1>1 DEF Ending
      <4> QED
        BY <1>4, <2>3, <4>1, TurnsAside
    <3>3. \A f \in AskOf(o) : ask'[f].user = ask[f].user /\ ask'[f].relayed = ask[f].relayed
      BY <1>5, <2>1, <3>1
    <3> QED
      BY <2>1, <3>1, <3>2, <3>3, EndsAside
  <2> QED
    BY <2>2, <2>3
<1> QED
  BY <1>6, <1>8, <1>9, <1>10 DEF RestParts, BothEnds

\* The call that fails, and the answer that does not become a crossing.
LEMMA CrossingFailsRest ==
    ASSUME BorderInv, RestParts, NEW t \in Goroutines, RegisterFails(t) \/ CrossFails(t)
    PROVE  RestParts'
<1>1. CASE RegisterFails(t)
  <2>1. Doing(t, "register") /\ Now(t).step = "register"
    BY <1>1, NowIs DEF RegisterFails, RestParts
  <2>2. \A o : ~Concerns(Now(t), o)
    BY <2>1 DEF Concerns
  <2> QED
    BY <1>1, <2>1, <2>2, FailsRest DEF RegisterFails, homeVars
<1>2. CASE CrossFails(t)
  <2>1. Doing(t, "await") /\ Now(t).step = "await" /\ Now(t) = Arg(t)
    <3>1. Doing(t, "await") /\ todo[t] # <<>>
      BY <1>2 DEF CrossFails, Doing
    <3> QED
      BY <3>1, NowIs DEF RestParts
  <2>2. \A o : Concerns(Now(t), o) <=> o = Arg(t).p
    BY <2>1 DEF Concerns
  <2>3. /\ Fails(t, Arg(t).e, Arg(t).promoting) /\ offer' = offer
        /\ nextAsk' = nextAsk /\ nextOffer' = nextOffer /\ present' = present /\ copies' = copies
        /\ parted' = parted \cup OfferOf(Arg(t).e) \cup {Arg(t).p}
    BY <1>2 DEF CrossFails, homeVars
  <2> QED
    BY <2>1, <2>2, <2>3, FailsRest
<1> QED
  BY <1>1, <1>2

\* createForeignPendingEvent: the event that was made for the ask is mapped to it.
LEMMA CrossRest ==
    ASSUME BorderInv, RestParts, NEW t \in Goroutines, Cross(t)
    PROVE  RestParts'
<1>1. /\ todo[t] # <<>> /\ Now(t) = Arg(t) /\ Now(t).step = "await" /\ Now(t) \in Step /\ ~IsHandler(t)
  <2>1. Doing(t, "await") /\ todo[t] # <<>>
    BY DEF Cross, Doing
  <2>2. Now(t) = Arg(t) /\ Now(t).step = "await" /\ Now(t) \in Step
    BY <2>1, NowIs DEF RestParts
  <2> QED
    BY <2>1, <2>2, NoHandler
<1>2. PICK e \in Asks, p \in Offers : e = Now(t).e /\ p = Now(t).p /\ p < nextOffer
  BY <1>1, StepShapes DEF RestParts, Minted, Names
<1>3. /\ offer[p].answer = "ok" /\ Asked(e) /\ ~Crossing(e)
      /\ ask' = [ask EXCEPT ![e].offer = p]
      /\ parted' = IF AckGiven(e) THEN parted \cup {p} ELSE parted
      /\ Then(t, IF Arg(t).promoting THEN <<[step |-> "promote"]>> ELSE <<>>)
      /\ offer' = offer /\ nextAsk' = nextAsk /\ nextOffer' = nextOffer /\ dropped' = dropped
      /\ present' = present /\ copies' = copies
  BY <1>1, <1>2 DEF Cross, homeVars
<1>4. PICK s : /\ s.step \in {"idle", "promote"} /\ s.step \notin Opening
               /\ \A o : ~Concerns(s, o) /\ ~Names(s, o) /\ ~Ending(s, o)
               /\ Turns(t, s, t, s) /\ PlainQueue(todo'[t])
               /\ Carrying(t) => Carrying(t)'
  BY <1>3, OpenerGoes DEF Cross
<1>5. PICK row : row = [ask[e] EXCEPT !.offer = p] /\ ask' = [ask EXCEPT ![e] = row]
  BY <1>3
<1>6. /\ row.user = ask[e].user /\ row.offer = p /\ row.relayed = ask[e].relayed /\ p # 0
      /\ ask[e].offer = 0
  <2>1. ask[e] \in AskRow /\ 0 \notin Offers
    BY Counters
  <2>2. p # 0
    BY <2>1
  <2> QED
    BY <1>3, <1>5, <2>1, <2>2 DEF AskRow, Crossing
<1>7. ask'[e] = row /\ \A f \in Asks : f # e => ask'[f] = ask[f]
  BY <1>5 DEF BorderInv, BorderTypeOK
<1>8. /\ Crossing(e)' /\ \A f \in Asks : f # e => (Crossing(f)' <=> Crossing(f))
      /\ \A f \in Asks : Asked(f)' <=> Asked(f)
  BY <1>3, <1>6, <1>7 DEF Crossing, Asked
<1>9. Shaped' /\ Handling' /\ Leaving' /\ Minted'
  <2>1. \A f \in Asks : KeptOrGone(f)
    BY <1>3, <1>6, <1>7, Counters DEF KeptOrGone
  <2> QED
    BY <1>1, <1>3, <1>4, <2>1, KindsTurn
<1>10. Carried' /\ Served'
  <2>1. Crossings' # {}
    BY <1>8 DEF Crossings
  <2>2. LocalHolder' = LocalHolder
    BY <1>3 DEF LocalHolder
  <2>3. Carried'
    BY <2>1 DEF Carried
  <2>4. Served'
    BY <1>3, <1>7, <1>8, <2>2 DEF RestParts, Served
  <2> QED
    BY <2>3, <2>4
<1>11. \A o \in Offers : \A f \in Asks : f # e => (f \in AskOf(o)' <=> f \in AskOf(o))
  BY <1>7, <1>8 DEF AskOf
<1>12. \A o \in Offers : e \notin AskOf(o) /\ (e \in AskOf(o)' <=> o = p)
  BY <1>3, <1>6, <1>7, <1>8 DEF AskOf
<1>13. ASSUME NEW o \in Offers, o # p PROVE EndsOf(o)'
  <2>1. EndsOf(o) /\ AskOf(o) \subseteq Asks /\ \A f \in Asks : f \in AskOf(o)' <=> f \in AskOf(o)
    BY <1>11, <1>12, <1>13 DEF RestParts, BothEnds, AskOf
  <2>2. OthersAside(o)
    <3>1. ~Concerns(Now(t), o) /\ \A f : ~Ending(Now(t), f)
      BY <1>1, <1>2, <1>13 DEF Concerns, Ending
    <3> QED
      BY <1>4, <3>1, TurnsAside
  <2>3. \A f \in AskOf(o) : ask'[f].user = ask[f].user /\ ask'[f].relayed = ask[f].relayed
    BY <1>7, <1>12, <2>1
  <2>4. o \in parted' <=> o \in parted
    BY <1>3, <1>13
  <2> QED
    BY <1>3, <2>1, <2>2, <2>3, <2>4, EndsAside
<1>14. EndsOf(p)'
  <2>1. EndsOf(p) /\ At("await", p)
    BY <1>1, <1>2 DEF RestParts, BothEnds, At
  <2>2. ~Mapped(p) /\ ~Among("cancel", p) /\ ~Among("leave", p) /\ OneAwaits(p)
    BY <2>1 DEF EndsOf
  <2>3. AskOf(p)' = {e}
    <3>1. AskOf(p)' \subseteq Asks /\ AskOf(p) = {}
      BY <2>2 DEF AskOf, Mapped
    <3> QED
      BY <1>11, <1>12, <3>1
  <2>4. /\ \A g \in Goroutines : g # t => Now(g)' = Now(g)
        /\ Now(t)' = s
    BY <1>4 DEF Turns, Now
  <2>5. ~At("await", p)' /\ OneAwaits(p)'
    <3>1. \A g \in Goroutines : ~(Now(g)'.step = "await" /\ Now(g)'.p = p)
      BY <1>1, <1>2, <1>4, <2>2, <2>4 DEF OneAwaits
    <3> QED
      BY <3>1 DEF At, OneAwaits
  <2>6. /\ \A name \in {"record", "markHome", "notHeld"} : At(name, p)' <=> At(name, p)
        /\ \A name \in {"cancel", "leave"} : ~Among(name, p)'
    BY <1>1, <1>4, <2>2, <2>4 DEF At, Among
  <2>7. TheirOwn(p)'
    BY <2>6 DEF TheirOwn, Among
  <2>8. Closing(p)' => AckGiven(e)
    <3>1. SUFFICES ASSUME Closes(e)' PROVE AckGiven(e)
      BY <2>3 DEF Closing
    <3>2. PICK g \in Goroutines : Now(g)'.step = "close" /\ Now(g)'.e = e
      BY <3>1 DEF Closes
    <3>3. Now(g) = Now(g)'
      BY <1>4, <2>4, <3>2
    <3>4. Doing(g, "close")
      BY <3>2, <3>3, NowIs DEF RestParts
    <3>5. todo[g] # <<>>
      BY <3>4 DEF Doing
    <3>6. Arg(g) = Now(g)
      BY <3>5, NowIs DEF RestParts
    <3> QED
      BY <3>2, <3>3, <3>4, <3>6 DEF AckGiven
  <2>9. ~Closing(p)
    BY <2>2 DEF Closing, Mapped
  <2>10. p \notin parted' => EndsMeet(p)'
    <3>1. SUFFICES ASSUME p \notin parted' PROVE EndsMeet(p)'
      OBVIOUS
    <3>2. p \notin parted /\ ~AckGiven(e)
      BY <1>3, <3>1
    <3>3. EndsMeet(p)
      BY <2>1, <3>2 DEF EndsOf
    <3>4. Mapped(p)'
      BY <2>3 DEF Mapped
    <3> QED
      BY <1>3, <2>1, <2>5, <2>6, <2>8, <2>9, <3>2, <3>3, <3>4 DEF EndsMeet
  <2>11. ~(p >= nextOffer')
    BY <1>2, <1>3, Counters
  <2> QED
    BY <1>3, <2>1, <2>2, <2>5, <2>6, <2>7, <2>10, <2>11 DEF EndsOf
<1> QED
  BY <1>9, <1>10, <1>13, <1>14 DEF RestParts, BothEnds

\* teardownUser: what the user has crossing is theirs, and nobody waits for it.
LEMMA ViewerLeavesRest ==
    ASSUME BorderInv, RestParts, NEW u \in Viewers, ViewerLeaves(u)
    PROVE  RestParts'
<1>1. PICK t \in Goroutines : t = Socket(u) /\ ~IsHandler(t) /\ ~IsTeardown(t)
  BY GoroutineNames
<1>2. PICK ps : ps = {ask[e].offer : e \in {f \in Crossings : ask[f].user = u}}
  OBVIOUS
<1>3. \A o : o \in ps <=> \E e \in Asks : Crossing(e) /\ ask[e].user = u /\ ask[e].offer = o
  BY <1>2 DEF Crossings
<1>4. ps \in SUBSET Offers /\ \A o \in ps : o < nextOffer
  <2>1. \A e \in Asks : Crossing(e) => ask[e].offer \in Offers /\ ask[e].offer < nextOffer
    BY Counters DEF Crossing, BorderInv, AsksNamed, AskRow
  <2> QED
    BY <1>3, <2>1
<1>5. PICK s \in Step : /\ s = [step |-> "leave", u |-> u, ps |-> ps] /\ s.step = "leave"
                        /\ s.u = u /\ s.ps = ps /\ s.step \notin AckKinds
  BY <1>4, StepsMade DEF AckKinds
<1>6. /\ todo[t] = <<>> /\ todo[<<"teardown", u>>] = <<>> /\ todo' = [todo EXCEPT ![t] = <<s>>]
      /\ ask' = ask /\ offer' = offer /\ parted' = parted /\ nextAsk' = nextAsk /\ nextOffer' = nextOffer
      /\ dropped' = dropped /\ present' = present /\ copies' = copies
  BY <1>1, <1>2, <1>5 DEF ViewerLeaves, BorderIdle, askVars, homeVars, history
<1>7. Turns(t, s, t, s) /\ PlainQueue(todo'[t])
  BY <1>5, <1>6, Starts DEF RestParts, Moves, Advances
<1>8. Now(t).step = "idle" /\ ~Carrying(t) /\ \A e : ~Owns(t, e)
  BY <1>6, IdleThere DEF RestParts
<1>9. /\ \A g \in Goroutines : g # t => Now(g)' = Now(g) /\ Promotes(g)' = Promotes(g) /\ todo'[g] = todo[g]
      /\ Now(t)' = s
  BY <1>7 DEF Turns, Now, Promotes
<1>10. Shaped' /\ Minted'
  <2>1. (\A f \in Asks : KeptOrGone(f)) /\ nextAsk \in Nat /\ nextAsk <= nextAsk'
    BY <1>6, Counters DEF KeptOrGone
  <2>2. SameReaders
    BY <2>1, ReadersSame
  <2>3. s.step \notin Opening /\ \A o \in Offers : Names(s, o) => o < nextOffer
    BY <1>4, <1>5 DEF Opening, Names
  <2>4. Shaped'
    BY <1>6, <1>7, <2>1, <2>2, ShapedKept DEF RestParts
  <2>5. Minted'
    BY <1>6, <1>7, <2>1, <2>3, MintedKept DEF RestParts
  <2> QED
    BY <2>4, <2>5
<1>11. Handling'
  <2>1. \A g \in Goroutines : IsHandler(g) => todo'[g] = <<>> \/ Now(g)'.step = "record"
    BY <1>1, <1>9 DEF RestParts, Handling
  <2>2. \A g \in Goroutines : Now(g)'.step = "record" => g = <<"handler", Now(g)'.p>> /\ ~Promotes(g)'
    BY <1>5, <1>9 DEF RestParts, Handling
  <2> QED
    BY <2>1, <2>2 DEF Handling
<1>12. Leaving'
  <2>1. SUFFICES ASSUME NEW g \in Goroutines, Now(g)'.step = "leave"
                 PROVE  g = Socket(Now(g)'.u) /\ todo'[<<"teardown", Now(g)'.u>>] = <<>>
    BY DEF Leaving
  <2>2. CASE g = t
    <3>1. <<"teardown", u>> \in Goroutines /\ <<"teardown", u>> # t
      BY <1>1, GoroutineNames
    <3> QED
      BY <1>1, <1>5, <1>6, <1>9, <2>2, <3>1
  <2>3. CASE g # t
    <3>1. g = Socket(Now(g).u) /\ todo[<<"teardown", Now(g).u>>] = <<>>
      BY <1>9, <2>1, <2>3 DEF RestParts, Leaving
    <3>2. PICK v \in Viewers : v = Now(g).u
      BY <3>1 DEF Socket, Goroutines
    <3>3. <<"teardown", v>> \in Goroutines /\ <<"teardown", v>> # t
      BY <1>1, GoroutineNames DEF Socket
    <3> QED
      BY <1>9, <2>3, <3>1, <3>2, <3>3
  <2> QED
    BY <2>2, <2>3
<1>13. Carried' /\ Served'
  BY <1>6, <1>7, <1>8, CarrySame
<1>14. ASSUME NEW o \in Offers PROVE EndsOf(o)'
  <2>1. EndsOf(o) /\ AskOf(o)' = AskOf(o)
    BY <1>6 DEF RestParts, BothEnds, AskOf, Crossing, Asked
  <2>2. \A e : ~Ending(Now(t), e) /\ ~Ending(s, e)
    BY <1>5, <1>8 DEF Ending
  <2>3. CASE o \notin ps
    <3>1. OthersAside(o)
      <4>1. ~Concerns(Now(t), o) /\ ~Concerns(s, o)
        BY <1>5, <1>8, <2>3 DEF Concerns
      <4> QED
        BY <1>7, <2>2, <4>1, TurnsAside
    <3> QED
      BY <1>6, <2>1, <3>1, EndsAside
  <2>4. CASE o \in ps
    <3>1. PICK e \in AskOf(o) : ask[e].user = u
      BY <1>3, <2>4 DEF AskOf
    <3>2. AskOf(o) = {e} /\ Mapped(o) /\ o < nextOffer
      BY <1>4, <2>4, <3>1, Counters DEF Mapped
    <3>3. /\ \A name \in AtKinds : At(name, o)' <=> At(name, o)
          /\ Among("cancel", o)' <=> Among("cancel", o)
      BY <1>5, <1>8, <1>9 DEF AtKinds, At, Among
    <3>4. OneAwaits(o)' /\ TheirOwn(o)'
      <4>1. OneAwaits(o) /\ TheirOwn(o)
        BY <2>1 DEF EndsOf
      <4>2. OneAwaits(o)'
        BY <1>5, <1>9, <4>1 DEF OneAwaits
      <4>3. TheirOwn(o)'
        BY <1>5, <1>6, <1>9, <2>1, <3>1, <3>2, <4>1 DEF TheirOwn
      <4> QED
        BY <4>2, <4>3
    <3>5. ~At("await", o)
      BY <2>1, <3>2 DEF EndsOf
    <3>6. (Mapped(o)' <=> Mapped(o)) /\ (Sent(o)' <=> Sent(o)) /\ (Closing(o)' <=> Closing(o))
      <4>1. \A f : Closes(f)' <=> Closes(f)
        BY <1>5, <1>8, <1>9 DEF Closes
      <4> QED
        BY <1>6, <2>1, <4>1 DEF Mapped, Sent, Closing
    <3>7. EndsMeet(o) => EndsMeet(o)'
      BY <1>6, <3>3, <3>6 DEF EndsMeet, AtKinds
    <3>8. EndsMeet(o)' \/ o \in parted
      BY <2>1, <3>7 DEF EndsOf
    <3> QED
      BY <1>6, <2>1, <3>3, <3>4, <3>5, <3>6, <3>8 DEF EndsOf, AtKinds
  <2> QED
    BY <2>3, <2>4
<1> QED
  BY <1>10, <1>11, <1>12, <1>13, <1>14 DEF RestParts, BothEnds

\* The user's events go, and what of them had crossed is left to cancel, with a
\* promotion for each; what crossed since it was read is parted.
LEMMA LeaveRest ==
    ASSUME BorderInv, RestParts, NEW t \in Goroutines, Leave(t)
    PROVE  RestParts'
<1>1. /\ todo[t] # <<>> /\ Now(t) = Arg(t) /\ Now(t).step = "leave" /\ Now(t) \in Step
      /\ Now(t).step \notin AckKinds /\ ~IsHandler(t)
  <2>1. Doing(t, "leave") /\ todo[t] # <<>>
    BY DEF Leave, Doing
  <2>2. Now(t) = Arg(t) /\ Now(t).step = "leave" /\ Now(t) \in Step
    BY <2>1, NowIs DEF RestParts
  <2> QED
    BY <2>1, <2>2, NoHandler DEF AckKinds
<1>2. PICK u \in Viewers, ps \in SUBSET Offers : u = Now(t).u /\ ps = Now(t).ps
  BY <1>1, StepShapes
<1>3. PICK h \in Goroutines : h = <<"teardown", u>> /\ ~IsHandler(h) /\ h # t
  BY <1>1, <1>2, GoroutineNames DEF RestParts, Leaving
<1>4. t = Socket(u) /\ todo[h] = <<>>
  BY <1>1, <1>2, <1>3 DEF RestParts, Leaving
<1>5. PICK mine : mine = {e \in Asks : ask[e].user = u}
  OBVIOUS
<1>5a. PICK unread : unread = (UNION {OfferOf(e) : e \in mine}) \ ps
  OBVIOUS
<1>6. PICK work : work = IF ps = {} THEN <<>>
                         ELSE <<[step |-> "cancel", ps |-> ps]>>
                              \o [i \in 1 .. Cardinality(ps) |-> [step |-> "promote"]]
  OBVIOUS
<1>7. /\ ask' = [e \in Asks |-> IF e \in mine THEN NoAsk ELSE ask[e]]
      /\ present' = present \ {u} /\ parted' = parted \cup unread
      /\ dropped' = (dropped \/ unread # {} \/ u \in copies)
      /\ todo' = [todo EXCEPT ![t] = Tail(@), ![h] = work]
      /\ copies' = copies /\ nextAsk' = nextAsk /\ nextOffer' = nextOffer /\ offer' = offer
  BY <1>1, <1>2, <1>3, <1>5, <1>6, <1>5a DEF Leave, homeVars
<1>8. PICK q \in Seq(Step) : q = todo[t] /\ q # <<>> /\ PlainQueue(q) /\ Now(t) = FirstOf(q)
  BY <1>1, NowIs DEF Now, RestParts
<1>9. /\ todo'[t] = Tail(q) /\ todo'[h] = work
      /\ \A g \in Goroutines \ {t, h} : todo'[g] = todo[g]
  BY <1>3, <1>7, <1>8 DEF BorderInv, BorderTypeOK
<1>10. PICK s \in {IdleStep, PromoteStep} : /\ s = FirstOf(Tail(q)) /\ PlainQueue(Tail(q))
                                            /\ Promotes(t) => PromotesIn(Tail(q))
  BY <1>1, <1>8, RestOfPlain DEF Promotes
<1>11. /\ s.step \in {"idle", "promote"} /\ s.step \notin Opening
       /\ \A o : ~Concerns(s, o) /\ ~Names(s, o) /\ ~Ending(s, o)
  <2>1. s.step \in {"idle", "promote"}
    BY <1>10 DEF IdleStep, PromoteStep
  <2> QED
    BY <2>1 DEF Opening, Concerns, Names, Ending
<1>12. PICK r : /\ r = FirstOf(work) /\ PlainQueue(work)
                /\ ps = {} => r.step = "idle"
                /\ ps # {} => r.step = "cancel" /\ r.ps = ps /\ PromotesIn(work)
  <2>1. CASE ps = {}
    <3>1. work = <<>> /\ IdleStep.step = "idle"
      BY <1>6, <2>1 DEF IdleStep
    <3> QED
      BY <2>1, <3>1, NothingLeft
  <2>2. CASE ps # {}
    <3>1. PICK n \in Nat : n = Cardinality(ps) /\ n # 0
      <4>1. IsFiniteSet(Offers)
        BY BorderAssumption, FS_Interval DEF Offers
      <4>2. IsFiniteSet(ps)
        BY <4>1, FS_Subset
      <4>3. Cardinality(ps) \in Nat /\ Cardinality(ps) # 0
        BY <2>2, <4>2, FS_CardinalityType, FS_EmptySet
      <4> QED
        BY <4>3
    <3>2. PICK c, m \in Step : /\ c = [step |-> "cancel", ps |-> ps] /\ m = [step |-> "promote"]
                               /\ c.step = "cancel" /\ c.ps = ps /\ c.step \notin AckKinds /\ m.step = "promote"
      <4>1. [step |-> "cancel", ps |-> ps] \in Step /\ [step |-> "promote"] \in Step
        BY <1>2, StepsMade
      <4> QED
        BY <4>1 DEF AckKinds
    <3>3. PICK more \in Seq(Step) : more = [i \in 1 .. n |-> m]
      BY <3>2, ManyPromotes
    <3>4. DOMAIN more = 1 .. n /\ 1 \in DOMAIN more /\ \A i \in DOMAIN more : more[i].step = "promote"
      BY <3>1, <3>2, <3>3
    <3>5. PromotesIn(more)
      BY <3>4 DEF PromotesIn
    <3>6. work = <<c>> \o more
      BY <1>6, <2>2, <3>1, <3>2, <3>3
    <3>7. FirstOf(work) = c /\ PlainQueue(work) /\ PromotesIn(work)
      BY <3>2, <3>4, <3>5, <3>6, PutFirst
    <3> QED
      BY <2>2, <3>2, <3>7
  <2> QED
    BY <2>1, <2>2
<1>13. r.step \in {"idle", "cancel"} /\ \A e : ~Ending(r, e)
  BY <1>12 DEF Ending
<1>14. Turns(t, s, h, r)
  BY <1>9, <1>10, <1>12 DEF Turns
<1>15. /\ \A g \in Goroutines : g \notin {t, h} => Now(g)' = Now(g) /\ Promotes(g)' = Promotes(g) /\ todo'[g] = todo[g]
       /\ Now(t)' = s /\ Now(h)' = r
       /\ Promotes(t) => Promotes(t)'
       /\ ps # {} => Promotes(h)'
  BY <1>9, <1>10, <1>12, <1>14 DEF Turns, Now, Promotes
<1>16. Now(h).step = "idle" /\ ~Carrying(h) /\ \A f : ~Owns(h, f)
  BY <1>4, IdleThere DEF RestParts
<1>17. /\ \A f \in Asks : f \in mine => ask'[f] = NoAsk
       /\ \A f \in Asks : f \notin mine => ask'[f] = ask[f]
       /\ \A f \in Asks : f \in mine <=> ask[f].user = u
       /\ mine \subseteq Asks /\ u # NoViewer
  BY <1>5, <1>7, BorderAssumption
<1>18. /\ \A f \in Asks : Asked(f)' <=> Asked(f) /\ f \notin mine
       /\ \A f \in Asks : Crossing(f)' <=> Crossing(f) /\ f \notin mine
  <2>1. \A f \in Asks : f \in mine => ~Asked(f)'
    BY <1>17, Counters DEF Asked
  <2>2. \A f \in Asks : f \notin mine => (Asked(f)' <=> Asked(f)) /\ (Crossing(f)' <=> Crossing(f))
    BY <1>17 DEF Asked, Crossing
  <2> QED
    BY <2>1, <2>2 DEF Crossing
<1>19. \A f \in Asks : KeptOrGone(f)
  BY <1>17, Counters DEF KeptOrGone
<1>20. \A f \in mine : Crossing(f) => ask[f].offer \in ps \/ ask[f].offer \in unread
  <2>1. SUFFICES ASSUME NEW f \in mine, Crossing(f) PROVE ask[f].offer \in ps \/ ask[f].offer \in unread
    OBVIOUS
  <2>2. ask[f].offer \in OfferOf(f)
    BY <2>1 DEF Crossing, OfferOf
  <2>3. ask[f].offer \in UNION {OfferOf(e) : e \in mine}
    BY <2>1, <2>2
  <2> QED
    BY <1>5a, <2>3
<1>21. Shaped'
  <2>1. SameReaders /\ nextAsk \in Nat /\ nextAsk <= nextAsk' /\ nextAsk' \in Nat
    BY <1>7, <1>19, ReadersSame, Counters
  <2> QED
    BY <1>7, <1>9, <1>10, <1>12, <1>14, <2>1, ShapedKept DEF RestParts
<1>22. Handling'
  <2>1. \A g \in Goroutines : IsHandler(g) => todo'[g] = <<>> \/ Now(g)'.step = "record"
    BY <1>1, <1>3, <1>15 DEF RestParts, Handling
  <2>2. \A g \in Goroutines : Now(g)'.step = "record" => g = <<"handler", Now(g)'.p>> /\ ~Promotes(g)'
    BY <1>11, <1>13, <1>15 DEF RestParts, Handling
  <2> QED
    BY <2>1, <2>2 DEF Handling
<1>23. Leaving'
  <2>1. SUFFICES ASSUME NEW g \in Goroutines, Now(g)'.step = "leave"
                 PROVE  g = Socket(Now(g)'.u) /\ todo'[<<"teardown", Now(g)'.u>>] = <<>>
    BY DEF Leaving
  <2>2. g \notin {t, h} /\ Now(g)' = Now(g)
    BY <1>11, <1>13, <1>15, <2>1
  <2>3. g = Socket(Now(g).u) /\ todo[<<"teardown", Now(g).u>>] = <<>>
    BY <2>1, <2>2 DEF RestParts, Leaving
  <2>4. PICK v \in Viewers : v = Now(g).u
    BY <2>3 DEF Socket, Goroutines
  <2>5. v # u
    BY <1>4, <2>2, <2>3, <2>4
  <2>6. <<"teardown", v>> \in Goroutines /\ <<"teardown", v>> # h /\ <<"teardown", v>> # t
    BY <1>3, <1>4, <2>4, <2>5, GoroutineNames DEF Socket
  <2> QED
    BY <1>15, <2>2, <2>3, <2>4, <2>6
<1>24. Minted'
  <2>1. \A f \in Asks : f >= nextAsk' => ask'[f] = NoAsk
    BY <1>7, <1>17 DEF RestParts, Minted
  <2>2. \A f \in Asks : Asked(f)' => ask'[f].user \in present'
    BY <1>7, <1>17, <1>18 DEF RestParts, Minted
  <2>3. \A g \in Goroutines : Now(g)'.step \in Opening => Now(g)'.e < nextAsk'
    BY <1>7, <1>11, <1>13, <1>15 DEF RestParts, Minted, Opening
  <2>4. ASSUME NEW g \in Goroutines, NEW o \in Offers, Names(Now(g)', o) PROVE o < nextOffer'
    <3>1. CASE g = t
      BY <1>11, <1>15, <2>4, <3>1
    <3>2. CASE g = h
      <4>1. o \in ps
        BY <1>12, <1>13, <1>15, <2>4, <3>2 DEF Names
      <4>2. Names(Now(t), o)
        BY <1>1, <1>2, <4>1 DEF Names
      <4> QED
        BY <1>7, <4>2 DEF RestParts, Minted
    <3>3. CASE g \notin {t, h}
      BY <1>7, <1>15, <2>4, <3>3 DEF RestParts, Minted
    <3> QED
      BY <3>1, <3>2, <3>3
  <2> QED
    BY <2>1, <2>2, <2>3, <2>4 DEF Minted
<1>25. LocalHolder => LocalHolder' \/ dropped'
  BY <1>7 DEF LocalHolder
<1>26. Carried'
  <2>1. CASE ps # {}
    BY <1>15, <2>1 DEF Carried, Carrying
  <2>2. CASE ps = {}
    <3>1. Crossings # {} => Crossings' # {} \/ dropped'
      <4>1. ASSUME NEW f \in Crossings, unread = {} PROVE f \in Crossings'
        BY <1>18, <1>20, <2>2, <4>1 DEF Crossings
      <4> QED
        BY <1>7, <4>1
    <3>2. \A f \in Waiting' : f \in Waiting
      BY <1>17, <1>18 DEF Waiting
    <3>3. (Carrying(t) => Carrying(t)') /\ \A f : ~Owns(t, f)
      BY <1>1, <1>15 DEF Carrying, Owns, Opening
    <3> QED
      BY <1>7, <1>14, <1>16, <1>25, <3>1, <3>2, <3>3, CarriedKept DEF RestParts
  <2> QED
    BY <2>1, <2>2
<1>27. Served'
  <2>1. \A f \in Asks : f \in mine => ask'[f].relayed = FALSE
    BY <1>17, Counters
  <2> QED
    BY <1>7, <1>17, <1>18, <1>25, <2>1 DEF RestParts, Served
<1>28. ASSUME NEW o \in Offers PROVE EndsOf(o)'
  <2>1. EndsOf(o) /\ AskOf(o) \subseteq Asks
    BY DEF RestParts, BothEnds, AskOf
  <2>2. \A f : f \in AskOf(o)' <=> f \in AskOf(o) /\ f \notin mine
    BY <1>17, <1>18 DEF AskOf
  <2>3. CASE o \notin ps /\ \A f \in AskOf(o) : f \notin mine
    <3>1. OthersAside(o)
      <4>1. ~Concerns(Now(t), o) /\ ~Concerns(Now(h), o) /\ ~Concerns(r, o)
        BY <1>1, <1>2, <1>12, <1>13, <1>16, <2>3 DEF Concerns
      <4>2. \A f : ~Ending(Now(t), f) /\ ~Ending(Now(h), f)
        BY <1>1, <1>16 DEF Ending
      <4> QED
        BY <1>11, <1>13, <1>14, <4>1, <4>2, TurnsAside
    <3>2. \A f \in AskOf(o) : ask'[f].user = ask[f].user /\ ask'[f].relayed = ask[f].relayed
      BY <1>17, <2>1, <2>3
    <3>3. o \in parted' <=> o \in parted
      <4>1. o \notin unread
        <5>1. \A f \in mine : o \in OfferOf(f) => f \in AskOf(o)
          BY <1>17 DEF OfferOf, AskOf, Crossing, Asked
        <5> QED
          BY <1>5a, <2>3, <5>1
      <4> QED
        BY <1>7, <4>1
    <3>4. \A e \in Asks : e \in AskOf(o)' <=> e \in AskOf(o)
      BY <2>2, <2>3
    <3> QED
      BY <1>7, <2>1, <3>1, <3>2, <3>3, <3>4, EndsAside
  <2>4. ASSUME o \notin ps, NEW e \in AskOf(o), e \in mine PROVE EndsOf(o)'
    <3>1. ask[e].offer = o /\ Crossing(e)
      BY <2>4 DEF AskOf
    <3>2. o \in unread
      BY <1>20, <2>4, <3>1
    <3>3. o < nextOffer
      BY <2>1, <2>4, <3>1 DEF BorderInv, AsksNamed, Crossing
    <3>4. o \in parted' /\ offer'[o] = offer[o] /\ o < nextOffer' /\ nextOffer' \in Nat /\ o \in Nat
      BY <1>7, <3>2, <3>3, Counters
    <3>5. \A f \in AskOf(o)' : f \in AskOf(o) /\ ask'[f].user = ask[f].user
      BY <1>17, <2>1, <2>2
    <3>6. ~Concerns(r, o)
      BY <1>12, <1>13, <2>4 DEF Concerns
    <3> QED
      BY <1>11, <1>14, <2>1, <3>4, <3>5, <3>6, EndsParted
  <2>5. CASE o \in ps
    <3>1. Among("leave", o) /\ TheirOwn(o) /\ OneAwaits(o)
      BY <1>1, <1>2, <2>1, <2>5 DEF Among, EndsOf
    <3>2. ~At("await", o)
      BY <2>1, <3>1 DEF EndsOf
    <3>3. AskOf(o)' = {}
      <4>1. \A f \in AskOf(o) : f \in mine
        BY <1>1, <1>2, <1>17, <2>1, <2>5, <3>1 DEF TheirOwn
      <4> QED
        BY <2>2, <4>1
    <3>4. ~Mapped(o)' /\ Sent(o)' /\ ~Closing(o)' /\ TheirOwn(o)'
      BY <3>3 DEF Mapped, Sent, Closing, TheirOwn
    <3>5. Among("cancel", o)'
      BY <1>12, <1>15, <2>5 DEF Among
    <3>6. \A name \in AtKinds : At(name, o)' <=> At(name, o)
      BY <1>1, <1>11, <1>13, <1>15, <1>16 DEF AtKinds, At
    <3>7. OneAwaits(o)'
      BY <3>2, <3>6 DEF OneAwaits, At, AtKinds
    <3>8. ~(o >= nextOffer')
      <4>1. Names(Now(t), o)
        BY <1>1, <1>2, <2>5 DEF Names
      <4>2. o < nextOffer
        BY <4>1 DEF RestParts, Minted
      <4> QED
        BY <1>7, <4>2, Counters
    <3> QED
      BY <1>7, <2>1, <3>2, <3>4, <3>5, <3>6, <3>7, <3>8 DEF EndsOf, EndsMeet, AtKinds
  <2> QED
    BY <2>3, <2>4, <2>5
<1> QED
  BY <1>21, <1>22, <1>23, <1>24, <1>26, <1>27, <1>28 DEF RestParts, BothEnds

\* CancelRelayRequestFromPeer for one of them: the home server's event goes, or
\* the offer is parted.
LEMMA CancelRest ==
    ASSUME BorderInv, RestParts, NEW t \in Goroutines, Cancel(t)
    PROVE  RestParts'
<1>1. /\ todo[t] # <<>> /\ Now(t) = Arg(t) /\ Now(t).step = "cancel" /\ Now(t) \in Step
      /\ Now(t).step \notin AckKinds /\ ~IsHandler(t)
  <2>1. Doing(t, "cancel") /\ todo[t] # <<>>
    BY DEF Cancel, Doing
  <2>2. Now(t) = Arg(t) /\ Now(t).step = "cancel" /\ Now(t) \in Step
    BY <2>1, NowIs DEF RestParts
  <2> QED
    BY <2>1, <2>2, NoHandler DEF AckKinds
<1>2. PICK ps \in SUBSET Offers : ps = Now(t).ps
  BY <1>1, StepShapes
<1>3. PICK p \in ps : /\ \/ /\ offer' = Cancelled(p) /\ parted' = parted
                         \/ /\ offer' = offer /\ parted' = parted \cup {p}
                      /\ Then(t, IF ps = {p} THEN <<>> ELSE <<[step |-> "cancel", ps |-> ps \ {p}]>>)
  BY <1>1, <1>2 DEF Cancel
<1>4. /\ ask' = ask /\ nextAsk' = nextAsk /\ nextOffer' = nextOffer /\ dropped' = dropped
      /\ present' = present /\ copies' = copies
  BY DEF Cancel, askVars
<1>5. PICK s : /\ s.step \in {"idle", "promote", "cancel"} /\ s.step \notin Opening
               /\ s.step = "cancel" => s.ps = ps \ {p}
               /\ ps # {p} => s.step = "cancel"
               /\ Turns(t, s, t, s) /\ PlainQueue(todo'[t]) /\ (Promotes(t) => Promotes(t)')
  <2>1. CASE ps = {p}
    <3>1. Then(t, <<>>)
      BY <1>3, <2>1
    <3>2. PICK s : /\ s.step \in {"idle", "promote"} /\ s.step \notin Opening
                   /\ \A o : ~Concerns(s, o) /\ ~Names(s, o) /\ ~Ending(s, o)
                   /\ Turns(t, s, t, s) /\ PlainQueue(todo'[t])
                   /\ Promotes(t) /\ Now(t).step # "promote" => Promotes(t)'
      BY <1>1, <3>1, RestsFrom
    <3> QED
      BY <1>1, <2>1, <3>2
  <2>2. CASE ps # {p}
    <3>1. PICK s \in Step : /\ s = [step |-> "cancel", ps |-> ps \ {p}] /\ s.step = "cancel" /\ s.ps = ps \ {p}
                            /\ s.step \notin AckKinds /\ s.step \notin Opening
      <4>1. [step |-> "cancel", ps |-> ps \ {p}] \in Step
        BY DEF Step
      <4> QED
        BY <4>1 DEF AckKinds, Opening
    <3>2. Then(t, <<s>>)
      BY <1>3, <2>2, <3>1
    <3>3. Turns(t, s, t, s) /\ PlainQueue(todo'[t]) /\ (Promotes(t) => Promotes(t)')
      BY <1>1, <3>1, <3>2, MovesTo
    <3> QED
      BY <3>1, <3>3
  <2> QED
    BY <2>1, <2>2
<1>6. \A o : /\ s.step = "cancel" /\ o \in s.ps => o \in ps /\ o # p
             /\ o \in ps /\ o # p => s.step = "cancel" /\ o \in s.ps
  BY <1>5
<1>7. \A o \in ps : Names(Now(t), o) /\ o < nextOffer
  <2>1. \A o \in ps : Names(Now(t), o)
    BY <1>1, <1>2 DEF Names
  <2> QED
    BY <2>1 DEF RestParts, Minted
<1>8. Shaped' /\ Handling' /\ Leaving' /\ Minted'
  <2>1. \A f \in Asks : KeptOrGone(f)
    BY <1>4, Counters DEF KeptOrGone
  <2>2. s.step \notin {"record", "leave"} /\ \A o \in Offers : Names(s, o) => o < nextOffer
    BY <1>5, <1>6, <1>7 DEF Names
  <2> QED
    BY <1>1, <1>4, <1>5, <2>1, <2>2, KindsTurn
<1>9. Carried' /\ Served'
  <2>1. (Carrying(t) => Carrying(t)') /\ \A e : ~Owns(t, e)
    BY <1>1, <1>5 DEF Carrying, Owns, Opening
  <2> QED
    BY <1>4, <1>5, <2>1, CarrySame
<1>10. ASSUME NEW o \in Offers PROVE EndsOf(o)'
  <2>1. EndsOf(o) /\ AskOf(o)' = AskOf(o)
    BY <1>4 DEF RestParts, BothEnds, AskOf, Crossing, Asked
  <2>2. /\ OneAwaits(o)' /\ TheirOwn(o)'
        /\ \A name \in AtKinds : At(name, o)' <=> At(name, o)
        /\ Among("leave", o)' <=> Among("leave", o)
        /\ Among("cancel", o)' => Among("cancel", o)
        /\ o # p /\ Among("cancel", o) => Among("cancel", o)'
    <3>1. OneAwaits(o) /\ TheirOwn(o) /\ \A f \in AskOf(o)' : f \in AskOf(o) /\ ask'[f].user = ask[f].user
      BY <1>4, <2>1 DEF EndsOf
    <3>2. s.step \notin {"await", "leave"} /\ s.step \notin AtKinds /\ Now(t).step \notin AtKinds /\ Now(t).step # "leave"
      BY <1>1, <1>5 DEF AtKinds
    <3>3. /\ OneAwaits(o)' /\ TheirOwn(o)'
          /\ \A name \in AtKinds :
                /\ At(name, o)' => At(name, o) \/ (s.step = name /\ s.p = o)
                /\ At(name, o) /\ ~(Now(t).step = name /\ Now(t).p = o) => At(name, o)'
          /\ \A name \in AmongKinds :
                /\ Among(name, o)' => Among(name, o) \/ (s.step = name /\ o \in s.ps)
                /\ Among(name, o) /\ ~(Now(t).step = name /\ o \in Now(t).ps) => Among(name, o)'
                /\ s.step = name /\ o \in s.ps => Among(name, o)'
      BY <1>5, <3>1, <3>2, WorkOn
    <3>4. o \in ps => Among("cancel", o)
      BY <1>1, <1>2 DEF Among
    <3>5. "cancel" \in AmongKinds /\ "leave" \in AmongKinds
      BY DEF AmongKinds
    <3>6. /\ Among("cancel", o)' => Among("cancel", o)
          /\ o # p /\ Among("cancel", o) => Among("cancel", o)'
      BY <1>2, <1>6, <3>3, <3>4, <3>5
    <3>7. /\ \A name \in AtKinds : At(name, o)' <=> At(name, o)
          /\ Among("leave", o)' <=> Among("leave", o)
      BY <3>2, <3>3, <3>5
    <3> QED
      BY <3>3, <3>6, <3>7
  <2>3. /\ Mapped(o)' <=> Mapped(o)
        /\ Sent(o)' <=> Sent(o)
        /\ Closing(o)' <=> Closing(o)
    <3>1. \A f : Closes(f)' <=> Closes(f)
      BY <1>1, <1>5, AfterTurns
    <3> QED
      BY <1>4, <2>1, <3>1 DEF Mapped, Sent, Closing
  <2>4. CASE o # p
    <3>1. offer'[o] = offer[o] /\ (o \in parted' <=> o \in parted)
      BY <1>3, <2>4 DEF Cancelled, BorderInv, BorderTypeOK
    <3>2. EndsMeet(o) => EndsMeet(o)'
      BY <2>2, <2>3, <2>4, <3>1 DEF EndsMeet, AtKinds
    <3> QED
      BY <1>4, <2>1, <2>2, <2>3, <2>4, <3>1, <3>2 DEF EndsOf, AtKinds
  <2>5. CASE o = p
    <3>1. Among("cancel", o)
      BY <1>1, <1>2, <2>5 DEF Among
    <3>2. ~Mapped(o) /\ ~At("await", o)
      BY <2>1, <3>1 DEF EndsOf
    <3>3. Sent(o) /\ ~Closing(o)
      BY <3>2 DEF Mapped, Sent, Closing
    <3>4. ~(o >= nextOffer')
      BY <1>4, <1>7, <2>5, Counters
    <3>5. CASE offer' = Cancelled(p) /\ parted' = parted
      <4>1. offer'[o].state = "absent" /\ offer'[o].answer = offer[o].answer
        BY <2>5, <3>5 DEF Cancelled, BorderInv, BorderTypeOK, OfferRow
      <4>2. EndsMeet(o)'
        BY <2>2, <2>3, <3>2, <3>3, <4>1 DEF EndsMeet, AtKinds
      <4> QED
        BY <1>4, <2>1, <2>2, <2>3, <3>2, <3>4, <4>1, <4>2 DEF EndsOf, AtKinds
    <3>6. CASE offer' = offer /\ parted' = parted \cup {p}
      BY <1>4, <2>1, <2>2, <2>3, <2>5, <3>2, <3>4, <3>6 DEF EndsOf, AtKinds
    <3> QED
      BY <1>3, <3>5, <3>6
  <2> QED
    BY <2>4, <2>5
<1> QED
  BY <1>8, <1>9, <1>10 DEF RestParts, BothEnds

\* Nothing has happened at a border yet.
LEMMA RestInit == BorderInit => RestParts
<1> SUFFICES ASSUME BorderInit PROVE RestParts
  OBVIOUS
<1>1. \A t \in Goroutines : todo[t] = <<>>
  BY DEF BorderInit
<1>2. IdleStep.step = "idle"
  BY DEF IdleStep
<1>3. \A t \in Goroutines : Now(t) = IdleStep /\ Now(t).step = "idle" /\ PlainQueue(todo[t]) /\ ~Promotes(t)
  BY <1>1, <1>2, NothingLeft DEF Now, Promotes
<1>4. \A e \in Asks : ask[e] = NoAsk /\ ask[e].relayed = FALSE /\ ~Asked(e) /\ ~Crossing(e)
  BY DEF BorderInit, NoAsk, Asked, Crossing
<1>5. Shaped /\ Handling /\ Leaving
  BY <1>1, <1>3 DEF Shaped, Handling, Leaving
<1>6. Minted
  <2>1. \A t \in Goroutines, p \in Offers : ~Names(Now(t), p)
    BY <1>3 DEF Names
  <2>2. \A t \in Goroutines : Now(t).step \notin Opening
    BY <1>3 DEF Opening
  <2> QED
    BY <1>4, <2>1, <2>2 DEF Minted
<1>7. Carried /\ Served
  BY <1>4 DEF Carried, Served, Waiting
<1>8. ASSUME NEW p \in Offers PROVE EndsOf(p)
  <2>1. \A name \in AtKinds : ~At(name, p)
    BY <1>3 DEF AtKinds, At
  <2>2. \A name \in AmongKinds : ~Among(name, p)
    BY <1>3 DEF AmongKinds, Among
  <2>3. AskOf(p) = {}
    BY <1>4 DEF AskOf
  <2>4. ~Mapped(p) /\ Sent(p) /\ ~Closing(p) /\ TheirOwn(p)
    BY <2>3 DEF Mapped, Sent, Closing, TheirOwn
  <2>5. OneAwaits(p)
    BY <1>3 DEF OneAwaits
  <2>6. offer[p].state = "absent" /\ offer[p].answer = "none" /\ parted = {}
    BY DEF BorderInit
  <2> QED
    BY <2>1, <2>2, <2>4, <2>5, <2>6 DEF EndsOf, EndsMeet, AtKinds, AmongKinds
<1> QED
  BY <1>5, <1>6, <1>7, <1>8 DEF RestParts, BothEnds

\* Every step keeps what a border comes to rest with.
LEMMA RestNext == BorderInv /\ RestParts /\ [BorderNext]_borderVars => RestParts'
<1> SUFFICES ASSUME BorderInv, RestParts, [BorderNext]_borderVars PROVE RestParts'
  OBVIOUS
<1>1. ASSUME NEW u \in Viewers, SocketSays(u) \/ Fan(u) \/ ViewerLeaves(u) \/ Reconnect(u)
      PROVE  RestParts'
  BY <1>1, AskRest, DataAckRest, ViewerRejectsRest, ViewerLeavesRest, MovesRest DEF SocketSays
<1>2. ASSUME NEW p \in Offers, HomeAnswers(p) \/ HomeGivesUp(p) PROVE RestParts'
  BY <1>2, HomeAnswersRest, HomeGivesUpRest
<1>3. ASSUME NEW t \in Goroutines,
             \/ OpenEvent(t) \/ Fold(t) \/ Promote(t) \/ Register(t) \/ RegisterFails(t)
             \/ Record(t) \/ Cross(t) \/ CrossFails(t)
      PROVE  RestParts'
  BY <1>3, OpenEventRest, FoldsRest, RegisterRest, CrossingFailsRest, RecordRest, CrossRest
<1>4. ASSUME NEW t \in Goroutines,
             \/ Deliver(t) \/ DeliverBroadcast(t) \/ DeliverNobody(t) \/ MarkHome(t) \/ NotHeld(t)
             \/ HolderNotify(t) \/ AckPeer(t) \/ AckPeerLost(t) \/ Close(t)
             \/ Leave(t) \/ Cancel(t)
      PROVE  RestParts'
  BY <1>4, DeliverRest, DeliverBroadcastRest, DeliverNobodyRest, MarkHomeRest, NotHeldRest,
     HolderNotifyRest, AckPeerRest, CloseRest, LeaveRest, CancelRest
<1>5. ASSUME UNCHANGED borderVars PROVE RestParts'
  BY <1>5, TableSteady DEF borderVars
<1> QED
  BY <1>1, <1>2, <1>3, <1>4, <1>5, ServeRest, MovesRest DEF BorderNext

\* What becomes of the crossings of one foreign reed: the fold keeps to
\* maxForeignCrossings, a request that waits has somebody to wait for, and once
\* every goroutine is done the two servers have the same crossings open, except
\* where a race the model names has left them different.
THEOREM CrossingsAlwaysHold == BorderSpec => []CrossingsHold
<1>1. ASSUME BorderInv, RestParts PROVE CrossingsHold
  <2>1. CappedUnlessOverlapped
    BY <1>1 DEF BorderInv, OneDecides, CappedUnlessOverlapped
  <2>2. ASSUME BorderQuiet
        PROVE  \A t \in Goroutines : Now(t).step = "idle" /\ ~Carrying(t) /\ \A e : ~Owns(t, e)
    BY <1>1, <2>2, IdleThere DEF RestParts, BorderQuiet, BorderIdle
  <2>3. CarriedUnlessDropped
    <3>1. SUFFICES ASSUME BorderQuiet, ~dropped PROVE Waiting = {} \/ LocalHolder \/ Crossings # {}
      BY DEF CarriedUnlessDropped
    <3>2. \A t \in Goroutines : ~Carrying(t) /\ \A e : ~Owns(t, e)
      BY <2>2, <3>1
    <3> QED
      BY <1>1, <3>1, <3>2 DEF RestParts, Carried
  <2>4. EndsAgreeUnlessParted
    <3>1. SUFFICES ASSUME BorderQuiet, NEW p \in Offers \ parted
                   PROVE  /\ (offer[p].state # "absent") <=> (AskOf(p) # {})
                          /\ \A e \in AskOf(p) : offer[p].state = "relayed" => ask[e].relayed
      BY DEF EndsAgreeUnlessParted
    <3>2. \A t \in Goroutines : Now(t).step = "idle"
      BY <2>2, <3>1
    <3>3. /\ ~At("await", p) /\ ~At("notHeld", p) /\ ~Among("cancel", p)
          /\ \A e : ~Closes(e)
      BY <3>2 DEF At, Among, Closes
    <3>4. EndsMeet(p)
      BY <1>1 DEF RestParts, BothEnds, EndsOf
    <3> QED
      BY <3>3, <3>4 DEF EndsMeet, Mapped, Closing, Sent
  <2> QED
    BY <2>1, <2>3, <2>4 DEF CrossingsHold, FoldHolds
<1>2. BorderInit => BorderInv /\ RestParts
  BY BorderInitInv, RestInit
<1>3. BorderInv /\ RestParts /\ [BorderNext]_borderVars => (BorderInv /\ RestParts)'
  BY BorderNextInv, RestNext
<1> QED
  BY <1>1, <1>2, <1>3, PTL DEF BorderSpec

-----------------------------------------------------------------------------
(* Blocks                                                                  *)

\* The kind of the pair's latest change; its serial is switches.
LatestKind == IF blockCert # 0 THEN "block" ELSE "unblock"

BlockIsLatest ==
    /\ blockCert \in {0, switches} /\ marks.block <= switches
    /\ blockCert # 0 => marks.block = switches
    /\ blockCert = 0 => switches = 0 \/ marks.block < switches

\* A message tells of a change there was, the one of the latest serial of the
\* latest; a body answers a request there was.
Truthful(m) ==
    IF m.kind = "data" THEN m.at <= wishes
    ELSE /\ m.at \in 1 .. switches
         /\ m.kind = "block" => m.at <= marks.block
         /\ m.at = switches => m.kind = LatestKind

MessagesTrue ==
    /\ \A m \in saying : Truthful(m)
    /\ \A n \in DOMAIN toBlocked : Truthful(toBlocked[n])
    /\ \A n \in DOMAIN acks : Truthful(acks[n])
    /\ owedBlock # NoEventRow => owedBlock = Message(LatestKind, switches) /\ switches > 0

\* What the device has acknowledged it has handled, and the row of the latest
\* change goes only with an ack of it, or of an older one it is mistaken for.
HandledAsAcked ==
    /\ marks.last <= marks.latest /\ marks.latest <= switches
    /\ marks.last = switches => (blockedBy <=> blockCert # 0)
    /\ \A n \in DOMAIN acks : acks[n].kind # "data" => acks[n].at <= marks.latest
    /\ owedBlock = NoEventRow /\ switches > 0 => marks.latest = switches \/ marks.lost = switches

\* Nobody's look-up has seen a block in force, and no body answers a request
\* before its event does.
LookedUpUnblocked ==
    /\ \A w \in Writes : /\ wanted[w].since <= switches /\ wanted[w].event <= wishes
                         /\ blockCert # 0 => wanted[w].since < marks.block
                         /\ wanted[w].since # marks.block \/ marks.block = 0
    /\ wanted["copy"].at \in {"looked", "event"} =>
          /\ \A n \in DOMAIN toBlocked : toBlocked[n] # Body(wanted["copy"].event)
          /\ \A n \in DOMAIN acks : acks[n] # Body(wanted["copy"].event)

\* The device has the copy whose body it acknowledged, or a block took it
\* away: one its request has not seen, or one that was lifted before.
Excused == hasCopy \/ dropsNewer \/ wanted["copy"].since < marks.block

CopyIsThere ==
    /\ "copy" \in stands =>
          /\ wanted["copy"].at = "no" /\ ListedHolderHasCopy
          /\ "copy" \in slippedIn \/ marks.block = 0 \/ marks.block < wanted["copy"].since
    /\ wanted["copy"].at = "acked" => Excused
    /\ wanted["copy"].at = "sent" =>
          \A n \in DOMAIN acks : acks[n] = Body(wanted["copy"].event) => Excused

BlocksInv ==
    /\ BlocksTypeOK /\ NothingStandsAgainst
    /\ BlockIsLatest /\ MessagesTrue /\ HandledAsAcked /\ LookedUpUnblocked /\ CopyIsThere

\* The shapes of rows and messages.
Want == [at : {"no", "looked", "event", "sent", "acked"}, since : Serials, event : 0 .. MaxWrites]
OnSocket == Messages \cup Bodies
Marks == [last : Serials, latest : Serials, lost : Serials, block : Serials]

BlocksShaped ==
    /\ switches \in Serials /\ blockCert \in Serials
    /\ owedBlock \in Messages \cup {NoEventRow} /\ saying \subseteq Messages
    /\ syncing \in {"no", "events", "cert"}
    /\ connected \in BOOLEAN /\ sessions \in 1 .. MaxSessions
    /\ toBlocked \in Seq(OnSocket) /\ acks \in Seq(OnSocket)
    /\ blockedBy \in BOOLEAN /\ hasCopy \in BOOLEAN
    /\ stands \subseteq Writes /\ leftBy \subseteq {"like"} /\ slippedIn \subseteq Writes
    /\ wanted \in [Writes -> Want]
    /\ wishes \in 0 .. MaxWrites
    /\ marks \in Marks
    /\ dropsNewer \in BOOLEAN

LEMMA ShapedAsTyped == BlocksTypeOK <=> BlocksShaped
BY DEF BlocksTypeOK, BlocksShaped, Want, OnSocket, Marks

LEMMA ShapedAsTypedNext == BlocksShaped' => BlocksTypeOK'
BY DEF BlocksTypeOK, BlocksShaped, Want, OnSocket, Marks

LEMMA BlockShapes ==
    /\ \A m \in Messages : m.kind \in {"block", "unblock"} /\ m.at \in Serials
    /\ \A m \in OnSocket : m.kind \in {"block", "unblock", "data"} /\ m.at \in Nat
    /\ \A m \in OnSocket : m.kind # "data" => m \in Messages
    /\ \A m \in OnSocket : m.kind = "data" => m \in Bodies /\ m = Body(m.at)
    /\ \A n \in Serials : Message("block", n) \in Messages /\ Message("unblock", n) \in Messages
    /\ \A k, n : Message(k, n).kind = k /\ Message(k, n).at = n
    /\ \A n \in 0 .. MaxWrites : Body(n) \in OnSocket
    /\ NoEventRow.kind = "none" /\ \A k, n : Message(k, n) = NoEventRow => k = "none"
    /\ NotAsked \in Want /\ NotAsked.at = "no" /\ NotAsked.since = 0 /\ NotAsked.event = 0
<1>1. /\ \A m \in Messages : m.kind \in {"block", "unblock"} /\ m.at \in Serials
      /\ \A m \in OnSocket : m.kind \in {"block", "unblock", "data"} /\ m.at \in Nat
      /\ \A m \in OnSocket : m.kind # "data" => m \in Messages
  BY BlocksAssumption DEF Messages, Bodies, OnSocket, Serials
<1>2. \A m \in OnSocket : m.kind = "data" => m \in Bodies /\ m = Body(m.at)
  BY DEF Messages, Bodies, OnSocket, Body, Message
<1>3. \A n \in Serials : Message("block", n) \in Messages /\ Message("unblock", n) \in Messages
  BY DEF Messages, Message
<1>4. /\ \A k, n : Message(k, n).kind = k /\ Message(k, n).at = n
      /\ NoEventRow.kind = "none" /\ \A k, n : Message(k, n) = NoEventRow => k = "none"
  BY DEF Message, NoEventRow
<1>5. \A n \in 0 .. MaxWrites : Body(n) \in OnSocket
  BY DEF OnSocket, Bodies, Body, Message
<1>6. NotAsked \in Want /\ NotAsked.at = "no" /\ NotAsked.since = 0 /\ NotAsked.event = 0
  BY BlocksAssumption DEF NotAsked, Want, Serials
<1>7. QED
  BY <1>1, <1>2, <1>3, <1>4, <1>5, <1>6

\* What the socket's rows hold after a message was added, taken or dropped.
LEMMA RowsOfMessages ==
    ASSUME NEW q \in Seq(OnSocket)
    PROVE  /\ \A m \in OnSocket : /\ Append(q, m) \in Seq(OnSocket)
                                  /\ \A n \in DOMAIN Append(q, m) :
                                        Append(q, m)[n] = m \/ \E k \in DOMAIN q : Append(q, m)[n] = q[k]
           /\ q # <<>> => /\ Head(q) \in OnSocket /\ Tail(q) \in Seq(OnSocket)
                          /\ \E k \in DOMAIN q : Head(q) = q[k]
                          /\ \A n \in DOMAIN Tail(q) : \E k \in DOMAIN q : Tail(q)[n] = q[k]
           /\ \A l \in 0 .. Len(q) : /\ SubSeq(q, 1, l) \in Seq(OnSocket)
                                     /\ \A n \in DOMAIN SubSeq(q, 1, l) :
                                           \E k \in DOMAIN q : SubSeq(q, 1, l)[n] = q[k]
<1>1. ASSUME NEW m \in OnSocket
      PROVE  /\ Append(q, m) \in Seq(OnSocket)
             /\ \A n \in DOMAIN Append(q, m) :
                   Append(q, m)[n] = m \/ \E k \in DOMAIN q : Append(q, m)[n] = q[k]
  <2>1. Append(q, m) \in Seq(OnSocket) /\ DOMAIN Append(q, m) = 1 .. Len(q) + 1
    OBVIOUS
  <2>2. \A n \in 1 .. Len(q) + 1 : IF n \in DOMAIN q THEN Append(q, m)[n] = q[n] ELSE Append(q, m)[n] = m
    OBVIOUS
  <2>3. QED
    BY <2>1, <2>2
<1>2. ASSUME q # <<>>
      PROVE  /\ Head(q) \in OnSocket /\ Tail(q) \in Seq(OnSocket)
             /\ \E k \in DOMAIN q : Head(q) = q[k]
             /\ \A n \in DOMAIN Tail(q) : \E k \in DOMAIN q : Tail(q)[n] = q[k]
  <2>1. Head(q) \in OnSocket /\ Tail(q) \in Seq(OnSocket) /\ Head(q) = q[1] /\ 1 \in DOMAIN q
    BY <1>2
  <2>2. \A n \in DOMAIN Tail(q) : n + 1 \in DOMAIN q /\ Tail(q)[n] = q[n + 1]
    BY <1>2
  <2>3. QED
    BY <2>1, <2>2
<1>3. ASSUME NEW l \in 0 .. Len(q)
      PROVE  /\ SubSeq(q, 1, l) \in Seq(OnSocket)
             /\ \A n \in DOMAIN SubSeq(q, 1, l) : \E k \in DOMAIN q : SubSeq(q, 1, l)[n] = q[k]
  <2>1. SubSeq(q, 1, l) \in Seq(OnSocket) /\ Len(SubSeq(q, 1, l)) = l
        /\ \A n \in 1 .. l : SubSeq(q, 1, l)[n] = q[n] /\ n \in DOMAIN q
    BY SubSeqProperties
  <2>2. DOMAIN SubSeq(q, 1, l) = 1 .. l
    BY <2>1
  <2>3. QED
    BY <2>1, <2>2
<1>4. QED
  BY <1>1, <1>2, <1>3

\* What the tables, requests and histories are.
LEMMA BlockFacts ==
    ASSUME BlocksInv
    PROVE  /\ switches \in Nat /\ blockCert \in Nat /\ wishes \in Nat
           /\ Serials = 0 .. MaxSwitches /\ MaxSwitches \in Nat /\ MaxWrites \in Nat
           /\ MaxSessions \in Nat \ {0}
           /\ \A w \in Writes : /\ wanted[w] \in Want
                                /\ wanted[w].at \in {"no", "looked", "event", "sent", "acked"}
                                /\ wanted[w].since \in Serials /\ wanted[w].event \in 0 .. MaxWrites
           /\ marks.last \in Serials /\ marks.latest \in Serials
           /\ marks.lost \in Serials /\ marks.block \in Serials
           /\ BlocksShaped /\ NothingStandsAgainst
           /\ BlockIsLatest /\ MessagesTrue /\ HandledAsAcked /\ LookedUpUnblocked /\ CopyIsThere
<1>1. BlocksShaped
  BY ShapedAsTyped DEF BlocksInv
<1>2. \A w \in Writes : /\ wanted[w] \in Want
                        /\ wanted[w].at \in {"no", "looked", "event", "sent", "acked"}
                        /\ wanted[w].since \in Serials /\ wanted[w].event \in 0 .. MaxWrites
  BY <1>1 DEF BlocksShaped, Want
<1>3. /\ marks.last \in Serials /\ marks.latest \in Serials
      /\ marks.lost \in Serials /\ marks.block \in Serials
  BY <1>1 DEF BlocksShaped, Marks
<1>4. switches \in Nat /\ blockCert \in Nat /\ wishes \in Nat
  BY <1>1, BlocksAssumption DEF BlocksShaped, Serials
<1>5. QED
  BY <1>1, <1>2, <1>3, <1>4, BlocksAssumption DEF BlocksInv, Serials

\* The history's serials, one or two of them changed.
LEMMA MarksKept ==
    ASSUME BlocksInv, NEW n \in Serials
    PROVE  /\ [marks EXCEPT !.block = n] \in Marks /\ [marks EXCEPT !.lost = n] \in Marks
           /\ [marks EXCEPT !.block = n].block = n
           /\ [marks EXCEPT !.block = n].last = marks.last
           /\ [marks EXCEPT !.block = n].latest = marks.latest
           /\ [marks EXCEPT !.block = n].lost = marks.lost
           /\ [marks EXCEPT !.lost = n].lost = n
           /\ [marks EXCEPT !.lost = n].last = marks.last
           /\ [marks EXCEPT !.lost = n].latest = marks.latest
           /\ [marks EXCEPT !.lost = n].block = marks.block
<1>1. marks \in Marks
  BY BlockFacts DEF BlocksShaped
<1>2. /\ [marks EXCEPT !.block = n] \in Marks /\ [marks EXCEPT !.lost = n] \in Marks
  BY <1>1 DEF Marks
<1>3. QED
  BY <1>1, <1>2 DEF Marks

LEMMA MarksMoved ==
    ASSUME BlocksInv, NEW n \in Serials, NEW k \in Serials,
           marks' = [marks EXCEPT !.last = n, !.latest = k]
    PROVE  /\ marks' \in Marks /\ marks'.last = n /\ marks'.latest = k
           /\ marks'.lost = marks.lost /\ marks'.block = marks.block
<1>1. marks \in Marks
  BY BlockFacts DEF BlocksShaped
<1>2. marks' \in Marks
  BY <1>1 DEF Marks
<1>3. QED
  BY <1>1, <1>2 DEF Marks

\* The rows of requests, one of them or its state changed.
LEMMA WantedKept ==
    ASSUME BlocksInv
    PROVE  /\ EventsGone =>
                /\ wanted' \in [Writes -> Want]
                /\ \A w \in Writes : \/ wanted'[w] = wanted[w] /\ wanted[w].at \notin {"event", "sent"}
                                     \/ wanted'[w] = NotAsked /\ wanted[w].at \in {"event", "sent"}
           /\ \A w \in Writes, r \in Want : wanted' = [wanted EXCEPT ![w] = r] =>
                /\ wanted' \in [Writes -> Want]
                /\ wanted'[w] = r /\ \A x \in Writes \ {w} : wanted'[x] = wanted[x]
           /\ \A x \in {"no", "looked", "event", "sent", "acked"} :
                wanted' = [wanted EXCEPT !["copy"].at = x] =>
                /\ wanted' \in [Writes -> Want]
                /\ wanted'["copy"].at = x
                /\ wanted'["copy"].since = wanted["copy"].since
                /\ wanted'["copy"].event = wanted["copy"].event
                /\ \A w \in Writes \ {"copy"} : wanted'[w] = wanted[w]
<1>1. wanted \in [Writes -> Want] /\ "copy" \in Writes
  BY BlockFacts DEF BlocksShaped, Writes
<1>2. ASSUME EventsGone
      PROVE  /\ wanted' \in [Writes -> Want]
             /\ \A w \in Writes : \/ wanted'[w] = wanted[w] /\ wanted[w].at \notin {"event", "sent"}
                                  \/ wanted'[w] = NotAsked /\ wanted[w].at \in {"event", "sent"}
  BY <1>1, <1>2, BlockShapes DEF EventsGone
<1>3. ASSUME NEW w \in Writes, NEW r \in Want, wanted' = [wanted EXCEPT ![w] = r]
      PROVE  /\ wanted' \in [Writes -> Want]
             /\ wanted'[w] = r /\ \A x \in Writes \ {w} : wanted'[x] = wanted[x]
  BY <1>1, <1>3
<1>4. ASSUME NEW x \in {"no", "looked", "event", "sent", "acked"},
             wanted' = [wanted EXCEPT !["copy"].at = x]
      PROVE  /\ wanted' \in [Writes -> Want]
             /\ wanted'["copy"].at = x
             /\ wanted'["copy"].since = wanted["copy"].since
             /\ wanted'["copy"].event = wanted["copy"].event
             /\ \A w \in Writes \ {"copy"} : wanted'[w] = wanted[w]
  <2>1. PICK r \in Want : /\ r = [wanted["copy"] EXCEPT !.at = x] /\ r.at = x
                          /\ r.since = wanted["copy"].since /\ r.event = wanted["copy"].event
    <3>1. wanted["copy"] \in Want
      BY <1>1
    <3>2. [wanted["copy"] EXCEPT !.at = x] \in Want
      BY <3>1 DEF Want
    <3>3. QED
      BY <3>1, <3>2 DEF Want
  <2>2. wanted' = [wanted EXCEPT !["copy"] = r]
    BY <1>1, <1>4, <2>1
  <2>3. QED
    BY <1>1, <2>1, <2>2
<1>5. QED
  BY <1>2, <1>3, <1>4

\* One message more or less on the socket.
LEMMA RowAdded ==
    ASSUME BlocksInv, NEW m \in OnSocket, toBlocked' = Append(toBlocked, m)
    PROVE  /\ toBlocked' \in Seq(OnSocket)
           /\ \A n \in DOMAIN toBlocked' :
                 toBlocked'[n] = m \/ \E k \in DOMAIN toBlocked : toBlocked'[n] = toBlocked[k]
<1>1. toBlocked \in Seq(OnSocket)
  BY BlockFacts DEF BlocksShaped
<1>2. QED
  BY <1>1, RowsOfMessages

LEMMA RowTaken ==
    ASSUME BlocksInv, toBlocked # <<>>, toBlocked' = Tail(toBlocked)
    PROVE  /\ toBlocked' \in Seq(OnSocket) /\ \E k \in DOMAIN toBlocked : Head(toBlocked) = toBlocked[k]
           /\ \A n \in DOMAIN toBlocked' : \E k \in DOMAIN toBlocked : toBlocked'[n] = toBlocked[k]
<1>1. toBlocked \in Seq(OnSocket)
  BY BlockFacts DEF BlocksShaped
<1>2. QED
  BY <1>1, RowsOfMessages

LEMMA AckAdded ==
    ASSUME BlocksInv, NEW m \in OnSocket, acks' = Append(acks, m)
    PROVE  /\ acks' \in Seq(OnSocket)
           /\ \A n \in DOMAIN acks' : acks'[n] = m \/ \E k \in DOMAIN acks : acks'[n] = acks[k]
<1>1. acks \in Seq(OnSocket)
  BY BlockFacts DEF BlocksShaped
<1>2. QED
  BY <1>1, RowsOfMessages

LEMMA AckTaken ==
    ASSUME BlocksInv, acks # <<>>, acks' = Tail(acks)
    PROVE  /\ acks' \in Seq(OnSocket) /\ \E k \in DOMAIN acks : Head(acks) = acks[k]
           /\ \A n \in DOMAIN acks' : \E k \in DOMAIN acks : acks'[n] = acks[k]
<1>1. acks \in Seq(OnSocket)
  BY BlockFacts DEF BlocksShaped
<1>2. QED
  BY <1>1, RowsOfMessages

\* Between two switches messages stay as true as they were.
LEMMA MessagesStayTrue ==
    ASSUME BlocksInv, UNCHANGED <<switches, blockCert>>, marks'.block = marks.block,
           wishes' \in {wishes, wishes + 1}, owedBlock' \in {owedBlock, NoEventRow},
           saying' \subseteq Messages, toBlocked' \in Seq(OnSocket), acks' \in Seq(OnSocket),
           \A m \in saying' : m \in saying \/ (m.kind = "block" /\ m.at = blockCert /\ blockCert # 0),
           \A n \in DOMAIN toBlocked' : \/ \E k \in DOMAIN toBlocked : toBlocked'[n] = toBlocked[k]
                                       \/ Truthful(toBlocked'[n]),
           \A n \in DOMAIN acks' : \/ \E k \in DOMAIN acks : acks'[n] = acks[k]
                                  \/ Truthful(acks'[n])
    PROVE  MessagesTrue'
<1> USE BlockFacts
<1>1. LatestKind' = LatestKind
  BY DEF LatestKind
<1>2. \A m \in OnSocket : Truthful(m) => (m.kind = "data" => m.at <= wishes')
  BY BlockShapes DEF Truthful
<1>3. \A m \in saying : Truthful(m)
  BY DEF MessagesTrue
<1>4. \A m \in saying' : Truthful(m)
  BY <1>3 DEF Truthful, LatestKind, BlockIsLatest
<1>5. (\A n \in DOMAIN toBlocked' : Truthful(toBlocked'[n])) /\ \A n \in DOMAIN acks' : Truthful(acks'[n])
  BY DEF MessagesTrue
<1>6. (owedBlock # NoEventRow => owedBlock = Message(LatestKind, switches) /\ switches > 0)
  BY DEF MessagesTrue
<1>7. /\ \A n \in DOMAIN toBlocked' : toBlocked'[n] \in OnSocket
      /\ \A n \in DOMAIN acks' : acks'[n] \in OnSocket
      /\ \A m \in saying' : m \in OnSocket
  BY DEF OnSocket
<1>8. /\ (\A n \in DOMAIN toBlocked : Truthful(toBlocked[n]))'
      /\ (\A n \in DOMAIN acks : Truthful(acks[n]))'
      /\ (\A m \in saying : Truthful(m))'
  BY <1>1, <1>2, <1>4, <1>5, <1>7 DEF Truthful
<1>9. (owedBlock # NoEventRow => owedBlock = Message(LatestKind, switches) /\ switches > 0)'
  BY <1>1, <1>6
<1>10. QED
  BY <1>8, <1>9 DEF MessagesTrue

\* Requests that were made keep to their look-up, or end.
LEMMA RequestsStay ==
    ASSUME BlocksInv, UNCHANGED <<switches, blockCert, wishes>>, marks'.block = marks.block,
           \A w \in Writes : wanted'[w] = wanted[w] \/ wanted'[w] = NotAsked,
           \A n \in DOMAIN toBlocked' : \/ \E k \in DOMAIN toBlocked : toBlocked'[n] = toBlocked[k]
                                       \/ toBlocked'[n].kind # "data",
           \A n \in DOMAIN acks' : \/ \E k \in DOMAIN acks : acks'[n] = acks[k]
                                  \/ acks'[n].kind # "data"
    PROVE  LookedUpUnblocked'
<1> USE BlockFacts
<1>1. \A w \in Writes : /\ wanted'[w].since <= switches /\ wanted'[w].event <= wishes
                        /\ blockCert # 0 => wanted'[w].since < marks.block
                        /\ wanted'[w].since # marks.block \/ marks.block = 0
  BY BlockShapes DEF LookedUpUnblocked, BlockIsLatest
<1>2. CASE wanted'["copy"] = NotAsked
  <2>1. wanted'["copy"].at \notin {"looked", "event"}
    BY <1>2, BlockShapes
  <2>2. QED
    BY <1>1, <2>1 DEF LookedUpUnblocked
<1>3. CASE wanted'["copy"] = wanted["copy"]
  <2>1. wanted["copy"].at \in {"looked", "event"} =>
          /\ \A n \in DOMAIN toBlocked' : toBlocked'[n] # Body(wanted["copy"].event)
          /\ \A n \in DOMAIN acks' : acks'[n] # Body(wanted["copy"].event)
    BY BlockShapes DEF LookedUpUnblocked, Body
  <2>2. QED
    BY <1>1, <1>3, <2>1 DEF LookedUpUnblocked
<1>4. QED
  BY <1>2, <1>3 DEF Writes

\* BlockUser: the rows and events go, the change is owed and said.
LEMMA BlockUserInv ==
    ASSUME BlocksInv, BlockUser
    PROVE  BlocksInv'
<1> USE BlockFacts
<1>1. switches + 1 \in Serials /\ blockCert = 0
  BY DEF BlockUser, ApplyBlockEffects, Owe, BlocksShaped
<1>2. /\ wanted' \in [Writes -> Want]
      /\ \A w \in Writes : \/ wanted'[w] = wanted[w] /\ wanted[w].at \notin {"event", "sent"}
                           \/ wanted'[w] = NotAsked /\ wanted[w].at \in {"event", "sent"}
  BY WantedKept DEF BlockUser, ApplyBlockEffects
<1>3. marks' \in Marks /\ marks' = [marks EXCEPT !.block = switches + 1]
  BY <1>1, MarksKept DEF BlockUser
<1>4. /\ marks'.block = switches + 1 /\ marks'.last = marks.last
      /\ marks'.latest = marks.latest /\ marks'.lost = marks.lost
  BY <1>1, <1>3, MarksKept
<1>5. UNCHANGED <<syncing, connected, sessions, toBlocked, acks, blockedBy, hasCopy, wishes, dropsNewer>>
      /\ switches' = switches + 1 /\ blockCert' = switches + 1
      /\ stands' = stands \ {"follow", "copy"}
  BY DEF BlockUser, ApplyBlockEffects
<1>6. BlocksShaped'
  BY <1>1, <1>2, <1>3, <1>4, <1>5, BlockShapes DEF BlockUser, ApplyBlockEffects, Owe, BlocksShaped
<1>7. NothingStandsAgainst'
  BY <1>1, <1>2, <1>3, <1>4, <1>5, BlockShapes
     DEF BlockUser, ApplyBlockEffects, Writes, BlocksShaped, NothingStandsAgainst
<1>8. BlockIsLatest'
  BY <1>1, <1>2, <1>3, <1>4, <1>5, BlockShapes DEF BlockUser, ApplyBlockEffects, Owe, BlockIsLatest
<1>9. MessagesTrue'
  BY <1>1, <1>2, <1>3, <1>4, <1>5, BlockShapes
     DEF BlockUser, ApplyBlockEffects, Owe, MessagesTrue, Truthful, LatestKind, BlockIsLatest
<1>10. HandledAsAcked'
  BY <1>1, <1>2, <1>3, <1>4, <1>5, BlockShapes
     DEF BlockUser, ApplyBlockEffects, Owe, HandledAsAcked, BlockIsLatest
<1>11. LookedUpUnblocked'
  <2>1. \A w \in Writes : /\ wanted'[w].since <= switches /\ wanted'[w].event <= wishes
                          /\ wanted'[w].at \in {"looked", "event"} => wanted'[w] = wanted[w]
    BY <1>2, BlockShapes DEF LookedUpUnblocked
  <2>2. /\ wanted'["copy"].since \in Nat /\ \A w \in Writes : wanted'[w].since \in Nat
    BY <1>2, BlockShapes DEF Want, Writes
  <2>3. \A w \in Writes : wanted'[w].since # switches + 1 /\ wanted'[w].since < switches + 1
    BY <2>1, <2>2
  <2>4. wanted'["copy"].at \in {"looked", "event"} => wanted'["copy"] = wanted["copy"]
    BY <2>1 DEF Writes
  <2>5. QED
    BY <1>4, <1>5, <2>1, <2>2, <2>3, <2>4 DEF LookedUpUnblocked
<1>12. CopyIsThere'
  <2>1. "copy" \notin stands'
    BY <1>5
  <2>2. wanted'["copy"].at # "sent"
    BY <1>2, BlockShapes DEF Writes
  <2>3. wanted'["copy"].since < switches + 1
    BY <1>2, BlockShapes DEF LookedUpUnblocked, Writes
  <2>4. QED
    BY <1>4, <2>1, <2>2, <2>3 DEF CopyIsThere, Excused
<1>13. QED
  BY <1>6, <1>7, <1>8, <1>9, <1>10, <1>11, <1>12, ShapedAsTypedNext DEF BlocksInv

\* UnblockUser: the certificate goes, nothing comes back.
LEMMA UnblockUserInv ==
    ASSUME BlocksInv, UnblockUser
    PROVE  BlocksInv'
<1> USE BlockFacts
<1>1. switches + 1 \in Serials /\ blockCert # 0
  BY DEF UnblockUser, DeleteBlock, BlocksShaped
<1>2. BlocksShaped'
  BY <1>1, BlockShapes, SMTT(30) DEF UnblockUser, DeleteBlock, Owe, BlocksShaped
<1>3. NothingStandsAgainst'
  BY <1>1, BlockShapes DEF UnblockUser, DeleteBlock, Owe, NothingStandsAgainst
<1>4. BlockIsLatest'
  BY <1>1, BlockShapes DEF UnblockUser, DeleteBlock, Owe, BlockIsLatest
<1>5. MessagesTrue'
  BY <1>1, BlockShapes DEF UnblockUser, DeleteBlock, Owe, MessagesTrue, Truthful, LatestKind, BlockIsLatest
<1>6. HandledAsAcked'
  BY <1>1, BlockShapes DEF UnblockUser, DeleteBlock, Owe, HandledAsAcked, BlockIsLatest
<1>7. LookedUpUnblocked'
  BY <1>1, BlockShapes DEF UnblockUser, DeleteBlock, Owe, LookedUpUnblocked, BlockIsLatest
<1>8. CopyIsThere'
  BY <1>1, BlockShapes DEF UnblockUser, DeleteBlock, Owe, CopyIsThere, Excused, ListedHolderHasCopy
<1>9. QED
  BY <1>2, <1>3, <1>4, <1>5, <1>6, <1>7, <1>8, ShapedAsTypedNext DEF BlocksInv

\* What goes out on the socket, if there is one.
LEMMA SayInv ==
    ASSUME BlocksInv, NEW m \in saying, Say(m)
    PROVE  BlocksInv'
<1> USE BlockFacts
<1>1. m \in Messages /\ m \in OnSocket /\ m.kind # "data" /\ Truthful(m)
  BY BlockShapes DEF BlocksShaped, MessagesTrue, OnSocket
<1>2. /\ toBlocked' \in Seq(OnSocket)
      /\ \A n \in DOMAIN toBlocked' :
            toBlocked'[n] = m \/ \E k \in DOMAIN toBlocked : toBlocked'[n] = toBlocked[k]
  BY <1>1, RowAdded DEF Say, BlocksShaped
<1>3. BlocksShaped'
  BY <1>1, <1>2, BlockShapes DEF Say, BlocksShaped
<1>4. NothingStandsAgainst'
  BY <1>1, <1>2, BlockShapes DEF Say, NothingStandsAgainst
<1>5. BlockIsLatest'
  BY <1>1, <1>2, BlockShapes DEF Say, BlockIsLatest
<1>6. MessagesTrue'
  BY <1>1, <1>2, BlockShapes DEF Say, MessagesTrue, Truthful, LatestKind, BlockIsLatest
<1>7. HandledAsAcked'
  BY <1>1, <1>2, BlockShapes DEF Say, HandledAsAcked, BlockIsLatest
<1>8. LookedUpUnblocked'
  BY <1>1, <1>2, RequestsStay DEF Say
<1>9. CopyIsThere'
  BY <1>1, <1>2, BlockShapes DEF Say, CopyIsThere, Excused, ListedHolderHasCopy
<1>10. QED
  BY <1>3, <1>4, <1>5, <1>6, <1>7, <1>8, <1>9, ShapedAsTypedNext DEF BlocksInv

LEMMA ConnectBlockedInv ==
    ASSUME BlocksInv, ConnectBlocked
    PROVE  BlocksInv'
<1> USE BlockFacts
<1>1. BlocksShaped'
  BY SMTT(30) DEF ConnectBlocked, BlocksShaped
<1>2. NothingStandsAgainst'
  BY DEF ConnectBlocked, NothingStandsAgainst
<1>3. BlockIsLatest'
  BY DEF ConnectBlocked, BlockIsLatest
<1>4. MessagesTrue'
  BY DEF ConnectBlocked, MessagesTrue, Truthful, LatestKind, BlockIsLatest
<1>5. HandledAsAcked'
  BY DEF ConnectBlocked, HandledAsAcked, BlockIsLatest
<1>6. LookedUpUnblocked'
  BY DEF ConnectBlocked, LookedUpUnblocked, BlockIsLatest
<1>7. CopyIsThere'
  BY DEF ConnectBlocked, CopyIsThere, Excused, ListedHolderHasCopy
<1>8. QED
  BY <1>1, <1>2, <1>3, <1>4, <1>5, <1>6, <1>7, ShapedAsTypedNext DEF BlocksInv

LEMMA DisconnectBlockedInv ==
    ASSUME BlocksInv, DisconnectBlocked
    PROVE  BlocksInv'
<1> USE BlockFacts
<1>1. /\ wanted' \in [Writes -> Want]
      /\ \A w \in Writes : \/ wanted'[w] = wanted[w] /\ wanted[w].at \notin {"event", "sent"}
                           \/ wanted'[w] = NotAsked /\ wanted[w].at \in {"event", "sent"}
  BY WantedKept DEF DisconnectBlocked
<1>2. /\ acks' \in Seq(OnSocket)
      /\ \A n \in DOMAIN acks' : \E k \in DOMAIN acks : acks'[n] = acks[k]
  BY RowsOfMessages DEF DisconnectBlocked, BlocksShaped
<1>3. toBlocked' \in Seq(OnSocket) /\ DOMAIN toBlocked' = {}
  BY DEF DisconnectBlocked
<1>4. BlocksShaped'
  BY <1>1, <1>2, <1>3, BlockShapes DEF DisconnectBlocked, BlocksShaped
<1>5. NothingStandsAgainst'
  BY <1>1, <1>2, <1>3, BlockShapes DEF DisconnectBlocked, NothingStandsAgainst
<1>6. BlockIsLatest'
  BY <1>1, <1>2, <1>3, BlockShapes DEF DisconnectBlocked, BlockIsLatest
<1>7. MessagesTrue'
  BY <1>1, <1>2, <1>3, BlockShapes, SMTT(30) DEF DisconnectBlocked, MessagesTrue, Truthful, LatestKind, BlockIsLatest
<1>8. HandledAsAcked'
  BY <1>1, <1>2, <1>3, BlockShapes DEF DisconnectBlocked, HandledAsAcked, BlockIsLatest
<1>9. LookedUpUnblocked'
  BY <1>1, <1>2, <1>3, RequestsStay DEF DisconnectBlocked
<1>10. CopyIsThere'
  <2>1. "copy" \in Writes
    BY DEF Writes
  <2>2. \/ wanted'["copy"] = wanted["copy"]
        \/ wanted'["copy"].at = "no" /\ wanted["copy"].at # "no"
    BY <1>1, <2>1, BlockShapes
  <2>3. CASE wanted'["copy"] = wanted["copy"]
    BY <1>2, <2>3 DEF DisconnectBlocked, CopyIsThere, Excused, ListedHolderHasCopy
  <2>4. CASE wanted'["copy"].at = "no" /\ wanted["copy"].at # "no"
    BY <2>4 DEF DisconnectBlocked, CopyIsThere
  <2>5. QED
    BY <2>2, <2>3, <2>4
<1>11. QED
  BY <1>4, <1>5, <1>6, <1>7, <1>8, <1>9, <1>10, ShapedAsTypedNext DEF BlocksInv

\* catchUpBlocks, its two statements.
LEMMA ReadBlockEventsInv ==
    ASSUME BlocksInv, ReadBlockEvents
    PROVE  BlocksInv'
<1> USE BlockFacts
<1>1. BlocksShaped'
  BY BlockShapes DEF ReadBlockEvents, BlocksShaped
<1>2. NothingStandsAgainst'
  BY BlockShapes DEF ReadBlockEvents, NothingStandsAgainst
<1>3. BlockIsLatest'
  BY BlockShapes DEF ReadBlockEvents, BlockIsLatest
<1>4. MessagesTrue'
  BY BlockShapes DEF ReadBlockEvents, MessagesTrue, Truthful, LatestKind, BlockIsLatest
<1>5. HandledAsAcked'
  BY BlockShapes DEF ReadBlockEvents, HandledAsAcked, BlockIsLatest
<1>6. LookedUpUnblocked'
  BY BlockShapes DEF ReadBlockEvents, LookedUpUnblocked, BlockIsLatest
<1>7. CopyIsThere'
  BY BlockShapes DEF ReadBlockEvents, CopyIsThere, Excused, ListedHolderHasCopy
<1>8. QED
  BY <1>1, <1>2, <1>3, <1>4, <1>5, <1>6, <1>7, ShapedAsTypedNext DEF BlocksInv

LEMMA LookUpBlockInv ==
    ASSUME BlocksInv, LookUpBlock
    PROVE  BlocksInv'
<1> USE BlockFacts
<1>1. BlocksShaped'
  BY BlockShapes DEF LookUpBlock, BlocksShaped
<1>2. NothingStandsAgainst'
  BY BlockShapes DEF LookUpBlock, NothingStandsAgainst
<1>3. BlockIsLatest'
  BY BlockShapes DEF LookUpBlock, BlockIsLatest
<1>4. MessagesTrue'
  BY BlockShapes DEF LookUpBlock, MessagesTrue, Truthful, LatestKind, BlockIsLatest
<1>5. HandledAsAcked'
  BY BlockShapes DEF LookUpBlock, HandledAsAcked, BlockIsLatest
<1>6. LookedUpUnblocked'
  BY BlockShapes DEF LookUpBlock, LookedUpUnblocked, BlockIsLatest
<1>7. CopyIsThere'
  BY BlockShapes DEF LookUpBlock, CopyIsThere, Excused, ListedHolderHasCopy
<1>8. QED
  BY <1>1, <1>2, <1>3, <1>4, <1>5, <1>6, <1>7, ShapedAsTypedNext DEF BlocksInv

\* The device obeys one message and acknowledges it.
LEMMA ReceiveSwitchInv ==
    ASSUME BlocksInv, ReceiveSwitch
    PROVE  BlocksInv'
<1> USE BlockFacts
<1>1. PICK m \in OnSocket : /\ m = Head(toBlocked) /\ m.kind # "data" /\ m \in Messages
                            /\ Truthful(m) /\ m.at \in Serials /\ m.at > 0 /\ m.at <= switches
  <2>1. toBlocked # <<>> /\ Head(toBlocked).kind # "data"
    BY DEF ReceiveSwitch
  <2>2. PICK k \in DOMAIN toBlocked : Head(toBlocked) = toBlocked[k] /\ toBlocked[k] \in OnSocket
    BY <2>1, RowsOfMessages DEF BlocksShaped
  <2>3. Truthful(toBlocked[k])
    BY DEF MessagesTrue
  <2>4. QED
    BY <2>1, <2>2, <2>3, BlockShapes DEF Truthful
<1>2. PICK latest \in Serials : latest = IF m.at > marks.latest THEN m.at ELSE marks.latest
  BY <1>1
<1>3. /\ marks' \in Marks /\ marks'.last = m.at /\ marks'.latest = latest
      /\ marks'.lost = marks.lost /\ marks'.block = marks.block
  <2>1. marks' = [marks EXCEPT !.last = m.at, !.latest = latest]
    BY <1>1, <1>2 DEF ReceiveSwitch
  <2>2. PICK at \in Serials : at = m.at
    BY <1>1
  <2>3. marks' = [marks EXCEPT !.last = at, !.latest = latest]
    BY <2>1, <2>2
  <2>4. /\ marks' \in Marks /\ marks'.last = at /\ marks'.latest = latest
        /\ marks'.lost = marks.lost /\ marks'.block = marks.block
    BY <2>3, MarksMoved
  <2>5. QED
    BY <2>2, <2>4
<1>4. /\ toBlocked' \in Seq(OnSocket) /\ acks' \in Seq(OnSocket)
      /\ \A n \in DOMAIN toBlocked' : \E k \in DOMAIN toBlocked : toBlocked'[n] = toBlocked[k]
      /\ \A n \in DOMAIN acks' : acks'[n] = m \/ \E k \in DOMAIN acks : acks'[n] = acks[k]
  BY <1>1, RowTaken, AckAdded DEF ReceiveSwitch
<1>5. /\ blockedBy' = (m.kind = "block")
      /\ hasCopy' = (hasCopy /\ m.kind # "block")
      /\ dropsNewer' = (dropsNewer \/ (m.kind = "block" /\ m.at < wanted["copy"].since))
      /\ UNCHANGED <<switches, blockCert, owedBlock, saying, syncing, connected, sessions, stands,
                     wanted, wishes, leftBy, slippedIn>>
  BY <1>1 DEF ReceiveSwitch
<1>6. BlocksShaped'
  BY <1>1, <1>2, <1>3, <1>4, <1>5, BlockShapes, SMTT(30) DEF ReceiveSwitch, BlocksShaped
<1>7. NothingStandsAgainst'
  BY <1>1, <1>2, <1>3, <1>4, <1>5, BlockShapes DEF ReceiveSwitch, NothingStandsAgainst
<1>8. BlockIsLatest'
  BY <1>1, <1>2, <1>3, <1>4, <1>5, BlockShapes DEF ReceiveSwitch, BlockIsLatest
<1>9. MessagesTrue'
  BY <1>1, <1>3, <1>4, <1>5, MessagesStayTrue DEF BlocksShaped
<1>10. HandledAsAcked'
  <2>1. m.at = switches => (m.kind = "block" <=> blockCert # 0)
    BY <1>1 DEF Truthful, LatestKind
  <2>2. marks'.last <= marks'.latest /\ marks'.latest <= switches /\ marks.latest <= marks'.latest
    BY <1>1, <1>2, <1>3 DEF HandledAsAcked
  <2>3. \A n \in DOMAIN acks' : acks'[n].kind # "data" => acks'[n].at <= marks'.latest
    <3>1. \A k \in DOMAIN acks : acks[k].kind # "data" => acks[k].at <= marks.latest /\ acks[k].at \in Nat
      BY BlockShapes DEF HandledAsAcked, BlocksShaped
    <3>2. m.at <= marks'.latest
      BY <1>3, <2>2
    <3>3. SUFFICES ASSUME NEW n \in DOMAIN acks', acks'[n].kind # "data"
                   PROVE  acks'[n].at <= marks'.latest
      OBVIOUS
    <3>4. CASE \E k \in DOMAIN acks : acks'[n] = acks[k]
      <4>1. PICK k \in DOMAIN acks : acks'[n] = acks[k]
        BY <3>4
      <4>2. acks[k].at <= marks.latest /\ acks[k].at \in Nat
        BY <3>1, <3>3, <4>1
      <4>3. QED
        BY <1>3, <2>2, <4>1, <4>2
    <3>5. QED
      BY <1>4, <3>2, <3>3, <3>4
  <2>4. owedBlock' = NoEventRow /\ switches' > 0 => marks'.latest = switches \/ marks'.lost = switches
    BY <1>3, <1>5, <2>2 DEF HandledAsAcked
  <2>5. QED
    BY <1>3, <1>5, <2>1, <2>2, <2>3, <2>4 DEF HandledAsAcked
<1>11. LookedUpUnblocked'
  BY <1>1, <1>3, <1>4, <1>5, RequestsStay
<1>12. CopyIsThere'
  <2>1. CASE m.kind # "block"
    <3>1. (hasCopy' <=> hasCopy) /\ (dropsNewer' <=> dropsNewer)
      BY <1>5, <2>1
    <3>2. wanted["copy"].at = "sent" =>
            \A n \in DOMAIN acks' : acks'[n] = Body(wanted["copy"].event) => Excused
      <4>1. m # Body(wanted["copy"].event)
        BY <1>1 DEF Body, Message
      <4>2. QED
        BY <1>4, <4>1 DEF CopyIsThere
    <3>3. QED
      BY <1>3, <1>5, <3>1, <3>2 DEF CopyIsThere, Excused, ListedHolderHasCopy
  <2>2. CASE m.kind = "block"
    <3>1. m.at <= marks.block /\ marks.block > 0
      BY <1>1, <2>2 DEF Truthful
    <3>2. wanted["copy"].since < marks.block \/ m.at < wanted["copy"].since
      BY <1>1, <3>1, SMTT(30) DEF LookedUpUnblocked, Writes
    <3>3. (wanted["copy"].since < marks.block \/ dropsNewer')
      BY <1>5, <2>2, <3>2
    <3>4. "copy" \in stands => "copy" \in slippedIn \/ dropsNewer'
      BY <1>1, <1>5, <2>2, <3>1, <3>3, SMTT(30) DEF CopyIsThere, Writes
    <3>5. QED
      BY <1>1, <1>3, <1>4, <1>5, <3>3, <3>4, BlockShapes DEF CopyIsThere, Excused, ListedHolderHasCopy
  <2>3. QED
    BY <2>1, <2>2
<1>13. QED
  BY <1>6, <1>7, <1>8, <1>9, <1>10, <1>11, <1>12, ShapedAsTypedNext DEF BlocksInv

\* ackBlockEvent: the row of that kind goes, whatever its serial.
LEMMA AckSwitchInv ==
    ASSUME BlocksInv, AckSwitch
    PROVE  BlocksInv'
<1> USE BlockFacts
<1>1. PICK m \in OnSocket : /\ m = Head(acks) /\ m.kind # "data" /\ m \in Messages
                            /\ Truthful(m) /\ m.at \in Serials /\ m.at <= marks.latest
  <2>1. acks # <<>> /\ Head(acks).kind # "data"
    BY DEF AckSwitch
  <2>2. PICK k \in DOMAIN acks : Head(acks) = acks[k] /\ acks[k] \in OnSocket
    BY <2>1, RowsOfMessages DEF BlocksShaped
  <2>3. Truthful(acks[k]) /\ (acks[k].kind # "data" => acks[k].at <= marks.latest)
    BY DEF MessagesTrue, HandledAsAcked
  <2>4. QED
    BY <2>1, <2>2, <2>3, BlockShapes DEF Truthful
<1>2. /\ acks' \in Seq(OnSocket)
      /\ \A n \in DOMAIN acks' : \E k \in DOMAIN acks : acks'[n] = acks[k]
  BY AckTaken DEF AckSwitch
<1>3. owedBlock' = IF owedBlock.kind = m.kind THEN NoEventRow ELSE owedBlock
  BY <1>1 DEF AckSwitch, Settles
<1>4. PICK lost \in Serials :
        lost = IF owedBlock.kind = m.kind /\ owedBlock.at > m.at THEN owedBlock.at ELSE marks.lost
  BY <1>1, BlockShapes, ZenonT(40) DEF BlocksShaped
<1>5. /\ marks' \in Marks /\ marks'.last = marks.last /\ marks'.latest = marks.latest
      /\ marks'.lost = lost /\ marks'.block = marks.block
  <2>1. marks' = [marks EXCEPT !.lost =
           IF owedBlock.kind = m.kind /\ owedBlock.at > m.at THEN owedBlock.at ELSE marks.lost]
    BY <1>1 DEF AckSwitch
  <2>2. QED
    BY <1>4, <2>1, MarksKept
<1>6. UNCHANGED <<switches, blockCert, saying, syncing, connected, sessions, toBlocked, blockedBy,
                 hasCopy, stands, wanted, wishes, leftBy, slippedIn, dropsNewer>>
  BY DEF AckSwitch
<1>7. BlocksShaped'
  BY <1>1, <1>2, <1>3, <1>4, <1>5, <1>6, BlockShapes, SMTT(30) DEF AckSwitch, BlocksShaped
<1>8. NothingStandsAgainst'
  BY <1>1, <1>2, <1>3, <1>4, <1>5, <1>6, BlockShapes DEF AckSwitch, NothingStandsAgainst
<1>9. BlockIsLatest'
  BY <1>1, <1>2, <1>3, <1>4, <1>5, <1>6, BlockShapes DEF AckSwitch, BlockIsLatest
<1>10. MessagesTrue'
  BY <1>2, <1>3, <1>5, <1>6, MessagesStayTrue DEF BlocksShaped
<1>11. HandledAsAcked'
  <2>1. \A n \in DOMAIN acks' : acks'[n].kind # "data" => acks'[n].at <= marks.latest
    BY <1>2 DEF HandledAsAcked
  <2>2. owedBlock' = NoEventRow /\ switches > 0 => marks.latest = switches \/ lost = switches
    <3>1. CASE owedBlock = NoEventRow
      BY <1>1, <1>4, <3>1, BlockShapes DEF HandledAsAcked
    <3>2. CASE owedBlock # NoEventRow
      <4>1. owedBlock.at = switches
        BY <3>2, BlockShapes DEF MessagesTrue
      <4>2. marks.latest <= switches
        BY DEF HandledAsAcked
      <4>3. QED
        BY <1>1, <1>3, <1>4, <3>2, <4>1, <4>2
    <3>3. QED
      BY <3>1, <3>2
  <2>3. QED
    BY <1>5, <1>6, <2>1, <2>2 DEF HandledAsAcked
<1>12. LookedUpUnblocked'
  BY <1>2, <1>5, <1>6, RequestsStay
<1>13. CopyIsThere'
  BY <1>1, <1>2, <1>3, <1>4, <1>5, <1>6, BlockShapes DEF AckSwitch, CopyIsThere, Excused, ListedHolderHasCopy
<1>14. QED
  BY <1>7, <1>8, <1>9, <1>10, <1>11, <1>12, <1>13, ShapedAsTypedNext DEF BlocksInv

\* A request is refused with the certificate, or its look-up has seen no block.
LEMMA RequestItInv ==
    ASSUME BlocksInv, NEW w \in Writes, RequestIt(w)
    PROVE  BlocksInv'
<1> USE BlockFacts
<1>1. wishes + 1 \in 0 .. MaxWrites /\ wanted[w].at = "no"
  BY DEF RequestIt, BlocksShaped
<1>2. CASE blockCert # 0
  <2>1. wanted' = wanted /\ saying' = saying \cup {Message("block", blockCert)}
    BY <1>2 DEF RequestIt, Refused
  <2>2. BlocksShaped'
    BY <1>1, <1>2, <2>1, BlockShapes, SMTT(30) DEF RequestIt, BlocksShaped
  <2>3. NothingStandsAgainst' /\ BlockIsLatest' /\ HandledAsAcked'
    BY <2>1 DEF RequestIt, NothingStandsAgainst, BlockIsLatest, HandledAsAcked
  <2>4. MessagesTrue'
    BY <1>1, <1>2, <2>1, <2>2, BlockShapes, MessagesStayTrue DEF RequestIt, BlocksShaped
  <2>5. LookedUpUnblocked' /\ CopyIsThere'
    BY <2>1, SMTT(30) DEF RequestIt, LookedUpUnblocked, CopyIsThere, Excused, ListedHolderHasCopy
  <2>6. QED
    BY <2>2, <2>3, <2>4, <2>5, ShapedAsTypedNext DEF BlocksInv
<1>3. CASE blockCert = 0
  <2>1. PICK r \in Want : /\ r = [at |-> "looked", since |-> switches, event |-> wishes + 1]
                          /\ r.at = "looked" /\ r.since = switches /\ r.event = wishes + 1
    <3>1. [at |-> "looked", since |-> switches, event |-> wishes + 1] \in Want
      BY <1>1 DEF Want, BlocksShaped
    <3>2. QED
      BY <3>1
  <2>2. wanted' = [wanted EXCEPT ![w] = r] /\ saying' = saying
    BY <1>3, <2>1 DEF RequestIt, Refused
  <2>3. /\ wanted' \in [Writes -> Want]
        /\ wanted'[w] = r /\ \A x \in Writes \ {w} : wanted'[x] = wanted[x]
    BY <2>2, WantedKept
  <2>4. BlocksShaped'
    BY <1>1, <2>2, <2>3 DEF RequestIt, BlocksShaped
  <2>5. NothingStandsAgainst' /\ BlockIsLatest' /\ HandledAsAcked'
    BY <2>2 DEF RequestIt, NothingStandsAgainst, BlockIsLatest, HandledAsAcked
  <2>6. MessagesTrue'
    BY <1>1, <2>2, BlockShapes, SMTT(30) DEF RequestIt, MessagesTrue, Truthful, LatestKind, BlocksShaped
  <2>7. LookedUpUnblocked'
    <3>1. /\ \A n \in DOMAIN toBlocked : toBlocked[n] # Body(wishes + 1)
          /\ \A n \in DOMAIN acks : acks[n] # Body(wishes + 1)
      BY BlockShapes DEF MessagesTrue, Truthful, Body, Message
    <3>2. wishes' = wishes + 1
      BY DEF RequestIt
    <3>3. \A x \in Writes : /\ wanted'[x].since <= switches /\ wanted'[x].event <= wishes + 1
                            /\ wanted'[x].since # marks.block \/ marks.block = 0
      BY <1>3, <2>1, <2>3 DEF LookedUpUnblocked, BlockIsLatest
    <3>4. wanted'["copy"].at \in {"looked", "event"} =>
            /\ \A n \in DOMAIN toBlocked : toBlocked[n] # Body(wanted'["copy"].event)
            /\ \A n \in DOMAIN acks : acks[n] # Body(wanted'["copy"].event)
      <4>1. CASE w = "copy"
        BY <2>1, <2>3, <3>1, <4>1
      <4>2. CASE w # "copy"
        BY <2>3, <4>2 DEF LookedUpUnblocked, Writes
      <4>3. QED
        BY <4>1, <4>2
    <3>5. QED
      BY <1>3, <3>2, <3>3, <3>4 DEF RequestIt, LookedUpUnblocked
  <2>8. CopyIsThere'
    BY <1>1, <2>1, <2>3 DEF RequestIt, CopyIsThere, Excused, ListedHolderHasCopy, Writes
  <2>9. QED
    BY <2>4, <2>5, <2>6, <2>7, <2>8, ShapedAsTypedNext DEF BlocksInv
<1>4. QED
  BY <1>2, <1>3

\* The write of a follow or a like, and its end.
LEMMA StoreWriteInv ==
    ASSUME BlocksInv, NEW w \in {"follow", "like"}, StoreWrite(w)
    PROVE  BlocksInv'
<1> USE BlockFacts
<1>1. w \in Writes /\ w # "copy"
  BY DEF Writes
<1>2. /\ wanted' \in [Writes -> Want]
      /\ wanted'[w] = NotAsked /\ \A x \in Writes \ {w} : wanted'[x] = wanted[x]
  BY <1>1, BlockShapes, WantedKept DEF StoreWrite
<1>3. BlocksShaped'
  BY <1>1, <1>2, BlockShapes, SMTT(30) DEF StoreWrite, Stored, BlocksShaped
<1>4. NothingStandsAgainst'
  <2>1. blockCert # 0 => wanted[w].since < marks.block
    BY <1>1 DEF LookedUpUnblocked
  <2>2. QED
    BY <2>1 DEF StoreWrite, Stored, NothingStandsAgainst
<1>5. BlockIsLatest'
  BY <1>1, <1>2, BlockShapes DEF StoreWrite, Stored, BlockIsLatest
<1>6. MessagesTrue'
  BY <1>1, <1>2, BlockShapes DEF StoreWrite, Stored, MessagesTrue, Truthful, LatestKind, BlockIsLatest
<1>7. HandledAsAcked'
  BY <1>1, <1>2, BlockShapes DEF StoreWrite, Stored, HandledAsAcked, BlockIsLatest
<1>8. LookedUpUnblocked'
  BY <1>1, <1>2, BlockShapes DEF StoreWrite, Stored, LookedUpUnblocked, BlockIsLatest
<1>9. CopyIsThere'
  BY <1>1, <1>2, BlockShapes DEF StoreWrite, Stored, CopyIsThere, Excused, ListedHolderHasCopy
<1>10. QED
  BY <1>3, <1>4, <1>5, <1>6, <1>7, <1>8, <1>9, ShapedAsTypedNext DEF BlocksInv

LEMMA TakeBackInv ==
    ASSUME BlocksInv, NEW w \in {"follow", "like"}, TakeBack(w)
    PROVE  BlocksInv'
<1> USE BlockFacts
<1>1. BlocksShaped'
  <2>1. wishes' \in 0 .. MaxWrites
    BY BlocksAssumption DEF TakeBack, BlocksShaped
  <2>2. stands' \subseteq Writes
    BY DEF TakeBack, BlocksShaped
  <2>3. QED
    BY <2>1, <2>2, ZenonT(40) DEF TakeBack, BlocksShaped
<1>2. NothingStandsAgainst'
  BY DEF TakeBack, NothingStandsAgainst
<1>3. BlockIsLatest'
  BY DEF TakeBack, BlockIsLatest
<1>4. MessagesTrue'
  BY MessagesStayTrue DEF TakeBack, BlocksShaped
<1>5. HandledAsAcked'
  BY DEF TakeBack, HandledAsAcked, BlockIsLatest
<1>6. LookedUpUnblocked'
  BY DEF TakeBack, LookedUpUnblocked, BlockIsLatest
<1>7. CopyIsThere'
  BY DEF TakeBack, CopyIsThere, Excused, ListedHolderHasCopy
<1>8. QED
  BY <1>1, <1>2, <1>3, <1>4, <1>5, <1>6, <1>7, ShapedAsTypedNext DEF BlocksInv

\* The event of a request for the body.
LEMMA CreateBodyEventInv ==
    ASSUME BlocksInv, CreateBodyEvent
    PROVE  BlocksInv'
<1> USE BlockFacts
<1>1. PICK r \in Want : /\ wanted' = [wanted EXCEPT !["copy"] = r]
                         /\ \/ r = NotAsked
                            \/ /\ r.at = "event" /\ r.since = wanted["copy"].since
                               /\ r.event = wanted["copy"].event
  <2>1. [wanted["copy"] EXCEPT !.at = "event"] \in Want /\ "copy" \in Writes
    BY DEF Want, Writes
  <2>2. /\ [wanted["copy"] EXCEPT !.at = "event"].at = "event"
        /\ [wanted["copy"] EXCEPT !.at = "event"].since = wanted["copy"].since
        /\ [wanted["copy"] EXCEPT !.at = "event"].event = wanted["copy"].event
    BY <2>1 DEF Want, Writes
  <2>3. QED
    BY <2>1, <2>2, BlockShapes DEF CreateBodyEvent, BlocksShaped
<1>2. /\ wanted' \in [Writes -> Want] /\ "copy" \in Writes
      /\ wanted'["copy"] = r /\ \A w \in Writes \ {"copy"} : wanted'[w] = wanted[w]
  <2>1. "copy" \in Writes
    BY DEF Writes
  <2>2. wanted' = [wanted EXCEPT !["copy"] = r] /\ r \in Want
    BY <1>1
  <2>3. \A w \in Writes, q \in Want : wanted' = [wanted EXCEPT ![w] = q] =>
                /\ wanted' \in [Writes -> Want]
                /\ wanted'[w] = q /\ \A y \in Writes \ {w} : wanted'[y] = wanted[y]
    BY WantedKept
  <2>4. QED
    BY <2>1, <2>2, <2>3
<1>3. BlocksShaped'
  BY <1>1, <1>2, BlockShapes DEF CreateBodyEvent, BlocksShaped
<1>4. NothingStandsAgainst'
  BY <1>1, <1>2, BlockShapes DEF CreateBodyEvent, NothingStandsAgainst
<1>5. BlockIsLatest'
  BY <1>1, <1>2, BlockShapes DEF CreateBodyEvent, BlockIsLatest
<1>6. MessagesTrue'
  BY <1>1, <1>2, BlockShapes DEF CreateBodyEvent, MessagesTrue, Truthful, LatestKind, BlockIsLatest
<1>7. HandledAsAcked'
  BY <1>1, <1>2, BlockShapes DEF CreateBodyEvent, HandledAsAcked, BlockIsLatest
<1>8. LookedUpUnblocked'
  BY <1>1, <1>2, BlockShapes DEF CreateBodyEvent, LookedUpUnblocked, BlockIsLatest
<1>9. CopyIsThere'
  BY <1>1, <1>2, BlockShapes DEF CreateBodyEvent, CopyIsThere, Excused, ListedHolderHasCopy
<1>10. QED
  BY <1>3, <1>4, <1>5, <1>6, <1>7, <1>8, <1>9, ShapedAsTypedNext DEF BlocksInv

\* A holder's copy answers it.
LEMMA DeliverBodyInv ==
    ASSUME BlocksInv, DeliverBody
    PROVE  BlocksInv'
<1> USE BlockFacts
<1>1. /\ wanted' \in [Writes -> Want] /\ "copy" \in Writes
      /\ wanted'["copy"].at = "sent"
      /\ wanted'["copy"].since = wanted["copy"].since
      /\ wanted'["copy"].event = wanted["copy"].event
      /\ \A w \in Writes \ {"copy"} : wanted'[w] = wanted[w]
  BY WantedKept DEF DeliverBody, Writes
<1>2. PICK m \in OnSocket : /\ m = Body(wanted["copy"].event) /\ m.kind = "data"
                            /\ m.at = wanted["copy"].event /\ m.at <= wishes
  BY BlockShapes, SMTT(30) DEF LookedUpUnblocked, Writes, Body
<1>3. /\ toBlocked' \in Seq(OnSocket)
      /\ \A n \in DOMAIN toBlocked' :
            toBlocked'[n] = m \/ \E k \in DOMAIN toBlocked : toBlocked'[n] = toBlocked[k]
  BY <1>2, RowAdded DEF DeliverBody
<1>4. \A n \in DOMAIN acks : acks[n] # Body(wanted["copy"].event)
  BY DEF DeliverBody, LookedUpUnblocked
<1>5. BlocksShaped'
  BY <1>1, <1>2, <1>3, <1>4, BlockShapes DEF DeliverBody, BlocksShaped
<1>6. NothingStandsAgainst'
  BY <1>1, <1>2, <1>3, <1>4, BlockShapes DEF DeliverBody, NothingStandsAgainst
<1>7. BlockIsLatest'
  BY <1>1, <1>2, <1>3, <1>4, BlockShapes DEF DeliverBody, BlockIsLatest
<1>8. MessagesTrue'
  BY <1>1, <1>2, <1>3, <1>4, BlockShapes, SMTT(30) DEF DeliverBody, MessagesTrue, Truthful, LatestKind, BlockIsLatest
<1>9. HandledAsAcked'
  BY <1>1, <1>2, <1>3, <1>4, BlockShapes DEF DeliverBody, HandledAsAcked, BlockIsLatest
<1>10. LookedUpUnblocked'
  BY <1>1, <1>2, <1>3, <1>4, BlockShapes DEF DeliverBody, LookedUpUnblocked, BlockIsLatest
<1>11. CopyIsThere'
  BY <1>1, <1>4 DEF DeliverBody, CopyIsThere
<1>12. QED
  BY <1>5, <1>6, <1>7, <1>8, <1>9, <1>10, <1>11, ShapedAsTypedNext DEF BlocksInv

\* The device stores the body and acknowledges it.
LEMMA ReceiveBodyInv ==
    ASSUME BlocksInv, ReceiveBody
    PROVE  BlocksInv'
<1> USE BlockFacts
<1>1. PICK m \in OnSocket : m = Head(toBlocked) /\ m.kind = "data" /\ m \in Bodies /\ Truthful(m)
  <2>1. toBlocked # <<>> /\ Head(toBlocked).kind = "data"
    BY DEF ReceiveBody
  <2>2. PICK k \in DOMAIN toBlocked : Head(toBlocked) = toBlocked[k] /\ toBlocked[k] \in OnSocket
    BY <2>1, RowsOfMessages DEF BlocksShaped
  <2>3. Truthful(toBlocked[k])
    BY DEF MessagesTrue
  <2>4. QED
    BY <2>1, <2>2, <2>3, BlockShapes
<1>2. /\ toBlocked' \in Seq(OnSocket) /\ acks' \in Seq(OnSocket)
      /\ \A n \in DOMAIN toBlocked' : \E k \in DOMAIN toBlocked : toBlocked'[n] = toBlocked[k]
      /\ \A n \in DOMAIN acks' : acks'[n] = m \/ \E k \in DOMAIN acks : acks'[n] = acks[k]
  BY <1>1, RowTaken, AckAdded DEF ReceiveBody
<1>3. wanted["copy"].at \in {"looked", "event"} => m # Body(wanted["copy"].event)
  <2>1. toBlocked # <<>>
    BY DEF ReceiveBody
  <2>2. PICK k \in DOMAIN toBlocked : Head(toBlocked) = toBlocked[k]
    BY <2>1, RowsOfMessages DEF BlocksShaped
  <2>3. QED
    BY <1>1, <2>2 DEF LookedUpUnblocked
<1>4. BlocksShaped'
  BY <1>1, <1>2, <1>3, BlockShapes DEF ReceiveBody, BlocksShaped
<1>5. NothingStandsAgainst'
  BY <1>1, <1>2, <1>3, BlockShapes DEF ReceiveBody, NothingStandsAgainst
<1>6. BlockIsLatest'
  BY <1>1, <1>2, <1>3, BlockShapes DEF ReceiveBody, BlockIsLatest
<1>7. MessagesTrue'
  BY <1>1, <1>2, MessagesStayTrue DEF ReceiveBody, BlocksShaped
<1>8. HandledAsAcked'
  BY <1>1, <1>2, <1>3, BlockShapes, SMTT(30) DEF ReceiveBody, HandledAsAcked, BlockIsLatest
<1>9. LookedUpUnblocked'
  BY <1>1, <1>2, <1>3, BlockShapes DEF ReceiveBody, LookedUpUnblocked, BlockIsLatest
<1>10. CopyIsThere'
  BY <1>1, <1>2, <1>3, BlockShapes DEF ReceiveBody, CopyIsThere, Excused, ListedHolderHasCopy
<1>11. QED
  BY <1>4, <1>5, <1>6, <1>7, <1>8, <1>9, <1>10, ShapedAsTypedNext DEF BlocksInv

\* handleDataAck: the ack of the event that was sent, or of one that is gone.
LEMMA ReadAckedInv ==
    ASSUME BlocksInv, ReadAcked
    PROVE  BlocksInv'
<1> USE BlockFacts
<1>1. PICK m \in OnSocket : m = Head(acks) /\ m = Body(m.at) /\ \E k \in DOMAIN acks : m = acks[k]
  BY RowsOfMessages, BlockShapes, SMTT(30) DEF ReadAcked, BlocksShaped
<1>2. PICK x \in {"no", "looked", "event", "sent", "acked"} :
        /\ x = IF wanted["copy"].at = "sent" /\ wanted["copy"].event = m.at THEN "acked"
               ELSE wanted["copy"].at
        /\ wanted' = [wanted EXCEPT !["copy"].at = x]
  <2>1. "copy" \in Writes
    BY DEF Writes
  <2>2. wanted["copy"].at \in {"no", "looked", "event", "sent", "acked"}
    BY <2>1
  <2>3. wanted' = [wanted EXCEPT !["copy"].at =
                     IF wanted["copy"].at = "sent" /\ wanted["copy"].event = m.at THEN "acked"
                     ELSE wanted["copy"].at]
    BY <1>1, <2>1 DEF ReadAcked, BlocksShaped
  <2>4. QED
    BY <2>2, <2>3
<1>3. /\ wanted' \in [Writes -> Want] /\ "copy" \in Writes
      /\ wanted'["copy"].at = x
      /\ wanted'["copy"].since = wanted["copy"].since
      /\ wanted'["copy"].event = wanted["copy"].event
      /\ \A w \in Writes \ {"copy"} : wanted'[w] = wanted[w]
  BY <1>2, WantedKept DEF Writes
<1>4. /\ acks' \in Seq(OnSocket)
      /\ \A n \in DOMAIN acks' : \E k \in DOMAIN acks : acks'[n] = acks[k]
  BY AckTaken DEF ReadAcked
<1>5. BlocksShaped'
  BY <1>1, <1>2, <1>3, <1>4 DEF ReadAcked, BlocksShaped
<1>6. NothingStandsAgainst'
  BY <1>1, <1>2, <1>3, <1>4 DEF ReadAcked, NothingStandsAgainst
<1>7. BlockIsLatest'
  BY <1>1, <1>2, <1>3, <1>4 DEF ReadAcked, BlockIsLatest
<1>8. MessagesTrue'
  BY <1>1, <1>2, <1>3, <1>4, SMTT(30) DEF ReadAcked, MessagesTrue, Truthful, LatestKind, BlockIsLatest
<1>9. HandledAsAcked'
  BY <1>1, <1>2, <1>3, <1>4 DEF ReadAcked, HandledAsAcked, BlockIsLatest
<1>10. LookedUpUnblocked'
  BY <1>1, <1>2, <1>3, <1>4, SMTT(30) DEF ReadAcked, LookedUpUnblocked, BlockIsLatest
<1>11. CopyIsThere'
  BY <1>1, <1>2, <1>3, <1>4 DEF ReadAcked, CopyIsThere, Excused, ListedHolderHasCopy
<1>12. QED
  BY <1>5, <1>6, <1>7, <1>8, <1>9, <1>10, <1>11, ShapedAsTypedNext DEF BlocksInv

\* The row of the copy is there.
LEMMA AllocateCopyInv ==
    ASSUME BlocksInv, AllocateCopy
    PROVE  BlocksInv'
<1> USE BlockFacts
<1>1. /\ wanted' \in [Writes -> Want] /\ "copy" \in Writes
      /\ wanted'["copy"].at = "no"
      /\ wanted'["copy"].since = wanted["copy"].since
      /\ wanted'["copy"].event = wanted["copy"].event
      /\ \A w \in Writes \ {"copy"} : wanted'[w] = wanted[w]
  BY WantedKept DEF AllocateCopy, Writes
<1>2. /\ stands' = stands \cup {"copy"}
      /\ slippedIn' = IF wanted["copy"].since < marks.block THEN slippedIn \cup {"copy"}
                      ELSE slippedIn \ {"copy"}
      /\ wanted["copy"].at = "acked"
  BY DEF AllocateCopy, Stored
<1>3. /\ blockCert # 0 => wanted["copy"].since < marks.block
      /\ wanted["copy"].since # marks.block \/ marks.block = 0
      /\ Excused
  BY <1>1, <1>2 DEF LookedUpUnblocked, CopyIsThere
<1>4. BlocksShaped'
  BY <1>1, <1>2, <1>3 DEF AllocateCopy, BlocksShaped
<1>5. NothingStandsAgainst'
  BY <1>1, <1>2, <1>3 DEF AllocateCopy, NothingStandsAgainst
<1>6. BlockIsLatest'
  BY <1>1, <1>2, <1>3 DEF AllocateCopy, BlockIsLatest
<1>7. MessagesTrue'
  BY <1>1, <1>2, <1>3 DEF AllocateCopy, MessagesTrue, Truthful, LatestKind, BlockIsLatest
<1>8. HandledAsAcked'
  BY <1>1, <1>2, <1>3 DEF AllocateCopy, HandledAsAcked, BlockIsLatest
<1>9. LookedUpUnblocked'
  BY <1>1, <1>2, <1>3 DEF AllocateCopy, LookedUpUnblocked, BlockIsLatest
<1>10. CopyIsThere'
  BY <1>1, <1>2, <1>3 DEF AllocateCopy, CopyIsThere, Excused, ListedHolderHasCopy
<1>11. QED
  BY <1>4, <1>5, <1>6, <1>7, <1>8, <1>9, <1>10, ShapedAsTypedNext DEF BlocksInv

LEMMA BlocksInitInv == BlocksInit => BlocksInv
<1> SUFFICES ASSUME BlocksInit PROVE BlocksInv
  OBVIOUS
<1>1. /\ wanted \in [Writes -> Want] /\ \A w \in Writes : wanted[w] = NotAsked
      /\ \A w \in Writes : wanted[w].at = "no" /\ wanted[w].since = 0 /\ wanted[w].event = 0
  BY BlockShapes DEF BlocksInit
<1>2. /\ marks \in Marks /\ marks.last = 0 /\ marks.latest = 0 /\ marks.lost = 0 /\ marks.block = 0
  BY BlocksAssumption DEF BlocksInit, Marks, Serials
<1>3. /\ toBlocked \in Seq(OnSocket) /\ DOMAIN toBlocked = {}
      /\ acks \in Seq(OnSocket) /\ DOMAIN acks = {}
  BY DEF BlocksInit
<1>4. BlocksShaped
  <2>1. /\ switches \in Serials /\ blockCert \in Serials /\ wishes \in 0 .. MaxWrites
        /\ sessions \in 1 .. MaxSessions
    BY BlocksAssumption DEF BlocksInit, Serials
  <2>2. /\ owedBlock \in Messages \cup {NoEventRow} /\ saying \subseteq Messages
        /\ syncing \in {"no", "events", "cert"} /\ connected \in BOOLEAN
        /\ blockedBy \in BOOLEAN /\ hasCopy \in BOOLEAN /\ dropsNewer \in BOOLEAN
    BY DEF BlocksInit
  <2>3. stands \subseteq Writes /\ leftBy \subseteq {"like"} /\ slippedIn \subseteq Writes
    BY DEF BlocksInit, Writes
  <2>4. QED
    BY <1>1, <1>2, <1>3, <2>1, <2>2, <2>3 DEF BlocksShaped
<1>5. BlocksTypeOK
  BY <1>4, ShapedAsTyped
<1>6. NothingStandsAgainst /\ BlockIsLatest
  BY <1>2 DEF BlocksInit, NothingStandsAgainst, BlockIsLatest
<1>7. MessagesTrue
  BY <1>3 DEF BlocksInit, MessagesTrue
<1>8. HandledAsAcked
  BY <1>2, <1>3 DEF BlocksInit, HandledAsAcked
<1>9. LookedUpUnblocked
  BY <1>1, <1>2, <1>3 DEF BlocksInit, LookedUpUnblocked
<1>10. CopyIsThere
  BY <1>1, <1>2 DEF BlocksInit, CopyIsThere, ListedHolderHasCopy, Writes
<1>11. QED
  BY <1>5, <1>6, <1>7, <1>8, <1>9, <1>10 DEF BlocksInv

LEMMA BlocksNextInv == BlocksInv /\ [BlocksNext]_blockVars => BlocksInv'
<1> SUFFICES ASSUME BlocksInv, [BlocksNext]_blockVars PROVE BlocksInv'
  OBVIOUS
<1>1. CASE BlockUser \/ UnblockUser \/ \E m \in saying : Say(m)
  BY <1>1, BlockUserInv, UnblockUserInv, SayInv
<1>2. CASE ConnectBlocked \/ DisconnectBlocked \/ ReadBlockEvents \/ LookUpBlock
  BY <1>2, ConnectBlockedInv, DisconnectBlockedInv, ReadBlockEventsInv, LookUpBlockInv
<1>3. CASE ReceiveSwitch \/ AckSwitch
  BY <1>3, ReceiveSwitchInv, AckSwitchInv
<1>4. CASE SignFollow \/ SaveFollow \/ UnfollowUser
  BY <1>4, RequestItInv, StoreWriteInv, TakeBackInv DEF SignFollow, SaveFollow, UnfollowUser, Writes
<1>5. CASE LikeReed \/ InsertReedLike \/ UnlikeReed
  BY <1>5, RequestItInv, StoreWriteInv, TakeBackInv DEF LikeReed, InsertReedLike, UnlikeReed, Writes
<1>6. CASE RequestReedBody \/ CreateBodyEvent \/ DeliverBody \/ ReceiveBody \/ ReadAcked \/ AllocateCopy
  BY <1>6, RequestItInv, CreateBodyEventInv, DeliverBodyInv, ReceiveBodyInv, ReadAckedInv, AllocateCopyInv
     DEF RequestReedBody, Writes
<1>7. CASE UNCHANGED blockVars
  BY <1>7 DEF blockVars, BlocksInv, BlocksTypeOK, NothingStandsAgainst, BlockIsLatest, MessagesTrue,
     Truthful, LatestKind, HandledAsAcked, LookedUpUnblocked, CopyIsThere, ListedHolderHasCopy, Excused
<1>8. QED
  BY <1>1, <1>2, <1>3, <1>4, <1>5, <1>6, <1>7 DEF BlocksNext

\* A block settles (blocks.go): what it forbids is not there but for a request
\* looked up before it, whoever is listed as a holder has the copy, and the
\* device comes to know; the exceptions are the histories the property names.
THEOREM BlocksAlwaysSettle == BlocksSpec => []BlocksSettle
<1>1. BlocksInv => BlocksSettle
  <2> SUFFICES ASSUME BlocksInv PROVE BlocksSettle
    OBVIOUS
  <2>1. ListedHolderHasCopy
    BY BlockFacts DEF CopyIsThere, ListedHolderHasCopy
  <2>2. DeviceKnows
    <3>1. owedBlock = NoEventRow /\ switches > 0 => marks.latest = switches \/ marks.lost = switches
      BY BlockFacts DEF HandledAsAcked
    <3>2. /\ marks.last <= marks.latest /\ marks.latest <= switches
          /\ marks.last = switches => (blockedBy <=> blockCert # 0)
      BY BlockFacts DEF HandledAsAcked
    <3>3. /\ marks.last \in Nat /\ marks.latest \in Nat /\ marks.lost \in Nat /\ switches \in Nat
          /\ blockedBy \in BOOLEAN
      BY BlockFacts DEF BlocksShaped
    <3>4. owedBlock = NoEventRow =>
            marks.last = switches \/ marks.last < marks.latest \/ marks.lost > marks.latest
      BY <3>1, <3>2, <3>3
    <3>5. (blockedBy <=> blockCert # 0) => blockedBy = (blockCert # 0)
      BY <3>3
    <3>6. QED
      BY <3>2, <3>4, <3>5 DEF DeviceKnows
  <2>3. QED
    BY <2>1, <2>2 DEF BlocksInv, BlocksSettle
<1>2. QED
  BY <1>1, BlocksInitInv, BlocksNextInv, PTL DEF BlocksSpec
=============================================================================
