-------------------------- MODULE ServerKeys_proofs --------------------------
(* Theorems about ServerKeys, for any number of requests and keys.  What a *)
(* walk has read stays true while the peer replaces further keys, and a    *)
(* trusted key is newer than any this server knows to be compromised.  A   *)
(* server that is not behind trusts the key in use, is walking to it, or   *)
(* is owed a notice of it.                                                 *)
EXTENDS ServerKeys, TLAPS

-----------------------------------------------------------------------------
(* The inductive invariant                                                 *)

Shapes ==
    /\ retired \in [Hosts -> Seq(BOOLEAN)]
    /\ pin \in [Hosts -> Nat] /\ approved \in [Hosts -> Nat]
    /\ denounced \in [Hosts -> SUBSET Nat]
    /\ attendant \in [Attendants -> AttendantType \cup {Vacant}]
    /\ behind \subseteq Hosts

\* The keys of e's peer up to the one given were handed on, none as compromised.
Handed(e, key) ==
    /\ key <= KeyInUse(PeerOf(e))
    /\ \A k \in approved[e] .. (key - 1) : ~retired[PeerOf(e)][k]

Pinned ==
    \A e \in Hosts : approved[e] >= 1 /\ (pin[e] # 0 => Handed(e, pin[e]))

\* How far a request under way has walked.
Sound(a) ==
    ~Attends(a, "vacant") =>
        /\ 1 <= attendant[a].from /\ attendant[a].from <= attendant[a].at
        /\ Handed(At(a), attendant[a].at)
        /\ Attends(a, "pinning") => attendant[a].from < attendant[a].at
        /\ Attends(a, "clearing") => attendant[a].at < KeyInUse(PeerOf(At(a)))

Walked == \A a \in Attendants : Sound(a)

\* What is known to be compromised is revoked, and older than what is trusted.
Known ==
    \A e \in Hosts : \A k \in denounced[e] :
        /\ 1 <= k /\ k < KeyInUse(PeerOf(e))
        /\ e \notin behind /\ pin[e] # 0 => k < pin[e]

\* A walk whose fetch is being authenticated waits for that one answer.
AsksFor(a, b) == ~Attends(a, "vacant") /\ attendant[a].caller = b
Waits ==
    \A a, b \in Attendants : AsksFor(a, b) =>
        Attends(b, "waiting") /\ \A c \in Attendants : AsksFor(c, b) => c = a

IInv == Shapes /\ Pinned /\ Walked /\ Known /\ Waits

-----------------------------------------------------------------------------
(* Lemmas                                                                  *)

\* A server's peer is the other one.
LEMMA PeerIsHost ==
    ASSUME NEW e \in Hosts
    PROVE  PeerOf(e) \in Hosts
<1>1. \E p \in Hosts : p # e
  BY ServerKeysAssumption
<1>2. QED
  BY <1>1 DEF PeerOf

\* The key in use is numbered after all the revoked ones.
LEMMA KeysAreNumbered ==
    ASSUME Shapes, NEW e \in Hosts
    PROVE  KeyInUse(e) \in Nat /\ KeyInUse(e) >= 1 /\ Len(retired[e]) \in Nat
<1>1. retired[e] \in Seq(BOOLEAN)
  BY DEF Shapes
<1>2. Len(retired[e]) \in Nat
  BY <1>1
<1>3. QED
  BY <1>2 DEF KeyInUse

\* A key that was handed on stays so, whatever is revoked later.
LEMMA HandedStays ==
    ASSUME Shapes, NEW e \in Hosts, NEW key \in Nat, Handed(e, key), approved[e] >= 1,
           approved'[e] = approved[e],
           \/ retired' = retired
           \/ \E h \in Hosts, c \in BOOLEAN : retired' = [retired EXCEPT ![h] = Append(@, c)]
    PROVE  Handed(e, key)' /\ KeyInUse(PeerOf(e)) <= KeyInUse(PeerOf(e))'
<1> DEFINE p == PeerOf(e)
<1>1. p \in Hosts /\ retired[p] \in Seq(BOOLEAN)
  BY PeerIsHost DEF Shapes
<1>2. approved[e] \in Nat
  BY DEF Shapes
<1>3. CASE retired' = retired
  <2>1. Len(retired[p]) \in Nat
    BY <1>1
  <2>2. QED
    BY <1>3, <2>1 DEF Handed, KeyInUse
<1>4. CASE \E h \in Hosts, c \in BOOLEAN : retired' = [retired EXCEPT ![h] = Append(@, c)]
  <2>1. PICK h \in Hosts, c \in BOOLEAN : retired' = [retired EXCEPT ![h] = Append(@, c)]
    BY <1>4
  <2>2. retired'[p] = retired[p] \/ retired'[p] = Append(retired[p], c)
    BY <2>1, <1>1 DEF Shapes
  <2> HIDE DEF p
  <2>3. /\ Len(retired[p]) \in Nat
        /\ Len(retired'[p]) \in {Len(retired[p]), Len(retired[p]) + 1}
        /\ \A k \in 1 .. Len(retired[p]) : retired'[p][k] = retired[p][k]
    BY <2>2, <1>1
  <2>4. /\ key <= Len(retired[p]) + 1
        /\ \A k \in approved[e] .. (key - 1) : ~retired[p][k]
    BY DEF Handed, KeyInUse, p
  <2>5. \A k \in approved[e] .. (key - 1) : k \in 1 .. Len(retired[p])
    BY <2>3, <2>4, <1>2
  <2>6. /\ key <= Len(retired'[p]) + 1
        /\ \A k \in approved[e] .. (key - 1) : ~retired'[p][k]
        /\ Len(retired[p]) + 1 <= Len(retired'[p]) + 1
    BY <2>3, <2>4, <2>5
  <2>7. QED
    BY <2>6 DEF Handed, KeyInUse, p
<1>5. QED
  BY <1>3, <1>4

\* A step that leaves keys, pins and what is known alone disturbs nothing but the walks.
LEMMA PinsUndisturbed ==
    ASSUME IInv, UNCHANGED <<retired, pin, approved, denounced>>, behind \subseteq behind'
    PROVE  (Pinned /\ Known)'
  BY DEF IInv, Pinned, Known, Handed, KeyInUse

KeysGrow ==
    /\ approved' = approved
    /\ \/ retired' = retired
       \/ \E h \in Hosts, c \in BOOLEAN : retired' = [retired EXCEPT ![h] = Append(@, c)]

\* Revocations are only ever added.
LEMMA RevocationsGrow ==
    ASSUME Shapes, KeysGrow
    PROVE  /\ retired' \in [Hosts -> Seq(BOOLEAN)]
           /\ \A e \in Hosts : KeyInUse(e) <= KeyInUse(e)'
<1>1. CASE retired' = retired
  BY <1>1, KeysAreNumbered DEF Shapes, KeyInUse
<1>2. CASE \E h \in Hosts, c \in BOOLEAN : retired' = [retired EXCEPT ![h] = Append(@, c)]
  <2>1. PICK h \in Hosts, c \in BOOLEAN : retired' = [retired EXCEPT ![h] = Append(@, c)]
    BY <1>2
  <2>2. \A e \in Hosts : retired[e] \in Seq(BOOLEAN)
    BY DEF Shapes
  <2>3. Append(retired[h], c) \in Seq(BOOLEAN) /\ Len(Append(retired[h], c)) = Len(retired[h]) + 1
    BY <2>2
  <2>4. ASSUME NEW e \in Hosts
        PROVE  retired'[e] \in Seq(BOOLEAN) /\ Len(retired[e]) <= Len(retired'[e])
    <3>1. Len(retired[e]) \in Nat
      BY <2>2
    <3>2. retired'[e] = IF e = h THEN Append(retired[h], c) ELSE retired[e]
      BY <2>1 DEF Shapes
    <3>3. CASE e = h
      BY <2>3, <3>1, <3>2, <3>3
    <3>4. CASE e # h
      BY <2>2, <3>1, <3>2, <3>4
    <3>5. QED
      BY <3>3, <3>4
  <2>5. retired' \in [Hosts -> Seq(BOOLEAN)]
    BY <2>1, <2>4 DEF Shapes
  <2>6. \A e \in Hosts : Len(retired[e]) \in Nat /\ Len(retired'[e]) \in Nat
    BY <2>2, <2>5
  <2>7. QED
    BY <2>4, <2>5, <2>6 DEF KeyInUse
<1>3. QED
  BY <1>1, <1>2 DEF KeysGrow

\* A request under way that stays where it is in its walk, or is over.
LEMMA WalkStays ==
    ASSUME IInv, KeysGrow, NEW a \in Attendants,
           \/ Attends(a, "vacant")'
           \/ /\ ~Attends(a, "vacant")
              /\ attendant'[a].host = attendant[a].host
              /\ attendant'[a].from = attendant[a].from
              /\ attendant'[a].at = attendant[a].at
              /\ \/ attendant'[a].step = attendant[a].step
                 \/ attendant'[a].step \notin {"pinning", "clearing"}
    PROVE  Sound(a)'
<1>1. CASE Attends(a, "vacant")'
  BY <1>1 DEF Sound
<1>2. CASE ~Attends(a, "vacant") /\ ~Attends(a, "vacant")'
  <2>1. attendant[a] \in AttendantType
    BY <1>2 DEF IInv, Shapes, Attends, Vacant
  <2>2. At(a) \in Hosts /\ attendant[a].at \in Nat /\ At(a)' = At(a)
    BY <1>2, <2>1 DEF AttendantType, At, Attends
  <2>3. Sound(a) /\ approved[At(a)] >= 1
    BY <2>2 DEF IInv, Walked, Pinned
  <2>4. Shapes /\ Handed(At(a), attendant[a].at)
    BY <2>3, <1>2 DEF IInv, Sound
  <2> DEFINE e == At(a)
             key == attendant[a].at
  <2>5. Handed(e, key)' /\ KeyInUse(PeerOf(e)) <= KeyInUse(PeerOf(e))'
    <3>1. e \in Hosts /\ key \in Nat /\ Handed(e, key) /\ approved[e] >= 1 /\ e' = e /\ key' = key
      BY <1>2, <2>2, <2>3, <2>4 DEF Attends
    <3>2. \A f \in Hosts, k \in Nat : Handed(f, k) /\ approved[f] >= 1 =>
              (/\ k <= KeyInUse(PeerOf(f))'
               /\ \A j \in approved'[f] .. (k - 1) : ~retired'[PeerOf(f)][j])
              /\ KeyInUse(PeerOf(f)) <= KeyInUse(PeerOf(f))'
      BY HandedStays, <2>4 DEF KeysGrow, Handed
    <3> HIDE DEF e, key
    <3>3. QED
      BY <3>1, <3>2 DEF Handed
  <2>6. KeyInUse(PeerOf(e)) \in Nat /\ KeyInUse(PeerOf(e))' \in Nat
    <3>1. PeerOf(e) \in Hosts /\ retired[PeerOf(e)] \in Seq(BOOLEAN)
      BY <2>2, PeerIsHost DEF IInv, Shapes
    <3>2. retired'[PeerOf(e)] \in Seq(BOOLEAN)
      BY <3>1, RevocationsGrow DEF IInv
    <3>3. Len(retired[PeerOf(e)]) \in Nat /\ Len(retired'[PeerOf(e)]) \in Nat
      BY <3>1, <3>2
    <3>4. e' = e
      BY <2>2
    <3> HIDE DEF e
    <3>5. QED
      BY <3>3, <3>4 DEF KeyInUse
  <2>7. QED
    BY <1>2, <2>1, <2>2, <2>3, <2>5, <2>6 DEF Sound, Attends, At, AttendantType
<1>3. QED
  BY <1>1, <1>2

-----------------------------------------------------------------------------
(* Replacing a key                                                         *)

\* What ends with the process is no longer under way; the rest is refused or goes on.
LEMMA ProcessEndsSound ==
    ASSUME IInv, KeysGrow, NEW e \in Hosts, ProcessEnds(e)
    PROVE  /\ attendant' \in [Attendants -> AttendantType \cup {Vacant}]
           /\ behind \subseteq behind' /\ behind' \subseteq Hosts
           /\ Walked' /\ Waits'
<1>1. ASSUME NEW a \in Attendants
      PROVE  /\ attendant'[a] \in AttendantType \cup {Vacant} /\ Sound(a)'
             /\ \A b \in Attendants : ~AsksFor(a, b)'
  <2>1. CASE Attends(a, "vacant") \/ At(a) = e
    <3>1. attendant'[a] = Vacant
      BY <2>1 DEF ProcessEnds
    <3>2. QED
      BY <3>1 DEF Sound, Attends, Vacant, AsksFor
  <2>2. CASE ~(Attends(a, "vacant") \/ At(a) = e)
    <3>1. attendant[a] \in AttendantType
      BY <2>2 DEF IInv, Shapes, Attends, Vacant
    <3>2. attendant'[a] = [attendant[a] EXCEPT !.caller = "nobody",
                                               !.step = IF @ = "waiting" THEN "refused" ELSE @]
      BY <2>2 DEF ProcessEnds
    <3>3. /\ attendant'[a] \in AttendantType
          /\ attendant'[a].host = attendant[a].host
          /\ attendant'[a].from = attendant[a].from
          /\ attendant'[a].at = attendant[a].at
          /\ attendant'[a].step \in {attendant[a].step, "refused"}
          /\ attendant'[a].caller = "nobody"
      BY <3>1, <3>2 DEF AttendantType
    <3>4. "nobody" \notin Attendants
      BY ServerKeysAssumption
    <3>5. \A b \in Attendants : ~AsksFor(a, b)'
      BY <3>3, <3>4 DEF AsksFor
    <3>6. QED
      BY <3>3, <3>5, <2>2, WalkStays
  <2>3. QED
    BY <2>1, <2>2
<1>2. attendant' = [a \in Attendants |-> attendant'[a]]
  BY DEF ProcessEnds
<1>3. behind \subseteq behind' /\ behind' \subseteq Hosts
  BY DEF ProcessEnds, IInv, Shapes
<1>4. QED
  BY <1>1, <1>2, <1>3 DEF Walked, Waits

\* A key replaced leaves what was handed on handed on, and what is known older still.
LEMMA ReplaceKeySound ==
    ASSUME IInv, NEW e \in Hosts, NEW c \in BOOLEAN, ReplaceKey(e, c)
    PROVE  IInv'
<1>1. KeysGrow /\ ProcessEnds(e) /\ Shapes
  BY DEF ReplaceKey, KeysGrow, IInv
<1>2. Shapes' /\ Walked' /\ Waits' /\ behind \subseteq behind'
  BY <1>1, ProcessEndsSound, RevocationsGrow DEF Shapes, ReplaceKey
<1>3. UNCHANGED <<pin, approved, denounced>>
  BY DEF ReplaceKey
<1>4. ASSUME NEW f \in Hosts
      PROVE  approved'[f] >= 1 /\ (pin'[f] # 0 => Handed(f, pin[f])')
  <2>1. approved[f] >= 1 /\ (pin[f] # 0 => Handed(f, pin[f])) /\ pin[f] \in Nat
    BY DEF IInv, Pinned, Shapes
  <2>2. ASSUME pin[f] # 0 PROVE Handed(f, pin[f])'
    <3>1. \A k \in Nat : Handed(f, k) => /\ k <= KeyInUse(PeerOf(f))'
                                         /\ \A j \in approved'[f] .. (k - 1) : ~retired'[PeerOf(f)][j]
      BY <1>1, <2>1, HandedStays DEF KeysGrow, Handed
    <3>2. QED
      BY <3>1, <2>1, <2>2, <1>3 DEF Handed
  <2>3. QED
    BY <1>3, <2>1, <2>2
<1>5. ASSUME NEW f \in Hosts, NEW k \in denounced'[f]
      PROVE  1 <= k /\ k < KeyInUse(PeerOf(f))' /\ (f \notin behind' /\ pin'[f] # 0 => k < pin'[f])
  <2>1. 1 <= k /\ k < KeyInUse(PeerOf(f)) /\ (f \notin behind /\ pin[f] # 0 => k < pin[f]) /\ k \in Nat
    BY <1>3 DEF IInv, Known, Shapes
  <2>2. PeerOf(f) \in Hosts
    BY PeerIsHost
  <2>3. KeyInUse(PeerOf(f)) <= KeyInUse(PeerOf(f))'
    BY <1>1, <2>2, RevocationsGrow
  <2>4. KeyInUse(PeerOf(f)) \in Nat /\ KeyInUse(PeerOf(f))' \in Nat
    <3>1. retired[PeerOf(f)] \in Seq(BOOLEAN) /\ retired'[PeerOf(f)] \in Seq(BOOLEAN)
      BY <1>1, <1>2, <2>2 DEF Shapes
    <3>2. PeerOf(f)' = PeerOf(f)
      BY DEF PeerOf
    <3>3. Len(retired[PeerOf(f)]) \in Nat /\ Len(retired'[PeerOf(f)]) \in Nat
      BY <3>1
    <3>4. QED
      BY <3>2, <3>3 DEF KeyInUse
  <2>5. QED
    BY <1>2, <1>3, <2>1, <2>3, <2>4
<1>6. QED
  BY <1>2, <1>4, <1>5 DEF IInv, Pinned, Known

-----------------------------------------------------------------------------
(* Requests under way                                                      *)

Kept == /\ UNCHANGED <<retired, pin, approved, denounced>>
        /\ behind \subseteq behind' /\ behind' \subseteq Hosts

\* What leaves keys and pins alone is sound if each request under way is.
LEMMA KeptSound ==
    ASSUME IInv, Kept, attendant' \in [Attendants -> AttendantType \cup {Vacant}],
           Waits', \A a \in Attendants : Sound(a)'
    PROVE  IInv'
  BY PinsUndisturbed DEF Kept, IInv, Shapes, Walked

\* A request that begins to walk does so at the pinned key.
LEMMA AttendingSound ==
    ASSUME IInv, UNCHANGED <<retired, approved>>, NEW e \in Hosts, NEW key \in Nat,
           NEW caller \in {"notice", "nobody"} \cup Attendants, pin[e] # 0,
           NEW a \in Attendants, attendant'[a] = Attending(e, key, caller)
    PROVE  attendant'[a] \in AttendantType /\ Sound(a)'
<1>1. pin[e] \in Nat /\ pin[e] >= 1 /\ Handed(e, pin[e])
  BY DEF IInv, Shapes, Pinned
<1>2. /\ attendant'[a] \in AttendantType
      /\ attendant'[a].step = "walking" /\ attendant'[a].host = e
      /\ attendant'[a].from = pin[e] /\ attendant'[a].at = pin[e]
  BY <1>1 DEF Attending, AttendantType
<1>3. At(a)' = e /\ Attends(a, "walking")'
  BY <1>2 DEF At, Attends
<1>4. \A k : Handed(e, k) => /\ k <= KeyInUse(PeerOf(e))'
                             /\ \A j \in approved'[e] .. (k - 1) : ~retired'[PeerOf(e)][j]
  BY DEF Handed, KeyInUse
<1>5. QED
  BY <1>1, <1>2, <1>3, <1>4 DEF Sound, Handed, Attends

\* A request whose step alone changes, and not to one that rests on more.
LEMMA StepsToSound ==
    ASSUME IInv, UNCHANGED <<retired, approved>>, NEW a \in Attendants, ~Attends(a, "vacant"),
           NEW step \in {"walking", "waiting", "reading", "refused", "verifying"},
           attendant'[a] = [attendant[a] EXCEPT !.step = step]
    PROVE  attendant'[a] \in AttendantType /\ Sound(a)'
<1>1. attendant[a] \in AttendantType
  BY DEF IInv, Shapes, Attends, Vacant
<1>2. /\ attendant'[a] \in AttendantType
      /\ attendant'[a].host = attendant[a].host
      /\ attendant'[a].from = attendant[a].from
      /\ attendant'[a].at = attendant[a].at
      /\ attendant'[a].step = step
  BY <1>1 DEF AttendantType
<1>3. QED
  BY <1>2, WalkStays DEF KeysGrow

\* A request left alone stays sound.
LEMMA AloneSound ==
    ASSUME IInv, UNCHANGED <<retired, approved>>, NEW a \in Attendants,
           attendant'[a] = attendant[a]
    PROVE  attendant'[a] \in AttendantType \cup {Vacant} /\ Sound(a)'
<1>1. attendant[a] \in AttendantType \cup {Vacant}
  BY DEF IInv, Shapes
<1>2. QED
  BY <1>1, WalkStays DEF KeysGrow, Attends

\* An answer ends a request and moves the walk that asked, if one did.
LEMMA AnsweredSound ==
    ASSUME IInv, UNCHANGED <<retired, approved>>, NEW a \in Attendants, NEW ok \in BOOLEAN,
           ~Attends(a, "vacant"), ~Attends(a, "waiting"), Answered(a, ok)
    PROVE  /\ attendant' \in [Attendants -> AttendantType \cup {Vacant}]
           /\ (\A b \in Attendants : Sound(b)') /\ Waits'
<1>1. ASSUME NEW b \in Attendants
      PROVE  /\ attendant'[b] \in AttendantType \cup {Vacant} /\ Sound(b)'
             /\ \/ attendant'[b] = Vacant /\ b = a
                \/ attendant'[b] = attendant[b] /\ b # a /\ ~AsksFor(a, b)
                \/ /\ b # a /\ AsksFor(a, b) /\ ~Attends(b, "vacant")
                   /\ attendant'[b].caller = attendant[b].caller
  <2>1. CASE b = a
    <3>1. attendant'[b] = Vacant
      BY <2>1 DEF Answered
    <3>2. QED
      BY <2>1, <3>1 DEF Sound, Attends, Vacant
  <2>2. CASE b # a /\ b = attendant[a].caller
    <3>1. attendant'[b] = [attendant[b] EXCEPT !.step = IF ok THEN "reading" ELSE "refused"]
      BY <2>2 DEF Answered
    <3>2. AsksFor(a, b) /\ Attends(b, "waiting")
      BY <2>2 DEF AsksFor, IInv, Waits
    <3>3. attendant[b] \in AttendantType /\ ~Attends(b, "vacant")
      BY <3>2 DEF IInv, Shapes, Attends, Vacant
    <3>4. attendant'[b].caller = attendant[b].caller
      BY <3>1, <3>3 DEF AttendantType
    <3>5. QED
      BY <2>2, <3>1, <3>2, <3>3, <3>4, StepsToSound
  <2>3. CASE b # a /\ b # attendant[a].caller
    <3>1. attendant'[b] = attendant[b] /\ ~AsksFor(a, b)
      BY <2>3 DEF Answered, AsksFor
    <3>2. QED
      BY <2>3, <3>1, AloneSound
  <2>4. QED
    BY <2>1, <2>2, <2>3
<1>2. attendant' = [b \in Attendants |-> attendant'[b]]
  BY DEF Answered
<1>3. ASSUME NEW b \in Attendants, NEW c \in Attendants, AsksFor(b, c)'
      PROVE  /\ b # a /\ AsksFor(b, c)
             /\ Attends(c, "waiting")'
  <2>1. attendant'[b] # Vacant
    BY <1>3 DEF AsksFor, Attends, Vacant
  <2>2. b # a /\ AsksFor(b, c)
    BY <1>1, <1>3, <2>1 DEF AsksFor, Attends
  <2>3. Attends(c, "waiting") /\ ~AsksFor(a, c)
    BY <2>2 DEF IInv, Waits
  <2>4. attendant'[c] = attendant[c]
    BY <1>1, <2>3
  <2>5. QED
    BY <2>2, <2>3, <2>4 DEF Attends
<1>4. Waits'
  <2>1. \A b, c, d \in Attendants : AsksFor(b, c)' /\ AsksFor(d, c)' => d = b
    BY <1>3 DEF IInv, Waits
  <2>2. QED
    BY <1>3, <2>1 DEF Waits
<1>5. QED
  BY <1>1, <1>2, <1>4

\* A request that takes up a place nobody waits in.
LEMMA NewRequestWaits ==
    ASSUME IInv, NEW a \in Attendants, Attends(a, "vacant"),
           NEW caller, attendant'[a].caller = caller, caller # a,
           \A b \in Attendants \ {a} :
               /\ attendant'[b] = attendant[b] \/ (b = caller /\ Attends(b, "walking")
                                                   /\ attendant'[b].step = "waiting"
                                                   /\ attendant'[b].caller = attendant[b].caller),
           caller \in Attendants => Attends(caller, "walking") /\ Attends(caller, "waiting")'
    PROVE  Waits'
<1>1. ASSUME NEW b \in Attendants, NEW c \in Attendants, AsksFor(b, c)', b # a
      PROVE  AsksFor(b, c) /\ c # caller /\ Attends(c, "waiting")'
  <2>1. AsksFor(b, c)
    BY <1>1 DEF AsksFor, Attends
  <2>2. Attends(c, "waiting")
    BY <2>1 DEF IInv, Waits
  <2>3. c # caller /\ c # a
    BY <2>2 DEF Attends
  <2>4. attendant'[c] = attendant[c]
    BY <2>3
  <2>5. QED
    BY <2>1, <2>2, <2>3, <2>4 DEF Attends
<1>2. ASSUME NEW c \in Attendants, AsksFor(a, c)'
      PROVE  c = caller /\ Attends(c, "waiting")'
  BY <1>2 DEF AsksFor
<1>3. \A b, c, d \in Attendants : AsksFor(b, c)' /\ AsksFor(d, c)' => d = b
  BY <1>1, <1>2 DEF IInv, Waits
<1>4. QED
  BY <1>1, <1>2, <1>3 DEF Waits

\* Nobody's caller changes, and nobody who is waited in stops waiting.
LEMMA SameWaits ==
    ASSUME IInv,
           \A b \in Attendants :
               \/ attendant'[b] = attendant[b]
               \/ /\ ~Attends(b, "waiting") /\ ~Attends(b, "vacant")
                  /\ attendant'[b].caller = attendant[b].caller
    PROVE  Waits'
<1>1. ASSUME NEW b \in Attendants, NEW c \in Attendants, AsksFor(b, c)'
      PROVE  AsksFor(b, c) /\ Attends(c, "waiting")'
  <2>1. AsksFor(b, c)
    BY <1>1 DEF AsksFor, Attends
  <2>2. Attends(c, "waiting")
    BY <2>1 DEF IInv, Waits
  <2>3. QED
    BY <2>1, <2>2 DEF Attends
<1>2. QED
  BY <1>1 DEF IInv, Waits

\* A step of one walk that leaves the others alone.
LEMMA OneStepsSound ==
    ASSUME IInv, Kept, NEW a \in Attendants, ~Attends(a, "vacant"), ~Attends(a, "waiting"),
           NEW step \in {"walking", "waiting", "reading", "refused", "verifying"},
           StepsTo(a, step)
    PROVE  IInv'
<1>1. UNCHANGED <<retired, approved>>
  BY DEF Kept
<1>2. ASSUME NEW b \in Attendants
      PROVE  attendant'[b] \in AttendantType \cup {Vacant} /\ Sound(b)'
  <2>1. CASE b = a
    <3>1. attendant'[b] = [attendant[b] EXCEPT !.step = step]
      BY <2>1 DEF StepsTo, IInv, Shapes
    <3>2. QED
      BY <1>1, <2>1, <3>1, StepsToSound
  <2>2. CASE b # a
    BY <1>1, <2>2, AloneSound DEF StepsTo, IInv, Shapes
  <2>3. QED
    BY <2>1, <2>2
<1>3. Waits'
  <2>1. attendant[a] \in AttendantType
    BY DEF IInv, Shapes, Attends, Vacant
  <2>2. attendant'[a].caller = attendant[a].caller
    BY <2>1 DEF AttendantType, StepsTo, IInv, Shapes
  <2>3. \A b \in Attendants : b # a => attendant'[b] = attendant[b]
    BY DEF StepsTo, IInv, Shapes
  <2>4. QED
    BY <2>2, <2>3, SameWaits
<1>4. attendant' = [b \in Attendants |-> attendant'[b]]
  BY DEF StepsTo, IInv, Shapes
<1>5. QED
  BY <1>2, <1>3, <1>4, KeptSound

LEMMA ApproachSound ==
    ASSUME IInv, NEW e \in Hosts, NEW caller \in {"notice", "nobody"}, NEW a \in Attendants,
           Approach(e, caller, a)
    PROVE  IInv'
<1> DEFINE p == PeerOf(e)
<1>1. p \in Hosts /\ KeyInUse(e) \in Nat
  BY PeerIsHost, KeysAreNumbered DEF IInv
<1>2. Kept /\ UNCHANGED <<retired, approved>>
  BY DEF Approach, Kept, IInv, Shapes
<1>3. CASE Verdict(p, KeyInUse(e)) = "unknown"
  <2>1. /\ attendant' = [attendant EXCEPT ![a] = Attending(p, KeyInUse(e), caller)]
        /\ pin[p] # 0 /\ Attends(a, "vacant")
    BY <1>3 DEF Approach, Verdict
  <2>2. attendant'[a] = Attending(p, KeyInUse(e), caller)
    BY <2>1 DEF IInv, Shapes
  <2>3. attendant'[a] \in AttendantType /\ Sound(a)'
    BY <1>1, <1>2, <2>1, <2>2, AttendingSound
  <2>4. \A b \in Attendants : b # a => attendant'[b] = attendant[b]
    BY <2>1 DEF IInv, Shapes
  <2>5. \A b \in Attendants : attendant'[b] \in AttendantType \cup {Vacant} /\ Sound(b)'
    BY <1>2, <2>3, <2>4, AloneSound
  <2>6. attendant'[a].caller = caller /\ caller \notin Attendants
    BY <2>2, ServerKeysAssumption DEF Attending
  <2>7. Waits'
    BY <2>1, <2>4, <2>6, NewRequestWaits
  <2>8. attendant' = [b \in Attendants |-> attendant'[b]]
    BY <2>1 DEF IInv, Shapes
  <2>9. QED
    BY <1>2, <2>5, <2>7, <2>8, KeptSound
<1>4. CASE Verdict(p, KeyInUse(e)) # "unknown"
  <2>1. attendant' = attendant
    BY <1>4 DEF Approach
  <2>2. \A b \in Attendants : attendant'[b] \in AttendantType \cup {Vacant} /\ Sound(b)'
    BY <1>2, <2>1, AloneSound
  <2>3. Waits'
    BY <2>1, SameWaits
  <2>4. QED
    BY <1>2, <2>1, <2>2, <2>3, KeptSound DEF IInv, Shapes
<1>5. QED
  BY <1>3, <1>4

LEMMA FetchSound ==
    ASSUME IInv, NEW a \in Attendants, NEW b \in Attendants, Fetch(a, b)
    PROVE  IInv'
<1> DEFINE p == PeerOf(At(a))
<1>1. Kept /\ UNCHANGED <<retired, approved>>
  BY DEF Fetch, Kept, IInv, Shapes
<1>2. Attends(a, "walking") /\ ~Attends(a, "vacant") /\ ~Attends(a, "waiting")
      /\ Attends(b, "vacant") /\ a # b
  BY DEF Fetch, Attends
<1>3. attendant[a] \in AttendantType
  BY <1>2 DEF IInv, Shapes, Attends, Vacant
<1>4. p \in Hosts /\ KeyInUse(At(a)) \in Nat
  BY <1>3, PeerIsHost, KeysAreNumbered DEF IInv, At, AttendantType
<1>5. CASE Verdict(p, KeyInUse(At(a))) = "unknown"
  <2>1. /\ attendant' = [attendant EXCEPT ![a].step = "waiting",
                                          ![b] = Attending(p, KeyInUse(At(a)), a)]
        /\ pin[p] # 0
    BY <1>5 DEF Fetch, Verdict
  <2>2. /\ attendant'[a] = [attendant[a] EXCEPT !.step = "waiting"]
        /\ attendant'[b] = Attending(p, KeyInUse(At(a)), a)
        /\ \A c \in Attendants : c \notin {a, b} => attendant'[c] = attendant[c]
    BY <1>2, <2>1 DEF IInv, Shapes
  <2>3. attendant'[b] \in AttendantType /\ Sound(b)'
    BY <1>1, <1>4, <2>1, <2>2, AttendingSound
  <2>4. attendant'[a] \in AttendantType /\ Sound(a)'
    BY <1>1, <1>2, <2>2, StepsToSound
  <2>5. \A c \in Attendants : attendant'[c] \in AttendantType \cup {Vacant} /\ Sound(c)'
    BY <1>1, <2>2, <2>3, <2>4, AloneSound
  <2>6. /\ attendant'[a].caller = attendant[a].caller /\ attendant'[a].step = "waiting"
        /\ attendant'[b].caller = a
    BY <1>3, <2>2 DEF AttendantType, Attending
  <2>7. Waits'
    <3>1. \A c \in Attendants \ {b} :
              attendant'[c] = attendant[c] \/ (c = a /\ Attends(c, "walking")
                                               /\ attendant'[c].step = "waiting"
                                               /\ attendant'[c].caller = attendant[c].caller)
      BY <1>2, <2>2, <2>6
    <3>2. Attends(a, "waiting")'
      BY <2>6 DEF Attends
    <3>3. QED
      BY <1>2, <2>6, <3>1, <3>2, NewRequestWaits
  <2>8. attendant' = [c \in Attendants |-> attendant'[c]]
    BY <2>1 DEF IInv, Shapes
  <2>9. QED
    BY <1>1, <2>5, <2>7, <2>8, KeptSound
<1>6. CASE Verdict(p, KeyInUse(At(a))) # "unknown"
  <2>1. StepsTo(a, "reading") \/ StepsTo(a, "refused")
    BY <1>6 DEF Fetch, StepsTo
  <2>2. QED
    BY <1>1, <1>2, <2>1, OneStepsSound
<1>7. QED
  BY <1>5, <1>6

\* The walk goes on to a key that was handed on, or ends at one that is in use
\* or compromised.
LEMMA ReadRevocationSound ==
    ASSUME IInv, NEW a \in Attendants, ReadRevocation(a)
    PROVE  IInv'
<1> DEFINE p == PeerOf(At(a))
           e == At(a)
           at == attendant[a].at
           from == attendant[a].from
<1>1. Kept /\ UNCHANGED <<retired, approved>>
  BY DEF ReadRevocation, Kept, IInv, Shapes
<1>2. Attends(a, "reading") /\ ~Attends(a, "vacant") /\ ~Attends(a, "waiting")
  BY DEF ReadRevocation, Attends
<1>3. attendant[a] \in AttendantType
  BY <1>2 DEF IInv, Shapes, Attends, Vacant
<1>4. e \in Hosts /\ p \in Hosts /\ at \in Nat /\ from \in Nat
  BY <1>3, PeerIsHost DEF At, AttendantType
<1>5. KeyInUse(p) \in Nat /\ KeyInUse(p) = Len(retired[p]) + 1 /\ Len(retired[p]) \in Nat
  BY <1>4, KeysAreNumbered DEF IInv, KeyInUse
<1>6. Sound(a) /\ 1 <= from /\ from <= at /\ Handed(e, at) /\ at <= KeyInUse(p)
  BY <1>2 DEF IInv, Walked, Sound, Handed
<1>7. approved[e] \in Nat
  BY <1>4 DEF IInv, Shapes
<1>8. /\ attendant'[a] \in AttendantType /\ Sound(a)'
      /\ attendant'[a].caller = attendant[a].caller
  <2>1. CASE at = KeyInUse(p) /\ at = from
    <3>1. attendant'[a] = [attendant[a] EXCEPT !.step = "refused"]
      BY <2>1 DEF ReadRevocation, IInv, Shapes
    <3>2. attendant'[a].caller = attendant[a].caller
      BY <1>3, <3>1 DEF AttendantType
    <3>3. QED
      BY <1>1, <1>2, <3>1, <3>2, StepsToSound
  <2>2. CASE at = KeyInUse(p) /\ at # from
    <3>1. attendant'[a] = [attendant[a] EXCEPT !.step = "pinning"]
      BY <2>2 DEF ReadRevocation, IInv, Shapes
    <3>2. /\ attendant'[a] \in AttendantType /\ attendant'[a].step = "pinning"
          /\ attendant'[a].host = e /\ attendant'[a].at = at /\ attendant'[a].from = from
          /\ attendant'[a].caller = attendant[a].caller
      BY <1>3, <3>1 DEF AttendantType, At
    <3>3. At(a)' = e
      BY <3>2 DEF At
    <3>4. from < at
      BY <2>2, <1>4, <1>6
    <3>5. QED
      BY <1>1, <1>6, <3>2, <3>3, <3>4 DEF Sound, Attends, Handed, KeyInUse
  <2>3. CASE at # KeyInUse(p) /\ ~Adoptable(p, at)
    <3>1. attendant'[a] = [attendant[a] EXCEPT !.step = "clearing"]
      BY <2>3 DEF ReadRevocation, IInv, Shapes
    <3>2. /\ attendant'[a] \in AttendantType /\ attendant'[a].step = "clearing"
          /\ attendant'[a].host = e /\ attendant'[a].at = at /\ attendant'[a].from = from
          /\ attendant'[a].caller = attendant[a].caller
      BY <1>3, <3>1 DEF AttendantType, At
    <3>3. At(a)' = e
      BY <3>2 DEF At
    <3>4. at < KeyInUse(p)
      BY <2>3, <1>4, <1>5, <1>6
    <3>5. KeyInUse(p)' = KeyInUse(p)
      BY <1>1, <3>3 DEF KeyInUse, PeerOf
    <3>6. QED
      BY <1>1, <1>6, <3>2, <3>3, <3>4, <3>5 DEF Sound, Attends, Handed, KeyInUse
  <2>4. CASE at # KeyInUse(p) /\ Adoptable(p, at)
    <3>1. attendant'[a] = [attendant[a] EXCEPT
              !.at = at + 1, !.step = IF at + 1 - from = MaxHops THEN "refused" ELSE "walking"]
      BY <2>4, <1>3 DEF ReadRevocation, IInv, Shapes, AttendantType
    <3>2. /\ attendant'[a] \in AttendantType /\ attendant'[a].step \in {"refused", "walking"}
          /\ attendant'[a].host = e /\ attendant'[a].at = at + 1 /\ attendant'[a].from = from
          /\ attendant'[a].caller = attendant[a].caller
      <4> DEFINE next == IF at + 1 - from = MaxHops THEN "refused" ELSE "walking"
      <4>1. next \in {"refused", "walking"} /\ at + 1 \in Nat
        BY <1>4
      <4>2. attendant'[a] = [attendant[a] EXCEPT !.at = at + 1, !.step = next]
        BY <3>1
      <4> HIDE DEF next
      <4>3. QED
        BY <1>3, <4>1, <4>2 DEF AttendantType, At
    <3>3. At(a)' = e
      BY <3>2 DEF At
    <3>4. at + 1 <= KeyInUse(p) /\ 1 <= from /\ from <= at + 1
      BY <2>4, <1>4, <1>5, <1>6
    <3>5. \A k \in approved[e] .. at : ~retired[p][k]
      <4>1. \A k \in approved[e] .. at : k = at \/ k \in approved[e] .. (at - 1)
        BY <1>4, <1>7
      <4>2. QED
        BY <4>1, <1>6, <2>4 DEF Handed, Adoptable
    <3>6. \A k \in approved[e] .. (at + 1 - 1) : ~retired[p][k]
      BY <1>4, <1>7, <3>5
    <3>7. Handed(At(a), attendant[a].at)'
      <4>1. /\ at + 1 <= KeyInUse(PeerOf(e))
            /\ \A k \in approved[e] .. (at + 1 - 1) : ~retired[PeerOf(e)][k]
        BY <3>4, <3>6
      <4>2. PICK f, k : f = e /\ k = at + 1
        OBVIOUS
      <4>3. At(a)' = f /\ attendant'[a].at = k
        BY <3>2, <3>3, <4>2
      <4>4. k <= KeyInUse(PeerOf(f)) /\ \A j \in approved[f] .. (k - 1) : ~retired[PeerOf(f)][j]
        <5>1. k - 1 = at /\ PeerOf(f) = p /\ f = e
          BY <1>4, <4>2
        <5>2. k <= KeyInUse(PeerOf(f))
          BY <3>4, <4>2
        <5>3. ASSUME NEW j \in approved[f] .. (k - 1) PROVE ~retired[PeerOf(f)][j]
          <6> HIDE DEF e, at, p
          <6>1. j \in approved[e] .. at
            BY <5>1, <5>3
          <6>2. QED
            BY <3>5, <5>1, <6>1
        <5>4. QED
          BY <5>2, <5>3
      <4>5. /\ k <= KeyInUse(PeerOf(f))'
            /\ \A j \in approved'[f] .. (k - 1) : ~retired'[PeerOf(f)][j]
        BY <1>1, <4>4 DEF KeyInUse
      <4>6. QED
        BY <4>3, <4>5 DEF Handed
    <3>8. 1 <= attendant'[a].from /\ attendant'[a].from <= attendant'[a].at
      BY <3>2, <3>4
    <3>9. QED
      BY <3>2, <3>7, <3>8 DEF Sound, Attends
  <2>5. QED
    BY <2>1, <2>2, <2>3, <2>4
<1>9. \A b \in Attendants : b # a => attendant'[b] = attendant[b]
  BY DEF ReadRevocation, IInv, Shapes
<1>10. \A b \in Attendants : attendant'[b] \in AttendantType \cup {Vacant} /\ Sound(b)'
  BY <1>1, <1>8, <1>9, AloneSound
<1>11. Waits'
  BY <1>2, <1>8, <1>9, SameWaits
<1>12. attendant' = [b \in Attendants |-> attendant'[b]]
  BY DEF ReadRevocation, IInv, Shapes
<1>13. QED
  BY <1>1, <1>10, <1>11, <1>12, KeptSound

\* The walk ends at a key newer than the one it began at, and so newer than
\* what this server knew of when it trusted that.
LEMMA RepinSound ==
    ASSUME IInv, NEW a \in Attendants, Repin(a)
    PROVE  IInv'
<1> DEFINE e == At(a)
           at == attendant[a].at
           from == attendant[a].from
<1>1. UNCHANGED <<retired, approved, denounced>>
  BY DEF Repin
<1>2. Attends(a, "pinning") /\ ~Attends(a, "vacant") /\ ~Attends(a, "waiting")
  BY DEF Repin, Attends
<1>3. attendant[a] \in AttendantType
  BY <1>2 DEF IInv, Shapes, Attends, Vacant
<1>4. e \in Hosts /\ at \in Nat /\ from \in Nat
  BY <1>3 DEF At, AttendantType
<1>5. Handed(e, at) /\ from < at /\ 1 <= from
  BY <1>2 DEF IInv, Walked, Sound
<1>6. pin' = [pin EXCEPT ![e] = at]
  BY DEF Repin
<1>7. ASSUME NEW b \in Attendants
      PROVE  attendant'[b] \in AttendantType \cup {Vacant} /\ Sound(b)'
  <2>1. CASE b = a
    <3>1. attendant'[b] = [attendant[b] EXCEPT !.step = "verifying"]
      BY <2>1 DEF Repin, StepsTo, IInv, Shapes
    <3>2. QED
      BY <1>1, <1>2, <2>1, <3>1, StepsToSound
  <2>2. CASE b # a
    BY <1>1, <2>2, AloneSound DEF Repin, StepsTo, IInv, Shapes
  <2>3. QED
    BY <2>1, <2>2
<1>8. Waits'
  <2>1. attendant'[a].caller = attendant[a].caller
    BY <1>3 DEF AttendantType, Repin, StepsTo, IInv, Shapes
  <2>2. \A b \in Attendants : b # a => attendant'[b] = attendant[b]
    BY DEF Repin, StepsTo, IInv, Shapes
  <2>3. QED
    BY <1>2, <2>1, <2>2, SameWaits
<1>9. Shapes'
  <2>1. attendant' = [b \in Attendants |-> attendant'[b]]
    BY DEF Repin, StepsTo, IInv, Shapes
  <2>2. behind' \subseteq Hosts
    BY <1>4 DEF Repin, IInv, Shapes
  <2>3. pin' \in [Hosts -> Nat]
    BY <1>4, <1>6 DEF IInv, Shapes
  <2>4. QED
    BY <1>1, <1>7, <2>1, <2>2, <2>3 DEF IInv, Shapes
<1>10. Pinned'
  <2>1. \A f \in Hosts : approved[f] >= 1 /\ (pin[f] # 0 => Handed(f, pin[f]))
    BY DEF IInv, Pinned
  <2>2. \A f \in Hosts : pin'[f] = IF f = e THEN at ELSE pin[f]
    BY <1>4, <1>6 DEF IInv, Shapes
  <2>3. \A f \in Hosts : pin'[f] # 0 => Handed(f, pin'[f])
    BY <1>5, <2>1, <2>2
  <2>4. \A f \in Hosts : (pin[f] # 0 => Handed(f, pin[f]))'
    BY <1>1, <2>3 DEF Handed, KeyInUse
  <2>5. QED
    BY <1>1, <2>1, <2>4 DEF Pinned
<1>11. Known'
  <2>1. ASSUME NEW f \in Hosts, NEW k \in denounced[f]
        PROVE  /\ 1 <= k /\ k < KeyInUse(PeerOf(f))
               /\ f \notin behind' /\ pin'[f] # 0 => k < pin'[f]
    <3>1. k \in Nat /\ 1 <= k /\ k < KeyInUse(PeerOf(f)) /\ (f \notin behind /\ pin[f] # 0 => k < pin[f])
      BY DEF IInv, Known, Shapes
    <3>2. CASE f # e
      BY <1>4, <1>6, <3>1, <3>2 DEF Repin, IInv, Shapes
    <3>3. CASE f = e /\ at = KeyInUse(PeerOf(e))
      BY <1>4, <1>6, <3>1, <3>3 DEF IInv, Shapes
    <3>4. CASE f = e /\ at # KeyInUse(PeerOf(e)) /\ pin[e] = from
      <4>1. behind' = behind /\ pin'[e] = at /\ pin[e] # 0
        BY <1>4, <1>5, <1>6, <3>4 DEF Repin, IInv, Shapes
      <4>2. QED
        BY <1>4, <1>5, <3>1, <3>4, <4>1
    <3>5. CASE f = e /\ at # KeyInUse(PeerOf(e)) /\ pin[e] # from
      BY <3>1, <3>5 DEF Repin
    <3>6. QED
      BY <3>2, <3>3, <3>4, <3>5
  <2>2. QED
    BY <1>1, <2>1 DEF Known, KeyInUse
<1>12. QED
  BY <1>7, <1>8, <1>9, <1>10, <1>11 DEF IInv, Walked

\* A compromised key is revoked, and while nothing is trusted nothing older is.
LEMMA ClearPinSound ==
    ASSUME IInv, NEW a \in Attendants, ClearPin(a)
    PROVE  IInv'
<1> DEFINE e == At(a)
           at == attendant[a].at
<1>1. UNCHANGED <<retired, approved>>
  BY DEF ClearPin
<1>2. Attends(a, "clearing") /\ ~Attends(a, "vacant") /\ ~Attends(a, "waiting")
  BY DEF ClearPin, Attends
<1>3. attendant[a] \in AttendantType
  BY <1>2 DEF IInv, Shapes, Attends, Vacant
<1>4. e \in Hosts /\ at \in Nat /\ at < KeyInUse(PeerOf(e)) /\ 1 <= at
  BY <1>2, <1>3 DEF At, AttendantType, IInv, Walked, Sound
<1>5. Answered(a, FALSE)
  BY DEF ClearPin
<1>6. /\ attendant' \in [Attendants -> AttendantType \cup {Vacant}]
      /\ (\A b \in Attendants : Sound(b)') /\ Waits'
  BY <1>1, <1>2, <1>5, AnsweredSound
<1>7. \A f \in Hosts : /\ pin'[f] = IF f = e THEN 0 ELSE pin[f]
                       /\ denounced'[f] = IF f = e THEN denounced[e] \cup {at} ELSE denounced[f]
  BY <1>4 DEF ClearPin, Cleared, IInv, Shapes
<1>8. Shapes'
  <2>1. /\ pin' \in [Hosts -> Nat] /\ denounced' \in [Hosts -> SUBSET Nat]
        /\ behind' \subseteq Hosts
    BY <1>4, <1>7 DEF ClearPin, Cleared, IInv, Shapes
  <2>2. QED
    BY <1>1, <1>6, <2>1 DEF IInv, Shapes
<1>9. Pinned'
  <2>1. \A f \in Hosts : approved[f] >= 1 /\ (pin'[f] # 0 => Handed(f, pin'[f]))
    BY <1>7 DEF IInv, Pinned
  <2>2. \A f \in Hosts : (pin[f] # 0 => Handed(f, pin[f]))'
    BY <1>1, <2>1 DEF Handed, KeyInUse
  <2>3. QED
    BY <1>1, <2>1, <2>2 DEF Pinned
<1>10. Known'
  <2>1. ASSUME NEW f \in Hosts, NEW k \in denounced'[f]
        PROVE  /\ 1 <= k /\ k < KeyInUse(PeerOf(f))
               /\ f \notin behind' /\ pin'[f] # 0 => k < pin'[f]
    <3>1. behind \subseteq behind'
      BY DEF ClearPin
    <3>2. QED
      BY <1>4, <1>7, <3>1 DEF IInv, Known
  <2>2. QED
    BY <1>1, <2>1 DEF Known, KeyInUse
<1>11. QED
  BY <1>6, <1>8, <1>9, <1>10 DEF IInv, Walked

\* A request that has its answer, refused or verified.
LEMMA AnswerSound ==
    ASSUME IInv, NEW a \in Attendants, Verify(a) \/ GiveUpWalk(a)
    PROVE  IInv'
<1>1. ~Attends(a, "vacant") /\ ~Attends(a, "waiting")
  BY DEF Verify, GiveUpWalk, Attends
<1>2. attendant[a] \in AttendantType
  BY <1>1 DEF IInv, Shapes, Attends, Vacant
<1>3. Kept /\ UNCHANGED <<retired, approved>>
  BY <1>2 DEF Verify, GiveUpWalk, Kept, IInv, Shapes, At, AttendantType
<1>4. \E ok \in BOOLEAN : Answered(a, ok)
  BY DEF Verify, GiveUpWalk
<1>5. QED
  BY <1>1, <1>3, <1>4, AnsweredSound, KeptSound

\* Both trust what is in use, which no revocation names.
LEMMA PeerAnewSound ==
    ASSUME IInv, PeerAnew
    PROVE  IInv'
<1>1. retired' = retired /\ denounced' = denounced /\ behind' = {} /\ approved' = pin'
  BY DEF PeerAnew
<1>2. \A e \in Hosts : /\ pin'[e] = KeyInUse(PeerOf(e))
                       /\ KeyInUse(PeerOf(e)) \in Nat /\ KeyInUse(PeerOf(e)) >= 1
  BY PeerIsHost, KeysAreNumbered DEF PeerAnew, IInv
<1>3. pin' \in [Hosts -> Nat]
  BY <1>2 DEF PeerAnew
<1>4. ASSUME NEW e \in Hosts, NEW k \in Nat, k <= KeyInUse(PeerOf(e))
      PROVE  Handed(e, k)'
  <2>1. \A j \in approved'[e] .. (k - 1) : FALSE
    BY <1>1, <1>2, <1>4
  <2>2. QED
    BY <1>1, <1>4, <2>1 DEF Handed, KeyInUse
<1>5. ASSUME NEW a \in Attendants
      PROVE  /\ attendant'[a] \in AttendantType \cup {Vacant} /\ Sound(a)'
             /\ \/ attendant'[a] = attendant[a]
                \/ /\ attendant'[a].step = attendant[a].step
                   /\ \A b \in Attendants : attendant'[a].caller # b
  <2>1. /\ attendant'[a] \in AttendantType \cup {Vacant}
        /\ \/ attendant'[a] = attendant[a]
           \/ /\ attendant'[a].step = attendant[a].step /\ attendant'[a].host = attendant[a].host
              /\ attendant'[a].from = attendant[a].from /\ attendant'[a].at = attendant[a].at
              /\ attendant'[a].caller = "nobody"
    <3>1. CASE ~Attends(a, "vacant") /\ attendant[a].caller = "notice"
      <4>1. attendant'[a] = [attendant[a] EXCEPT !.caller = "nobody"]
        BY <3>1 DEF PeerAnew
      <4>2. attendant[a] \in AttendantType
        BY <3>1 DEF IInv, Shapes, Attends, Vacant
      <4>3. QED
        BY <4>1, <4>2 DEF AttendantType
    <3>2. CASE ~(~Attends(a, "vacant") /\ attendant[a].caller = "notice")
      <4>1. attendant'[a] = attendant[a]
        BY <3>2 DEF PeerAnew
      <4>2. QED
        BY <4>1 DEF IInv, Shapes
    <3>3. QED
      BY <3>1, <3>2
  <2>2. Sound(a)'
    <3>1. CASE Attends(a, "vacant")'
      BY <3>1 DEF Sound
    <3>2. CASE ~Attends(a, "vacant")'
      <4>1. ~Attends(a, "vacant") /\ Sound(a)
        BY <2>1, <3>2 DEF Attends, IInv, Walked
      <4>2. attendant[a] \in AttendantType
        BY <4>1 DEF IInv, Shapes, Attends, Vacant
      <4>3. /\ At(a)' = At(a) /\ attendant'[a].from = attendant[a].from
            /\ attendant'[a].at = attendant[a].at /\ attendant'[a].step = attendant[a].step
            /\ At(a) \in Hosts /\ attendant[a].at \in Nat
        BY <2>1, <4>2 DEF At, AttendantType
      <4>4. \A e \in Hosts, k \in Nat : k <= KeyInUse(PeerOf(e)) =>
                /\ k <= KeyInUse(PeerOf(e))'
                /\ \A j \in approved'[e] .. (k - 1) : ~retired'[PeerOf(e)][j]
        BY <1>4 DEF Handed
      <4>5. KeyInUse(PeerOf(At(a)))' = KeyInUse(PeerOf(At(a)))
        BY <1>1, <4>3 DEF KeyInUse, PeerOf
      <4>6. QED
        BY <4>1, <4>3, <4>4, <4>5 DEF Sound, Handed, Attends
    <3>3. QED
      BY <3>1, <3>2
  <2>3. "nobody" \notin Attendants
    BY ServerKeysAssumption
  <2>4. QED
    BY <2>1, <2>2, <2>3
<1>6. attendant' = [a \in Attendants |-> attendant'[a]]
  BY DEF PeerAnew
<1>7. Shapes'
  BY <1>1, <1>3, <1>5, <1>6 DEF IInv, Shapes
<1>8. Pinned'
  BY <1>1, <1>2, <1>4 DEF Pinned
<1>9. Known'
  BY <1>1, <1>2 DEF IInv, Known, KeyInUse
<1>10. Waits'
  <2>1. ASSUME NEW b \in Attendants, NEW c \in Attendants, AsksFor(b, c)'
        PROVE  AsksFor(b, c) /\ Attends(c, "waiting")'
    <3>1. AsksFor(b, c)
      BY <1>5, <2>1 DEF AsksFor, Attends
    <3>2. Attends(c, "waiting")
      BY <3>1 DEF IInv, Waits
    <3>3. QED
      BY <1>5, <3>1, <3>2 DEF Attends
  <2>2. QED
    BY <2>1 DEF IInv, Waits
<1>11. QED
  BY <1>5, <1>7, <1>8, <1>9, <1>10 DEF IInv, Walked

-----------------------------------------------------------------------------
(* The theorems                                                            *)

LEMMA InitSound == ServerKeysInit => IInv
<1> SUFFICES ASSUME ServerKeysInit PROVE IInv
  OBVIOUS
<1>1. \A e \in Hosts : retired[e] = <<>> /\ pin[e] = 1 /\ approved[e] = 1 /\ denounced[e] = {}
  BY DEF ServerKeysInit
<1>2. \A a \in Attendants : Attends(a, "vacant")
  BY DEF ServerKeysInit, Attends, Vacant
<1>3. \A e \in Hosts : KeyInUse(PeerOf(e)) = 1
  <2>1. ASSUME NEW e \in Hosts PROVE KeyInUse(PeerOf(e)) = 1
    <3>1. retired[PeerOf(e)] = <<>>
      BY <1>1, PeerIsHost
    <3>2. Len(retired[PeerOf(e)]) = 0
      BY <3>1
    <3>3. QED
      BY <3>2 DEF KeyInUse
  <2>2. QED
    BY <2>1
<1>4. Shapes
  BY DEF ServerKeysInit, Shapes
<1>5. Pinned
  <2>1. ASSUME NEW e \in Hosts PROVE approved[e] >= 1 /\ Handed(e, pin[e])
    <3>1. approved[e] = 1 /\ pin[e] = 1 /\ KeyInUse(PeerOf(e)) = 1
      BY <1>1, <1>3
    <3>2. \A k \in approved[e] .. (pin[e] - 1) : FALSE
      BY <3>1
    <3>3. QED
      BY <3>1, <3>2 DEF Handed
  <2>2. QED
    BY <2>1 DEF Pinned
<1>6. QED
  BY <1>1, <1>2, <1>4, <1>5 DEF IInv, Walked, Sound, Known, Waits, AsksFor

LEMMA StepSound == IInv /\ [ServerKeysNext]_serverKeyVars => IInv'
<1> SUFFICES ASSUME IInv, [ServerKeysNext]_serverKeyVars PROVE IInv'
  OBVIOUS
<1>1. ASSUME NEW e \in Hosts, NEW c \in BOOLEAN, ReplaceKey(e, c) PROVE IInv'
  BY <1>1, ReplaceKeySound
<1>2. ASSUME NEW e \in Hosts, Reboot(e) PROVE IInv'
  <2>1. KeysGrow /\ ProcessEnds(e)
    BY <1>2 DEF Reboot, KeysGrow
  <2>2. /\ attendant' \in [Attendants -> AttendantType \cup {Vacant}]
        /\ behind \subseteq behind' /\ behind' \subseteq Hosts /\ Walked' /\ Waits'
    BY <2>1, ProcessEndsSound
  <2>3. Kept
    BY <1>2, <2>2 DEF Reboot, Kept
  <2>4. QED
    BY <2>2, <2>3, KeptSound DEF Walked
<1>3. ASSUME NEW e \in Hosts, NEW a \in Attendants, NEW caller \in {"notice", "nobody"},
             Approach(e, caller, a)
      PROVE  IInv'
  BY <1>3, ApproachSound
<1>4. ASSUME NEW a \in Attendants, NEW b \in Attendants, Fetch(a, b) PROVE IInv'
  BY <1>4, FetchSound
<1>5. ASSUME NEW a \in Attendants, FetchLost(a) PROVE IInv'
  <2>1. Kept /\ ~Attends(a, "vacant") /\ ~Attends(a, "waiting") /\ StepsTo(a, "refused")
    BY <1>5 DEF FetchLost, Kept, Attends, IInv, Shapes
  <2>2. QED
    BY <2>1, OneStepsSound
<1>6. ASSUME NEW a \in Attendants, ReadRevocation(a) PROVE IInv'
  BY <1>6, ReadRevocationSound
<1>7. ASSUME NEW a \in Attendants, Repin(a) PROVE IInv'
  BY <1>7, RepinSound
<1>8. ASSUME NEW a \in Attendants, ClearPin(a) PROVE IInv'
  BY <1>8, ClearPinSound
<1>9. ASSUME NEW a \in Attendants, Verify(a) \/ GiveUpWalk(a) PROVE IInv'
  BY <1>9, AnswerSound
<1>10. CASE PeerAnew
  BY <1>10, PeerAnewSound
<1>11. ASSUME UNCHANGED <<retired, pin, approved, denounced, attendant, behind>> PROVE IInv'
  BY <1>11 DEF IInv, Shapes, Pinned, Walked, Sound, Known, Waits, AsksFor, Attends, At, Handed,
               KeyInUse
<1>12. ASSUME NEW e \in Hosts, NEW key \in 1 .. KeyInUse(PeerOf(e)), FiveMinutesPass(e, key)
       PROVE  IInv'
  BY <1>11, <1>12 DEF FiveMinutesPass
<1>13. CASE UNCHANGED serverKeyVars
  BY <1>11, <1>13 DEF serverKeyVars
<1>14. QED
  BY <1>1, <1>2, <1>3, <1>4, <1>5, <1>6, <1>7, <1>8, <1>9, <1>10, <1>12, <1>13
     DEF ServerKeysNext

\* The inductive strengthening: what a walk has read, which walk waits for
\* which, and how old a compromised key is.
THEOREM WalksAreSound == ServerKeysSpec => []IInv
  BY InitSound, StepSound, PTL DEF ServerKeysSpec

\* A trusted key was handed on by its owner, from the one an admin approved,
\* and none on the way as compromised (walkRevocationChain, RepinPeerKey).
THEOREM KeysAreHandedOver == ServerKeysSpec => []HandedOver
<1>1. IInv => HandedOver
  BY DEF IInv, Pinned, Handed, HandedOver
<1>2. QED
  BY <1>1, WalksAreSound, PTL

\* A key this server knows to be compromised is not trusted again, unless a
\* walk overtook another (ClearPeerPin, RepinPeerKey).
THEOREM DenouncedStay == ServerKeysSpec => []DenouncedUnlessBehind
<1>1. IInv => DenouncedUnlessBehind
  <2>1. ASSUME IInv, NEW e \in Hosts, e \notin behind, pin[e] \in denounced[e] PROVE FALSE
    <3>1. pin[e] \in Nat /\ 1 <= pin[e] /\ (pin[e] # 0 => pin[e] < pin[e])
      BY <2>1 DEF IInv, Shapes, Known
    <3>2. QED
      BY <3>1
  <2>2. QED
    BY <2>1 DEF DenouncedUnlessBehind
<1>2. QED
  BY <1>1, WalksAreSound, PTL

-----------------------------------------------------------------------------
(* A peer that is told follows                                             *)

\* The peer's key in use is trusted, or none is, for one that was compromised.
Follows(e) ==
    \/ pin[e] = KeyInUse(PeerOf(e))
    \/ pin[e] = 0 /\ \E k \in approved[e] .. (KeyInUse(PeerOf(e)) - 1) : retired[PeerOf(e)][k]

BusyFor(e, a) == ~Attends(a, "vacant") /\ At(a) = e

\* A walk for the key in use, whose outcome is still to come.
WalksForKey(e, a) ==
    BusyFor(e, a) /\ ~Attends(a, "verifying") /\ attendant[a].key = KeyInUse(PeerOf(e))

NoticeAt(e, a) == BusyFor(e, a) /\ attendant[a].caller = "notice"

\* A notice that is not under way yet.
OwesNotice(e) ==
    /\ announced[PeerOf(e)] > 0
    /\ (\E a \in Attendants : NoticeAt(e, a)) => announced[PeerOf(e)] > 1

Reached(e) == Follows(e) \/ \E a \in Attendants : WalksForKey(e, a)

\* What a server that is not behind knows of the key in use, or will hear.
Hears(e) ==
    /\ Reached(e) \/ OwesNotice(e)
    /\ KeyInUse(PeerOf(e)) \in promoted[e] \cup chased[e] => Reached(e)
    /\ pin[e] = 0 => Follows(e)
    /\ \A a \in Attendants :
          BusyFor(e, a) /\ Attends(a, "verifying") /\ attendant[a].key = KeyInUse(PeerOf(e)) => Follows(e)

KeysKnown ==
    /\ promoted \in [Hosts -> SUBSET Nat] /\ chased \in [Hosts -> SUBSET Nat]
    /\ announced \in [Hosts -> Nat]
    /\ \A e \in Hosts :
        /\ \A k \in promoted[e] \cup chased[e] : k <= KeyInUse(PeerOf(e))
        /\ approved[e] <= KeyInUse(PeerOf(e))
        /\ e \notin behind /\ pin[e] # 0 => approved[e] <= pin[e]

\* What a walk is for, and what it has found.
ForKey(a) ==
    ~Attends(a, "vacant") =>
        /\ attendant[a].key <= KeyInUse(PeerOf(At(a)))
        /\ Attends(a, "pinning") => attendant[a].key <= attendant[a].at
        /\ Attends(a, "clearing") => retired[PeerOf(At(a))][attendant[a].at]

\* One notice of a server is under way, and it is owed.
OneNotice ==
    \A e \in Hosts, a \in Attendants : NoticeAt(e, a) =>
        /\ announced[PeerOf(e)] >= 1
        /\ \A b \in Attendants : NoticeAt(e, b) => b = a

HearInv ==
    /\ IInv /\ KeysKnown /\ (\A a \in Attendants : ForKey(a)) /\ OneNotice
    /\ \A e \in Hosts \ behind : Hears(e)

LEMMA TwoHosts ==
    ASSUME NEW e \in Hosts
    PROVE  /\ PeerOf(e) \in Hosts /\ PeerOf(e) # e /\ PeerOf(PeerOf(e)) = e
           /\ \A f \in Hosts : f = e \/ f = PeerOf(e)
<1>1. PICK d \in Hosts, f \in Hosts : d # f /\ Hosts = {d, f}
  BY ServerKeysAssumption
<1>2. \A h \in Hosts : PeerOf(h) \in Hosts /\ PeerOf(h) # h
  <2>1. TAKE h \in Hosts
  <2>2. \E p \in Hosts : p # h
    BY <1>1
  <2>3. QED
    BY <2>2 DEF PeerOf
<1>3. QED
  BY <1>1, <1>2

\* A request under way has its shape.
LEMMA BusyShape ==
    ASSUME IInv, NEW a \in Attendants, ~Attends(a, "vacant")
    PROVE  /\ attendant[a] \in AttendantType /\ At(a) \in Hosts /\ PeerOf(At(a)) \in Hosts
           /\ attendant[a].key \in Nat /\ attendant[a].at \in Nat /\ attendant[a].from \in Nat
           /\ attendant = [b \in Attendants |-> attendant[b]]
<1>1. attendant[a] \in AttendantType /\ attendant = [b \in Attendants |-> attendant[b]]
  BY DEF IInv, Shapes, Attends, Vacant
<1>2. QED
  BY <1>1, TwoHosts DEF At, AttendantType

\* A request that stays as it is, or goes on in its walk.
Proceeds(b) ==
    /\ ~Attends(b, "vacant") /\ ~Attends(b, "vacant")'
    /\ attendant'[b].host = attendant[b].host /\ attendant'[b].key = attendant[b].key
    /\ attendant'[b].caller = attendant[b].caller
    /\ Attends(b, "verifying")' <=> Attends(b, "verifying")
GoesOn(b) == attendant'[b] = attendant[b] \/ Proceeds(b)

LEMMA GoesOnAlike ==
    ASSUME retired' = retired, NEW e, NEW b, GoesOn(b)
    PROVE  /\ BusyFor(e, b)' <=> BusyFor(e, b)
           /\ WalksForKey(e, b)' <=> WalksForKey(e, b)
           /\ NoticeAt(e, b)' <=> NoticeAt(e, b)
           /\ (BusyFor(e, b) /\ Attends(b, "verifying") /\ attendant[b].key = KeyInUse(PeerOf(e)))'
                <=> (BusyFor(e, b) /\ Attends(b, "verifying") /\ attendant[b].key = KeyInUse(PeerOf(e)))
<1>1. CASE attendant'[b] = attendant[b]
  BY <1>1 DEF BusyFor, WalksForKey, NoticeAt, Attends, At, KeyInUse, PeerOf
<1>2. CASE Proceeds(b)
  BY <1>2 DEF Proceeds, BusyFor, WalksForKey, NoticeAt, Attends, At, KeyInUse, PeerOf
<1>3. QED
  BY <1>1, <1>2 DEF GoesOn

\* A host whose requests go on, and of which nothing else changes, hears as before.
LEMMA HearsStill ==
    ASSUME NEW e \in Hosts, UNCHANGED <<retired, approved>>, Hears(e),
           pin'[e] = pin[e], promoted'[e] = promoted[e],
           announced'[PeerOf(e)] = announced[PeerOf(e)],
           KeyInUse(PeerOf(e)) \in chased'[e] =>
              KeyInUse(PeerOf(e)) \in chased[e] \/ Reached(e)',
           \A b \in Attendants : GoesOn(b) \/ (~BusyFor(e, b) /\ (BusyFor(e, b)' => WalksForKey(e, b)' /\ ~NoticeAt(e, b)'))
    PROVE  Hears(e)'
<1>1. KeyInUse(PeerOf(e))' = KeyInUse(PeerOf(e)) /\ PeerOf(e)' = PeerOf(e)
  BY DEF KeyInUse, PeerOf
<1>2. Follows(e)' <=> Follows(e)
  BY <1>1 DEF Follows
<1>3. \A b \in Attendants : WalksForKey(e, b) => WalksForKey(e, b)'
  BY GoesOnAlike DEF WalksForKey
<1>4. Reached(e) => Reached(e)'
  BY <1>2, <1>3 DEF Reached
<1>5. \A b \in Attendants : NoticeAt(e, b)' => NoticeAt(e, b)
  BY GoesOnAlike DEF NoticeAt
<1>6. OwesNotice(e) => OwesNotice(e)'
  BY <1>1, <1>5 DEF OwesNotice
<1>7. \A b \in Attendants :
         (BusyFor(e, b) /\ Attends(b, "verifying") /\ attendant[b].key = KeyInUse(PeerOf(e)))'
           => BusyFor(e, b) /\ Attends(b, "verifying") /\ attendant[b].key = KeyInUse(PeerOf(e))
  <2>1. TAKE b \in Attendants
  <2>2. CASE GoesOn(b)
    BY <2>2, GoesOnAlike
  <2>3. CASE BusyFor(e, b)' => WalksForKey(e, b)'
    BY <2>3 DEF WalksForKey
  <2>4. QED
    BY <2>2, <2>3
<1>8. pin'[e] = 0 => Follows(e)'
  BY <1>2 DEF Hears
<1>9. Reached(e)' \/ OwesNotice(e)'
  BY <1>4, <1>6 DEF Hears
<1>10. KeyInUse(PeerOf(e)) \in promoted'[e] \cup chased'[e] => Reached(e)'
  BY <1>4 DEF Hears
<1>11. \A b \in Attendants :
          (BusyFor(e, b) /\ Attends(b, "verifying") /\ attendant[b].key = KeyInUse(PeerOf(e)))' => Follows(e)'
  BY <1>2, <1>7 DEF Hears
<1>12. QED
  BY <1>1, <1>8, <1>9, <1>10, <1>11 DEF Hears

\* A host that follows has nothing left to hear.
LEMMA FollowsHears == ASSUME NEW e, Follows(e)' PROVE Hears(e)'
BY DEF Hears, Reached

\* A walk that goes on keeps what it is for.
LEMMA ForKeyStays ==
    ASSUME retired' = retired, NEW a \in Attendants, ForKey(a),
           \/ Attends(a, "vacant")' \/ attendant'[a] = attendant[a]
           \/ /\ ~Attends(a, "vacant") /\ attendant'[a].host = attendant[a].host
              /\ attendant'[a].key = attendant[a].key
              /\ attendant'[a].step \notin {"pinning", "clearing"}
    PROVE  ForKey(a)'
<1>1. CASE Attends(a, "vacant")'
  BY <1>1 DEF ForKey
<1>2. CASE attendant'[a] = attendant[a]
  BY <1>2 DEF ForKey, Attends, At, KeyInUse, PeerOf
<1>3. CASE /\ ~Attends(a, "vacant") /\ attendant'[a].host = attendant[a].host
           /\ attendant'[a].key = attendant[a].key
           /\ attendant'[a].step \notin {"pinning", "clearing"}
  BY <1>3 DEF ForKey, Attends, At, KeyInUse, PeerOf
<1>4. QED
  BY <1>1, <1>2, <1>3

\* A host that is reached after the step, while the others go on.
LEMMA HearsReached ==
    ASSUME NEW e \in Hosts, UNCHANGED <<retired, approved>>, Hears(e),
           pin'[e] = pin[e], Reached(e)',
           \A b \in Attendants : GoesOn(b) \/ (BusyFor(e, b)' => ~Attends(b, "verifying")')
    PROVE  Hears(e)'
<1>1. KeyInUse(PeerOf(e))' = KeyInUse(PeerOf(e)) /\ PeerOf(e)' = PeerOf(e)
  BY DEF KeyInUse, PeerOf
<1>2. Follows(e)' <=> Follows(e)
  BY <1>1 DEF Follows
<1>3. \A b \in Attendants :
         (BusyFor(e, b) /\ Attends(b, "verifying") /\ attendant[b].key = KeyInUse(PeerOf(e)))'
           => BusyFor(e, b) /\ Attends(b, "verifying") /\ attendant[b].key = KeyInUse(PeerOf(e))
  <2>1. TAKE b \in Attendants
  <2>2. CASE GoesOn(b)
    BY <2>2, GoesOnAlike
  <2>3. CASE BusyFor(e, b)' => ~Attends(b, "verifying")'
    BY <2>3
  <2>4. QED
    BY <2>2, <2>3
<1>4. pin'[e] = 0 => Follows(e)'
  BY <1>2 DEF Hears
<1>5. \A b \in Attendants :
         (BusyFor(e, b) /\ Attends(b, "verifying") /\ attendant[b].key = KeyInUse(PeerOf(e)))' => Follows(e)'
  BY <1>2, <1>3 DEF Hears
<1>6. QED
  BY <1>4, <1>5 DEF Hears

\* Keys are numbered as before, and more of them are known.
LEMMA KeysKnownStays ==
    ASSUME HearInv, UNCHANGED <<retired, pin, promoted, approved>>, behind \subseteq behind',
           announced' \in [Hosts -> Nat], chased' \in [Hosts -> SUBSET Nat],
           \A e \in Hosts : \A k \in chased'[e] : k <= KeyInUse(PeerOf(e))
    PROVE  KeysKnown'
BY DEF HearInv, KeysKnown, KeyInUse, PeerOf

\* A step after which no other notice is under way, and all are still owed.
LEMMA NoticesStay ==
    ASSUME OneNotice, announced \in [Hosts -> Nat], announced' \in [Hosts -> Nat],
           \A e \in Hosts : announced'[e] >= announced[e],
           \A e \in Hosts, b \in Attendants : NoticeAt(e, b)' => NoticeAt(e, b)
    PROVE  OneNotice'
<1>1. SUFFICES ASSUME NEW e \in Hosts, NEW a \in Attendants, NoticeAt(e, a)'
               PROVE  announced'[PeerOf(e)] >= 1 /\ \A b \in Attendants : NoticeAt(e, b)' => b = a
  BY DEF OneNotice, PeerOf
<1>2. announced[PeerOf(e)] >= 1 /\ \A b \in Attendants : NoticeAt(e, b) => b = a
  BY <1>1 DEF OneNotice
<1>3. PeerOf(e) \in Hosts
  BY TwoHosts
<1>4. announced'[PeerOf(e)] >= announced[PeerOf(e)] /\ announced'[PeerOf(e)] \in Nat /\ announced[PeerOf(e)] \in Nat
  BY <1>3
<1>5. QED
  BY <1>1, <1>2, <1>4

\* One walk goes on and the rest is left alone.
LEMMA WalkGoesOn ==
    ASSUME HearInv, IInv', NEW a \in Attendants, GoesOn(a), ForKey(a)',
           \A b \in Attendants : b # a => attendant'[b] = attendant[b],
           UNCHANGED <<retired, pin, promoted, chased, announced, approved>>, behind \subseteq behind'
    PROVE  HearInv'
<1>1. \A b \in Attendants : GoesOn(b)
  BY DEF GoesOn
<1>2. KeysKnown'
  BY KeysKnownStays DEF HearInv, KeysKnown
<1>3. \A b \in Attendants : ForKey(b)'
  BY ForKeyStays DEF HearInv
<1>4. OneNotice'
  BY <1>1, GoesOnAlike, NoticesStay DEF HearInv, KeysKnown
<1>5. \A e \in Hosts \ behind' : Hears(e)'
  BY <1>1, HearsStill DEF HearInv
<1>6. QED
  BY <1>2, <1>3, <1>4, <1>5 DEF HearInv

LEMMA FetchLostHears == ASSUME HearInv, IInv', NEW a \in Attendants, FetchLost(a) PROVE HearInv'
<1>1. /\ Attends(a, "walking") /\ attendant' = [attendant EXCEPT ![a].step = "refused"]
      /\ UNCHANGED <<retired, pin, promoted, chased, announced, approved, behind>>
  BY DEF FetchLost, StepsTo
<1>2. ~Attends(a, "vacant") /\ ~Attends(a, "verifying")
  BY <1>1 DEF Attends
<1>3. attendant[a] \in AttendantType /\ attendant = [b \in Attendants |-> attendant[b]]
  BY <1>2, BusyShape DEF HearInv
<1>4. /\ attendant'[a] = [attendant[a] EXCEPT !.step = "refused"]
      /\ \A b \in Attendants : b # a => attendant'[b] = attendant[b]
  BY <1>1, <1>3
<1>5. /\ attendant'[a].host = attendant[a].host /\ attendant'[a].key = attendant[a].key
      /\ attendant'[a].caller = attendant[a].caller /\ attendant'[a].step = "refused"
  BY <1>3, <1>4 DEF AttendantType
<1>6. GoesOn(a)
  BY <1>2, <1>5 DEF GoesOn, Proceeds, Attends
<1>7. ForKey(a)'
  BY <1>1, <1>2, <1>5, ForKeyStays DEF HearInv
<1>8. QED
  BY <1>1, <1>4, <1>6, <1>7, WalkGoesOn

LEMMA ReadRevocationHears == ASSUME HearInv, IInv', NEW a \in Attendants, ReadRevocation(a) PROVE HearInv'
<1>1. PICK p : p = PeerOf(At(a))
  OBVIOUS
<1>2. PICK at : at = attendant[a].at
  OBVIOUS
<1>3. PICK from : from = attendant[a].from
  OBVIOUS
<1>4. /\ Attends(a, "reading")
      /\ attendant' = IF at = KeyInUse(p)
                      THEN [attendant EXCEPT ![a].step = IF at = from THEN "refused" ELSE "pinning"]
                      ELSE IF ~Adoptable(p, at) THEN [attendant EXCEPT ![a].step = "clearing"]
                      ELSE [attendant EXCEPT ![a].at = at + 1,
                                             ![a].step = IF at + 1 - from = MaxHops THEN "refused" ELSE "walking"]
      /\ UNCHANGED <<retired, pin, promoted, chased, announced, approved, behind>>
  BY <1>1, <1>2, <1>3 DEF ReadRevocation
<1>5. ~Attends(a, "vacant") /\ ~Attends(a, "verifying")
  BY <1>4 DEF Attends
<1>6. attendant[a] \in AttendantType /\ attendant = [b \in Attendants |-> attendant[b]] /\ at \in Nat
  BY <1>2, <1>5, BusyShape DEF HearInv
<1>7. \A b \in Attendants : b # a => attendant'[b] = attendant[b]
  BY <1>4, <1>6
<1>8. /\ attendant'[a].host = attendant[a].host /\ attendant'[a].key = attendant[a].key
      /\ attendant'[a].caller = attendant[a].caller
      /\ attendant'[a].step \in {"refused", "pinning", "clearing", "walking"}
      /\ attendant'[a].step = "pinning" => at = KeyInUse(p) /\ attendant'[a].at = at
      /\ attendant'[a].step = "clearing" => ~Adoptable(p, at) /\ attendant'[a].at = at
  <2>1. PICK step : step = IF at = from THEN "refused" ELSE "pinning"
    OBVIOUS
  <2>2. PICK next : next = IF at + 1 - from = MaxHops THEN "refused" ELSE "walking"
    OBVIOUS
  <2>3. CASE at = KeyInUse(p)
    <3>1. attendant'[a] = [attendant[a] EXCEPT !.step = step] /\ step \in {"refused", "pinning"}
      BY <1>4, <1>6, <2>1, <2>3
    <3>2. QED
      BY <1>2, <1>6, <2>3, <3>1 DEF AttendantType
  <2>4. CASE at # KeyInUse(p) /\ ~Adoptable(p, at)
    <3>1. attendant'[a] = [attendant[a] EXCEPT !.step = "clearing"]
      BY <1>4, <1>6, <2>4
    <3>2. QED
      BY <1>2, <1>6, <2>4, <3>1 DEF AttendantType
  <2>5. CASE at # KeyInUse(p) /\ Adoptable(p, at)
    <3>1. attendant'[a] = [attendant[a] EXCEPT !.at = at + 1, !.step = next] /\ next \in {"refused", "walking"}
      BY <1>4, <1>6, <2>2, <2>5
    <3>2. QED
      BY <1>6, <3>1 DEF AttendantType
  <2>6. QED
    BY <2>3, <2>4, <2>5
<1>9. GoesOn(a)
  BY <1>5, <1>8 DEF GoesOn, Proceeds, Attends
<1>10. ForKey(a)'
  <2>1. attendant[a].key <= KeyInUse(p)
    BY <1>1, <1>5 DEF HearInv, ForKey
  <2>2. KeyInUse(p)' = KeyInUse(p) /\ PeerOf(At(a))' = p
    BY <1>1, <1>4, <1>8 DEF KeyInUse, PeerOf, At
  <2>3. QED
    BY <1>4, <1>8, <2>1, <2>2 DEF ForKey, Attends, Adoptable
<1>11. QED
  BY <1>4, <1>7, <1>9, <1>10, WalkGoesOn

LEMMA FiveMinutesHears ==
    ASSUME HearInv, IInv', NEW e \in Hosts, NEW key, FiveMinutesPass(e, key) PROVE HearInv'
<1>1. /\ chased' = [chased EXCEPT ![e] = @ \ {key}]
      /\ UNCHANGED <<retired, pin, promoted, announced, attendant, approved, behind>>
  BY DEF FiveMinutesPass
<1>2. chased' \in [Hosts -> SUBSET Nat] /\ \A f \in Hosts : chased'[f] \subseteq chased[f]
  BY <1>1 DEF HearInv, KeysKnown
<1>3. \A b \in Attendants : GoesOn(b)
  BY <1>1 DEF GoesOn
<1>4. KeysKnown'
  BY <1>1, <1>2, KeysKnownStays DEF HearInv, KeysKnown
<1>5. \A b \in Attendants : ForKey(b)'
  BY <1>1, ForKeyStays DEF HearInv
<1>6. OneNotice'
  BY <1>1, <1>3, GoesOnAlike, NoticesStay DEF HearInv, KeysKnown
<1>7. \A f \in Hosts \ behind' : Hears(f)'
  BY <1>1, <1>2, <1>3, HearsStill DEF HearInv
<1>8. QED
  BY <1>4, <1>5, <1>6, <1>7 DEF HearInv

\* Whose request is looked at: the key is noted, and is in use.
LEMMA NotedKept ==
    ASSUME HearInv, NEW e \in Hosts, retired' = retired, chased' = Noted(e, KeyInUse(PeerOf(e)))
    PROVE  /\ chased' \in [Hosts -> SUBSET Nat]
           /\ \A f \in Hosts : f # e => chased'[f] = chased[f]
           /\ \A f \in Hosts : \A k \in chased'[f] : k <= KeyInUse(PeerOf(f))
           /\ Verdict(e, KeyInUse(PeerOf(e))) \in {"pinned", "refused", "unknown"}
           /\ KeyInUse(PeerOf(e)) \in chased'[e] =>
                 \/ KeyInUse(PeerOf(e)) \in chased[e]
                 \/ Verdict(e, KeyInUse(PeerOf(e))) = "unknown" \/ pin[e] = 0
<1>1. PICK n : n = KeyInUse(PeerOf(e))
  OBVIOUS
<1>2. n \in Nat
  BY <1>1, TwoHosts, KeysAreNumbered DEF HearInv, IInv
<1>3. chased \in [Hosts -> SUBSET Nat] /\ \A f \in Hosts : \A k \in chased[f] : k <= KeyInUse(PeerOf(f))
  BY DEF HearInv, KeysKnown
<1>4. chased' = chased \/ (pin[e] # n /\ n \notin promoted[e] /\ chased' = [chased EXCEPT ![e] = @ \cup {n}])
  BY <1>1 DEF Noted
<1>5. /\ chased' \in [Hosts -> SUBSET Nat]
      /\ \A f \in Hosts : f # e => chased'[f] = chased[f]
      /\ chased'[e] \subseteq chased[e] \cup {n}
  BY <1>2, <1>3, <1>4
<1>6. \A f \in Hosts : \A k \in chased'[f] : k <= KeyInUse(PeerOf(f))
  BY <1>1, <1>2, <1>3, <1>5
<1>7. n \in chased'[e] => n \in chased[e] \/ Verdict(e, n) = "unknown" \/ pin[e] = 0
  BY <1>3, <1>4 DEF Verdict, Chased
<1>8. Verdict(e, n) \in {"pinned", "refused", "unknown"}
  BY DEF Verdict
<1>9. QED
  BY <1>1, <1>5, <1>6, <1>7, <1>8

LEMMA FetchHears == ASSUME HearInv, IInv', NEW a \in Attendants, NEW b \in Attendants, Fetch(a, b) PROVE HearInv'
<1>1. PICK h : h = At(a)
  OBVIOUS
<1>2. PICK p : p = PeerOf(h)
  OBVIOUS
<1>3. PICK n : n = KeyInUse(h)
  OBVIOUS
<1>4. /\ Attends(a, "walking") /\ Attends(b, "vacant") /\ a # b /\ chased' = Noted(p, n)
      /\ attendant' = IF Verdict(p, n) = "unknown"
                      THEN [attendant EXCEPT ![a].step = "waiting", ![b] = Attending(p, n, a)]
                      ELSE [attendant EXCEPT ![a].step = IF Verdict(p, n) = "pinned" THEN "reading" ELSE "refused"]
      /\ UNCHANGED <<retired, pin, promoted, announced, approved, behind>>
  BY <1>1, <1>2, <1>3 DEF Fetch
<1>5. ~Attends(a, "vacant") /\ ~Attends(a, "verifying")
  BY <1>4 DEF Attends
<1>6. attendant[a] \in AttendantType /\ attendant = [c \in Attendants |-> attendant[c]] /\ h \in Hosts
  BY <1>1, <1>5, BusyShape DEF HearInv
<1>7. p \in Hosts /\ PeerOf(p) = h /\ p # h
  BY <1>2, <1>6, TwoHosts
<1>8. /\ chased' \in [Hosts -> SUBSET Nat]
      /\ \A f \in Hosts : f # p => chased'[f] = chased[f]
      /\ \A f \in Hosts : \A k \in chased'[f] : k <= KeyInUse(PeerOf(f))
      /\ n \in chased'[p] => n \in chased[p] \/ Verdict(p, n) = "unknown" \/ pin[p] = 0
  BY <1>3, <1>4, <1>7, NotedKept
<1>9. /\ attendant'[a].host = attendant[a].host /\ attendant'[a].key = attendant[a].key
      /\ attendant'[a].caller = attendant[a].caller /\ attendant'[a].step \in {"waiting", "reading", "refused"}
  <2>1. PICK step \in {"waiting", "reading", "refused"} : attendant'[a] = [attendant[a] EXCEPT !.step = step]
    BY <1>4, <1>6
  <2>2. QED
    BY <1>6, <2>1 DEF AttendantType
<1>10. GoesOn(a)
  BY <1>5, <1>9 DEF GoesOn, Proceeds, Attends
<1>11. \A c \in Attendants : c # a /\ c # b => attendant'[c] = attendant[c]
  BY <1>4, <1>6
<1>12. CASE Verdict(p, n) = "unknown"
  <2>1. attendant'[b] = Attending(p, n, a) /\ pin[p] # 0 /\ pin[p] # n
    BY <1>4, <1>6, <1>12 DEF Verdict
  <2>2. /\ attendant'[b].step = "walking" /\ attendant'[b].host = p /\ attendant'[b].key = n
        /\ attendant'[b].caller = a
    BY <2>1 DEF Attending
  <2>3. a # "notice"
    BY ServerKeysAssumption
  <2>4. WalksForKey(p, b)' /\ \A e : ~NoticeAt(e, b)' /\ (BusyFor(e, b)' => e = p)
    BY <1>3, <1>4, <1>7, <2>2, <2>3 DEF WalksForKey, BusyFor, NoticeAt, Attends, At, KeyInUse, PeerOf
  <2>5. \A e : ~BusyFor(e, b)
    BY <1>4 DEF BusyFor
  <2>6. KeysKnown'
    BY <1>4, <1>8, KeysKnownStays DEF HearInv, KeysKnown
  <2>7. \A c \in Attendants : ForKey(c)'
    <3>1. ForKey(b)'
      <4>1. KeyInUse(PeerOf(p))' = n /\ n \in Nat
        BY <1>3, <1>4, <1>6, <1>7, KeysAreNumbered DEF KeyInUse, PeerOf, HearInv, IInv
      <4>2. At(b)' = p
        BY <2>2 DEF At
      <4>3. QED
        BY <2>2, <4>1, <4>2 DEF ForKey, Attends
    <3>2. ForKey(a)'
      BY <1>4, <1>5, <1>9, ForKeyStays DEF HearInv
    <3>3. \A c \in Attendants : c # a /\ c # b => ForKey(c)'
      BY <1>4, <1>11, ForKeyStays DEF HearInv
    <3>4. QED
      BY <3>1, <3>2, <3>3
  <2>8. \A c \in Attendants : c # b => GoesOn(c)
    BY <1>10, <1>11 DEF GoesOn
  <2>9. OneNotice'
    <3>1. \A e \in Hosts, c \in Attendants : NoticeAt(e, c)' => NoticeAt(e, c)
      BY <1>4, <2>4, <2>8, GoesOnAlike
    <3>2. QED
      BY <1>4, <3>1, NoticesStay DEF HearInv, KeysKnown
  <2>10. Reached(p)'
    BY <2>4 DEF Reached
  <2>11. ASSUME NEW e \in Hosts \ behind' PROVE Hears(e)'
    <3>1. Hears(e)
      BY <1>4, <2>11 DEF HearInv
    <3>2. \A c \in Attendants : GoesOn(c) \/ (~BusyFor(e, c) /\ (BusyFor(e, c)' => WalksForKey(e, c)' /\ ~NoticeAt(e, c)'))
      BY <2>4, <2>5, <2>8
    <3>3. KeyInUse(PeerOf(e)) \in chased'[e] => KeyInUse(PeerOf(e)) \in chased[e] \/ Reached(e)'
      <4>1. CASE e = p
        BY <2>10, <4>1
      <4>2. CASE e # p
        BY <1>8, <4>2
      <4>3. QED
        BY <4>1, <4>2
    <3>4. QED
      BY <1>4, <3>1, <3>2, <3>3, HearsStill
  <2>12. QED
    BY <2>6, <2>7, <2>9, <2>11 DEF HearInv
<1>13. CASE Verdict(p, n) # "unknown"
  <2>1. \A c \in Attendants : c # a => attendant'[c] = attendant[c]
    BY <1>4, <1>6, <1>13
  <2>2. \A c \in Attendants : GoesOn(c)
    BY <1>10, <2>1 DEF GoesOn
  <2>3. KeysKnown'
    BY <1>4, <1>8, KeysKnownStays DEF HearInv, KeysKnown
  <2>4. \A c \in Attendants : ForKey(c)'
    <3>1. ForKey(a)'
      BY <1>4, <1>5, <1>9, ForKeyStays DEF HearInv
    <3>2. QED
      BY <1>4, <2>1, <3>1, ForKeyStays DEF HearInv
  <2>5. OneNotice'
    <3>1. \A e \in Hosts, c \in Attendants : NoticeAt(e, c)' => NoticeAt(e, c)
      BY <1>4, <2>2, GoesOnAlike
    <3>2. QED
      BY <1>4, <3>1, NoticesStay DEF HearInv, KeysKnown
  <2>6. ASSUME NEW e \in Hosts \ behind' PROVE Hears(e)'
    <3>1. Hears(e)
      BY <1>4, <2>6 DEF HearInv
    <3>2. CASE pin[e] = 0
      <4>1. Follows(e)
        BY <3>1, <3>2 DEF Hears
      <4>2. Follows(e)'
        BY <1>4, <4>1 DEF Follows, KeyInUse, PeerOf
      <4>3. QED
        BY <4>2, FollowsHears
    <3>3. CASE pin[e] # 0
      <4>1. KeyInUse(PeerOf(e)) \in chased'[e] => KeyInUse(PeerOf(e)) \in chased[e]
        <5>1. CASE e = p
          BY <1>3, <1>7, <1>8, <1>13, <3>3, <5>1
        <5>2. CASE e # p
          BY <1>8, <5>2
        <5>3. QED
          BY <5>1, <5>2
      <4>2. QED
        BY <1>4, <2>2, <3>1, <4>1, HearsStill
    <3>4. QED
      BY <3>2, <3>3
  <2>7. QED
    BY <2>3, <2>4, <2>5, <2>6 DEF HearInv
<1>14. QED
  BY <1>12, <1>13

LEMMA ApproachHears ==
    ASSUME HearInv, IInv', NEW e \in Hosts, NEW caller \in {"notice", "nobody"}, NEW a \in Attendants,
           Approach(e, caller, a)
    PROVE  HearInv'
<1>1. PICK p : p = PeerOf(e)
  OBVIOUS
<1>2. PICK n : n = KeyInUse(e)
  OBVIOUS
<1>3. PICK verdict : verdict = Verdict(p, n)
  OBVIOUS
<1>4. /\ Attends(a, "vacant") /\ chased' = Noted(p, n)
      /\ caller = "notice" => announced[e] > 0 /\ \A b \in BusyAt(p) : attendant[b].caller # "notice"
      /\ attendant' = IF verdict = "unknown" THEN [attendant EXCEPT ![a] = Attending(p, n, caller)] ELSE attendant
      /\ announced' = IF verdict # "unknown" /\ caller = "notice"
                      THEN [announced EXCEPT ![e] = @ - 1] ELSE announced
      /\ UNCHANGED <<retired, pin, promoted, approved, behind>>
  BY <1>1, <1>2, <1>3 DEF Approach
<1>5. p \in Hosts /\ PeerOf(p) = e /\ p # e /\ \A f \in Hosts : f = e \/ f = p
  BY <1>1, TwoHosts
<1>6. /\ chased' \in [Hosts -> SUBSET Nat]
      /\ \A f \in Hosts : f # p => chased'[f] = chased[f]
      /\ \A f \in Hosts : \A k \in chased'[f] : k <= KeyInUse(PeerOf(f))
      /\ verdict \in {"pinned", "refused", "unknown"}
      /\ n \in chased'[p] => n \in chased[p] \/ verdict = "unknown" \/ pin[p] = 0
  BY <1>2, <1>3, <1>4, <1>5, NotedKept
<1>7. announced \in [Hosts -> Nat] /\ attendant = [c \in Attendants |-> attendant[c]]
  BY DEF HearInv, KeysKnown, IInv, Shapes
<1>8. caller = "notice" => announced[e] > 0 /\ \A b \in Attendants : ~NoticeAt(p, b)
  BY <1>4 DEF BusyAt, NoticeAt, BusyFor
<1>9. CASE verdict = "unknown"
  <2>1. attendant'[a] = Attending(p, n, caller) /\ \A c \in Attendants : c # a => attendant'[c] = attendant[c]
    BY <1>4, <1>7, <1>9
  <2>2. /\ attendant'[a].step = "walking" /\ attendant'[a].host = p /\ attendant'[a].key = n
        /\ attendant'[a].caller = caller
    BY <2>1 DEF Attending
  <2>3. announced' = announced
    BY <1>4, <1>9
  <2>4. /\ WalksForKey(p, a)' /\ (\A f : BusyFor(f, a)' => f = p) /\ ~Attends(a, "verifying")'
        /\ NoticeAt(p, a)' => caller = "notice"
    BY <1>2, <1>4, <1>5, <2>2 DEF WalksForKey, BusyFor, NoticeAt, Attends, At, KeyInUse, PeerOf
  <2>5. \A c \in Attendants : c # a => GoesOn(c)
    BY <2>1 DEF GoesOn
  <2>6. \A f : ~BusyFor(f, a)
    BY <1>4 DEF BusyFor
  <2>7. KeysKnown'
    BY <1>4, <1>6, <1>7, <2>3, KeysKnownStays
  <2>8. \A c \in Attendants : ForKey(c)'
    <3>1. ForKey(a)'
      <4>1. KeyInUse(PeerOf(p))' = n /\ n \in Nat
        BY <1>2, <1>4, <1>5, KeysAreNumbered DEF KeyInUse, PeerOf, HearInv, IInv
      <4>2. At(a)' = p
        BY <2>2 DEF At
      <4>3. QED
        BY <2>2, <4>1, <4>2 DEF ForKey, Attends
    <3>2. QED
      BY <1>4, <2>1, <3>1, ForKeyStays DEF HearInv
  <2>9. OneNotice'
    <3>1. SUFFICES ASSUME NEW f \in Hosts, NEW c \in Attendants, NoticeAt(f, c)'
                   PROVE  announced[PeerOf(f)] >= 1 /\ \A b \in Attendants : NoticeAt(f, b)' => b = c
      BY <2>3 DEF OneNotice, PeerOf
    <3>2. \A b \in Attendants : b # a => (NoticeAt(f, b)' => NoticeAt(f, b))
      BY <1>4, <2>5, GoesOnAlike
    <3>3. CASE NoticeAt(f, a)'
      <4>1. f = p /\ caller = "notice"
        BY <2>4, <3>3 DEF NoticeAt
      <4>2. announced[PeerOf(f)] >= 1 /\ \A b \in Attendants : ~NoticeAt(f, b)
        BY <1>5, <1>7, <1>8, <4>1
      <4>3. QED
        BY <3>1, <3>2, <4>2
    <3>4. CASE ~NoticeAt(f, a)'
      <4>1. c # a /\ NoticeAt(f, c)
        BY <3>1, <3>2, <3>4
      <4>2. announced[PeerOf(f)] >= 1 /\ \A b \in Attendants : NoticeAt(f, b) => b = c
        BY <4>1 DEF HearInv, OneNotice
      <4>3. QED
        BY <3>2, <3>4, <4>2
    <3>5. QED
      BY <3>3, <3>4
  <2>10. ASSUME NEW f \in Hosts \ behind' PROVE Hears(f)'
    <3>1. Hears(f)
      BY <1>4, <2>10 DEF HearInv
    <3>2. CASE f = p
      <4>1. Reached(f)'
        BY <2>4, <3>2 DEF Reached
      <4>2. \A b \in Attendants : GoesOn(b) \/ (BusyFor(f, b)' => ~Attends(b, "verifying")')
        BY <2>4, <2>5
      <4>3. QED
        BY <1>4, <3>1, <4>1, <4>2, HearsReached
    <3>3. CASE f # p
      <4>1. \A b \in Attendants : GoesOn(b) \/ (~BusyFor(f, b) /\ (BusyFor(f, b)' => WalksForKey(f, b)' /\ ~NoticeAt(f, b)'))
        BY <2>4, <2>5, <2>6, <3>3
      <4>2. QED
        BY <1>4, <1>6, <2>3, <3>1, <3>3, <4>1, HearsStill
    <3>4. QED
      BY <3>2, <3>3
  <2>11. QED
    BY <2>7, <2>8, <2>9, <2>10 DEF HearInv
<1>10. CASE verdict # "unknown"
  <2>1. attendant' = attendant
    BY <1>4, <1>10
  <2>2. \A c \in Attendants : GoesOn(c)
    BY <2>1 DEF GoesOn
  <2>3. \A f \in Hosts, c \in Attendants : NoticeAt(f, c)' <=> NoticeAt(f, c)
    BY <1>4, <2>2, GoesOnAlike
  <2>4. announced' \in [Hosts -> Nat] /\ \A f \in Hosts : f # e => announced'[f] = announced[f]
    BY <1>4, <1>7, <1>8
  <2>5. KeysKnown'
    BY <1>4, <1>6, <2>4, KeysKnownStays
  <2>6. \A c \in Attendants : ForKey(c)'
    BY <1>4, <2>1, ForKeyStays DEF HearInv
  <2>7. OneNotice'
    <3>1. SUFFICES ASSUME NEW f \in Hosts, NEW c \in Attendants, NoticeAt(f, c)
                   PROVE  announced'[PeerOf(f)] >= 1 /\ \A b \in Attendants : NoticeAt(f, b) => b = c
      BY <2>3 DEF OneNotice, PeerOf
    <3>2. announced[PeerOf(f)] >= 1 /\ \A b \in Attendants : NoticeAt(f, b) => b = c
      BY <3>1 DEF HearInv, OneNotice
    <3>3. announced'[PeerOf(f)] = announced[PeerOf(f)]
      <4>1. CASE f = p
        BY <1>4, <1>8, <3>1, <4>1
      <4>2. CASE f # p
        BY <1>5, <2>4, <4>2, TwoHosts
      <4>3. QED
        BY <4>1, <4>2
    <3>4. QED
      BY <3>2, <3>3
  <2>8. ASSUME NEW f \in Hosts \ behind' PROVE Hears(f)'
    <3>1. Hears(f)
      BY <1>4, <2>8 DEF HearInv
    <3>2. ASSUME Reached(f) PROVE Hears(f)'
      <4>1. Follows(f) => Follows(f)'
        BY <1>4 DEF Follows, KeyInUse, PeerOf
      <4>2. \A b \in Attendants : WalksForKey(f, b) => WalksForKey(f, b)'
        BY <1>4, <2>2, GoesOnAlike
      <4>3. Reached(f)'
        BY <3>2, <4>1, <4>2 DEF Reached
      <4>4. QED
        BY <1>4, <2>2, <3>1, <4>3, HearsReached
    <3>3. CASE f = p /\ (caller = "notice" \/ pin[p] = 0)
      <4>1. Reached(p)
        <5>1. PeerOf(p) = e /\ n = KeyInUse(PeerOf(p))
          BY <1>2, <1>5
        <5>2. CASE pin[p] = n
          BY <5>1, <5>2 DEF Reached, Follows
        <5>3. CASE pin[p] = 0
          BY <3>1, <3>3, <5>3 DEF Hears, Reached
        <5>4. CASE n \in promoted[p] \cup chased[p]
          BY <3>1, <3>3, <5>1, <5>4 DEF Hears
        <5>5. QED
          BY <1>3, <1>10, <5>2, <5>3, <5>4 DEF Verdict, Chased
      <4>2. QED
        BY <3>2, <3>3, <4>1
    <3>4. CASE f = p /\ caller # "notice" /\ pin[p] # 0
      <4>1. announced' = announced /\ (n \in chased'[p] => n \in chased[p])
        BY <1>4, <1>6, <1>10, <3>4
      <4>2. KeyInUse(PeerOf(f)) = n
        BY <1>2, <1>5, <3>4
      <4>3. QED
        BY <1>4, <2>2, <3>1, <3>4, <4>1, <4>2, HearsStill
    <3>5. CASE f # p
      <4>1. announced'[PeerOf(f)] = announced[PeerOf(f)]
        BY <1>5, <2>4, <3>5, TwoHosts
      <4>2. QED
        BY <1>4, <1>6, <2>2, <3>1, <3>5, <4>1, HearsStill
    <3>6. QED
      BY <3>3, <3>4, <3>5
  <2>9. QED
    BY <2>5, <2>6, <2>7, <2>8 DEF HearInv
<1>11. QED
  BY <1>9, <1>10

\* An answer frees its attendant, and one notice less is owed if it was one.
LEMMA AnsweredHears ==
    ASSUME HearInv, NEW a \in Attendants, NEW h, h = At(a), NEW ok \in BOOLEAN, Answered(a, ok), UNCHANGED retired,
           ~Attends(a, "vacant"), ~Attends(a, "waiting")
    PROVE  /\ announced' \in [Hosts -> Nat]
           /\ \A f \in Hosts : f # PeerOf(h) => announced'[f] = announced[f]
           /\ ~NoticeAt(h, a) => announced' = announced
           /\ NoticeAt(h, a) => /\ announced'[PeerOf(h)] = announced[PeerOf(h)] - 1
                                    /\ \A b \in Attendants : ~NoticeAt(h, b)'
           /\ Attends(a, "vacant")'
           /\ \A b \in Attendants : b # a => GoesOn(b)
           /\ (\A b \in Attendants : ForKey(b)') /\ OneNotice'
<1>1. PICK caller : caller = attendant[a].caller
  OBVIOUS
<1>2. PICK p : p = PeerOf(At(a))
  OBVIOUS
<1>4. PICK step \in {"reading", "refused"} : step = IF ok THEN "reading" ELSE "refused"
  OBVIOUS
<1>5. /\ attendant' = [b \in Attendants |-> IF b = a THEN Vacant
                                            ELSE IF b = caller THEN [attendant[b] EXCEPT !.step = step]
                                            ELSE attendant[b]]
      /\ announced' = [announced EXCEPT ![p] = @ - (IF caller = "notice" THEN 1 ELSE 0)]
  BY <1>1, <1>2, <1>4 DEF Answered
<1>6. h \in Hosts /\ p \in Hosts /\ PeerOf(p) = h /\ p # h /\ \A f \in Hosts : f = h \/ f = p
  BY <1>2, BusyShape, TwoHosts DEF HearInv
<1>7. announced \in [Hosts -> Nat]
  BY DEF HearInv, KeysKnown
<1>8. NoticeAt(h, a) <=> caller = "notice"
  BY <1>1 DEF NoticeAt, BusyFor
<1>9. NoticeAt(h, a) => announced[p] >= 1 /\ \A b \in Attendants : NoticeAt(h, b) => b = a
  BY <1>2, <1>6 DEF HearInv, OneNotice
<1>10. /\ announced' \in [Hosts -> Nat] /\ \A f \in Hosts : f # p => announced'[f] = announced[f]
       /\ ~NoticeAt(h, a) => announced' = announced
       /\ NoticeAt(h, a) => announced'[p] = announced[p] - 1
  <2>1. CASE caller = "notice"
    <3>1. announced' = [announced EXCEPT ![p] = @ - 1] /\ announced[p] - 1 \in Nat
      BY <1>5, <1>6, <1>7, <1>8, <1>9, <2>1
    <3>2. QED
      BY <1>6, <1>7, <1>8, <2>1, <3>1
  <2>2. CASE caller # "notice"
    <3>1. announced' = announced
      BY <1>5, <1>6, <1>7, <2>2
    <3>2. QED
      BY <1>7, <1>8, <2>2, <3>1
  <2>3. QED
    BY <2>1, <2>2
<1>11. Attends(a, "vacant")'
  BY <1>5 DEF Attends, Vacant
<1>12. ASSUME NEW b \in Attendants, b # a PROVE GoesOn(b) /\ ForKey(b)'
  <2>1. CASE b = caller
    <3>1. Attends(b, "waiting")
      BY <1>1, <2>1 DEF HearInv, IInv, Waits, AsksFor
    <3>2. ~Attends(b, "vacant") /\ ~Attends(b, "verifying")
      BY <3>1 DEF Attends
    <3>3. attendant[b] \in AttendantType /\ attendant'[b] = [attendant[b] EXCEPT !.step = step]
      BY <1>5, <1>12, <2>1, <3>2, BusyShape DEF HearInv
    <3>4. /\ attendant'[b].host = attendant[b].host /\ attendant'[b].key = attendant[b].key
          /\ attendant'[b].caller = attendant[b].caller /\ attendant'[b].step \in {"reading", "refused"}
      BY <3>3 DEF AttendantType
    <3>5. GoesOn(b)
      BY <3>2, <3>4 DEF GoesOn, Proceeds, Attends
    <3>6. ForKey(b)'
      BY <3>2, <3>4, ForKeyStays DEF HearInv
    <3>7. QED
      BY <3>5, <3>6
  <2>2. CASE b # caller
    <3>1. attendant'[b] = attendant[b]
      BY <1>5, <1>12, <2>2
    <3>2. QED
      BY <3>1, ForKeyStays DEF HearInv, GoesOn
  <2>3. QED
    BY <2>1, <2>2
<1>13. ForKey(a)'
  BY <1>11 DEF ForKey
<1>14. \A f \in Hosts, b \in Attendants : NoticeAt(f, b)' => b # a /\ NoticeAt(f, b)
  <2>1. \A f : ~NoticeAt(f, a)'
    BY <1>11 DEF NoticeAt, BusyFor
  <2>2. QED
    BY <1>12, <2>1, GoesOnAlike
<1>15. NoticeAt(h, a) => \A b \in Attendants : ~NoticeAt(h, b)'
  BY <1>6, <1>9, <1>14
<1>16. OneNotice'
  <2>1. SUFFICES ASSUME NEW f \in Hosts, NEW b \in Attendants, NoticeAt(f, b)'
                 PROVE  announced'[PeerOf(f)] >= 1 /\ \A c \in Attendants : NoticeAt(f, c)' => c = b
    BY DEF OneNotice, PeerOf
  <2>2. announced[PeerOf(f)] >= 1 /\ \A c \in Attendants : NoticeAt(f, c) => c = b
    BY <1>14, <2>1 DEF HearInv, OneNotice
  <2>3. announced'[PeerOf(f)] = announced[PeerOf(f)]
    <3>1. CASE f = h
      BY <1>10, <1>15, <2>1, <3>1
    <3>2. CASE f # h
      BY <1>6, <1>10, <3>2
    <3>3. QED
      BY <3>1, <3>2
  <2>4. QED
    BY <1>14, <2>2, <2>3
<1>17. QED
  BY <1>2, <1>10, <1>11, <1>12, <1>13, <1>15, <1>16

\* The peer of a server that answers hears as before.
LEMMA OtherHears ==
    ASSUME HearInv, NEW a \in Attendants, NEW e \in Hosts, e \notin behind, e # At(a), At(a) \in Hosts,
           Attends(a, "vacant")', \A b \in Attendants : b # a => GoesOn(b),
           UNCHANGED <<retired, approved>>, pin'[e] = pin[e], promoted'[e] = promoted[e],
           chased'[e] = chased[e], \A f \in Hosts : f # PeerOf(At(a)) => announced'[f] = announced[f]
    PROVE  Hears(e)'
<1>1. announced'[PeerOf(e)] = announced[PeerOf(e)]
  BY TwoHosts
<1>2. ~BusyFor(e, a) /\ ~BusyFor(e, a)'
  BY DEF BusyFor
<1>3. QED
  BY <1>1, <1>2, HearsStill DEF HearInv

LEMMA VerifyHears == ASSUME HearInv, IInv', NEW a \in Attendants, Verify(a) PROVE HearInv'
<1>1. PICK e : e = At(a)
  OBVIOUS
<1>2. PICK ok \in BOOLEAN : ok <=> pin[e] = attendant[a].key
  OBVIOUS
<1>3. /\ Attends(a, "verifying") /\ Answered(a, ok)
      /\ UNCHANGED <<retired, pin, promoted, chased, approved, behind>>
  BY <1>1, <1>2 DEF Verify, Answered
<1>4. ~Attends(a, "vacant") /\ ~Attends(a, "waiting") /\ e \in Hosts
  BY <1>1, <1>3, BusyShape DEF HearInv, Attends
<1>5. /\ announced' \in [Hosts -> Nat]
      /\ \A f \in Hosts : f # PeerOf(At(a)) => announced'[f] = announced[f]
      /\ ~NoticeAt(e, a) => announced' = announced
      /\ NoticeAt(e, a) => /\ announced'[PeerOf(e)] = announced[PeerOf(e)] - 1
                           /\ \A b \in Attendants : ~NoticeAt(e, b)'
      /\ Attends(a, "vacant")' /\ (\A b \in Attendants : b # a => GoesOn(b))
      /\ (\A b \in Attendants : ForKey(b)') /\ OneNotice'
  BY <1>1, <1>3, <1>4, AnsweredHears
<1>6. KeysKnown'
  BY <1>3, <1>5, KeysKnownStays DEF HearInv, KeysKnown
<1>7. ASSUME NEW f \in Hosts \ behind', f # e PROVE Hears(f)'
  BY <1>1, <1>3, <1>4, <1>5, <1>7, OtherHears
<1>8. ASSUME e \notin behind' PROVE Hears(e)'
  <2>1. Hears(e)
    BY <1>3, <1>4, <1>8 DEF HearInv
  <2>2. KeyInUse(PeerOf(e))' = KeyInUse(PeerOf(e)) /\ PeerOf(e)' = PeerOf(e)
    BY <1>3 DEF KeyInUse, PeerOf
  <2>3. \A b : ~Attends(a, "vacant")' \/ ~BusyFor(b, a)'
    BY DEF BusyFor
  <2>4. CASE Follows(e)
    BY <1>3, <2>2, <2>4, FollowsHears DEF Follows
  <2>5. CASE ~Follows(e) /\ Reached(e)
    <3>1. PICK b \in Attendants : WalksForKey(e, b)
      BY <2>5 DEF Reached
    <3>2. b # a
      BY <1>3, <3>1 DEF WalksForKey
    <3>3. Reached(e)'
      BY <1>3, <1>5, <3>1, <3>2, GoesOnAlike DEF Reached
    <3>4. \A c \in Attendants : GoesOn(c) \/ (BusyFor(e, c)' => ~Attends(c, "verifying")')
      BY <1>5, <2>3
    <3>5. QED
      BY <1>3, <1>4, <2>1, <3>3, <3>4, HearsReached
  <2>6. CASE ~Reached(e)
    <3>1. /\ OwesNotice(e) /\ KeyInUse(PeerOf(e)) \notin promoted[e] \cup chased[e] /\ pin[e] # 0
          /\ \A b \in Attendants : ~(BusyFor(e, b) /\ Attends(b, "verifying") /\ attendant[b].key = KeyInUse(PeerOf(e)))
      BY <2>1, <2>6 DEF Hears, Reached
    <3>2. \A b \in Attendants : NoticeAt(e, b)' => b # a /\ NoticeAt(e, b)
      BY <1>3, <1>5, <2>3, GoesOnAlike DEF NoticeAt
    <3>3. PeerOf(e) \in Hosts /\ announced[PeerOf(e)] \in Nat
      BY <1>4, TwoHosts DEF HearInv, KeysKnown
    <3>4. OwesNotice(e)'
      <4>1. CASE NoticeAt(e, a)
        BY <1>5, <2>2, <3>1, <3>3, <4>1 DEF OwesNotice
      <4>2. CASE ~NoticeAt(e, a)
        BY <1>5, <2>2, <3>1, <3>2, <4>2 DEF OwesNotice
      <4>3. QED
        BY <4>1, <4>2
    <3>5. \A b \in Attendants : ~(BusyFor(e, b) /\ Attends(b, "verifying") /\ attendant[b].key = KeyInUse(PeerOf(e)))'
      BY <1>3, <1>5, <2>3, <3>1, GoesOnAlike
    <3>6. QED
      BY <1>3, <2>2, <3>1, <3>4, <3>5 DEF Hears
  <2>7. QED
    BY <2>4, <2>5, <2>6
<1>9. QED
  BY <1>5, <1>6, <1>7, <1>8 DEF HearInv

LEMMA GiveUpHears == ASSUME HearInv, IInv', NEW a \in Attendants, GiveUpWalk(a) PROVE HearInv'
<1>1. /\ Attends(a, "refused") /\ Answered(a, FALSE) /\ behind' = behind \cup {At(a)}
      /\ UNCHANGED <<retired, pin, promoted, chased, approved>>
  BY DEF GiveUpWalk
<1>7. PICK e : e = At(a)
  OBVIOUS
<1>2. ~Attends(a, "vacant") /\ ~Attends(a, "waiting") /\ At(a) \in Hosts
  BY <1>1, BusyShape DEF HearInv, Attends
<1>3. /\ announced' \in [Hosts -> Nat]
      /\ \A f \in Hosts : f # PeerOf(e) => announced'[f] = announced[f]
      /\ Attends(a, "vacant")' /\ (\A b \in Attendants : b # a => GoesOn(b))
      /\ (\A b \in Attendants : ForKey(b)') /\ OneNotice'
  BY <1>1, <1>2, <1>7, AnsweredHears
<1>4. KeysKnown'
  BY <1>1, <1>3, KeysKnownStays DEF HearInv, KeysKnown
<1>5. \A f \in Hosts \ behind' : Hears(f)'
  BY <1>1, <1>2, <1>3, <1>7, OtherHears
<1>6. QED
  BY <1>3, <1>4, <1>5 DEF HearInv

LEMMA RepinHears == ASSUME HearInv, IInv', NEW a \in Attendants, Repin(a) PROVE HearInv'
<1>1. PICK e : e = At(a)
  OBVIOUS
<1>2. PICK at, from : at = attendant[a].at /\ from = attendant[a].from
  OBVIOUS
<1>3. PICK n : n = KeyInUse(PeerOf(e))
  OBVIOUS
<1>4. /\ Attends(a, "pinning") /\ pin' = [pin EXCEPT ![e] = at]
      /\ promoted' = [promoted EXCEPT ![e] = @ \cup (from + 1) .. at]
      /\ behind' = IF at = n THEN behind \ {e} ELSE IF pin[e] # from THEN behind \cup {e} ELSE behind
      /\ attendant' = [attendant EXCEPT ![a].step = "verifying"]
      /\ UNCHANGED <<retired, chased, announced, approved>>
  BY <1>1, <1>2, <1>3 DEF Repin, StepsTo
<1>5. ~Attends(a, "vacant") /\ ~Attends(a, "clearing")
  BY <1>4 DEF Attends
<1>6. /\ attendant[a] \in AttendantType /\ attendant = [b \in Attendants |-> attendant[b]]
      /\ e \in Hosts /\ at \in Nat /\ from \in Nat /\ attendant[a].key \in Nat
  BY <1>1, <1>2, <1>5, BusyShape DEF HearInv
<1>7. 1 <= from /\ from < at /\ at <= n /\ attendant[a].key <= at
  BY <1>1, <1>2, <1>3, <1>4, <1>5 DEF HearInv, IInv, Walked, Sound, Handed, ForKey
<1>8. n \in Nat /\ n >= 1 /\ pin \in [Hosts -> Nat] /\ approved \in [Hosts -> Nat]
  BY <1>3, <1>6, TwoHosts, KeysAreNumbered DEF HearInv, IInv, Shapes
<1>9. /\ pin'[e] = at /\ promoted'[e] = promoted[e] \cup (from + 1) .. at
      /\ \A f \in Hosts : f # e => pin'[f] = pin[f] /\ promoted'[f] = promoted[f]
  BY <1>4, <1>6, <1>8 DEF HearInv, KeysKnown
<1>10. /\ attendant'[a] = [attendant[a] EXCEPT !.step = "verifying"]
       /\ \A b \in Attendants : b # a => attendant'[b] = attendant[b]
  BY <1>4, <1>6
<1>11. /\ attendant'[a].host = attendant[a].host /\ attendant'[a].key = attendant[a].key
       /\ attendant'[a].caller = attendant[a].caller /\ attendant'[a].step = "verifying"
  BY <1>6, <1>10 DEF AttendantType
<1>12. \A b \in Attendants : b # a => GoesOn(b)
  BY <1>10 DEF GoesOn
<1>13. \A f \in Hosts : KeyInUse(PeerOf(f))' = KeyInUse(PeerOf(f)) /\ PeerOf(f)' = PeerOf(f)
  BY <1>4 DEF KeyInUse, PeerOf
<1>14. \A f : (BusyFor(f, a) <=> f = e) /\ (BusyFor(f, a)' <=> f = e) /\ (NoticeAt(f, a)' <=> NoticeAt(f, a))
  BY <1>1, <1>5, <1>11 DEF BusyFor, NoticeAt, Attends, At
<1>15. \A f \in Hosts \ {e} : f \in behind' <=> f \in behind
  BY <1>4
<1>16. e \notin behind' => at = n \/ (at < n /\ pin[e] = from /\ e \notin behind)
  BY <1>4, <1>6, <1>7, <1>8
<1>17. KeysKnown'
  <2>1. promoted' \in [Hosts -> SUBSET Nat] /\ chased' \in [Hosts -> SUBSET Nat] /\ announced' \in [Hosts -> Nat]
    BY <1>4, <1>6 DEF HearInv, KeysKnown
  <2>2. ASSUME NEW f \in Hosts
        PROVE  /\ \A k \in promoted'[f] \cup chased'[f] : k <= KeyInUse(PeerOf(f))
               /\ approved'[f] <= KeyInUse(PeerOf(f))
               /\ f \notin behind' /\ pin'[f] # 0 => approved'[f] <= pin'[f]
    <3>1. /\ \A k \in promoted[f] \cup chased[f] : k <= KeyInUse(PeerOf(f))
          /\ approved[f] <= KeyInUse(PeerOf(f)) /\ approved[f] \in Nat
          /\ f \notin behind /\ pin[f] # 0 => approved[f] <= pin[f]
      BY <1>8 DEF HearInv, KeysKnown
    <3>2. CASE f = e
      <4>1. \A k \in (from + 1) .. at : k <= n
        BY <1>6, <1>7, <1>8
      <4>2. e \notin behind' => approved[e] <= at
        BY <1>3, <1>6, <1>7, <1>8, <1>16, <3>1, <3>2
      <4>3. QED
        BY <1>3, <1>4, <1>9, <3>1, <3>2, <4>1, <4>2
    <3>3. CASE f # e
      BY <1>4, <1>9, <1>15, <3>1, <3>3
    <3>4. QED
      BY <3>2, <3>3
  <2>3. QED
    BY <1>13, <2>1, <2>2 DEF KeysKnown
<1>18. \A b \in Attendants : ForKey(b)'
  <2>1. ForKey(a)'
    BY <1>4, <1>5, <1>11, ForKeyStays DEF HearInv
  <2>2. QED
    BY <1>4, <1>10, <2>1, ForKeyStays DEF HearInv
<1>19. \A f \in Hosts, b \in Attendants : NoticeAt(f, b)' => NoticeAt(f, b)
  BY <1>4, <1>12, <1>14, GoesOnAlike
<1>20. OneNotice'
  BY <1>4, <1>19, NoticesStay DEF HearInv, KeysKnown
<1>21. ASSUME NEW f \in Hosts \ behind', f # e PROVE Hears(f)'
  <2>1. Hears(f) /\ ~BusyFor(f, a) /\ ~BusyFor(f, a)'
    BY <1>14, <1>15, <1>21 DEF HearInv
  <2>2. QED
    BY <1>4, <1>9, <1>12, <1>21, <2>1, HearsStill
<1>22. ASSUME e \notin behind' PROVE Hears(e)'
  <2>1. CASE at = n
    BY <1>3, <1>6, <1>9, <1>13, <2>1, FollowsHears DEF Follows
  <2>2. CASE at < n /\ pin[e] = from /\ e \notin behind
    <3>1. Hears(e)
      BY <1>6, <2>2 DEF HearInv
    <3>2. ~Follows(e) /\ attendant[a].key < n
      BY <1>3, <1>6, <1>7, <1>8, <2>2 DEF Follows
    <3>3. ~WalksForKey(e, a)
      BY <1>3, <1>6, <1>8, <3>2 DEF WalksForKey
    <3>4. Reached(e) => Reached(e)'
      <4>1. SUFFICES ASSUME Reached(e) PROVE Reached(e)'
        OBVIOUS
      <4>2. PICK b \in Attendants : WalksForKey(e, b)
        BY <3>2, <4>1 DEF Reached
      <4>3. WalksForKey(e, b)'
        BY <1>4, <1>12, <3>3, <4>2, GoesOnAlike
      <4>4. QED
        BY <4>3 DEF Reached
    <3>5. OwesNotice(e) => OwesNotice(e)'
      BY <1>4, <1>6, <1>13, <1>19 DEF OwesNotice
    <3>6. KeyInUse(PeerOf(e))' \in (promoted[e] \cup chased[e])' => KeyInUse(PeerOf(e)) \in promoted[e] \cup chased[e]
      <4>1. n \notin (from + 1) .. at
        BY <1>6, <1>8, <2>2
      <4>2. QED
        BY <1>3, <1>4, <1>6, <1>9, <1>13, <4>1
    <3>7. \A b \in Attendants : ~(BusyFor(e, b) /\ Attends(b, "verifying") /\ attendant[b].key = KeyInUse(PeerOf(e)))'
      <4>1. attendant'[a].key # KeyInUse(PeerOf(e))'
        BY <1>3, <1>6, <1>8, <1>11, <1>13, <3>2
      <4>2. \A b \in Attendants : ~(BusyFor(e, b) /\ Attends(b, "verifying") /\ attendant[b].key = KeyInUse(PeerOf(e)))
        BY <3>1, <3>2 DEF Hears
      <4>3. QED
        BY <1>4, <1>12, <4>1, <4>2, GoesOnAlike
    <3>8. pin'[e] # 0
      BY <1>6, <1>7, <1>9
    <3>9. QED
      BY <3>1, <3>4, <3>5, <3>6, <3>7, <3>8 DEF Hears
  <2>3. QED
    BY <1>16, <1>22, <2>1, <2>2
<1>23. QED
  BY <1>17, <1>18, <1>20, <1>21, <1>22 DEF HearInv

LEMMA ClearPinHears == ASSUME HearInv, IInv', NEW a \in Attendants, ClearPin(a) PROVE HearInv'
<1>1. PICK e : e = At(a)
  OBVIOUS
<1>2. PICK at, from : at = attendant[a].at /\ from = attendant[a].from
  OBVIOUS
<1>3. PICK p : p = PeerOf(e)
  OBVIOUS
<1>4. /\ Attends(a, "clearing") /\ pin' = [pin EXCEPT ![e] = 0] /\ Answered(a, FALSE)
      /\ behind' = IF pin[e] # from THEN behind \cup {e} ELSE behind
      /\ UNCHANGED <<retired, promoted, chased, approved>>
  BY <1>1, <1>2 DEF ClearPin, Cleared
<1>5. ~Attends(a, "vacant") /\ ~Attends(a, "waiting")
  BY <1>4 DEF Attends
<1>6. e \in Hosts /\ p \in Hosts /\ at \in Nat /\ from \in Nat
  BY <1>1, <1>2, <1>3, <1>5, BusyShape DEF HearInv
<1>7. 1 <= from /\ from <= at /\ at < KeyInUse(p) /\ retired[p][at]
  BY <1>1, <1>2, <1>3, <1>4, <1>5 DEF HearInv, IInv, Walked, Sound, ForKey
<1>8. KeyInUse(p) \in Nat /\ pin \in [Hosts -> Nat] /\ approved \in [Hosts -> Nat]
  BY <1>6, KeysAreNumbered DEF HearInv, IInv, Shapes
<1>9. pin'[e] = 0 /\ \A f \in Hosts : f # e => pin'[f] = pin[f]
  BY <1>4, <1>6, <1>8
<1>10. \A f \in Hosts : KeyInUse(PeerOf(f))' = KeyInUse(PeerOf(f)) /\ PeerOf(f)' = PeerOf(f)
  BY <1>4 DEF KeyInUse, PeerOf
<1>11. /\ announced' \in [Hosts -> Nat]
       /\ \A f \in Hosts : f # PeerOf(e) => announced'[f] = announced[f]
       /\ Attends(a, "vacant")' /\ (\A b \in Attendants : b # a => GoesOn(b))
       /\ (\A b \in Attendants : ForKey(b)') /\ OneNotice'
  BY <1>1, <1>4, <1>5, AnsweredHears
<1>12. KeysKnown'
  <2>1. ASSUME NEW f \in Hosts
        PROVE  /\ \A k \in promoted'[f] \cup chased'[f] : k <= KeyInUse(PeerOf(f))
               /\ approved'[f] <= KeyInUse(PeerOf(f))
               /\ f \notin behind' /\ pin'[f] # 0 => approved'[f] <= pin'[f]
    BY <1>4, <1>9 DEF HearInv, KeysKnown
  <2>2. QED
    BY <1>4, <1>10, <1>11, <2>1 DEF HearInv, KeysKnown
<1>13. ASSUME NEW f \in Hosts \ behind', f # e PROVE Hears(f)'
  BY <1>1, <1>4, <1>6, <1>9, <1>11, <1>13, OtherHears
<1>14. ASSUME e \notin behind' PROVE Hears(e)'
  <2>1. pin[e] = from /\ e \notin behind
    BY <1>4, <1>14
  <2>2. approved[e] <= from /\ approved[e] \in Nat
    BY <1>6, <1>7, <1>8, <2>1 DEF HearInv, KeysKnown
  <2>3. at \in approved[e] .. (KeyInUse(p) - 1)
    BY <1>6, <1>7, <1>8, <2>2
  <2>4. Follows(e)'
    BY <1>3, <1>4, <1>6, <1>7, <1>9, <1>10, <2>3 DEF Follows
  <2>5. QED
    BY <2>4, FollowsHears
<1>15. QED
  BY <1>11, <1>12, <1>13, <1>14 DEF HearInv

\* A revocation is never taken back or reordered.
LEMMA RevocationsKept ==
    ASSUME Shapes, KeysGrow, NEW f \in Hosts
    PROVE  /\ KeyInUse(f) <= KeyInUse(f)'
           /\ \A k \in 1 .. Len(retired[f]) : retired'[f][k] = retired[f][k]
<1>1. retired[f] \in Seq(BOOLEAN) /\ KeyInUse(f) <= KeyInUse(f)'
  BY RevocationsGrow DEF Shapes
<1>2. CASE retired' = retired
  BY <1>1, <1>2
<1>3. CASE \E h \in Hosts, c \in BOOLEAN : retired' = [retired EXCEPT ![h] = Append(@, c)]
  <2>1. PICK h \in Hosts, c \in BOOLEAN : retired' = [retired EXCEPT ![h] = Append(@, c)]
    BY <1>3
  <2>2. retired'[f] = retired[f] \/ retired'[f] = Append(retired[f], c)
    BY <2>1 DEF Shapes
  <2>3. QED
    BY <1>1, <2>2
<1>4. QED
  BY <1>2, <1>3 DEF KeysGrow

\* When a process ends, its requests are gone, and those of its peer go on
\* for nobody.
LEMMA ProcessEndsHears ==
    ASSUME HearInv, KeysGrow, NEW h \in Hosts, ProcessEnds(h), UNCHANGED <<pin, promoted, approved>>,
           announced' \in [Hosts -> Nat]
    PROVE  /\ chased'[h] = {} /\ (\A f \in Hosts : f # h => chased'[f] = chased[f])
           /\ \A f \in Hosts, b \in Attendants : ~BusyFor(h, b)' /\ ~NoticeAt(f, b)'
           /\ \A f \in Hosts, b \in Attendants : f # h =>
                 /\ BusyFor(f, b)' <=> BusyFor(f, b)
                 /\ BusyFor(f, b) => /\ attendant'[b].key = attendant[b].key
                                     /\ Attends(b, "verifying")' <=> Attends(b, "verifying")
           /\ h \notin behind' => h \notin behind /\ \A b \in Attendants : ~BusyFor(h, b)
           /\ \A f \in Hosts \ {h} : f \in behind' <=> f \in behind
           /\ KeysKnown' /\ (\A b \in Attendants : ForKey(b)') /\ OneNotice'
<1>1. /\ chased' = [chased EXCEPT ![h] = {}]
      /\ attendant' = [b \in Attendants |->
           IF Attends(b, "vacant") \/ At(b) = h THEN Vacant
           ELSE [attendant[b] EXCEPT !.caller = "nobody",
                                     !.step = IF @ = "waiting" THEN "refused" ELSE @]]
      /\ behind' = IF BusyAt(h) # {} THEN behind \cup {h} ELSE behind
  BY DEF ProcessEnds
<1>2. chased' \in [Hosts -> SUBSET Nat] /\ chased'[h] = {} /\ \A f \in Hosts : f # h => chased'[f] = chased[f]
  BY <1>1 DEF HearInv, KeysKnown
<1>3. ASSUME NEW b \in Attendants
      PROVE  \/ (Attends(b, "vacant") \/ At(b) = h) /\ Attends(b, "vacant")'
             \/ /\ ~Attends(b, "vacant") /\ At(b) # h /\ ~Attends(b, "vacant")'
                /\ attendant'[b].host = attendant[b].host /\ attendant'[b].key = attendant[b].key
                /\ attendant'[b].at = attendant[b].at /\ attendant'[b].caller = "nobody"
                /\ Attends(b, "verifying")' <=> Attends(b, "verifying")
                /\ Attends(b, "pinning")' <=> Attends(b, "pinning")
                /\ Attends(b, "clearing")' <=> Attends(b, "clearing")
  <2>1. CASE Attends(b, "vacant") \/ At(b) = h
    BY <1>1, <2>1 DEF Attends, Vacant
  <2>2. CASE ~Attends(b, "vacant") /\ At(b) # h
    <3>1. attendant[b] \in AttendantType
      BY <2>2, BusyShape DEF HearInv
    <3>2. PICK step : step = IF attendant[b].step = "waiting" THEN "refused" ELSE attendant[b].step
      OBVIOUS
    <3>3. attendant'[b] = [attendant[b] EXCEPT !.caller = "nobody", !.step = step]
      BY <1>1, <2>2, <3>2
    <3>4. /\ attendant'[b].host = attendant[b].host /\ attendant'[b].key = attendant[b].key
          /\ attendant'[b].at = attendant[b].at /\ attendant'[b].caller = "nobody"
          /\ attendant'[b].step = step
      BY <3>1, <3>3 DEF AttendantType
    <3>5. QED
      BY <2>2, <3>2, <3>4 DEF Attends
  <2>3. QED
    BY <2>1, <2>2
<1>4. \A f \in Hosts, b \in Attendants : ~BusyFor(h, b)' /\ ~NoticeAt(f, b)'
  <2>1. TAKE f \in Hosts, b \in Attendants
  <2>2. CASE Attends(b, "vacant")'
    BY <2>2 DEF BusyFor, NoticeAt
  <2>3. CASE attendant'[b].host # h /\ attendant'[b].caller = "nobody"
    BY <2>3 DEF BusyFor, NoticeAt, At
  <2>4. QED
    BY <1>3, <2>2, <2>3 DEF At
<1>5. ASSUME NEW f \in Hosts, NEW b \in Attendants, f # h
      PROVE  /\ BusyFor(f, b)' <=> BusyFor(f, b)
             /\ BusyFor(f, b) => /\ attendant'[b].key = attendant[b].key
                                 /\ Attends(b, "verifying")' <=> Attends(b, "verifying")
  BY <1>3, <1>5 DEF BusyFor, At
<1>6. h \notin behind' => h \notin behind /\ \A b \in Attendants : ~BusyFor(h, b)
  BY <1>1 DEF BusyAt, BusyFor
<1>7. \A f \in Hosts \ {h} : f \in behind' <=> f \in behind
  BY <1>1
<1>8. \A f \in Hosts : /\ PeerOf(f)' = PeerOf(f) /\ PeerOf(f) \in Hosts
                       /\ KeyInUse(PeerOf(f)) \in Nat /\ KeyInUse(PeerOf(f))' \in Nat
                       /\ KeyInUse(PeerOf(f)) <= KeyInUse(PeerOf(f))'
  <2>1. TAKE f \in Hosts
  <2>2. PeerOf(f) \in Hosts
    BY TwoHosts
  <2>3. retired'[PeerOf(f)] \in Seq(BOOLEAN)
    BY <2>2, RevocationsGrow DEF HearInv, IInv
  <2>4. KeyInUse(PeerOf(f))' \in Nat
    BY <2>3 DEF KeyInUse, PeerOf
  <2>5. KeyInUse(PeerOf(f)) <= KeyInUse(PeerOf(f))'
    BY <2>2, RevocationsKept DEF HearInv, IInv, KeyInUse, PeerOf
  <2>6. QED
    BY <2>2, <2>4, <2>5, KeysAreNumbered DEF HearInv, IInv, PeerOf
<1>9. KeysKnown'
  <2>1. ASSUME NEW f \in Hosts
        PROVE  /\ \A k \in promoted'[f] \cup chased'[f] : k <= KeyInUse(PeerOf(f))'
               /\ approved'[f] <= KeyInUse(PeerOf(f))'
               /\ f \notin behind' /\ pin'[f] # 0 => approved'[f] <= pin'[f]
    <3>1. /\ \A k \in promoted[f] \cup chased[f] : k <= KeyInUse(PeerOf(f)) /\ k \in Nat
          /\ approved[f] <= KeyInUse(PeerOf(f)) /\ approved[f] \in Nat
          /\ f \notin behind /\ pin[f] # 0 => approved[f] <= pin[f]
      BY DEF HearInv, KeysKnown, IInv, Shapes
    <3>2. chased'[f] \subseteq chased[f]
      BY <1>2
    <3>3. PICK n, m : n = KeyInUse(PeerOf(f)) /\ m = KeyInUse(PeerOf(f))'
      OBVIOUS
    <3>4. n \in Nat /\ m \in Nat /\ n <= m
      BY <1>8, <3>3
    <3>5. \A k \in promoted'[f] \cup chased'[f] : k <= m
      BY <3>1, <3>2, <3>3, <3>4
    <3>6. f \notin behind' => f \notin behind
      BY <1>1
    <3>7. approved'[f] <= m
      BY <3>1, <3>3, <3>4
    <3>8. f \notin behind' /\ pin'[f] # 0 => approved'[f] <= pin'[f]
      BY <3>1, <3>6
    <3>9. QED
      BY <3>3, <3>5, <3>7, <3>8
  <2>2. QED
    BY <1>2, <1>8, <2>1 DEF HearInv, KeysKnown
<1>10. ASSUME NEW b \in Attendants PROVE ForKey(b)'
  <2>1. CASE Attends(b, "vacant")'
    BY <2>1 DEF ForKey
  <2>2. CASE ~Attends(b, "vacant")'
    <3>1. PICK p : p = PeerOf(At(b))
      OBVIOUS
    <3>2. /\ ~Attends(b, "vacant") /\ At(b)' = At(b) /\ PeerOf(At(b))' = p
          /\ attendant'[b].key = attendant[b].key /\ attendant'[b].at = attendant[b].at
          /\ Attends(b, "pinning")' <=> Attends(b, "pinning")
          /\ Attends(b, "clearing")' <=> Attends(b, "clearing")
      BY <1>3, <2>2, <3>1 DEF At, PeerOf
    <3>3. /\ p \in Hosts /\ attendant[b].key \in Nat /\ attendant[b].at \in Nat /\ At(b) \in Hosts
      BY <3>1, <3>2, BusyShape DEF HearInv
    <3>4. /\ attendant[b].key <= KeyInUse(p)
          /\ Attends(b, "pinning") => attendant[b].key <= attendant[b].at
          /\ Attends(b, "clearing") => retired[p][attendant[b].at] /\ attendant[b].at \in 1 .. Len(retired[p])
      <4>1. Attends(b, "clearing") => 1 <= attendant[b].at /\ attendant[b].at < KeyInUse(p)
        <5>1. /\ 1 <= attendant[b].from /\ attendant[b].from <= attendant[b].at
              /\ Attends(b, "clearing") => attendant[b].at < KeyInUse(p)
          BY <3>1, <3>2 DEF HearInv, IInv, Walked, Sound
        <5>2. attendant[b].from \in Nat
          BY <3>2, BusyShape DEF HearInv
        <5>3. QED
          BY <3>3, <5>1, <5>2
      <4>2. Len(retired[p]) \in Nat /\ KeyInUse(p) = Len(retired[p]) + 1
        BY <3>3, KeysAreNumbered DEF HearInv, IInv, KeyInUse
      <4>3. Attends(b, "clearing") => attendant[b].at \in 1 .. Len(retired[p])
        BY <3>3, <4>1, <4>2
      <4>4. QED
        BY <3>1, <3>2, <4>3 DEF HearInv, ForKey
    <3>5. PICK n, m : n = KeyInUse(p) /\ m = KeyInUse(p)'
      OBVIOUS
    <3>6. n <= m /\ n \in Nat /\ m \in Nat
      BY <1>8, <3>1, <3>2, <3>3, <3>5 DEF KeyInUse
    <3>7. attendant'[b].key <= m
      BY <3>2, <3>3, <3>4, <3>5, <3>6
    <3>8. Attends(b, "clearing") => retired'[p][attendant[b].at]
      BY <3>3, <3>4, RevocationsKept DEF HearInv, IInv
    <3>9. KeyInUse(PeerOf(At(b)))' = m
      BY <3>2, <3>5 DEF KeyInUse
    <3>10. QED
      BY <3>2, <3>4, <3>7, <3>8, <3>9 DEF ForKey
  <2>3. QED
    BY <2>1, <2>2
<1>11. OneNotice'
  BY <1>4 DEF OneNotice
<1>12. QED
  BY <1>2, <1>4, <1>5, <1>6, <1>7, <1>9, <1>10, <1>11

\* The server that restarts hears as before, unless a request was under way.
LEMMA EndedHears ==
    ASSUME HearInv, NEW h \in Hosts, h \notin behind, \A b \in Attendants : ~BusyFor(h, b) /\ ~BusyFor(h, b)',
           retired'[PeerOf(h)] = retired[PeerOf(h)], UNCHANGED <<pin, promoted, approved>>, chased'[h] = {},
           announced'[PeerOf(h)] = announced[PeerOf(h)]
    PROVE  Hears(h)'
<1>1. Hears(h)
  BY DEF HearInv
<1>2. PeerOf(h)' = PeerOf(h) /\ KeyInUse(PeerOf(h))' = KeyInUse(PeerOf(h))
  BY DEF PeerOf, KeyInUse
<1>3. Follows(h)' <=> Follows(h)
  BY <1>2 DEF Follows
<1>4. Reached(h) => Reached(h)'
  BY <1>3 DEF Reached, WalksForKey
<1>5. OwesNotice(h) => OwesNotice(h)'
  BY <1>2 DEF OwesNotice, NoticeAt
<1>6. QED
  BY <1>1, <1>2, <1>3, <1>4, <1>5 DEF Hears

LEMMA RebootHears == ASSUME HearInv, IInv', NEW h \in Hosts, Reboot(h) PROVE HearInv'
<1>1. ProcessEnds(h) /\ UNCHANGED <<retired, pin, promoted, announced, approved>>
  BY DEF Reboot
<1>2. KeysGrow /\ announced' \in [Hosts -> Nat]
  BY <1>1 DEF KeysGrow, HearInv, KeysKnown
<1>3. /\ chased'[h] = {} /\ (\A f \in Hosts : f # h => chased'[f] = chased[f])
      /\ \A f \in Hosts, b \in Attendants : ~BusyFor(h, b)' /\ ~NoticeAt(f, b)'
      /\ \A f \in Hosts, b \in Attendants : f # h =>
            /\ BusyFor(f, b)' <=> BusyFor(f, b)
            /\ BusyFor(f, b) => /\ attendant'[b].key = attendant[b].key
                                /\ Attends(b, "verifying")' <=> Attends(b, "verifying")
      /\ h \notin behind' => h \notin behind /\ \A b \in Attendants : ~BusyFor(h, b)
      /\ \A f \in Hosts \ {h} : f \in behind' <=> f \in behind
      /\ KeysKnown' /\ (\A b \in Attendants : ForKey(b)') /\ OneNotice'
  BY <1>1, <1>2, ProcessEndsHears
<1>4. ASSUME h \notin behind' PROVE Hears(h)'
  BY <1>1, <1>3, <1>4, EndedHears
<1>5. ASSUME NEW e \in Hosts \ behind', e # h PROVE Hears(e)'
  <2>1. Hears(e)
    BY <1>3, <1>5 DEF HearInv
  <2>2. PeerOf(e)' = PeerOf(e) /\ KeyInUse(PeerOf(e))' = KeyInUse(PeerOf(e))
    BY <1>1 DEF PeerOf, KeyInUse
  <2>3. Follows(e)' <=> Follows(e)
    BY <1>1, <2>2 DEF Follows
  <2>4. \A b \in Attendants : WalksForKey(e, b) => WalksForKey(e, b)'
    BY <1>3, <1>5, <2>2 DEF WalksForKey
  <2>5. Reached(e) => Reached(e)'
    BY <2>3, <2>4 DEF Reached
  <2>6. OwesNotice(e) => OwesNotice(e)'
    BY <1>1, <1>3, <1>5, <2>2 DEF OwesNotice
  <2>7. \A b \in Attendants :
           (BusyFor(e, b) /\ Attends(b, "verifying") /\ attendant[b].key = KeyInUse(PeerOf(e)))' => Follows(e)'
    BY <1>3, <1>5, <2>1, <2>2, <2>3 DEF Hears
  <2>8. QED
    BY <1>1, <1>3, <1>5, <2>1, <2>2, <2>3, <2>5, <2>6, <2>7 DEF Hears
<1>6. QED
  BY <1>3, <1>4, <1>5 DEF HearInv

LEMMA ReplaceKeyHears ==
    ASSUME HearInv, IInv', NEW h \in Hosts, NEW c \in BOOLEAN, ReplaceKey(h, c) PROVE HearInv'
<1>1. /\ ProcessEnds(h) /\ retired' = [retired EXCEPT ![h] = Append(@, c)]
      /\ announced' = [announced EXCEPT ![h] = @ + 1]
      /\ UNCHANGED <<pin, promoted, approved>>
  BY DEF ReplaceKey
<1>2. KeysGrow
  BY <1>1 DEF KeysGrow
<1>3. announced \in [Hosts -> Nat] /\ retired \in [Hosts -> Seq(BOOLEAN)]
  BY DEF HearInv, KeysKnown, IInv, Shapes
<1>4. /\ announced' \in [Hosts -> Nat] /\ announced'[h] > 0
      /\ \A f \in Hosts : f # h => announced'[f] = announced[f] /\ retired'[f] = retired[f]
      /\ retired'[h] = Append(retired[h], c)
  BY <1>1, <1>3
<1>5. /\ chased'[h] = {} /\ (\A f \in Hosts : f # h => chased'[f] = chased[f])
      /\ \A f \in Hosts, b \in Attendants : ~BusyFor(h, b)' /\ ~NoticeAt(f, b)'
      /\ \A f \in Hosts, b \in Attendants : f # h =>
            /\ BusyFor(f, b)' <=> BusyFor(f, b)
            /\ BusyFor(f, b) => /\ attendant'[b].key = attendant[b].key
                                /\ Attends(b, "verifying")' <=> Attends(b, "verifying")
      /\ h \notin behind' => h \notin behind /\ \A b \in Attendants : ~BusyFor(h, b)
      /\ \A f \in Hosts \ {h} : f \in behind' <=> f \in behind
      /\ KeysKnown' /\ (\A b \in Attendants : ForKey(b)') /\ OneNotice'
  BY <1>1, <1>2, <1>4, ProcessEndsHears
<1>6. ASSUME h \notin behind' PROVE Hears(h)'
  <2>1. PeerOf(h) \in Hosts /\ PeerOf(h) # h
    BY TwoHosts
  <2>2. QED
    BY <1>1, <1>4, <1>5, <1>6, <2>1, EndedHears
<1>7. ASSUME NEW e \in Hosts \ behind', e # h PROVE Hears(e)'
  <2>1. Hears(e)
    BY <1>5, <1>7 DEF HearInv
  <2>2. PeerOf(e) = h /\ PeerOf(e)' = h
    BY <1>7, TwoHosts DEF PeerOf
  <2>3. PICK n \in Nat : n = KeyInUse(h) /\ n = Len(retired[h]) + 1
    BY KeysAreNumbered DEF HearInv, IInv, KeyInUse
  <2>4. KeyInUse(h)' = n + 1
    BY <1>3, <1>4, <2>3 DEF KeyInUse
  <2>5. OwesNotice(e)'
    BY <1>4, <1>5, <1>7, <2>2 DEF OwesNotice
  <2>6. n + 1 \notin promoted'[e] \cup chased'[e]
    <3>1. \A k \in promoted[e] \cup chased[e] : k <= n
      BY <1>7, <2>2, <2>3 DEF HearInv, KeysKnown
    <3>2. QED
      BY <1>1, <1>5, <1>7, <2>3, <3>1
  <2>7. pin'[e] = 0 => Follows(e)'
    <3>1. SUFFICES ASSUME pin[e] = 0 PROVE Follows(e)'
      BY <1>1
    <3>2. approved[e] \in Nat /\ approved[e] >= 1
      BY <1>7 DEF HearInv, IInv, Shapes, Pinned
    <3>3. PICK k \in approved[e] .. (n - 1) : retired[h][k]
      BY <2>1, <2>2, <2>3, <3>1 DEF Hears, Follows
    <3>4. k \in 1 .. Len(retired[h]) /\ k \in approved[e] .. n
      BY <1>3, <2>3, <3>2, <3>3
    <3>5. retired'[h][k]
      BY <1>2, <3>3, <3>4, RevocationsKept DEF HearInv, IInv
    <3>6. KeyInUse(h)' - 1 = n
      BY <2>3, <2>4
    <3>7. QED
      BY <1>1, <2>2, <3>1, <3>4, <3>5, <3>6 DEF Follows, KeyInUse
  <2>8. ASSUME NEW b \in Attendants, BusyFor(e, b)' PROVE attendant'[b].key # n + 1
    <3>1. BusyFor(e, b) /\ attendant'[b].key = attendant[b].key
      BY <1>5, <1>7, <2>8
    <3>2. ~Attends(b, "vacant") /\ At(b) = e
      BY <3>1 DEF BusyFor
    <3>3. attendant[b].key <= n
      BY <2>2, <2>3, <3>2 DEF HearInv, ForKey
    <3>4. attendant[b].key \in Nat
      BY <3>2, BusyShape DEF HearInv
    <3>5. QED
      BY <2>3, <3>1, <3>3, <3>4
  <2>9. QED
    BY <2>2, <2>4, <2>5, <2>6, <2>7, <2>8 DEF Hears, KeyInUse
<1>8. QED
  BY <1>5, <1>6, <1>7 DEF HearInv

LEMMA PeerAnewHears == ASSUME HearInv, IInv', PeerAnew PROVE HearInv'
<1>1. /\ pin' = [e \in Hosts |-> KeyInUse(PeerOf(e))] /\ approved' = pin'
      /\ promoted' = [e \in Hosts |-> promoted[e] \cup {KeyInUse(PeerOf(e))}]
      /\ announced' = [e \in Hosts |-> 0]
      /\ attendant' = [a \in Attendants |->
             IF ~Attends(a, "vacant") /\ attendant[a].caller = "notice"
             THEN [attendant[a] EXCEPT !.caller = "nobody"] ELSE attendant[a]]
      /\ retired' = retired /\ chased' = chased
  BY DEF PeerAnew
<1>2. \A e \in Hosts : /\ PeerOf(e)' = PeerOf(e) /\ KeyInUse(PeerOf(e))' = KeyInUse(PeerOf(e))
                       /\ KeyInUse(PeerOf(e)) \in Nat /\ pin'[e] = KeyInUse(PeerOf(e))
  BY <1>1, TwoHosts, KeysAreNumbered DEF PeerOf, KeyInUse, HearInv, IInv
<1>3. \A e \in Hosts : Hears(e)'
  BY <1>2, FollowsHears DEF Follows
<1>4. ASSUME NEW a \in Attendants
      PROVE  /\ attendant'[a].step = attendant[a].step
             /\ ~Attends(a, "vacant") => attendant'[a].caller # "notice"
             /\ ~Attends(a, "vacant") => /\ attendant'[a].host = attendant[a].host
                                         /\ attendant'[a].key = attendant[a].key
                                         /\ attendant'[a].at = attendant[a].at
  <2>1. CASE ~Attends(a, "vacant") /\ attendant[a].caller = "notice"
    <3>1. attendant[a] \in AttendantType /\ attendant'[a] = [attendant[a] EXCEPT !.caller = "nobody"]
      BY <1>1, <2>1, BusyShape DEF HearInv
    <3>2. QED
      BY <3>1 DEF AttendantType
  <2>2. CASE ~(~Attends(a, "vacant") /\ attendant[a].caller = "notice")
    BY <1>1, <2>2
  <2>3. QED
    BY <2>1, <2>2
<1>5. ASSUME NEW a \in Attendants PROVE ForKey(a)'
  <2>1. CASE Attends(a, "vacant")
    BY <1>4, <2>1 DEF ForKey, Attends
  <2>2. CASE ~Attends(a, "vacant")
    <3>1. PICK p : p = PeerOf(At(a))
      OBVIOUS
    <3>2. PeerOf(At(a))' = p /\ KeyInUse(p)' = KeyInUse(p) /\ retired'[p] = retired[p]
      BY <1>1, <1>4, <2>2, <3>1 DEF At, PeerOf, KeyInUse
    <3>3. /\ attendant[a].key <= KeyInUse(p)
          /\ Attends(a, "pinning") => attendant[a].key <= attendant[a].at
          /\ Attends(a, "clearing") => retired[p][attendant[a].at]
      BY <2>2, <3>1 DEF HearInv, ForKey
    <3>4. KeyInUse(PeerOf(At(a)))' = KeyInUse(p)
      BY <3>2 DEF KeyInUse
    <3>5. QED
      BY <1>4, <2>2, <3>2, <3>3, <3>4 DEF ForKey, Attends
  <2>3. QED
    BY <2>1, <2>2
<1>6. OneNotice'
  BY <1>4 DEF OneNotice, NoticeAt, BusyFor, Attends
<1>7. KeysKnown'
  <2>1. ASSUME NEW e \in Hosts
        PROVE  /\ promoted'[e] \in SUBSET Nat
               /\ \A k \in promoted'[e] \cup chased'[e] : k <= KeyInUse(PeerOf(e))
               /\ approved'[e] <= KeyInUse(PeerOf(e)) /\ approved'[e] <= pin'[e]
    BY <1>1, <1>2 DEF HearInv, KeysKnown
  <2>2. QED
    BY <1>1, <1>2, <2>1 DEF HearInv, KeysKnown
<1>8. QED
  BY <1>3, <1>5, <1>6, <1>7 DEF HearInv

LEMMA InitHears == ServerKeysInit => HearInv
<1> SUFFICES ASSUME ServerKeysInit PROVE HearInv
  OBVIOUS
<1>1. /\ retired = [e \in Hosts |-> <<>>] /\ pin = [e \in Hosts |-> 1] /\ promoted = [e \in Hosts |-> {1}]
      /\ chased = [e \in Hosts |-> {}] /\ announced = [e \in Hosts |-> 0]
      /\ attendant = [a \in Attendants |-> Vacant] /\ approved = [e \in Hosts |-> 1]
  BY DEF ServerKeysInit
<1>2. \A e \in Hosts : PeerOf(e) \in Hosts /\ KeyInUse(PeerOf(e)) = 1
  <2>1. \A e \in Hosts : PeerOf(e) \in Hosts /\ retired[PeerOf(e)] = <<>>
    BY <1>1, TwoHosts
  <2>2. Len(<<>>) + 1 = 1
    OBVIOUS
  <2>3. QED
    BY <2>1, <2>2 DEF KeyInUse
<1>3. \A a \in Attendants : Attends(a, "vacant")
  BY <1>1 DEF Attends, Vacant
<1>4. KeysKnown
  BY <1>1, <1>2 DEF KeysKnown
<1>5. \A e \in Hosts : Follows(e)
  BY <1>1, <1>2 DEF Follows
<1>6. \A e \in Hosts : Hears(e)
  BY <1>5 DEF Hears, Reached
<1>7. QED
  BY <1>3, <1>4, <1>6, InitSound DEF HearInv, ForKey, OneNotice, NoticeAt, BusyFor

LEMMA StepHears == HearInv /\ [ServerKeysNext]_serverKeyVars => HearInv'
<1> SUFFICES ASSUME HearInv, [ServerKeysNext]_serverKeyVars PROVE HearInv'
  OBVIOUS
<1>1. IInv'
  BY StepSound DEF HearInv
<1>2. ASSUME NEW e \in Hosts, NEW c \in BOOLEAN, ReplaceKey(e, c) PROVE HearInv'
  BY <1>1, <1>2, ReplaceKeyHears
<1>3. ASSUME NEW e \in Hosts, Reboot(e) PROVE HearInv'
  BY <1>1, <1>3, RebootHears
<1>4. ASSUME NEW e \in Hosts, NEW a \in Attendants, NEW caller \in {"notice", "nobody"}, Approach(e, caller, a)
      PROVE  HearInv'
  BY <1>1, <1>4, ApproachHears
<1>5. ASSUME NEW e \in Hosts, NEW key \in 1 .. KeyInUse(PeerOf(e)), FiveMinutesPass(e, key) PROVE HearInv'
  BY <1>1, <1>5, FiveMinutesHears
<1>6. ASSUME NEW a \in Attendants, NEW b \in Attendants, Fetch(a, b) PROVE HearInv'
  BY <1>1, <1>6, FetchHears
<1>7. ASSUME NEW a \in Attendants, FetchLost(a) PROVE HearInv'
  BY <1>1, <1>7, FetchLostHears
<1>8. ASSUME NEW a \in Attendants, ReadRevocation(a) PROVE HearInv'
  BY <1>1, <1>8, ReadRevocationHears
<1>9. ASSUME NEW a \in Attendants, Repin(a) PROVE HearInv'
  BY <1>1, <1>9, RepinHears
<1>10. ASSUME NEW a \in Attendants, ClearPin(a) PROVE HearInv'
  BY <1>1, <1>10, ClearPinHears
<1>11. ASSUME NEW a \in Attendants, Verify(a) PROVE HearInv'
  BY <1>1, <1>11, VerifyHears
<1>12. ASSUME NEW a \in Attendants, GiveUpWalk(a) PROVE HearInv'
  BY <1>1, <1>12, GiveUpHears
<1>13. CASE PeerAnew
  BY <1>1, <1>13, PeerAnewHears
<1>14. CASE UNCHANGED serverKeyVars
  <2>1. /\ UNCHANGED <<retired, pin, promoted, chased, announced, approved, behind>>
        /\ attendant' = attendant
    BY <1>14 DEF serverKeyVars
  <2>2. \A b \in Attendants : GoesOn(b) /\ ForKey(b)'
    BY <2>1, ForKeyStays DEF HearInv, GoesOn
  <2>3. KeysKnown'
    BY <2>1 DEF HearInv, KeysKnown, KeyInUse, PeerOf
  <2>4. OneNotice'
    BY <2>1, <2>2, GoesOnAlike, NoticesStay DEF HearInv, KeysKnown
  <2>5. \A e \in Hosts \ behind' : Hears(e)'
    BY <2>1, <2>2, HearsStill DEF HearInv
  <2>6. QED
    BY <1>1, <2>2, <2>3, <2>4, <2>5 DEF HearInv
<1>15. QED
  BY <1>2, <1>3, <1>4, <1>5, <1>6, <1>7, <1>8, <1>9, <1>10, <1>11, <1>12, <1>13, <1>14 DEF ServerKeysNext

\* A server that was told of its peer's key in use trusts it, or has cleared
\* its pin because a key on the way was compromised; a host falls behind only
\* by a walk that failed or was overtaken (revokeServerKey, updatePeerKey).
THEOREM KeysAlwaysFollow == ServerKeysSpec => []KeysFollow
<1>1. HearInv => FollowsUnlessBehind
  <2>1. SUFFICES ASSUME HearInv, \A a \in Attendants : Attends(a, "vacant"),
                        NEW e \in Hosts \ behind, announced[PeerOf(e)] = 0
                 PROVE  Follows(e)
    BY DEF FollowsUnlessBehind, Follows
  <2>2. Reached(e) \/ OwesNotice(e)
    BY <2>1 DEF HearInv, Hears
  <2>3. QED
    BY <2>1, <2>2 DEF Reached, OwesNotice, WalksForKey, BusyFor
<1>2. QED
  BY <1>1, InitHears, StepHears, DenouncedStay, PTL DEF ServerKeysSpec, KeysFollow
=============================================================================
