----------------------------- MODULE ServerKeys -----------------------------
(***************************************************************************)
(* Two peers that replace their signing keys.  Each pins the other's key.  *)
(* A request signed with a key nobody knows here makes the server walk the *)
(* caller's revocations, from the pinned key to the one in use, and pin    *)
(* that.  The walk asks the caller, with requests that the caller has to   *)
(* authenticate in turn.  Keys of a server are numbered as they were made. *)
(***************************************************************************)
EXTENDS Naturals, Sequences

CONSTANTS
    Hosts,              \* the two servers (model values)
    Attendants,         \* requests under way whose key is looked into
    MaxHops,            \* maxServerKeyHops
    MaxRotations,       \* BOUND: keys replaced
    MaxApproaches,      \* BOUND: requests that are not the notice
    MaxFaults           \* BOUND: lost calls, restarts and new peerings

ASSUME ServerKeysAssumption ==
    /\ \E d, e \in Hosts : d # e /\ Hosts = {d, e}
    /\ Attendants \cap {"notice", "nobody"} = {}
    /\ MaxHops \in Nat \ {0}
    /\ MaxRotations \in Nat /\ MaxApproaches \in Nat /\ MaxFaults \in Nat

Vacant == [step |-> "vacant"]

VARIABLES
    retired,        \* host -> its revocations in order: was the key compromised?
    pin,            \* host -> the peer's key it trusts, 0 when cleared
    promoted,       \* host -> the peer's keys it has rows of
    chased,         \* host -> the peer's keys it looked into in the last five minutes
    announced,      \* host -> notices of new keys it still owes
    attendant,      \* attendant -> what it is doing, and for whom
    approaches,     \* how many there were
    faults,         \* how many there were
    approved,       \* history: host -> the peer's key as it was approved
    denounced,      \* history: host -> the peer's keys it has learned are compromised
    behind          \* history: hosts that missed a key in a way listed below

serverKeyVars == <<retired, pin, promoted, chased, announced, attendant, approaches, faults,
                   approved, denounced, behind>>

ServerKeysInit ==
    /\ retired = [e \in Hosts |-> <<>>]
    /\ pin = [e \in Hosts |-> 1] /\ promoted = [e \in Hosts |-> {1}]
    /\ chased = [e \in Hosts |-> {}] /\ announced = [e \in Hosts |-> 0]
    /\ attendant = [a \in Attendants |-> Vacant]
    /\ approaches = 0 /\ faults = 0
    /\ approved = [e \in Hosts |-> 1] /\ denounced = [e \in Hosts |-> {}] /\ behind = {}

PeerOf(e) == CHOOSE p \in Hosts : p # e

\* server_self.key_id: the only key that is not revoked.
KeyInUse(e) == Len(retired[e]) + 1

Attends(a, step) == attendant[a].step = step
At(a) == attendant[a].host
StepsTo(a, step) == attendant' = [attendant EXCEPT ![a].step = step]
BusyAt(e) == {a \in Attendants : ~Attends(a, "vacant") /\ At(a) = e}

----------------------------------------------------------------------------
(* Replacing a key: ops rotate-key with the server stopped, then a boot.   *)

\* The process is gone, with what it attended to and what it was asking.
ProcessEnds(e) ==
    /\ chased' = [chased EXCEPT ![e] = {}]
    /\ attendant' = [a \in Attendants |->
           IF Attends(a, "vacant") \/ At(a) = e THEN Vacant
           ELSE [attendant[a] EXCEPT !.caller = "nobody",
                                     !.step = IF @ = "waiting" THEN "refused" ELSE @]]
    /\ behind' = IF BusyAt(e) # {} THEN behind \cup {e} ELSE behind

\* revokeServerKey: revocation, successor and notices in one transaction.
ReplaceKey(e, compromised) ==
    /\ Len(retired[e]) + Len(retired[PeerOf(e)]) < MaxRotations
    /\ retired' = [retired EXCEPT ![e] = Append(@, compromised)]
    /\ announced' = [announced EXCEPT ![e] = @ + 1]
    /\ ProcessEnds(e)
    /\ UNCHANGED <<pin, promoted, approaches, faults, approved, denounced>>

Reboot(e) ==
    /\ faults < MaxFaults
    /\ faults' = faults + 1
    /\ ProcessEnds(e)
    /\ UNCHANGED <<retired, pin, promoted, announced, approaches, approved, denounced>>

----------------------------------------------------------------------------
(* Authenticating a peer's request.                                        *)

\* A key with a row is the pinned one or refused (signatureAuthMiddleware).
\* Without a row it is looked into, once in five minutes (updatePeerKey).
\* Variant that must fail: once for each peer.
Chased_AnyKey(e, key) == chased[e] # {}
Chased(e, key) == key \in chased[e]

Verdict(e, key) ==
    IF pin[e] = key THEN "pinned"
    ELSE IF key \in promoted[e] \/ Chased(e, key) \/ pin[e] = 0 THEN "refused"
    ELSE "unknown"

\* What looking at the key leaves behind.
Noted(e, key) == IF pin[e] = key \/ key \in promoted[e] THEN chased
                 ELSE [chased EXCEPT ![e] = @ \cup {key}]

Attending(e, key, caller) ==
    [step |-> "walking", host |-> e, key |-> key, caller |-> caller, from |-> pin[e], at |-> pin[e]]

\* A request of e's arrives; the notice is one that carries nothing.
Approach(e, caller, a) ==
    LET p == PeerOf(e)
        verdict == Verdict(p, KeyInUse(e)) IN
    /\ IF caller = "notice"
       THEN /\ announced[e] > 0
            /\ \A b \in BusyAt(p) : attendant[b].caller # "notice"
            /\ UNCHANGED approaches
       ELSE approaches < MaxApproaches /\ approaches' = approaches + 1
    /\ Attends(a, "vacant")
    /\ chased' = Noted(p, KeyInUse(e))
    /\ attendant' = IF verdict = "unknown"
                    THEN [attendant EXCEPT ![a] = Attending(p, KeyInUse(e), caller)] ELSE attendant
    /\ announced' = IF verdict # "unknown" /\ caller = "notice"
                    THEN [announced EXCEPT ![e] = @ - 1] ELSE announced
    /\ UNCHANGED <<retired, pin, promoted, faults, approved, denounced, behind>>

\* The caller has its answer: a refused notice is dropped like one that was
\* heard, a refused fetch ends the walk it is part of.
Answered(a, ok) ==
    LET caller == attendant[a].caller IN
    /\ attendant' = [b \in Attendants |->
           IF b = a THEN Vacant
           ELSE IF b = caller
           THEN [attendant[b] EXCEPT !.step = IF ok THEN "reading" ELSE "refused"]
           ELSE attendant[b]]
    /\ announced' = [announced EXCEPT ![PeerOf(At(a))] = @ - (IF caller = "notice" THEN 1 ELSE 0)]

----------------------------------------------------------------------------
(* walkRevocationChain                                                     *)

\* The fetch is authenticated by the server it asks.
Fetch(a, b) ==
    /\ Attends(a, "walking") /\ Attends(b, "vacant") /\ a # b
    /\ LET p == PeerOf(At(a))
           verdict == Verdict(p, KeyInUse(At(a))) IN
       /\ chased' = Noted(p, KeyInUse(At(a)))
       /\ attendant' =
           IF verdict = "unknown"
           THEN [attendant EXCEPT ![a].step = "waiting", ![b] = Attending(p, KeyInUse(At(a)), a)]
           ELSE [attendant EXCEPT ![a].step = IF verdict = "pinned" THEN "reading" ELSE "refused"]
    /\ UNCHANGED <<retired, pin, promoted, announced, approaches, faults, approved, denounced,
                   behind>>

FetchLost(a) ==
    /\ Attends(a, "walking") /\ faults < MaxFaults
    /\ faults' = faults + 1
    /\ StepsTo(a, "refused")
    /\ UNCHANGED <<retired, pin, promoted, chased, announced, approaches, approved, denounced,
                   behind>>

\* The answer: the key is in use, was compromised, or has a successor that
\* takes its place.  After MaxHops successors the walk is given up, whether
\* or not the last of them is in use.
\* Variant that must fail: the successor of a compromised key is adopted.
Adoptable_Signed(e, key) == TRUE
Adoptable(e, key) == ~retired[e][key]

ReadRevocation(a) ==
    LET p == PeerOf(At(a))
        at == attendant[a].at IN
    /\ Attends(a, "reading")
    /\ attendant' =
        IF at = KeyInUse(p)
        THEN [attendant EXCEPT ![a].step = IF at = attendant[a].from THEN "refused" ELSE "pinning"]
        ELSE IF ~Adoptable(p, at) THEN [attendant EXCEPT ![a].step = "clearing"]
        ELSE [attendant EXCEPT ![a].at = at + 1,
                               ![a].step = IF at + 1 - attendant[a].from = MaxHops THEN "refused"
                                           ELSE "walking"]
    /\ UNCHANGED <<retired, pin, promoted, chased, announced, approaches, faults, approved,
                   denounced, behind>>

\* RepinPeerKey: whatever is pinned by now.
Repin(a) ==
    LET e == At(a)
        at == attendant[a].at IN
    /\ Attends(a, "pinning")
    /\ pin' = [pin EXCEPT ![e] = at]
    /\ promoted' = [promoted EXCEPT ![e] = @ \cup (attendant[a].from + 1) .. at]
    /\ behind' = IF at = KeyInUse(PeerOf(e)) THEN behind \ {e}
                 ELSE IF pin[e] # attendant[a].from THEN behind \cup {e} ELSE behind
    /\ StepsTo(a, "verifying")
    /\ UNCHANGED <<retired, chased, announced, approaches, faults, approved, denounced>>

\* ClearPeerPin
\* Variant that must fail: the event is logged and the pin kept.
Cleared_Logged(e) == pin[e]
Cleared(e) == 0

ClearPin(a) ==
    LET e == At(a) IN
    /\ Attends(a, "clearing")
    /\ pin' = [pin EXCEPT ![e] = Cleared(e)]
    /\ denounced' = [denounced EXCEPT ![e] = @ \cup {attendant[a].at}]
    /\ behind' = IF pin[e] # attendant[a].from THEN behind \cup {e} ELSE behind
    /\ Answered(a, FALSE)
    /\ UNCHANGED <<retired, promoted, chased, approaches, faults, approved>>

\* The request is authenticated after all if its key is the pinned one.
Verify(a) ==
    /\ Attends(a, "verifying")
    /\ Answered(a, pin[At(a)] = attendant[a].key)
    /\ UNCHANGED <<retired, pin, promoted, chased, approaches, faults, approved, denounced, behind>>

\* A walk that could not be made: refused, and not tried again for a while.
GiveUpWalk(a) ==
    /\ Attends(a, "refused")
    /\ behind' = behind \cup {At(a)}
    /\ Answered(a, FALSE)
    /\ UNCHANGED <<retired, pin, promoted, chased, approaches, faults, approved, denounced>>

\* peerKeyUpdateRetry; no walk takes that long.
FiveMinutesPass(e, key) ==
    /\ key \in chased[e]
    /\ BusyAt(e) = {}
    /\ chased' = [chased EXCEPT ![e] = @ \ {key}]
    /\ UNCHANGED <<retired, pin, promoted, announced, attendant, approaches, faults, approved,
                   denounced, behind>>

\* Admins disconnect, purge and connect anew, which is what a cleared pin
\* takes (rejectKnownFederationPeer): both pin the key in use.
PeerAnew ==
    /\ faults < MaxFaults
    /\ faults' = faults + 1
    /\ pin' = [e \in Hosts |-> KeyInUse(PeerOf(e))]
    /\ approved' = pin'
    /\ promoted' = [e \in Hosts |-> promoted[e] \cup {KeyInUse(PeerOf(e))}]
    /\ announced' = [e \in Hosts |-> 0]
    /\ attendant' = [a \in Attendants |->
           IF ~Attends(a, "vacant") /\ attendant[a].caller = "notice"
           THEN [attendant[a] EXCEPT !.caller = "nobody"] ELSE attendant[a]]
    /\ behind' = {}
    /\ UNCHANGED <<retired, chased, approaches, denounced>>

ServerKeysNext ==
    \/ \E e \in Hosts :
        \/ \E compromised \in BOOLEAN : ReplaceKey(e, compromised)
        \/ Reboot(e)
        \/ \E a \in Attendants, caller \in {"notice", "nobody"} : Approach(e, caller, a)
        \/ \E key \in 1 .. KeyInUse(PeerOf(e)) : FiveMinutesPass(e, key)
    \/ \E a \in Attendants :
        \/ \E b \in Attendants : Fetch(a, b)
        \/ FetchLost(a) \/ ReadRevocation(a) \/ Repin(a)
        \/ ClearPin(a) \/ Verify(a) \/ GiveUpWalk(a)
    \/ PeerAnew

ServerKeysSpec == ServerKeysInit /\ [][ServerKeysNext]_serverKeyVars

----------------------------------------------------------------------------
(* Invariants.                                                             *)

AttendantType ==
    [step : {"walking", "waiting", "reading", "refused", "pinning", "clearing", "verifying"},
     host : Hosts, key : Nat, caller : {"notice", "nobody"} \cup Attendants, from : Nat, at : Nat]

ServerKeysTypeOK ==
    /\ retired \in [Hosts -> Seq(BOOLEAN)]
    /\ pin \in [Hosts -> Nat] /\ approved \in [Hosts -> Nat]
    /\ promoted \in [Hosts -> SUBSET Nat] /\ chased \in [Hosts -> SUBSET Nat]
    /\ denounced \in [Hosts -> SUBSET Nat]
    /\ announced \in [Hosts -> Nat]
    /\ attendant \in [Attendants -> AttendantType \cup {Vacant}]
    /\ approaches \in Nat /\ faults \in Nat /\ behind \subseteq Hosts

\* A key is trusted only if every key between the one an admin approved and
\* this one was handed on by its owner, and none of them as compromised.
HandedOver ==
    \A e \in Hosts :
        pin[e] # 0 => /\ pin[e] <= KeyInUse(PeerOf(e))
                      /\ \A k \in approved[e] .. (pin[e] - 1) : ~retired[PeerOf(e)][k]

\* A peer that has been told follows, or has cleared its pin for cause.
FollowsUnlessBehind ==
    (\A a \in Attendants : Attends(a, "vacant")) =>
        \A e \in Hosts \ behind :
            LET p == PeerOf(e) IN
            announced[p] = 0 =>
                \/ pin[e] = KeyInUse(p)
                \/ pin[e] = 0 /\ \E k \in approved[e] .. (KeyInUse(p) - 1) : retired[p][k]

\* A key known to be compromised is not trusted again.
DenouncedUnlessBehind == \A e \in Hosts \ behind : pin[e] \notin denounced[e]

KeysFollow == FollowsUnlessBehind /\ DenouncedUnlessBehind
=============================================================================
