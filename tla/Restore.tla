------------------------------ MODULE Restore -------------------------------
(***************************************************************************)
(* The signed records that devices report to a rebuilt server              *)
(* (recovery_records.go, saveRecoveryReed).  A record is stored once the   *)
(* keys it is signed with, or the ledger entry before it, are back; until  *)
(* then it is parked, and whatever brings the missing thing back wakes it. *)
(* The records of one subject come from several devices, in any order and  *)
(* at once; what is stored in the end must not depend on it.               *)
(*                                                                         *)
(* A peering comes back the same way (recovery_peers.go), and only then    *)
(* the peer's users and what they have signed.                             *)
(*                                                                         *)
(* Restoring is a transaction of its own.  Parking comes after it, and     *)
(* waking takes the parked records out before it retries them.             *)
(***************************************************************************)
EXTENDS Naturals, FiniteSets

CONSTANTS
    Identities,     \* users whose identities are restored (model values)
    PeerUsers,      \* those of them who are users of the peer
    Records,        \* records the devices hold
    Restorers,      \* requests handled at once
    MaxReports,     \* BOUND: reports of records
    MaxDeaths       \* BOUND: requests that end with an error of the database or a crash

Peerings == {"peering", "parting"}

\* A record: who signed it, in the order the keys are looked up; the ledger
\* entry before it (0: none); what it is about; and when it was signed.
SignedRecord ==
    [kind : {"ledger", "request", "closed", "follow", "unfollow", "removal", "echo",
             "peering", "parting"},
     signers : UNION {[1 .. n -> Identities] : n \in 0 .. 2},
     prev : Nat, id : Nat, at : Nat]

ASSUME RestoreAssumption ==
    /\ PeerUsers \subseteq Identities /\ Records \subseteq SignedRecord
    /\ MaxReports \in Nat /\ MaxDeaths \in Nat

\* What it is about: the primary key it is stored under.
Subject(r) ==
    CASE r.kind = "ledger" -> <<"entry", r.id>>
      [] r.kind \in {"request", "closed"} -> <<"request", r.id>>
      [] r.kind \in {"follow", "unfollow"} -> <<"pair", r.id>>
      [] r.kind = "removal" -> <<"removed", r.id>>
      [] r.kind = "echo" -> <<"reed", r.id>>
      [] r.kind \in Peerings -> <<"peer", r.id>>

ASSUME SubjectsAssumption == \A r \in Records : Subject(r) \notin Identities

Idle == [step |-> "idle"]
Turn(step, r, direct, saw) == [step |-> step, rec |-> r, direct |-> direct, saw |-> saw]
WakingOn(on) == [step |-> "waking", on |-> on]

VARIABLES
    claimedUsers,   \* users whose keys are back
    restored,       \* records that were stored
    standing,       \* subject -> the record that stands for it
    echoes,         \* reeds with a row in reed_echoes
    parkedRecords,  \* pending_recovery_records: <<waiting_on, record>>
    restorer,       \* each request: what it is doing
    inHand,         \* each request: records it woke and has still to retry
    reports,        \* how many were made
    deaths,         \* how many requests ended early
    forgotten,      \* history: records taken out, or parked, with nothing left to wake them
    mixed         \* history: subjects two requests wrote at once

restoreVars == <<claimedUsers, restored, standing, echoes, parkedRecords, restorer, inHand, reports,
                 deaths, forgotten, mixed>>

RestoreInit ==
    /\ claimedUsers = {} /\ restored = {} /\ standing = {} /\ echoes = {} /\ parkedRecords = {}
    /\ restorer = [w \in Restorers |-> Idle] /\ inHand = [w \in Restorers |-> {}]
    /\ reports = 0 /\ deaths = 0 /\ forgotten = {} /\ mixed = {}

----------------------------------------------------------------------------

Entry(id) == <<"entry", id>>
Back(on) == on \in claimedUsers \/ \E r \in standing : Subject(r) = on

\* signedBy, and the lookup of the entry before: the first that is missing.
Missing(r) ==
    IF r.prev # 0 THEN {on \in {Entry(r.prev)} : ~Back(on)}
    ELSE LET gaps == {i \in DOMAIN r.signers : r.signers[i] \notin claimedUsers} IN
         {r.signers[i] : i \in {j \in gaps : \A k \in gaps : j <= k}}

\* IsActivePeer, and the records that ask for it (signedOnPeer).
ActivePeer == \E r \in standing : r.kind = "peering"
FromStranger(r) == ~ActivePeer /\ \E i \in DOMAIN r.signers : r.signers[i] \in PeerUsers

Met(r) == ~FromStranger(r) /\ Missing(r) = {}

Standing(r) == {s \in standing : Subject(s) = Subject(r)}

Goes(w, to) == restorer' = [restorer EXCEPT ![w] = to]
\* The next of the records in hand, or the answer.
GoesOn(w) == Goes(w, IF inHand[w] = {} THEN Idle ELSE [step |-> "next"])

TakesRecord(w, r) ==
    /\ restorer[w].step = "idle" /\ reports < MaxReports
    /\ reports' = reports + 1
    /\ Goes(w, Turn("trying", r, TRUE, {}))
    /\ UNCHANGED <<claimedUsers, restored, standing, echoes, parkedRecords, inHand, deaths,
                   forgotten, mixed>>

\* ReportRecords, ReportReed: one record after the other.  ReportServers, restorePeerRecord:
\* a record of a peering that this server has countersigned waits for nothing.
Report(w, r) == r.kind \notin Peerings /\ TakesRecord(w, r)
ReportServers(w, r) == r.kind \in Peerings /\ TakesRecord(w, r)

\* insertRecoveryKeys, CachePeerUserKey: the keys that are not there yet.
KeysComeBack(w, u) ==
    /\ restorer[w].step = "idle" /\ reports < MaxReports
    /\ reports' = reports + 1
    /\ claimedUsers' = claimedUsers \cup {u}
    /\ Goes(w, WakingOn(u))
    /\ UNCHANGED <<restored, standing, echoes, parkedRecords, inHand, deaths, forgotten, mixed>>

\* ClaimIdentity, ReportPeerIdentity, once more for a user already restored.
RestoreIdentity(w, u) == u \notin PeerUsers /\ KeysComeBack(w, u)
\* reportPeerUser: refused unless the peer is back.
RestorePeerUser(w, u) == u \in PeerUsers /\ ActivePeer /\ KeysComeBack(w, u)

Retry(w, r) ==
    /\ restorer[w].step = "next" /\ r \in inHand[w]
    /\ inHand' = [inHand EXCEPT ![w] = @ \ {r}]
    /\ Goes(w, Turn("trying", r, FALSE, {}))
    /\ UNCHANGED <<claimedUsers, restored, standing, echoes, parkedRecords, reports, deaths,
                   forgotten, mixed>>

\* What is missing is found out in a transaction that is rolled back.
FoundWaiting(w) ==
    LET r == restorer[w].rec IN
    /\ restorer[w].step = "trying" /\ ~FromStranger(r) /\ Missing(r) # {}
    /\ \E on \in Missing(r) : Goes(w, Turn("parking", r, restorer[w].direct, {on}))
    /\ UNCHANGED <<claimedUsers, restored, standing, echoes, parkedRecords, inHand, reports, deaths,
                   forgotten, mixed>>

\* A record of a peer that is not back, or has been parted from, is refused.
RefuseRecord(w) ==
    /\ restorer[w].step = "trying" /\ FromStranger(restorer[w].rec)
    /\ GoesOn(w)
    /\ UNCHANGED <<claimedUsers, restored, standing, echoes, parkedRecords, inHand, reports, deaths,
                   forgotten, mixed>>

\* Nothing wakes it if what it waits on came back in between.
Park(w) ==
    LET r == restorer[w].rec IN
    /\ restorer[w].step = "parking"
    /\ parkedRecords' = parkedRecords \cup {<<on, r>> : on \in restorer[w].saw}
    /\ forgotten' = IF \E on \in restorer[w].saw :
                            Back(on) /\ \A v \in Restorers : restorer[v] # WakingOn(on)
                    THEN forgotten \cup {r} ELSE forgotten
    /\ GoesOn(w)
    /\ UNCHANGED <<claimedUsers, restored, standing, echoes, inHand, reports, deaths, mixed>>

----------------------------------------------------------------------------
(* Storing.  A row that is there is locked, and decided on at once; without *)
(* one, two requests may both go on to write it.                            *)

\* A closed copy closes the pending one; the newer certificate of a pair, and
\* the newer record of a peering, stands; every other record is held already.
RestorePeer(r, held) == r.kind \in Peerings /\ r.at > held.at
Replaces(r, held) ==
    \/ r.kind = "closed" /\ held.kind = "request"
    \/ r.kind \in {"follow", "unfollow"} /\ r.at > held.at
    \/ RestorePeer(r, held)

\* Only a restored ledger entry wakes what waits on it.
\* Variant that must fail: nothing but an identity wakes.
GoesOnStored_Asleep(w, r) == GoesOn(w)
GoesOnStored(w, r) == IF r.kind = "ledger" THEN Goes(w, WakingOn(Subject(r))) ELSE GoesOn(w)

MeetHeld(w) ==
    LET r == restorer[w].rec IN
    /\ restorer[w].step = "trying" /\ Met(r) /\ Standing(r) # {}
    /\ standing' = IF \E s \in Standing(r) : Replaces(r, s) THEN (standing \ Standing(r)) \cup {r}
                   ELSE standing
    /\ restored' = restored \cup {r}
    /\ GoesOnStored(w, r)
    /\ UNCHANGED <<claimedUsers, echoes, parkedRecords, inHand, reports, deaths, forgotten, mixed>>

\* Requests on one subject, or on a reed and its removal.
SameReed(r, s) == {r.kind, s.kind} = {"removal", "echo"} /\ r.id = s.id
Meets(r, s) == Subject(r) = Subject(s) \/ SameReed(r, s)

\* What the transaction sees before it writes: the removal of a reed with an
\* echo, the echo row of a reed that is removed.  An echo stands for all the
\* links restoreReedLinksTx writes.
Sees(r) ==
    CASE r.kind = "echo" -> {s \in standing : s.kind = "removal" /\ s.id = r.id}
      [] r.kind = "removal" -> {id \in echoes : id = r.id}
      [] OTHER -> {}

StartWriting(w) ==
    LET r == restorer[w].rec
        others == {v \in Restorers \ {w} :
                     restorer[v].step = "writing" /\ Meets(restorer[v].rec, r)} IN
    /\ restorer[w].step = "trying" /\ Met(r) /\ Standing(r) = {}
    /\ mixed' = mixed \cup UNION {{Subject(r), Subject(restorer[v].rec)} : v \in others}
    /\ Goes(w, Turn("writing", r, restorer[w].direct, Sees(r)))
    /\ UNCHANGED <<claimedUsers, restored, standing, echoes, parkedRecords, inHand, reports, deaths,
                   forgotten>>

\* A certificate of a pair and a peering replace any; other rows are inserted.
MayWrite(r) == Standing(r) = {} \/ r.kind \in Peerings \cup {"follow", "unfollow"}

\* restoreReedLinksTx of a reed its author does not report, dropRemovedReedLinksTx
\* Variant that must fail: an echo is kept whatever was removed.
EchoesWith_Always(r, saw) ==
    CASE r.kind = "echo" -> echoes \cup {r.id}
      [] r.kind = "removal" -> echoes \ saw
      [] OTHER -> echoes
EchoesWith(r, saw) ==
    CASE r.kind = "echo" -> IF saw = {} THEN echoes \cup {r.id} ELSE echoes
      [] r.kind = "removal" -> echoes \ saw
      [] OTHER -> echoes

Store(w) ==
    LET r == restorer[w].rec IN
    /\ restorer[w].step = "writing" /\ MayWrite(r)
    /\ standing' = (standing \ Standing(r)) \cup {r}
    /\ restored' = restored \cup {r}
    /\ echoes' = EchoesWith(r, restorer[w].saw)
    /\ GoesOnStored(w, r)
    /\ UNCHANGED <<claimedUsers, parkedRecords, inHand, reports, deaths, forgotten, mixed>>

Woken(on) == {p \in parkedRecords : p[1] = on}

Wake(w) ==
    /\ restorer[w].step = "waking"
    /\ LET woken == Woken(restorer[w].on)
           bodies == {p[2] : p \in woken} IN
       /\ parkedRecords' = parkedRecords \ woken
       /\ inHand' = [inHand EXCEPT ![w] = @ \cup bodies]
       /\ Goes(w, IF inHand[w] \cup bodies = {} THEN Idle ELSE [step |-> "next"])
    /\ UNCHANGED <<claimedUsers, restored, standing, echoes, reports, deaths, forgotten, mixed>>

\* An error ends the request: the records in hand are gone, and so is a wake
\* that was still to come.  A device retries what it reported itself.
LeftBehind(w) ==
    inHand[w] \cup (IF restorer[w].step \in {"trying", "parking", "writing"} /\ ~restorer[w].direct
                    THEN {restorer[w].rec} ELSE {})
              \cup (IF restorer[w].step = "waking"
                    THEN {p[2] : p \in Woken(restorer[w].on)} ELSE {})
RequestEnds(w) ==
    /\ forgotten' = forgotten \cup LeftBehind(w)
    /\ inHand' = [inHand EXCEPT ![w] = {}]
    /\ Goes(w, Idle)

\* Another request inserted the row first.
Conflict(w) ==
    /\ restorer[w].step = "writing" /\ ~MayWrite(restorer[w].rec)
    /\ RequestEnds(w)
    /\ UNCHANGED <<claimedUsers, restored, standing, echoes, parkedRecords, reports, deaths, mixed>>

Die(w) ==
    /\ restorer[w].step # "idle" /\ deaths < MaxDeaths
    /\ deaths' = deaths + 1
    /\ RequestEnds(w)
    /\ UNCHANGED <<claimedUsers, restored, standing, echoes, parkedRecords, reports, mixed>>

RestoreNext ==
    \E w \in Restorers :
        \/ \E r \in Records : Report(w, r) \/ ReportServers(w, r) \/ Retry(w, r)
        \/ \E u \in Identities : RestoreIdentity(w, u) \/ RestorePeerUser(w, u)
        \/ FoundWaiting(w) \/ RefuseRecord(w) \/ Park(w) \/ MeetHeld(w) \/ StartWriting(w) \/ Store(w) \/ Wake(w)
        \/ Conflict(w) \/ Die(w)

RestoreSpec == RestoreInit /\ [][RestoreNext]_restoreVars

----------------------------------------------------------------------------
(* Invariants.                                                             *)

RestoreTypeOK ==
    /\ claimedUsers \subseteq Identities
    /\ restored \subseteq Records /\ standing \subseteq restored
    /\ \A w \in Restorers :
        /\ restorer[w].step \in {"idle", "next", "trying", "parking", "writing", "waking"}
        /\ inHand[w] \subseteq Records
        /\ restorer[w].step = "idle" => inHand[w] = {}
    /\ \A p \in parkedRecords : p[2] \in Records
    /\ reports \in 0 .. MaxReports /\ deaths \in 0 .. MaxDeaths /\ forgotten \subseteq Records

\* A parked record waits for something that is still missing, or somebody is
\* about to wake it: nothing that was answered "pending" is forgotten but by a
\* request that ended early or parked too late.
NothingForgotten ==
    \A p \in parkedRecords :
        Back(p[1]) => p[2] \in forgotten \/ \E w \in Restorers : restorer[w] = WakingOn(p[1])

\* The order records come in does not show.
OrderDoesNotShow ==
    /\ \A r \in restored : r.kind = "ledger" => r.prev = 0 \/ Back(Entry(r.prev))
    /\ \A r \in restored, s \in standing : Subject(r) = Subject(s) =>
        ~Replaces(r, s) \/ Subject(s) \in mixed
    /\ \A s \in standing : s.kind = "removal" =>
        s.id \notin echoes \/ Subject(s) \in mixed

RestoresSettle == NothingForgotten /\ OrderDoesNotShow
=============================================================================
