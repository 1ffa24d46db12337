---------------------------- MODULE Server_proofs ----------------------------
(* Theorems about parts that share no state with one another, each for any *)
(* value of its constants: how two servers peer and part (Mesh), invites   *)
(* and sign-ups, vouches, flags and their cases, the requests of admins    *)
(* and the ledger, the records a rebuilt server gets back (Restore), and   *)
(* the viewers of one reed's numbers (Watching).                           *)
EXTENDS Mesh, Invites, Vouches, Flags, AdminRequests, Restore, Watching, FiniteSetTheorems, TLAPS

-----------------------------------------------------------------------------
(* Mesh: the two ends                                                      *)

\* Every peering has two ends, each the other's other.
LEMMA TwoEnds ==
    \A s \in Servers :
        /\ OtherEnd(s) \in Servers /\ OtherEnd(s) # s
        /\ OtherEnd(OtherEnd(s)) = s
        /\ \A e \in Servers : e = s \/ e = OtherEnd(s)
<1> TAKE s \in Servers
<1>1. IsFiniteSet(Servers \ {s}) /\ Cardinality(Servers \ {s}) = 1
  BY MeshAssumption, FS_RemoveElement
<1>2. PICK o : Servers \ {s} = {o}
  BY <1>1, FS_Singleton
<1>3. \A e \in Servers : e # s <=> e = o
  BY <1>2
<1>4. o \in Servers /\ o # s
  BY <1>2
<1>5. OtherEnd(s) = o
  BY <1>3, <1>4 DEF OtherEnd
<1>6. OtherEnd(o) = s
  BY <1>3, <1>4 DEF OtherEnd
<1>7. QED
  BY <1>3, <1>4, <1>5, <1>6

\* Idle is no step of an approval and no step of a pasted connection string.
LEMMA IdleStep ==
    /\ NotAtIt.step = "idle"
    /\ NoPeering.state = "none" /\ NoPeering.stagedBy = "none" /\ ~NoPeering.peerApproved
BY DEF NotAtIt, NoPeering

\* Rows and calls keep their shape.
LEMMA MeshInitTypes == MeshInit => MeshTypeOK
BY MeshAssumption DEF MeshInit, MeshTypeOK, NoPeering

PeeringRow == [state : {"none", "connected", "revoked", "purged"}, peerApproved : BOOLEAN,
               stagedBy : Clerks \cup {"none"}]
PasteCall == {NotAtIt} \cup
    [step : {"checked", "calling", "accepting"}, try : 1 .. MaxTries, id : 1 .. MaxInvites]
ApprovalCall == {NotAtIt} \cup
    [step : {"calling", "yes", "no"}, attempt : Attempt, had : BOOLEAN]

\* Rows and calls whose fields a handler sets are rows and calls again.
LEMMA RowsKept ==
    /\ \A row \in PeeringRow :
        /\ \A c \in Clerks \cup {"none"} : [row EXCEPT !.stagedBy = c] \in PeeringRow
        /\ [row EXCEPT !.state = "revoked", !.stagedBy = "none"] \in PeeringRow
        /\ [row EXCEPT !.state = "purged"] \in PeeringRow
        /\ \A b \in BOOLEAN : [row EXCEPT !.peerApproved = b] \in PeeringRow
    /\ \A p \in PasteCall : p.step # "idle" =>
        /\ p.try \in 1 .. MaxTries
        /\ [p EXCEPT !.step = "calling"] \in PasteCall
        /\ [p EXCEPT !.step = "accepting"] \in PasteCall
    /\ \A p \in ApprovalCall : p.step # "idle" =>
        /\ p.attempt \in Attempt /\ p.had \in BOOLEAN
        /\ \A b \in BOOLEAN, y \in {"yes", "no"} :
                [p EXCEPT !.step = y, !.had = b] \in ApprovalCall
BY IdleStep DEF PeeringRow, PasteCall, ApprovalCall

\* Every handler keeps the shape of the rows and calls.
LEMMA MeshNextTypes == MeshTypeOK /\ [MeshNext]_meshVars => MeshTypeOK'
<1> SUFFICES ASSUME MeshTypeOK, MeshNext PROVE MeshTypeOK'
  BY DEF MeshTypeOK, meshVars, meshLogs
<1> USE MeshAssumption, TwoEnds DEF meshLogs
<1>1. PICK s \in Servers :
    \/ \E c \in Openers : MeshInvite(s, c) \/ StageDisconnect(s, c)
    \/ \E c \in Clerks :
        \/ ConfirmDisconnect(s, c)
        \/ \E a \in attempts[s] : ApproveBegin(s, c, a)
    \/ CancelInvite(s) \/ PasteCheck(s) \/ PasteInsert(s)
    \/ ConnectCheck(s) \/ ConnectAccept(s) \/ ConnectFails(s)
    \/ \E a \in attempts[s] : RejectAttempt(s, a)
    \/ ApproveTold(s) \/ ApproveCommit(s) \/ ApproveFailed(s)
    \/ MeshTalk(s) \/ MailRead(s) \/ MailCommit(s)
    \/ CancelDisconnect(s) \/ DisconnectTold(s) \/ DisconnectUntold(s) \/ PurgePeer(s)
  BY DEF MeshNext
<1> DEFINE o == OtherEnd(s)
<1>2. /\ peering[s] \in PeeringRow /\ peering[o] \in PeeringRow
      /\ paste[s] \in PasteCall /\ approving[s] \in ApprovalCall
  BY DEF MeshTypeOK, PeeringRow, PasteCall, ApprovalCall
<1>3. ASSUME NEW e \in Servers, NEW row \in PeeringRow, peering' = [peering EXCEPT ![e] = row]
      PROVE  peering' \in [Servers -> PeeringRow]
  BY <1>3 DEF MeshTypeOK, PeeringRow
<1>4. ASSUME NEW e \in Servers, RevokePeer(e)
      PROVE  /\ peering' \in [Servers -> PeeringRow]
             /\ owing' \in [Servers -> BOOLEAN] /\ slipped' \subseteq Servers
  <2>1. [peering[e] EXCEPT !.state = "revoked", !.stagedBy = "none"] \in PeeringRow
    <3>1. peering[e] \in PeeringRow
      BY DEF MeshTypeOK, PeeringRow
    <3>2. QED
      BY <3>1, RowsKept
  <2>2. peering' \in [Servers -> PeeringRow]
    BY <1>3, <1>4, <2>1 DEF RevokePeer, Signs
  <2>3. QED
    BY <1>4, <2>2 DEF MeshTypeOK, RevokePeer
<1>5. ASSUME NEW e \in Servers, NEW p \in PasteCall, paste' = [paste EXCEPT ![e] = p]
      PROVE  paste' \in [Servers -> PasteCall]
  BY <1>5 DEF MeshTypeOK, PasteCall
<1>6. ASSUME NEW c \in Openers, MeshInvite(s, c) PROVE MeshTypeOK'
  BY <1>6 DEF MeshTypeOK, MeshInvite, MayInvite
<1>7. ASSUME NEW c \in Openers, StageDisconnect(s, c) PROVE MeshTypeOK'
  <2>1. peering' \in [Servers -> PeeringRow]
    BY <1>2, <1>3, <1>7, RowsKept DEF StageDisconnect, Stages, Signs
  <2>2. QED
    BY <1>7, <2>1 DEF MeshTypeOK, StageDisconnect, PeeringRow
<1>8. ASSUME NEW c \in Clerks, ConfirmDisconnect(s, c) PROVE MeshTypeOK'
  BY <1>4, <1>8 DEF MeshTypeOK, ConfirmDisconnect, Confirms, PeeringRow
<1>9. ASSUME NEW c \in Clerks, NEW a \in attempts[s], ApproveBegin(s, c, a) PROVE MeshTypeOK'
  BY <1>9 DEF MeshTypeOK, ApproveBegin
<1>10. CASE CancelInvite(s)
  BY <1>10 DEF MeshTypeOK, CancelInvite
<1>11. CASE PasteCheck(s)
  BY <1>11 DEF MeshTypeOK, PasteCheck
<1>12. CASE PasteInsert(s)
  <2>1. paste' \in [Servers -> PasteCall]
    BY <1>2, <1>5, <1>12, RowsKept DEF PasteInsert
  <2>2. [id |-> paste[s].try, inviter |-> "none"] \in Attempt
    BY <1>2, <1>12, RowsKept DEF PasteInsert, Attempt
  <2>3. QED
    BY <1>12, <2>1, <2>2 DEF MeshTypeOK, PasteInsert, PasteCall
<1>13. CASE ConnectCheck(s)
  <2>1. paste' \in [Servers -> PasteCall]
    BY <1>2, <1>5, <1>13, RowsKept DEF ConnectCheck
  <2>2. QED
    BY <1>13, <2>1 DEF MeshTypeOK, ConnectCheck, PasteCall
<1>14. CASE ConnectAccept(s)
  <2>1. [id |-> paste[s].try, inviter |-> invitation[o].by] \in Attempt
    BY <1>2, <1>14, RowsKept DEF ConnectAccept, Attempt, MeshTypeOK
  <2>2. attempts' \in [Servers -> SUBSET Attempt]
    BY <1>14, <2>1 DEF MeshTypeOK, ConnectAccept
  <2>3. paste' \in [Servers -> PasteCall]
    BY <1>14 DEF MeshTypeOK, ConnectAccept, PasteCall
  <2>4. QED
    BY <1>14, <2>2, <2>3, SMTT(30) DEF MeshTypeOK, ConnectAccept, PasteCall
<1>15. CASE ConnectFails(s)
  BY <1>15 DEF MeshTypeOK, ConnectFails
<1>16. ASSUME NEW a \in attempts[s], RejectAttempt(s, a) PROVE MeshTypeOK'
  BY <1>16 DEF MeshTypeOK, RejectAttempt, Decided
<1>17. CASE ApproveTold(s)
  <2>1. /\ Connected(o) \in BOOLEAN /\ (peering[o].peerApproved \/ Connected(o)) \in BOOLEAN
        /\ approving[s].step # "idle"
    BY <1>2, <1>17 DEF ApproveTold, Connected, PeeringRow
  <2>2. [approving[s] EXCEPT !.step = IF Connected(o) THEN "yes" ELSE "no",
                             !.had = Connected(o)] \in ApprovalCall
    BY <1>2, <2>1, RowsKept
  <2>3. approving' \in [Servers -> ApprovalCall]
    BY <1>17, <2>2 DEF ApproveTold, MeshTypeOK, ApprovalCall
  <2>4. peering' \in [Servers -> PeeringRow]
    BY <1>2, <1>3, <1>17, <2>1, RowsKept DEF ApproveTold
  <2>5. QED
    BY <1>17, <2>3, <2>4 DEF MeshTypeOK, ApproveTold, ApprovalCall, PeeringRow
<1>18. CASE ApproveCommit(s)
  <2>1. [state |-> "connected", stagedBy |-> "none", peerApproved |-> approving[s].step = "yes"]
            \in PeeringRow
    BY DEF PeeringRow
  <2>2. peering' \in [Servers -> PeeringRow]
    BY <1>3, <1>18, <2>1 DEF ApproveCommit
  <2>3. approving[s].had \in BOOLEAN /\ \A e \in Servers : Connected(e) \in BOOLEAN
    BY <1>2, <1>18, IdleStep, RowsKept DEF ApproveCommit, Connected
  <2>4. met' \in [Servers -> BOOLEAN]
    BY <1>18, <2>3 DEF ApproveCommit, MeshTypeOK
  <2>5. approving' \in [Servers -> ApprovalCall] /\ attempts' \in [Servers -> SUBSET Attempt]
    BY <1>18 DEF ApproveCommit, MeshTypeOK, ApprovalCall
  <2>6. unheard' \subseteq Servers
    BY <1>18 DEF ApproveCommit, MeshTypeOK
  <2>7. QED
    BY <1>18, <2>2, <2>4, <2>5, <2>6 DEF MeshTypeOK, ApproveCommit, ApprovalCall, PeeringRow
<1>19. CASE ApproveFailed(s)
  BY <1>19 DEF MeshTypeOK, ApproveFailed
<1>20. CASE MeshTalk(s)
  <2>1. peering' \in [Servers -> PeeringRow]
    BY <1>2, <1>3, <1>20, RowsKept DEF MeshTalk
  <2>2. QED
    BY <1>20, <2>1 DEF MeshTypeOK, MeshTalk, PeeringRow
<1>21. CASE MailRead(s) \/ MailCommit(s)
  BY <1>21, ZenonT(40) DEF MeshTypeOK, MailRead, MailCommit
<1>22. CASE CancelDisconnect(s)
  BY <1>22, SMTT(30) DEF MeshTypeOK, CancelDisconnect, Unstages, Signs
<1>23. CASE DisconnectTold(s)
  BY <1>4, <1>23 DEF MeshTypeOK, DisconnectTold, PeeringRow
<1>24. CASE DisconnectUntold(s)
  BY <1>24 DEF MeshTypeOK, DisconnectUntold
<1>25. CASE PurgePeer(s)
  <2>1. peering' \in [Servers -> PeeringRow]
    BY <1>2, <1>3, <1>25, RowsKept DEF PurgePeer, Purges, Signs
  <2>2. QED
    BY <1>25, <2>1 DEF MeshTypeOK, PurgePeer, Purges, PeeringRow
<1>26. QED
  BY <1>1, <1>6, <1>7, <1>8, <1>9, <1>10, <1>11, <1>12, <1>13, <1>14, <1>15, <1>16, <1>17,
     <1>18, <1>19, <1>20, <1>21, <1>22, <1>23, <1>24, <1>25

-----------------------------------------------------------------------------
(* Mesh: one handshake, one account of the peering                         *)

\* Of servers where no two handshakes were checked at once: what is checked and
\* not recorded yet finds a peer that nobody else has let in.
OneHandshake ==
    \A s \in Servers \ doubled :
        /\ \A a, b \in attempts[s] : a = b
        /\ attempts[s] # {} => peering[s].state \in {"none", "purged"}
        /\ paste[s].step = "checked" => ~KnownPeer(s) /\ ~Accepting(s)
        /\ Accepting(s) => ~KnownPeer(s)

\* An approval under way has locked the attempt that it decides.
AttemptLocked ==
    \A s \in Servers : RowLocked(s) => approving[s].attempt \in attempts[s]

\* Only a peering that stands has a disconnect staged or a write under way.
RowsStand ==
    \A s \in Servers :
        /\ peering[s].stagedBy # "none" => Connected(s)
        /\ s \notin slipped => (writing[s] => Connected(s))
        /\ s \notin slipped => (peering[s].state \in {"revoked", "purged"} => ~owing[s])

\* What each server knows of the other's approval is so.
ApprovalsKnown ==
    \A s \in Servers :
        /\ approving[s].step = "yes" => approving[s].had
        /\ Connected(s) /\ Connected(OtherEnd(s)) => met[s]
        /\ Connected(s) /\ peering[s].peerApproved /\ s \notin unsaid =>
              met[s] \/ approving[OtherEnd(s)].step = "yes"

\* Whoever has parted from a server that counts on it has a notice on its way
\* there, or is about to approve it anew; and who has sent a notice has parted.
PartingsTold ==
    \A s \in Servers :
        /\ /\ peering[s].state \in {"revoked", "purged"}
           /\ Connected(OtherEnd(s)) /\ peering[OtherEnd(s)].peerApproved
           /\ OtherEnd(s) \notin unheard \cup unsaid
           => notice[s] \/ approving[s].step = "yes"
        /\ notice[s] /\ s \notin unheard => peering[s].state \in {"revoked", "purged"}

MeshInv == MeshTypeOK /\ OneHandshake /\ AttemptLocked /\ RowsStand /\ ApprovalsKnown /\ PartingsTold

\* It holds before the first invitation.
LEMMA MeshInitInv == MeshInit => MeshInv
<1> SUFFICES ASSUME MeshInit PROVE MeshInv
  OBVIOUS
<1>1. \A s \in Servers : Connected(s) = FALSE /\ ~RowLocked(s) /\ ~Accepting(s) /\ ~KnownPeer(s)
  BY TwoEnds, IdleStep DEF MeshInit, Connected, RowLocked, Accepting, KnownPeer
<1>2. QED
  BY <1>1, MeshInitTypes, TwoEnds, IdleStep
     DEF MeshInit, MeshInv, OneHandshake, AttemptLocked, RowsStand, ApprovalsKnown, PartingsTold

\* The handlers of one server, as MeshNext lists them.
MeshStep(s) ==
    \/ \E c \in Openers : MeshInvite(s, c) \/ StageDisconnect(s, c)
    \/ \E c \in Clerks :
        \/ ConfirmDisconnect(s, c)
        \/ \E a \in attempts[s] : ApproveBegin(s, c, a)
    \/ CancelInvite(s) \/ PasteCheck(s) \/ PasteInsert(s)
    \/ ConnectCheck(s) \/ ConnectAccept(s) \/ ConnectFails(s)
    \/ \E a \in attempts[s] : RejectAttempt(s, a)
    \/ ApproveTold(s) \/ ApproveCommit(s) \/ ApproveFailed(s)
    \/ MeshTalk(s) \/ MailRead(s) \/ MailCommit(s)
    \/ CancelDisconnect(s) \/ DisconnectTold(s) \/ DisconnectUntold(s) \/ PurgePeer(s)

\* How the state of a peering moves: only an approval's commit connects it, only
\* a disconnect revokes it, only a purge ends it.
Moves(e) ==
    \/ peering'[e].state = peering[e].state
    \/ peering[e].state = "connected" /\ peering'[e].state = "revoked"
    \/ peering[e].state = "revoked" /\ peering'[e].state = "purged"
LEMMA StatesMove ==
    ASSUME MeshInv, NEW s \in Servers, MeshStep(s), ~ApproveCommit(s)
    PROVE  \A e \in Servers : Moves(e)
<1> TAKE e \in Servers
<1> USE TwoEnds DEF MeshInv
<1> DEFINE o == OtherEnd(s)
<1>1. ASSUME NEW c \in Openers, StageDisconnect(s, c) PROVE Moves(e)
  BY <1>1 DEF MeshTypeOK, Moves, StageDisconnect, Stages, Signs
<1>2. ASSUME NEW x \in Servers, RevokePeer(x), Connected(x) PROVE Moves(e)
  BY <1>2 DEF MeshTypeOK, Moves, RevokePeer, Signs, Connected
<1>3. CASE ApproveTold(s)
  BY <1>3 DEF MeshTypeOK, Moves, ApproveTold
<1>4. CASE MeshTalk(s)
  BY <1>4 DEF MeshTypeOK, Moves, MeshTalk
<1>5. CASE CancelDisconnect(s)
  BY <1>5 DEF MeshTypeOK, Moves, CancelDisconnect, Unstages, Signs
<1>6. CASE PurgePeer(s)
  BY <1>6 DEF MeshTypeOK, Moves, PurgePeer, Purges, Signs
<1>7. CASE \E c \in Clerks : ConfirmDisconnect(s, c)
  BY <1>2, <1>7 DEF RowsStand, ConfirmDisconnect, Confirms
<1>8. CASE DisconnectTold(s)
  BY <1>2, <1>8 DEF DisconnectTold
<1>9. CASE UNCHANGED peering
  BY <1>9 DEF Moves
<1>10. QED
  BY <1>1, <1>3, <1>4, <1>5, <1>6, <1>7, <1>8, <1>9
     DEF MeshStep, MeshInvite, CancelInvite, PasteCheck, PasteInsert, ConnectCheck, ConnectAccept,
         ConnectFails, RejectAttempt, ApproveBegin, ApproveFailed, MailRead, MailCommit,
         DisconnectUntold

\* Steps that leave the handshakes alone, or find fewer, keep them one.
LEMMA HandshakesLeft ==
    ASSUME MeshInv, \A e \in Servers : Moves(e), paste' = paste, doubled' = doubled,
           \A e \in Servers : attempts'[e] \subseteq attempts[e]
    PROVE  OneHandshake'
<1> USE TwoEnds
<1> SUFFICES ASSUME NEW e \in Servers \ doubled
             PROVE  /\ \A a, b \in attempts'[e] : a = b
                    /\ attempts'[e] # {} => peering'[e].state \in {"none", "purged"}
                    /\ paste[e].step = "checked" => ~KnownPeer(e)' /\ ~Accepting(e)'
                    /\ Accepting(e)' => ~KnownPeer(e)'
  BY DEF OneHandshake
<1>1. Accepting(e)' <=> Accepting(e)
  BY DEF Accepting, OtherEnd
<1>2. KnownPeer(e)' => KnownPeer(e)
  BY DEF Moves, KnownPeer
<1>3. QED
  BY <1>1, <1>2 DEF MeshInv, OneHandshake, Moves

\* A handshake stays the only one: what a paste or a callback checks first
\* still holds when it records its attempt (rejectKnownFederationPeer).
LEMMA OneHandshakeKept ==
    ASSUME MeshInv, NEW s \in Servers, MeshStep(s)
    PROVE  OneHandshake'
<1> USE TwoEnds, IdleStep
<1> DEFINE o == OtherEnd(s)
<1> DEFINE One(e) ==
        /\ \A a, b \in attempts'[e] : a = b
        /\ attempts'[e] # {} => peering'[e].state \in {"none", "purged"}
        /\ paste'[e].step = "checked" => ~KnownPeer(e)' /\ ~Accepting(e)'
        /\ Accepting(e)' => ~KnownPeer(e)'
<1>0. ASSUME \A e \in Servers \ doubled' : One(e) PROVE OneHandshake'
  BY <1>0 DEF OneHandshake
<1>1. CASE PasteCheck(s)
  <2>1. Accepting(s)' = Accepting(s) /\ Accepting(o)' = FALSE
    BY <1>1 DEF Accepting, PasteCheck, OtherEnd, MeshInv, MeshTypeOK
  <2>2. \A e \in Servers : KnownPeer(e)' = KnownPeer(e)
    BY <1>1 DEF KnownPeer, PasteCheck
  <2>3. \A e \in Servers \ doubled' : One(e)
    BY <1>1, <2>1, <2>2 DEF PasteCheck, MeshInv, OneHandshake, MeshTypeOK
  <2>4. QED
    BY <1>0, <2>3
<1>2. CASE PasteInsert(s)
  <2>1. /\ paste'[s].step = "calling" /\ paste'[o] = paste[o]
        /\ attempts'[s] = attempts[s] \cup {[id |-> paste[s].try, inviter |-> "none"]}
        /\ attempts'[o] = attempts[o]
    BY <1>2 DEF PasteInsert, MeshInv, MeshTypeOK
  <2>2. Accepting(s)' = Accepting(s) /\ Accepting(o)' = FALSE
    BY <2>1 DEF Accepting, OtherEnd
  <2>3. s \notin doubled => attempts[s] = {} /\ peering[s].state \in {"none", "purged"}
    BY <1>2 DEF PasteInsert, MeshInv, OneHandshake, KnownPeer, MeshTypeOK
  <2>4. KnownPeer(o)' = KnownPeer(o)
    BY <1>2, <2>1 DEF PasteInsert, KnownPeer
  <2>5. s \notin doubled => One(s)
    BY <1>2, <2>1, <2>2, <2>3 DEF PasteInsert, MeshInv, OneHandshake
  <2>6. o \notin doubled => One(o)
    BY <1>2, <2>1, <2>2, <2>4 DEF PasteInsert, MeshInv, OneHandshake
  <2>7. QED
    BY <1>0, <1>2, <2>5, <2>6 DEF PasteInsert, meshLogs
<1>3. CASE ConnectCheck(s)
  <2>1. /\ paste'[s].step = "accepting" /\ paste'[o] = paste[o]
        /\ \A e \in Servers : KnownPeer(e)' = KnownPeer(e)
    BY <1>3 DEF ConnectCheck, MeshInv, MeshTypeOK, KnownPeer
  <2>2. Accepting(s)' = Accepting(s) /\ Accepting(o)' = TRUE /\ ~KnownPeer(o)
    BY <1>3, <2>1 DEF Accepting, OtherEnd, ConnectCheck
  <2>3. s \notin doubled => One(s)
    BY <1>3, <2>1, <2>2 DEF ConnectCheck, MeshInv, OneHandshake
  <2>4. o \notin doubled' => One(o)
    BY <1>3, <2>1, <2>2 DEF ConnectCheck, MeshInv, OneHandshake
  <2>5. QED
    BY <1>0, <1>3, <2>3, <2>4 DEF ConnectCheck
<1>4. CASE ConnectAccept(s)
  <2>1. /\ paste'[s].step = "idle" /\ paste'[o] = paste[o]
        /\ attempts'[o] = attempts[o] \cup {[id |-> paste[s].try, inviter |-> invitation[o].by]}
        /\ attempts'[s] = attempts[s]
    BY <1>4 DEF ConnectAccept, MeshInv, MeshTypeOK
  <2>2. Accepting(s)' = Accepting(s) /\ Accepting(o)' = FALSE /\ Accepting(o)
    BY <1>4, <2>1 DEF Accepting, OtherEnd, ConnectAccept
  <2>3. o \notin doubled => attempts[o] = {} /\ peering[o].state \in {"none", "purged"}
    BY <2>2 DEF MeshInv, OneHandshake, KnownPeer, MeshTypeOK
  <2>4. KnownPeer(s)' = KnownPeer(s)
    BY <1>4, <2>1 DEF ConnectAccept, KnownPeer
  <2>5. o \notin doubled => One(o)
    BY <1>4, <2>1, <2>2, <2>3 DEF ConnectAccept, MeshInv, OneHandshake
  <2>6. s \notin doubled => One(s)
    BY <1>4, <2>1, <2>2, <2>4 DEF ConnectAccept, MeshInv, OneHandshake
  <2>7. QED
    BY <1>0, <1>4, <2>5, <2>6 DEF ConnectAccept, meshLogs
<1>5. CASE ConnectFails(s)
  <2>1. /\ paste'[s].step = "idle" /\ paste'[o] = paste[o]
        /\ \A e \in Servers : KnownPeer(e)' = KnownPeer(e)
    BY <1>5 DEF ConnectFails, MeshInv, MeshTypeOK, KnownPeer
  <2>2. Accepting(s)' = Accepting(s) /\ Accepting(o)' = FALSE
    BY <2>1 DEF Accepting, OtherEnd
  <2>3. \A e \in Servers \ doubled : One(e)
    BY <1>5, <2>1, <2>2 DEF ConnectFails, MeshInv, OneHandshake
  <2>4. QED
    BY <1>0, <1>5, <2>3 DEF ConnectFails, meshLogs
<1>6. CASE ApproveCommit(s)
  <2>1. /\ attempts'[s] = attempts[s] \ {approving[s].attempt} /\ attempts'[o] = attempts[o]
        /\ peering'[s].state = "connected" /\ peering'[o] = peering[o]
        /\ paste' = paste /\ doubled' = doubled
    BY <1>6 DEF ApproveCommit, MeshInv, MeshTypeOK
  <2>2. \A e \in Servers : Accepting(e)' = Accepting(e)
    BY <2>1 DEF Accepting, OtherEnd
  <2>3. approving[s].attempt \in attempts[s]
    BY <1>6 DEF MeshInv, AttemptLocked, RowLocked, ApproveCommit
  <2>4. s \notin doubled => attempts'[s] = {}
    BY <2>1, <2>3 DEF MeshInv, OneHandshake
  <2>5. KnownPeer(s) /\ KnownPeer(o)' = KnownPeer(o)
    BY <2>1, <2>3 DEF KnownPeer
  <2>6. s \notin doubled => One(s)
    BY <2>1, <2>2, <2>4, <2>5 DEF MeshInv, OneHandshake
  <2>7. o \notin doubled => One(o)
    BY <2>1, <2>2, <2>5 DEF MeshInv, OneHandshake
  <2>8. QED
    BY <1>0, <2>1, <2>6, <2>7
<1>7. CASE paste' = paste /\ doubled' = doubled /\ \A e \in Servers : attempts'[e] \subseteq attempts[e]
  <2>1. CASE ApproveCommit(s)
    BY <1>6, <2>1
  <2>2. CASE ~ApproveCommit(s)
    BY <1>7, <2>2, StatesMove, HandshakesLeft
  <2>3. QED
    BY <2>1, <2>2
<1>8. QED
  <2>1. ASSUME NEW a \in attempts[s], RejectAttempt(s, a)
        PROVE  paste' = paste /\ doubled' = doubled
               /\ \A e \in Servers : attempts'[e] \subseteq attempts[e]
    BY <2>1 DEF RejectAttempt, Decided, meshLogs, MeshInv, MeshTypeOK
  <2>2. QED
    BY <1>1, <1>2, <1>3, <1>4, <1>5, <1>6, <1>7, <2>1
       DEF MeshStep, MeshInvite, StageDisconnect, ConfirmDisconnect, ApproveBegin, CancelInvite,
           ApproveTold, ApproveFailed, MeshTalk, MailRead, MailCommit, CancelDisconnect,
           DisconnectTold, DisconnectUntold, PurgePeer, meshLogs

\* An attempt stays while its approval is under way.
LEMMA AttemptLockedKept ==
    ASSUME MeshInv, NEW s \in Servers, MeshStep(s)
    PROVE  AttemptLocked'
<1> USE TwoEnds, IdleStep DEF MeshInv
<1> DEFINE o == OtherEnd(s)
<1>1. ASSUME \A e \in Servers : attempts[e] \subseteq attempts'[e], approving' = approving
      PROVE  AttemptLocked'
  BY <1>1 DEF AttemptLocked, RowLocked
<1>2. CASE PasteInsert(s)
  BY <1>1, <1>2 DEF PasteInsert, MeshTypeOK
<1>3. CASE ConnectAccept(s)
  BY <1>1, <1>3 DEF ConnectAccept, MeshTypeOK
<1>4. ASSUME NEW a \in attempts[s], RejectAttempt(s, a) PROVE AttemptLocked'
  BY <1>4 DEF RejectAttempt, Decided, AttemptLocked, RowLocked, MeshTypeOK
<1>5. ASSUME NEW c \in Clerks, NEW a \in attempts[s], ApproveBegin(s, c, a) PROVE AttemptLocked'
  BY <1>5 DEF ApproveBegin, AttemptLocked, RowLocked, MeshTypeOK
<1>6. CASE ApproveTold(s)
  <2>1. RowLocked(s) /\ approving'[s].attempt = approving[s].attempt /\ approving'[o] = approving[o]
    BY <1>6 DEF ApproveTold, MeshTypeOK, RowLocked
  <2>2. QED
    BY <1>6, <2>1 DEF ApproveTold, AttemptLocked, RowLocked
<1>7. CASE ApproveCommit(s)
  <2>1. approving'[s] = NotAtIt /\ approving'[o] = approving[o] /\ attempts'[o] = attempts[o]
    BY <1>7 DEF ApproveCommit, MeshTypeOK
  <2>2. QED
    BY <2>1 DEF AttemptLocked, RowLocked
<1>8. CASE ApproveFailed(s)
  BY <1>8 DEF ApproveFailed, AttemptLocked, RowLocked, MeshTypeOK
<1>9. CASE attempts' = attempts /\ approving' = approving
  BY <1>1, <1>9
<1>10. QED
  BY <1>2, <1>3, <1>4, <1>5, <1>6, <1>7, <1>8, <1>9
     DEF MeshStep, MeshInvite, StageDisconnect, ConfirmDisconnect, CancelInvite, PasteCheck,
         ConnectCheck, ConnectFails, MeshTalk, MailRead, MailCommit, CancelDisconnect,
         DisconnectTold, DisconnectUntold, PurgePeer

\* Disconnecting takes the queue and the staged request with the peering
\* (revokeFederationServerTx), save what a write still means to add.
LEMMA RowsStandKept ==
    ASSUME MeshInv, NEW s \in Servers, MeshStep(s)
    PROVE  RowsStand'
<1> USE TwoEnds, IdleStep DEF MeshInv
<1> DEFINE o == OtherEnd(s)
<1> DEFINE Stands(e) ==
        /\ peering'[e].stagedBy # "none" => Connected(e)'
        /\ e \notin slipped' => (writing'[e] => Connected(e)')
        /\ e \notin slipped' => (peering'[e].state \in {"revoked", "purged"} => ~owing'[e])
<1>0. ASSUME \A e \in Servers : Stands(e) PROVE RowsStand'
  BY <1>0 DEF RowsStand
<1>1. ASSUME NEW e \in Servers, peering'[e] = peering[e], writing'[e] = writing[e],
             owing'[e] => owing[e], slipped \subseteq slipped'
      PROVE  Stands(e)
  BY <1>1 DEF RowsStand, Connected
<1>2. ASSUME NEW e \in Servers, RevokePeer(e), writing' = writing PROVE RowsStand'
  <2>1. /\ peering'[e].state = "revoked" /\ peering'[e].stagedBy = "none" /\ ~owing'[e]
        /\ \A x \in Servers : x # e => peering'[x] = peering[x] /\ owing'[x] = owing[x]
        /\ writing[e] => e \in slipped'
        /\ slipped \subseteq slipped'
    BY <1>2 DEF RevokePeer, Signs, MeshTypeOK
  <2>2. Stands(e)
    BY <1>2, <2>1
  <2>3. QED
    BY <1>0, <1>1, <1>2, <2>1, <2>2
<1>3. ASSUME NEW c \in Openers, StageDisconnect(s, c) PROVE RowsStand'
  <2>1. /\ peering'[s].state = "connected" /\ peering'[o] = peering[o]
        /\ writing' = writing /\ owing' = owing /\ slipped' = slipped
    BY <1>3 DEF StageDisconnect, Stages, Signs, Connected, MeshTypeOK, meshLogs
  <2>2. QED
    BY <1>0, <1>1, <2>1 DEF Connected, RowsStand
<1>4. ASSUME NEW c \in Clerks, ConfirmDisconnect(s, c) PROVE RowsStand'
  BY <1>2, <1>4 DEF ConfirmDisconnect, Confirms
<1>5. CASE ApproveTold(s)
  <2>1. /\ peering'[o].state = peering[o].state /\ peering'[o].stagedBy = peering[o].stagedBy
        /\ peering'[s] = peering[s]
        /\ writing' = writing /\ owing' = owing /\ slipped' = slipped
    BY <1>5 DEF ApproveTold, MeshTypeOK, meshLogs
  <2>2. QED
    BY <1>0, <1>1, <2>1 DEF Connected, RowsStand
<1>6. CASE ApproveCommit(s)
  <2>1. /\ peering'[s].state = "connected" /\ peering'[o] = peering[o]
        /\ writing' = writing /\ owing' = owing /\ slipped' = slipped
    BY <1>6 DEF ApproveCommit, MeshTypeOK
  <2>2. QED
    BY <1>0, <1>1, <2>1 DEF Connected
<1>7. CASE MeshTalk(s)
  <2>1. /\ peering'[o].state = peering[o].state /\ peering'[o].stagedBy = peering[o].stagedBy
        /\ peering'[s] = peering[s]
    BY <1>7 DEF MeshTalk, MeshTypeOK
  <2>2. writing' = writing /\ owing'[o] = owing[o] /\ ~owing'[s] /\ slipped' = slipped
    BY <1>7 DEF MeshTalk, MeshTypeOK, meshLogs
  <2>3. QED
    BY <1>0, <1>1, <2>1, <2>2 DEF Connected, RowsStand
<1>8. CASE MailRead(s)
  <2>1. /\ Connected(s) /\ peering' = peering /\ writing'[o] = writing[o]
        /\ owing' = owing /\ slipped' = slipped
    BY <1>8 DEF MailRead, MeshTypeOK, meshLogs
  <2>2. QED
    BY <1>0, <1>1, <2>1 DEF Connected, RowsStand
<1>9. CASE MailCommit(s)
  <2>1. /\ writing[s] /\ ~writing'[s] /\ peering' = peering /\ writing'[o] = writing[o]
        /\ owing'[o] = owing[o] /\ slipped' = slipped
    BY <1>9 DEF MailCommit, MeshTypeOK, meshLogs
  <2>2. QED
    BY <1>0, <1>1, <2>1 DEF Connected, RowsStand
<1>10. CASE CancelDisconnect(s)
  <2>1. /\ peering'[s].state = peering[s].state /\ peering'[s].stagedBy = "none"
        /\ peering'[o] = peering[o]
        /\ writing' = writing /\ owing' = owing /\ slipped' = slipped
    BY <1>10 DEF CancelDisconnect, Unstages, Signs, MeshTypeOK, meshLogs
  <2>2. QED
    BY <1>0, <1>1, <2>1 DEF Connected, RowsStand
<1>11. CASE DisconnectTold(s)
  BY <1>2, <1>11 DEF DisconnectTold
<1>12. CASE PurgePeer(s)
  <2>1. /\ peering[s].state = "revoked" /\ peering'[s].state = "purged"
        /\ peering'[s].stagedBy = peering[s].stagedBy
        /\ peering'[o] = peering[o]
    BY <1>12 DEF PurgePeer, Purges, Signs, MeshTypeOK
  <2>2. ~owing'[s] /\ owing'[o] = owing[o] /\ writing' = writing /\ slipped' = slipped
    BY <1>12 DEF PurgePeer, Purges, MeshTypeOK, meshLogs
  <2>3. QED
    BY <1>0, <1>1, <2>1, <2>2 DEF Connected, RowsStand
<1>13. CASE peering' = peering /\ writing' = writing /\ owing' = owing /\ slipped' = slipped
  BY <1>0, <1>1, <1>13
<1>14. QED
  BY <1>3, <1>4, <1>5, <1>6, <1>7, <1>8, <1>9, <1>10, <1>11, <1>12, <1>13
     DEF MeshStep, MeshInvite, CancelInvite, PasteCheck, PasteInsert, ConnectCheck, ConnectAccept,
         ConnectFails, RejectAttempt, Decided, ApproveBegin, ApproveFailed, DisconnectUntold, meshLogs

\* What is known of the peer's approval stays so: it is told before it commits,
\* and the commit finds the peer's own (recordPeerApproval).
LEMMA ApprovalsKnownKept ==
    ASSUME MeshInv, NEW s \in Servers, MeshStep(s)
    PROVE  ApprovalsKnown'
<1> USE TwoEnds, IdleStep DEF MeshInv
<1> DEFINE o == OtherEnd(s)
<1> DEFINE Known(e, x) ==
        /\ approving'[e].step = "yes" => approving'[e].had
        /\ Connected(e)' /\ Connected(x)' => met'[e]
        /\ Connected(e)' /\ peering'[e].peerApproved /\ e \notin unsaid' =>
              met'[e] \/ approving'[x].step = "yes"
<1>0. ASSUME Known(s, o), Known(o, s) PROVE ApprovalsKnown'
  <2>1. \A e \in Servers : Known(e, OtherEnd(e))
    BY <1>0
  <2>2. \A e \in Servers : OtherEnd(e)' = OtherEnd(e)
    BY DEF OtherEnd
  <2>3. QED
    BY <2>1, <2>2 DEF ApprovalsKnown
<1>1. ASSUME \A e \in Servers : Connected(e)' => Connected(e),
             \A e \in Servers : peering'[e].peerApproved => peering[e].peerApproved,
             approving' = approving, met' = met, unsaid \subseteq unsaid'
      PROVE  ApprovalsKnown'
  <2>1. Known(s, o) /\ Known(o, s)
    BY <1>1 DEF ApprovalsKnown
  <2>2. QED
    BY <1>0, <2>1
<1>2. ASSUME NEW e \in Servers, RevokePeer(e), approving' = approving, met' = met, unsaid' = unsaid
      PROVE  ApprovalsKnown'
  <2>1. \A x \in Servers :
            (Connected(x)' => Connected(x)) /\ peering'[x].peerApproved = peering[x].peerApproved
    BY <1>2 DEF RevokePeer, Signs, Connected, MeshTypeOK
  <2>2. QED
    BY <1>1, <1>2, <2>1
<1>3. ASSUME NEW c \in Openers, StageDisconnect(s, c) PROVE ApprovalsKnown'
  <2>1. \A x \in Servers :
            (Connected(x)' => Connected(x)) /\ peering'[x].peerApproved = peering[x].peerApproved
    BY <1>3 DEF StageDisconnect, Stages, Signs, Connected, MeshTypeOK
  <2>2. QED
    BY <1>1, <1>3, <2>1 DEF StageDisconnect, meshLogs
<1>4. ASSUME NEW c \in Clerks, ConfirmDisconnect(s, c) PROVE ApprovalsKnown'
  BY <1>2, <1>4 DEF ConfirmDisconnect, Confirms
<1>5. ASSUME NEW c \in Clerks, NEW a \in attempts[s], ApproveBegin(s, c, a) PROVE ApprovalsKnown'
  <2>1. /\ approving[s].step = "idle" /\ approving'[s].step = "calling"
        /\ approving'[o] = approving[o]
        /\ peering' = peering /\ met' = met /\ unsaid' = unsaid
    BY <1>5 DEF ApproveBegin, RowLocked, meshLogs, MeshTypeOK
  <2>2. Known(s, o) /\ Known(o, s)
    BY <2>1 DEF ApprovalsKnown, Connected
  <2>3. QED
    BY <1>0, <2>2
<1>6. CASE ApproveTold(s)
  <2>1. /\ approving'[s].step = "yes" <=> Connected(o)
        /\ approving'[s].had = Connected(o) /\ approving[s].step = "calling"
        /\ approving'[o] = approving[o]
    BY <1>6 DEF ApproveTold, MeshTypeOK, Connected
  <2>2. /\ peering'[s] = peering[s] /\ peering'[o].state = peering[o].state
        /\ peering'[o].peerApproved = (peering[o].peerApproved \/ Connected(o))
    <3>1. /\ peering'[s] = peering[s]
          /\ peering'[o] = [peering[o] EXCEPT !.peerApproved = @ \/ Connected(o)]
      BY <1>6 DEF ApproveTold, MeshTypeOK
    <3>2. QED
      BY <3>1 DEF MeshTypeOK
  <2>3. met' = met /\ unsaid' = unsaid
    BY <1>6 DEF ApproveTold, meshLogs
  <2>4. Known(s, o)
    BY <2>1, <2>2, <2>3 DEF ApprovalsKnown, Connected
  <2>5. Known(o, s)
    BY <2>1, <2>2, <2>3 DEF ApprovalsKnown, Connected
  <2>6. QED
    BY <1>0, <2>4, <2>5
<1>7. CASE ApproveCommit(s)
  <2>1. /\ peering'[s].peerApproved <=> approving[s].step = "yes"
        /\ peering'[s].state = "connected" /\ peering'[o] = peering[o]
    BY <1>7 DEF ApproveCommit, MeshTypeOK
  <2>2. approving'[s] = NotAtIt /\ approving'[o] = approving[o] /\ unsaid' = unsaid
    BY <1>7 DEF ApproveCommit, MeshTypeOK
  <2>3. met'[s] = (approving[s].had \/ Connected(o)) /\ met'[o] = (met[o] \/ Connected(o))
    BY <1>7 DEF ApproveCommit
  <2>4. Known(s, o)
    BY <2>1, <2>2, <2>3 DEF ApprovalsKnown, Connected
  <2>5. Known(o, s)
    BY <2>1, <2>2, <2>3 DEF ApprovalsKnown, Connected
  <2>6. QED
    BY <1>0, <2>4, <2>5
<1>8. CASE ApproveFailed(s)
  <2>1. /\ approving'[s] = NotAtIt /\ approving'[o] = approving[o]
        /\ peering' = peering /\ met' = met /\ unsaid \subseteq unsaid'
        /\ approving[s].step = "yes" => o \in unsaid'
    BY <1>8 DEF ApproveFailed, MeshTypeOK
  <2>2. Known(s, o) /\ Known(o, s)
    BY <2>1 DEF ApprovalsKnown, Connected
  <2>3. QED
    BY <1>0, <2>2
<1>9. CASE MeshTalk(s)
  <2>1. peering'[s] = peering[s] /\ peering'[o].state = peering[o].state
    BY <1>9 DEF MeshTalk, MeshTypeOK
  <2>2. Connected(s) /\ Connected(o) /\ approving' = approving /\ met' = met /\ unsaid' = unsaid
    BY <1>9 DEF MeshTalk, meshLogs
  <2>3. Known(s, o) /\ Known(o, s)
    BY <2>1, <2>2 DEF ApprovalsKnown, Connected
  <2>4. QED
    BY <1>0, <2>3
<1>10. CASE CancelDisconnect(s)
  <2>1. \A x \in Servers :
            (Connected(x)' => Connected(x)) /\ peering'[x].peerApproved = peering[x].peerApproved
    BY <1>10 DEF CancelDisconnect, Unstages, Signs, Connected, MeshTypeOK
  <2>2. QED
    BY <1>1, <1>10, <2>1 DEF CancelDisconnect, meshLogs
<1>11. CASE DisconnectTold(s)
  BY <1>2, <1>11 DEF DisconnectTold
<1>12. CASE PurgePeer(s)
  <2>1. \A x \in Servers :
            (Connected(x)' => Connected(x)) /\ peering'[x].peerApproved = peering[x].peerApproved
    BY <1>12 DEF PurgePeer, Purges, Signs, Connected, MeshTypeOK
  <2>2. QED
    BY <1>1, <1>12, <2>1 DEF PurgePeer, meshLogs
<1>13. CASE peering' = peering /\ approving' = approving /\ met' = met /\ unsaid' = unsaid
  BY <1>1, <1>13 DEF Connected
<1>14. QED
  BY <1>3, <1>4, <1>5, <1>6, <1>7, <1>8, <1>9, <1>10, <1>11, <1>12, <1>13
     DEF MeshStep, MeshInvite, CancelInvite, PasteCheck, PasteInsert, ConnectCheck, ConnectAccept,
         ConnectFails, RejectAttempt, Decided, MailRead, MailCommit, DisconnectUntold, meshLogs

\* Whoever parts tells the peer, who parts too; what stands over there then was
\* approved anew (DisconnectNotifyFromPeer).
LEMMA PartingsToldKept ==
    ASSUME MeshInv, NEW s \in Servers, MeshStep(s)
    PROVE  PartingsTold'
<1> USE TwoEnds, IdleStep DEF MeshInv
<1> DEFINE o == OtherEnd(s)
<1> DEFINE Told(e, x) ==
        /\ /\ peering'[e].state \in {"revoked", "purged"}
           /\ Connected(x)' /\ peering'[x].peerApproved /\ x \notin unheard' \cup unsaid'
           => notice'[e] \/ approving'[e].step = "yes"
        /\ notice'[e] /\ e \notin unheard' => peering'[e].state \in {"revoked", "purged"}
<1>0. ASSUME Told(s, o), Told(o, s) PROVE PartingsTold'
  <2>1. \A e \in Servers : Told(e, OtherEnd(e))
    BY <1>0
  <2>2. \A e \in Servers : OtherEnd(e)' = OtherEnd(e)
    BY DEF OtherEnd
  <2>3. QED
    BY <2>1, <2>2 DEF PartingsTold
<1>1. ASSUME \A e \in Servers : peering'[e].state = peering[e].state
                /\ peering'[e].peerApproved = peering[e].peerApproved,
             approving' = approving, notice' = notice, unsaid' = unsaid, unheard' = unheard
      PROVE  PartingsTold'
  <2>1. Told(s, o) /\ Told(o, s)
    BY <1>1 DEF PartingsTold, Connected
  <2>2. QED
    BY <1>0, <2>1
<1>2. ASSUME NEW c \in Openers, StageDisconnect(s, c) PROVE PartingsTold'
  <2>1. \A e \in Servers : peering'[e].state = peering[e].state
                /\ peering'[e].peerApproved = peering[e].peerApproved
    BY <1>2 DEF StageDisconnect, Stages, Signs, MeshTypeOK
  <2>2. QED
    BY <1>1, <1>2, <2>1 DEF StageDisconnect, meshLogs
<1>3. CASE CancelDisconnect(s)
  <2>1. \A e \in Servers : peering'[e].state = peering[e].state
                /\ peering'[e].peerApproved = peering[e].peerApproved
    BY <1>3 DEF CancelDisconnect, Unstages, Signs, MeshTypeOK
  <2>2. QED
    BY <1>1, <1>3, <2>1 DEF CancelDisconnect, meshLogs
<1>4. ASSUME NEW c \in Clerks, ConfirmDisconnect(s, c) PROVE PartingsTold'
  <2>1. /\ peering'[s].state = "revoked" /\ peering'[o] = peering[o]
    BY <1>4 DEF ConfirmDisconnect, Confirms, RevokePeer, Signs, MeshTypeOK
  <2>2. /\ approving' = approving /\ unsaid' = unsaid /\ unheard' = unheard
        /\ notice'[s] /\ notice'[o] = notice[o]
    BY <1>4 DEF ConfirmDisconnect, MeshTypeOK
  <2>3. Told(s, o) /\ Told(o, s)
    BY <2>1, <2>2 DEF PartingsTold, Connected
  <2>4. QED
    BY <1>0, <2>3
<1>5. ASSUME NEW c \in Clerks, NEW a \in attempts[s], ApproveBegin(s, c, a) PROVE PartingsTold'
  <2>1. /\ approving[s].step = "idle" /\ approving'[o] = approving[o]
        /\ peering' = peering /\ notice' = notice /\ unsaid' = unsaid /\ unheard' = unheard
    BY <1>5 DEF ApproveBegin, RowLocked, meshLogs, MeshTypeOK
  <2>2. Told(s, o) /\ Told(o, s)
    BY <2>1 DEF PartingsTold, Connected
  <2>3. QED
    BY <1>0, <2>2
<1>6. CASE ApproveTold(s)
  <2>1. /\ approving'[s].step = "yes" <=> Connected(o)
        /\ approving[s].step = "calling" /\ approving'[o] = approving[o]
    BY <1>6 DEF ApproveTold, MeshTypeOK, Connected
  <2>2. /\ peering'[s] = peering[s] /\ peering'[o].state = peering[o].state
        /\ peering'[o].peerApproved = (peering[o].peerApproved \/ Connected(o))
    <3>1. /\ peering'[s] = peering[s]
          /\ peering'[o] = [peering[o] EXCEPT !.peerApproved = @ \/ Connected(o)]
      BY <1>6 DEF ApproveTold, MeshTypeOK
    <3>2. QED
      BY <3>1 DEF MeshTypeOK
  <2>3. notice' = notice /\ unsaid' = unsaid /\ unheard' = unheard
    BY <1>6 DEF ApproveTold, meshLogs
  <2>4. Told(s, o)
    BY <2>1, <2>2, <2>3 DEF PartingsTold, Connected
  <2>5. Told(o, s)
    BY <2>1, <2>2, <2>3 DEF PartingsTold, Connected
  <2>6. QED
    BY <1>0, <2>4, <2>5
<1>7. CASE ApproveCommit(s)
  <2>1. /\ peering'[s].peerApproved <=> approving[s].step = "yes"
        /\ peering'[s].state = "connected" /\ peering'[o] = peering[o]
    BY <1>7 DEF ApproveCommit, MeshTypeOK
  <2>2. approving'[s] = NotAtIt /\ approving'[o] = approving[o] /\ unsaid' = unsaid /\ notice' = notice
    BY <1>7 DEF ApproveCommit, MeshTypeOK
  <2>3. /\ unheard \subseteq unheard' /\ (notice[s] => s \in unheard')
        /\ (approving[s].step = "yes" /\ ~Connected(o) /\ ~notice[o] => s \in unheard')
    BY <1>7 DEF ApproveCommit
  <2>4. Told(s, o)
    BY <2>1, <2>2, <2>3 DEF PartingsTold, Connected
  <2>5. Told(o, s)
    BY <2>1, <2>2, <2>3 DEF PartingsTold, Connected
  <2>6. QED
    BY <1>0, <2>4, <2>5
<1>8. CASE ApproveFailed(s)
  <2>1. /\ approving'[o] = approving[o] /\ peering' = peering /\ notice' = notice
        /\ unheard' = unheard /\ unsaid \subseteq unsaid'
        /\ approving[s].step = "yes" => o \in unsaid'
    BY <1>8 DEF ApproveFailed, MeshTypeOK
  <2>2. Told(s, o) /\ Told(o, s)
    BY <2>1 DEF PartingsTold, Connected
  <2>3. QED
    BY <1>0, <2>2
<1>9. CASE MeshTalk(s)
  <2>1. peering'[s] = peering[s] /\ peering'[o].state = peering[o].state
    BY <1>9 DEF MeshTalk, MeshTypeOK
  <2>2. Connected(s) /\ Connected(o) /\ approving' = approving /\ notice' = notice
        /\ unsaid' = unsaid /\ unheard' = unheard
    BY <1>9 DEF MeshTalk, meshLogs
  <2>3. Told(s, o) /\ Told(o, s)
    BY <2>1, <2>2 DEF PartingsTold, Connected
  <2>4. QED
    BY <1>0, <2>3
<1>10. CASE DisconnectTold(s)
  <2>1. /\ peering'[o].state = "revoked" /\ peering'[s] = peering[s]
    BY <1>10 DEF DisconnectTold, RevokePeer, Signs, MeshTypeOK
  <2>2. /\ approving' = approving /\ unsaid' = unsaid /\ unheard' = unheard
        /\ notice[s] /\ ~notice'[s] /\ notice'[o] = notice[o]
    BY <1>10 DEF DisconnectTold, MeshTypeOK
  <2>3. Told(s, o)
    BY <2>1, <2>2 DEF Connected
  <2>4. Told(o, s)
    <3>1. s \in unheard \/ peering[s].state \in {"revoked", "purged"}
      BY <2>2 DEF PartingsTold
    <3>2. QED
      BY <2>1, <2>2, <3>1 DEF Connected
  <2>5. QED
    BY <1>0, <2>3, <2>4
<1>11. CASE DisconnectUntold(s)
  <2>1. /\ ~notice'[s] /\ notice'[o] = notice[o] /\ peering' = peering /\ approving' = approving
        /\ unsaid' = unsaid /\ unheard \subseteq unheard' /\ (Connected(o) => o \in unheard')
    BY <1>11 DEF DisconnectUntold, MeshTypeOK
  <2>2. Told(s, o) /\ Told(o, s)
    BY <2>1 DEF PartingsTold, Connected
  <2>3. QED
    BY <1>0, <2>2
<1>12. CASE PurgePeer(s)
  <2>1. /\ peering[s].state = "revoked" /\ peering'[s].state = "purged" /\ peering'[o] = peering[o]
    BY <1>12 DEF PurgePeer, Purges, Signs, MeshTypeOK
  <2>2. notice' = notice /\ approving' = approving /\ unsaid' = unsaid /\ unheard' = unheard
    BY <1>12 DEF PurgePeer, meshLogs
  <2>3. Told(s, o) /\ Told(o, s)
    BY <2>1, <2>2 DEF PartingsTold, Connected
  <2>4. QED
    BY <1>0, <2>3
<1>13. CASE /\ peering' = peering /\ approving' = approving /\ notice' = notice
            /\ unsaid' = unsaid /\ unheard' = unheard
  BY <1>1, <1>13
<1>14. QED
  BY <1>2, <1>3, <1>4, <1>5, <1>6, <1>7, <1>8, <1>9, <1>10, <1>11, <1>12, <1>13
     DEF MeshStep, MeshInvite, CancelInvite, PasteCheck, PasteInsert, ConnectCheck, ConnectAccept,
         ConnectFails, RejectAttempt, Decided, MailRead, MailCommit, meshLogs

\* The invariant gives what the run checks.
LEMMA MeshInvHolds == MeshInv => PeeringHolds
<1> SUFFICES ASSUME MeshInv PROVE PeeringHolds
  OBVIOUS
<1> USE TwoEnds DEF MeshInv
<1>1. OneHandshakeUnlessDoubled
  <2> SUFFICES ASSUME NEW s \in Servers \ doubled PROVE Cardinality(attempts[s]) <= 1
    BY DEF OneHandshakeUnlessDoubled, OneHandshake
  <2>1. CASE attempts[s] = {}
    BY <2>1, FS_EmptySet
  <2>2. CASE attempts[s] # {}
    <3>1. PICK a \in attempts[s] : attempts[s] = {a}
      BY <2>2 DEF OneHandshake
    <3>2. Cardinality({a}) = 1
      BY FS_Singleton
    <3>3. QED
      BY <3>1, <3>2
  <2>3. QED
    BY <2>1, <2>2
<1>2. PeerApprovedUnlessUnsaid
  BY DEF ApprovalsKnown, PeerApprovedUnlessUnsaid
<1>3. PartedBothUnlessUnheard
  BY IdleStep DEF PartingsTold, PartedBothUnlessUnheard, RowLocked
<1>4. OwedNothingUnlessSlipped
  BY DEF RowsStand, OwedNothingUnlessSlipped
<1>5. QED
  BY <1>1, <1>2, <1>3, <1>4 DEF PeeringHolds, PeeringsAgree

\* Handshakes, approvals and disconnects of two servers, in any order and with
\* any number of invitations, admins and tries, keep PeeringHolds.
THEOREM PeeringAlwaysHolds == MeshSpec => []PeeringHolds
<1>1. ASSUME MeshInv, [MeshNext]_meshVars PROVE MeshInv'
  <2>1. CASE MeshNext
    <3>1. PICK s \in Servers : MeshStep(s)
      BY <2>1 DEF MeshNext, MeshStep
    <3>2. QED
      BY <1>1, <2>1, <3>1, MeshNextTypes, OneHandshakeKept, AttemptLockedKept, RowsStandKept,
         ApprovalsKnownKept, PartingsToldKept DEF MeshInv
  <2>2. CASE UNCHANGED meshVars
    <3>1. MeshTypeOK'
      BY <1>1, MeshNextTypes DEF MeshInv
    <3>2. QED
      BY <1>1, <2>2, <3>1
         DEF meshVars, MeshInv, OneHandshake, AttemptLocked, RowsStand, ApprovalsKnown, PartingsTold,
             Connected, RowLocked, KnownPeer, Accepting, OtherEnd
  <2>3. QED
    BY <1>1, <2>1, <2>2
<1>2. QED
  BY <1>1, MeshInitInv, MeshInvHolds, PTL DEF MeshSpec

-----------------------------------------------------------------------------
(* Invites                                                                 *)

\* InvitesTypeOK holds from the start.
LEMMA InvitesInitTypes == InvitesInit => InvitesTypeOK
BY InvitesAssumption DEF InvitesInit, InvitesTypeOK

\* Every handler of invites and signups keeps the shape of what it writes.
LEMMA InvitesNextTypes == InvitesTypeOK /\ [InvitesNext]_inviteVars => InvitesTypeOK'
<1> SUFFICES ASSUME InvitesTypeOK, [InvitesNext]_inviteVars PROVE InvitesTypeOK'
  OBVIOUS
<1> USE InvitesAssumption DEF InvitesTypeOK
<1>1. ASSUME NEW i \in Invites, CreateInvite(i) PROVE InvitesTypeOK'
  BY <1>1 DEF CreateInvite
<1>2. ASSUME NEW i \in Invites, CreateInviteEnds(i) PROVE InvitesTypeOK'
  BY <1>2 DEF CreateInviteEnds
<1>3. ASSUME NEW i \in Invites, RevokeInvite(i) PROVE InvitesTypeOK'
  BY <1>3 DEF RevokeInvite, Revokes
<1>4. ASSUME NEW i \in Invites, InviteExpires(i) PROVE InvitesTypeOK'
  BY <1>4 DEF InviteExpires
<1>5. ASSUME NEW i \in Invites, NEW n \in Newcomers, SignupReads(n, i) PROVE InvitesTypeOK'
  BY <1>5 DEF SignupReads
<1>6. ASSUME NEW n \in Newcomers, SignupWrites(n) PROVE InvitesTypeOK'
  <2>1. joining[n] \in [step : {"read", "written"}, invite : Invites]
    BY <1>6 DEF SignupWrites, NotJoining
  <2>2. QED
    BY <1>6, <2>1 DEF SignupWrites
<1>7. ASSUME NEW n \in Newcomers, SignupCommits(n) PROVE InvitesTypeOK'
  <2>1. joining[n] \in [step : {"read", "written"}, invite : Invites]
    BY <1>7 DEF SignupCommits, NotJoining
  <2>2. QED
    BY <1>7, <2>1 DEF SignupCommits
<1>8. ASSUME NEW n \in Newcomers, SignupEnds(n) PROVE InvitesTypeOK'
  BY <1>8 DEF SignupEnds
<1>9. ASSUME NEW m \in Makers, GrantInvites(m) PROVE InvitesTypeOK'
  BY <1>9 DEF GrantInvites
<1>10. ASSUME NEW m \in Makers, SuspendMaker(m) PROVE InvitesTypeOK'
  BY <1>10 DEF SuspendMaker, Straddled
<1>11. ASSUME NEW m \in Makers, NEW p \in Powers, LosePower(m, p) PROVE InvitesTypeOK'
  BY <1>11 DEF LosePower, Straddled
<1>12. CASE UNCHANGED inviteVars
  BY <1>12 DEF inviteVars
<1>13. QED
  BY <1>1, <1>2, <1>3, <1>4, <1>5, <1>6, <1>7, <1>8, <1>9, <1>10, <1>11, <1>12 DEF InvitesNext

\* A signup under way has no account yet, and what its transaction has written
\* nobody else claims or revokes (the lock on the invite's row).
ClaimsHeld ==
    /\ \A n \in Newcomers : joining[n] # NotJoining => n \notin DOMAIN joined
    /\ \A n \in Newcomers : joining[n].step = "written" => inviteRow[joining[n].invite] = "pending"
    /\ \A n, o \in Newcomers :
          joining[n].step = "written" /\ joining[o].step = "written"
             /\ joining[n].invite = joining[o].invite => n = o

\* One insert at a time for each maker, with room for what it adds.
RoomLeft ==
    /\ \A i, j \in Invites : inviteRow[i] = "inserting" /\ inviteRow[j] = "inserting"
                                /\ MakerOf[i] = MakerOf[j] => i = j
    /\ \A i \in Invites : inviteRow[i] = "inserting" =>
          Cardinality(CountedInvites(MakerOf[i])) < MaxInvitesPerUser + granted[MakerOf[i]]

\* The inviter's side of MayAdmit: what the claim has checked and does not lock.
Admits(i) ==
    /\ MakerOf[i] \notin suspended
    /\ i \in AdminInvites => {CreateAdmins} \cup InviteGrants[i] \subseteq powers[MakerOf[i]]
StillAdmitted ==
    \A n \in Newcomers : joining[n].step = "written" => n \in amidst \/ Admits(joining[n].invite)

InvitesInv ==
    /\ InvitesTypeOK /\ InviteSpentOnce /\ QuotaHolds /\ AdmittedRightlyUnlessOvertaken
    /\ ClaimsHeld /\ RoomLeft /\ StillAdmitted

\* A maker's invites are finitely many, and one more counts for one.
LEMMA CountsAreFinite ==
    \A m \in Makers : IsFiniteSet(CountedInvites(m)) /\ Cardinality(CountedInvites(m)) \in Nat
<1> TAKE m \in Makers
<1>1. CountedInvites(m) \subseteq Invites
  BY DEF CountedInvites
<1>2. QED
  BY <1>1, InvitesAssumption, FS_Subset, FS_CardinalityType

\* It holds before the first invite.
LEMMA InvitesInitInv == InvitesInit => InvitesInv
<1> SUFFICES ASSUME InvitesInit PROVE InvitesInv
  OBVIOUS
<1>1. \A m \in Makers : CountedInvites(m) = {} /\ Cardinality(CountedInvites(m)) = 0
  BY FS_EmptySet DEF CountedInvites, InvitesInit
<1>2. QuotaHolds
  BY <1>1, InvitesAssumption DEF QuotaHolds, InvitesInit
<1>3. QED
  BY <1>2, InvitesInitTypes
     DEF InvitesInit, InvitesInv, InviteSpentOnce, AdmittedRightlyUnlessOvertaken, ClaimsHeld,
         RoomLeft, StillAdmitted, NotJoining

\* The quota, whatever is inserted at once: the count is read under the
\* creator's advisory lock (insertInviteWith).
LEMMA QuotaKept ==
    ASSUME InvitesInv, [InvitesNext]_inviteVars
    PROVE  QuotaHolds' /\ RoomLeft'
<1> USE InvitesAssumption DEF InvitesInv, InvitesTypeOK
<1> DEFINE Uncounted(i) == inviteRow[i] \in {"none", "inserting"}
<1>1. ASSUME \A i \in Invites : /\ inviteRow'[i] \in {"none", "inserting"} <=> Uncounted(i)
                                /\ inviteRow'[i] = "inserting" => inviteRow[i] = "inserting",
             \A m \in Makers : granted'[m] \in Nat /\ granted[m] <= granted'[m]
      PROVE  QuotaHolds' /\ RoomLeft'
  <2>1. \A m \in Makers : CountedInvites(m)' = CountedInvites(m)
    BY <1>1 DEF CountedInvites
  <2>2. QuotaHolds'
    BY <1>1, <2>1, CountsAreFinite DEF QuotaHolds
  <2>3. \A i \in Invites : MakerOf[i] \in Makers
    BY DEF Makers
  <2>4. RoomLeft'
    BY <1>1, <2>1, <2>3, CountsAreFinite DEF RoomLeft
  <2>5. QED
    BY <2>2, <2>4
<1>2. ASSUME NEW i \in Invites, CreateInvite(i) PROVE QuotaHolds' /\ RoomLeft'
  <2>1. \A m \in Makers : CountedInvites(m)' = CountedInvites(m)
    BY <1>2 DEF CreateInvite, CountedInvites
  <2>2. QuotaHolds'
    BY <1>2, <2>1 DEF QuotaHolds, CreateInvite
  <2>3. \A j \in Invites : MakerOf[j] \in Makers
    BY DEF Makers
  <2>4. RoomLeft'
    BY <1>2, <2>1, <2>3 DEF RoomLeft, CreateInvite, QuotaTurn
  <2>5. QED
    BY <2>2, <2>4
<1>3. ASSUME NEW i \in Invites, CreateInviteEnds(i) PROVE QuotaHolds' /\ RoomLeft'
  <2> DEFINE m == MakerOf[i]
  <2>1. /\ inviteRow[i] = "inserting" /\ granted' = granted /\ m \in Makers
        /\ \A j \in Invites : j # i => inviteRow'[j] = inviteRow[j]
        /\ inviteRow'[i] \in {"pending", "none"}
    BY <1>3 DEF CreateInviteEnds, Makers
  <2>2. \A x \in Makers : x # m => CountedInvites(x)' = CountedInvites(x)
    BY <2>1 DEF CountedInvites
  <2>3. CountedInvites(m)' \in {CountedInvites(m), CountedInvites(m) \cup {i}}
    BY <2>1 DEF CountedInvites
  <2> DEFINE counted == CountedInvites(m)
  <2>4. /\ IsFiniteSet(counted) /\ Cardinality(counted) \in Nat
        /\ Cardinality(counted \cup {i}) \in {Cardinality(counted), Cardinality(counted) + 1}
    <3>1. IsFiniteSet(counted) /\ Cardinality(counted) \in Nat
      BY <2>1, CountsAreFinite
    <3> HIDE DEF counted
    <3>2. QED
      BY <3>1, FS_AddElement
  <2>5. Cardinality(counted) < MaxInvitesPerUser + granted[m]
    BY <2>1 DEF RoomLeft
  <2>6. Cardinality(CountedInvites(m)') <= MaxInvitesPerUser + granted[m]
    <3>1. CountedInvites(m)' \in {counted, counted \cup {i}}
      BY <2>3
    <3>2. granted[m] \in Nat
      BY <2>1
    <3> DEFINE then == CountedInvites(m)'
    <3>3. then \in {counted, counted \cup {i}}
      BY <3>1
    <3> HIDE DEF counted, then
    <3>4. Cardinality(then) <= MaxInvitesPerUser + granted[m]
      <4>1. Cardinality(then) \in {Cardinality(counted), Cardinality(counted) + 1}
        BY <2>4, <3>3
      <4>2. QED
        BY <2>4, <2>5, <3>2, <4>1
    <3>5. QED
      BY <3>4 DEF then
  <2>7. QuotaHolds'
    BY <2>1, <2>2, <2>6 DEF QuotaHolds
  <2>8. \A j \in Invites : inviteRow'[j] = "inserting" => inviteRow[j] = "inserting" /\ MakerOf[j] # m
    BY <2>1 DEF RoomLeft
  <2>9. \A j \in Invites : MakerOf[j] \in Makers
    BY DEF Makers
  <2>10. RoomLeft'
    BY <2>1, <2>2, <2>8, <2>9 DEF RoomLeft
  <2>11. QED
    BY <2>7, <2>10
<1>4. ASSUME NEW i \in Invites, RevokeInvite(i) PROVE QuotaHolds' /\ RoomLeft'
  BY <1>1, <1>4 DEF RevokeInvite, Revokes, InviteUnused
<1>5. ASSUME NEW n \in Newcomers, SignupCommits(n) PROVE QuotaHolds' /\ RoomLeft'
  <2>1. inviteRow[joining[n].invite] = "pending"
    BY <1>5 DEF SignupCommits, ClaimsHeld
  <2>2. QED
    BY <1>1, <1>5, <2>1 DEF SignupCommits
<1>6. ASSUME NEW m \in Makers, GrantInvites(m) PROVE QuotaHolds' /\ RoomLeft'
  BY <1>1, <1>6 DEF GrantInvites
<1>7. CASE UNCHANGED <<inviteRow, granted>>
  BY <1>1, <1>7
<1>8. QED
  BY <1>2, <1>3, <1>4, <1>5, <1>6, <1>7
     DEF InvitesNext, InviteExpires, SignupReads, SignupWrites, SignupEnds, SuspendMaker, LosePower,
         inviteVars

\* An invite is spent once: whoever has read it pending finds it so under the
\* row's lock (markInviteClaimed).
LEMMA SpentOnceKept ==
    ASSUME InvitesInv, [InvitesNext]_inviteVars
    PROVE  InviteSpentOnce' /\ ClaimsHeld'
<1> USE InvitesAssumption DEF InvitesInv, InvitesTypeOK, NotJoining
<1>1. ASSUME \A i \in Invites :
                /\ inviteRow'[i] = "claimed" <=> inviteRow[i] = "claimed"
                /\ inviteRow[i] = "pending" /\ ClaimHolds(i) => inviteRow'[i] = "pending",
             joining' = joining, joined' = joined
      PROVE  InviteSpentOnce' /\ ClaimsHeld'
  <2>1. InviteSpentOnce'
    BY <1>1 DEF InviteSpentOnce
  <2>2. \A n \in Newcomers : joining[n].step = "written" =>
            joining[n].invite \in Invites /\ ClaimHolds(joining[n].invite)
    BY DEF ClaimHolds
  <2>3. ClaimsHeld'
    BY <1>1, <2>2 DEF ClaimsHeld
  <2>4. QED
    BY <2>1, <2>3
<1>2. ASSUME NEW i \in Invites, CreateInvite(i) PROVE InviteSpentOnce' /\ ClaimsHeld'
  BY <1>1, <1>2 DEF CreateInvite
<1>3. ASSUME NEW i \in Invites, CreateInviteEnds(i) PROVE InviteSpentOnce' /\ ClaimsHeld'
  BY <1>1, <1>3 DEF CreateInviteEnds
<1>4. ASSUME NEW i \in Invites, RevokeInvite(i) PROVE InviteSpentOnce' /\ ClaimsHeld'
  BY <1>1, <1>4 DEF RevokeInvite, Revokes, InviteUnused
<1>5. ASSUME NEW i \in Invites, NEW n \in Newcomers, SignupReads(n, i)
      PROVE  InviteSpentOnce' /\ ClaimsHeld'
  <2>1. /\ joining[n].step = "idle" /\ joining'[n].step = "read" /\ n \notin DOMAIN joined
        /\ \A o \in Newcomers : o # n => joining'[o] = joining[o]
        /\ inviteRow' = inviteRow /\ joined' = joined
    BY <1>5 DEF SignupReads
  <2>2. QED
    BY <2>1 DEF InviteSpentOnce, ClaimsHeld
<1>6. ASSUME NEW n \in Newcomers, SignupWrites(n) PROVE InviteSpentOnce' /\ ClaimsHeld'
  <2>1. /\ joining[n].step = "read" /\ joining'[n].step = "written"
        /\ joining'[n].invite = joining[n].invite /\ joining[n].invite \in Invites
        /\ \A o \in Newcomers : o # n => joining'[o] = joining[o]
        /\ inviteRow' = inviteRow /\ joined' = joined
    BY <1>6 DEF SignupWrites
  <2>2. /\ inviteRow[joining[n].invite] = "pending"
        /\ \A o \in Newcomers : ~(joining[o].step = "written" /\ joining[o].invite = joining[n].invite)
    BY <1>6 DEF SignupWrites, InviteUnused, ClaimHolds
  <2>3. QED
    BY <2>1, <2>2 DEF InviteSpentOnce, ClaimsHeld
<1>7. ASSUME NEW n \in Newcomers, SignupCommits(n) PROVE InviteSpentOnce' /\ ClaimsHeld'
  <2> DEFINE i == joining[n].invite
  <2>1. /\ joining[n].step = "written" /\ i \in Invites /\ inviteRow[i] = "pending"
        /\ n \notin DOMAIN joined
    BY <1>7 DEF SignupCommits, ClaimsHeld
  <2>2. /\ DOMAIN joined' = DOMAIN joined \cup {n} /\ joined'[n] = i
        /\ \A o \in DOMAIN joined : joined'[o] = joined[o]
    BY <1>7, <2>1 DEF SignupCommits
  <2>3. inviteRow'[i] = "claimed" /\ \A j \in Invites : j # i => inviteRow'[j] = inviteRow[j]
    BY <1>7, <2>1 DEF SignupCommits
  <2>4. joining'[n].step = "idle" /\ \A o \in Newcomers : o # n => joining'[o] = joining[o]
    BY <1>7 DEF SignupCommits
  <2>5. \A o \in DOMAIN joined : joined[o] # i
    BY <2>1 DEF InviteSpentOnce
  <2>6. InviteSpentOnce'
    BY <2>1, <2>2, <2>3, <2>5 DEF InviteSpentOnce
  <2>7. \A o \in Newcomers : o # n /\ joining[o].step = "written" => joining[o].invite # i
    BY <2>1 DEF ClaimsHeld
  <2>8. ClaimsHeld'
    BY <1>7, <2>1, <2>2, <2>3, <2>4, <2>7 DEF ClaimsHeld, SignupCommits
  <2>9. QED
    BY <2>6, <2>8
<1>8. ASSUME NEW n \in Newcomers, SignupEnds(n) PROVE InviteSpentOnce' /\ ClaimsHeld'
  <2>1. /\ joining'[n] = NotJoining /\ \A o \in Newcomers : o # n => joining'[o] = joining[o]
        /\ inviteRow' = inviteRow /\ joined' = joined
    BY <1>8 DEF SignupEnds
  <2>2. QED
    BY <2>1 DEF InviteSpentOnce, ClaimsHeld
<1>9. CASE UNCHANGED <<inviteRow, joining, joined>>
  BY <1>1, <1>9
<1>10. QED
  BY <1>2, <1>3, <1>4, <1>5, <1>6, <1>7, <1>8, <1>9
     DEF InvitesNext, InviteExpires, GrantInvites, SuspendMaker, LosePower, inviteVars

\* An account comes in rightly unless its inviter lost something while the
\* claim waited for its turn on the ledger (adminInviteClaimEntryTx).
LEMMA AdmittedKept ==
    ASSUME InvitesInv, [InvitesNext]_inviteVars
    PROVE  AdmittedRightlyUnlessOvertaken' /\ StillAdmitted'
<1> USE InvitesAssumption DEF InvitesInv, InvitesTypeOK, NotJoining, Admits
<1>1. ASSUME NEW n \in Newcomers, UNCHANGED <<suspended, powers, amidst, unearned>>,
             joining'[n].step # "written", \A o \in Newcomers : o # n => joining'[o] = joining[o]
      PROVE  AdmittedRightlyUnlessOvertaken' /\ StillAdmitted'
  BY <1>1 DEF AdmittedRightlyUnlessOvertaken, StillAdmitted
<1>2. ASSUME NEW i \in Invites, NEW n \in Newcomers, SignupReads(n, i)
      PROVE  AdmittedRightlyUnlessOvertaken' /\ StillAdmitted'
  BY <1>1, <1>2 DEF SignupReads
<1>3. ASSUME NEW n \in Newcomers, SignupWrites(n)
      PROVE  AdmittedRightlyUnlessOvertaken' /\ StillAdmitted'
  <2>1. /\ joining'[n].invite = joining[n].invite
        /\ \A o \in Newcomers : o # n => joining'[o] = joining[o]
        /\ UNCHANGED <<suspended, powers, amidst, unearned>>
    BY <1>3 DEF SignupWrites
  <2>2. Admits(joining[n].invite)
    BY <1>3 DEF SignupWrites, MayAdmit
  <2>3. QED
    BY <2>1, <2>2 DEF AdmittedRightlyUnlessOvertaken, StillAdmitted
<1>4. ASSUME NEW n \in Newcomers, SignupCommits(n)
      PROVE  AdmittedRightlyUnlessOvertaken' /\ StillAdmitted'
  <2>1. n \in amidst \/ Admits(joining[n].invite)
    BY <1>4 DEF SignupCommits, StillAdmitted
  <2>2. unearned' \subseteq amidst
    BY <1>4, <2>1 DEF SignupCommits, AdmittedRightlyUnlessOvertaken
  <2>3. /\ joining'[n].step = "idle" /\ \A o \in Newcomers : o # n => joining'[o] = joining[o]
        /\ UNCHANGED <<suspended, powers, amidst>>
    BY <1>4 DEF SignupCommits
  <2>4. QED
    BY <2>2, <2>3 DEF AdmittedRightlyUnlessOvertaken, StillAdmitted
<1>5. ASSUME NEW n \in Newcomers, SignupEnds(n)
      PROVE  AdmittedRightlyUnlessOvertaken' /\ StillAdmitted'
  BY <1>1, <1>5 DEF SignupEnds
<1>6. ASSUME NEW m \in Makers, amidst' = amidst \cup Straddled(m), joining' = joining,
             unearned' = unearned,
             \A x \in Makers : x # m => (x \in suspended' <=> x \in suspended) /\ powers'[x] = powers[x]
      PROVE  AdmittedRightlyUnlessOvertaken' /\ StillAdmitted'
  <2>1. \A n \in Newcomers : joining[n].step = "written" =>
            n \in amidst' \/ (MakerOf[joining[n].invite] \in Makers /\ MakerOf[joining[n].invite] # m)
    BY <1>6 DEF Straddled, Makers
  <2>2. QED
    BY <1>6, <2>1 DEF AdmittedRightlyUnlessOvertaken, StillAdmitted
<1>7. ASSUME NEW m \in Makers, SuspendMaker(m)
      PROVE  AdmittedRightlyUnlessOvertaken' /\ StillAdmitted'
  BY <1>6, <1>7 DEF SuspendMaker
<1>8. ASSUME NEW m \in Makers, NEW p \in Powers, LosePower(m, p)
      PROVE  AdmittedRightlyUnlessOvertaken' /\ StillAdmitted'
  BY <1>6, <1>8 DEF LosePower
<1>9. CASE UNCHANGED <<suspended, powers, joining, amidst, unearned>>
  BY <1>9 DEF AdmittedRightlyUnlessOvertaken, StillAdmitted
<1>10. QED
  BY <1>2, <1>3, <1>4, <1>5, <1>7, <1>8, <1>9
     DEF InvitesNext, CreateInvite, CreateInviteEnds, RevokeInvite, InviteExpires, GrantInvites,
         inviteVars

\* Invites are made within the quota and spent once, and accounts come in on
\* those whose makers may admit them, for any number of each.
THEOREM SignupsAlwaysHold == InvitesSpec => []SignupsHold
<1>1. InvitesInv /\ [InvitesNext]_inviteVars => InvitesInv'
  BY InvitesNextTypes, QuotaKept, SpentOnceKept, AdmittedKept DEF InvitesInv
<1>2. InvitesInv => SignupsHold
  BY DEF InvitesInv, SignupsHold, InvitesHold
<1>3. QED
  BY <1>1, <1>2, InvitesInitInv, PTL DEF InvitesSpec

-----------------------------------------------------------------------------
(* Vouches                                                                 *)

\* Ids are minted one after the other.
IdsInOrder == \E n \in 0 .. MaxVouches : Minted = 1 .. n

\* What a request has read stays so until it writes: a vouch that is about to
\* be stored is nowhere yet, and one that is about to be withdrawn is there.
VouchJobsRead ==
    /\ \A w \in VouchWorkers : vouchJob[w] # NoVouchJob => vouchJob[w].id \in Minted
    /\ \A c \in overdue : c.id \in Minted
    /\ \A w \in VouchWorkers : vouchJob[w].kind = "create" =>
          /\ vouchRow[vouchJob[w].id] = NoVouch
          /\ \A b \in BOOLEAN : <<vouchJob[w].id, b>> \notin versions
    /\ \A w, u \in VouchWorkers :
          vouchJob[w].kind = "create" /\ vouchJob[u].kind = "create"
             /\ vouchJob[w].id = vouchJob[u].id => w = u
    /\ \A w \in VouchWorkers :
          vouchJob[w].kind = "withdraw" => vouchRow[vouchJob[w].id].state # "none"

\* The peer has heard of what it has agreed to and of every version stored.
PeerHeard ==
    /\ \A w \in VouchWorkers :
          vouchJob[w].kind = "create" /\ vouchJob[w].step = "agreed" /\ Abroad(vouchJob[w].id) =>
             vouchJob[w].id \in references \cup toldGone
    /\ \A i \in Minted : <<i, FALSE>> \in versions /\ Abroad(i) => i \in references \cup toldGone

\* Rows are of minted vouches, live ones are in some client's cache, and what
\* a withdrawal names is withdrawn.
VouchRowsStand ==
    /\ \A i \in VouchIds : vouchRow[i].state = "none" => vouchRow[i] = NoVouch
    /\ \A i \in VouchIds : vouchRow[i] # NoVouch => i \in Minted
    /\ \A i \in VouchIds : vouchRow[i].state = "live" => <<i, FALSE>> \in versions
    /\ \A i \in VouchIds : vouchRow[i].state = "withdrawn" =>
          vouchRow[i].withdraws \in VouchIds /\ vouchRow[vouchRow[i].withdraws].state = "withdrawn"

VouchesInv ==
    /\ VouchesTypeOK /\ IdsInOrder /\ VouchJobsRead /\ PeerHeard /\ VouchRowsStand /\ CopiesSettle

\* It holds before the first vouch.
LEMMA VouchesInitInv == VouchesInit => VouchesInv
<1> SUFFICES ASSUME VouchesInit PROVE VouchesInv
  OBVIOUS
<1> USE VouchesAssumption
<1>1. Minted = {} /\ 1 .. 0 = {} /\ 0 \in 0 .. MaxVouches
  BY DEF VouchesInit, Minted
<1>2. NoVouch \in VouchRow /\ NoVouch.state = "none" /\ NoVouchJob.kind = "none"
  BY DEF NoVouch, VouchRow, NoVouchJob
<1>3. VouchesTypeOK
  <2>1. vouchRow \in [VouchIds -> VouchRow] /\ losses \in 0 .. MaxLosses
    BY <1>2 DEF VouchesInit
  <2>2. vouchJob \in [VouchWorkers -> VouchJob]
    BY DEF VouchesInit, VouchJob
  <2>3. QED
    BY <1>1, <2>1, <2>2 DEF VouchesInit, VouchesTypeOK
<1>4. IdsInOrder /\ CopiesSettle /\ VouchRowsStand
  BY <1>1, <1>2 DEF VouchesInit, IdsInOrder, CopiesSettle, VouchRowsStand
<1>5. VouchJobsRead /\ PeerHeard
  BY <1>1, <1>2 DEF VouchesInit, VouchJobsRead, PeerHeard
<1>6. QED
  BY <1>3, <1>4, <1>5 DEF VouchesInv

\* The next id is a new one.
LEMMA NextId ==
    ASSUME IdsInOrder, Cardinality(Minted) + 1 \in VouchIds
    PROVE  /\ Cardinality(Minted) + 1 \notin Minted
           /\ \E n \in 0 .. MaxVouches : Minted \cup {Cardinality(Minted) + 1} = 1 .. n
<1> USE VouchesAssumption
<1>1. PICK n \in 0 .. MaxVouches : Minted = 1 .. n
  BY DEF IdsInOrder
<1>2. Cardinality(1 .. n) = n
  BY FS_Interval
<1>3. Cardinality(Minted) + 1 = n + 1 /\ n + 1 \in 0 .. MaxVouches
  BY <1>1, <1>2 DEF VouchIds
<1>4. (1 .. n) \cup {n + 1} = 1 .. n + 1 /\ n + 1 \notin 1 .. n
  OBVIOUS
<1>5. QED
  BY <1>1, <1>3, <1>4

\* Where the invariant holds, all that the peer handles it keeps or has been
\* told of, and nobody forgets.
LEMMA HandledStays ==
    ASSUME VouchesInv, NEW kind \in Kinds, NEW id \in Minted, Handled(kind, id)
    PROVE  /\ references' \subseteq Minted /\ toldGone' \subseteq Minted
           /\ references \cup toldGone \subseteq references' \cup toldGone'
           /\ id \in references' \cup toldGone'
BY DEF Handled, Kinds, VouchesInv, VouchesTypeOK

\* A request that ends leaves the others as they are.
LEMMA JobEnds ==
    ASSUME VouchesTypeOK, NEW w \in VouchWorkers, vouchJob' = [vouchJob EXCEPT ![w] = NoVouchJob]
    PROVE  /\ vouchJob' \in [VouchWorkers -> VouchJob]
           /\ vouchJob'[w].kind = "none" /\ vouchJob'[w] = NoVouchJob
           /\ \A u \in VouchWorkers : u # w => vouchJob'[u] = vouchJob[u]
BY DEF VouchesTypeOK, VouchJob, NoVouchJob

\* A request at its work names a kind and an id.
LEMMA AtWork ==
    ASSUME VouchesInv, NEW w \in VouchWorkers, vouchJob[w] # NoVouchJob
    PROVE  /\ vouchJob[w].kind \in Kinds /\ vouchJob[w].id \in Minted /\ vouchJob[w].id \in VouchIds
           /\ vouchJob[w].step \in {"sent", "agreed"}
BY DEF VouchesInv, VouchesTypeOK, VouchJob, VouchJobsRead, Kinds

\* Every handler keeps the invariant when it leaves rows, keys and copies alone
\* and the requests do what they said.
LEMMA RequestsGoOn ==
    ASSUME VouchesInv,
           UNCHANGED <<vouchKey, vouchRow, versions, offered, displaced, losses>>,
           vouchJob' \in [VouchWorkers -> VouchJob],
           \A w \in VouchWorkers :
              \/ vouchJob'[w].kind = "none" /\ vouchJob'[w] = NoVouchJob
              \/ vouchJob'[w].kind = vouchJob[w].kind /\ vouchJob'[w].id = vouchJob[w].id
                    /\ vouchJob[w] # NoVouchJob
              \/ vouchJob'[w].kind = "withdraw" /\ vouchJob'[w].id \in Minted
                    /\ vouchRow[vouchJob'[w].id].state = "live",
           \A w \in VouchWorkers :
              vouchJob'[w].kind = "create" /\ vouchJob'[w].step = "agreed" =>
                 vouchJob[w].kind = "create" /\ vouchJob'[w].id = vouchJob[w].id
                    /\ (vouchJob[w].step = "agreed" \/ vouchJob[w].id \in references' \cup toldGone'),
           overdue' \subseteq Call, \A c \in overdue' : c.id \in Minted,
           references' \subseteq Minted, toldGone' \subseteq Minted,
           references \cup toldGone \subseteq references' \cup toldGone',
           settledIn' \subseteq Minted, showing' \in BOOLEAN
    PROVE  VouchesInv'
<1> USE DEF VouchesInv
<1>1. Minted' = Minted
  BY DEF Minted
<1>2. VouchesTypeOK'
  BY <1>1 DEF VouchesTypeOK
<1>3. IdsInOrder'
  BY <1>1 DEF IdsInOrder
<1>4. VouchJobsRead'
  <2>1. \A w \in VouchWorkers : vouchJob'[w].kind = "create" =>
            vouchJob[w].kind = "create" /\ vouchJob'[w].id = vouchJob[w].id
    OBVIOUS
  <2>2. \A w \in VouchWorkers : vouchJob'[w] # NoVouchJob => vouchJob'[w].id \in Minted
    BY DEF VouchJobsRead
  <2>3. \A w \in VouchWorkers : vouchJob'[w].kind = "withdraw" =>
            vouchRow[vouchJob'[w].id].state # "none"
    BY DEF VouchJobsRead
  <2>4. QED
    BY <1>1, <2>1, <2>2, <2>3 DEF VouchJobsRead
<1>5. PeerHeard'
  <2>1. \A w \in VouchWorkers : vouchJob'[w].kind = "create" /\ vouchJob'[w].step = "agreed"
                /\ Abroad(vouchJob[w].id)' => vouchJob'[w].id \in references' \cup toldGone'
    BY DEF PeerHeard, Abroad
  <2>2. QED
    BY <1>1, <2>1 DEF PeerHeard, Abroad
<1>6. VouchRowsStand'
  BY <1>1 DEF VouchRowsStand
<1>7. CopiesSettle'
  BY <1>1 DEF CopiesSettle
<1>8. QED
  BY <1>2, <1>3, <1>4, <1>5, <1>6, <1>7

\* The same for rows: those that change were not there, or are withdrawn with
\* what their withdrawal names.
LEMMA VouchesNextInv == VouchesInv /\ [VouchesNext]_vouchVars => VouchesInv'
<1> SUFFICES ASSUME VouchesInv, [VouchesNext]_vouchVars PROVE VouchesInv'
  OBVIOUS
<1> USE VouchesAssumption
<1>t. VouchesTypeOK
  BY DEF VouchesInv
<1>s. /\ vouchJob \in [VouchWorkers -> VouchJob]
      /\ overdue \subseteq Call /\ \A c \in overdue : c.id \in Minted
      /\ references \subseteq Minted /\ toldGone \subseteq Minted
      /\ settledIn \subseteq Minted /\ showing \in BOOLEAN
      /\ \A w \in VouchWorkers :
            \/ vouchJob[w].kind = "none" /\ vouchJob[w] = NoVouchJob
            \/ vouchJob[w] # NoVouchJob
  BY DEF VouchesInv, VouchesTypeOK, VouchJobsRead, NoVouchJob
<1>1. CASE VerificationWindow
  BY <1>1, <1>s, RequestsGoOn DEF VerificationWindow
<1>2. CASE CooldownEnds
  BY <1>2, <1>s, RequestsGoOn DEF CooldownEnds
<1>3. ASSUME NEW w \in VouchWorkers, NEW id \in VouchIds, WithdrawRequest(w, id) PROVE VouchesInv'
  <2> DEFINE sent == [kind |-> "withdraw", id |-> id, step |-> IF Abroad(id) THEN "sent" ELSE "agreed"]
  <2>1. sent \in VouchJob /\ vouchJob' = [vouchJob EXCEPT ![w] = sent]
    BY <1>3 DEF WithdrawRequest, VouchJob, Kinds
  <2>2. id \in Minted /\ vouchRow[id].state = "live"
    BY <1>3 DEF WithdrawRequest, VouchesInv, VouchRowsStand, NoVouch
  <2>3. /\ vouchJob' \in [VouchWorkers -> VouchJob]
        /\ vouchJob'[w].kind = "withdraw" /\ vouchJob'[w].id = id
        /\ \A u \in VouchWorkers : u # w => vouchJob'[u] = vouchJob[u]
    BY <1>s, <2>1
  <2>4. QED
    BY <1>3, <1>s, <2>2, <2>3, RequestsGoOn DEF WithdrawRequest
<1>4. ASSUME NEW w \in VouchWorkers, PeerRefuses(w) PROVE VouchesInv'
  BY <1>4, <1>s, <1>t, JobEnds, RequestsGoOn DEF PeerRefuses
<1>5. ASSUME NEW w \in VouchWorkers, PeerAgrees(w) PROVE VouchesInv'
  <2>1. vouchJob[w] # NoVouchJob
    BY <1>5 DEF PeerAgrees, NoVouchJob
  <2>2. /\ vouchJob' \in [VouchWorkers -> VouchJob]
        /\ vouchJob'[w].kind = vouchJob[w].kind /\ vouchJob'[w].id = vouchJob[w].id
        /\ \A u \in VouchWorkers : u # w => vouchJob'[u] = vouchJob[u]
    BY <1>5, <1>s, <2>1 DEF PeerAgrees, VouchJob
  <2>3. Handled(vouchJob[w].kind, vouchJob[w].id)
    BY <1>5 DEF PeerAgrees
  <2>4. /\ references' \subseteq Minted /\ toldGone' \subseteq Minted
        /\ references \cup toldGone \subseteq references' \cup toldGone'
        /\ vouchJob[w].id \in references' \cup toldGone'
    BY <2>1, <2>3, AtWork, HandledStays
  <2>5. QED
    BY <1>5, <1>s, <2>1, <2>2, <2>4, RequestsGoOn DEF PeerAgrees
<1>6. ASSUME NEW w \in VouchWorkers, GivesUp(w) PROVE VouchesInv'
  <2>1. overdue' \subseteq Call /\ \A c \in overdue' : c.id \in Minted
    BY <1>6, <1>s, AtWork DEF GivesUp, Call
  <2>2. QED
    BY <1>6, <1>s, <1>t, <2>1, JobEnds, RequestsGoOn DEF GivesUp
<1>7. ASSUME NEW c \in overdue, HandledLate(c) PROVE VouchesInv'
  <2>1. c.kind \in Kinds /\ c.id \in Minted /\ Handled(c.kind, c.id)
    BY <1>7, <1>s DEF HandledLate, Call
  <2>2. QED
    BY <1>7, <1>s, <2>1, HandledStays, RequestsGoOn DEF HandledLate
<1>8. ASSUME NEW w \in VouchWorkers, NEW key \in SubjectKeys, CreateVouch(w, key) PROVE VouchesInv'
  <2> DEFINE id == Cardinality(Minted) + 1
             new == [kind |-> "create", id |-> id, step |-> IF key \in PeerKeys THEN "sent" ELSE "agreed"]
  <2>1. id \in VouchIds /\ id \notin Minted /\ \E n \in 0 .. MaxVouches : Minted \cup {id} = 1 .. n
    BY <1>8, NextId DEF CreateVouch, VouchesInv
  <2> HIDE DEF id
  <2>2. /\ Minted' = Minted \cup {id} /\ vouchKey'[id] = key
        /\ \A i \in Minted : vouchKey'[i] = vouchKey[i]
    BY <1>8, <2>1 DEF CreateVouch, Minted, id
  <2>3. /\ vouchJob' = [vouchJob EXCEPT ![w] = new] /\ new \in VouchJob /\ vouchJob[w] = NoVouchJob
        /\ UNCHANGED <<vouchRow, settledIn, showing, references, overdue, losses, versions,
                       offered, displaced, toldGone>>
    BY <1>8, <2>1 DEF CreateVouch, VouchJob, Kinds, id
  <2>4. /\ vouchJob' \in [VouchWorkers -> VouchJob]
        /\ vouchJob'[w].kind = "create" /\ vouchJob'[w].id = id
        /\ vouchJob'[w].step = "agreed" => key \notin PeerKeys
        /\ \A u \in VouchWorkers : u # w => vouchJob'[u] = vouchJob[u]
    BY <1>s, <2>3
  <2>5. VouchesTypeOK'
    BY <1>t, <2>1, <2>2, <2>3, <2>4 DEF VouchesTypeOK
  <2>6. IdsInOrder'
    BY <2>1, <2>2 DEF IdsInOrder
  <2>7. vouchRow[id] = NoVouch /\ \A b \in BOOLEAN : <<id, b>> \notin versions
    BY <1>t, <2>1 DEF VouchesInv, VouchRowsStand, VouchesTypeOK
  <2>8. \A u \in VouchWorkers : vouchJob[u] # NoVouchJob => vouchJob[u].id # id
    BY <2>1 DEF VouchesInv, VouchJobsRead
  <2>9. NoVouchJob.kind = "none"
    BY DEF NoVouchJob
  <2>10. VouchJobsRead'
    BY <2>2, <2>3, <2>4, <2>7, <2>8, <2>9 DEF VouchesInv, VouchJobsRead
  <2>11. PeerHeard'
    <3>1. \A u \in VouchWorkers : vouchJob'[u].kind = "create" /\ vouchJob'[u].step = "agreed"
            /\ Abroad(vouchJob[u].id)' => vouchJob'[u].id \in references \cup toldGone
      <4> SUFFICES ASSUME NEW u \in VouchWorkers, vouchJob'[u].kind = "create",
                          vouchJob'[u].step = "agreed", vouchKey'[vouchJob'[u].id] \in PeerKeys
                   PROVE  vouchJob'[u].id \in references \cup toldGone
        BY DEF Abroad
      <4>1. u # w
        BY <2>2, <2>4
      <4>2. vouchJob'[u] = vouchJob[u] /\ vouchJob[u].id \in Minted
        BY <2>4, <2>9, <4>1 DEF VouchesInv, VouchJobsRead
      <4>3. QED
        BY <2>2, <4>2 DEF VouchesInv, PeerHeard, Abroad
    <3>2. QED
      BY <2>2, <2>3, <2>7, <3>1 DEF VouchesInv, PeerHeard, Abroad
  <2>12. VouchRowsStand'
    BY <2>2, <2>3 DEF VouchesInv, VouchRowsStand
  <2>13. CopiesSettle'
    BY <1>t, <2>2, <2>3, <2>7 DEF VouchesInv, CopiesSettle, VouchesTypeOK
  <2>14. QED
    BY <2>5, <2>6, <2>10, <2>11, <2>12, <2>13 DEF VouchesInv
<1>9. ASSUME NEW w \in VouchWorkers, InsertVouch(w) PROVE VouchesInv'
  <2> DEFINE id == vouchJob[w].id
  <2>1. /\ vouchJob[w].kind = "create" /\ vouchJob[w].step = "agreed" /\ vouchJob[w] # NoVouchJob
        /\ vouchJob' = [vouchJob EXCEPT ![w] = NoVouchJob]
        /\ UNCHANGED <<vouchKey, showing, references, overdue, losses, offered, displaced, toldGone>>
    BY <1>9 DEF InsertVouch, NoVouchJob
  <2>2. /\ id \in Minted /\ id \in VouchIds /\ vouchRow[id] = NoVouch
        /\ \A b \in BOOLEAN : <<id, b>> \notin versions
        /\ Abroad(id) => id \in references \cup toldGone
    BY <2>1, AtWork DEF VouchesInv, VouchJobsRead, PeerHeard
  <2>3. /\ vouchJob' \in [VouchWorkers -> VouchJob]
        /\ vouchJob'[w].kind = "none" /\ vouchJob'[w] = NoVouchJob
        /\ \A u \in VouchWorkers : u # w => vouchJob'[u] = vouchJob[u]
    BY <1>t, <2>1, JobEnds
  <2>4. CASE UNCHANGED <<vouchRow, settledIn, versions>>
    BY <1>s, <2>1, <2>3, <2>4, RequestsGoOn
  <2>5. CASE /\ vouchRow' = [vouchRow EXCEPT ![id].state = "live"]
             /\ settledIn' = settledIn \cup {id} /\ versions' = versions \cup {<<id, FALSE>>}
    <3>1. /\ vouchRow'[id] = [NoVouch EXCEPT !.state = "live"]
          /\ \A i \in VouchIds : i # id => vouchRow'[i] = vouchRow[i]
      BY <1>t, <2>2, <2>5 DEF VouchesTypeOK
    <3>2. vouchRow'[id].state = "live" /\ vouchRow'[id] \in VouchRow
      BY <3>1 DEF NoVouch, VouchRow
    <3>3. vouchRow' \in [VouchIds -> VouchRow]
      BY <1>t, <2>5, <3>1, <3>2 DEF VouchesTypeOK
    <3>4. /\ Minted' = Minted /\ settledIn' \subseteq Minted
          /\ versions' \subseteq Minted \X BOOLEAN /\ versions \subseteq versions'
          /\ <<id, FALSE>> \in versions'
          /\ \A i, b : <<i, b>> \in versions' => <<i, b>> \in versions \/ (i = id /\ b = FALSE)
      <4>1. Minted' = Minted /\ settledIn' \subseteq Minted
        BY <1>t, <2>1, <2>2, <2>5 DEF Minted, VouchesTypeOK
      <4>2. versions \subseteq Minted \X BOOLEAN /\ <<id, FALSE>> \in Minted \X BOOLEAN
        BY <1>t, <2>2 DEF VouchesTypeOK
      <4>3. \A x \in versions' : x \in versions \/ x = <<id, FALSE>>
        BY <2>5
      <4>4. versions \subseteq versions' /\ versions' \subseteq Minted \X BOOLEAN
            /\ <<id, FALSE>> \in versions'
        BY <2>5, <4>2, <4>3
      <4>5. QED
        BY <4>1, <4>3, <4>4
    <3>5. VouchesTypeOK'
      BY <1>t, <2>1, <2>3, <3>3, <3>4 DEF VouchesTypeOK
    <3>6. \A u \in VouchWorkers : u # w /\ vouchJob[u].kind = "create" => vouchJob[u].id # id
      BY <2>1 DEF VouchesInv, VouchJobsRead
    <3>7. VouchJobsRead'
      <4>1. \A u \in VouchWorkers : vouchJob[u] # NoVouchJob => vouchJob[u].id \in VouchIds
        BY AtWork
      <4>2. \A u \in VouchWorkers :
                vouchJob[u].kind \in {"create", "withdraw"} => vouchJob[u] # NoVouchJob
        BY DEF NoVouchJob
      <4>3. \A u \in VouchWorkers : vouchJob'[u].kind = "create" =>
                /\ vouchRow'[vouchJob'[u].id] = NoVouch
                /\ \A b \in BOOLEAN : <<vouchJob'[u].id, b>> \notin versions'
        BY <2>3, <3>1, <3>4, <3>6, <4>1, <4>2 DEF VouchesInv, VouchJobsRead
      <4>4. \A u \in VouchWorkers : vouchJob'[u].kind = "withdraw" =>
                vouchRow'[vouchJob'[u].id].state # "none"
        <5> SUFFICES ASSUME NEW u \in VouchWorkers, vouchJob'[u].kind = "withdraw"
                     PROVE  vouchRow'[vouchJob'[u].id].state # "none"
          OBVIOUS
        <5>1. u # w /\ vouchJob'[u] = vouchJob[u] /\ vouchJob[u].kind = "withdraw"
          BY <2>3
        <5>2. vouchRow[vouchJob[u].id].state # "none" /\ vouchJob[u].id \in VouchIds
          BY <4>1, <4>2, <5>1 DEF VouchesInv, VouchJobsRead
        <5>3. QED
          BY <3>1, <3>2, <5>1, <5>2
      <4>5. QED
        BY <2>1, <2>3, <3>4, <4>3, <4>4 DEF VouchesInv, VouchJobsRead
    <3>8. PeerHeard'
      BY <2>1, <2>2, <2>3, <2>5, <3>4 DEF VouchesInv, PeerHeard, Abroad
    <3>9. VouchRowsStand'
      <4>1. vouchRow[id].state = "none"
        BY <2>2 DEF NoVouch
      <4>2. \A i \in VouchIds : i # id /\ vouchRow'[i].state = "withdrawn" =>
                vouchRow'[i].withdraws \in VouchIds
                   /\ vouchRow'[vouchRow'[i].withdraws].state = "withdrawn"
        BY <3>1, <4>1 DEF VouchesInv, VouchRowsStand
      <4>3. QED
        BY <2>2, <3>1, <3>2, <3>4, <4>2 DEF VouchesInv, VouchRowsStand
    <3>10. CopiesSettle'
      <4>1. \A i \in Minted : i \in VouchIds
        BY <1>t DEF VouchesTypeOK
      <4>2. <<id, TRUE>> \notin offered
        BY <1>t, <2>2 DEF VouchesTypeOK
      <4>3. QED
        BY <2>1, <3>1, <3>2, <3>4, <4>1, <4>2 DEF VouchesInv, CopiesSettle
    <3>11. IdsInOrder'
      BY <3>4 DEF VouchesInv, IdsInOrder
    <3>12. QED
      BY <3>5, <3>7, <3>8, <3>9, <3>10, <3>11 DEF VouchesInv
  <2>6. QED
    BY <1>9, <2>4, <2>5 DEF InsertVouch
<1>10. ASSUME NEW w \in VouchWorkers, WithdrawVouch(w) PROVE VouchesInv'
  <2> DEFINE id == vouchJob[w].id
             live == LiveFor(vouchKey[id])
  <2>1. /\ vouchJob[w].kind = "withdraw" /\ vouchJob[w] # NoVouchJob
        /\ vouchJob' = [vouchJob EXCEPT ![w] = NoVouchJob]
        /\ UNCHANGED <<vouchKey, settledIn, showing, references, overdue, losses, offered, displaced,
                       toldGone>>
    BY <1>10 DEF WithdrawVouch, NoVouchJob
  <2>2. id \in Minted /\ id \in VouchIds /\ vouchRow[id].state # "none"
    BY <2>1, AtWork DEF VouchesInv, VouchJobsRead
  <2>3. /\ vouchJob' \in [VouchWorkers -> VouchJob]
        /\ vouchJob'[w].kind = "none" /\ vouchJob'[w] = NoVouchJob
        /\ \A u \in VouchWorkers : u # w => vouchJob'[u] = vouchJob[u]
    BY <1>t, <2>1, JobEnds
  <2>4. /\ live \subseteq Minted /\ live \subseteq VouchIds
        /\ \A i \in live : vouchRow[i].state = "live"
        /\ vouchRow[id].state = "live" => id \in live
    BY <1>t, <2>2 DEF LiveFor, VouchesTypeOK
  <2>5. /\ vouchRow' = [i \in VouchIds |-> IF i \in live
                            THEN [state |-> "withdrawn", withdraws |-> id] ELSE vouchRow[i]]
        /\ versions' = versions \cup {<<i, TRUE>> : i \in live \cap {id}}
    BY <1>10 DEF WithdrawVouch
  <2> HIDE DEF live
  <2>6. /\ \A i \in live : vouchRow'[i].state = "withdrawn" /\ vouchRow'[i].withdraws = id
        /\ \A i \in VouchIds \ live : vouchRow'[i] = vouchRow[i]
    BY <2>4, <2>5
  <2>7. /\ \A i, b : <<i, b>> \in versions' => <<i, b>> \in versions \/ (b = TRUE /\ i = id /\ i \in live)
        /\ versions \subseteq versions' /\ versions' \subseteq Minted \X BOOLEAN
    <3>1. \A x \in {<<i, TRUE>> : i \in live \cap {id}} : x = <<id, TRUE>> /\ id \in live
      OBVIOUS
    <3>2. versions \subseteq Minted \X BOOLEAN /\ <<id, TRUE>> \in Minted \X BOOLEAN
      BY <1>t, <2>2 DEF VouchesTypeOK
    <3>3. \A x \in versions' : x \in versions \/ (x = <<id, TRUE>> /\ id \in live)
      BY <2>5, <3>1
    <3>4. versions \subseteq versions' /\ versions' \subseteq Minted \X BOOLEAN
      BY <2>5, <3>2, <3>3
    <3>5. QED
      BY <3>3, <3>4
  <2>8. Minted' = Minted
    BY <2>1 DEF Minted
  <2>9. vouchRow' \in [VouchIds -> VouchRow]
    BY <1>t, <2>2, <2>5 DEF VouchesTypeOK, VouchRow
  <2>10. VouchesTypeOK'
    BY <1>t, <2>1, <2>3, <2>7, <2>8, <2>9 DEF VouchesTypeOK
  <2>11. vouchRow'[id].state = "withdrawn"
    BY <1>t, <2>2, <2>4, <2>6 DEF VouchesTypeOK, VouchRow
  <2>12. VouchJobsRead'
    <3>1. \A u \in VouchWorkers : vouchJob[u].kind = "create" =>
              vouchJob[u].id \notin live /\ vouchJob[u].id \in VouchIds
                 /\ vouchRow[vouchJob[u].id] = NoVouch
      BY <2>4, AtWork DEF VouchesInv, VouchJobsRead, NoVouch, NoVouchJob
    <3>2. \A u \in VouchWorkers : vouchJob[u].kind = "withdraw" => vouchJob[u].id \in VouchIds
      BY AtWork DEF NoVouchJob
    <3>3. QED
      BY <2>1, <2>3, <2>6, <2>7, <2>8, <3>1, <3>2 DEF VouchesInv, VouchJobsRead
  <2>13. PeerHeard'
    BY <2>1, <2>3, <2>7, <2>8 DEF VouchesInv, PeerHeard, Abroad
  <2>14. VouchRowsStand'
    <3>1. \A i \in VouchIds : vouchRow'[i] # NoVouch => i \in Minted
      BY <2>4, <2>6 DEF VouchesInv, VouchRowsStand
    <3>2. \A i \in VouchIds : vouchRow'[i].state = "none" => vouchRow'[i] = NoVouch
      BY <2>6 DEF VouchesInv, VouchRowsStand
    <3>3. \A i \in VouchIds : vouchRow'[i].state = "live" => <<i, FALSE>> \in versions'
      BY <2>6, <2>7 DEF VouchesInv, VouchRowsStand
    <3>4. \A i \in VouchIds : vouchRow[i].state = "withdrawn" => vouchRow'[i].state = "withdrawn"
      BY <2>4, <2>6
    <3>5. \A i \in VouchIds : vouchRow'[i].state = "withdrawn" =>
              vouchRow'[i].withdraws \in VouchIds
                 /\ vouchRow'[vouchRow'[i].withdraws].state = "withdrawn"
      BY <2>2, <2>6, <2>11, <3>4 DEF VouchesInv, VouchRowsStand
    <3>6. QED
      BY <2>8, <3>1, <3>2, <3>3, <3>5 DEF VouchRowsStand
  <2>15. CopiesSettle'
    <3>1. \A i \in Minted : i \in VouchIds
      BY <1>t DEF VouchesTypeOK
    <3>2. \A i \in Minted : /\ vouchRow[i].state = "withdrawn" => vouchRow'[i].state = "withdrawn"
                            /\ vouchRow[i].state # "none" => vouchRow'[i].state # "none"
      BY <2>4, <2>6, <3>1
    <3>3. QED
      BY <2>1, <2>8, <3>2 DEF VouchesInv, CopiesSettle
  <2>16. QED
    BY <2>8, <2>10, <2>12, <2>13, <2>14, <2>15 DEF VouchesInv, IdsInOrder
<1>11. CASE LosesDatabase
  <2>1. /\ vouchRow' = [i \in VouchIds |-> NoVouch] /\ settledIn' = {} /\ offered' = {}
        /\ displaced' = {} /\ vouchJob' = [w \in VouchWorkers |-> NoVouchJob]
        /\ losses < MaxLosses /\ losses' = losses + 1
        /\ UNCHANGED <<vouchKey, showing, references, versions, toldGone>>
    BY <1>11 DEF LosesDatabase
  <2>2. overdue' \subseteq Call /\ \A c \in overdue' : c.id \in Minted
    <3> DEFINE sent == {u \in VouchWorkers : vouchJob[u].step = "sent"}
    <3>1. \A w \in sent : /\ [kind |-> vouchJob[w].kind, id |-> vouchJob[w].id] \in Call
                          /\ vouchJob[w].id \in Minted
      BY AtWork DEF Call, NoVouchJob
    <3>2. overdue' = overdue \cup {[kind |-> vouchJob[w].kind, id |-> vouchJob[w].id] : w \in sent}
      BY <1>11 DEF LosesDatabase
    <3>3. QED
      BY <1>s, <3>1, <3>2
  <2>3. NoVouch \in VouchRow /\ NoVouch.state = "none" /\ NoVouchJob \in VouchJob
        /\ NoVouchJob.kind = "none"
    BY DEF NoVouch, VouchRow, VouchJob, NoVouchJob
  <2>4. Minted' = Minted /\ \A i \in VouchIds : vouchRow'[i] = NoVouch
    BY <2>1 DEF Minted
  <2>5. VouchesTypeOK'
    BY <1>t, <2>1, <2>2, <2>3, <2>4 DEF VouchesTypeOK
  <2>6. VouchJobsRead' /\ VouchRowsStand'
    BY <2>1, <2>2, <2>3, <2>4 DEF VouchJobsRead, VouchRowsStand
  <2>7. PeerHeard'
    BY <2>1, <2>3, <2>4 DEF VouchesInv, PeerHeard, Abroad
  <2>8. CopiesSettle' /\ IdsInOrder'
    BY <2>1, <2>4 DEF VouchesInv, CopiesSettle, IdsInOrder
  <2>9. QED
    BY <2>5, <2>6, <2>7, <2>8 DEF VouchesInv
<1>12. ASSUME NEW id \in VouchIds, NEW withdrawn \in BOOLEAN, RestoreVouch(id, withdrawn)
       PROVE  VouchesInv'
  <2>1. /\ <<id, withdrawn>> \in versions /\ offered' = offered \cup {<<id, withdrawn>>}
        /\ UNCHANGED <<vouchKey, settledIn, showing, references, vouchJob, overdue, losses, versions,
                       toldGone>>
    BY <1>12 DEF RestoreVouch
  <2>2. id \in Minted /\ Minted' = Minted
    BY <1>t, <2>1 DEF VouchesTypeOK, Minted
  <2>3. displaced' \subseteq Minted /\ offered' \subseteq versions'
    BY <1>12, <1>t, <2>1, <2>2 DEF RestoreVouch, VouchesTypeOK
  <2>4. \A w \in VouchWorkers : vouchJob[w].kind = "create" => vouchJob[w].id # id
    BY <2>1 DEF VouchesInv, VouchJobsRead
  <2>5. CASE displaced' = displaced \cup {id} /\ vouchRow' = vouchRow /\ ~withdrawn
    <3>1. VouchesTypeOK'
      BY <1>t, <2>1, <2>2, <2>3, <2>5 DEF VouchesTypeOK
    <3>2. VouchJobsRead' /\ VouchRowsStand'
      BY <2>1, <2>2, <2>5 DEF VouchesInv, VouchJobsRead, VouchRowsStand
    <3>3. PeerHeard' /\ IdsInOrder'
      BY <2>1, <2>2 DEF VouchesInv, PeerHeard, Abroad, IdsInOrder
    <3>4. CopiesSettle'
      BY <2>1, <2>2, <2>5 DEF VouchesInv, CopiesSettle
    <3>5. QED
      BY <3>1, <3>2, <3>3, <3>4 DEF VouchesInv
  <2>6. CASE displaced' = displaced \ {id}
             /\ vouchRow' = [vouchRow EXCEPT ![id] = RestoredState(id, withdrawn)]
    <3> DEFINE rowAfter == RestoredState(id, withdrawn)
    <3> HIDE DEF rowAfter
    <3>1. /\ vouchRow'[id] = rowAfter
          /\ \A i \in VouchIds : i # id => vouchRow'[i] = vouchRow[i]
      BY <1>t, <2>6 DEF VouchesTypeOK, rowAfter
    <3>2. /\ rowAfter \in VouchRow
          /\ rowAfter.state # "none"
          /\ withdrawn => rowAfter.state = "withdrawn"
          /\ vouchRow[id].state = "withdrawn" => rowAfter = vouchRow[id]
          /\ rowAfter.state = "live" => ~withdrawn \/ vouchRow[id].state = "live"
          /\ rowAfter.state = "withdrawn" =>
                \/ rowAfter.withdraws = id
                \/ vouchRow[id].state = "withdrawn"
      <4>1. vouchRow[id] \in VouchRow /\ (vouchRow[id].state = "none" => vouchRow[id] = NoVouch)
        BY <1>t DEF VouchesInv, VouchesTypeOK, VouchRowsStand
      <4>2. CASE withdrawn /\ vouchRow[id].state # "withdrawn"
        <5>1. rowAfter = [state |-> "withdrawn", withdraws |-> id]
          BY <4>2 DEF rowAfter, RestoredState
        <5>2. [state |-> "withdrawn", withdraws |-> id] \in VouchRow
          BY DEF VouchRow
        <5>3. QED
          BY <4>2, <5>1, <5>2
      <4>3. CASE ~(withdrawn /\ vouchRow[id].state # "withdrawn") /\ vouchRow[id] = NoVouch
        <5>1. rowAfter = [NoVouch EXCEPT !.state = "live"] /\ ~withdrawn
          BY <4>3 DEF rowAfter, RestoredState, NoVouch
        <5>2. QED
          BY <4>3, <5>1 DEF VouchRow, NoVouch
      <4>4. CASE ~(withdrawn /\ vouchRow[id].state # "withdrawn") /\ vouchRow[id] # NoVouch
        BY <4>1, <4>4 DEF rowAfter, RestoredState
      <4>5. QED
        BY <4>2, <4>3, <4>4
    <3> HIDE DEF rowAfter, RestoredState
    <3>3. vouchRow' \in [VouchIds -> VouchRow]
      BY <1>t, <2>6, <3>2 DEF VouchesTypeOK, rowAfter
    <3>4. VouchesTypeOK'
      BY <1>t, <2>1, <2>2, <2>3, <3>3 DEF VouchesTypeOK
    <3>5. VouchJobsRead'
      <4>1. \A w \in VouchWorkers : vouchJob[w] # NoVouchJob => vouchJob[w].id \in VouchIds
        BY AtWork
      <4>2. \A w \in VouchWorkers : vouchJob[w].kind = "create" =>
                vouchJob[w].id \in VouchIds /\ vouchRow'[vouchJob[w].id] = vouchRow[vouchJob[w].id]
        BY <2>4, <3>1, <4>1 DEF NoVouchJob
      <4>3. \A w \in VouchWorkers : vouchJob[w].kind = "withdraw" =>
                vouchJob[w].id \in VouchIds /\ vouchRow'[vouchJob[w].id].state # "none"
        BY <3>1, <3>2, <4>1 DEF NoVouchJob, VouchesInv, VouchJobsRead
      <4>4. QED
        BY <2>1, <2>2, <4>2, <4>3 DEF VouchesInv, VouchJobsRead
    <3>6. PeerHeard' /\ IdsInOrder'
      BY <2>1, <2>2 DEF VouchesInv, PeerHeard, Abroad, IdsInOrder
    <3>7. \A i \in VouchIds : vouchRow[i].state = "withdrawn" => vouchRow'[i] = vouchRow[i]
      BY <3>1, <3>2
    <3>8. VouchRowsStand'
      <4>1. \A i \in VouchIds : vouchRow'[i].state = "none" => vouchRow'[i] = NoVouch
        BY <3>1, <3>2 DEF VouchesInv, VouchRowsStand
      <4>2. \A i \in VouchIds : vouchRow'[i] # NoVouch => i \in Minted
        BY <2>2, <3>1 DEF VouchesInv, VouchRowsStand
      <4>3. \A i \in VouchIds : vouchRow'[i].state = "live" => <<i, FALSE>> \in versions
        BY <2>1, <3>1, <3>2 DEF VouchesInv, VouchRowsStand
      <4>4. \A i \in VouchIds : vouchRow'[i].state = "withdrawn" =>
                vouchRow'[i].withdraws \in VouchIds
                   /\ vouchRow'[vouchRow'[i].withdraws].state = "withdrawn"
        BY <3>1, <3>2, <3>7 DEF VouchesInv, VouchRowsStand
      <4>5. QED
        BY <2>1, <2>2, <4>1, <4>2, <4>3, <4>4 DEF VouchRowsStand
    <3>9. CopiesSettle'
      <4>1. \A i \in Minted : i \in VouchIds
        BY <1>t DEF VouchesTypeOK
      <4>2. \A i \in Minted : <<i, TRUE>> \in offered' => vouchRow'[i].state = "withdrawn"
        BY <2>1, <3>1, <3>2, <4>1 DEF VouchesInv, CopiesSettle
      <4>3. \A i \in Minted : <<i, FALSE>> \in offered' /\ i \notin displaced' => vouchRow'[i].state # "none"
        BY <2>1, <2>6, <3>1, <3>2, <4>1 DEF VouchesInv, CopiesSettle
      <4>4. QED
        BY <2>2, <4>2, <4>3 DEF CopiesSettle
    <3>10. QED
      BY <3>4, <3>5, <3>6, <3>8, <3>9 DEF VouchesInv
  <2>7. QED
    BY <1>12, <2>5, <2>6 DEF RestoreVouch
<1>13. CASE UNCHANGED vouchVars
  BY <1>13, <1>s, RequestsGoOn DEF vouchVars
<1>14. QED
  BY <1>1, <1>2, <1>3, <1>4, <1>5, <1>6, <1>7, <1>8, <1>9, <1>10, <1>11, <1>12, <1>13
     DEF VouchesNext

\* A stored vouch is found, a withdrawn one stays withdrawn and the copies that
\* come back after a loss settle what is live, for any number of keys,
\* requests, late calls and losses.
THEOREM VouchesAlwaysHold == VouchesSpec => []VouchesHold
<1>1. VouchesInv => VouchesHold
  <2> SUFFICES ASSUME VouchesInv PROVE VouchesHold
    OBVIOUS
  <2>1. \A i \in Minted : i \in VouchIds
    BY DEF VouchesInv, VouchesTypeOK
  <2>2. LiveIsFound
    BY <2>1 DEF VouchesInv, VouchRowsStand, PeerHeard, LiveIsFound
  <2>3. WithdrawalNamesWithdrawn
    BY <2>1 DEF VouchesInv, VouchRowsStand, WithdrawalNamesWithdrawn
  <2>4. QED
    BY <2>2, <2>3 DEF VouchesInv, VouchesHold
<1>2. QED
  BY <1>1, VouchesInitInv, VouchesNextInv, PTL DEF VouchesSpec

-----------------------------------------------------------------------------
(* Flags                                                                   *)

\* A transaction that has locked or deleted its flag's row.
AtItsFlag(w) == flagJob[w].step \in {"withdrawing", "settling"}

\* What a job has read, and goes by.
LeavesIt(j) == j.update = "left"
SawOpen(j) == j.seen[1] = "open"
SawOthers(j) == j.seen[2]
SawOpenOnes(j) == j.seen[3]

\* A flag under way joins a case that stays open, or opens one that is not
\* there; a withdrawal or a removal has its flag, and decides on the case by
\* what it has seen.
FlagJobsRead ==
    \A w \in FlagWorkers :
        /\ flagJob[w].step = "flagging" /\ flagJob[w].opens =>
              caseRow[flagJob[w].case].state = "none"
        /\ flagJob[w].step = "flagging" /\ ~flagJob[w].opens => CaseOpen(flagJob[w].case)
        /\ AtItsFlag(w) =>
              /\ flagRow[flagJob[w].reporter].case = flagJob[w].case
              /\ caseRow[flagJob[w].case].state # "none"
              /\ flagJob[w].update \in {"left", "locked", "waiting"}
        /\ flagJob[w].step = "withdrawing" =>
              /\ ~flagRow[flagJob[w].reporter].withdrawn
              /\ LeavesIt(flagJob[w]) <=> ~(SawOpen(flagJob[w]) /\ SawOpenOnes(flagJob[w]) = {})
        /\ flagJob[w].step = "settling" =>
              /\ SawOpen(flagJob[w])
              /\ LeavesIt(flagJob[w]) <=> SawOpenOnes(flagJob[w]) # {}
              /\ flagJob[w].empty <=> SawOthers(flagJob[w]) = {}

\* One transaction at a time has a flag's row, one a case's, and one the
\* unique index of open cases.
FlagLocks ==
    /\ \A w, v \in FlagWorkers :
          flagJob[w].step = "flagging" /\ flagJob[v].step = "flagging" => w = v
    /\ \A w, v \in FlagWorkers :
          AtItsFlag(w) /\ AtItsFlag(v) /\ flagJob[w].reporter = flagJob[v].reporter => w = v
    /\ \A w, v \in FlagWorkers, c \in Cases : HoldsCase(w, c) /\ HoldsCase(v, c) => w = v

\* Flags are of cases that are or were there; none are left of a deleted one.
FlagsHaveCases ==
    /\ \A r \in Reporters : flagRow[r].case = 0 => flagRow[r] = NoFlag
    /\ \A r \in Reporters : flagRow[r].case # 0 => caseRow[flagRow[r].case].state # "none"
    /\ \A c \in Cases \ tangled : caseRow[c].state \in {"none", "deleted"} => Flagged(c) = {}

FlagTypes == FlagsTypeOK /\ flagJob = [w \in FlagWorkers |-> flagJob[w]]
FlagsInv == FlagTypes /\ FlagJobsRead /\ FlagLocks /\ FlagsHaveCases /\ CasesAddUpUnlessTangled

\* Small facts: idle jobs, empty rows, and what Seen is made of.
LEMMA FlagFacts ==
    /\ NoFlagJob.step = "idle"
    /\ NoFlag.case = 0 /\ ~NoFlag.withdrawn /\ NoFlag \in FlagRow
    /\ 0 \notin Cases
BY DEF NoFlagJob, NoFlag, FlagRow, Cases

\* It holds before the first flag.
LEMMA FlagsInitInv == FlagsInit => FlagsInv
<1> SUFFICES ASSUME FlagsInit PROVE FlagsInv
  OBVIOUS
<1> USE FlagsAssumption, FlagFacts
<1>1. /\ \A w \in FlagWorkers : flagJob[w] = NoFlagJob
      /\ \A c \in Cases : caseRow[c].state = "none" /\ Flagged(c) = {}
      /\ \A r \in Reporters : flagRow[r] = NoFlag /\ taken[r] = 0
  BY DEF FlagsInit, Flagged
<1>2. FlagTypes
  BY DEF FlagsInit, FlagTypes, FlagsTypeOK, CaseRow
<1>3. FlagJobsRead /\ FlagLocks
  BY <1>1 DEF FlagJobsRead, FlagLocks, AtItsFlag, HoldsCase
<1>4. FlagsHaveCases /\ CasesAddUpUnlessTangled
  BY <1>1 DEF FlagsHaveCases, CasesAddUpUnlessTangled, CaseOpen
<1>5. QED
  BY <1>2, <1>3, <1>4 DEF FlagsInv

\* Setting one job leaves the others.
LEMMA OneJobSet ==
    ASSUME FlagTypes, NEW w \in FlagWorkers, NEW j, flagJob' = [flagJob EXCEPT ![w] = j]
    PROVE  /\ flagJob'[w] = j /\ flagJob' = [v \in FlagWorkers |-> flagJob'[v]]
           /\ \A v \in FlagWorkers : v # w => flagJob'[v] = flagJob[v]
BY DEF FlagTypes

\* Jobs that go on keep what they have read and locked, when others end and
\* the rows they go by stay.
LEMMA JobsGoOn ==
    ASSUME FlagsInv, \A w \in FlagWorkers : flagJob'[w] = NoFlagJob \/ flagJob'[w] = flagJob[w],
           \A w \in FlagWorkers : flagJob'[w].step = "flagging" =>
              caseRow'[flagJob[w].case].state = caseRow[flagJob[w].case].state,
           \A w \in FlagWorkers : flagJob'[w].step \in {"withdrawing", "settling"} =>
              flagRow'[flagJob[w].reporter] = flagRow[flagJob[w].reporter],
           \A c \in Cases : caseRow[c].state # "none" => caseRow'[c].state # "none"
    PROVE  FlagJobsRead' /\ FlagLocks'
<1> USE FlagFacts DEF FlagsInv
<1>1. \A w \in FlagWorkers : AtItsFlag(w) => flagJob[w].case \in Cases
  BY DEF AtItsFlag, FlagTypes, FlagsTypeOK
<1>2. FlagJobsRead'
  BY <1>1 DEF FlagJobsRead, AtItsFlag, CaseOpen
<1>3. \A w \in FlagWorkers, c \in Cases : HoldsCase(w, c)' => HoldsCase(w, c)
  BY DEF HoldsCase
<1>4. \A w \in FlagWorkers : AtItsFlag(w)' => AtItsFlag(w) /\ flagJob'[w] = flagJob[w]
  BY DEF AtItsFlag
<1>5. FlagLocks'
  BY <1>3, <1>4 DEF FlagLocks
<1>6. QED
  BY <1>2, <1>5

\* What the cases add up to does not depend on the jobs.
LEMMA RowsUntouched ==
    ASSUME FlagsInv, UNCHANGED <<caseRow, flagRow, removed, taken, tangled>>
    PROVE  FlagsHaveCases' /\ CasesAddUpUnlessTangled'
BY DEF FlagsInv, FlagsHaveCases, CasesAddUpUnlessTangled, Flagged, OpenIn, CaseOpen

\* A job that starts has found what it needs free.
LEMMA JobStarts ==
    ASSUME FlagsInv, NEW w \in FlagWorkers, NEW j,
           flagJob' = [flagJob EXCEPT ![w] = j], flagJob[w] = NoFlagJob, j # NoFlagJob,
           UNCHANGED <<caseRow, flagRow, removed, lockdown, taken, tangled>>,
           j.step \in {"flagging", "withdrawing", "settling"},
           j.reporter \in Reporters, j.case \in Cases,
           j.step = "flagging" => FirstToFlag,
           j.step = "flagging" /\ j.opens => caseRow[j.case].state = "none",
           j.step = "flagging" /\ ~j.opens => CaseOpen(j.case) /\ CaseFree(j.case),
           j.step # "flagging" =>
              /\ FlagFree(j.reporter)
              /\ flagRow[j.reporter].case = j.case /\ caseRow[j.case].state # "none"
              /\ j.update \in {"left", "locked", "waiting"}
              /\ j.update = "locked" => CaseFree(j.case),
           j.step = "withdrawing" =>
              /\ ~flagRow[j.reporter].withdrawn
              /\ LeavesIt(j) <=> ~(SawOpen(j) /\ SawOpenOnes(j) = {}),
           j.step = "settling" =>
              SawOpen(j) /\ (LeavesIt(j) <=> SawOpenOnes(j) # {}) /\ (j.empty <=> SawOthers(j) = {})
    PROVE  FlagsInv'
<1> USE FlagFacts DEF FlagsInv
<1>1. /\ flagJob'[w] = j /\ flagJob' = [v \in FlagWorkers |-> flagJob'[v]]
      /\ \A v \in FlagWorkers : v # w => flagJob'[v] = flagJob[v]
  BY OneJobSet
<1>2. FlagTypes'
  BY <1>1 DEF FlagTypes, FlagsTypeOK
<1>3. FlagJobsRead'
  BY <1>1, SMTT(30) DEF FlagJobsRead, AtItsFlag, CaseOpen
<1>4. FlagLocks'
  <2>1. \A v \in FlagWorkers, c \in Cases : v # w => (HoldsCase(v, c)' <=> HoldsCase(v, c))
    BY <1>1 DEF HoldsCase
  <2>2. \A c \in Cases : HoldsCase(w, c)' => c = j.case /\ CaseFree(j.case)
    BY <1>1 DEF HoldsCase
  <2>3. \A v \in FlagWorkers, c \in Cases : HoldsCase(v, c)' /\ HoldsCase(w, c)' => v = w
    BY <2>1, <2>2 DEF CaseFree
  <2>4. \A v \in FlagWorkers : v # w => (AtItsFlag(v)' <=> AtItsFlag(v))
    BY <1>1 DEF AtItsFlag
  <2>5. \A v \in FlagWorkers : AtItsFlag(w)' /\ AtItsFlag(v) => flagJob[v].reporter # j.reporter
    BY <1>1 DEF AtItsFlag, FlagFree
  <2>6. QED
    BY <1>1, <2>1, <2>3, <2>4, <2>5 DEF FlagLocks, FirstToFlag
<1>5. QED
  BY <1>2, <1>3, <1>4, RowsUntouched

\* What a statement sees of a case, piece by piece.
LEMMA SeenParts ==
    ASSUME NEW c, NEW r
    PROVE  /\ Seen(c, r)[1] = caseRow[c].state
           /\ Seen(c, r)[2] = Flagged(c) \ {r} /\ Seen(c, r)[3] = OpenIn(c) \ {r}
BY DEF Seen

\* What was seen is so when it is not stale.
LEMMA SeenStill ==
    ASSUME NEW w \in FlagWorkers, ~Stale(w)
    PROVE  LET j == flagJob[w] IN
           /\ SawOpen(j) <=> CaseOpen(j.case)
           /\ SawOthers(j) = Flagged(j.case) \ {j.reporter}
           /\ SawOpenOnes(j) = OpenIn(j.case) \ {j.reporter}
<1>1. flagJob[w].seen = Seen(flagJob[w].case, flagJob[w].reporter)
  BY DEF Stale
<1>2. QED
  BY <1>1, SeenParts DEF SawOpen, SawOthers, SawOpenOnes, CaseOpen

\* Whoever updates a case has its row: no flag is joining it, and none opens it.
LEMMA UpdatesAlone ==
    ASSUME FlagsInv, NEW w \in FlagWorkers, AtItsFlag(w), Reached(w), ~LeavesIt(flagJob[w]),
           NEW v \in FlagWorkers, flagJob[v].step = "flagging"
    PROVE  flagJob[v].case # flagJob[w].case
<1> USE FlagFacts DEF FlagsInv
<1>1. flagJob[w].case \in Cases /\ flagJob[w].update \in {"locked", "waiting"} /\ v # w
  BY DEF AtItsFlag, FlagTypes, FlagsTypeOK, FlagJobsRead, LeavesIt
<1>2. SUFFICES ASSUME flagJob[v].case = flagJob[w].case PROVE FALSE
  OBVIOUS
<1>3. ~flagJob[v].opens
  BY <1>2 DEF FlagJobsRead
<1>4. HoldsCase(v, flagJob[w].case)
  BY <1>2, <1>3 DEF HoldsCase
<1>5. flagJob[w].update = "locked"
  BY <1>1, <1>4 DEF Reached, CaseFree
<1>6. HoldsCase(w, flagJob[w].case)
  BY <1>5 DEF HoldsCase, AtItsFlag
<1>7. QED
  BY <1>1, <1>4, <1>6 DEF FlagLocks

\* Void voids an open case and leaves the others.
LEMMA VoidOne ==
    ASSUME NEW rows \in [Cases -> CaseRow], NEW c \in Cases
    PROVE  /\ Void(rows, c) \in [Cases -> CaseRow]
           /\ \A d \in Cases : d # c => Void(rows, c)[d] = rows[d]
           /\ Void(rows, c)[c].state = IF rows[c].state = "open" THEN "void" ELSE rows[c].state
BY DEF Void, CaseRow

\* StoreFlag's commit.
LEMMA FlagStoredInv ==
    ASSUME FlagsInv, NEW w \in FlagWorkers, FlagStored(w)
    PROVE  FlagsInv'
<1> USE FlagFacts DEF FlagsInv
<1>0. PICK r \in Reporters, c \in Cases : r = flagJob[w].reporter /\ c = flagJob[w].case
  BY DEF FlagStored, FlagTypes, FlagsTypeOK
<1> USE <1>0
<1>1. /\ flagJob[w].step = "flagging" /\ flagRow[r] = NoFlag
      /\ flagJob' = [flagJob EXCEPT ![w] = NoFlagJob]
  BY DEF FlagStored, FlagJobDone
<1>2. /\ flagJob'[w] = NoFlagJob /\ flagJob' = [v \in FlagWorkers |-> flagJob'[v]]
      /\ \A v \in FlagWorkers : v # w => flagJob'[v] = flagJob[v]
  BY <1>1, OneJobSet
<1>3. /\ caseRow' \in [Cases -> CaseRow] /\ caseRow'[c].state = "open"
      /\ \A d \in Cases : d # c => caseRow'[d] = caseRow[d]
  BY <1>1, SMTT(30) DEF FlagStored, FlagTypes, FlagsTypeOK, FlagJobsRead, CaseOpen, CaseRow
<1>4. /\ flagRow' \in [Reporters -> FlagRow]
      /\ flagRow'[r].case = c /\ ~flagRow'[r].withdrawn
      /\ \A q \in Reporters : q # r => flagRow'[q] = flagRow[q]
  BY <1>1 DEF FlagStored, FlagTypes, FlagsTypeOK, FlagRow
<1>5. /\ taken' \in [Reporters -> Cases \cup {0}] /\ taken'[r] = c
      /\ \A q \in Reporters : q # r => taken'[q] = taken[q]
  BY <1>1 DEF FlagStored, FlagTypes, FlagsTypeOK
<1>6. /\ removed' = removed /\ lockdown' = lockdown
      /\ tangled \subseteq tangled' /\ tangled' \subseteq tangled \cup {c}
      /\ r \in removed => c \in tangled'
  BY <1>1 DEF FlagStored
<1>7. FlagTypes'
  BY <1>1, <1>2, <1>3, <1>4, <1>5, <1>6 DEF FlagTypes, FlagsTypeOK
<1>8. FlagJobsRead' /\ FlagLocks'
  <2>1. \A v \in FlagWorkers : v # w => flagJob[v].step # "flagging"
    BY <1>1 DEF FlagLocks
  <2>2. \A v \in FlagWorkers : AtItsFlag(v) =>
            v # w /\ flagJob[v].reporter \in Reporters /\ flagJob[v].case \in Cases
               /\ flagRow[flagJob[v].reporter].case # 0
    BY <1>1 DEF AtItsFlag, FlagTypes, FlagsTypeOK, FlagJobsRead
  <2>3. \A v \in FlagWorkers : AtItsFlag(v) => flagJob[v].reporter # r
    BY <1>1, <2>2
  <2>4. \A d \in Cases : caseRow[d].state # "none" => caseRow'[d].state # "none"
    BY <1>3
  <2>5. QED
    BY <1>2, <1>4, <2>1, <2>2, <2>3, <2>4, JobsGoOn DEF AtItsFlag
<1>9. /\ Flagged(c)' = Flagged(c) \cup {r} /\ OpenIn(c)' = OpenIn(c) \cup {r}
      /\ \A d \in Cases : d # c => Flagged(d)' = Flagged(d) /\ OpenIn(d)' = OpenIn(d)
  BY <1>1, <1>4 DEF Flagged, OpenIn
<1>10. FlagsHaveCases'
  <2>1. \A d \in Cases \ tangled' : caseRow'[d].state \in {"none", "deleted"} => Flagged(d)' = {}
    BY <1>3, <1>6, <1>9 DEF FlagsHaveCases
  <2>2. \A q \in Reporters : flagRow'[q].case = 0 => flagRow'[q] = NoFlag
    BY <1>4 DEF FlagsHaveCases
  <2>3. \A q \in Reporters : flagRow[q].case \in Cases \cup {0}
    BY DEF FlagTypes, FlagsTypeOK, FlagRow
  <2>4. \A q \in Reporters : flagRow'[q].case # 0 => caseRow'[flagRow'[q].case].state # "none"
    BY <1>3, <1>4, <2>3 DEF FlagsHaveCases
  <2>5. QED
    BY <2>1, <2>2, <2>4 DEF FlagsHaveCases
<1>11. CasesAddUpUnlessTangled'
  <2> SUFFICES ASSUME NEW d \in Cases \ tangled'
               PROVE  /\ CaseOpen(d)' => OpenIn(d)' # {} /\ OpenIn(d)' \cap removed = {}
                      /\ caseRow'[d].state = "void" => Flagged(d)' # {} /\ OpenIn(d)' = {}
                      /\ \A q \in Reporters : taken'[q] = d => flagRow'[q].case = d
    BY <1>6 DEF CasesAddUpUnlessTangled
  <2>1. CASE d # c
    BY <1>1, <1>3, <1>4, <1>5, <1>6, <1>9, <2>1 DEF CasesAddUpUnlessTangled, CaseOpen
  <2>2. CASE d = c
    <3>1. OpenIn(c) \cap removed = {} /\ r \notin removed
      <4>1. caseRow[c].state \in {"none", "open"}
        BY <1>1 DEF FlagJobsRead, CaseOpen, FlagTypes, FlagsTypeOK
      <4>2. OpenIn(c) \subseteq Flagged(c)
        BY DEF OpenIn
      <4>3. QED
        BY <1>1, <1>6, <2>2, <4>1, <4>2 DEF CasesAddUpUnlessTangled, CaseOpen, FlagsHaveCases
    <3>2. \A q \in Reporters : q # r /\ taken[q] = c => flagRow[q].case = c
      BY <1>6, <2>2 DEF CasesAddUpUnlessTangled
    <3>3. QED
      BY <1>3, <1>4, <1>5, <1>9, <2>2, <3>1, <3>2 DEF CaseOpen
  <2>3. QED
    BY <2>1, <2>2
<1>12. QED
  BY <1>7, <1>8, <1>10, <1>11

\* WithdrawFlag's commit, and the voiding of what is withdrawn altogether.
LEMMA WithdrawalStoredInv ==
    ASSUME FlagsInv, NEW w \in FlagWorkers, WithdrawalStored(w)
    PROVE  FlagsInv'
<1> USE FlagFacts DEF FlagsInv
<1>0. PICK r \in Reporters, c \in Cases : r = flagJob[w].reporter /\ c = flagJob[w].case
  BY DEF WithdrawalStored, FlagTypes, FlagsTypeOK
<1> USE <1>0
<1>1. /\ flagJob[w].step = "withdrawing" /\ AtItsFlag(w) /\ Reached(w)
      /\ flagJob' = [flagJob EXCEPT ![w] = NoFlagJob]
      /\ flagRow' = [flagRow EXCEPT ![r].withdrawn = TRUE]
      /\ caseRow' = IF LeavesIt(flagJob[w]) THEN caseRow ELSE Void(caseRow, c)
      /\ UNCHANGED <<removed, lockdown, taken>>
      /\ tangled' = IF Stale(w) THEN tangled \cup {c} ELSE tangled
  BY DEF WithdrawalStored, FlagJobDone, AtItsFlag, LeavesIt
<1>2. /\ flagJob'[w] = NoFlagJob /\ flagJob' = [v \in FlagWorkers |-> flagJob'[v]]
      /\ \A v \in FlagWorkers : v # w => flagJob'[v] = flagJob[v]
  BY <1>1, OneJobSet
<1>3. /\ caseRow' \in [Cases -> CaseRow]
      /\ \A d \in Cases : d # c => caseRow'[d] = caseRow[d]
      /\ caseRow'[c].state = IF ~LeavesIt(flagJob[w]) /\ caseRow[c].state = "open"
                                THEN "void" ELSE caseRow[c].state
  BY <1>1, VoidOne DEF FlagTypes, FlagsTypeOK
<1>4. /\ flagRow' \in [Reporters -> FlagRow]
      /\ flagRow'[r].case = c /\ flagRow'[r].withdrawn
      /\ flagRow[r].case = c /\ ~flagRow[r].withdrawn
      /\ \A q \in Reporters : q # r => flagRow'[q] = flagRow[q]
  BY <1>1 DEF FlagTypes, FlagsTypeOK, FlagRow, FlagJobsRead
<1>5. FlagTypes'
  BY <1>1, <1>2, <1>3, <1>4 DEF FlagTypes, FlagsTypeOK
<1>6. FlagJobsRead' /\ FlagLocks'
  <2>1. \A v \in FlagWorkers : v # w /\ AtItsFlag(v) =>
            flagJob[v].reporter \in Reporters /\ flagJob[v].reporter # r
    BY <1>1 DEF FlagLocks, AtItsFlag, FlagTypes, FlagsTypeOK
  <2>2. \A v \in FlagWorkers : flagJob[v].step = "flagging" =>
            caseRow'[flagJob[v].case].state = caseRow[flagJob[v].case].state
    BY <1>1, <1>3, UpdatesAlone DEF FlagTypes, FlagsTypeOK
  <2>3. \A d \in Cases : caseRow[d].state # "none" => caseRow'[d].state # "none"
    BY <1>3
  <2>4. QED
    BY <1>2, <1>4, <2>1, <2>2, <2>3, JobsGoOn DEF AtItsFlag
<1>7. /\ Flagged(c)' = Flagged(c) /\ r \in Flagged(c) /\ r \in OpenIn(c)
      /\ OpenIn(c)' = OpenIn(c) \ {r}
      /\ \A d \in Cases : d # c => Flagged(d)' = Flagged(d) /\ OpenIn(d)' = OpenIn(d)
  BY <1>1, <1>4 DEF Flagged, OpenIn
<1>8. FlagsHaveCases'
  <2>1. \A d \in Cases \ tangled' : caseRow'[d].state \in {"none", "deleted"} => Flagged(d)' = {}
    BY <1>1, <1>3, <1>7 DEF FlagsHaveCases
  <2>2. \A q \in Reporters : flagRow'[q].case = 0 => flagRow'[q] = NoFlag
    BY <1>4 DEF FlagsHaveCases
  <2>3. \A q \in Reporters : flagRow[q].case \in Cases \cup {0} /\ flagRow'[q].case = flagRow[q].case
    BY <1>4 DEF FlagTypes, FlagsTypeOK, FlagRow
  <2>4. \A q \in Reporters : flagRow'[q].case # 0 => caseRow'[flagRow'[q].case].state # "none"
    BY <1>3, <2>3 DEF FlagsHaveCases
  <2>5. QED
    BY <2>1, <2>2, <2>4 DEF FlagsHaveCases
<1>9. CasesAddUpUnlessTangled'
  <2> SUFFICES ASSUME NEW d \in Cases \ tangled'
               PROVE  /\ CaseOpen(d)' => OpenIn(d)' # {} /\ OpenIn(d)' \cap removed = {}
                      /\ caseRow'[d].state = "void" => Flagged(d)' # {} /\ OpenIn(d)' = {}
                      /\ \A q \in Reporters : taken'[q] = d => flagRow'[q].case = d
    BY <1>1 DEF CasesAddUpUnlessTangled
  <2>0. \A q \in Reporters : taken'[q] = d => flagRow'[q].case = d
    BY <1>1, <1>4 DEF CasesAddUpUnlessTangled
  <2>1. CASE d # c
    BY <1>1, <1>3, <1>7, <2>0, <2>1 DEF CasesAddUpUnlessTangled, CaseOpen
  <2>2. CASE d = c
    <3>1. /\ SawOpen(flagJob[w]) <=> CaseOpen(c)
          /\ SawOpenOnes(flagJob[w]) = OpenIn(c) \ {r}
      BY <1>1, <2>2, SeenStill
    <3>2. LeavesIt(flagJob[w]) <=> ~(CaseOpen(c) /\ OpenIn(c) \ {r} = {})
      BY <1>1, <3>1 DEF FlagJobsRead
    <3>3. /\ caseRow[c].state # "void"
          /\ CaseOpen(c) => OpenIn(c) \cap removed = {}
      BY <1>1, <1>7, <2>2 DEF CasesAddUpUnlessTangled
    <3>4. QED
      BY <1>3, <1>7, <2>0, <2>2, <3>2, <3>3 DEF CaseOpen
  <2>3. QED
    BY <2>1, <2>2
<1>10. QED
  BY <1>5, <1>6, <1>8, <1>9

\* settleAccountRemovalTx's commit: the flag is gone, and the case if it was
\* the only one.
LEMMA RemovalSettledInv ==
    ASSUME FlagsInv, NEW w \in FlagWorkers, RemovalSettled(w)
    PROVE  FlagsInv'
<1> USE FlagFacts DEF FlagsInv
<1>0. PICK r \in Reporters, c \in Cases, goes \in BOOLEAN :
        /\ r = flagJob[w].reporter /\ c = flagJob[w].case
        /\ goes = (flagJob[w].update # "left" /\ flagJob[w].empty)
  BY DEF RemovalSettled, FlagTypes, FlagsTypeOK
<1> USE <1>0
<1>1. /\ flagJob[w].step = "settling" /\ AtItsFlag(w) /\ Reached(w)
      /\ flagJob' = [flagJob EXCEPT ![w] = NoFlagJob]
      /\ removed' = removed \cup {r} /\ lockdown' = lockdown
      /\ goes => \A q \in Flagged(c) \ {r} : FlagFree(q)
      /\ tangled' = IF Stale(w) THEN tangled \cup {c} ELSE tangled
  BY DEF RemovalSettled, FlagJobDone, AtItsFlag
<1>2. /\ flagJob'[w] = NoFlagJob /\ flagJob' = [v \in FlagWorkers |-> flagJob'[v]]
      /\ \A v \in FlagWorkers : v # w => flagJob'[v] = flagJob[v]
  BY <1>1, OneJobSet
<1>3. /\ caseRow' \in [Cases -> CaseRow]
      /\ \A d \in Cases : d # c => caseRow'[d] = caseRow[d]
      /\ caseRow'[c].state = IF goes THEN "deleted"
                             ELSE IF ~LeavesIt(flagJob[w]) /\ caseRow[c].state = "open"
                                THEN "void" ELSE caseRow[c].state
  <2>1. CASE goes
    <3>1. caseRow' = [caseRow EXCEPT ![c].state = "deleted"]
      BY <2>1 DEF RemovalSettled
    <3>2. QED
      BY <2>1, <3>1 DEF FlagTypes, FlagsTypeOK, CaseRow
  <2>2. CASE ~goes
    <3>1. caseRow' = IF LeavesIt(flagJob[w]) THEN caseRow ELSE Void(caseRow, c)
      BY <2>2 DEF RemovalSettled, LeavesIt
    <3>2. QED
      BY <2>2, <3>1, VoidOne DEF FlagTypes, FlagsTypeOK
  <2>3. QED
    BY <2>1, <2>2
<1>4. /\ flagRow' \in [Reporters -> FlagRow] /\ flagRow[r].case = c /\ flagRow'[r] = NoFlag
      /\ \A q \in Reporters : flagRow'[q] = IF q = r \/ (goes /\ q \in Flagged(c))
                                            THEN NoFlag ELSE flagRow[q]
  <2>1. flagRow' = [q \in Reporters |-> IF q = r \/ (goes /\ q \in Flagged(c))
                                        THEN NoFlag ELSE flagRow[q]]
    BY DEF RemovalSettled
  <2>2. flagRow[r].case = c
    BY <1>1 DEF FlagJobsRead
  <2>3. QED
    BY <2>1, <2>2 DEF FlagTypes, FlagsTypeOK
<1>5. /\ taken' \in [Reporters -> Cases \cup {0}] /\ taken'[r] = 0
      /\ \A q \in Reporters : q # r => taken'[q] = taken[q]
  BY DEF RemovalSettled, FlagTypes, FlagsTypeOK
<1>6. FlagTypes'
  BY <1>1, <1>2, <1>3, <1>4, <1>5 DEF FlagTypes, FlagsTypeOK
<1>7. FlagJobsRead' /\ FlagLocks'
  <2>1. \A v \in FlagWorkers : v # w /\ AtItsFlag(v) =>
            flagJob[v].reporter \in Reporters /\ flagJob[v].reporter # r
    BY <1>1 DEF FlagLocks, AtItsFlag, FlagTypes, FlagsTypeOK
  <2>2. \A v \in FlagWorkers : v # w /\ AtItsFlag(v) /\ goes => flagJob[v].reporter \notin Flagged(c)
    BY <1>1, <2>1 DEF FlagFree, AtItsFlag
  <2>3. goes => ~LeavesIt(flagJob[w])
    BY DEF LeavesIt
  <2>4. \A v \in FlagWorkers : flagJob[v].step = "flagging" =>
            caseRow'[flagJob[v].case].state = caseRow[flagJob[v].case].state
    BY <1>1, <1>3, <2>3, UpdatesAlone DEF FlagTypes, FlagsTypeOK
  <2>5. \A d \in Cases : caseRow[d].state # "none" => caseRow'[d].state # "none"
    BY <1>3
  <2>6. QED
    BY <1>2, <1>4, <2>1, <2>2, <2>4, <2>5, JobsGoOn DEF AtItsFlag
<1>8. /\ r \in Flagged(c)
      /\ Flagged(c)' = IF goes THEN {} ELSE Flagged(c) \ {r}
      /\ OpenIn(c)' = IF goes THEN {} ELSE OpenIn(c) \ {r}
      /\ \A d \in Cases : d # c => /\ Flagged(d)' = Flagged(d) /\ OpenIn(d)' = OpenIn(d)
                                   /\ r \notin OpenIn(d)
  BY <1>4 DEF Flagged, OpenIn
<1>9. FlagsHaveCases'
  <2>1. \A d \in Cases \ tangled' : caseRow'[d].state \in {"none", "deleted"} => Flagged(d)' = {}
    BY <1>1, <1>3, <1>8 DEF FlagsHaveCases
  <2>2. \A q \in Reporters : flagRow'[q].case = 0 => flagRow'[q] = NoFlag
    BY <1>4 DEF FlagsHaveCases
  <2>3. \A q \in Reporters : flagRow[q].case \in Cases \cup {0}
                             /\ flagRow'[q].case \in {0, flagRow[q].case}
    BY <1>4 DEF FlagTypes, FlagsTypeOK, FlagRow
  <2>4. \A q \in Reporters : flagRow'[q].case # 0 => caseRow'[flagRow'[q].case].state # "none"
    BY <1>3, <2>3 DEF FlagsHaveCases
  <2>5. QED
    BY <2>1, <2>2, <2>4 DEF FlagsHaveCases
<1>10. CasesAddUpUnlessTangled'
  <2> SUFFICES ASSUME NEW d \in Cases \ tangled'
               PROVE  /\ CaseOpen(d)' => OpenIn(d)' # {} /\ OpenIn(d)' \cap removed' = {}
                      /\ caseRow'[d].state = "void" => Flagged(d)' # {} /\ OpenIn(d)' = {}
                      /\ \A q \in Reporters : taken'[q] = d => flagRow'[q].case = d
    BY <1>1 DEF CasesAddUpUnlessTangled
  <2>1. CASE d # c
    <3>1. \A q \in Reporters : taken[q] = d => flagRow[q].case = d
      BY <1>1, <2>1 DEF CasesAddUpUnlessTangled
    <3>2. \A q \in Reporters : taken'[q] = d => flagRow'[q].case = d
      BY <1>4, <1>5, <2>1, <3>1 DEF Flagged
    <3>3. QED
      BY <1>1, <1>3, <1>8, <2>1, <3>2 DEF CasesAddUpUnlessTangled, CaseOpen
  <2>2. CASE d = c
    <3>1. /\ SawOpen(flagJob[w]) <=> CaseOpen(c)
          /\ SawOthers(flagJob[w]) = Flagged(c) \ {r}
          /\ SawOpenOnes(flagJob[w]) = OpenIn(c) \ {r}
      BY <1>1, <2>2, SeenStill
    <3>2. /\ CaseOpen(c)
          /\ LeavesIt(flagJob[w]) <=> OpenIn(c) \ {r} # {}
          /\ flagJob[w].empty <=> Flagged(c) \ {r} = {}
      BY <1>1, <3>1 DEF FlagJobsRead
    <3>3. OpenIn(c) \cap removed = {} /\ \A q \in Reporters : taken[q] = c => q \in Flagged(c)
      BY <1>1, <2>2, <3>2 DEF CasesAddUpUnlessTangled, Flagged
    <3>4. goes <=> ~LeavesIt(flagJob[w]) /\ Flagged(c) \ {r} = {}
      BY <3>2 DEF LeavesIt
    <3>5. \A q \in Reporters : taken'[q] = c => flagRow'[q].case = c
      BY <1>4, <1>5, <3>3, <3>4 DEF Flagged
    <3>6. QED
      BY <1>1, <1>3, <1>8, <2>2, <3>2, <3>3, <3>4, <3>5 DEF CaseOpen
  <2>3. QED
    BY <2>1, <2>2
<1>11. QED
  BY <1>6, <1>7, <1>9, <1>10

\* Every kind of transaction starts on what JobStarts asks for.
LEMMA FlagStartsInv ==
    ASSUME FlagsInv, NEW w \in FlagWorkers, NEW r \in Reporters,
           \/ \E c \in Cases : FlagJoins(w, r, c) \/ FlagOpens(w, r, c)
           \/ WithdrawFlag(w, r) \/ SettleRemoval(w, r)
    PROVE  FlagsInv'
<1> USE FlagFacts
<1>1. ASSUME NEW c \in Cases, FlagJoins(w, r, c) PROVE FlagsInv'
  <2>1. PICK j : j = [step |-> "flagging", reporter |-> r, case |-> c, opens |-> FALSE]
    OBVIOUS
  <2>2. j.step = "flagging" /\ j.reporter = r /\ j.case = c /\ ~j.opens /\ j # NoFlagJob
    BY <2>1
  <2>3. QED
    BY <1>1, <2>1, <2>2, JobStarts DEF FlagJoins, Joinable, JoinsFree
<1>2. ASSUME NEW c \in Cases, FlagOpens(w, r, c) PROVE FlagsInv'
  <2>1. PICK j : j = [step |-> "flagging", reporter |-> r, case |-> c, opens |-> TRUE]
    OBVIOUS
  <2>2. j.step = "flagging" /\ j.reporter = r /\ j.case = c /\ j.opens /\ j # NoFlagJob
    BY <2>1
  <2>3. QED
    BY <1>2, <2>1, <2>2, JobStarts DEF FlagOpens
<1>3. flagRow[r].case # 0 => flagRow[r].case \in Cases /\ caseRow[flagRow[r].case].state # "none"
  BY DEF FlagsInv, FlagTypes, FlagsTypeOK, FlagRow, FlagsHaveCases
<1>4. CASE WithdrawFlag(w, r)
  <2>0. PICK c \in Cases : c = flagRow[r].case
    BY <1>3, <1>4 DEF WithdrawFlag
  <2>1. PICK u : u = IF CaseOpen(c) /\ Finished(c, r) THEN Reach(c) ELSE "left"
    OBVIOUS
  <2>2. PICK j : j = [step |-> "withdrawing", reporter |-> r, case |-> c, seen |-> Seen(c, r),
                      update |-> u]
    OBVIOUS
  <2>3. /\ j.step = "withdrawing" /\ j.reporter = r /\ j.case = c /\ j.update = u
        /\ j.seen = Seen(c, r) /\ j # NoFlagJob
    BY <2>2
  <2>4. /\ u \in {"left", "locked", "waiting"} /\ (u = "locked" => CaseFree(c))
        /\ u = "left" <=> ~(CaseOpen(c) /\ OpenIn(c) \ {r} = {})
    BY <2>1 DEF Reach, Finished
  <2>5. LeavesIt(j) <=> ~(SawOpen(j) /\ SawOpenOnes(j) = {})
    BY <2>3, <2>4, SeenParts DEF LeavesIt, SawOpen, SawOpenOnes, CaseOpen
  <2>6. /\ flagJob' = [flagJob EXCEPT ![w] = j] /\ flagJob[w] = NoFlagJob
        /\ UNCHANGED <<caseRow, flagRow, removed, lockdown, taken, tangled>>
        /\ FlagFree(r) /\ ~flagRow[r].withdrawn
    BY <1>4, <2>0, <2>1, <2>2 DEF WithdrawFlag
  <2>7. QED
    BY <1>3, <2>0, <2>3, <2>4, <2>5, <2>6, JobStarts
<1>5. CASE SettleRemoval(w, r)
  <2>0. PICK c \in Cases : c = flagRow[r].case
    BY <1>3, <1>5 DEF SettleRemoval
  <2>1. PICK u : u = IF Finished(c, r) THEN Reach(c) ELSE "left"
    OBVIOUS
  <2> DEFINE alone == Flagged(c) = {r}
  <2> HIDE DEF alone
  <2>2. PICK j : j = [step |-> "settling", reporter |-> r, case |-> c, seen |-> Seen(c, r),
                      empty |-> alone, update |-> u]
    OBVIOUS
  <2>3. /\ j.step = "settling" /\ j.reporter = r /\ j.case = c /\ j.update = u
        /\ j.seen = Seen(c, r) /\ j.empty = alone /\ j # NoFlagJob
    BY <2>2
  <2>4. /\ u \in {"left", "locked", "waiting"} /\ (u = "locked" => CaseFree(c))
        /\ u = "left" <=> OpenIn(c) \ {r} # {}
    BY <2>1 DEF Reach, Finished
  <2>5. r \in Flagged(c)
    BY <2>0 DEF Flagged
  <2>6. /\ flagJob' = [flagJob EXCEPT ![w] = j] /\ flagJob[w] = NoFlagJob
        /\ UNCHANGED <<caseRow, flagRow, removed, lockdown, taken, tangled>>
        /\ FlagFree(r) /\ CaseOpen(c)
    BY <1>5, <2>0, <2>1, <2>2 DEF SettleRemoval, alone
  <2>7. SawOpen(j) /\ (LeavesIt(j) <=> SawOpenOnes(j) # {}) /\ (j.empty <=> SawOthers(j) = {})
    <3>1. alone <=> SawOthers(j) = {}
      BY <2>3, <2>5, SeenParts DEF SawOthers, alone
    <3>2. j.empty <=> SawOthers(j) = {}
      BY <2>3, <3>1
    <3>3. QED
      BY <2>3, <2>4, <2>6, <3>2, SeenParts DEF LeavesIt, SawOpen, SawOpenOnes, CaseOpen
  <2>8. QED
    BY <1>3, <2>0, <2>3, <2>4, <2>6, <2>7, JobStarts, ZenonT(40)
<1>6. QED
  BY <1>1, <1>2, <1>4, <1>5

\* A job that ends, and all of them at a restart.
LEMMA FlagJobsEndInv ==
    ASSUME FlagsInv, EndLockdown \/ \E w \in FlagWorkers : FlagJobFails(w)
    PROVE  FlagsInv'
<1>1. /\ \A v \in FlagWorkers : flagJob'[v] = NoFlagJob \/ flagJob'[v] = flagJob[v]
      /\ flagJob' = [v \in FlagWorkers |-> flagJob'[v]]
      /\ UNCHANGED <<caseRow, flagRow, removed, taken, tangled>> /\ lockdown' \in {lockdown, FALSE}
  BY OneJobSet DEF EndLockdown, FlagJobFails, FlagJobDone, FlagsInv, FlagTypes
<1>2. FlagTypes'
  BY <1>1 DEF FlagsInv, FlagTypes, FlagsTypeOK
<1>3. FlagJobsRead' /\ FlagLocks'
  BY <1>1, JobsGoOn
<1>4. QED
  BY <1>1, <1>2, <1>3, RowsUntouched DEF FlagsInv

\* Admins close a case and delete it; a member without open flags leaves.
LEMMA DismissCaseInv ==
    ASSUME FlagsInv, NEW c \in Cases, DismissCase(c)
    PROVE  FlagsInv'
<1> USE FlagFacts DEF FlagsInv
<1>1. /\ CaseOpen(c) /\ CaseFree(c) /\ caseRow' = [caseRow EXCEPT ![c].state = "dismissed"]
      /\ UNCHANGED <<flagRow, removed, lockdown, flagJob, taken, tangled>>
  BY DEF DismissCase
<1>2. /\ caseRow' \in [Cases -> CaseRow] /\ caseRow'[c].state = "dismissed"
      /\ \A d \in Cases : d # c => caseRow'[d] = caseRow[d]
  BY <1>1 DEF FlagTypes, FlagsTypeOK, CaseRow
<1>3. FlagTypes'
  BY <1>1, <1>2 DEF FlagTypes, FlagsTypeOK
<1>4. FlagJobsRead' /\ FlagLocks'
  <2>1. \A v \in FlagWorkers : flagJob[v].step = "flagging" => flagJob[v].case # c
    BY <1>1 DEF FlagJobsRead, CaseOpen, CaseFree, HoldsCase
  <2>2. \A v \in FlagWorkers : flagJob[v].step = "flagging" =>
            caseRow'[flagJob[v].case].state = caseRow[flagJob[v].case].state
    BY <1>2, <2>1 DEF FlagTypes, FlagsTypeOK
  <2>3. \A d \in Cases : caseRow[d].state # "none" => caseRow'[d].state # "none"
    BY <1>2
  <2>4. QED
    BY <1>1, <2>2, <2>3, JobsGoOn
<1>5. \A d \in Cases : Flagged(d)' = Flagged(d) /\ OpenIn(d)' = OpenIn(d)
  BY <1>1 DEF Flagged, OpenIn
<1>6. FlagsHaveCases'
  <2>1. \A q \in Reporters : flagRow[q].case \in Cases \cup {0}
    BY DEF FlagTypes, FlagsTypeOK, FlagRow
  <2>2. QED
    BY <1>1, <1>2, <1>5, <2>1 DEF FlagsHaveCases
<1>7. CasesAddUpUnlessTangled'
  BY <1>1, <1>2, <1>5 DEF CasesAddUpUnlessTangled, CaseOpen
<1>8. QED
  BY <1>3, <1>4, <1>6, <1>7

LEMMA DeleteFlagCaseInv ==
    ASSUME FlagsInv, NEW c \in Cases, DeleteFlagCase(c)
    PROVE  FlagsInv'
<1> USE FlagFacts DEF FlagsInv
<1>1. /\ caseRow[c].state \in {"dismissed", "void"} /\ \A r \in Flagged(c) : FlagFree(r)
      /\ caseRow' = [caseRow EXCEPT ![c].state = "deleted"]
      /\ flagRow' = [r \in Reporters |-> IF r \in Flagged(c) THEN NoFlag ELSE flagRow[r]]
      /\ taken' = [r \in Reporters |-> IF taken[r] = c THEN 0 ELSE taken[r]]
      /\ UNCHANGED <<removed, lockdown, flagJob, tangled>>
  BY DEF DeleteFlagCase
<1>2. /\ caseRow' \in [Cases -> CaseRow] /\ caseRow'[c].state = "deleted"
      /\ \A d \in Cases : d # c => caseRow'[d] = caseRow[d]
  BY <1>1 DEF FlagTypes, FlagsTypeOK, CaseRow
<1>3. /\ flagRow' \in [Reporters -> FlagRow]
      /\ \A q \in Reporters : flagRow'[q] = IF flagRow[q].case = c THEN NoFlag ELSE flagRow[q]
  BY <1>1 DEF FlagTypes, FlagsTypeOK, Flagged
<1>4. /\ taken' \in [Reporters -> Cases \cup {0}]
      /\ \A q \in Reporters : taken'[q] = IF taken[q] = c THEN 0 ELSE taken[q]
  BY <1>1 DEF FlagTypes, FlagsTypeOK
<1>5. FlagTypes'
  BY <1>1, <1>2, <1>3, <1>4 DEF FlagTypes, FlagsTypeOK
<1>6. FlagJobsRead' /\ FlagLocks'
  <2>1. \A v \in FlagWorkers : flagJob[v].step = "flagging" => flagJob[v].case # c
    BY <1>1 DEF FlagJobsRead, CaseOpen
  <2>2. \A v \in FlagWorkers : flagJob[v].step = "flagging" =>
            caseRow'[flagJob[v].case].state = caseRow[flagJob[v].case].state
    BY <1>2, <2>1 DEF FlagTypes, FlagsTypeOK
  <2>3. \A v \in FlagWorkers : flagJob[v].step \in {"withdrawing", "settling"} =>
            flagJob[v].reporter \in Reporters /\ flagJob[v].reporter \notin Flagged(c)
    BY <1>1 DEF FlagFree, FlagTypes, FlagsTypeOK
  <2>4. \A d \in Cases : caseRow[d].state # "none" => caseRow'[d].state # "none"
    BY <1>2
  <2>5. \A v \in FlagWorkers : flagJob[v].step \in {"withdrawing", "settling"} =>
            flagRow'[flagJob[v].reporter] = flagRow[flagJob[v].reporter]
    BY <1>3, <2>3 DEF Flagged
  <2>6. QED
    BY <1>1, <2>2, <2>4, <2>5, JobsGoOn
<1>7. /\ Flagged(c)' = {} /\ OpenIn(c)' = {}
      /\ \A d \in Cases : d # c => Flagged(d)' = Flagged(d) /\ OpenIn(d)' = OpenIn(d)
  BY <1>3 DEF Flagged, OpenIn
<1>8. FlagsHaveCases'
  <2>1. \A q \in Reporters : flagRow[q].case \in Cases \cup {0}
    BY DEF FlagTypes, FlagsTypeOK, FlagRow
  <2>2. \A q \in Reporters : flagRow'[q].case = 0 => flagRow'[q] = NoFlag
    BY <1>3 DEF FlagsHaveCases
  <2>3. \A q \in Reporters : flagRow'[q].case # 0 => caseRow'[flagRow'[q].case].state # "none"
    BY <1>2, <1>3, <2>1 DEF FlagsHaveCases
  <2>4. \A d \in Cases \ tangled' : caseRow'[d].state \in {"none", "deleted"} => Flagged(d)' = {}
    BY <1>1, <1>2, <1>7 DEF FlagsHaveCases
  <2>5. QED
    BY <2>2, <2>3, <2>4 DEF FlagsHaveCases
<1>9. CasesAddUpUnlessTangled'
  <2> SUFFICES ASSUME NEW d \in Cases \ tangled
               PROVE  /\ CaseOpen(d)' => OpenIn(d)' # {} /\ OpenIn(d)' \cap removed = {}
                      /\ caseRow'[d].state = "void" => Flagged(d)' # {} /\ OpenIn(d)' = {}
                      /\ \A q \in Reporters : taken'[q] = d => flagRow'[q].case = d
    BY <1>1 DEF CasesAddUpUnlessTangled
  <2>1. \A q \in Reporters : taken'[q] = d => flagRow'[q].case = d
    BY <1>3, <1>4 DEF CasesAddUpUnlessTangled
  <2>2. CASE d # c
    BY <1>2, <1>7, <2>1, <2>2 DEF CasesAddUpUnlessTangled, CaseOpen
  <2>3. CASE d = c
    BY <1>2, <2>1, <2>3 DEF CaseOpen
  <2>4. QED
    BY <2>2, <2>3
<1>10. QED
  BY <1>5, <1>6, <1>8, <1>9

LEMMA LeavesUnsettledInv ==
    ASSUME FlagsInv, NEW r \in Reporters, LeavesUnsettled(r)
    PROVE  FlagsInv'
<1> USE FlagFacts DEF FlagsInv
<1>1. /\ removed' = removed \cup {r} /\ UNCHANGED <<caseRow, flagRow, lockdown, flagJob, taken, tangled>>
      /\ flagRow[r] # NoFlag => ~CaseOpen(flagRow[r].case)
  BY DEF LeavesUnsettled
<1>2. FlagTypes' /\ FlagsHaveCases'
  BY <1>1 DEF FlagTypes, FlagsTypeOK, FlagsHaveCases, Flagged
<1>3. FlagJobsRead' /\ FlagLocks'
  BY <1>1, JobsGoOn
<1>4. \A d \in Cases : /\ Flagged(d)' = Flagged(d) /\ OpenIn(d)' = OpenIn(d)
                       /\ CaseOpen(d)' <=> CaseOpen(d)
                       /\ CaseOpen(d) => r \notin OpenIn(d)
  BY <1>1 DEF Flagged, OpenIn, CaseOpen
<1>5. CasesAddUpUnlessTangled'
  BY <1>1, <1>4 DEF CasesAddUpUnlessTangled
<1>6. QED
  BY <1>2, <1>3, <1>5

\* A copy brings its case back unless it is there, and dismisses it if the copy says so.
LEMMA BroughtFacts ==
    ASSUME FlagTypes, NEW p \in Copies
    PROVE  LET old == caseRow[p.case].state IN
           /\ p.case \in Cases /\ p.reporter \in Reporters /\ p.withdrawn \in BOOLEAN
           /\ Brought(p) \in CaseRow
           /\ Brought(p).state = IF p.dismissed THEN "dismissed"
                                 ELSE IF old \in {"none", "deleted"} THEN "open" ELSE old
<1>1. p.case \in Cases /\ p.reporter \in Reporters /\ p.withdrawn \in BOOLEAN /\ p.dismissed \in BOOLEAN
  BY FlagsAssumption
<1>2. PICK old : old = caseRow[p.case]
  OBVIOUS
<1>3. old \in CaseRow
  BY <1>1, <1>2 DEF FlagTypes, FlagsTypeOK
<1>4. old.state \in {"none", "open", "dismissed", "void", "deleted"} /\ old.restored \in BOOLEAN
  BY <1>3 DEF CaseRow
<1>5. CASE p.dismissed
  <2>1. PICK b \in BOOLEAN : b <=> (old.restored \/ old.state \in {"none", "deleted"})
    OBVIOUS
  <2>2. [old EXCEPT !.state = "dismissed", !.restored = b] \in CaseRow
    BY <1>3 DEF CaseRow
  <2>3. Brought(p) = [old EXCEPT !.state = "dismissed",
                                 !.restored = @ \/ old.state \in {"none", "deleted"}]
    BY <1>2, <1>5 DEF Brought
  <2>4. (old.restored \/ old.state \in {"none", "deleted"}) = b
    BY <1>4, <2>1
  <2>5. Brought(p) = [old EXCEPT !.state = "dismissed", !.restored = b]
    BY <2>3, <2>4
  <2>6. Brought(p).state = "dismissed"
    BY <1>3, <2>5 DEF CaseRow
  <2>7. QED
    BY <1>1, <1>5, <2>2, <2>5, <2>6
<1>6. CASE ~p.dismissed
  <2>1. Brought(p) = IF old.state \in {"none", "deleted"} THEN [state |-> "open", restored |-> TRUE] ELSE old
    BY <1>2, <1>6 DEF Brought
  <2>2. QED
    BY <1>1, <1>2, <1>3, <1>6, <2>1 DEF CaseRow
<1>7. QED
  BY <1>1, <1>5, <1>6

\* restoreFlagTx.
LEMMA RestoreFlagInv ==
    ASSUME FlagsInv, NEW p \in Copies, RestoreFlag(p)
    PROVE  FlagsInv'
<1> USE FlagFacts DEF FlagsInv
<1>1. PICK r \in Reporters, c \in Cases, held \in FlagRow, row \in CaseRow :
        r = p.reporter /\ c = p.case /\ held = flagRow[r] /\ row = Brought(p)
  BY BroughtFacts DEF FlagTypes, FlagsTypeOK
<1>2. PICK at : at = IF held = NoFlag THEN c ELSE held.case
  OBVIOUS
<1>3. at \in Cases /\ (held # NoFlag => held.case = at) /\ (held = NoFlag => at = c)
  BY <1>1, <1>2 DEF FlagRow, FlagsHaveCases
<1>4. PICK rows : rows = [caseRow EXCEPT ![c] = row]
  OBVIOUS
<1>5. /\ rows \in [Cases -> CaseRow] /\ rows[c] = row
      /\ \A d \in Cases : d # c => rows[d] = caseRow[d]
  BY <1>4 DEF FlagTypes, FlagsTypeOK
<1>6. PICK others : others = {q \in Reporters \ {r} : flagRow[q].case = at /\ ~flagRow[q].withdrawn}
  OBVIOUS
<1>7. /\ FlagFree(r) /\ FirstToFlag
      /\ p.withdrawn => row.state # "dismissed"
      /\ r \in removed => row.state = "dismissed"
      /\ flagRow' = [flagRow EXCEPT ![r] = [case |-> at, withdrawn |-> held.withdrawn \/ p.withdrawn]]
      /\ caseRow' = IF p.withdrawn /\ ~held.withdrawn
                    THEN IF others = {} THEN Void(rows, at) ELSE rows
                    ELSE IF held = NoFlag THEN [rows EXCEPT ![c] = Reopened(row)] ELSE rows
      /\ tangled' = IF at # c THEN tangled \cup {at, c} ELSE tangled
      /\ UNCHANGED <<removed, lockdown, flagJob, taken>>
  BY <1>1, <1>2, <1>4, <1>6 DEF RestoreFlag
<1>8. row.state = IF p.dismissed THEN "dismissed"
                  ELSE IF caseRow[c].state \in {"none", "deleted"} THEN "open" ELSE caseRow[c].state
  BY <1>1, BroughtFacts
<1>9. /\ Reopened(row) \in CaseRow
      /\ Reopened(row).state = IF row.state = "dismissed" THEN "dismissed" ELSE "open"
  BY DEF Reopened, CaseRow
<1>10. p.withdrawn \in BOOLEAN /\ held.withdrawn \in BOOLEAN
  BY BroughtFacts DEF FlagRow
<1>11. /\ caseRow' \in [Cases -> CaseRow]
       /\ \A d \in Cases : d # c /\ d # at => caseRow'[d] = caseRow[d]
       /\ at # c => caseRow'[c].state = row.state
       /\ at = c => caseRow'[c].state =
            IF p.withdrawn /\ ~held.withdrawn
            THEN IF others = {} /\ row.state = "open" THEN "void" ELSE row.state
            ELSE IF held = NoFlag THEN Reopened(row).state ELSE row.state
       /\ at # c => caseRow'[at].state \in {caseRow[at].state, "void"}
  <2>1. CASE p.withdrawn /\ ~held.withdrawn /\ others = {}
    <3>1. caseRow' = Void(rows, at)
      BY <1>7, <2>1
    <3>2. QED
      BY <1>3, <1>5, <2>1, <3>1, VoidOne
  <2>2. CASE p.withdrawn /\ ~held.withdrawn /\ others # {}
    <3>1. caseRow' = rows
      BY <1>7, <2>2
    <3>2. QED
      BY <1>3, <1>5, <2>2, <3>1
  <2>3. CASE ~(p.withdrawn /\ ~held.withdrawn) /\ held = NoFlag
    <3>1. caseRow' = [rows EXCEPT ![c] = Reopened(row)]
      BY <1>7, <2>3
    <3>2. QED
      BY <1>3, <1>5, <1>9, <2>3, <3>1
  <2>4. CASE ~(p.withdrawn /\ ~held.withdrawn) /\ held # NoFlag
    <3>1. caseRow' = rows
      BY <1>7, <2>4
    <3>2. QED
      BY <1>3, <1>5, <2>4, <3>1
  <2>5. QED
    BY <2>1, <2>2, <2>3, <2>4
<1>12. /\ flagRow' \in [Reporters -> FlagRow] /\ flagRow'[r].case = at
       /\ flagRow'[r].withdrawn <=> held.withdrawn \/ p.withdrawn
       /\ \A q \in Reporters : q # r => flagRow'[q] = flagRow[q]
  <2> DEFINE b == held.withdrawn \/ p.withdrawn
  <2>1. b \in BOOLEAN
    BY <1>10
  <2>2. flagRow' = [flagRow EXCEPT ![r] = [case |-> at, withdrawn |-> b]]
    BY <1>7
  <2> HIDE DEF b
  <2>3. /\ flagRow' \in [Reporters -> FlagRow] /\ flagRow'[r].case = at /\ flagRow'[r].withdrawn = b
        /\ \A q \in Reporters : q # r => flagRow'[q] = flagRow[q]
    BY <1>3, <2>1, <2>2 DEF FlagTypes, FlagsTypeOK, FlagRow
  <2>4. b <=> held.withdrawn \/ p.withdrawn
    BY DEF b
  <2>5. QED
    BY <2>3, <2>4
<1>13. FlagTypes'
  BY <1>3, <1>7, <1>11, <1>12 DEF FlagTypes, FlagsTypeOK
<1>14. row.state \in {"open", "dismissed", "void"}
  BY <1>8 DEF CaseRow, FlagTypes, FlagsTypeOK
<1>15. \A d \in Cases : caseRow[d].state # "none" \/ d = c => caseRow'[d].state # "none"
  BY <1>9, <1>11, <1>14
<1>16. FlagJobsRead' /\ FlagLocks'
  <2>1. \A v \in FlagWorkers : flagJob[v].step # "flagging"
    BY <1>7 DEF FirstToFlag
  <2>2. \A v \in FlagWorkers : flagJob[v].step \in {"withdrawing", "settling"} =>
            flagJob[v].reporter \in Reporters /\ flagJob[v].reporter # r
    BY <1>7 DEF FlagFree, FlagTypes, FlagsTypeOK
  <2>3. QED
    BY <1>7, <1>12, <1>15, <2>1, <2>2, JobsGoOn
<1>17. FlagsHaveCases'
  <2>1. \A q \in Reporters : flagRow'[q].case = 0 => flagRow'[q] = NoFlag
    BY <1>3, <1>12 DEF FlagsHaveCases
  <2>2. held # NoFlag => caseRow[at].state # "none"
    BY <1>1, <1>3 DEF FlagsHaveCases
  <2>3. \A q \in Reporters : flagRow[q].case \in Cases \cup {0}
    BY DEF FlagTypes, FlagsTypeOK, FlagRow
  <2>4. \A q \in Reporters : flagRow'[q].case # 0 => caseRow'[flagRow'[q].case].state # "none"
    BY <1>3, <1>12, <1>15, <2>2, <2>3 DEF FlagsHaveCases
  <2>5. \A d \in Cases \ tangled' : caseRow'[d].state \in {"none", "deleted"} => Flagged(d)' = {}
    <3> SUFFICES ASSUME NEW d \in Cases \ tangled', caseRow'[d].state \in {"none", "deleted"}
                 PROVE  Flagged(d)' = {}
      OBVIOUS
    <3>1. d # c
      BY <1>7, <1>9, <1>11, <1>14
    <3>2. d # at /\ d \notin tangled
      BY <1>7, <3>1
    <3>3. Flagged(d) = {}
      BY <1>11, <3>1, <3>2 DEF FlagsHaveCases
    <3>4. QED
      BY <1>12, <3>2, <3>3 DEF Flagged
  <2>6. QED
    BY <2>1, <2>4, <2>5 DEF FlagsHaveCases
<1>18. CasesAddUpUnlessTangled'
  <2> SUFFICES ASSUME NEW d \in Cases \ tangled'
               PROVE  /\ CaseOpen(d)' => OpenIn(d)' # {} /\ OpenIn(d)' \cap removed = {}
                      /\ caseRow'[d].state = "void" => Flagged(d)' # {} /\ OpenIn(d)' = {}
                      /\ \A q \in Reporters : taken[q] = d => flagRow'[q].case = d
    BY <1>7 DEF CasesAddUpUnlessTangled
  <2>0. d \notin tangled /\ (d = c \/ d = at => at = c)
    BY <1>7
  <2>1. \A q \in Reporters : taken[q] = d => flagRow[q].case = d
    BY <2>0 DEF CasesAddUpUnlessTangled
  <2>2. CASE d # c
    <3>1. d # at
      BY <2>0, <2>2
    <3>2. flagRow[r].case # d
      BY <1>1, <1>3, <2>2, <3>1
    <3>3. Flagged(d)' = Flagged(d) /\ OpenIn(d)' = OpenIn(d) /\ caseRow'[d] = caseRow[d]
      BY <1>11, <1>12, <2>2, <3>1, <3>2 DEF Flagged, OpenIn
    <3>4. \A q \in Reporters : taken[q] = d => flagRow'[q].case = d
      BY <1>12, <2>1, <3>2
    <3>5. QED
      BY <2>0, <3>3, <3>4 DEF CasesAddUpUnlessTangled, CaseOpen
  <2>3. CASE d = c
    <3>0. at = c /\ c \notin tangled
      BY <2>0, <2>3
    <3>1. \A q \in Reporters : taken[q] = c => flagRow'[q].case = c
      BY <1>12, <2>1, <2>3, <3>0
    <3>2. /\ Flagged(c)' = Flagged(c) \cup {r} /\ others = OpenIn(c) \ {r}
          /\ OpenIn(c)' = others \cup (IF held.withdrawn \/ p.withdrawn THEN {} ELSE {r})
      BY <1>6, <1>12, <3>0 DEF Flagged, OpenIn
    <3>3. /\ caseRow[c].state \in {"none", "deleted"} => Flagged(c) = {} /\ OpenIn(c) = {}
          /\ caseRow[c].state = "void" => OpenIn(c) = {}
          /\ caseRow[c].state = "open" => OpenIn(c) # {} /\ OpenIn(c) \cap removed = {}
      BY <3>0 DEF FlagsHaveCases, CasesAddUpUnlessTangled, CaseOpen, Flagged, OpenIn
    <3>4. row.state # "dismissed" => ~p.dismissed /\ OpenIn(c) \cap removed = {} /\ r \notin removed
      BY <1>7, <1>8, <3>3 DEF FlagTypes, FlagsTypeOK, CaseRow
    <3>5. CASE p.withdrawn /\ ~held.withdrawn
      <4>1. OpenIn(c)' = OpenIn(c) \ {r} /\ row.state # "dismissed"
        BY <1>7, <3>2, <3>5
      <4>2. caseRow'[c].state = IF others = {} /\ row.state = "open" THEN "void" ELSE row.state
        BY <1>11, <3>0, <3>5
      <4>3. row.state = "void" => OpenIn(c) = {}
        BY <1>8, <3>3, <4>1
      <4>4. QED
        BY <1>14, <2>3, <3>1, <3>2, <3>4, <4>1, <4>2, <4>3 DEF CaseOpen
    <3>6. CASE ~(p.withdrawn /\ ~held.withdrawn) /\ held = NoFlag
      <4>1. OpenIn(c)' = OpenIn(c) \cup {r}
        BY <3>2, <3>6
      <4>2. caseRow'[c].state = IF row.state = "dismissed" THEN "dismissed" ELSE "open"
        BY <1>9, <1>11, <3>0, <3>6
      <4>3. QED
        BY <2>3, <3>1, <3>4, <4>1, <4>2 DEF CaseOpen
    <3>7. CASE ~(p.withdrawn /\ ~held.withdrawn) /\ held # NoFlag
      <4>1. r \in Flagged(c) /\ (r \in OpenIn(c) <=> ~held.withdrawn)
        BY <1>1, <1>3, <3>0, <3>7 DEF Flagged, OpenIn
      <4>2. Flagged(c)' = Flagged(c) /\ OpenIn(c)' = OpenIn(c)
        BY <3>2, <3>7, <4>1
      <4>3. caseRow'[c].state \in {"dismissed", caseRow[c].state}
        BY <1>8, <1>11, <3>0, <3>3, <3>7, <4>1
      <4>4. QED
        BY <2>3, <3>1, <3>3, <4>1, <4>2, <4>3 DEF CaseOpen
    <3>8. QED
      BY <3>5, <3>6, <3>7
  <2>4. QED
    BY <2>2, <2>3
<1>19. QED
  BY <1>13, <1>16, <1>17, <1>18

\* Every step keeps it.
LEMMA FlagsNextInv == FlagsInv /\ [FlagsNext]_flagVars => FlagsInv'
<1> SUFFICES ASSUME FlagsInv, [FlagsNext]_flagVars PROVE FlagsInv'
  OBVIOUS
<1>1. CASE UNCHANGED flagVars
  <2>1. FlagTypes' /\ \A v \in FlagWorkers : flagJob'[v] = flagJob[v]
    BY <1>1 DEF flagVars, FlagsInv, FlagTypes, FlagsTypeOK
  <2>2. FlagJobsRead' /\ FlagLocks'
    BY <1>1, <2>1, JobsGoOn DEF flagVars
  <2>3. QED
    BY <1>1, <2>1, <2>2, RowsUntouched DEF flagVars, FlagsInv
<1>2. ASSUME NEW w \in FlagWorkers, NEW r \in Reporters,
             \/ \E c \in Cases : FlagJoins(w, r, c) \/ FlagOpens(w, r, c)
             \/ WithdrawFlag(w, r) \/ SettleRemoval(w, r)
      PROVE  FlagsInv'
  BY <1>2, FlagStartsInv
<1>3. ASSUME NEW w \in FlagWorkers, FlagStored(w) \/ WithdrawalStored(w) \/ RemovalSettled(w)
      PROVE  FlagsInv'
  BY <1>3, FlagStoredInv, WithdrawalStoredInv, RemovalSettledInv
<1>4. ASSUME EndLockdown \/ \E w \in FlagWorkers : FlagJobFails(w) PROVE FlagsInv'
  BY <1>4, FlagJobsEndInv
<1>5. ASSUME NEW c \in Cases, DismissCase(c) \/ DeleteFlagCase(c) PROVE FlagsInv'
  BY <1>5, DismissCaseInv, DeleteFlagCaseInv
<1>6. ASSUME NEW r \in Reporters, LeavesUnsettled(r) PROVE FlagsInv'
  BY <1>6, LeavesUnsettledInv
<1>7. ASSUME NEW p \in Copies, RestoreFlag(p) PROVE FlagsInv'
  BY <1>7, RestoreFlagInv
<1>8. QED
  BY <1>1, <1>2, <1>3, <1>4, <1>5, <1>6, <1>7 DEF FlagsNext

\* A case is void exactly when its flags are all withdrawn, an open one has an
\* open flag and none of a removed account, and a stored flag is in its case
\* until that is deleted: unless a decision was taken on flags that had changed
\* (StoreFlag, WithdrawFlag, settleAccountRemovalTx, restoreFlagTx), for any
\* number of reporters, cases, copies and transactions.
THEOREM CasesAlwaysAddUp == FlagsSpec => []CasesAddUpUnlessTangled
<1>1. FlagsInv => CasesAddUpUnlessTangled
  BY DEF FlagsInv
<1>2. QED
  BY <1>1, FlagsInitInv, FlagsNextInv, PTL DEF FlagsSpec

\* A step of a server in service leaves a closed case closed and takes no flag
\* into it.
LEMMA ClosedStaysClosed ==
    ASSUME FlagsInv, FlagsNext, ~lockdown, NEW c \in Cases,
           caseRow[c].state \in {"dismissed", "void"}
    PROVE  /\ caseRow'[c].state \in {caseRow[c].state, "deleted"}
           /\ \A r \in Reporters : flagRow'[r].case = c => flagRow[r].case = c
<1> DEFINE Goal == /\ caseRow'[c].state \in {caseRow[c].state, "deleted"}
                   /\ \A r \in Reporters : flagRow'[r].case = c => flagRow[r].case = c
<1> USE FlagFacts DEF FlagsInv, FlagTypes, FlagsTypeOK
<1>0. \A d \in Cases : Void(caseRow, d)[c].state = caseRow[c].state
  <2> SUFFICES ASSUME NEW d \in Cases PROVE Void(caseRow, d)[c].state = caseRow[c].state
    OBVIOUS
  <2>1. caseRow \in [Cases -> CaseRow]
    OBVIOUS
  <2>2. CASE d = c
    BY <2>1, <2>2 DEF Void
  <2>3. CASE d # c
    BY <2>1, <2>3 DEF Void
  <2>4. QED
    BY <2>2, <2>3
<1>1. ASSUME UNCHANGED <<caseRow, flagRow>> PROVE Goal
  BY <1>1
<1>2. ASSUME NEW w \in FlagWorkers, FlagStored(w) PROVE Goal
  <2>1. PICK r \in Reporters, d \in Cases : r = flagJob[w].reporter /\ d = flagJob[w].case
    BY <1>2 DEF FlagStored
  <2>2. d # c
    BY <1>2, <2>1 DEF FlagStored, FlagJobsRead, CaseOpen
  <2>3. /\ caseRow' = [caseRow EXCEPT ![d].state = "open"] \/ caseRow' = caseRow
        /\ flagRow' = [flagRow EXCEPT ![r] = [case |-> d, withdrawn |-> FALSE]]
    BY <1>2, <2>1 DEF FlagStored
  <2>4. QED
    BY <2>2, <2>3
<1>3. ASSUME NEW w \in FlagWorkers, WithdrawalStored(w) PROVE Goal
  <2>1. PICK r \in Reporters, d \in Cases : r = flagJob[w].reporter /\ d = flagJob[w].case
    BY <1>3 DEF WithdrawalStored
  <2>2. /\ caseRow' = Void(caseRow, d) \/ caseRow' = caseRow
        /\ flagRow' = [flagRow EXCEPT ![r].withdrawn = TRUE]
    BY <1>3, <2>1 DEF WithdrawalStored
  <2>3. Void(caseRow, d)[c].state = caseRow[c].state
    BY <1>0
  <2>4. caseRow'[c].state = caseRow[c].state
    BY <2>2, <2>3
  <2>5. \A q \in Reporters : flagRow'[q].case = flagRow[q].case
    BY <2>2 DEF FlagRow
  <2>6. QED
    BY <2>4, <2>5
<1>4. ASSUME NEW w \in FlagWorkers, RemovalSettled(w) PROVE Goal
  <2>1. PICK d \in Cases : d = flagJob[w].case
    BY <1>4 DEF RemovalSettled
  <2>2. \/ caseRow' = [caseRow EXCEPT ![d].state = "deleted"]
        \/ caseRow' = caseRow \/ caseRow' = Void(caseRow, d)
    BY <1>4, <2>1 DEF RemovalSettled
  <2>3. Void(caseRow, d)[c].state = caseRow[c].state
    BY <1>0
  <2>4. caseRow'[c].state \in {caseRow[c].state, "deleted"}
    BY <2>2, <2>3 DEF CaseRow
  <2>5. \A q \in Reporters : flagRow'[q] \in {NoFlag, flagRow[q]}
    BY <1>4 DEF RemovalSettled
  <2>6. QED
    BY <2>4, <2>5
<1>5. ASSUME NEW d \in Cases, DismissCase(d) \/ DeleteFlagCase(d) PROVE Goal
  <2>1. \/ caseRow' = [caseRow EXCEPT ![d].state = "deleted"]
        \/ d # c /\ caseRow' = [caseRow EXCEPT ![d].state = "dismissed"]
    BY <1>5 DEF DismissCase, DeleteFlagCase, CaseOpen
  <2>2. \A q \in Reporters : flagRow'[q] \in {NoFlag, flagRow[q]}
    BY <1>5 DEF DismissCase, DeleteFlagCase
  <2>3. QED
    BY <2>1, <2>2 DEF CaseRow
<1>6. ASSUME NEW r \in Reporters, LeavesUnsettled(r) PROVE Goal
  BY <1>1, <1>6 DEF LeavesUnsettled
<1>7. ASSUME NEW w \in FlagWorkers, NEW r \in Reporters,
             \/ \E d \in Cases : FlagJoins(w, r, d) \/ FlagOpens(w, r, d)
             \/ WithdrawFlag(w, r) \/ SettleRemoval(w, r)
      PROVE  Goal
  BY <1>1, <1>7 DEF FlagJoins, FlagOpens, WithdrawFlag, SettleRemoval
<1>8. ASSUME EndLockdown \/ \E w \in FlagWorkers : FlagJobFails(w) PROVE Goal
  BY <1>1, <1>8 DEF EndLockdown, FlagJobFails
<1>9. ASSUME NEW p \in Copies, RestoreFlag(p) PROVE Goal
  BY <1>9 DEF RestoreFlag
<1>10. QED
  BY <1>2, <1>3, <1>4, <1>5, <1>6, <1>7, <1>8, <1>9 DEF FlagsNext

\* Outside recovery a dismissed or void case never reopens and takes no flag,
\* whatever a flag under way had read of it (openCaseTx's FOR UPDATE and the
\* unique index of open cases).
THEOREM CasesStayClosed == FlagsSpec => ClosedForGood
<1> DEFINE A == ~lockdown => \A c \in Cases :
                   caseRow[c].state \in {"dismissed", "void"} =>
                      /\ caseRow'[c].state \in {caseRow[c].state, "deleted"}
                      /\ \A r \in Reporters : flagRow'[r].case = c => flagRow[r].case = c
<1>1. FlagsInv /\ [FlagsNext]_flagVars => [A]_flagVars
  BY ClosedStaysClosed
<1>2. FlagsSpec => [][A]_flagVars
  BY <1>1, FlagsInitInv, FlagsNextInv, PTL DEF FlagsSpec
<1>3. QED
  BY <1>2 DEF ClosedForGood

-----------------------------------------------------------------------------
(* The requests of admins                                                  *)

\* A decision that has the lock of its request's row.
AtDecision(h) == task[h].step \in {"checked", "chained"}

\* A decision is about a pending request, one at a time for each; one at a
\* time has its turn at the ledger, and the ledger does not grow meanwhile.
DecisionsUnderWay ==
    /\ \A h \in Deciders : AtDecision(h) =>
        /\ Pending(task[h].req)
        /\ task[h].decision \in {"executed", "rejected", "withdrawn"}
        /\ task[h].step = "chained" => /\ task[h].decision = "executed" /\ ledgerLock
                                       /\ task[h].last = Len(ledger)
    /\ \A h, k \in Deciders :
          AtDecision(h) /\ AtDecision(k) /\ task[h].req = task[k].req => h = k
    /\ \A h, k \in Deciders : task[h].step = "chained" /\ task[k].step = "chained" => h = k

\* The operator's account is the only root, and nobody's target.
OneRoot ==
    /\ \A u \in Members : role[u] = "root" => u = RootUser
    /\ \A r \in RequestIds : adminReq[r] # Unused => RootUser \notin adminReq[r].targets

\* An approval under way obeys the rules still, until another one commits.
StillByTheRules ==
    /\ amiss \subseteq overtaken
    /\ \A h \in Deciders : AtDecision(h) /\ task[h].decision = "executed" =>
          task[h].req \in overtaken \/ ByTheRules(task[h].by, task[h].req)

\* Who has left is dropped from a pending request or will be, and a request
\* that names nobody any more is closed or will be.
DropsOwed ==
    /\ dropJobs \subseteq departed
    /\ \A r \in RequestIds : adminReq[r] # Unused => adminReq[r].dropped \subseteq departed
    /\ \A r \in RequestIds \ missed : Pending(r) =>
        /\ adminReq[r].targets \cap departed \subseteq adminReq[r].dropped \cup dropJobs
        /\ Remaining(r) = {} /\ adminReq[r].targets # {} => r \in mootJobs
    /\ MootMeansGone

AdminInv ==
    /\ AdminTypeOK /\ DecisionsUnderWay /\ OneRoot
    /\ StillByTheRules /\ DropsOwed /\ LedgerIsTheRecord

\* Shapes of requests and tasks.
DecisionTask == [step : {"checked", "chained"}, req : RequestIds, by : Members,
                 decision : Final, left : SUBSET Members, last : Nat]
OpeningTask == [step : {"opening"}, req : RequestIds, proposal : Proposals]
OpenedRequest ==
    [state : {"pending"} \cup Final, action : Actions, requester : Members,
     targets : SUBSET Members, body : SUBSET Permissions, dropped : SUBSET Members,
     by : SUBSET Members]

LEMMA TaskShapes ==
    /\ AtRest.step = "idle" /\ AtRest \in Task /\ DecisionTask \subseteq Task
    /\ OpeningTask \subseteq Task
    /\ \A t \in Task : t.step \in {"checked", "chained"} => t \in DecisionTask
    /\ \A t \in Task : t.step = "opening" => t \in OpeningTask
BY DEF Task, AtRest, DecisionTask, OpeningTask

LEMMA RequestShapes ==
    /\ Unused.state = "unused" /\ Unused \in AdminRequest /\ OpenedRequest \subseteq AdminRequest
    /\ \A q \in AdminRequest : q # Unused => q \in OpenedRequest
    /\ \A q \in OpenedRequest : q # Unused
BY DEF AdminRequest, Unused, OpenedRequest, Final

\* Before the first request it holds.
LEMMA AdminInitInv == AdminInit => AdminInv
<1> SUFFICES ASSUME AdminInit PROVE AdminInv
  OBVIOUS
<1> USE AdminAssumption, TaskShapes, RequestShapes DEF AdminInit
<1>1. AdminTypeOK
  <2>1. perms \in [Members -> SUBSET Permissions]
    BY DEF AdminInit
  <2>2. ledger \in Seq([req : RequestIds \cup {0}, prev : Nat])
    OBVIOUS
  <2>3. role \in [Members -> {"root", "admin", "user"}]
    OBVIOUS
  <2>4. adminReq \in [RequestIds -> AdminRequest] /\ task \in [Deciders -> Task]
    OBVIOUS
  <2>5. suspendedBy \in [Members -> RequestIds \cup {0}] /\ mesh \in 0 .. MaxMesh
    OBVIOUS
  <2>6. QED
    BY <2>1, <2>2, <2>3, <2>4, <2>5 DEF AdminTypeOK
<1>2. \A h \in Deciders : task[h].step = "idle"
  OBVIOUS
<1>3. DecisionsUnderWay /\ OneRoot /\ StillByTheRules
  BY <1>2 DEF DecisionsUnderWay, OneRoot, StillByTheRules, AtDecision
<1>4. DropsOwed
  BY DEF DropsOwed, MootMeansGone, Pending
<1>5. LedgerIsTheRecord
  <2>1. DOMAIN ledger = {}
    OBVIOUS
  <2>2. \A r \in RequestIds : adminReq[r].state = "unused"
    OBVIOUS
  <2>3. \A r \in RequestIds : {i \in DOMAIN ledger : ledger[i].req = r} = {}
    BY <2>1
  <2>4. QED
    BY <2>1, <2>2, <2>3, FS_EmptySet DEF LedgerIsTheRecord
<1>6. QED
  BY <1>1, <1>3, <1>4, <1>5 DEF AdminInv

\* The places of a sequence are finitely many.
LEMMA PlacesAreFinite ==
    ASSUME NEW n \in Nat
    PROVE  IsFiniteSet(1 .. n)
  BY 1 \in Int, n \in Int, FS_Interval

\* An entry on the last one's heels keeps the ledger a record.
LEMMA LedgerGrows ==
    ASSUME AdminInv, NEW q \in RequestIds \cup {0},
           ledger' = Append(ledger, [req |-> q, prev |-> Len(ledger)]),
           q \in RequestIds => adminReq[q].state # "executed",
           \A r \in RequestIds : adminReq'[r].state = "executed" <=>
                                 adminReq[r].state = "executed" \/ r = q
    PROVE  LedgerIsTheRecord'
<1> USE DEF AdminInv, AdminTypeOK
<1>1. PICK n \in Nat : n = Len(ledger)
  OBVIOUS
<1>2. /\ DOMAIN ledger = 1 .. n /\ DOMAIN ledger' = 1 .. (n + 1)
      /\ \A i \in 1 .. n : ledger'[i] = ledger[i]
      /\ ledger'[n + 1].req = q /\ ledger'[n + 1].prev = n
  BY <1>1
<1>3. \A i \in DOMAIN ledger' : ledger'[i].prev = i - 1
  BY <1>2 DEF LedgerIsTheRecord
<1>4. ASSUME NEW r \in RequestIds
      PROVE  Cardinality({i \in DOMAIN ledger' : ledger'[i].req = r})
                = IF adminReq'[r].state = "executed" THEN 1 ELSE 0
  <2>1. PICK old : old = {i \in 1 .. n : ledger[i].req = r}
    OBVIOUS
  <2>2. PICK new : new = {i \in 1 .. n + 1 : ledger'[i].req = r}
    OBVIOUS
  <2>3. IsFiniteSet(old) /\ n + 1 \notin old
    <3>1. IsFiniteSet(1 .. n)
      BY PlacesAreFinite
    <3>2. old \subseteq 1 .. n
      BY <2>1
    <3>3. n + 1 \notin 1 .. n
      OBVIOUS
    <3>4. QED
      BY <3>1, <3>2, <3>3, FS_Subset
  <2>4. Cardinality(old) = IF adminReq[r].state = "executed" THEN 1 ELSE 0
    BY <1>2, <2>1 DEF LedgerIsTheRecord
  <2>5. new = IF r = q THEN old \cup {n + 1} ELSE old
    <3>1. \A i \in 1 .. n + 1 : i \in 1 .. n \/ i = n + 1
      OBVIOUS
    <3>2. \A i : i \in new <=> i \in old \/ (i = n + 1 /\ r = q)
      BY <1>2, <2>1, <2>2, <3>1
    <3>3. QED
      BY <3>2
  <2>6. Cardinality(old \cup {n + 1}) = Cardinality(old) + 1
    BY <2>3, FS_AddElement
  <2>7. Cardinality(new) = IF adminReq'[r].state = "executed" THEN 1 ELSE 0
    BY <2>4, <2>5, <2>6
  <2>8. QED
    BY <1>2, <2>2, <2>7
<1>5. QED
  BY <1>3, <1>4 DEF LedgerIsTheRecord

LEMMA LedgerStays ==
    ASSUME AdminInv, ledger' = ledger,
           \A r \in RequestIds : adminReq'[r].state = "executed" <=> adminReq[r].state = "executed"
    PROVE  LedgerIsTheRecord'
BY DEF AdminInv, LedgerIsTheRecord

\* The rules read roles, permissions and the request, and who is left of it.
LEMMA RulesKept ==
    ASSUME NEW u, NEW r \in RequestIds, ByTheRules(u, r), role' = role, perms' = perms,
           adminReq'[r].action = adminReq[r].action,
           adminReq'[r].requester = adminReq[r].requester,
           adminReq'[r].targets = adminReq[r].targets, adminReq'[r].body = adminReq[r].body,
           adminReq[r].dropped \subseteq adminReq'[r].dropped
    PROVE  ByTheRules(u, r)'
<1>1. Requires(adminReq[r])' = Requires(adminReq[r]) /\ Grants(adminReq[r])' = Grants(adminReq[r])
  BY DEF Requires, Grants, Holds
<1>2. Holds(u)' = Holds(u)
  BY DEF Holds
<1>3. QED
  BY <1>1, <1>2 DEF ByTheRules

\* Decisions that go on, or end, when the tables they go by stay.
LEMMA DecisionsGoOn ==
    ASSUME AdminInv, ledger' = ledger,
           \A h \in Deciders : task'[h] = task[h] \/ task'[h].step \notin {"checked", "chained"},
           ledgerLock => \/ ledgerLock' \/ \A h \in Deciders : task'[h].step # "chained",
           \A r \in RequestIds : Locked(r) => Pending(r)',
           role' = role, perms' = perms, amiss' = amiss, overtaken \subseteq overtaken',
           \A r \in RequestIds : Locked(r) =>
              /\ adminReq'[r].action = adminReq[r].action
              /\ adminReq'[r].requester = adminReq[r].requester
              /\ adminReq'[r].targets = adminReq[r].targets /\ adminReq'[r].body = adminReq[r].body
              /\ adminReq[r].dropped \subseteq adminReq'[r].dropped
    PROVE  DecisionsUnderWay' /\ StillByTheRules'
<1> USE DEF AdminInv
<1>1. \A h \in Deciders : AtDecision(h)' => AtDecision(h) /\ task'[h] = task[h]
  BY DEF AtDecision
<1>2. \A h \in Deciders : AtDecision(h) => task[h].req \in RequestIds /\ Locked(task[h].req)
  BY TaskShapes DEF AtDecision, Locked, AdminTypeOK, DecisionTask
<1>3. DecisionsUnderWay'
  <2>1. \A h \in Deciders : AtDecision(h)' => adminReq'[task[h].req].state = "pending"
    BY <1>1, <1>2 DEF Pending
  <2>2. \A h \in Deciders : AtDecision(h)' => adminReq'[task'[h].req].state = "pending"
    BY <1>1, <2>1
  <2>3. \A h \in Deciders : AtDecision(h)' =>
            /\ task'[h].decision \in {"executed", "rejected", "withdrawn"}
            /\ task'[h].step = "chained" => /\ task'[h].decision = "executed" /\ ledgerLock'
                                            /\ task'[h].last = Len(ledger')
    BY <1>1 DEF DecisionsUnderWay
  <2>4. \A h, k \in Deciders :
            AtDecision(h)' /\ AtDecision(k)' /\ task'[h].req = task'[k].req => h = k
    BY <1>1 DEF DecisionsUnderWay
  <2>5. \A h, k \in Deciders : task'[h].step = "chained" /\ task'[k].step = "chained" => h = k
    BY <1>1 DEF DecisionsUnderWay, AtDecision
  <2>6. QED
    BY <2>2, <2>3, <2>4, <2>5 DEF DecisionsUnderWay, Pending
<1>4. StillByTheRules'
  <2> SUFFICES ASSUME NEW h \in Deciders, AtDecision(h)', task'[h].decision = "executed"
               PROVE  task'[h].req \in overtaken' \/ ByTheRules(task[h].by, task[h].req)'
    BY <1>1 DEF StillByTheRules
  <2>1. PICK u \in Members, r \in RequestIds : u = task[h].by /\ r = task[h].req
    BY <1>1, TaskShapes DEF AtDecision, AdminTypeOK, DecisionTask
  <2>2. CASE r \in overtaken
    BY <1>1, <2>1, <2>2
  <2>3. CASE r \notin overtaken
    <3>1. ByTheRules(u, r)
      BY <1>1, <2>1, <2>3 DEF StillByTheRules
    <3>2. Locked(r)
      BY <1>1, <1>2, <2>1
    <3>3. ByTheRules(u, r)'
      BY <3>1, <3>2, RulesKept
    <3>4. QED
      BY <1>1, <2>1, <3>3
  <2>4. QED
    BY <2>2, <2>3
<1>5. QED
  BY <1>3, <1>4

\* Setting one task leaves the others.
LEMMA OneTaskSet ==
    ASSUME AdminTypeOK, NEW h \in Deciders, NEW t \in Task, task' = [task EXCEPT ![h] = t]
    PROVE  /\ task' \in [Deciders -> Task] /\ task'[h] = t
           /\ \A k \in Deciders : k # h => task'[k] = task[k]
BY DEF AdminTypeOK

\* What does not touch the tables leaves who is owed what.
LEMMA DropsStand ==
    ASSUME DropsOwed, OneRoot, UNCHANGED <<departed, adminReq, dropJobs, mootJobs, missed, role>>
    PROVE  DropsOwed' /\ OneRoot'
BY DEF DropsOwed, OneRoot, MootMeansGone, Pending, Remaining

\* A request is checked, stored, or found stored by another call.
LEMMA OpenCheckInv ==
    ASSUME AdminInv, NEW h \in Deciders, NEW r \in RequestIds, NEW p \in Proposals,
           OpenCheck(h, r, p)
    PROVE  AdminInv'
<1> USE DEF AdminInv
<1>1. PICK t \in OpeningTask : t = [step |-> "opening", req |-> r, proposal |-> p]
  BY DEF OpeningTask
<1>2. /\ task' = [task EXCEPT ![h] = t] /\ t \in Task /\ t.step = "opening"
      /\ UNCHANGED <<adminTables, ledgerLock, dropJobs, mootJobs, mesh, missed, overtaken, amiss>>
  BY <1>1, TaskShapes DEF OpenCheck
<1>3. /\ task' \in [Deciders -> Task] /\ task'[h] = t
      /\ \A k \in Deciders : k # h => task'[k] = task[k]
  BY <1>2, OneTaskSet
<1>4. AdminTypeOK'
  BY <1>2, <1>3 DEF AdminTypeOK, adminTables
<1>5. DecisionsUnderWay' /\ StillByTheRules'
  <2>1. \A q \in RequestIds : Locked(q) => Pending(q)'
    BY <1>2 DEF adminTables, Locked, DecisionsUnderWay, AtDecision, Pending
  <2>2. QED
    BY <1>2, <1>3, <2>1, DecisionsGoOn DEF adminTables
<1>6. DropsOwed' /\ OneRoot' /\ LedgerIsTheRecord'
  BY <1>2, DropsStand, LedgerStays DEF adminTables
<1>7. QED
  BY <1>4, <1>5, <1>6

\* Tasks that end, alone or with others, and leave the tables as they are.
LEMMA TasksEndInv ==
    ASSUME AdminInv, UNCHANGED <<adminTables, dropJobs, mootJobs, mesh, missed, overtaken, amiss>>,
           task' \in [Deciders -> Task], ledgerLock' \in BOOLEAN,
           \A h \in Deciders : task'[h] = task[h] \/ task'[h] = AtRest,
           ledgerLock => ledgerLock' \/ \A h \in Deciders : task'[h].step # "chained"
    PROVE  AdminInv'
<1> USE DEF AdminInv
<1>1. AdminTypeOK'
  BY DEF AdminTypeOK, adminTables
<1>2. DecisionsUnderWay' /\ StillByTheRules'
  <2>1. \A q \in RequestIds : Locked(q) => Pending(q)'
    BY DEF adminTables, Locked, DecisionsUnderWay, AtDecision, Pending
  <2>2. QED
    BY <2>1, TaskShapes, DecisionsGoOn DEF adminTables
<1>3. DropsOwed' /\ OneRoot' /\ LedgerIsTheRecord'
  BY DropsStand, LedgerStays DEF adminTables
<1>4. QED
  BY <1>1, <1>2, <1>3

LEMMA OpenExistsInv ==
    ASSUME AdminInv, NEW h \in Deciders, OpenExists(h) \/ ApproveFails(h)
    PROVE  AdminInv'
<1>1. /\ task' = [task EXCEPT ![h] = AtRest]
      /\ UNCHANGED <<adminTables, dropJobs, mootJobs, mesh, missed, overtaken, amiss>>
  BY DEF OpenExists, ApproveFails
<1>2. /\ task' \in [Deciders -> Task] /\ task'[h] = AtRest
      /\ \A k \in Deciders : k # h => task'[k] = task[k]
  BY <1>1, TaskShapes, OneTaskSet DEF AdminInv
<1>3. \/ ledgerLock' = ledgerLock
      \/ task[h].step = "chained" /\ ledgerLock' = FALSE
  BY DEF OpenExists, ApproveFails
<1>4. task[h].step = "chained" => \A k \in Deciders : task'[k].step # "chained"
  BY <1>2, TaskShapes DEF AdminInv, DecisionsUnderWay
<1>5. ledgerLock \in BOOLEAN
  BY DEF AdminInv, AdminTypeOK
<1>6. /\ ledgerLock' \in BOOLEAN
      /\ ledgerLock => ledgerLock' \/ \A k \in Deciders : task'[k].step # "chained"
  <2>1. CASE ledgerLock' = ledgerLock
    BY <1>5, <2>1
  <2>2. CASE task[h].step = "chained" /\ ledgerLock' = FALSE
    BY <1>4, <2>2
  <2>3. QED
    BY <1>3, <2>1, <2>2
<1>7. \A k \in Deciders : task'[k] = task[k] \/ task'[k] = AtRest
  BY <1>2
<1>8. QED
  BY <1>1, <1>2, <1>6, <1>7, TasksEndInv

LEMMA OpenInv ==
    ASSUME AdminInv, NEW h \in Deciders, Open(h)
    PROVE  AdminInv'
<1> USE DEF AdminInv
<1>1. PICK r \in RequestIds, p \in Proposal :
        r = task[h].req /\ p = task[h].proposal /\ RootUser \notin p.targets
  BY TaskShapes, AdminAssumption DEF Open, AdminTypeOK, OpeningTask
<1>2. PICK q : q = [state |-> "pending", action |-> p.action, requester |-> p.requester,
                    targets |-> p.targets, body |-> p.body, dropped |-> {}, by |-> {}]
  OBVIOUS
<1>3. /\ q \in OpenedRequest /\ q.state = "pending" /\ q.targets = p.targets /\ q.dropped = {}
      /\ q # Unused /\ q \in AdminRequest
  <2>1. q \in OpenedRequest /\ q.state = "pending" /\ q.targets = p.targets /\ q.dropped = {}
    BY <1>2 DEF OpenedRequest, Proposal
  <2>2. QED
    BY <2>1, RequestShapes
<1>4. /\ adminReq[r] = Unused /\ adminReq' = [adminReq EXCEPT ![r] = q]
      /\ missed' = IF q.targets \cap (departed \ dropJobs) # {} THEN missed \cup {r} ELSE missed
      /\ task' = [task EXCEPT ![h] = AtRest]
      /\ UNCHANGED <<role, perms, suspendedBy, departed, ledger, ledgerLock, dropJobs, mootJobs,
                     mesh, overtaken, amiss>>
  BY <1>1, <1>2, <1>3 DEF Open
<1>5. /\ task' \in [Deciders -> Task] /\ task'[h] = AtRest
      /\ \A k \in Deciders : k # h => task'[k] = task[k]
  BY <1>4, TaskShapes, OneTaskSet
<1>6. /\ adminReq' \in [RequestIds -> AdminRequest] /\ adminReq'[r] = q
      /\ \A k \in RequestIds : k # r => adminReq'[k] = adminReq[k]
  BY <1>3, <1>4 DEF AdminTypeOK
<1>7. AdminTypeOK'
  BY <1>4, <1>5, <1>6 DEF AdminTypeOK
<1>8. DecisionsUnderWay' /\ StillByTheRules'
  <2>1. \A k \in RequestIds : Locked(k) => Pending(k) /\ k # r
    BY <1>4, RequestShapes DEF Locked, DecisionsUnderWay, AtDecision, Pending
  <2>2. \A k \in RequestIds : Locked(k) => Pending(k)' /\ adminReq'[k] = adminReq[k]
    BY <1>6, <2>1 DEF Pending
  <2>3. QED
    BY <1>4, <1>5, <2>2, TaskShapes, DecisionsGoOn
<1>9. OneRoot'
  BY <1>1, <1>3, <1>4, <1>6 DEF OneRoot
<1>10. DropsOwed'
  <2>1. \A k \in RequestIds : adminReq'[k] # Unused => adminReq'[k].dropped \subseteq departed
    BY <1>3, <1>6 DEF DropsOwed
  <2>2. \A k \in RequestIds \ missed' : Pending(k)' =>
          /\ adminReq'[k].targets \cap departed \subseteq adminReq'[k].dropped \cup dropJobs
          /\ Remaining(k)' = {} /\ adminReq'[k].targets # {} => k \in mootJobs
    BY <1>3, <1>4, <1>6 DEF DropsOwed, Pending, Remaining
  <2>3. MootMeansGone'
    BY <1>3, <1>4, <1>6 DEF DropsOwed, MootMeansGone
  <2>4. QED
    BY <1>4, <2>1, <2>2, <2>3 DEF DropsOwed
<1>11. LedgerIsTheRecord'
  <2>1. \A k \in RequestIds : adminReq'[k].state = "executed" <=> adminReq[k].state = "executed"
    BY <1>3, <1>4, <1>6, RequestShapes
  <2>2. QED
    BY <1>4, <2>1, LedgerStays
<1>12. QED
  BY <1>7, <1>8, <1>9, <1>10, <1>11

\* A decision that passes its check obeys the rules, and its request has no other.
LEMMA DecideCheckInv ==
    ASSUME AdminInv, NEW h \in Deciders, NEW u \in Members, NEW r \in RequestIds,
           NEW d \in {"executed", "rejected", "withdrawn"}, DecideCheck(h, u, r, d)
    PROVE  AdminInv'
<1> USE DEF AdminInv
<1>0. adminReq[r] \in OpenedRequest
  BY RequestShapes DEF DecideCheck, Pending, AdminTypeOK
<1>1. PICK t : t = [step |-> "checked", req |-> r, by |-> u, decision |-> d,
                    left |-> Remaining(r), last |-> 0]
  OBVIOUS
<1>2. /\ t \in DecisionTask /\ t.step = "checked" /\ t.req = r /\ t.by = u /\ t.decision = d
  BY <1>0, <1>1 DEF DecisionTask, OpenedRequest, Remaining, Final
<1>3. /\ task' = [task EXCEPT ![h] = t] /\ Pending(r) /\ ~Locked(r)
      /\ d # "withdrawn" => MayDecide(u, r)
      /\ UNCHANGED <<adminTables, ledgerLock, dropJobs, mootJobs, mesh, missed, overtaken, amiss>>
  BY <1>1 DEF DecideCheck
<1>4. /\ task' \in [Deciders -> Task] /\ task'[h] = t
      /\ \A k \in Deciders : k # h => task'[k] = task[k]
  BY <1>2, <1>3, TaskShapes, OneTaskSet
<1>5. AdminTypeOK'
  BY <1>3, <1>4 DEF AdminTypeOK, adminTables
<1>6. \A k \in Deciders : k # h => (AtDecision(k)' <=> AtDecision(k))
  BY <1>4 DEF AtDecision
<1>7. DecisionsUnderWay'
  <2>1. \A k \in Deciders : AtDecision(k)' => adminReq'[task'[k].req].state = "pending"
    BY <1>2, <1>3, <1>4, <1>6 DEF DecisionsUnderWay, adminTables, Pending
  <2>2. \A k \in Deciders : AtDecision(k)' =>
          /\ task'[k].decision \in {"executed", "rejected", "withdrawn"}
          /\ task'[k].step = "chained" => /\ task'[k].decision = "executed" /\ ledgerLock'
                                          /\ task'[k].last = Len(ledger')
    BY <1>2, <1>3, <1>4, <1>6 DEF DecisionsUnderWay, adminTables
  <2>3. \A k \in Deciders : k # h /\ AtDecision(k) => task[k].req # r
    BY <1>3 DEF Locked, AtDecision
  <2>4. \A j, k \in Deciders :
            AtDecision(j)' /\ AtDecision(k)' /\ task'[j].req = task'[k].req => j = k
    BY <1>2, <1>4, <1>6, <2>3 DEF DecisionsUnderWay
  <2>5. \A j, k \in Deciders : task'[j].step = "chained" /\ task'[k].step = "chained" => j = k
    BY <1>2, <1>4 DEF DecisionsUnderWay
  <2>6. QED
    BY <2>1, <2>2, <2>4, <2>5 DEF DecisionsUnderWay, Pending
<1>8. StillByTheRules'
  <2>1. ASSUME NEW v, NEW k \in RequestIds, ByTheRules(v, k) PROVE ByTheRules(v, k)'
    BY <1>3, <2>1, RulesKept DEF adminTables
  <2>2. d = "executed" => ByTheRules(u, r)
    <3>1. SUFFICES ASSUME d = "executed" PROVE ByTheRules(u, r)
      OBVIOUS
    <3>2. MayDecide(u, r) /\ RootUser \notin adminReq[r].targets /\ adminReq[r].targets \subseteq Members
      BY <1>0, <1>3, <3>1, RequestShapes DEF OneRoot, OpenedRequest
    <3>3. \A q \in adminReq[r].targets : role[q] # "root"
      BY <3>2 DEF OneRoot
    <3>4. QED
      BY <3>2, <3>3 DEF MayDecide, ByTheRules, MayActOn, IsAdminRole, Remaining
  <2>3. ASSUME NEW k \in Deciders, AtDecision(k)', task'[k].decision = "executed"
        PROVE  task'[k].req \in overtaken' \/ ByTheRules(task[k].by, task[k].req)'
    <3>1. PICK v \in Members, q \in RequestIds : v = task'[k].by /\ q = task'[k].req
      BY <1>4, <2>3, TaskShapes DEF AtDecision, DecisionTask
    <3>2. q \in overtaken \/ ByTheRules(v, q)
      BY <1>2, <1>4, <1>6, <2>2, <2>3, <3>1 DEF StillByTheRules
    <3>3. q \in overtaken' \/ ByTheRules(v, q)'
      BY <1>3, <2>1, <3>2
    <3>4. QED
      BY <3>1, <3>3
  <2>4. QED
    BY <1>3, <2>3 DEF StillByTheRules
<1>9. DropsOwed' /\ OneRoot' /\ LedgerIsTheRecord'
  BY <1>3, DropsStand, LedgerStays DEF adminTables
<1>10. QED
  BY <1>5, <1>7, <1>8, <1>9

\* The turn at the ledger: nobody else has it.
LEMMA LedgerTurnInv ==
    ASSUME AdminInv, NEW h \in Deciders, LedgerTurn(h)
    PROVE  AdminInv'
<1> USE DEF AdminInv
<1>0. task[h] \in DecisionTask /\ task[h].step = "checked" /\ task[h].decision = "executed"
  BY TaskShapes DEF LedgerTurn, AdminTypeOK
<1>1. PICK t : t = [task[h] EXCEPT !.step = "chained", !.last = Len(ledger)]
  OBVIOUS
<1>2. /\ t \in DecisionTask /\ t.step = "chained" /\ t.last = Len(ledger)
      /\ t.req = task[h].req /\ t.by = task[h].by /\ t.decision = task[h].decision
  <2>1. PICK n \in Nat : n = Len(ledger)
    BY DEF AdminTypeOK
  <2>2. t = [task[h] EXCEPT !.step = "chained", !.last = n]
    BY <1>1, <2>1
  <2>3. QED
    BY <1>0, <2>1, <2>2 DEF DecisionTask
<1>3. /\ task' = [task EXCEPT ![h] = t] /\ ~ledgerLock /\ ledgerLock' = TRUE
      /\ UNCHANGED <<adminTables, dropJobs, mootJobs, mesh, missed, overtaken, amiss>>
  <2>1. task' = [task EXCEPT ![h].step = "chained", ![h].last = Len(ledger)]
    BY DEF LedgerTurn
  <2>2. task' = [task EXCEPT ![h] = t]
    BY <1>1, <2>1 DEF AdminTypeOK
  <2>3. QED
    BY <2>2 DEF LedgerTurn
<1>4. /\ task' \in [Deciders -> Task] /\ task'[h] = t
      /\ \A k \in Deciders : k # h => task'[k] = task[k]
  BY <1>2, <1>3, TaskShapes, OneTaskSet
<1>5. AdminTypeOK'
  BY <1>3, <1>4 DEF AdminTypeOK, adminTables
<1>6. \A k \in Deciders : /\ AtDecision(k)' <=> AtDecision(k)
                          /\ AtDecision(k) => /\ task'[k].req = task[k].req
                                              /\ task'[k].by = task[k].by
                                              /\ task'[k].decision = task[k].decision
  BY <1>0, <1>2, <1>4 DEF AtDecision
<1>7. \A k \in Deciders : task'[k].step = "chained" => k = h
  BY <1>3, <1>4 DEF DecisionsUnderWay, AtDecision
<1>8. DecisionsUnderWay'
  BY <1>0, <1>2, <1>3, <1>4, <1>6, <1>7 DEF DecisionsUnderWay, adminTables, Pending
<1>9. StillByTheRules'
  <2>1. ASSUME NEW v, NEW k \in RequestIds, ByTheRules(v, k) PROVE ByTheRules(v, k)'
    BY <1>3, <2>1, RulesKept DEF adminTables
  <2>2. ASSUME NEW k \in Deciders, AtDecision(k)', task'[k].decision = "executed"
        PROVE  task'[k].req \in overtaken' \/ ByTheRules(task[k].by, task[k].req)'
    <3>1. PICK v \in Members, q \in RequestIds : v = task'[k].by /\ q = task'[k].req
      BY <1>4, <2>2, TaskShapes DEF AtDecision, DecisionTask
    <3>2. q \in overtaken \/ ByTheRules(v, q)
      BY <1>6, <2>2, <3>1 DEF StillByTheRules
    <3>3. q \in overtaken' \/ ByTheRules(v, q)'
      BY <1>3, <2>1, <3>2
    <3>4. QED
      BY <3>1, <3>3
  <2>3. QED
    BY <1>3, <2>2 DEF StillByTheRules
<1>10. DropsOwed' /\ OneRoot' /\ LedgerIsTheRecord'
  BY <1>3, DropsStand, LedgerStays DEF adminTables
<1>11. QED
  BY <1>5, <1>8, <1>9, <1>10

\* Closing a request by a decision.
LEMMA RequestClosed ==
    ASSUME AdminTypeOK, NEW r \in RequestIds, adminReq[r] # Unused, NEW s \in Final,
           NEW u \in Members, adminReq' = [adminReq EXCEPT ![r].state = s, ![r].by = {u}]
    PROVE  /\ adminReq' \in [RequestIds -> AdminRequest]
           /\ \A k \in RequestIds : k # r => adminReq'[k] = adminReq[k]
           /\ adminReq'[r] # Unused /\ adminReq'[r].state = s
           /\ adminReq'[r].targets = adminReq[r].targets
           /\ adminReq'[r].dropped = adminReq[r].dropped
<1>1. adminReq[r] \in OpenedRequest
  BY RequestShapes DEF AdminTypeOK
<1>2. PICK q : q = [adminReq[r] EXCEPT !.state = s, !.by = {u}]
  OBVIOUS
<1>3. /\ q \in OpenedRequest /\ q.state = s
      /\ q.targets = adminReq[r].targets /\ q.dropped = adminReq[r].dropped
  BY <1>1, <1>2 DEF OpenedRequest
<1>4. adminReq' = [adminReq EXCEPT ![r] = q]
  BY <1>2 DEF AdminTypeOK
<1>5. adminReq'[r] = q /\ \A k \in RequestIds : k # r => adminReq'[k] = adminReq[k]
  BY <1>4 DEF AdminTypeOK
<1>6. q \in AdminRequest /\ q # Unused
  BY <1>3, RequestShapes
<1>7. adminReq' \in [RequestIds -> AdminRequest]
  BY <1>4, <1>6 DEF AdminTypeOK
<1>8. QED
  BY <1>3, <1>5, <1>6, <1>7

\* An approval commits.
LEMMA ApproveInv ==
    ASSUME AdminInv, NEW h \in Deciders, Approve(h)
    PROVE  AdminInv'
<1> USE DEF AdminInv
<1>1. task[h] \in DecisionTask /\ task[h].step = "chained" /\ AtDecision(h)
  BY TaskShapes DEF Approve, AdminTypeOK, AtDecision
<1>2. PICK r \in RequestIds, u \in Members, left \in SUBSET Members :
        r = task[h].req /\ u = task[h].by /\ left = task[h].left
  BY <1>1 DEF DecisionTask
<1>3. Pending(r) /\ adminReq[r] # Unused /\ task[h].decision = "executed"
      /\ task[h].last = Len(ledger)
  BY <1>1, <1>2, RequestShapes DEF DecisionsUnderWay, Pending
<1>4. /\ Execute(r, left)
      /\ adminReq' = [adminReq EXCEPT ![r].state = "executed", ![r].by = {u}]
      /\ ledger' = Append(ledger, [req |-> r, prev |-> Len(ledger)])
      /\ amiss' = IF ByTheRules(u, r) THEN amiss ELSE amiss \cup {r}
      /\ ledgerLock' = FALSE
      /\ task' = [task EXCEPT ![h] = AtRest]
      /\ UNCHANGED <<mootJobs, mesh, missed>>
  BY <1>2, <1>3 DEF Approve
<1>5. overtaken' = overtaken \cup
        {task[k].req : k \in {g \in Deciders \ {h} : task[g].step \in {"checked", "chained"}}}
  BY DEF Approve, Overtakes
<1>6. /\ task' \in [Deciders -> Task] /\ task'[h] = AtRest
      /\ \A k \in Deciders : k # h => task'[k] = task[k]
  BY <1>4, TaskShapes, OneTaskSet
<1>7. /\ adminReq' \in [RequestIds -> AdminRequest]
      /\ \A k \in RequestIds : k # r => adminReq'[k] = adminReq[k]
      /\ adminReq'[r] # Unused /\ adminReq'[r].state = "executed"
      /\ adminReq'[r].targets = adminReq[r].targets
      /\ adminReq'[r].dropped = adminReq[r].dropped
  BY <1>3, <1>4, RequestClosed DEF Final
<1>8. adminReq[r] \in OpenedRequest
  BY <1>3, RequestShapes DEF AdminTypeOK
<1>9. \A k \in Deciders : AtDecision(k)' => AtDecision(k) /\ k # h /\ task'[k] = task[k]
                                            /\ task[k].req \in RequestIds /\ task[k].req # r
  <2>1. \A k \in Deciders : AtDecision(k)' => AtDecision(k) /\ k # h /\ task'[k] = task[k]
    BY <1>6, TaskShapes DEF AtDecision
  <2>2. \A k \in Deciders : AtDecision(k) => task[k].req \in RequestIds
    BY TaskShapes DEF AtDecision, AdminTypeOK, DecisionTask
  <2>3. QED
    BY <1>1, <1>2, <2>1, <2>2 DEF DecisionsUnderWay
<1>10. AdminTypeOK'
  <2>1. role' \in [Members -> {"root", "admin", "user"}]
    BY <1>4 DEF Execute, AdminTypeOK
  <2>2. suspendedBy' \in [Members -> RequestIds \cup {0}]
    BY <1>4 DEF Execute, AdminTypeOK
  <2>3. perms' \in [Members -> SUBSET Permissions]
    BY <1>4, <1>8 DEF Execute, AdminTypeOK, OpenedRequest
  <2>4. departed' \subseteq Members /\ dropJobs' \subseteq Members
    BY <1>4 DEF Execute, AdminTypeOK
  <2>5. ledger' \in Seq([req : RequestIds \cup {0}, prev : Nat])
    BY <1>4 DEF AdminTypeOK
  <2>6. overtaken' \subseteq RequestIds
    BY <1>5, TaskShapes DEF AdminTypeOK, DecisionTask
  <2>7. amiss' \subseteq RequestIds
    BY <1>4 DEF AdminTypeOK
  <2>8. QED
    BY <1>4, <1>6, <1>7, <2>1, <2>2, <2>3, <2>4, <2>5, <2>6, <2>7 DEF AdminTypeOK
<1>11. DecisionsUnderWay'
  <2>1. \A k \in Deciders : task'[k].step # "chained"
    BY <1>1, <1>6, TaskShapes DEF DecisionsUnderWay
  <2>2. \A k \in Deciders : AtDecision(k)' => adminReq'[task'[k].req].state = "pending"
    BY <1>7, <1>9 DEF DecisionsUnderWay, Pending
  <2>3. QED
    BY <1>9, <2>1, <2>2 DEF DecisionsUnderWay, Pending
<1>12. StillByTheRules'
  <2>1. \A k \in Deciders : AtDecision(k)' => task'[k].req \in overtaken'
    BY <1>5, <1>9 DEF AtDecision
  <2>2. amiss' \subseteq overtaken'
    BY <1>1, <1>2, <1>3, <1>4, <1>5 DEF StillByTheRules
  <2>3. QED
    BY <2>1, <2>2 DEF StillByTheRules
<1>13. OneRoot'
  <2>1. \A v \in Members : role'[v] = "root" => role[v] = "root"
    BY <1>4 DEF Execute
  <2>2. QED
    BY <1>3, <1>7, <2>1 DEF OneRoot
<1>14. DropsOwed'
  <2>1. PICK gone : departed' = departed \cup gone /\ dropJobs' = dropJobs \cup gone
    BY <1>4 DEF Execute
  <2>2. \A k \in RequestIds : adminReq'[k] # Unused => adminReq'[k].dropped \subseteq departed'
    BY <1>3, <1>7, <2>1 DEF DropsOwed
  <2>3. \A k \in RequestIds \ missed' : Pending(k)' =>
          /\ adminReq'[k].targets \cap departed' \subseteq adminReq'[k].dropped \cup dropJobs'
          /\ Remaining(k)' = {} /\ adminReq'[k].targets # {} => k \in mootJobs'
    BY <1>4, <1>7, <2>1 DEF DropsOwed, Pending, Remaining
  <2>4. MootMeansGone'
    BY <1>7, <2>1 DEF DropsOwed, MootMeansGone
  <2>5. dropJobs' \subseteq departed'
    BY <2>1 DEF DropsOwed
  <2>6. QED
    BY <2>2, <2>3, <2>4, <2>5 DEF DropsOwed
<1>15. LedgerIsTheRecord'
  <2>1. adminReq[r].state # "executed"
    BY <1>3 DEF Pending
  <2>2. \A k \in RequestIds : adminReq'[k].state = "executed" <=>
                              adminReq[k].state = "executed" \/ k = r
    BY <1>7
  <2>3. QED
    BY <1>4, <2>1, <2>2, LedgerGrows
<1>16. QED
  BY <1>10, <1>11, <1>12, <1>13, <1>14, <1>15

\* A rejection or a withdrawal commits.
LEMMA DismissInv ==
    ASSUME AdminInv, NEW h \in Deciders, Dismiss(h)
    PROVE  AdminInv'
<1> USE DEF AdminInv
<1>1. task[h] \in DecisionTask /\ task[h].step = "checked" /\ AtDecision(h)
  BY TaskShapes DEF Dismiss, AdminTypeOK, AtDecision
<1>2. PICK r \in RequestIds, u \in Members, d \in {"rejected", "withdrawn"} :
        r = task[h].req /\ u = task[h].by /\ d = task[h].decision
  BY <1>1 DEF DecisionTask, DecisionsUnderWay, Dismiss
<1>3. Pending(r) /\ adminReq[r] # Unused
  BY <1>1, <1>2, RequestShapes DEF DecisionsUnderWay, Pending
<1>4. /\ adminReq' = [adminReq EXCEPT ![r].state = d, ![r].by = {u}]
      /\ task' = [task EXCEPT ![h] = AtRest]
      /\ UNCHANGED <<role, perms, suspendedBy, departed, ledger, ledgerLock, dropJobs, mootJobs,
                     mesh, missed, overtaken, amiss>>
  BY <1>2 DEF Dismiss
<1>5. /\ task' \in [Deciders -> Task] /\ task'[h] = AtRest
      /\ \A k \in Deciders : k # h => task'[k] = task[k]
  BY <1>4, TaskShapes, OneTaskSet
<1>6. /\ adminReq' \in [RequestIds -> AdminRequest]
      /\ \A k \in RequestIds : k # r => adminReq'[k] = adminReq[k]
      /\ adminReq'[r] # Unused /\ adminReq'[r].state = d
      /\ adminReq'[r].targets = adminReq[r].targets
      /\ adminReq'[r].dropped = adminReq[r].dropped
  BY <1>3, <1>4, RequestClosed DEF Final
<1>7. AdminTypeOK'
  BY <1>4, <1>5, <1>6 DEF AdminTypeOK
<1>8. \A k \in Deciders : AtDecision(k)' => AtDecision(k) /\ k # h /\ task'[k] = task[k]
                                            /\ task[k].req \in RequestIds /\ task[k].req # r
  <2>1. \A k \in Deciders : AtDecision(k)' => AtDecision(k) /\ k # h /\ task'[k] = task[k]
    BY <1>5, TaskShapes DEF AtDecision
  <2>2. \A k \in Deciders : AtDecision(k) => task[k].req \in RequestIds
    BY TaskShapes DEF AtDecision, AdminTypeOK, DecisionTask
  <2>3. QED
    BY <1>1, <1>2, <2>1, <2>2 DEF DecisionsUnderWay
<1>9. DecisionsUnderWay'
  <2>1. \A k \in Deciders : AtDecision(k)' => adminReq'[task'[k].req].state = "pending"
    BY <1>6, <1>8 DEF DecisionsUnderWay, Pending
  <2>2. \A k \in Deciders : task'[k].step = "chained" => AtDecision(k)'
    BY DEF AtDecision
  <2>3. \A k \in Deciders : AtDecision(k)' =>
            /\ task'[k].decision \in {"executed", "rejected", "withdrawn"}
            /\ task'[k].step = "chained" => /\ task'[k].decision = "executed" /\ ledgerLock'
                                            /\ task'[k].last = Len(ledger')
    BY <1>4, <1>8 DEF DecisionsUnderWay
  <2>4. \A j, k \in Deciders :
            AtDecision(j)' /\ AtDecision(k)' /\ task'[j].req = task'[k].req => j = k
    BY <1>8 DEF DecisionsUnderWay
  <2>5. \A j, k \in Deciders : task'[j].step = "chained" /\ task'[k].step = "chained" => j = k
    BY <1>8, <2>2 DEF DecisionsUnderWay
  <2>6. QED
    BY <2>1, <2>3, <2>4, <2>5 DEF DecisionsUnderWay, Pending
<1>10. StillByTheRules'
  <2>1. ASSUME NEW k \in Deciders, AtDecision(k)', task'[k].decision = "executed"
        PROVE  task'[k].req \in overtaken' \/ ByTheRules(task[k].by, task[k].req)'
    <3>1. PICK v \in Members, q \in RequestIds : v = task'[k].by /\ q = task'[k].req /\ q # r
      BY <1>8, <2>1, TaskShapes DEF AtDecision, DecisionTask, AdminTypeOK
    <3>2. q \in overtaken \/ ByTheRules(v, q)
      BY <1>8, <2>1, <3>1 DEF StillByTheRules
    <3>3. ByTheRules(v, q) => ByTheRules(v, q)'
      BY <1>4, <1>6, <3>1, RulesKept
    <3>4. QED
      BY <1>4, <3>1, <3>2, <3>3
  <2>2. QED
    BY <1>4, <2>1 DEF StillByTheRules
<1>11. OneRoot'
  BY <1>3, <1>4, <1>6 DEF OneRoot
<1>12. DropsOwed'
  <2>1. \A k \in RequestIds : adminReq'[k] # Unused => adminReq'[k].dropped \subseteq departed'
    BY <1>3, <1>4, <1>6 DEF DropsOwed
  <2>2. \A k \in RequestIds \ missed' : Pending(k)' =>
          /\ adminReq'[k].targets \cap departed' \subseteq adminReq'[k].dropped \cup dropJobs'
          /\ Remaining(k)' = {} /\ adminReq'[k].targets # {} => k \in mootJobs'
    BY <1>4, <1>6 DEF DropsOwed, Pending, Remaining
  <2>3. MootMeansGone'
    BY <1>4, <1>6 DEF DropsOwed, MootMeansGone
  <2>4. QED
    BY <1>4, <2>1, <2>2, <2>3 DEF DropsOwed
<1>13. LedgerIsTheRecord'
  <2>1. \A k \in RequestIds : adminReq'[k].state = "executed" <=> adminReq[k].state = "executed"
    BY <1>3, <1>6 DEF Pending
  <2>2. QED
    BY <1>4, <2>1, LedgerStays
<1>14. QED
  BY <1>7, <1>9, <1>10, <1>11, <1>12, <1>13

\* A member leaves; who waits for that is told.
LEMMA LeaveServerInv ==
    ASSUME AdminInv, NEW u \in Members, LeaveServer(u)
    PROVE  AdminInv'
<1> USE DEF AdminInv
<1>1. /\ departed' = departed \cup {u} /\ dropJobs' = dropJobs \cup {u}
      /\ UNCHANGED <<role, perms, suspendedBy, adminReq, ledger, ledgerLock, task, mootJobs, mesh,
                     missed, overtaken, amiss>>
  BY DEF LeaveServer
<1>2. AdminTypeOK' /\ OneRoot'
  BY <1>1 DEF AdminTypeOK, OneRoot
<1>3. DecisionsUnderWay' /\ StillByTheRules'
  <2>1. \A q \in RequestIds : Locked(q) => Pending(q)'
    BY <1>1 DEF Locked, DecisionsUnderWay, AtDecision, Pending
  <2>2. QED
    BY <1>1, <2>1, DecisionsGoOn
<1>4. DropsOwed'
  BY <1>1 DEF DropsOwed, MootMeansGone, Pending, Remaining
<1>5. LedgerIsTheRecord'
  BY <1>1, LedgerStays
<1>6. QED
  BY <1>2, <1>3, <1>4, <1>5

\* dropFromAdminRequests for one who left.
LEMMA DropTargetsInv ==
    ASSUME AdminInv, NEW u \in Members, DropTargets(u)
    PROVE  AdminInv'
<1> USE DEF AdminInv
<1>1. /\ u \in dropJobs /\ dropJobs' = dropJobs \ {u} /\ mootJobs' = mootJobs \cup Named(u)
      /\ adminReq' = [r \in RequestIds |->
            IF r \in Named(u) THEN [adminReq[r] EXCEPT !.dropped = @ \cup {u}] ELSE adminReq[r]]
      /\ UNCHANGED <<role, perms, suspendedBy, departed, ledger, ledgerLock, task, mesh, missed,
                     overtaken, amiss>>
  BY DEF DropTargets
<1>2. ASSUME NEW r \in RequestIds, adminReq[r] # Unused
      PROVE  /\ adminReq'[r] \in OpenedRequest /\ adminReq'[r].state = adminReq[r].state
             /\ adminReq'[r].action = adminReq[r].action
             /\ adminReq'[r].requester = adminReq[r].requester
             /\ adminReq'[r].targets = adminReq[r].targets /\ adminReq'[r].body = adminReq[r].body
             /\ adminReq'[r].dropped = adminReq[r].dropped \cup (IF r \in Named(u) THEN {u} ELSE {})
  <2>1. adminReq[r] \in OpenedRequest
    BY <1>2, RequestShapes DEF AdminTypeOK
  <2>2. CASE r \in Named(u)
    <3>1. adminReq'[r] = [adminReq[r] EXCEPT !.dropped = @ \cup {u}]
      BY <1>1, <2>2
    <3>2. QED
      BY <2>1, <2>2, <3>1 DEF OpenedRequest
  <2>3. CASE r \notin Named(u)
    BY <1>1, <2>1, <2>3
  <2>4. QED
    BY <2>2, <2>3
<1>3. \A r \in RequestIds : adminReq[r] = Unused => adminReq'[r] = Unused
  <2>1. \A r \in Named(u) : adminReq[r] # Unused
    BY RequestShapes DEF Named, Pending
  <2>2. QED
    BY <1>1, <2>1
<1>4. AdminTypeOK'
  <2>1. \A r \in RequestIds : adminReq'[r] \in AdminRequest
    BY <1>2, <1>3, RequestShapes
  <2>2. adminReq' \in [RequestIds -> AdminRequest]
    BY <1>1, <2>1
  <2>3. dropJobs' \subseteq Members /\ mootJobs' \subseteq RequestIds
    BY <1>1 DEF AdminTypeOK, Named
  <2>4. QED
    BY <1>1, <2>2, <2>3 DEF AdminTypeOK
<1>5. DecisionsUnderWay' /\ StillByTheRules'
  <2>1. \A q \in RequestIds : Locked(q) => Pending(q) /\ adminReq[q] # Unused
    BY RequestShapes DEF Locked, DecisionsUnderWay, AtDecision, Pending
  <2>2. \A q \in RequestIds : Locked(q) =>
          /\ Pending(q)'
          /\ adminReq'[q].action = adminReq[q].action
          /\ adminReq'[q].requester = adminReq[q].requester
          /\ adminReq'[q].targets = adminReq[q].targets /\ adminReq'[q].body = adminReq[q].body
          /\ adminReq[q].dropped \subseteq adminReq'[q].dropped
    BY <1>2, <2>1 DEF Pending
  <2>3. QED
    BY <1>1, <2>2, DecisionsGoOn
<1>6. OneRoot'
  BY <1>1, <1>2, <1>3 DEF OneRoot
<1>7. DropsOwed'
  <2>1. dropJobs' \subseteq departed'
    BY <1>1 DEF DropsOwed
  <2>2. \A r \in RequestIds : adminReq'[r] # Unused => adminReq'[r].dropped \subseteq departed'
    BY <1>1, <1>2, <1>3 DEF DropsOwed
  <2>3. ASSUME NEW r \in RequestIds \ missed', Pending(r)'
        PROVE  /\ adminReq'[r].targets \cap departed' \subseteq adminReq'[r].dropped \cup dropJobs'
               /\ Remaining(r)' = {} /\ adminReq'[r].targets # {} => r \in mootJobs'
    <3>1. adminReq[r] # Unused /\ Pending(r) /\ r \notin missed
      BY <1>1, <1>2, <1>3, <2>3, RequestShapes DEF Pending
    <3>2. /\ adminReq[r].targets \cap departed \subseteq adminReq[r].dropped \cup dropJobs
          /\ Remaining(r) = {} /\ adminReq[r].targets # {} => r \in mootJobs
      BY <3>1 DEF DropsOwed
    <3>3. CASE r \in Named(u)
      <4>1. adminReq'[r].targets \cap departed' \subseteq adminReq'[r].dropped \cup dropJobs'
        BY <1>1, <1>2, <3>1, <3>2, <3>3
      <4>2. QED
        BY <1>1, <3>3, <4>1
    <3>4. CASE r \notin Named(u)
      <4>1. u \notin adminReq[r].targets \/ u \in adminReq[r].dropped
        BY <3>1, <3>4 DEF Named, Remaining
      <4>2. adminReq'[r].targets \cap departed' \subseteq adminReq'[r].dropped \cup dropJobs'
        BY <1>1, <1>2, <3>1, <3>2, <3>4, <4>1
      <4>3. Remaining(r)' = Remaining(r)
        BY <1>2, <3>1, <3>4 DEF Remaining
      <4>4. QED
        BY <1>1, <1>2, <3>1, <3>2, <4>2, <4>3
    <3>5. QED
      BY <3>3, <3>4
  <2>4. MootMeansGone'
    <3>1. \A r \in RequestIds : adminReq'[r].state = "moot" =>
              adminReq[r].state = "moot" /\ adminReq'[r].targets = adminReq[r].targets
      BY <1>2, <1>3, RequestShapes
    <3>2. QED
      BY <1>1, <3>1 DEF DropsOwed, MootMeansGone
  <2>5. QED
    BY <2>1, <2>2, <2>3, <2>4 DEF DropsOwed
<1>8. LedgerIsTheRecord'
  <2>1. \A r \in RequestIds : adminReq'[r].state = "executed" <=> adminReq[r].state = "executed"
    BY <1>2, <1>3
  <2>2. QED
    BY <1>1, <2>1, LedgerStays
<1>9. QED
  BY <1>4, <1>5, <1>6, <1>7, <1>8

\* closeIfMoot.
LEMMA CloseIfMootInv ==
    ASSUME AdminInv, NEW r \in RequestIds, CloseIfMoot(r)
    PROVE  AdminInv'
<1> USE DEF AdminInv
<1>1. /\ ~Locked(r) /\ mootJobs' = mootJobs \ {r}
      /\ adminReq' = IF Pending(r) /\ Remaining(r) = {}
                     THEN [adminReq EXCEPT ![r].state = "moot"] ELSE adminReq
      /\ UNCHANGED <<role, perms, suspendedBy, departed, ledger, ledgerLock, task, dropJobs, mesh,
                     missed, overtaken, amiss>>
  BY DEF CloseIfMoot
<1>2. /\ adminReq' \in [RequestIds -> AdminRequest]
      /\ \A k \in RequestIds : k # r => adminReq'[k] = adminReq[k]
      /\ adminReq'[r] # Unused => adminReq[r] # Unused
      /\ adminReq'[r] = adminReq[r] \/ /\ Pending(r) /\ Remaining(r) = {} /\ adminReq[r] # Unused
                                       /\ adminReq'[r].state = "moot"
                                       /\ adminReq'[r].targets = adminReq[r].targets
                                       /\ adminReq'[r].dropped = adminReq[r].dropped
      /\ Pending(r) /\ Remaining(r) = {} => adminReq'[r].state = "moot"
  <2>1. CASE Pending(r) /\ Remaining(r) = {}
    <3>1. adminReq[r] # Unused /\ adminReq[r] \in OpenedRequest
      BY <2>1, RequestShapes DEF Pending, AdminTypeOK
    <3>2. PICK q : q = [adminReq[r] EXCEPT !.state = "moot"]
      OBVIOUS
    <3>3. /\ q \in OpenedRequest /\ q.state = "moot" /\ q \in AdminRequest /\ q # Unused
          /\ q.targets = adminReq[r].targets /\ q.dropped = adminReq[r].dropped
      <4>1. /\ q \in OpenedRequest /\ q.state = "moot"
            /\ q.targets = adminReq[r].targets /\ q.dropped = adminReq[r].dropped
        BY <3>1, <3>2 DEF OpenedRequest, Final
      <4>2. QED
        BY <4>1, RequestShapes
    <3>4. adminReq' = [adminReq EXCEPT ![r] = q]
      BY <1>1, <2>1, <3>2 DEF AdminTypeOK
    <3>5. adminReq' \in [RequestIds -> AdminRequest] /\ adminReq'[r] = q
          /\ \A k \in RequestIds : k # r => adminReq'[k] = adminReq[k]
      BY <3>3, <3>4 DEF AdminTypeOK
    <3>6. QED
      BY <2>1, <3>1, <3>3, <3>5
  <2>2. CASE ~(Pending(r) /\ Remaining(r) = {})
    BY <1>1, <2>2 DEF AdminTypeOK
  <2>3. QED
    BY <2>1, <2>2
<1>3. AdminTypeOK' /\ OneRoot'
  BY <1>1, <1>2 DEF AdminTypeOK, OneRoot
<1>4. DecisionsUnderWay' /\ StillByTheRules'
  <2>1. \A q \in RequestIds : Locked(q) => Pending(q) /\ q # r
    BY <1>1 DEF Locked, DecisionsUnderWay, AtDecision
  <2>2. \A q \in RequestIds : Locked(q) => Pending(q)' /\ adminReq'[q] = adminReq[q]
    BY <1>2, <2>1 DEF Pending
  <2>3. QED
    BY <1>1, <2>2, DecisionsGoOn
<1>5. DropsOwed'
  <2>1. \A k \in RequestIds : adminReq'[k] # Unused => adminReq'[k].dropped \subseteq departed'
    BY <1>1, <1>2 DEF DropsOwed
  <2>2. \A k \in RequestIds \ missed' : Pending(k)' =>
          /\ adminReq'[k].targets \cap departed' \subseteq adminReq'[k].dropped \cup dropJobs'
          /\ Remaining(k)' = {} /\ adminReq'[k].targets # {} => k \in mootJobs'
    BY <1>1, <1>2 DEF DropsOwed, Pending, Remaining
  <2>3. adminReq'[r].state = "moot" => adminReq'[r].targets \subseteq departed
    BY <1>2 DEF DropsOwed, MootMeansGone, Remaining
  <2>4. MootMeansGone'
    BY <1>1, <1>2, <2>3 DEF DropsOwed, MootMeansGone
  <2>5. QED
    BY <1>1, <2>1, <2>2, <2>4 DEF DropsOwed
<1>6. LedgerIsTheRecord'
  <2>1. \A k \in RequestIds : adminReq'[k].state = "executed" <=> adminReq[k].state = "executed"
    BY <1>2 DEF Pending
  <2>2. QED
    BY <1>1, <2>1, LedgerStays
<1>7. QED
  BY <1>3, <1>4, <1>5, <1>6

\* An entry that belongs to no request.
LEMMA AppendOtherInv ==
    ASSUME AdminInv, AppendOther
    PROVE  AdminInv'
<1> USE DEF AdminInv
<1>1. /\ ~ledgerLock /\ mesh < MaxMesh /\ mesh' = mesh + 1
      /\ ledger' = Append(ledger, [req |-> 0, prev |-> Len(ledger)])
      /\ UNCHANGED <<role, perms, suspendedBy, departed, adminReq, ledgerLock, task, dropJobs,
                     mootJobs, missed, overtaken, amiss>>
  BY DEF AppendOther
<1>2. AdminTypeOK'
  BY <1>1, AdminAssumption DEF AdminTypeOK
<1>3. \A h \in Deciders : task[h].step # "chained"
  BY <1>1 DEF DecisionsUnderWay, AtDecision
<1>4. DecisionsUnderWay'
  BY <1>1, <1>3 DEF DecisionsUnderWay, AtDecision, Pending
<1>5. StillByTheRules'
  <2>1. ASSUME NEW k \in Deciders, AtDecision(k)', task'[k].decision = "executed"
        PROVE  task'[k].req \in overtaken' \/ ByTheRules(task[k].by, task[k].req)'
    <3>1. PICK v \in Members, q \in RequestIds : v = task'[k].by /\ q = task'[k].req
      BY <1>1, <2>1, TaskShapes DEF AtDecision, DecisionTask, AdminTypeOK
    <3>2. q \in overtaken \/ ByTheRules(v, q)
      BY <1>1, <2>1, <3>1 DEF StillByTheRules, AtDecision
    <3>3. ByTheRules(v, q) => ByTheRules(v, q)'
      BY <1>1, RulesKept
    <3>4. QED
      BY <1>1, <3>1, <3>2, <3>3
  <2>2. QED
    BY <1>1, <2>1 DEF StillByTheRules
<1>6. DropsOwed' /\ OneRoot'
  BY <1>1, DropsStand
<1>7. LedgerIsTheRecord'
  <2>1. 0 \notin RequestIds
    BY DEF RequestIds
  <2>2. QED
    BY <1>1, <2>1, LedgerGrows
<1>8. QED
  BY <1>2, <1>4, <1>5, <1>6, <1>7

\* The server stops.
LEMMA AdminCrashInv ==
    ASSUME AdminInv, AdminCrash
    PROVE  AdminInv'
<1> USE DEF AdminInv
<1>1. /\ task' = [h \in Deciders |-> AtRest] /\ ledgerLock' = FALSE
      /\ dropJobs' = {} /\ mootJobs' = {}
      /\ missed' = missed \cup mootJobs \cup UNION {Named(u) : u \in dropJobs}
      /\ UNCHANGED <<adminTables, mesh, overtaken, amiss>>
  BY DEF AdminCrash
<1>2. AdminTypeOK'
  <2>1. missed' \subseteq RequestIds
    BY <1>1 DEF AdminTypeOK, Named
  <2>2. task' \in [Deciders -> Task]
    BY <1>1, TaskShapes
  <2>3. QED
    BY <1>1, <2>1, <2>2 DEF AdminTypeOK, adminTables
<1>3. DecisionsUnderWay' /\ StillByTheRules'
  <2>1. \A h \in Deciders : task'[h] = AtRest
    BY <1>1
  <2>2. QED
    BY <1>1, <2>1, TaskShapes DEF DecisionsUnderWay, StillByTheRules, AtDecision
<1>4. DropsOwed'
  <2>1. ASSUME NEW r \in RequestIds \ missed', Pending(r)'
        PROVE  /\ adminReq'[r].targets \cap departed' \subseteq adminReq'[r].dropped
               /\ ~(Remaining(r)' = {} /\ adminReq'[r].targets # {})
    <3>1. /\ r \notin missed /\ r \notin mootJobs /\ Pending(r)
          /\ \A u \in dropJobs : r \notin Named(u)
      BY <1>1, <2>1 DEF Pending, adminTables
    <3>2. \A u \in dropJobs : u \notin adminReq[r].targets \/ u \in adminReq[r].dropped
      BY <3>1 DEF Named, Remaining
    <3>3. QED
      BY <1>1, <3>1, <3>2 DEF DropsOwed, Remaining, adminTables
  <2>2. QED
    BY <1>1, <2>1 DEF DropsOwed, MootMeansGone, adminTables
<1>5. OneRoot' /\ LedgerIsTheRecord'
  BY <1>1, LedgerStays DEF OneRoot, adminTables
<1>6. QED
  BY <1>2, <1>3, <1>4, <1>5

\* Every step keeps it.
LEMMA AdminNextInv == AdminInv /\ [AdminNext]_adminVars => AdminInv'
<1> SUFFICES ASSUME AdminInv, [AdminNext]_adminVars PROVE AdminInv'
  OBVIOUS
<1>1. CASE UNCHANGED adminVars
  <2>1. /\ task' \in [Deciders -> Task] /\ ledgerLock' \in BOOLEAN
        /\ \A h \in Deciders : task'[h] = task[h]
    BY <1>1 DEF adminVars, AdminInv, AdminTypeOK
  <2>2. QED
    BY <1>1, <2>1, TasksEndInv DEF adminVars, adminTables
<1>2. ASSUME NEW h \in Deciders, NEW r \in RequestIds,
             \/ \E p \in Proposals : OpenCheck(h, r, p)
             \/ \E u \in Members, d \in {"executed", "rejected", "withdrawn"} :
                    DecideCheck(h, u, r, d)
      PROVE  AdminInv'
  BY <1>2, OpenCheckInv, DecideCheckInv
<1>3. ASSUME NEW h \in Deciders,
             \/ Open(h) \/ OpenExists(h) \/ LedgerTurn(h)
             \/ Approve(h) \/ ApproveFails(h) \/ Dismiss(h)
      PROVE  AdminInv'
  BY <1>3, OpenInv, OpenExistsInv, LedgerTurnInv, ApproveInv, DismissInv
<1>4. ASSUME NEW u \in Members, LeaveServer(u) \/ DropTargets(u) PROVE AdminInv'
  BY <1>4, LeaveServerInv, DropTargetsInv
<1>5. ASSUME NEW r \in RequestIds, CloseIfMoot(r) PROVE AdminInv'
  BY <1>5, CloseIfMootInv
<1>6. QED
  BY <1>1, <1>2, <1>3, <1>4, <1>5, AppendOtherInv, AdminCrashInv DEF AdminNext

\* The ledger is one chain, with one entry for each executed request and none
\* for the others (appendLedgerEntryTx), whatever decides, leaves and stops.
THEOREM LedgerAlwaysTheRecord == AdminSpec => []LedgerIsTheRecord
<1>1. AdminInv => LedgerIsTheRecord
  BY DEF AdminInv
<1>2. QED
  BY <1>1, AdminInitInv, AdminNextInv, PTL DEF AdminSpec

\* An approval obeys the approver's rules when it takes effect unless another
\* decision committed in between, and a request is moot when all it named have
\* left, and only then unless the removal was missed (checkDeciderQ,
\* closeMootAdminRequests).
THEOREM DecisionsAlwaysHold == AdminSpec => []DecisionsHold
<1>1. AdminInv => DecisionsHold
  <2> SUFFICES ASSUME AdminInv PROVE DecisionsHold
    OBVIOUS
  <2> USE DEF AdminInv
  <2>1. ASSUME dropJobs = {}, mootJobs = {}, NEW r \in RequestIds \ missed, Pending(r),
               adminReq[r].targets # {}
        PROVE  adminReq[r].targets \ departed # {}
    BY <2>1 DEF DropsOwed, Remaining
  <2>2. RulesHoldUnlessOvertaken /\ MootMeansGone
    BY DEF StillByTheRules, RulesHoldUnlessOvertaken, DropsOwed
  <2>3. QED
    BY <2>1, <2>2 DEF DecisionsHold, MootIffAllGone, MootUnlessMissed
<1>2. QED
  BY <1>1, AdminInitInv, AdminNextInv, PTL DEF AdminSpec

-----------------------------------------------------------------------------
(* Restore                                                                 *)

\* What a record is parked on: a user, or a ledger entry.
Awaitable(on) == on \in Identities \/ \E n \in Nat : on = Entry(n)

RestorersAtWork ==
    /\ restorer = [w \in Restorers |-> restorer[w]] /\ inHand = [w \in Restorers |-> inHand[w]]
    /\ \A w \in Restorers : restorer[w].step \in {"trying", "parking", "writing"} =>
          restorer[w].rec \in Records
    /\ \A w \in Restorers : restorer[w].step = "parking" =>
          \A on \in restorer[w].saw : Awaitable(on)
    /\ \A p \in parkedRecords : Awaitable(p[1])

Writing(w) == restorer[w].step = "writing"

\* One record stands for a subject, and one does for everything restored.
OneStands ==
    /\ \A s, t \in standing : Subject(s) = Subject(t) => s = t
    /\ \A r \in restored : \E s \in standing : Subject(s) = Subject(r)

\* Whoever writes a ledger entry has found the one before it.
LedgerFound ==
    \A w \in Restorers : Writing(w) /\ restorer[w].rec.kind = "ledger" =>
        \A n \in {restorer[w].rec.prev} : n = 0 \/ Back(Entry(n))

\* Two that write what concerns the other know of one another's subjects.
WritersMixed ==
    \A v, w \in Restorers : v # w /\ Writing(v) /\ Writing(w) /\ Meets(restorer[v].rec, restorer[w].rec) =>
        {Subject(restorer[v].rec), Subject(restorer[w].rec)} \subseteq mixed

\* What a writer saw before it writes is still so, or was mixed.
WritersSaw ==
    \A w \in Restorers : Writing(w) =>
        LET r == restorer[w].rec IN
        /\ Standing(r) = {} \/ Subject(r) \in mixed
        /\ r.kind = "echo" /\ restorer[w].saw = {} =>
              \A s \in standing : s.kind = "removal" /\ s.id = r.id => Subject(s) \in mixed
        /\ r.kind = "removal" /\ r.id \in echoes => r.id \in restorer[w].saw \/ Subject(r) \in mixed

RestoreInv ==
    /\ RestoreTypeOK /\ RestorersAtWork /\ NothingForgotten
    /\ OneStands /\ LedgerFound /\ WritersMixed /\ WritersSaw /\ OrderDoesNotShow

\* Records of one subject are of one kind, or of the two that replace one another.
Subjects == {{"ledger"}, {"request", "closed"}, {"follow", "unfollow"}, {"removal"}, {"echo"}, Peerings}

LEMMA RecordShapes ==
    \A r \in Records : /\ r.kind \in {"ledger", "request", "closed", "follow", "unfollow", "removal", "echo",
                                      "peering", "parting"}
                       /\ r.prev \in Nat /\ r.id \in Nat /\ r.at \in Nat
BY RestoreAssumption DEF SignedRecord

LEMMA SameSubject ==
    ASSUME NEW r \in Records, NEW s \in Records, Subject(r) = Subject(s)
    PROVE  /\ \E kinds \in Subjects : r.kind \in kinds /\ s.kind \in kinds
           /\ r.id = s.id
BY RecordShapes DEF Subject, Subjects, Peerings

LEMMA EntrySubject ==
    ASSUME NEW r \in Records, NEW n \in Nat, Subject(r) = Entry(n)
    PROVE  r.kind = "ledger"
BY RecordShapes DEF Subject, Entry, Peerings

LEMMA ReedSubject ==
    ASSUME NEW r \in Records, NEW s \in Records, r.kind = "removal", s.kind = "removal", r.id = s.id
    PROVE  Subject(r) = Subject(s)
BY DEF Subject, Peerings

LEMMA MeetsBothWays ==
    /\ \A r, s : Meets(r, s) => Meets(s, r)
    /\ \A r, s \in Records : r.kind = "echo" /\ s.kind = "removal" /\ r.id = s.id => Meets(r, s)
BY DEF Meets, SameReed

\* What replaces another is not itself replaced by what that one holds off.
LEMMA ReplacedOnce ==
    ASSUME NEW q \in Records, NEW r \in Records, NEW s \in Records,
           Subject(q) = Subject(s), Subject(r) = Subject(s), ~Replaces(q, s), Replaces(r, s)
    PROVE  ~Replaces(q, r)
<1>1. /\ r.kind \in {"ledger", "request", "closed", "follow", "unfollow", "removal", "echo", "peering", "parting"}
      /\ q.at \in Nat /\ r.at \in Nat /\ s.at \in Nat
  BY RecordShapes
<1>2. \E kinds \in Subjects : q.kind \in kinds /\ s.kind \in kinds
  BY SameSubject
<1>3. \E kinds \in Subjects : r.kind \in kinds /\ s.kind \in kinds
  BY SameSubject
<1>4. QED
  BY <1>1, <1>2, <1>3 DEF Replaces, RestorePeer, Subjects, Peerings

LEMMA NotItsOwn == \A r \in Records : ~Replaces(r, r)
BY RecordShapes DEF Replaces, RestorePeer

\* A request that turns to something.
LEMMA Turns ==
    ASSUME RestoreInv, NEW w \in Restorers, NEW to, Goes(w, to)
    PROVE  /\ restorer' = [v \in Restorers |-> restorer'[v]]
           /\ restorer'[w] = to /\ \A v \in Restorers : v # w => restorer'[v] = restorer[v]
<1>1. PICK f : f = restorer /\ f = [v \in Restorers |-> f[v]]
  BY DEF RestoreInv, RestorersAtWork
<1>2. restorer' = [f EXCEPT ![w] = to]
  BY <1>1 DEF Goes
<1>3. QED
  BY <1>1, <1>2

LEMMA HandShaped ==
    ASSUME RestoreInv
    PROVE  /\ inHand = [v \in Restorers |-> inHand[v]] /\ \A v \in Restorers : inHand[v] \subseteq Records
           /\ \A w \in Restorers : \A S : inHand' = [inHand EXCEPT ![w] = S] =>
                /\ inHand' = [v \in Restorers |-> inHand'[v]]
                /\ inHand'[w] = S /\ \A v \in Restorers : v # w => inHand'[v] = inHand[v]
<1>1. inHand = [v \in Restorers |-> inHand[v]] /\ \A v \in Restorers : inHand[v] \subseteq Records
  BY DEF RestoreInv, RestorersAtWork, RestoreTypeOK
<1>2. ASSUME NEW w \in Restorers, NEW S, inHand' = [inHand EXCEPT ![w] = S]
      PROVE  /\ inHand' = [v \in Restorers |-> inHand'[v]]
             /\ inHand'[w] = S /\ \A v \in Restorers : v # w => inHand'[v] = inHand[v]
  BY <1>1, <1>2
<1>3. QED
  BY <1>1, <1>2

\* What every step has to keep of the requests themselves.
LEMMA RequestsKept ==
    ASSUME RestoreInv, NEW w \in Restorers, NEW to, Goes(w, to),
           to.step \in {"idle", "next", "trying", "parking", "writing", "waking"},
           to.step \in {"trying", "parking", "writing"} => to.rec \in Records,
           to.step = "parking" => \A on \in to.saw : Awaitable(on),
           inHand' = [v \in Restorers |-> inHand'[v]],
           inHand'[w] \subseteq Records, to.step = "idle" => inHand'[w] = {},
           \A v \in Restorers : v # w => inHand'[v] = inHand[v],
           claimedUsers' \subseteq Identities, restored' \subseteq Records, standing' \subseteq restored',
           \A p \in parkedRecords' : p[2] \in Records /\ Awaitable(p[1]),
           reports' \in 0 .. MaxReports, deaths' \in 0 .. MaxDeaths, forgotten' \subseteq Records
    PROVE  RestoreTypeOK' /\ RestorersAtWork'
<1>1. /\ restorer' = [v \in Restorers |-> restorer'[v]]
      /\ restorer'[w] = to /\ \A v \in Restorers : v # w => restorer'[v] = restorer[v]
  BY Turns
<1>2. \A v \in Restorers :
         /\ restorer[v].step \in {"idle", "next", "trying", "parking", "writing", "waking"}
         /\ inHand[v] \subseteq Records
         /\ restorer[v].step = "idle" => inHand[v] = {}
         /\ restorer[v].step \in {"trying", "parking", "writing"} => restorer[v].rec \in Records
         /\ restorer[v].step = "parking" => \A on \in restorer[v].saw : Awaitable(on)
  BY DEF RestoreInv, RestoreTypeOK, RestorersAtWork
<1>3. \A v \in Restorers :
         /\ restorer'[v].step \in {"idle", "next", "trying", "parking", "writing", "waking"}
         /\ inHand'[v] \subseteq Records
         /\ restorer'[v].step = "idle" => inHand'[v] = {}
         /\ restorer'[v].step \in {"trying", "parking", "writing"} => restorer'[v].rec \in Records
         /\ restorer'[v].step = "parking" => \A on \in restorer'[v].saw : Awaitable(on)
  <2>1. TAKE v \in Restorers
  <2>2. CASE v = w
    BY <1>1, <2>2
  <2>3. CASE v # w
    BY <1>1, <1>2, <2>3
  <2>4. QED
    BY <2>2, <2>3
<1>4. RestoreTypeOK'
  BY <1>3 DEF RestoreTypeOK
<1>5. RestorersAtWork'
  BY <1>1, <1>3 DEF RestorersAtWork, Awaitable, Entry
<1>6. QED
  BY <1>4, <1>5

\* What is back stays back.
LEMMA BackStays ==
    ASSUME claimedUsers \subseteq claimedUsers',
           \A r \in standing : \E s \in standing' : Subject(s) = Subject(r)
    PROVE  \A on : Back(on) => Back(on)'
BY DEF Back

\* Nothing parked is forgotten by a step that names who wakes what came back.
LEMMA NobodyForgets ==
    ASSUME RestoreInv, NEW w \in Restorers, NEW to, Goes(w, to),
           forgotten \subseteq forgotten',
           \A p \in parkedRecords' :
              \/ /\ p \in parkedRecords
                 /\ restorer[w] = WakingOn(p[1]) => p[2] \in forgotten'
                 /\ Back(p[1])' => Back(p[1]) \/ to = WakingOn(p[1])
              \/ Back(p[1])' => p[2] \in forgotten' \/ \E v \in Restorers \ {w} : restorer[v] = WakingOn(p[1])
    PROVE  NothingForgotten'
<1>1. restorer'[w] = to /\ \A v \in Restorers : v # w => restorer'[v] = restorer[v]
  BY Turns
<1>2. SUFFICES ASSUME NEW p \in parkedRecords', Back(p[1])', p[2] \notin forgotten'
               PROVE  \E v \in Restorers : restorer'[v] = WakingOn(p[1])
  BY DEF NothingForgotten, WakingOn
<1>3. CASE to = WakingOn(p[1])
  BY <1>1, <1>3
<1>4. CASE \E v \in Restorers \ {w} : restorer[v] = WakingOn(p[1])
  BY <1>1, <1>4
<1>5. CASE p \in parkedRecords /\ Back(p[1]) /\ ~(restorer[w] = WakingOn(p[1]))
  <2>1. \A q \in parkedRecords : Back(q[1]) => q[2] \in forgotten \/ \E v \in Restorers : restorer[v] = WakingOn(q[1])
    BY DEF RestoreInv, NothingForgotten
  <2>2. \E v \in Restorers : restorer[v] = WakingOn(p[1])
    BY <1>2, <1>5, <2>1
  <2>3. QED
    BY <1>1, <1>5, <2>2
<1>6. QED
  BY <1>2, <1>3, <1>4, <1>5

\* What is written and what stands, as long as nobody begins to write.
WriteInv == OneStands /\ LedgerFound /\ WritersMixed /\ WritersSaw /\ OrderDoesNotShow

LEMMA WritersKept ==
    ASSUME RestoreInv, NEW w \in Restorers, NEW to, Goes(w, to), to.step # "writing",
           claimedUsers \subseteq claimedUsers',
           UNCHANGED <<restored, standing, echoes, mixed>>
    PROVE  WriteInv'
<1>1. restorer'[w] = to /\ \A v \in Restorers : v # w => restorer'[v] = restorer[v]
  BY Turns
<1>2. \A v \in Restorers : restorer'[v].step = "writing" => restorer[v].step = "writing" /\ restorer'[v] = restorer[v]
  BY <1>1
<1>3. \A on : Back(on) => Back(on)'
  BY BackStays
<1>4. OneStands'
  BY DEF RestoreInv, OneStands
<1>5. LedgerFound'
  <2>1. SUFFICES ASSUME NEW v \in Restorers, restorer'[v].step = "writing", restorer'[v].rec.kind = "ledger",
                        NEW n \in {restorer'[v].rec.prev}
                 PROVE  n = 0 \/ Back(Entry(n))'
    BY DEF LedgerFound, Writing
  <2>2. n = 0 \/ Back(Entry(n))
    BY <1>2, <2>1 DEF RestoreInv, LedgerFound, Writing
  <2>3. QED
    BY <1>3, <2>2
<1>6. WritersMixed'
  BY <1>2 DEF RestoreInv, WritersMixed, Writing, Meets, SameReed
<1>7. WritersSaw'
  <2>1. \A v \in Restorers : restorer[v].step = "writing" =>
           /\ {s \in standing : Subject(s) = Subject(restorer[v].rec)} = {} \/ Subject(restorer[v].rec) \in mixed
           /\ restorer[v].rec.kind = "echo" /\ restorer[v].saw = {} =>
                 \A s \in standing : s.kind = "removal" /\ s.id = restorer[v].rec.id => Subject(s) \in mixed
           /\ restorer[v].rec.kind = "removal" /\ restorer[v].rec.id \in echoes =>
                 restorer[v].rec.id \in restorer[v].saw \/ Subject(restorer[v].rec) \in mixed
    BY DEF RestoreInv, WritersSaw, Writing, Standing
  <2>2. QED
    BY <1>2, <2>1 DEF WritersSaw, Writing, Standing
<1>8. OrderDoesNotShow'
  <2>1. \A r \in restored : r.kind = "ledger" => r.prev = 0 \/ Back(Entry(r.prev))
    BY DEF RestoreInv, OrderDoesNotShow
  <2>2. \A r \in restored' : r.kind = "ledger" => r.prev = 0 \/ Back(Entry(r.prev))'
    BY <1>3, <2>1
  <2>3. QED
    BY <2>2 DEF RestoreInv, OrderDoesNotShow
<1>9. QED
  BY <1>4, <1>5, <1>6, <1>7, <1>8 DEF WriteInv

LEMMA RestoreTogether ==
    RestoreTypeOK' /\ RestorersAtWork' /\ NothingForgotten' /\ WriteInv' => RestoreInv'
BY DEF RestoreInv, WriteInv

LEMMA RestoreTypes ==
    ASSUME RestoreInv
    PROVE  /\ claimedUsers \subseteq Identities /\ restored \subseteq Records /\ standing \subseteq restored
           /\ \A p \in parkedRecords : p[2] \in Records /\ Awaitable(p[1])
           /\ reports \in 0 .. MaxReports /\ deaths \in 0 .. MaxDeaths /\ forgotten \subseteq Records
           /\ \A v \in Restorers : restorer[v].step \in {"trying", "parking", "writing"} => restorer[v].rec \in Records
           /\ \A v \in Restorers : restorer[v].step = "idle" => inHand[v] = {}
           /\ MaxReports \in Nat /\ MaxDeaths \in Nat
BY RestoreAssumption DEF RestoreInv, RestoreTypeOK, RestorersAtWork

\* A step that turns to something else, and brings at most a user back.
LEMMA QuietInv ==
    ASSUME RestoreInv, NEW w \in Restorers, NEW to, Goes(w, to),
           to.step \in {"idle", "next", "trying", "parking", "waking"},
           to.step \in {"trying", "parking"} => to.rec \in Records,
           to.step = "parking" => \A on \in to.saw : Awaitable(on),
           inHand' = [v \in Restorers |-> inHand'[v]],
           inHand'[w] \subseteq Records, to.step = "idle" => inHand'[w] = {},
           \A v \in Restorers : v # w => inHand'[v] = inHand[v],
           claimedUsers \subseteq claimedUsers', claimedUsers' \subseteq Identities,
           \A on \in claimedUsers' : on \in claimedUsers \/ to = WakingOn(on),
           reports' \in 0 .. MaxReports, deaths' \in 0 .. MaxDeaths,
           forgotten \subseteq forgotten', forgotten' \subseteq Records,
           \A p \in parkedRecords : restorer[w] = WakingOn(p[1]) => p[2] \in forgotten',
           UNCHANGED <<restored, standing, echoes, parkedRecords, mixed>>
    PROVE  RestoreInv'
<1>1. RestoreTypeOK' /\ RestorersAtWork'
  <2>1. restored' \subseteq Records /\ standing' \subseteq restored'
        /\ \A p \in parkedRecords' : p[2] \in Records /\ Awaitable(p[1])
    BY RestoreTypes
  <2>2. QED
    BY RequestsKept, <2>1
<1>2. \A on : Back(on)' => Back(on) \/ to = WakingOn(on)
  BY DEF Back
<1>3. NothingForgotten'
  BY NobodyForgets, <1>2
<1>4. WriteInv'
  BY WritersKept
<1>5. QED
  BY <1>1, <1>3, <1>4, RestoreTogether

LEMMA TakesRecordInv == ASSUME RestoreInv, NEW w \in Restorers, NEW r \in Records, TakesRecord(w, r) PROVE RestoreInv'
<1>1. restorer[w].step = "idle" /\ Goes(w, Turn("trying", r, TRUE, {})) /\ reports' = reports + 1 /\ reports < MaxReports
      /\ UNCHANGED <<claimedUsers, restored, standing, echoes, parkedRecords, inHand, deaths, forgotten, mixed>>
  BY DEF TakesRecord
<1>2. PICK to : to = Turn("trying", r, TRUE, {})
  OBVIOUS
<1>3. to.step = "trying" /\ to.rec = r
  BY <1>2 DEF Turn
<1>4. reports' \in 0 .. MaxReports
  BY <1>1, RestoreTypes
<1>5. \A on : restorer[w] # WakingOn(on)
  BY <1>1 DEF WakingOn
<1>6. QED
  BY <1>1, <1>2, <1>3, <1>4, <1>5, QuietInv, RestoreTypes, HandShaped

LEMMA KeysComeBackInv ==
    ASSUME RestoreInv, NEW w \in Restorers, NEW u \in Identities, KeysComeBack(w, u) PROVE RestoreInv'
<1>1. restorer[w].step = "idle" /\ Goes(w, WakingOn(u)) /\ reports' = reports + 1 /\ reports < MaxReports
      /\ claimedUsers' = claimedUsers \cup {u}
      /\ UNCHANGED <<restored, standing, echoes, parkedRecords, inHand, deaths, forgotten, mixed>>
  BY DEF KeysComeBack
<1>2. PICK to : to = WakingOn(u)
  OBVIOUS
<1>3. to.step = "waking"
  BY <1>2 DEF WakingOn
<1>4. reports' \in 0 .. MaxReports
  BY <1>1, RestoreTypes
<1>5. \A on \in claimedUsers' : on \in claimedUsers \/ to = WakingOn(on)
  BY <1>1, <1>2
<1>6. \A on : restorer[w] # WakingOn(on)
  BY <1>1 DEF WakingOn
<1>7. QED
  BY <1>1, <1>2, <1>3, <1>4, <1>5, <1>6, QuietInv, RestoreTypes, HandShaped

LEMMA RetryInv == ASSUME RestoreInv, NEW w \in Restorers, NEW r \in Records, Retry(w, r) PROVE RestoreInv'
<1>1. /\ restorer[w].step = "next" /\ r \in inHand[w] /\ Goes(w, Turn("trying", r, FALSE, {}))
      /\ inHand' = [inHand EXCEPT ![w] = @ \ {r}]
      /\ UNCHANGED <<claimedUsers, restored, standing, echoes, parkedRecords, reports, deaths, forgotten, mixed>>
  BY DEF Retry
<1>2. PICK to : to = Turn("trying", r, FALSE, {})
  OBVIOUS
<1>3. to.step = "trying" /\ to.rec = r
  BY <1>2 DEF Turn
<1>4. \A on : restorer[w] # WakingOn(on)
  BY <1>1 DEF WakingOn
<1>5. /\ inHand' = [v \in Restorers |-> inHand'[v]] /\ inHand'[w] \subseteq Records
      /\ \A v \in Restorers : v # w => inHand'[v] = inHand[v]
  <2>1. inHand' = [inHand EXCEPT ![w] = inHand[w] \ {r}]
    BY <1>1, HandShaped
  <2>2. QED
    BY <2>1, HandShaped
<1>6. QED
  BY <1>1, <1>2, <1>3, <1>4, <1>5, QuietInv, RestoreTypes

\* What is missing can be waited for.
LEMMA MissingAwaitable == \A r \in Records : \A on \in Missing(r) : Awaitable(on)
<1>1. SUFFICES ASSUME NEW r \in Records, NEW on \in Missing(r) PROVE Awaitable(on)
  OBVIOUS
<1>2. CASE r.prev # 0
  BY <1>1, <1>2, RecordShapes DEF Missing, Awaitable
<1>3. CASE r.prev = 0
  <2>1. PICK n \in 0 .. 2 : r.signers \in [1 .. n -> Identities]
    BY RestoreAssumption DEF SignedRecord
  <2>2. \E i \in DOMAIN r.signers : on = r.signers[i]
    BY <1>1, <1>3 DEF Missing
  <2>3. on \in Identities
    BY <2>1, <2>2
  <2>4. QED
    BY <2>3 DEF Awaitable
<1>4. QED
  BY <1>2, <1>3

LEMMA FoundWaitingInv == ASSUME RestoreInv, NEW w \in Restorers, FoundWaiting(w) PROVE RestoreInv'
<1>1. PICK r : r = restorer[w].rec
  OBVIOUS
<1>2. PICK d : d = restorer[w].direct
  OBVIOUS
<1>3. /\ restorer[w].step = "trying"
      /\ \E on \in Missing(r) : Goes(w, Turn("parking", r, d, {on}))
      /\ UNCHANGED <<claimedUsers, restored, standing, echoes, parkedRecords, inHand, reports, deaths, forgotten, mixed>>
  BY <1>1, <1>2 DEF FoundWaiting
<1>4. r \in Records
  BY <1>1, <1>3, RestoreTypes
<1>5. PICK on \in Missing(r) : Goes(w, Turn("parking", r, d, {on}))
  BY <1>3
<1>6. PICK to : to = Turn("parking", r, d, {on})
  OBVIOUS
<1>7. to.step = "parking" /\ to.rec = r /\ \A o \in to.saw : Awaitable(o)
  BY <1>4, <1>6, MissingAwaitable DEF Turn
<1>8. \A o : restorer[w] # WakingOn(o)
  BY <1>3 DEF WakingOn
<1>9. QED
  BY <1>3, <1>4, <1>5, <1>6, <1>7, <1>8, QuietInv, RestoreTypes, HandShaped

\* A request that goes on to the next record in hand, or answers.
LEMMA GoesOnTo ==
    ASSUME NEW w, GoesOn(w)
    PROVE  \E to : Goes(w, to) /\ to.step \in {"idle", "next"} /\ (to.step = "idle" => inHand[w] = {})
BY DEF GoesOn, Idle

LEMMA RefuseRecordInv == ASSUME RestoreInv, NEW w \in Restorers, RefuseRecord(w) PROVE RestoreInv'
<1>1. /\ restorer[w].step = "trying" /\ GoesOn(w)
      /\ UNCHANGED <<claimedUsers, restored, standing, echoes, parkedRecords, inHand, reports, deaths, forgotten, mixed>>
  BY DEF RefuseRecord
<1>2. PICK to : Goes(w, to) /\ to.step \in {"idle", "next"} /\ (to.step = "idle" => inHand[w] = {})
  BY <1>1, GoesOnTo
<1>3. \A o : restorer[w] # WakingOn(o)
  BY <1>1 DEF WakingOn
<1>4. QED
  BY <1>1, <1>2, <1>3, QuietInv, RestoreTypes, HandShaped

LEMMA RequestEndsInv ==
    ASSUME RestoreInv, NEW w \in Restorers, RequestEnds(w), deaths' \in 0 .. MaxDeaths,
           UNCHANGED <<claimedUsers, restored, standing, echoes, parkedRecords, reports, mixed>>
    PROVE  RestoreInv'
<1>1. /\ forgotten' = forgotten \cup LeftBehind(w) /\ Goes(w, Idle) /\ inHand' = [inHand EXCEPT ![w] = {}]
  BY DEF RequestEnds
<1>2. PICK to : to = Idle
  OBVIOUS
<1>3. to.step = "idle"
  BY <1>2 DEF Idle
<1>4. LeftBehind(w) \subseteq Records
  BY RestoreTypes, HandShaped DEF LeftBehind, Woken
<1>5. \A p \in parkedRecords : restorer[w] = WakingOn(p[1]) => p[2] \in LeftBehind(w)
  BY DEF LeftBehind, Woken, WakingOn
<1>6. /\ inHand' = [v \in Restorers |-> inHand'[v]] /\ inHand'[w] = {}
      /\ \A v \in Restorers : v # w => inHand'[v] = inHand[v]
  BY <1>1, HandShaped
<1>7. \A p \in parkedRecords : restorer[w] = WakingOn(p[1]) => p[2] \in forgotten'
  BY <1>1, <1>5
<1>8. forgotten \subseteq forgotten' /\ forgotten' \subseteq Records
  BY <1>1, <1>4, RestoreTypes
<1>9. QED
  BY <1>1, <1>2, <1>3, <1>6, <1>7, <1>8, QuietInv, RestoreTypes

LEMMA ConflictInv == ASSUME RestoreInv, NEW w \in Restorers, Conflict(w) PROVE RestoreInv'
BY RequestEndsInv, RestoreTypes DEF Conflict

LEMMA DieInv == ASSUME RestoreInv, NEW w \in Restorers, Die(w) PROVE RestoreInv'
<1>1. deaths' \in 0 .. MaxDeaths
  BY RestoreTypes DEF Die
<1>2. QED
  BY <1>1, RequestEndsInv DEF Die

LEMMA ParkInv == ASSUME RestoreInv, NEW w \in Restorers, Park(w) PROVE RestoreInv'
<1>1. PICK r : r = restorer[w].rec
  OBVIOUS
<1>2. PICK saw : saw = restorer[w].saw
  OBVIOUS
<1>3. /\ restorer[w].step = "parking" /\ GoesOn(w)
      /\ parkedRecords' = parkedRecords \cup {<<on, r>> : on \in saw}
      /\ forgotten' = IF \E on \in saw : Back(on) /\ \A v \in Restorers : restorer[v] # WakingOn(on)
                      THEN forgotten \cup {r} ELSE forgotten
      /\ UNCHANGED <<claimedUsers, restored, standing, echoes, inHand, reports, deaths, mixed>>
  BY <1>1, <1>2 DEF Park
<1>4. r \in Records /\ \A on \in saw : Awaitable(on)
  BY <1>1, <1>2, <1>3 DEF RestoreInv, RestorersAtWork
<1>5. PICK to : Goes(w, to) /\ to.step \in {"idle", "next"} /\ (to.step = "idle" => inHand[w] = {})
  BY <1>3, GoesOnTo
<1>6. forgotten \subseteq forgotten' /\ forgotten' \subseteq Records
  BY <1>3, <1>4, RestoreTypes
<1>7. RestoreTypeOK' /\ RestorersAtWork'
  <2>1. \A p \in parkedRecords' : p[2] \in Records /\ Awaitable(p[1])
    BY <1>3, <1>4, RestoreTypes
  <2>2. QED
    BY <1>3, <1>5, <1>6, <2>1, RequestsKept, RestoreTypes, HandShaped
<1>8. NothingForgotten'
  <2>1. \A on : Back(on)' => Back(on)
    BY <1>3 DEF Back
  <2>2. \A on : restorer[w] # WakingOn(on)
    BY <1>3 DEF WakingOn
  <2>3. ASSUME NEW p \in parkedRecords'
        PROVE  \/ /\ p \in parkedRecords
                  /\ restorer[w] = WakingOn(p[1]) => p[2] \in forgotten'
                  /\ Back(p[1])' => Back(p[1]) \/ to = WakingOn(p[1])
               \/ Back(p[1])' => p[2] \in forgotten' \/ \E v \in Restorers \ {w} : restorer[v] = WakingOn(p[1])
    <3>1. CASE p \in parkedRecords
      BY <2>1, <2>2, <3>1
    <3>2. CASE p \notin parkedRecords
      <4>1. PICK on \in saw : p = <<on, r>>
        BY <1>3, <3>2
      <4>2. p[1] = on /\ p[2] = r
        BY <4>1
      <4>3. CASE Back(on) /\ \A v \in Restorers : restorer[v] # WakingOn(on)
        BY <1>3, <4>2, <4>3
      <4>4. CASE \E v \in Restorers : restorer[v] = WakingOn(on)
        BY <2>2, <4>2, <4>4
      <4>5. CASE ~Back(on)
        BY <2>1, <4>2, <4>5
      <4>6. QED
        BY <4>3, <4>4, <4>5
    <3>3. QED
      BY <3>1, <3>2
  <2>4. QED
    BY <1>5, <1>6, <2>3, NobodyForgets
<1>9. WriteInv'
  BY <1>3, <1>5, WritersKept
<1>10. QED
  BY <1>7, <1>8, <1>9, RestoreTogether

LEMMA WakeInv == ASSUME RestoreInv, NEW w \in Restorers, Wake(w) PROVE RestoreInv'
<1>1. PICK on : on = restorer[w].on
  OBVIOUS
<1>2. PICK bodies : bodies = {p[2] : p \in Woken(on)}
  OBVIOUS
<1>3. /\ restorer[w].step = "waking" /\ parkedRecords' = parkedRecords \ Woken(on)
      /\ inHand' = [inHand EXCEPT ![w] = @ \cup bodies]
      /\ Goes(w, IF inHand[w] \cup bodies = {} THEN Idle ELSE [step |-> "next"])
      /\ UNCHANGED <<claimedUsers, restored, standing, echoes, reports, deaths, forgotten, mixed>>
  BY <1>1, <1>2 DEF Wake
<1>4. bodies \subseteq Records
  BY <1>2, RestoreTypes DEF Woken
<1>5. PICK hand : hand = inHand[w] \cup bodies
  OBVIOUS
<1>6. /\ inHand' = [v \in Restorers |-> inHand'[v]] /\ inHand'[w] = hand
      /\ \A v \in Restorers : v # w => inHand'[v] = inHand[v]
  <2>1. inHand' = [inHand EXCEPT ![w] = hand]
    BY <1>3, <1>5, HandShaped
  <2>2. QED
    BY <2>1, HandShaped
<1>7. PICK to : Goes(w, to) /\ to.step \in {"idle", "next"} /\ (to.step = "idle" => hand = {})
  BY <1>3, <1>5 DEF Idle
<1>8. RestoreTypeOK' /\ RestorersAtWork'
  <2>1. \A p \in parkedRecords' : p[2] \in Records /\ Awaitable(p[1])
    BY <1>3, RestoreTypes
  <2>2. hand \subseteq Records
    BY <1>4, <1>5, HandShaped
  <2>3. QED
    BY <1>3, <1>6, <1>7, <2>1, <2>2, RequestsKept, RestoreTypes
<1>9. NothingForgotten'
  <2>1. \A o : Back(o)' => Back(o)
    BY <1>3 DEF Back
  <2>2. \A p \in parkedRecords' : p \in parkedRecords /\ p[1] # on
    BY <1>3 DEF Woken
  <2>3. \A o : restorer[w] = WakingOn(o) => o = on
    BY <1>1 DEF WakingOn
  <2>4. forgotten \subseteq forgotten'
    BY <1>3
  <2>5. QED
    BY <1>7, <2>1, <2>2, <2>3, <2>4, NobodyForgets
<1>10. WriteInv'
  BY <1>3, <1>7, WritersKept
<1>11. QED
  BY <1>8, <1>9, <1>10, RestoreTogether

-----------------------------------------------------------------------------

\* What a request that writes has under its hands.
LEMMA WriterSees ==
    ASSUME RestoreInv, NEW w \in Restorers, restorer[w].step = "writing",
           NEW r, r = restorer[w].rec
    PROVE  /\ r \in Records
           /\ r.kind = "ledger" => r.prev = 0 \/ Back(Entry(r.prev))
           /\ Standing(r) = {} \/ Subject(r) \in mixed
           /\ r.kind = "echo" /\ restorer[w].saw = {} =>
                 \A s \in standing : s.kind = "removal" /\ s.id = r.id => Subject(s) \in mixed
           /\ r.kind = "removal" /\ r.id \in echoes => r.id \in restorer[w].saw \/ Subject(r) \in mixed
           /\ \A v \in Restorers : v # w /\ restorer[v].step = "writing" /\ Meets(restorer[v].rec, r) =>
                 Subject(restorer[v].rec) \in mixed /\ Subject(r) \in mixed
<1>1. r \in Records
  BY RestoreTypes
<1>2. r.kind = "ledger" => r.prev = 0 \/ Back(Entry(r.prev))
  BY DEF RestoreInv, LedgerFound, Writing
<1>3. /\ Standing(r) = {} \/ Subject(r) \in mixed
      /\ r.kind = "echo" /\ restorer[w].saw = {} =>
            \A s \in standing : s.kind = "removal" /\ s.id = r.id => Subject(s) \in mixed
      /\ r.kind = "removal" /\ r.id \in echoes => r.id \in restorer[w].saw \/ Subject(r) \in mixed
  BY DEF RestoreInv, WritersSaw, Writing, Standing
<1>4. \A v \in Restorers : v # w /\ restorer[v].step = "writing" /\ Meets(restorer[v].rec, r) =>
         Subject(restorer[v].rec) \in mixed /\ Subject(r) \in mixed
  BY DEF RestoreInv, WritersMixed, Writing
<1>5. QED
  BY <1>1, <1>2, <1>3, <1>4

\* What is stored is waited for only if it is a ledger entry.
LEMMA StoredBack ==
    ASSUME NEW r \in Records, standing' \subseteq standing \cup {r}, claimedUsers' = claimedUsers
    PROVE  \A on : Awaitable(on) /\ Back(on)' => Back(on) \/ (r.kind = "ledger" /\ on = Subject(r))
<1>1. SUFFICES ASSUME NEW on, Awaitable(on), Back(on)', ~Back(on)
               PROVE  r.kind = "ledger" /\ on = Subject(r)
  OBVIOUS
<1>2. on = Subject(r)
  BY <1>1 DEF Back
<1>3. on \notin Identities
  BY <1>2, SubjectsAssumption
<1>4. PICK n \in Nat : on = Entry(n)
  BY <1>1, <1>3 DEF Awaitable
<1>5. QED
  BY <1>2, <1>4, EntrySubject

LEMMA GoesOnStoredTo ==
    ASSUME NEW w, NEW r, GoesOnStored(w, r)
    PROVE  \E to : /\ Goes(w, to) /\ to.step \in {"idle", "next", "waking"}
                   /\ to.step = "idle" => inHand[w] = {}
                   /\ r.kind = "ledger" => to = WakingOn(Subject(r))
<1>1. CASE r.kind = "ledger"
  BY <1>1 DEF GoesOnStored, WakingOn
<1>2. CASE r.kind # "ledger"
  BY <1>2, GoesOnTo DEF GoesOnStored
<1>3. QED
  BY <1>1, <1>2

\* Whoever stores a record keeps its requests, and wakes whom it has to.
LEMMA StoredKept ==
    ASSUME RestoreInv, NEW w \in Restorers, NEW r \in Records, NEW to, Goes(w, to),
           to.step \in {"idle", "next", "waking"}, to.step = "idle" => inHand[w] = {},
           r.kind = "ledger" => to = WakingOn(Subject(r)),
           restorer[w].step \in {"trying", "writing"},
           standing' \subseteq standing \cup {r}, restored' = restored \cup {r},
           UNCHANGED <<claimedUsers, parkedRecords, inHand, reports, deaths, forgotten, mixed>>
    PROVE  RestoreTypeOK' /\ RestorersAtWork' /\ NothingForgotten'
<1>1. RestoreTypeOK' /\ RestorersAtWork'
  <2>1. restored' \subseteq Records /\ standing' \subseteq restored'
    BY RestoreTypes
  <2>2. QED
    BY <2>1, RequestsKept, RestoreTypes, HandShaped
<1>2. NothingForgotten'
  <2>1. \A on : restorer[w] # WakingOn(on)
    BY DEF WakingOn
  <2>2. \A p \in parkedRecords' : p \in parkedRecords /\ (Back(p[1])' => Back(p[1]) \/ to = WakingOn(p[1]))
    BY StoredBack, RestoreTypes
  <2>3. QED
    BY <2>1, <2>2, NobodyForgets
<1>3. QED
  BY <1>1, <1>2

LEMMA StartWritingInv == ASSUME RestoreInv, NEW w \in Restorers, StartWriting(w) PROVE RestoreInv'
<1>1. PICK r : r = restorer[w].rec
  OBVIOUS
<1>2. PICK saw : saw = Sees(r)
  OBVIOUS
<1>3. PICK to : to = Turn("writing", r, restorer[w].direct, saw)
  OBVIOUS
<1>4. /\ restorer[w].step = "trying" /\ Met(r) /\ Standing(r) = {} /\ Goes(w, to)
      /\ mixed' = mixed \cup UNION {{Subject(r), Subject(restorer[v].rec)} :
                    v \in {u \in Restorers \ {w} : restorer[u].step = "writing" /\ Meets(restorer[u].rec, r)}}
      /\ UNCHANGED <<claimedUsers, restored, standing, echoes, parkedRecords, inHand, reports, deaths, forgotten>>
  BY <1>1, <1>2, <1>3 DEF StartWriting
<1>5. to.step = "writing" /\ to.rec = r /\ to.saw = saw
  BY <1>3 DEF Turn
<1>6. r \in Records
  BY <1>1, <1>4, RestoreTypes
<1>7. restorer'[w] = to /\ \A v \in Restorers : v # w => restorer'[v] = restorer[v]
  BY <1>4, Turns
<1>8. mixed \subseteq mixed'
      /\ \A v \in Restorers : v # w /\ restorer[v].step = "writing" /\ Meets(restorer[v].rec, r) =>
            Subject(restorer[v].rec) \in mixed' /\ Subject(r) \in mixed'
  BY <1>4
<1>9. RestoreTypeOK' /\ RestorersAtWork'
  BY <1>4, <1>5, <1>6, RequestsKept, RestoreTypes, HandShaped
<1>10. NothingForgotten'
  <2>1. \A on : Back(on)' => Back(on)
    BY <1>4 DEF Back
  <2>2. \A on : restorer[w] # WakingOn(on)
    BY <1>4 DEF WakingOn
  <2>3. QED
    BY <1>4, <2>1, <2>2, NobodyForgets
<1>11. \A on : Back(on) => Back(on)'
  BY <1>4 DEF Back
<1>12. OneStands'
  BY <1>4 DEF RestoreInv, OneStands
<1>13. LedgerFound'
  <2>1. SUFFICES ASSUME NEW v \in Restorers, restorer'[v].step = "writing", restorer'[v].rec.kind = "ledger",
                        NEW n \in {restorer'[v].rec.prev}
                 PROVE  n = 0 \/ Back(Entry(n))'
    BY DEF LedgerFound, Writing
  <2>2. CASE v = w
    <3>1. n = r.prev
      BY <1>5, <1>7, <2>1, <2>2
    <3>2. n = 0 \/ Back(Entry(n))
      BY <1>4, <3>1 DEF Met, Missing
    <3>3. QED
      BY <1>11, <3>2
  <2>3. CASE v # w
    <3>1. n = 0 \/ Back(Entry(n))
      BY <1>7, <2>1, <2>3 DEF RestoreInv, LedgerFound, Writing
    <3>2. QED
      BY <1>11, <3>1
  <2>4. QED
    BY <2>2, <2>3
<1>14. WritersMixed'
  <2>1. SUFFICES ASSUME NEW u \in Restorers, NEW v \in Restorers, u # v, restorer'[u].step = "writing",
                        restorer'[v].step = "writing", Meets(restorer'[u].rec, restorer'[v].rec)
                 PROVE  Subject(restorer'[u].rec) \in mixed' /\ Subject(restorer'[v].rec) \in mixed'
    BY DEF WritersMixed, Writing, Meets, SameReed
  <2>2. CASE u # w /\ v # w
    <3>1. Subject(restorer[u].rec) \in mixed /\ Subject(restorer[v].rec) \in mixed
      BY <1>7, <2>1, <2>2 DEF RestoreInv, WritersMixed, Writing
    <3>2. QED
      BY <1>7, <1>8, <2>2, <3>1
  <2>3. CASE u = w
    BY <1>5, <1>7, <1>8, <2>1, <2>3, MeetsBothWays
  <2>4. CASE v = w
    BY <1>5, <1>7, <1>8, <2>1, <2>4
  <2>5. QED
    BY <2>2, <2>3, <2>4
<1>15. WritersSaw'
  <2>1. SUFFICES ASSUME NEW v \in Restorers, restorer'[v].step = "writing",
                        NEW q, q = restorer'[v].rec, NEW had, had = restorer'[v].saw
                 PROVE  /\ {s \in standing : Subject(s) = Subject(q)} = {} \/ Subject(q) \in mixed'
                        /\ q.kind = "echo" /\ had = {} =>
                              \A s \in standing : s.kind = "removal" /\ s.id = q.id => Subject(s) \in mixed'
                        /\ q.kind = "removal" /\ q.id \in echoes => q.id \in had \/ Subject(q) \in mixed'
    BY <1>4 DEF WritersSaw, Writing, Standing
  <2>2. CASE v = w
    <3>1. q = r /\ had = Sees(r)
      BY <1>2, <1>5, <1>7, <2>1, <2>2
    <3>2. {s \in standing : Subject(s) = Subject(q)} = {}
      BY <1>4, <3>1 DEF Standing
    <3>3. q.kind = "echo" /\ had = {} => \A s \in standing : s.kind = "removal" /\ s.id = q.id => Subject(s) \in mixed'
      BY <3>1 DEF Sees
    <3>4. q.kind = "removal" /\ q.id \in echoes => q.id \in had
      BY <3>1 DEF Sees
    <3>5. QED
      BY <3>2, <3>3, <3>4
  <2>3. CASE v # w
    BY <1>7, <1>8, <2>1, <2>3, WriterSees DEF Standing
  <2>4. QED
    BY <2>2, <2>3
<1>16. OrderDoesNotShow'
  <2>1. \A q \in restored' : q.kind = "ledger" => q.prev = 0 \/ Back(Entry(q.prev))'
    BY <1>4, <1>11 DEF RestoreInv, OrderDoesNotShow
  <2>2. QED
    BY <1>4, <1>8, <2>1 DEF RestoreInv, OrderDoesNotShow
<1>17. QED
  BY <1>9, <1>10, <1>12, <1>13, <1>14, <1>15, <1>16, RestoreTogether DEF WriteInv

\* The others, once a record is stored.
LEMMA OthersKept ==
    ASSUME RestoreInv, NEW w \in Restorers, NEW to, Goes(w, to), to.step # "writing",
           \A on : Back(on) => Back(on)', mixed' = mixed
    PROVE  /\ LedgerFound' /\ WritersMixed'
           /\ \A v \in Restorers : restorer'[v].step = "writing" =>
                 v # w /\ restorer[v].step = "writing" /\ restorer'[v] = restorer[v]
<1>1. \A v \in Restorers : restorer'[v].step = "writing" =>
         v # w /\ restorer[v].step = "writing" /\ restorer'[v] = restorer[v]
  BY Turns
<1>2. LedgerFound'
  <2>1. SUFFICES ASSUME NEW v \in Restorers, restorer'[v].step = "writing", restorer'[v].rec.kind = "ledger",
                        NEW n \in {restorer'[v].rec.prev}
                 PROVE  n = 0 \/ Back(Entry(n))'
    BY DEF LedgerFound, Writing
  <2>2. n = 0 \/ Back(Entry(n))
    BY <1>1, <2>1 DEF RestoreInv, LedgerFound, Writing
  <2>3. QED
    BY <2>2
<1>3. WritersMixed'
  BY <1>1 DEF RestoreInv, WritersMixed, Writing, Meets, SameReed
<1>4. QED
  BY <1>1, <1>2, <1>3

LEMMA StandsWhole ==
    ASSUME RestoreInv
    PROVE  /\ \A s, t \in standing : Subject(s) = Subject(t) => s = t
           /\ \A r \in restored : \E s \in standing : Subject(s) = Subject(r)
           /\ \A r \in restored : r.kind = "ledger" => r.prev = 0 \/ Back(Entry(r.prev))
           /\ \A r \in restored, s \in standing : Subject(r) = Subject(s) => ~Replaces(r, s) \/ Subject(s) \in mixed
           /\ \A s \in standing : s.kind = "removal" => s.id \notin echoes \/ Subject(s) \in mixed
           /\ standing \subseteq restored /\ restored \subseteq Records
BY RestoreTypes DEF RestoreInv, OneStands, OrderDoesNotShow

LEMMA MeetHeldInv == ASSUME RestoreInv, NEW w \in Restorers, MeetHeld(w) PROVE RestoreInv'
<1>1. PICK r : r = restorer[w].rec
  OBVIOUS
<1>2. /\ restorer[w].step = "trying" /\ Met(r) /\ Standing(r) # {} /\ GoesOnStored(w, r)
      /\ standing' = IF \E s \in Standing(r) : Replaces(r, s) THEN (standing \ Standing(r)) \cup {r} ELSE standing
      /\ restored' = restored \cup {r}
      /\ UNCHANGED <<claimedUsers, echoes, parkedRecords, inHand, reports, deaths, forgotten, mixed>>
  BY <1>1 DEF MeetHeld
<1>3. r \in Records
  BY <1>1, <1>2, RestoreTypes
<1>4. PICK to : /\ Goes(w, to) /\ to.step \in {"idle", "next", "waking"}
                /\ to.step = "idle" => inHand[w] = {}
                /\ r.kind = "ledger" => to = WakingOn(Subject(r))
  BY <1>2, GoesOnStoredTo
<1>5. RestoreTypeOK' /\ RestorersAtWork' /\ NothingForgotten'
  <2>1. standing' \subseteq standing \cup {r}
    BY <1>2
  <2>2. QED
    BY <1>2, <1>3, <1>4, <2>1, StoredKept
<1>6. PICK held \in standing : Subject(held) = Subject(r)
  BY <1>2 DEF Standing
<1>7. Standing(r) = {held}
  BY <1>6, StandsWhole DEF Standing
<1>8. standing' = IF Replaces(r, held) THEN (standing \ {held}) \cup {r} ELSE standing
  BY <1>2, <1>7
<1>9. (\A q \in standing : \E s \in standing' : Subject(s) = Subject(q))
      /\ (\A s \in standing' : \E q \in standing : Subject(s) = Subject(q))
  BY <1>6, <1>8
<1>10. \A on : Back(on) => Back(on)'
  BY <1>2, <1>9, BackStays
<1>11. /\ LedgerFound' /\ WritersMixed'
       /\ \A v \in Restorers : restorer'[v].step = "writing" =>
             v # w /\ restorer[v].step = "writing" /\ restorer'[v] = restorer[v]
  BY <1>2, <1>4, <1>10, OthersKept
<1>12. OneStands'
  BY <1>2, <1>6, <1>8, <1>9, StandsWhole DEF OneStands
<1>13. \A s \in standing' : s.kind = "removal" => s \in standing
  BY <1>8 DEF Replaces, RestorePeer, Peerings
<1>14. WritersSaw'
  <2>1. SUFFICES ASSUME NEW v \in Restorers, restorer[v].step = "writing", NEW q, q = restorer[v].rec
                 PROVE  /\ {s \in standing' : Subject(s) = Subject(q)} = {} \/ Subject(q) \in mixed
                        /\ q.kind = "echo" /\ restorer[v].saw = {} =>
                              \A s \in standing' : s.kind = "removal" /\ s.id = q.id => Subject(s) \in mixed
                        /\ q.kind = "removal" /\ q.id \in echoes => q.id \in restorer[v].saw \/ Subject(q) \in mixed
    BY <1>2, <1>11 DEF WritersSaw, Writing, Standing
  <2>2. Standing(q) = {} \/ Subject(q) \in mixed
    BY <2>1, WriterSees
  <2>3. {s \in standing' : Subject(s) = Subject(q)} = {} \/ Subject(q) \in mixed
    BY <1>9, <2>2 DEF Standing
  <2>4. QED
    BY <1>13, <2>1, <2>3, WriterSees
<1>15. OrderDoesNotShow'
  <2>1. \A q \in restored' : q.kind = "ledger" => q.prev = 0 \/ Back(Entry(q.prev))'
    <3>1. r.kind = "ledger" => r.prev = 0 \/ Back(Entry(r.prev))
      BY <1>2 DEF Met, Missing
    <3>2. QED
      BY <1>2, <1>10, <3>1, StandsWhole
  <2>2. ASSUME NEW q \in restored', NEW s \in standing', Subject(q) = Subject(s), Subject(s) \notin mixed
        PROVE  ~Replaces(q, s)
    <3>1. CASE q # r /\ s \in standing
      BY <1>2, <2>2, <3>1, StandsWhole
    <3>2. CASE q = r /\ s = r
      BY <1>3, <3>2, NotItsOwn
    <3>3. CASE q = r /\ s \in standing
      <4>1. s = held
        BY <1>6, <2>2, <3>3, StandsWhole
      <4>2. CASE Replaces(r, held)
        BY <1>3, <1>8, <3>3, <4>1, <4>2, NotItsOwn
      <4>3. QED
        BY <3>3, <4>1, <4>2
    <3>4. CASE q # r /\ s = r /\ s \notin standing
      <4>1. q \in restored /\ q \in Records /\ held \in Records
        BY <1>2, <1>6, <3>4, StandsWhole
      <4>2. Replaces(r, held) /\ Subject(q) = Subject(held) /\ Subject(held) \notin mixed
        BY <1>6, <1>8, <2>2, <3>4
      <4>3. ~Replaces(q, held)
        BY <4>1, <4>2, StandsWhole
      <4>4. QED
        BY <1>3, <1>6, <3>4, <4>1, <4>2, <4>3, ReplacedOnce
    <3>5. QED
      BY <1>8, <3>1, <3>2, <3>3, <3>4
  <2>3. \A s \in standing' : s.kind = "removal" => s.id \notin echoes \/ Subject(s) \in mixed
    BY <1>13, StandsWhole
  <2>4. QED
    BY <1>2, <2>1, <2>2, <2>3 DEF OrderDoesNotShow
<1>16. QED
  BY <1>5, <1>11, <1>12, <1>14, <1>15, RestoreTogether DEF WriteInv

LEMMA StoreInv == ASSUME RestoreInv, NEW w \in Restorers, Store(w) PROVE RestoreInv'
<1>1. PICK r : r = restorer[w].rec
  OBVIOUS
<1>2. PICK saw : saw = restorer[w].saw
  OBVIOUS
<1>3. /\ restorer[w].step = "writing" /\ MayWrite(r) /\ GoesOnStored(w, r)
      /\ standing' = (standing \ Standing(r)) \cup {r} /\ restored' = restored \cup {r}
      /\ echoes' = EchoesWith(r, saw)
      /\ UNCHANGED <<claimedUsers, parkedRecords, inHand, reports, deaths, forgotten, mixed>>
  BY <1>1, <1>2 DEF Store
<1>4. /\ r \in Records
      /\ r.kind = "ledger" => r.prev = 0 \/ Back(Entry(r.prev))
      /\ Standing(r) = {} \/ Subject(r) \in mixed
      /\ r.kind = "echo" /\ saw = {} =>
            \A s \in standing : s.kind = "removal" /\ s.id = r.id => Subject(s) \in mixed
      /\ r.kind = "removal" /\ r.id \in echoes => r.id \in saw \/ Subject(r) \in mixed
      /\ \A v \in Restorers : v # w /\ restorer[v].step = "writing" /\ Meets(restorer[v].rec, r) =>
            Subject(restorer[v].rec) \in mixed /\ Subject(r) \in mixed
  BY <1>1, <1>2, <1>3, WriterSees
<1>5. PICK to : /\ Goes(w, to) /\ to.step \in {"idle", "next", "waking"}
                /\ to.step = "idle" => inHand[w] = {}
                /\ r.kind = "ledger" => to = WakingOn(Subject(r))
  BY <1>3, GoesOnStoredTo
<1>6. RestoreTypeOK' /\ RestorersAtWork' /\ NothingForgotten'
  <2>1. standing' \subseteq standing \cup {r}
    BY <1>3
  <2>2. QED
    BY <1>3, <1>4, <1>5, <2>1, StoredKept
<1>7. /\ \A s \in standing' : s = r \/ (s \in standing /\ Subject(s) # Subject(r))
      /\ r \in standing' /\ \A s \in standing : Subject(s) # Subject(r) => s \in standing'
  BY <1>3 DEF Standing
<1>8. \A q \in standing : \E s \in standing' : Subject(s) = Subject(q)
  BY <1>7
<1>9. \A on : Back(on) => Back(on)'
  BY <1>3, <1>8, BackStays
<1>10. /\ LedgerFound' /\ WritersMixed'
       /\ \A v \in Restorers : restorer'[v].step = "writing" =>
             v # w /\ restorer[v].step = "writing" /\ restorer'[v] = restorer[v]
  BY <1>3, <1>5, <1>9, OthersKept
<1>11. OneStands'
  <2>1. \A q \in restored' : \E s \in standing' : Subject(s) = Subject(q)
    BY <1>3, <1>7, <1>8, StandsWhole
  <2>2. \A s, t \in standing' : Subject(s) = Subject(t) => s = t
    BY <1>7, StandsWhole
  <2>3. QED
    BY <2>1, <2>2 DEF OneStands
<1>12. WritersSaw'
  <2>1. SUFFICES ASSUME NEW v \in Restorers, v # w, restorer[v].step = "writing",
                        NEW q, q = restorer[v].rec, NEW had, had = restorer[v].saw
                 PROVE  /\ {s \in standing' : Subject(s) = Subject(q)} = {} \/ Subject(q) \in mixed
                        /\ q.kind = "echo" /\ had = {} =>
                              \A s \in standing' : s.kind = "removal" /\ s.id = q.id => Subject(s) \in mixed
                        /\ q.kind = "removal" /\ q.id \in echoes' => q.id \in had \/ Subject(q) \in mixed
    BY <1>3, <1>10 DEF WritersSaw, Writing, Standing
  <2>2. /\ q \in Records
        /\ Standing(q) = {} \/ Subject(q) \in mixed
        /\ q.kind = "echo" /\ had = {} =>
              \A s \in standing : s.kind = "removal" /\ s.id = q.id => Subject(s) \in mixed
        /\ q.kind = "removal" /\ q.id \in echoes => q.id \in had \/ Subject(q) \in mixed
    BY <2>1, WriterSees
  <2>3. Meets(q, r) => Subject(q) \in mixed /\ Subject(r) \in mixed
    BY <1>4, <2>1
  <2>4. {s \in standing' : Subject(s) = Subject(q)} = {} \/ Subject(q) \in mixed
    <3>1. CASE Subject(q) = Subject(r)
      BY <2>3, <3>1 DEF Meets
    <3>2. CASE Subject(q) # Subject(r)
      BY <1>7, <2>2, <3>2 DEF Standing
    <3>3. QED
      BY <3>1, <3>2
  <2>5. q.kind = "echo" /\ had = {} => \A s \in standing' : s.kind = "removal" /\ s.id = q.id => Subject(s) \in mixed
    <3>1. SUFFICES ASSUME q.kind = "echo", had = {}, NEW s \in standing', s.kind = "removal", s.id = q.id
                   PROVE  Subject(s) \in mixed
      OBVIOUS
    <3>2. CASE s \in standing
      BY <2>2, <3>1, <3>2
    <3>3. CASE s = r
      BY <1>4, <2>2, <2>3, <3>1, <3>3, MeetsBothWays
    <3>4. QED
      BY <1>7, <3>2, <3>3
  <2>6. q.kind = "removal" /\ q.id \in echoes' => q.id \in had \/ Subject(q) \in mixed
    <3>1. SUFFICES ASSUME q.kind = "removal", q.id \in echoes', q.id \notin echoes PROVE Subject(q) \in mixed
      BY <2>2
    <3>2. r.kind = "echo" /\ r.id = q.id
      BY <1>3, <3>1 DEF EchoesWith
    <3>3. Meets(q, r)
      BY <1>4, <2>2, <3>1, <3>2, MeetsBothWays
    <3>4. QED
      BY <2>3, <3>3
  <2>7. QED
    BY <2>4, <2>5, <2>6
<1>13. OrderDoesNotShow'
  <2>1. \A q \in restored' : q.kind = "ledger" => q.prev = 0 \/ Back(Entry(q.prev))'
    BY <1>3, <1>4, <1>9, StandsWhole
  <2>2. ASSUME NEW q \in restored', NEW s \in standing', Subject(q) = Subject(s), Subject(s) \notin mixed
        PROVE  ~Replaces(q, s)
    <3>1. CASE s # r
      BY <1>3, <1>7, <2>2, <3>1, StandsWhole
    <3>2. CASE s = r
      <4>1. Standing(r) = {}
        BY <1>4, <2>2, <3>2
      <4>2. q = r
        BY <1>3, <2>2, <3>2, <4>1, StandsWhole DEF Standing
      <4>3. QED
        BY <1>4, <3>2, <4>2, NotItsOwn
    <3>3. QED
      BY <3>1, <3>2
  <2>3. \A s \in standing' : s.kind = "removal" => s.id \notin echoes' \/ Subject(s) \in mixed
    <3>1. SUFFICES ASSUME NEW s \in standing', s.kind = "removal", s.id \in echoes', Subject(s) \notin mixed
                   PROVE  FALSE
      OBVIOUS
    <3>2. CASE s = r
      <4>1. echoes' = echoes \ saw
        BY <1>3, <3>1, <3>2 DEF EchoesWith
      <4>2. QED
        BY <1>4, <3>1, <3>2, <4>1
    <3>3. CASE s # r
      <4>1. s \in standing /\ s.id \notin echoes
        BY <1>7, <3>1, <3>3, StandsWhole
      <4>2. r.kind = "echo" /\ r.id = s.id /\ saw = {}
        BY <1>3, <3>1, <4>1 DEF EchoesWith
      <4>3. QED
        BY <1>4, <3>1, <4>1, <4>2
    <3>4. QED
      BY <3>2, <3>3
  <2>4. QED
    BY <1>3, <2>1, <2>2, <2>3 DEF OrderDoesNotShow
<1>14. QED
  BY <1>6, <1>10, <1>11, <1>12, <1>13, RestoreTogether DEF WriteInv

LEMMA RestoreInitInv == RestoreInit => RestoreInv
<1>1. SUFFICES ASSUME RestoreInit PROVE RestoreInv
  OBVIOUS
<1>2. /\ claimedUsers = {} /\ restored = {} /\ standing = {} /\ echoes = {} /\ parkedRecords = {}
      /\ reports = 0 /\ deaths = 0 /\ forgotten = {}
      /\ restorer = [w \in Restorers |-> Idle] /\ inHand = [w \in Restorers |-> {}]
  BY <1>1 DEF RestoreInit
<1>3. \A w \in Restorers : restorer[w].step = "idle" /\ inHand[w] = {}
  BY <1>2 DEF Idle
<1>4. RestoreTypeOK /\ RestorersAtWork
  BY <1>2, <1>3, RestoreAssumption DEF RestoreTypeOK, RestorersAtWork
<1>5. NothingForgotten /\ OneStands /\ LedgerFound /\ WritersMixed /\ WritersSaw /\ OrderDoesNotShow
  BY <1>2, <1>3 DEF NothingForgotten, OneStands, LedgerFound, WritersMixed, WritersSaw, OrderDoesNotShow, Writing
<1>6. QED
  BY <1>4, <1>5 DEF RestoreInv

LEMMA RestoreStep == RestoreInv /\ [RestoreNext]_restoreVars => RestoreInv'
<1>1. SUFFICES ASSUME RestoreInv, [RestoreNext]_restoreVars PROVE RestoreInv'
  OBVIOUS
<1>2. CASE UNCHANGED restoreVars
  <2>1. /\ UNCHANGED <<claimedUsers, restored, standing, echoes, parkedRecords>>
        /\ UNCHANGED <<restorer, inHand, reports, deaths, forgotten, mixed>>
    BY <1>2 DEF restoreVars
  <2>2. RestoreTypeOK' /\ RestorersAtWork' /\ NothingForgotten' /\ OneStands' /\ LedgerFound'
    BY <1>1, <2>1 DEF RestoreInv, RestoreTypeOK, RestorersAtWork, NothingForgotten, OneStands, LedgerFound,
                      Back, Writing, Entry, Awaitable, WakingOn
  <2>3. WritersMixed' /\ WritersSaw' /\ OrderDoesNotShow'
    BY <1>1, <2>1 DEF RestoreInv, WritersMixed, WritersSaw, OrderDoesNotShow, Back, Writing, Standing, Entry,
                      Meets, SameReed
  <2>4. QED
    BY <2>2, <2>3 DEF RestoreInv
<1>3. CASE RestoreNext
  <2>1. PICK w \in Restorers :
          \/ \E r \in Records : Report(w, r) \/ ReportServers(w, r) \/ Retry(w, r)
          \/ \E u \in Identities : RestoreIdentity(w, u) \/ RestorePeerUser(w, u)
          \/ FoundWaiting(w) \/ RefuseRecord(w) \/ Park(w) \/ MeetHeld(w) \/ StartWriting(w) \/ Store(w) \/ Wake(w)
          \/ Conflict(w) \/ Die(w)
    BY <1>3 DEF RestoreNext
  <2>2. CASE \E r \in Records : Report(w, r) \/ ReportServers(w, r)
    BY <1>1, <2>2, TakesRecordInv DEF Report, ReportServers
  <2>3. CASE \E r \in Records : Retry(w, r)
    BY <1>1, <2>3, RetryInv
  <2>4. CASE \E u \in Identities : RestoreIdentity(w, u) \/ RestorePeerUser(w, u)
    BY <1>1, <2>4, KeysComeBackInv DEF RestoreIdentity, RestorePeerUser
  <2>5. CASE FoundWaiting(w) \/ RefuseRecord(w) \/ Park(w) \/ Wake(w)
    BY <1>1, <2>5, FoundWaitingInv, RefuseRecordInv, ParkInv, WakeInv
  <2>6. CASE MeetHeld(w) \/ StartWriting(w) \/ Store(w)
    BY <1>1, <2>6, MeetHeldInv, StartWritingInv, StoreInv
  <2>7. CASE Conflict(w) \/ Die(w)
    BY <1>1, <2>7, ConflictInv, DieInv
  <2>8. QED
    BY <2>1, <2>2, <2>3, <2>4, <2>5, <2>6, <2>7
<1>4. QED
  BY <1>1, <1>2, <1>3

\* Restored records settle whatever the order they come in: a parked record
\* waits for what is missing or is about to be woken, and what stands in the
\* end does not show who came first, but where two wrote at once.
THEOREM RestoresAlwaysSettle == RestoreSpec => []RestoresSettle
<1>1. RestoreInit => RestoreInv
  BY RestoreInitInv
<1>2. RestoreInv /\ [RestoreNext]_restoreVars => RestoreInv'
  BY RestoreStep
<1>3. RestoreInv => RestoresSettle
  BY DEF RestoreInv, RestoresSettle
<1>4. QED
  BY <1>1, <1>2, <1>3, PTL DEF RestoreSpec

-----------------------------------------------------------------------------
(* Watching: whoever looks has its rows, or will have, or is excused       *)

SockStates ==
    {Resting, [step |-> "asking"], [step |-> "reading"], [step |-> "leaving"]}
        \cup [step : {"answered"}, n : Nat]
NotifierStates ==
    {Unsent, [step |-> "reading"], [step |-> "dropping"]} \cup [step : {"sending", "pushing"}, n : Nat]

WatchShapes ==
    /\ number \in Nat /\ shown \in [Watchers -> Nat]
    /\ page \in [Watchers -> {"closed", "away", "open"}]
    /\ sock \in [Watchers -> SockStates] /\ notifier \in [Notifiers -> NotifierStates]
    /\ rowsHome \subseteq Watchers /\ rowsPeer \subseteq PeerWatchers
    /\ bidding \subseteq PeerWatchers /\ missedOut \subseteq PeerWatchers /\ toldLost \subseteq PeerWatchers

\* Numbers under way have been the count.
NumbersPast ==
    /\ \A v \in Watchers : shown[v] <= number /\ (SockIs(v, "answered") => sock[v].n <= number)
    /\ \A n \in Notifiers : notifier[n].step \in {"sending", "pushing"} => notifier[n].n <= number

\* What a viewer's rows say of its page.
RowsFor(v) ==
    /\ v \in Local => (Looking(v) <=> v \in rowsHome) /\ ~SockIs(v, "asking") /\ ~SockIs(v, "leaving")
    /\ v \in rowsPeer => Looking(v)
    /\ sock[v].step \in {"asking", "reading", "answered"} => Looking(v)
    /\ SockIs(v, "leaving") => ~Looking(v)
    /\ v \in PeerWatchers /\ Looking(v) =>
         \/ v \in toldLost \cup missedOut
         \/ v \in rowsPeer /\ (v \in rowsHome \/ SockIs(v, "asking") \/ "home" \in notices)
    /\ v \in PeerWatchers \cap rowsHome /\ ~Looking(v) =>
         v \in leftOpen \cup missedOut \cup bidding \/ SockIs(v, "leaving") \/ "peer" \in notices

\* Where a viewer's right number is, when not on its page.
OnItsWay(v) ==
    \/ sock[v].step \in {"asking", "reading"} \/ (SockIs(v, "answered") /\ sock[v].n = number)
    \/ \E n \in Notifiers :
         \/ notifier[n].step = "reading"
         \/ notifier[n].step = "sending" /\ notifier[n].n = number
         \/ v \in PeerWatchers /\ \/ notifier[n].step = "pushing" /\ notifier[n].n = number
                                  \/ notifier[n].step = "dropping"
    \/ v \in PeerWatchers /\ "home" \in notices

NumberFor(v) ==
    Looking(v) => shown[v] = number \/ OnItsWay(v) \/ v \in outdated \cup toldLost \cup missedOut

WatchInv == WatchShapes /\ NumbersPast /\ \A v \in Watchers : RowsFor(v) /\ NumberFor(v)

\* What a viewer's rows say, as long as nothing happens to it.
LEMMA RowsStay ==
    ASSUME NEW v \in Watchers, RowsFor(v), page'[v] = page[v], sock'[v].step = sock[v].step,
           v \in rowsHome' <=> v \in rowsHome, v \in rowsPeer' <=> v \in rowsPeer,
           v \in toldLost \cup missedOut => v \in toldLost' \cup missedOut',
           v \in leftOpen \cup missedOut \cup bidding => v \in leftOpen' \cup missedOut' \cup bidding',
           "home" \in notices => "home" \in notices', "peer" \in notices => "peer" \in notices'
    PROVE  RowsFor(v)'
BY DEF RowsFor, Looking, SockIs, Local

LEMMA NumberStays ==
    ASSUME NEW v \in Watchers, NumberFor(v), number' = number, page'[v] = page[v], shown'[v] = shown[v],
           sock'[v] = sock[v], notifier' = notifier,
           v \in outdated \cup toldLost \cup missedOut => v \in outdated' \cup toldLost' \cup missedOut',
           "home" \in notices => "home" \in notices'
    PROVE  NumberFor(v)'
<1>1. OnItsWay(v) => OnItsWay(v)'
  BY DEF OnItsWay, SockIs
<1>2. Looking(v)' <=> Looking(v)
  BY DEF Looking
<1>3. QED
  BY <1>1, <1>2 DEF NumberFor

\* A step of one viewer, or for it.
SameFor(w) ==
    /\ page'[w] = page[w] /\ shown'[w] = shown[w] /\ sock'[w] = sock[w]
    /\ w \in rowsHome' <=> w \in rowsHome
    /\ w \in rowsPeer' <=> w \in rowsPeer
    /\ w \in bidding' <=> w \in bidding
    /\ w \in toldLost' <=> w \in toldLost
    /\ w \in missedOut' <=> w \in missedOut
    /\ w \in outdated' <=> w \in outdated
    /\ w \in leftOpen' <=> w \in leftOpen

LEMMA ViewerSteps ==
    ASSUME WatchInv, NEW v \in Watchers, WatchShapes', UNCHANGED <<number, notifier, notices>>,
           \A w \in Watchers : w # v => SameFor(w),
           shown'[v] <= number, sock'[v].step = "answered" => sock'[v].n <= number,
           RowsFor(v)', NumberFor(v)'
    PROVE  WatchInv'
<1>1. NumbersPast'
  <2>1. ASSUME NEW w \in Watchers
        PROVE  shown'[w] <= number /\ (sock'[w].step = "answered" => sock'[w].n <= number)
    BY DEF WatchInv, NumbersPast, SameFor, SockIs
  <2>2. QED
    BY <2>1 DEF WatchInv, NumbersPast, SockIs
<1>2. ASSUME NEW w \in Watchers, w # v PROVE RowsFor(w)' /\ NumberFor(w)'
  <2>1. SameFor(w) /\ RowsFor(w) /\ NumberFor(w)
    BY <1>2 DEF WatchInv
  <2>2. RowsFor(w)'
    BY <2>1, RowsStay DEF SameFor
  <2>3. NumberFor(w)'
    BY <2>1, NumberStays DEF SameFor
  <2>4. QED
    BY <2>2, <2>3
<1>3. QED
  BY <1>1, <1>2 DEF WatchInv

LEMMA SubscribeWatch == ASSUME WatchInv, NEW v \in Watchers, Subscribe(v) PROVE WatchInv'
<1>1. PICK to \in SockStates :
         /\ to.step \in {"reading", "asking"} /\ (v \in Local <=> to.step = "reading")
         /\ sock' = [sock EXCEPT ![v] = to]
  BY DEF Subscribe, AskHome, SockTo, SockStates, Local
<1>2. /\ page' = [page EXCEPT ![v] = "open"] /\ leftOpen' = leftOpen \ {v}
      /\ rowsHome' = IF v \in Local THEN rowsHome \cup {v} ELSE rowsHome
      /\ rowsPeer' = IF v \in Local THEN rowsPeer ELSE rowsPeer \cup {v}
      /\ UNCHANGED <<number, shown, bidding, notifier, notices, toldLost, outdated, missedOut>>
  BY DEF Subscribe, WithRow
<1>3. WatchShapes
  BY DEF WatchInv
<1>4. /\ page'[v] = "open" /\ sock'[v] = to /\ shown'[v] = shown[v]
      /\ \A w \in Watchers : w # v => SameFor(w)
  BY <1>1, <1>2, <1>3 DEF WatchShapes, SameFor
<1>5. WatchShapes'
  BY <1>1, <1>2, <1>3 DEF WatchShapes, Local
<1>6. RowsFor(v)'
  BY <1>1, <1>2, <1>4 DEF RowsFor, Looking, SockIs, Local
<1>7. NumberFor(v)'
  BY <1>1, <1>4 DEF NumberFor, OnItsWay
<1>8. shown'[v] <= number /\ (sock'[v].step = "answered" => sock'[v].n <= number)
  BY <1>1, <1>4 DEF WatchInv, NumbersPast
<1>9. QED
  BY <1>2, <1>4, <1>5, <1>6, <1>7, <1>8, ViewerSteps

LEMMA ReadSnapshotWatch == ASSUME WatchInv, NEW v \in Watchers, ReadSnapshot(v) PROVE WatchInv'
<1>1. PICK to : to = [step |-> "answered", n |-> number]
  OBVIOUS
<1>2. /\ sock[v].step = "reading" /\ sock' = [sock EXCEPT ![v] = to]
      /\ UNCHANGED <<number, rowsHome, rowsPeer, page, shown, bidding, notifier, notices,
                     toldLost, outdated, missedOut, leftOpen>>
  BY <1>1 DEF ReadSnapshot, SockIs, SockTo
<1>3. WatchShapes /\ RowsFor(v)
  BY DEF WatchInv
<1>4. to \in SockStates /\ to.step = "answered" /\ to.n = number
  BY <1>1, <1>3 DEF SockStates, WatchShapes
<1>5. sock'[v] = to /\ \A w \in Watchers : w # v => SameFor(w)
  BY <1>2, <1>3 DEF WatchShapes, SameFor
<1>6. WatchShapes'
  BY <1>2, <1>3, <1>4 DEF WatchShapes
<1>7. RowsFor(v)'
  BY <1>2, <1>3, <1>4, <1>5 DEF RowsFor, Looking, SockIs, Local
<1>8. NumberFor(v)'
  BY <1>2, <1>4, <1>5 DEF NumberFor, OnItsWay, SockIs
<1>9. shown'[v] <= number /\ (sock'[v].step = "answered" => sock'[v].n <= number)
  BY <1>2, <1>4, <1>5 DEF WatchInv, NumbersPast, WatchShapes
<1>10. QED
  BY <1>2, <1>5, <1>6, <1>7, <1>8, <1>9, ViewerSteps

LEMMA HomeSubscribesWatch == ASSUME WatchInv, NEW v \in Watchers, HomeSubscribes(v) PROVE WatchInv'
<1>1. PICK to : to = [step |-> "reading"]
  OBVIOUS
<1>2. /\ sock[v].step = "asking" /\ sock' = [sock EXCEPT ![v] = to] /\ rowsHome' = rowsHome \cup {v}
      /\ UNCHANGED <<number, rowsPeer, page, shown, bidding, notifier, notices,
                     toldLost, outdated, missedOut, leftOpen>>
  BY <1>1 DEF HomeSubscribes, SockIs, SockTo, WithRow
<1>3. WatchShapes /\ RowsFor(v)
  BY DEF WatchInv
<1>4. to \in SockStates /\ to.step = "reading"
  BY <1>1 DEF SockStates
<1>5. sock'[v] = to /\ \A w \in Watchers : w # v => SameFor(w)
  BY <1>2, <1>3 DEF WatchShapes, SameFor
<1>6. WatchShapes'
  BY <1>2, <1>3, <1>4 DEF WatchShapes
<1>7. RowsFor(v)'
  BY <1>2, <1>3, <1>4, <1>5 DEF RowsFor, Looking, SockIs, Local
<1>8. NumberFor(v)'
  BY <1>2, <1>4, <1>5 DEF NumberFor, OnItsWay
<1>9. shown'[v] <= number /\ (sock'[v].step = "answered" => sock'[v].n <= number)
  BY <1>2, <1>4, <1>5 DEF WatchInv, NumbersPast
<1>10. QED
  BY <1>2, <1>5, <1>6, <1>7, <1>8, <1>9, ViewerSteps

\* A number shown is the count, or replaced a newer one, or another is on its way.
LEMMA ShowWatch ==
    ASSUME WatchInv, NEW vs, NEW n \in Nat, n <= number, Show(vs, n), number' = number, page' = page
    PROVE  /\ shown' \in [Watchers -> Nat]
           /\ \A w \in Watchers : shown'[w] <= number
           /\ \A w \in Watchers \ vs : shown'[w] = shown[w] /\ (w \in outdated' <=> w \in outdated)
           /\ \A w \in Watchers \cap vs : Looking(w) =>
                 \/ shown'[w] = number
                 \/ w \in outdated'
                 \/ n < number /\ shown[w] # number /\ w \notin outdated
<1>1. /\ shown' = [w \in Watchers |-> IF w \in vs /\ Looking(w) THEN n ELSE shown[w]]
      /\ outdated' = {w \in outdated : w \notin vs \/ n < number} \cup {w \in vs : Looking(w) /\ n < shown[w]}
  BY DEF Show
<1>2. number \in Nat /\ shown \in [Watchers -> Nat] /\ \A w \in Watchers : shown[w] <= number
  BY DEF WatchInv, WatchShapes, NumbersPast
<1>3. QED
  BY <1>1, <1>2

LEMMA TakeSnapshotWatch == ASSUME WatchInv, NEW v \in Watchers, TakeSnapshot(v) PROVE WatchInv'
<1>1. PICK n : n = sock[v].n
  OBVIOUS
<1>2. /\ sock[v].step = "answered" /\ Show({v}, n) /\ sock' = [sock EXCEPT ![v] = Resting]
      /\ UNCHANGED <<number, rowsHome, rowsPeer, page, bidding, notifier, notices,
                     toldLost, missedOut, leftOpen>>
  BY <1>1 DEF TakeSnapshot, SockIs, SockTo
<1>3. WatchShapes /\ RowsFor(v) /\ NumberFor(v) /\ sock[v] \in SockStates
  BY DEF WatchInv, WatchShapes
<1>4. n \in Nat
  BY <1>1, <1>2, <1>3 DEF SockStates, Resting
<1>5. n <= number
  BY <1>1, <1>2 DEF WatchInv, NumbersPast, SockIs
<1>6. /\ shown' \in [Watchers -> Nat]
      /\ \A w \in Watchers : shown'[w] <= number
      /\ \A w \in Watchers \ {v} : shown'[w] = shown[w] /\ (w \in outdated' <=> w \in outdated)
      /\ Looking(v) => \/ shown'[v] = number \/ v \in outdated'
                       \/ n < number /\ shown[v] # number /\ v \notin outdated
  BY <1>2, <1>4, <1>5, ShowWatch
<1>7. sock'[v] = Resting /\ Resting.step = "idle" /\ Resting \in SockStates
  BY <1>2, <1>3 DEF WatchShapes, Resting, SockStates
<1>8. \A w \in Watchers : w # v => SameFor(w)
  BY <1>2, <1>3, <1>6 DEF WatchShapes, SameFor
<1>9. WatchShapes'
  BY <1>2, <1>3, <1>6, <1>7 DEF WatchShapes
<1>10. RowsFor(v)'
  BY <1>2, <1>3, <1>7 DEF RowsFor, Looking, SockIs, Local
<1>11. NumberFor(v)'
  <2>1. SUFFICES ASSUME Looking(v), v \notin toldLost \cup missedOut, n < number, shown[v] # number, v \notin outdated
                 PROVE  OnItsWay(v)'
    BY <1>2, <1>6 DEF NumberFor, Looking
  <2>2. OnItsWay(v)
    BY <1>3, <2>1 DEF NumberFor
  <2>3. number \in Nat
    BY <1>3 DEF WatchShapes
  <2>4. ~(sock[v].step \in {"asking", "reading"} \/ (SockIs(v, "answered") /\ sock[v].n = number))
    BY <1>1, <1>2, <1>4, <2>1, <2>3
  <2>5. QED
    BY <1>2, <2>2, <2>4 DEF OnItsWay
<1>12. shown'[v] <= number /\ (sock'[v].step = "answered" => sock'[v].n <= number)
  BY <1>6, <1>7
<1>13. QED
  BY <1>2, <1>8, <1>9, <1>10, <1>11, <1>12, ViewerSteps

LEMMA SubscribeFailsWatch == ASSUME WatchInv, NEW v \in Watchers, SubscribeFails(v) PROVE WatchInv'
<1>1. /\ v \in PeerWatchers /\ sock[v].step \in {"asking", "reading", "answered"}
      /\ sock' = [sock EXCEPT ![v] = Resting] /\ missedOut' = missedOut \cup {v}
      /\ UNCHANGED <<number, rowsHome, rowsPeer, page, shown, bidding, notifier, notices,
                     toldLost, outdated, leftOpen>>
  BY DEF SubscribeFails, SockTo
<1>2. WatchShapes /\ RowsFor(v)
  BY DEF WatchInv
<1>3. sock'[v] = Resting /\ Resting.step = "idle" /\ Resting \in SockStates
  BY <1>1, <1>2 DEF WatchShapes, Resting, SockStates
<1>4. \A w \in Watchers : w # v => SameFor(w)
  BY <1>1, <1>2 DEF WatchShapes, SameFor
<1>5. WatchShapes'
  BY <1>1, <1>2, <1>3 DEF WatchShapes
<1>6. RowsFor(v)'
  BY <1>1, <1>2, <1>3 DEF RowsFor, Looking, SockIs, Local
<1>7. NumberFor(v)'
  BY <1>1 DEF NumberFor
<1>8. shown'[v] <= number /\ (sock'[v].step = "answered" => sock'[v].n <= number)
  BY <1>1, <1>3 DEF WatchInv, NumbersPast
<1>9. QED
  BY <1>1, <1>4, <1>5, <1>6, <1>7, <1>8, ViewerSteps

LEMMA UnsubscribeWatch == ASSUME WatchInv, NEW v \in Watchers, Unsubscribe(v) PROVE WatchInv'
<1>1. PICK to \in SockStates :
         /\ to.step = IF v \in PeerWatchers /\ v \in rowsPeer THEN "leaving" ELSE "idle"
         /\ sock' = [sock EXCEPT ![v] = to]
  <2>1. CASE v \in Local
    <3>1. sock' = [sock EXCEPT ![v] = sock[v]] /\ sock[v] \in SockStates /\ sock[v].step = "idle"
      BY <2>1 DEF Unsubscribe, SockIs, WatchInv, WatchShapes
    <3>2. QED
      BY <2>1, <3>1 DEF Local
  <2>2. CASE v \notin Local
    <3>1. sock' = [sock EXCEPT ![v] = IF v \in rowsPeer THEN [step |-> "leaving"] ELSE Resting]
      BY <2>2 DEF Unsubscribe, SockTo
    <3>2. {[step |-> "leaving"], Resting} \subseteq SockStates /\ Resting.step = "idle"
      BY DEF SockStates, Resting
    <3>3. QED
      BY <2>2, <3>1, <3>2 DEF Local
  <2>3. QED
    BY <2>1, <2>2
<1>2. /\ Looking(v) /\ page' = [page EXCEPT ![v] = "closed"] /\ shown' = [shown EXCEPT ![v] = 0]
      /\ outdated' = outdated \ {v} /\ toldLost' = toldLost \ {v} /\ missedOut' = missedOut \ {v}
      /\ leftOpen' = IF v \in rowsHome /\ (v \in missedOut \/ v \in PeerWatchers \ rowsPeer)
                     THEN leftOpen \cup {v} ELSE leftOpen
      /\ rowsHome' = IF v \in Local THEN rowsHome \ {v} ELSE rowsHome
      /\ rowsPeer' = IF v \in Local THEN rowsPeer ELSE rowsPeer \ {v}
      /\ UNCHANGED <<number, bidding, notifier, notices>>
  BY DEF Unsubscribe, Leaves, WithoutRow
<1>3. WatchShapes /\ RowsFor(v)
  BY DEF WatchInv
<1>4. page'[v] = "closed" /\ shown'[v] = 0 /\ sock'[v] = to /\ number \in Nat
  BY <1>1, <1>2, <1>3 DEF WatchShapes
<1>5. \A w \in Watchers : w # v => SameFor(w)
  BY <1>1, <1>2, <1>3 DEF WatchShapes, SameFor
<1>6. WatchShapes'
  BY <1>1, <1>2, <1>3 DEF WatchShapes
<1>7. RowsFor(v)'
  BY <1>1, <1>2, <1>3, <1>4 DEF RowsFor, Looking, SockIs, Local, WatchShapes
<1>8. NumberFor(v)'
  BY <1>4 DEF NumberFor, Looking
<1>9. shown'[v] <= number /\ (sock'[v].step = "answered" => sock'[v].n <= number)
  BY <1>1, <1>4
<1>10. QED
  BY <1>2, <1>5, <1>6, <1>7, <1>8, <1>9, ViewerSteps

\* A viewer whose socket comes to rest, and whose rows are settled with that.
LEMMA SockRests ==
    ASSUME WatchInv, NEW v \in Watchers, sock' = [sock EXCEPT ![v] = Resting],
           UNCHANGED <<number, rowsPeer, page, shown, bidding, notifier, notices,
                       toldLost, outdated, missedOut>>,
           rowsHome' \subseteq rowsHome, rowsHome \subseteq rowsHome' \cup {v}, leftOpen \subseteq leftOpen',
           leftOpen' \subseteq leftOpen \cup {v}, RowsFor(v)', ~Looking(v)
    PROVE  WatchInv'
<1>1. WatchShapes
  BY DEF WatchInv
<1>2. sock'[v] = Resting /\ Resting.step = "idle" /\ Resting \in SockStates
  BY <1>1 DEF WatchShapes, Resting, SockStates
<1>3. \A w \in Watchers : w # v => SameFor(w)
  BY <1>1 DEF WatchShapes, SameFor
<1>4. WatchShapes'
  BY <1>1, <1>2 DEF WatchShapes
<1>5. NumberFor(v)'
  BY DEF NumberFor, Looking
<1>6. shown'[v] <= number /\ (sock'[v].step = "answered" => sock'[v].n <= number)
  BY <1>2 DEF WatchInv, NumbersPast
<1>7. QED
  BY <1>3, <1>4, <1>5, <1>6, ViewerSteps

LEMMA LeavingEnds ==
    ASSUME WatchInv, NEW v \in Watchers, HomeUnsubscribes(v) \/ UnsubscribeFails(v)
    PROVE  WatchInv'
<1>1. /\ sock[v].step = "leaving" /\ sock' = [sock EXCEPT ![v] = Resting]
      /\ \/ rowsHome' = rowsHome \ {v} /\ leftOpen' = leftOpen
         \/ rowsHome' = rowsHome /\ leftOpen' = leftOpen \cup {v}
      /\ UNCHANGED <<number, rowsPeer, page, shown, bidding, notifier, notices,
                     toldLost, outdated, missedOut>>
  BY DEF HomeUnsubscribes, UnsubscribeFails, SockIs, SockTo, WithoutRow
<1>2. WatchShapes /\ RowsFor(v)
  BY DEF WatchInv
<1>3. sock'[v].step = "idle"
  BY <1>1, <1>2 DEF WatchShapes, Resting
<1>4. RowsFor(v)'
  BY <1>1, <1>2, <1>3 DEF RowsFor, Looking, SockIs, Local
<1>5. ~Looking(v)
  BY <1>1, <1>2 DEF RowsFor, SockIs
<1>6. QED
  BY <1>1, <1>4, <1>5, SockRests

LEMMA SocketLostWatch == ASSUME WatchInv, NEW v \in Watchers, SocketLost(v) PROVE WatchInv'
<1>1. /\ Looking(v) /\ sock[v].step = "idle" /\ page' = [page EXCEPT ![v] = "away"]
      /\ shown' = [shown EXCEPT ![v] = 0]
      /\ outdated' = outdated \ {v} /\ toldLost' = toldLost \ {v} /\ missedOut' = missedOut \ {v}
      /\ leftOpen' = IF v \in rowsHome /\ (v \in missedOut \/ v \in PeerWatchers \ rowsPeer)
                     THEN leftOpen \cup {v} ELSE leftOpen
      /\ rowsHome' = IF v \in Local THEN rowsHome \ {v} ELSE rowsHome
      /\ rowsPeer' = rowsPeer \ {v} /\ bidding' = bidding \cup ({v} \cap rowsPeer)
      /\ UNCHANGED <<number, sock, notifier, notices>>
  BY DEF SocketLost, SockIs, Leaves, Bids
<1>2. WatchShapes /\ RowsFor(v)
  BY DEF WatchInv
<1>3. page'[v] = "away" /\ shown'[v] = 0 /\ number \in Nat
  BY <1>1, <1>2 DEF WatchShapes
<1>4. \A w \in Watchers : w # v => SameFor(w)
  BY <1>1, <1>2 DEF WatchShapes, SameFor
<1>5. WatchShapes'
  BY <1>1, <1>2 DEF WatchShapes
<1>6. RowsFor(v)'
  BY <1>1, <1>2, <1>3 DEF RowsFor, Looking, SockIs, Local, WatchShapes
<1>7. NumberFor(v)'
  BY <1>3 DEF NumberFor, Looking
<1>8. shown'[v] <= number /\ (sock'[v].step = "answered" => sock'[v].n <= number)
  BY <1>1, <1>3
<1>9. QED
  BY <1>1, <1>4, <1>5, <1>6, <1>7, <1>8, ViewerSteps

LEMMA ByeWatch ==
    ASSUME WatchInv, NEW v \in Watchers, HomeHearsBye(v) \/ ByeFails(v) PROVE WatchInv'
<1>1. /\ v \in bidding /\ bidding' = bidding \ {v}
      /\ \/ rowsHome' = rowsHome \ {v} /\ leftOpen' = leftOpen
            /\ missedOut' = IF v \in rowsHome /\ v \in rowsPeer THEN missedOut \cup {v} ELSE missedOut
         \/ rowsHome' = rowsHome /\ leftOpen' = leftOpen \cup {v} /\ missedOut' = missedOut
      /\ UNCHANGED <<number, rowsPeer, page, shown, sock, notifier, notices, toldLost, outdated>>
  BY DEF HomeHearsBye, ByeFails, WithoutRow
<1>2. WatchShapes /\ RowsFor(v) /\ NumberFor(v) /\ v \in PeerWatchers
  BY <1>1 DEF WatchInv, WatchShapes
<1>3. \A w \in Watchers : w # v => SameFor(w)
  BY <1>1 DEF SameFor
<1>4. WatchShapes'
  BY <1>1, <1>2 DEF WatchShapes
<1>5. RowsFor(v)'
  BY <1>1, <1>2 DEF RowsFor, Looking, SockIs, Local
<1>6. NumberFor(v)'
  BY <1>1, <1>2, NumberStays
<1>7. shown'[v] <= number /\ (sock'[v].step = "answered" => sock'[v].n <= number)
  BY <1>1 DEF WatchInv, NumbersPast, SockIs
<1>8. QED
  BY <1>1, <1>3, <1>4, <1>5, <1>6, <1>7, ViewerSteps

\* A step of a goroutine that tells of the number, rows and pages left alone.
LEMMA NotifierSteps ==
    ASSUME WatchInv, NEW n \in Notifiers, NEW to \in NotifierStates, notifier' = [notifier EXCEPT ![n] = to],
           UNCHANGED <<rowsHome, rowsPeer, page, sock, bidding, notices, toldLost, missedOut, leftOpen>>,
           number' \in Nat, number' >= number, shown' \in [Watchers -> Nat],
           \A v \in Watchers : shown'[v] <= number',
           to.step \in {"sending", "pushing"} => to.n <= number',
           \A v \in Watchers : NumberFor(v)'
    PROVE  WatchInv'
<1>1. WatchShapes /\ NumbersPast /\ \A v \in Watchers : RowsFor(v)
  BY DEF WatchInv
<1>2. notifier'[n] = to /\ \A m \in Notifiers : m # n => notifier'[m] = notifier[m]
  BY <1>1 DEF WatchShapes
<1>3. WatchShapes'
  BY <1>1 DEF WatchShapes
<1>4. NumbersPast'
  <2>1. ASSUME NEW m \in Notifiers, notifier'[m].step \in {"sending", "pushing"}
        PROVE  notifier'[m].n <= number'
    <3>1. CASE m = n
      BY <1>2, <2>1, <3>1
    <3>2. CASE m # n
      <4>1. notifier[m] \in NotifierStates /\ notifier[m].n <= number /\ notifier'[m] = notifier[m]
        BY <1>1, <1>2, <2>1, <3>2 DEF WatchShapes, NumbersPast
      <4>2. notifier[m].n \in Nat /\ number \in Nat
        BY <1>1, <2>1, <4>1 DEF NotifierStates, Unsent, WatchShapes
      <4>3. QED
        BY <4>1, <4>2
    <3>3. QED
      BY <3>1, <3>2
  <2>2. ASSUME NEW v \in Watchers, sock[v].step = "answered" PROVE sock[v].n <= number'
    <3>1. sock[v] \in SockStates /\ sock[v].n <= number /\ number \in Nat
      BY <1>1, <2>2 DEF WatchShapes, NumbersPast, SockIs
    <3>2. sock[v].n \in Nat
      BY <2>2, <3>1 DEF SockStates, Resting
    <3>3. QED
      BY <3>1, <3>2
  <2>3. QED
    BY <2>1, <2>2 DEF NumbersPast, SockIs
<1>5. \A v \in Watchers : RowsFor(v)'
  BY <1>1, RowsStay
<1>6. QED
  BY <1>3, <1>4, <1>5 DEF WatchInv

\* What is under way for a viewer, but for what one goroutine was about to do.
LEMMA OthersOnTheWay ==
    ASSUME WatchInv, NEW n \in Notifiers, NEW to \in NotifierStates, notifier' = [notifier EXCEPT ![n] = to],
           number' = number, sock' = sock, notices' = notices, NEW v \in Watchers, OnItsWay(v)
    PROVE  \/ OnItsWay(v)'
           \/ notifier[n].step = "reading"
           \/ notifier[n].step = "sending" /\ notifier[n].n = number
           \/ v \in PeerWatchers /\ \/ notifier[n].step = "pushing" /\ notifier[n].n = number
                                    \/ notifier[n].step = "dropping"
<1>1. \A m \in Notifiers : m # n => notifier'[m] = notifier[m]
  BY DEF WatchInv, WatchShapes
<1>2. QED
  BY <1>1 DEF OnItsWay, SockIs

LEMMA ChangeWatch == ASSUME WatchInv, NEW n \in Notifiers, Change(n) PROVE WatchInv'
<1>1. PICK to : to = [step |-> "reading"]
  OBVIOUS
<1>2. /\ number' = number + 1 /\ notifier' = [notifier EXCEPT ![n] = to]
      /\ UNCHANGED <<rowsHome, rowsPeer, page, shown, sock, bidding, notices,
                     toldLost, outdated, missedOut, leftOpen>>
  BY <1>1 DEF Change, NotifierTo
<1>3. to \in NotifierStates /\ to.step = "reading"
  BY <1>1 DEF NotifierStates
<1>4. WatchShapes
  BY DEF WatchInv
<1>5. notifier'[n] = to
  BY <1>2, <1>4 DEF WatchShapes
<1>6. \A v \in Watchers : NumberFor(v)'
  BY <1>3, <1>5 DEF NumberFor, OnItsWay
<1>7. \A v \in Watchers : shown[v] \in Nat /\ shown[v] <= number
  BY <1>4 DEF WatchInv, NumbersPast, WatchShapes
<1>8. number \in Nat /\ shown \in [Watchers -> Nat]
  BY <1>4 DEF WatchShapes
<1>9. number' \in Nat /\ number' >= number /\ \A v \in Watchers : shown'[v] <= number'
  BY <1>2, <1>7, <1>8
<1>10. QED
  BY <1>2, <1>3, <1>6, <1>8, <1>9, NotifierSteps

LEMMA ReadNumberWatch == ASSUME WatchInv, NEW n \in Notifiers, ReadNumber(n) PROVE WatchInv'
<1>1. PICK to : to = [step |-> "sending", n |-> number]
  OBVIOUS
<1>2. /\ number' = number /\ notifier' = [notifier EXCEPT ![n] = to]
      /\ UNCHANGED <<rowsHome, rowsPeer, page, shown, sock, bidding, notices,
                     toldLost, outdated, missedOut, leftOpen>>
  BY <1>1 DEF ReadNumber, NotifierTo
<1>3. WatchShapes
  BY DEF WatchInv
<1>4. to \in NotifierStates /\ to.step = "sending" /\ to.n = number
  BY <1>1, <1>3 DEF NotifierStates, WatchShapes
<1>5. notifier'[n] = to
  BY <1>2, <1>3 DEF WatchShapes
<1>6. \A v \in Watchers : NumberFor(v)'
  BY <1>2, <1>4, <1>5 DEF NumberFor, OnItsWay
<1>7. number \in Nat /\ shown \in [Watchers -> Nat] /\ \A v \in Watchers : shown[v] <= number
  BY <1>3 DEF WatchShapes, WatchInv, NumbersPast
<1>8. /\ number' \in Nat /\ number' >= number /\ shown' \in [Watchers -> Nat]
      /\ \A v \in Watchers : shown'[v] <= number'
      /\ to.step \in {"sending", "pushing"} => to.n <= number'
  BY <1>2, <1>4, <1>7
<1>9. QED
  BY <1>2, <1>4, <1>6, <1>8, NotifierSteps

LEMMA SendHereWatch == ASSUME WatchInv, NEW n \in Notifiers, SendHere(n) PROVE WatchInv'
<1>1. PICK k : k = notifier[n].n
  OBVIOUS
<1>2. PICK to : to = IF rowsHome \cap PeerWatchers = {} THEN Unsent ELSE [step |-> "pushing", n |-> k]
  OBVIOUS
<1>3. /\ notifier[n].step = "sending" /\ Show(rowsHome \cap Local, k) /\ notifier' = [notifier EXCEPT ![n] = to]
      /\ UNCHANGED <<number, rowsHome, rowsPeer, page, sock, bidding, notices, toldLost, missedOut, leftOpen>>
  BY <1>1, <1>2 DEF SendHere, NotifierTo
<1>4. WatchShapes /\ notifier[n] \in NotifierStates /\ number \in Nat
  BY DEF WatchInv, WatchShapes
<1>5. k \in Nat
  BY <1>1, <1>3, <1>4 DEF NotifierStates, Unsent
<1>6. k <= number
  BY <1>1, <1>3 DEF WatchInv, NumbersPast
<1>7. /\ to \in NotifierStates
      /\ to.step \in {"sending", "pushing"} => to.n <= number
      /\ rowsHome \cap PeerWatchers # {} => to.step = "pushing" /\ to.n = k
  BY <1>2, <1>5, <1>6 DEF NotifierStates, Unsent
<1>8. /\ shown' \in [Watchers -> Nat]
      /\ \A w \in Watchers : shown'[w] <= number
      /\ \A w \in Watchers \ (rowsHome \cap Local) : shown'[w] = shown[w] /\ (w \in outdated' <=> w \in outdated)
      /\ \A w \in Watchers \cap (rowsHome \cap Local) : Looking(w) =>
            \/ shown'[w] = number \/ w \in outdated'
            \/ k < number /\ shown[w] # number /\ w \notin outdated
  BY <1>3, <1>5, <1>6, ShowWatch
<1>9. notifier'[n] = to
  BY <1>3, <1>4 DEF WatchShapes
<1>10. ASSUME NEW v \in Watchers PROVE NumberFor(v)'
  <2>1. NumberFor(v) /\ RowsFor(v)
    BY DEF WatchInv
  <2>2. SUFFICES ASSUME Looking(v), v \notin toldLost \cup missedOut, v \notin outdated', shown'[v] # number
                 PROVE  OnItsWay(v)'
    BY <1>3 DEF NumberFor, Looking
  <2>3. /\ shown[v] # number /\ v \notin outdated
        /\ v \in Local => k < number
    <3>1. CASE v \in rowsHome \cap Local
      BY <1>8, <2>2, <3>1
    <3>2. CASE v \notin rowsHome \cap Local
      BY <1>8, <2>1, <2>2, <3>2 DEF RowsFor
    <3>3. QED
      BY <3>1, <3>2
  <2>4. OnItsWay(v)
    BY <2>1, <2>2, <2>3 DEF NumberFor
  <2>5. OnItsWay(v)' \/ k = number
    BY <1>1, <1>3, <1>7, <2>4, OthersOnTheWay
  <2>6. ASSUME k = number PROVE OnItsWay(v)'
    <3>1. v \in PeerWatchers
      BY <1>4, <2>3, <2>6 DEF Local
    <3>2. v \in rowsHome \/ SockIs(v, "asking") \/ "home" \in notices
      BY <2>1, <2>2, <3>1 DEF RowsFor
    <3>3. CASE v \in rowsHome
      BY <1>3, <1>7, <1>9, <2>6, <3>1, <3>3 DEF OnItsWay
    <3>4. CASE SockIs(v, "asking") \/ "home" \in notices
      BY <1>3, <3>1, <3>4 DEF OnItsWay, SockIs
    <3>5. QED
      BY <3>2, <3>3, <3>4
  <2>7. QED
    BY <2>5, <2>6
<1>11. /\ number' \in Nat /\ number' >= number
       /\ \A v \in Watchers : shown'[v] <= number'
       /\ to.step \in {"sending", "pushing"} => to.n <= number'
  BY <1>3, <1>4, <1>7, <1>8
<1>12. QED
  BY <1>3, <1>7, <1>8, <1>10, <1>11, NotifierSteps

LEMMA PushWatch == ASSUME WatchInv, NEW n \in Notifiers, Push(n) PROVE WatchInv'
<1>1. PICK k : k = notifier[n].n
  OBVIOUS
<1>2. PICK to : to = IF rowsPeer = {} THEN [step |-> "dropping"] ELSE Unsent
  OBVIOUS
<1>3. /\ notifier[n].step = "pushing" /\ Show(rowsPeer, k) /\ notifier' = [notifier EXCEPT ![n] = to]
      /\ UNCHANGED <<number, rowsHome, rowsPeer, page, sock, bidding, notices, toldLost, missedOut, leftOpen>>
  BY <1>1, <1>2 DEF Push, NotifierTo, DeliverForeignReedStats
<1>4. WatchShapes /\ notifier[n] \in NotifierStates /\ number \in Nat
  BY DEF WatchInv, WatchShapes
<1>5. k \in Nat
  BY <1>1, <1>3, <1>4 DEF NotifierStates, Unsent
<1>6. k <= number
  BY <1>1, <1>3 DEF WatchInv, NumbersPast
<1>7. to \in NotifierStates /\ to.step \notin {"sending", "pushing"}
  BY <1>2 DEF NotifierStates, Unsent
<1>8. /\ shown' \in [Watchers -> Nat]
      /\ \A w \in Watchers : shown'[w] <= number
      /\ \A w \in Watchers \ rowsPeer : shown'[w] = shown[w] /\ (w \in outdated' <=> w \in outdated)
      /\ \A w \in Watchers \cap rowsPeer : Looking(w) =>
            \/ shown'[w] = number \/ w \in outdated'
            \/ k < number /\ shown[w] # number /\ w \notin outdated
  BY <1>3, <1>5, <1>6, ShowWatch
<1>9. ASSUME NEW v \in Watchers PROVE NumberFor(v)'
  <2>1. NumberFor(v) /\ RowsFor(v)
    BY DEF WatchInv
  <2>2. SUFFICES ASSUME Looking(v), v \notin toldLost \cup missedOut, v \notin outdated', shown'[v] # number
                 PROVE  OnItsWay(v)'
    BY <1>3 DEF NumberFor, Looking
  <2>3. shown[v] # number /\ v \notin outdated /\ (v \in PeerWatchers => k < number)
    <3>1. CASE v \in rowsPeer
      BY <1>8, <2>2, <3>1
    <3>2. CASE v \notin rowsPeer
      BY <1>8, <2>1, <2>2, <3>2 DEF RowsFor
    <3>3. QED
      BY <3>1, <3>2
  <2>4. OnItsWay(v)
    BY <2>1, <2>2, <2>3 DEF NumberFor
  <2>5. OnItsWay(v)' \/ (v \in PeerWatchers /\ k = number)
    BY <1>1, <1>3, <1>7, <2>4, OthersOnTheWay
  <2>6. QED
    BY <1>4, <1>5, <2>3, <2>5
<1>10. /\ number' \in Nat /\ number' >= number
       /\ \A v \in Watchers : shown'[v] <= number'
  BY <1>3, <1>4, <1>8
<1>11. QED
  BY <1>3, <1>7, <1>8, <1>9, <1>10, NotifierSteps

LEMMA PushFailsWatch == ASSUME WatchInv, NEW n \in Notifiers, PushFails(n) PROVE WatchInv'
<1>1. PICK to : to = [step |-> "dropping"]
  OBVIOUS
<1>2. /\ notifier[n].step = "pushing" /\ notifier' = [notifier EXCEPT ![n] = to]
      /\ UNCHANGED <<number, rowsHome, rowsPeer, page, shown, sock, bidding, notices,
                     toldLost, outdated, missedOut, leftOpen>>
  BY <1>1 DEF PushFails, NotifierTo
<1>3. WatchShapes /\ number \in Nat /\ shown \in [Watchers -> Nat] /\ \A v \in Watchers : shown[v] <= number
  BY DEF WatchInv, WatchShapes, NumbersPast
<1>4. to \in NotifierStates /\ to.step = "dropping" /\ notifier'[n] = to
  BY <1>1, <1>2, <1>3 DEF NotifierStates, WatchShapes
<1>5. ASSUME NEW v \in Watchers PROVE NumberFor(v)'
  <2>1. NumberFor(v)
    BY DEF WatchInv
  <2>2. OnItsWay(v) => OnItsWay(v)'
    <3>1. SUFFICES ASSUME OnItsWay(v), v \in PeerWatchers PROVE OnItsWay(v)'
      BY <1>2, <1>4, OthersOnTheWay
    <3>2. QED
      BY <1>4, <3>1 DEF OnItsWay
  <2>3. QED
    BY <1>2, <2>1, <2>2 DEF NumberFor, Looking
<1>6. number' \in Nat /\ number' >= number /\ shown' \in [Watchers -> Nat] /\ \A v \in Watchers : shown'[v] <= number'
  BY <1>2, <1>3
<1>7. QED
  BY <1>2, <1>4, <1>5, <1>6, NotifierSteps

LEMMA DropPeerRowsWatch == ASSUME WatchInv, NEW n \in Notifiers, DropPeerRows(n) PROVE WatchInv'
<1>1. /\ notifier[n].step = "dropping" /\ rowsHome' = rowsHome \ PeerWatchers
      /\ missedOut' = missedOut \cup (rowsHome \cap rowsPeer)
      /\ notifier' = [notifier EXCEPT ![n] = Unsent]
      /\ UNCHANGED <<number, rowsPeer, page, shown, sock, bidding, notices, toldLost, outdated, leftOpen>>
  BY DEF DropPeerRows, PeerRows, NotifierTo
<1>2. WatchShapes /\ NumbersPast
  BY DEF WatchInv
<1>3. Unsent \in NotifierStates /\ Unsent.step = "idle"
  BY DEF NotifierStates, Unsent
<1>4. notifier'[n] = Unsent /\ \A m \in Notifiers : m # n => notifier'[m] = notifier[m]
  BY <1>1, <1>2 DEF WatchShapes
<1>5. WatchShapes'
  BY <1>1, <1>2, <1>3 DEF WatchShapes
<1>6. NumbersPast'
  BY <1>1, <1>2, <1>3, <1>4 DEF NumbersPast, SockIs
<1>7. ASSUME NEW v \in Watchers PROVE RowsFor(v)' /\ NumberFor(v)'
  <2>1. RowsFor(v) /\ NumberFor(v)
    BY DEF WatchInv
  <2>2. RowsFor(v)'
    BY <1>1, <2>1 DEF RowsFor, Looking, SockIs, Local
  <2>3. ASSUME Looking(v), OnItsWay(v), v \notin toldLost \cup missedOut' PROVE OnItsWay(v)'
    <3>1. CASE v \in PeerWatchers
      <4>1. v \notin rowsHome /\ (SockIs(v, "asking") \/ "home" \in notices)
        BY <1>1, <2>1, <2>3, <3>1 DEF RowsFor
      <4>2. QED
        BY <1>1, <3>1, <4>1 DEF OnItsWay, SockIs
    <3>2. CASE v \notin PeerWatchers
      BY <1>1, <1>3, <2>3, <3>2, OthersOnTheWay
    <3>3. QED
      BY <3>1, <3>2
  <2>4. NumberFor(v)'
    BY <1>1, <2>1, <2>3 DEF NumberFor, Looking
  <2>5. QED
    BY <2>2, <2>4
<1>8. QED
  BY <1>5, <1>6, <1>7 DEF WatchInv

\* The users of a server that restarts look no more, the others as before.
LEMMA SocketsLost ==
    ASSUME WatchInv, NEW vs, LosesSockets(vs)
    PROVE  /\ shown' \in [Watchers -> Nat] /\ page' \in [Watchers -> {"closed", "away", "open"}]
           /\ sock' \in [Watchers -> SockStates]
           /\ \A v \in Watchers : shown'[v] <= number /\ (sock'[v].step = "answered" => sock'[v].n <= number)
           /\ \A v \in Watchers \ vs : /\ shown'[v] = shown[v] /\ page'[v] = page[v] /\ sock'[v] = sock[v]
                                       /\ v \in outdated' <=> v \in outdated
           /\ \A v \in Watchers \cap vs : page'[v] # "open" /\ sock'[v].step = "idle"
<1>1. WatchShapes /\ NumbersPast
  BY DEF WatchInv
<1>2. Resting \in SockStates /\ Resting.step = "idle"
  BY DEF SockStates, Resting
<1>3. /\ shown' = [v \in Watchers |-> IF v \in vs THEN 0 ELSE shown[v]]
      /\ outdated' = outdated \ vs
      /\ page' = [v \in Watchers |-> IF v \in vs /\ page[v] = "open" THEN "away" ELSE page[v]]
      /\ sock' = [v \in Watchers |-> IF v \in vs THEN Resting ELSE sock[v]]
  BY DEF LosesSockets, Looking
<1>4. shown' \in [Watchers -> Nat] /\ page' \in [Watchers -> {"closed", "away", "open"}]
  BY <1>1, <1>3 DEF WatchShapes
<1>5. sock' \in [Watchers -> SockStates]
  BY <1>1, <1>2, <1>3 DEF WatchShapes
<1>6. \A v \in Watchers : shown'[v] <= number /\ (sock'[v].step = "answered" => sock'[v].n <= number)
  BY <1>1, <1>2, <1>3 DEF WatchShapes, NumbersPast, SockIs
<1>7. \A v \in Watchers \ vs : /\ shown'[v] = shown[v] /\ page'[v] = page[v] /\ sock'[v] = sock[v]
                               /\ v \in outdated' <=> v \in outdated
  BY <1>3
<1>8. \A v \in Watchers \cap vs : page'[v] # "open" /\ sock'[v].step = "idle"
  BY <1>2, <1>3
<1>9. QED
  BY <1>4, <1>5, <1>6, <1>7, <1>8

LEMMA HomeRestartsWatch == ASSUME WatchInv, HomeRestarts PROVE WatchInv'
<1>1. /\ rowsHome' = {} /\ LosesSockets(Local) /\ notifier' = [n \in Notifiers |-> Unsent]
      /\ notices' = notices \cup {"home"}
      /\ UNCHANGED <<number, rowsPeer, bidding, toldLost, missedOut, leftOpen>>
  BY DEF HomeRestarts
<1>2. WatchShapes /\ Unsent \in NotifierStates /\ Unsent.step = "idle"
  BY DEF WatchInv, NotifierStates, Unsent
<1>3. /\ shown' \in [Watchers -> Nat] /\ page' \in [Watchers -> {"closed", "away", "open"}]
      /\ sock' \in [Watchers -> SockStates]
      /\ \A v \in Watchers : shown'[v] <= number /\ (sock'[v].step = "answered" => sock'[v].n <= number)
      /\ \A v \in Watchers \ Local : /\ shown'[v] = shown[v] /\ page'[v] = page[v] /\ sock'[v] = sock[v]
                                     /\ v \in outdated' <=> v \in outdated
      /\ \A v \in Watchers \cap Local : page'[v] # "open" /\ sock'[v].step = "idle"
  BY <1>1, SocketsLost
<1>4. WatchShapes'
  BY <1>1, <1>2, <1>3 DEF WatchShapes
<1>5. NumbersPast'
  BY <1>1, <1>2, <1>3 DEF NumbersPast, SockIs
<1>6. ASSUME NEW v \in Watchers PROVE RowsFor(v)' /\ NumberFor(v)'
  <2>1. RowsFor(v) /\ WatchShapes
    BY DEF WatchInv
  <2>2. CASE v \in Local
    <3>1. page'[v] # "open" /\ sock'[v].step = "idle" /\ v \notin PeerWatchers
      BY <1>3, <2>2 DEF Local
    <3>2. v \notin rowsPeer
      BY <2>1, <3>1 DEF WatchShapes
    <3>3. RowsFor(v)'
      BY <1>1, <3>1, <3>2 DEF RowsFor, Looking, SockIs
    <3>4. NumberFor(v)'
      BY <3>1 DEF NumberFor, Looking
    <3>5. QED
      BY <3>3, <3>4
  <2>3. CASE v \notin Local
    <3>1. shown'[v] = shown[v] /\ page'[v] = page[v] /\ sock'[v] = sock[v] /\ v \in PeerWatchers
      BY <1>3, <2>3 DEF Local
    <3>2. RowsFor(v)'
      BY <1>1, <2>1, <2>3, <3>1 DEF RowsFor, Looking, SockIs, Local
    <3>3. NumberFor(v)'
      BY <1>1, <3>1 DEF NumberFor, OnItsWay
    <3>4. QED
      BY <3>2, <3>3
  <2>4. QED
    BY <2>2, <2>3
<1>7. QED
  BY <1>4, <1>5, <1>6 DEF WatchInv

LEMMA PeerRestartsWatch == ASSUME WatchInv, PeerRestarts PROVE WatchInv'
<1>1. /\ rowsPeer' = {} /\ bidding' = {} /\ toldLost' = {} /\ missedOut' = missedOut \ PeerWatchers
      /\ leftOpen' = leftOpen \cup (rowsHome \cap missedOut \cap PeerWatchers)
      /\ LosesSockets(PeerWatchers) /\ notices' = notices \cup {"peer"}
      /\ UNCHANGED <<number, rowsHome, notifier>>
  BY DEF PeerRestarts
<1>2. WatchShapes /\ NumbersPast
  BY DEF WatchInv
<1>3. /\ shown' \in [Watchers -> Nat] /\ page' \in [Watchers -> {"closed", "away", "open"}]
      /\ sock' \in [Watchers -> SockStates]
      /\ \A v \in Watchers : shown'[v] <= number /\ (sock'[v].step = "answered" => sock'[v].n <= number)
      /\ \A v \in Watchers \ PeerWatchers : /\ shown'[v] = shown[v] /\ page'[v] = page[v] /\ sock'[v] = sock[v]
                                            /\ v \in outdated' <=> v \in outdated
      /\ \A v \in Watchers \cap PeerWatchers : page'[v] # "open" /\ sock'[v].step = "idle"
  BY <1>1, SocketsLost
<1>4. WatchShapes'
  BY <1>1, <1>2, <1>3 DEF WatchShapes
<1>5. NumbersPast'
  BY <1>1, <1>2, <1>3 DEF NumbersPast, SockIs
<1>6. ASSUME NEW v \in Watchers PROVE RowsFor(v)' /\ NumberFor(v)'
  <2>1. RowsFor(v) /\ NumberFor(v)
    BY DEF WatchInv
  <2>2. CASE v \in PeerWatchers
    <3>1. page'[v] # "open" /\ sock'[v].step = "idle" /\ v \notin Local
      BY <1>3, <2>2 DEF Local
    <3>2. RowsFor(v)'
      BY <1>1, <3>1 DEF RowsFor, Looking, SockIs
    <3>3. NumberFor(v)'
      BY <3>1 DEF NumberFor, Looking
    <3>4. QED
      BY <3>2, <3>3
  <2>3. CASE v \notin PeerWatchers
    <3>1. /\ shown'[v] = shown[v] /\ page'[v] = page[v] /\ sock'[v] = sock[v] /\ v \in Local
          /\ v \in outdated' <=> v \in outdated
      BY <1>3, <2>3 DEF Local
    <3>2. v \notin rowsPeer
      BY <1>2, <2>3 DEF WatchShapes
    <3>3. RowsFor(v)'
      BY <1>1, <2>1, <2>3, <3>1 DEF RowsFor, Looking, SockIs, Local
    <3>4. OnItsWay(v) => OnItsWay(v)'
      BY <1>1, <2>3, <3>1 DEF OnItsWay, SockIs
    <3>5. v \in toldLost => FALSE
      BY <2>3 DEF WatchInv, WatchShapes
    <3>6. NumberFor(v)'
      BY <1>1, <2>1, <2>3, <3>1, <3>4, <3>5 DEF NumberFor, Looking
    <3>7. QED
      BY <3>3, <3>6
  <2>4. QED
    BY <2>2, <2>3
<1>7. QED
  BY <1>4, <1>5, <1>6 DEF WatchInv

\* A boot notice is handled or lost: nobody's page or socket is touched.
LEMMA NoticeWatch ==
    ASSUME WatchInv,
           UNCHANGED <<number, page, shown, sock, bidding, notifier, outdated>>,
           \/ PeerForgetsHome \/ HomeForgetsPeer
           \/ \E s \in {"home", "peer"} : NoticeFails(s)
    PROVE  WatchInv'
<1>1. WatchShapes /\ NumbersPast
  BY DEF WatchInv
<1>2. \/ /\ notices' = notices \ {"home"} /\ toldLost' = toldLost \cup rowsPeer /\ rowsPeer' = {}
         /\ UNCHANGED <<rowsHome, missedOut, leftOpen>>
      \/ /\ notices' = notices \ {"peer"} /\ rowsHome' = rowsHome \ PeerWatchers
         /\ missedOut' = missedOut \cup (rowsHome \cap rowsPeer)
         /\ UNCHANGED <<rowsPeer, toldLost, leftOpen>>
      \/ /\ notices' = notices \ {"home"} /\ missedOut' = missedOut \cup rowsPeer
         /\ UNCHANGED <<rowsHome, rowsPeer, toldLost, leftOpen>>
      \/ /\ notices' = notices \ {"peer"} /\ leftOpen' = leftOpen \cup (rowsHome \cap PeerWatchers)
         /\ UNCHANGED <<rowsHome, rowsPeer, toldLost, missedOut>>
  BY DEF PeerForgetsHome, HomeForgetsPeer, NoticeFails, TellLost
<1>3. WatchShapes'
  BY <1>1, <1>2 DEF WatchShapes
<1>4. NumbersPast'
  BY <1>1 DEF NumbersPast, SockIs
<1>5. ASSUME NEW v \in Watchers PROVE RowsFor(v)' /\ NumberFor(v)'
  <2>1. RowsFor(v) /\ NumberFor(v)
    BY DEF WatchInv
  <2>2. RowsFor(v)'
    BY <1>1, <1>2, <2>1 DEF RowsFor, Looking, SockIs, Local, WatchShapes
  <2>3. ASSUME Looking(v), OnItsWay(v), v \notin toldLost' \cup missedOut' PROVE OnItsWay(v)'
    <3>1. v \in PeerWatchers /\ "home" \in notices => "home" \in notices'
      BY <1>2, <2>1, <2>3 DEF RowsFor
    <3>2. QED
      BY <2>3, <3>1 DEF OnItsWay, SockIs
  <2>4. v \in toldLost \cup missedOut => v \in toldLost' \cup missedOut'
    BY <1>2
  <2>5. NumberFor(v)'
    BY <2>1, <2>3, <2>4 DEF NumberFor, Looking
  <2>6. QED
    BY <2>2, <2>5
<1>6. QED
  BY <1>3, <1>4, <1>5 DEF WatchInv

LEMMA InitWatch == WatchInit => WatchInv
<1> SUFFICES ASSUME WatchInit PROVE WatchInv
  OBVIOUS
<1>1. Resting \in SockStates /\ Resting.step = "idle" /\ Unsent \in NotifierStates /\ Unsent.step = "idle"
  BY DEF SockStates, NotifierStates, Resting, Unsent
<1>2. WatchShapes
  BY <1>1 DEF WatchInit, WatchShapes
<1>3. NumbersPast
  BY <1>1 DEF WatchInit, NumbersPast, SockIs
<1>4. \A v \in Watchers : ~Looking(v) /\ SockIs(v, "idle")
  BY <1>1 DEF WatchInit, Looking, SockIs
<1>5. \A v \in Watchers : RowsFor(v) /\ NumberFor(v)
  BY <1>4 DEF WatchInit, RowsFor, NumberFor, SockIs
<1>6. QED
  BY <1>2, <1>3, <1>5 DEF WatchInv

LEMMA StepWatch == WatchInv /\ [WatchNext]_watchVars => WatchInv'
<1> SUFFICES ASSUME WatchInv, [WatchNext]_watchVars PROVE WatchInv'
  OBVIOUS
<1>1. ASSUME NEW v \in Watchers,
             \/ Subscribe(v) \/ ReadSnapshot(v) \/ HomeSubscribes(v) \/ TakeSnapshot(v) \/ SubscribeFails(v)
             \/ Unsubscribe(v) \/ HomeUnsubscribes(v) \/ UnsubscribeFails(v) \/ SocketLost(v)
             \/ HomeHearsBye(v) \/ ByeFails(v)
      PROVE  WatchInv'
  BY <1>1, SubscribeWatch, ReadSnapshotWatch, HomeSubscribesWatch, TakeSnapshotWatch, SubscribeFailsWatch,
     UnsubscribeWatch, LeavingEnds, SocketLostWatch, ByeWatch
<1>2. ASSUME NEW n \in Notifiers,
             Change(n) \/ ReadNumber(n) \/ SendHere(n) \/ Push(n) \/ PushFails(n) \/ DropPeerRows(n)
      PROVE  WatchInv'
  BY <1>2, ChangeWatch, ReadNumberWatch, SendHereWatch, PushWatch, PushFailsWatch, DropPeerRowsWatch
<1>3. CASE HomeRestarts
  BY <1>3, HomeRestartsWatch
<1>4. CASE PeerRestarts
  BY <1>4, PeerRestartsWatch
<1>5. CASE PeerForgetsHome \/ HomeForgetsPeer \/ \E s \in {"home", "peer"} : NoticeFails(s)
  <2>1. UNCHANGED <<number, page, shown, sock, bidding, notifier, outdated>>
    BY <1>5 DEF PeerForgetsHome, HomeForgetsPeer, NoticeFails
  <2>2. QED
    BY <1>5, <2>1, NoticeWatch
<1>6. CASE UNCHANGED watchVars
  <2>1. /\ UNCHANGED <<number, rowsHome, rowsPeer, page, shown, sock, bidding, notifier, notices>>
        /\ UNCHANGED <<toldLost, outdated, missedOut, leftOpen>>
    BY <1>6 DEF watchVars
  <2>2. \A v \in Watchers : RowsFor(v)' /\ NumberFor(v)'
    BY <2>1, RowsStay, NumberStays DEF WatchInv
  <2>3. WatchShapes' /\ NumbersPast'
    BY <2>1 DEF WatchInv, WatchShapes, NumbersPast, SockIs
  <2>4. QED
    BY <2>2, <2>3 DEF WatchInv
<1>7. QED
  BY <1>1, <1>2, <1>3, <1>4, <1>5, <1>6 DEF WatchNext

\* When nothing is under way, whoever looks has its rows and the right number,
\* and every row has its viewer (CreateReedSubscription, notifyReedCoverage,
\* forgetPeer), but for the viewers the histories name.
THEOREM WatchersAlwaysHear == WatchSpec => []WatchersHear
<1>1. WatchInv => WatchersHear
  <2>1. SUFFICES ASSUME WatchInv, NothingUnderWay PROVE ViewersHear /\ NumbersAreTrue /\ NoRowLeftBehind
    BY DEF WatchersHear
  <2>2. Unsent.step = "idle"
    BY DEF Unsent
  <2>3. /\ \A v \in Watchers : sock[v].step = "idle"
        /\ \A n \in Notifiers : notifier[n].step = "idle"
        /\ bidding = {} /\ notices = {}
    BY <2>1, <2>2 DEF NothingUnderWay, SockIs
  <2>4. rowsHome \subseteq Watchers /\ rowsPeer \subseteq PeerWatchers /\ PeerWatchers \subseteq Watchers
    BY <2>1, WatchingAssumption DEF WatchInv, WatchShapes
  <2>5. \A v \in Watchers : RowsFor(v) /\ NumberFor(v) /\ ~OnItsWay(v)
    BY <2>1, <2>3 DEF WatchInv, OnItsWay, SockIs
  <2>6. ViewersHear
    BY <2>3, <2>5 DEF ViewersHear, RowsFor, SockIs, Local
  <2>7. NumbersAreTrue
    BY <2>5 DEF NumbersAreTrue, NumberFor
  <2>8. NoRowLeftBehind
    BY <2>3, <2>4, <2>5 DEF NoRowLeftBehind, RowsFor, SockIs, Local
  <2>9. QED
    BY <2>6, <2>7, <2>8
<1>2. QED
  BY <1>1, InitWatch, StepWatch, PTL DEF WatchSpec
=============================================================================
