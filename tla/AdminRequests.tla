--------------------------- MODULE AdminRequests ---------------------------
(***************************************************************************)
(* Two admins per action: one opens a request, another approves or rejects *)
(* it, and what is approved is carried out and entered in the ledger in    *)
(* one transaction (admin.go, the executors of admin_*.go, ledger_chain.go *)
(* and, for accounts that leave meanwhile, dropFromAdminRequests).         *)
(*                                                                         *)
(* A decision locks the row of its own request and nothing else that its   *)
(* rules read: the check, the turn at the ledger and the commit are three  *)
(* steps, and other decisions commit between them.  An account that left   *)
(* is dropped from the requests by a goroutine, and closing the ones that  *)
(* are left without a target is a transaction of its own.                  *)
(***************************************************************************)
EXTENDS Naturals, Sequences, FiniteSets

CONSTANTS
    Members,        \* local users (model values)
    RootUser,       \* the operator's account
    Admins,         \* who are admins at the start
    Held0,          \* and what they may do
    InvitedBy,      \* who invited whom, where somebody did
    Proposals,      \* BOUND: what may be asked: action, requester, targets, body
    MaxAdminRequests,   \* BOUND
    Leavers,        \* BOUND: who may delete their account
    Deciders,       \* BOUND: handlers at work at once (model values)
    MaxMesh         \* BOUND: ledger entries that no request writes

Permissions == {"admin.create", "admin.demote", "user.kick", "user.suspend",
                "message.broadcast"}
ActionPermission ==
    [suspend |-> "user.suspend", reinstate |-> "user.suspend", kick |-> "user.kick",
     promote |-> "admin.create", demote |-> "admin.demote",
     broadcast |-> "message.broadcast"]
Actions == DOMAIN ActionPermission \cup {"permissions"}
NeedsOutsideApprover == {"kick", "promote", "demote", "permissions"}

Proposal == [action : Actions, requester : Members, targets : SUBSET Members,
             body : SUBSET Permissions]

ASSUME AdminAssumption ==
    /\ RootUser \in Members
    /\ Admins \subseteq Members \ {RootUser}
    /\ Held0 \in [Admins -> SUBSET Permissions]
    /\ InvitedBy \in [Members -> Members \cup {"nobody"}]
    /\ Proposals \subseteq Proposal
    /\ \A p \in Proposals :
         /\ RootUser \notin p.targets
         /\ p.action = "broadcast" <=> p.targets = {}
         /\ p.action \in {"promote", "demote", "permissions"} => Cardinality(p.targets) = 1
    /\ MaxAdminRequests \in Nat
    /\ Leavers \subseteq Members
    /\ MaxMesh \in Nat

RequestIds == 1 .. MaxAdminRequests
Final == {"executed", "rejected", "withdrawn", "moot"}

VARIABLES
    role,           \* users.role
    perms,          \* user_permissions
    suspendedBy,    \* users.suspended_by: a request, 0 if not
    departed,       \* account_removals
    adminReq,       \* admin_requests with their targets
    ledger,         \* ledger_entries, by id
    ledgerLock,     \* the advisory lock of the ledger
    task,           \* what each handler is at
    dropJobs,       \* goroutines of dropFromAdminRequests not run yet, by user
    mootJobs,       \* closeIfMoot calls they still have to make
    mesh,           \* ledger entries written that belong to no request
    missed,         \* history: requests a removal came too late or was lost for
    overtaken,      \* history: decisions another one committed in the middle of
    amiss           \* history: executed against the rules as of their commit

adminVars == <<role, perms, suspendedBy, departed, adminReq, ledger, ledgerLock, task,
               dropJobs, mootJobs, mesh, missed, overtaken, amiss>>
adminTables == <<role, perms, suspendedBy, departed, adminReq, ledger>>

Unused == [state |-> "unused"]
AtRest == [step |-> "idle"]

Pending(r) == adminReq[r].state = "pending"
Remaining(r) == adminReq[r].targets \ adminReq[r].dropped
\* A decision holds the lock of the request's row until it commits.
Locked(r) == \E h \in Deciders : task[h].step \in {"checked", "chained"} /\ task[h].req = r

\* isAdmin, userPermissionsQ.
IsAdminRole(u) == role[u] \in {"root", "admin"}
Holds(u) == IF role[u] = "root" THEN Permissions
            ELSE IF role[u] = "admin" THEN perms[u] ELSE {}

\* requiredPermissionsQ and grantedPermissions: what acting on p takes.
Requires(p) ==
    IF p.action # "permissions" THEN {ActionPermission[p.action]}
    ELSE LET now == Holds(CHOOSE u \in p.targets : TRUE)
         IN {q \in {"admin.create"} : p.body \ now # {}}
            \cup {q \in {"admin.demote"} : now \ p.body # {}}
Grants(p) == IF p.action \in {"promote", "permissions"} THEN p.body ELSE {}

\* checkActorPermissionsQ.
MayActOn(u, p) == Requires(p) # {} /\ Requires(p) \cup Grants(p) \subseteq Holds(u)

\* The executors' validate, over the targets that are left.
Fits(p, left) ==
    CASE p.action = "suspend" -> \A u \in left : suspendedBy[u] = 0
      [] p.action = "reinstate" -> \A u \in left : suspendedBy[u] # 0
      [] p.action = "promote" -> \A u \in left : role[u] = "user"
      [] p.action \in {"demote", "permissions"} -> \A u \in left : role[u] = "admin"
      [] OTHER -> TRUE

\* What the middleware lets through.
SignedIn(u) == u \notin departed /\ suspendedBy[u] = 0

\* Variant that must fail: an admin decides on a request about an admin.
MayDecide_OnAdmins(u, r) ==
    LET p == adminReq[r] IN
    /\ IsAdminRole(u)
    /\ u # p.requester \/ u = RootUser
    /\ u \notin p.targets
    /\ p.action \in NeedsOutsideApprover => InvitedBy[u] # p.requester
    /\ MayActOn(u, p)
\* checkDeciderQ: the approver rules, read when the approval is submitted.
MayDecide(u, r) ==
    LET p == adminReq[r] IN
    /\ IsAdminRole(u)
    /\ u # p.requester \/ u = RootUser
    /\ u \notin p.targets
    /\ p.action \in NeedsOutsideApprover => InvitedBy[u] # p.requester
    /\ MayActOn(u, p)
    /\ u = RootUser \/ \A t \in Remaining(r) : role[t] # "admin"

\* What the design promises of an approval (specs/admin_actions/00_design.md).
ByTheRules(u, r) ==
    LET p == adminReq[r] IN
    /\ role[u] \in {"root", "admin"}
    /\ Requires(p) \cup Grants(p) \subseteq Holds(u)
    /\ u \notin p.targets
    /\ u # RootUser =>
        /\ u # p.requester
        /\ \A t \in p.targets \ p.dropped : role[t] \notin {"admin", "root"}
        /\ p.action \in NeedsOutsideApprover => InvitedBy[u] # p.requester

----------------------------------------------------------------------------
AdminInit ==
    /\ role = [u \in Members |-> IF u = RootUser THEN "root"
                                 ELSE IF u \in Admins THEN "admin" ELSE "user"]
    /\ perms = [u \in Members |-> IF u \in Admins THEN Held0[u] ELSE {}]
    /\ suspendedBy = [u \in Members |-> 0]
    /\ departed = {}
    /\ adminReq = [r \in RequestIds |-> Unused]
    /\ ledger = <<>>
    /\ ledgerLock = FALSE
    /\ task = [h \in Deciders |-> AtRest]
    /\ dropJobs = {}
    /\ mootJobs = {}
    /\ mesh = 0
    /\ missed = {}
    /\ overtaken = {}
    /\ amiss = {}

\* validateNewAdminRequest.
ValidRequest(p) ==
    /\ IsAdminRole(p.requester)
    /\ p.targets \cap departed = {}
    /\ MayActOn(p.requester, p)
    /\ Fits(p, p.targets)

\* OpenAdminRequest up to its insert.
OpenCheck(h, r, p) ==
    /\ task[h] = AtRest
    /\ adminReq[r] = Unused
    /\ \A k \in RequestIds : k < r => adminReq[k] # Unused
    /\ SignedIn(p.requester)
    /\ ValidRequest(p)
    /\ task' = [task EXCEPT ![h] = [step |-> "opening", req |-> r, proposal |-> p]]
    /\ UNCHANGED <<adminTables, ledgerLock, dropJobs, mootJobs, mesh, missed, overtaken, amiss>>

\* insertAdminRequestTx; a target that left meanwhile is not looked for again.
Open(h) ==
    /\ task[h].step = "opening"
    /\ LET r == task[h].req  p == task[h].proposal IN
       /\ adminReq[r] = Unused
       /\ adminReq' = [adminReq EXCEPT ![r] =
            [state |-> "pending", action |-> p.action, requester |-> p.requester,
             targets |-> p.targets, body |-> p.body, dropped |-> {}, by |-> {}]]
       /\ missed' = IF p.targets \cap (departed \ dropJobs) # {} THEN missed \cup {r} ELSE missed
    /\ task' = [task EXCEPT ![h] = AtRest]
    /\ UNCHANGED <<role, perms, suspendedBy, departed, ledger, ledgerLock, dropJobs, mootJobs,
                   mesh, overtaken, amiss>>

\* A second request with the same id: ErrAdminRequestExists.
OpenExists(h) ==
    /\ task[h].step = "opening"
    /\ adminReq[task[h].req] # Unused
    /\ task' = [task EXCEPT ![h] = AtRest]
    /\ UNCHANGED <<adminTables, ledgerLock, dropJobs, mootJobs, mesh, missed, overtaken, amiss>>

----------------------------------------------------------------------------
(* Deciding.                                                               *)

\* DecideAdminRequest: the request's row locked and still pending, the rules
\* and the executor's validate passed.
DecideCheck(h, u, r, decision) ==
    /\ task[h] = AtRest
    /\ Pending(r)
    /\ ~Locked(r)
    /\ SignedIn(u)
    /\ IF decision = "withdrawn" THEN u = adminReq[r].requester ELSE MayDecide(u, r)
    /\ decision = "executed" => Fits(adminReq[r], Remaining(r))
    /\ task' = [task EXCEPT ![h] = [step |-> "checked", req |-> r, by |-> u,
                                    decision |-> decision, left |-> Remaining(r), last |-> 0]]
    /\ UNCHANGED <<adminTables, ledgerLock, dropJobs, mootJobs, mesh, missed, overtaken, amiss>>

\* Variant that must fail: the last entry is read without waiting for a turn.
LedgerTurn_NoWait(h) ==
    /\ task[h].step = "checked"
    /\ task[h].decision = "executed"
    /\ ledgerLock' = TRUE
    /\ task' = [task EXCEPT ![h].step = "chained", ![h].last = Len(ledger)]
    /\ UNCHANGED <<adminTables, dropJobs, mootJobs, mesh, missed, overtaken, amiss>>

\* appendLedgerEntryTx: the advisory lock, and the last entry read under it.
LedgerTurn(h) ==
    /\ task[h].step = "checked"
    /\ task[h].decision = "executed"
    /\ ~ledgerLock
    /\ ledgerLock' = TRUE
    /\ task' = [task EXCEPT ![h].step = "chained", ![h].last = Len(ledger)]
    /\ UNCHANGED <<adminTables, dropJobs, mootJobs, mesh, missed, overtaken, amiss>>

\* The executors: suspend, reinstate, promote, demote, permissions, kick.
Execute(r, left) ==
    LET p == adminReq[r] IN
    /\ suspendedBy' = [u \in Members |->
            IF u \in left /\ p.action = "suspend" THEN r
            ELSE IF u \in left /\ p.action = "reinstate" THEN 0 ELSE suspendedBy[u]]
    /\ role' = [u \in Members |->
            IF u \in p.targets /\ p.action \in {"promote", "permissions"} THEN "admin"
            ELSE IF u \in p.targets /\ p.action = "demote" THEN "user" ELSE role[u]]
    /\ perms' = [u \in Members |->
            IF u \in p.targets /\ p.action \in {"promote", "permissions"} THEN p.body
            ELSE IF u \in p.targets /\ p.action = "demote" THEN {} ELSE perms[u]]
    /\ departed' = departed \cup IF p.action = "kick" THEN left ELSE {}
    /\ dropJobs' = dropJobs \cup IF p.action = "kick" THEN left ELSE {}

\* An executor that fails: another removal of the account is stored, or its
\* profile has lost the signatures (storeAccountRemovalTx, recountersignProfileTx).
CannotExecute(r, left) ==
    \/ adminReq[r].action = "kick" /\ left \cap departed # {}
    \/ /\ adminReq[r].action \in {"promote", "demote", "permissions"}
       /\ adminReq[r].targets \cap departed # {}

\* Other decisions at work see this one commit under them.
Overtakes(h) == overtaken' = overtaken \cup
    {task[k].req : k \in {g \in Deciders \ {h} : task[g].step \in {"checked", "chained"}}}

\* The approval commits: executed, closed and entered in the ledger at once.
Approve(h) ==
    /\ task[h].step = "chained"
    /\ LET r == task[h].req  left == task[h].left IN
       /\ ~CannotExecute(r, left)
       /\ Execute(r, left)
       /\ adminReq' = [adminReq EXCEPT ![r].state = "executed", ![r].by = {task[h].by}]
       /\ ledger' = Append(ledger, [req |-> r, prev |-> task[h].last])
       /\ amiss' = IF ByTheRules(task[h].by, r) THEN amiss ELSE amiss \cup {r}
       /\ Overtakes(h)
    /\ ledgerLock' = FALSE
    /\ task' = [task EXCEPT ![h] = AtRest]
    /\ UNCHANGED <<mootJobs, mesh, missed>>

\* ... or rolls back.
ApproveFails(h) ==
    /\ task[h].step = "chained"
    /\ CannotExecute(task[h].req, task[h].left)
    /\ ledgerLock' = FALSE
    /\ task' = [task EXCEPT ![h] = AtRest]
    /\ UNCHANGED <<adminTables, dropJobs, mootJobs, mesh, missed, overtaken, amiss>>

\* A rejection or a withdrawal changes nothing else.
Dismiss(h) ==
    /\ task[h].step = "checked"
    /\ task[h].decision # "executed"
    /\ adminReq' = [adminReq EXCEPT ![task[h].req].state = task[h].decision,
                                    ![task[h].req].by = {task[h].by}]
    /\ task' = [task EXCEPT ![h] = AtRest]
    /\ UNCHANGED <<role, perms, suspendedBy, departed, ledger, ledgerLock, dropJobs, mootJobs,
                   mesh, missed, overtaken, amiss>>

----------------------------------------------------------------------------
(* Leaving, and what else writes the ledger.                               *)

\* DeleteMe: insertAccountRemovalCert, and afterAccountRemoval's goroutine.
LeaveServer(u) ==
    /\ u # RootUser
    /\ u \in Leavers
    /\ SignedIn(u)
    /\ departed' = departed \cup {u}
    /\ dropJobs' = dropJobs \cup {u}
    /\ UNCHANGED <<role, perms, suspendedBy, adminReq, ledger, ledgerLock, task, mootJobs, mesh,
                   missed, overtaken, amiss>>

Named(u) == {r \in RequestIds : /\ Pending(r)
                                /\ u \in Remaining(r)}

\* dropFromAdminRequests: one UPDATE over every pending request.
DropTargets(u) ==
    /\ u \in dropJobs
    /\ dropJobs' = dropJobs \ {u}
    /\ adminReq' = [r \in RequestIds |->
            IF r \in Named(u) THEN [adminReq[r] EXCEPT !.dropped = @ \cup {u}] ELSE adminReq[r]]
    /\ mootJobs' = mootJobs \cup Named(u)
    /\ UNCHANGED <<role, perms, suspendedBy, departed, ledger, ledgerLock, task, mesh, missed,
                   overtaken, amiss>>

\* Variant that must fail: a request with two targets goes with the first.
CloseIfMoot_Any(r) ==
    /\ r \in mootJobs
    /\ ~Locked(r)
    /\ mootJobs' = mootJobs \ {r}
    /\ adminReq' = IF Pending(r) THEN [adminReq EXCEPT ![r].state = "moot"] ELSE adminReq
    /\ UNCHANGED <<role, perms, suspendedBy, departed, ledger, ledgerLock, task, dropJobs, mesh,
                   missed, overtaken, amiss>>

\* Variant that must fail: what is left without a target stays open.
CloseIfMoot_Never(r) ==
    /\ r \in mootJobs
    /\ ~Locked(r)
    /\ mootJobs' = mootJobs \ {r}
    /\ UNCHANGED <<adminTables, ledgerLock, task, dropJobs, mesh, missed, overtaken, amiss>>

\* closeIfMoot.
CloseIfMoot(r) ==
    /\ r \in mootJobs
    /\ ~Locked(r)
    /\ mootJobs' = mootJobs \ {r}
    /\ adminReq' = IF Pending(r) /\ Remaining(r) = {}
                   THEN [adminReq EXCEPT ![r].state = "moot"] ELSE adminReq
    /\ UNCHANGED <<role, perms, suspendedBy, departed, ledger, ledgerLock, task, dropJobs, mesh,
                   missed, overtaken, amiss>>

\* A mesh action, an admin invite claimed: entries no request is behind.
AppendOther ==
    /\ ~ledgerLock
    /\ mesh < MaxMesh
    /\ mesh' = mesh + 1
    /\ ledger' = Append(ledger, [req |-> 0, prev |-> Len(ledger)])
    /\ UNCHANGED <<role, perms, suspendedBy, departed, adminReq, ledgerLock, task, dropJobs,
                   mootJobs, missed, overtaken, amiss>>

\* The server stops: what is not committed is gone, and no goroutine is begun
\* again at boot.
AdminCrash ==
    /\ task # [h \in Deciders |-> AtRest] \/ dropJobs \cup mootJobs # {}
    /\ task' = [h \in Deciders |-> AtRest]
    /\ ledgerLock' = FALSE
    /\ dropJobs' = {}
    /\ mootJobs' = {}
    /\ missed' = missed \cup mootJobs \cup UNION {Named(u) : u \in dropJobs}
    /\ UNCHANGED <<adminTables, mesh, overtaken, amiss>>

AdminNext ==
    \/ \E h \in Deciders :
        \/ \E r \in RequestIds :
            \/ \E p \in Proposals : OpenCheck(h, r, p)
            \/ \E u \in Members, d \in {"executed", "rejected", "withdrawn"} :
                    DecideCheck(h, u, r, d)
        \/ Open(h) \/ OpenExists(h) \/ LedgerTurn(h)
        \/ Approve(h) \/ ApproveFails(h) \/ Dismiss(h)
    \/ \E u \in Members : LeaveServer(u) \/ DropTargets(u)
    \/ \E r \in RequestIds : CloseIfMoot(r)
    \/ AppendOther
    \/ AdminCrash

AdminSpec == AdminInit /\ [][AdminNext]_adminVars

----------------------------------------------------------------------------
AdminRequest == {Unused} \cup
    [state : {"pending"} \cup Final, action : Actions, requester : Members,
     targets : SUBSET Members, body : SUBSET Permissions, dropped : SUBSET Members,
     by : SUBSET Members]
Task ==  {AtRest}
    \cup [step : {"opening"}, req : RequestIds, proposal : Proposals]
    \cup [step : {"checked", "chained"}, req : RequestIds, by : Members,
          decision : Final, left : SUBSET Members, last : Nat]

\* Tables and handlers keep their shape.
AdminTypeOK ==
    /\ role \in [Members -> {"root", "admin", "user"}]
    /\ perms \in [Members -> SUBSET Permissions]
    /\ suspendedBy \in [Members -> RequestIds \cup {0}]
    /\ departed \subseteq Members
    /\ adminReq \in [RequestIds -> AdminRequest]
    /\ ledger \in Seq([req : RequestIds \cup {0}, prev : Nat])
    /\ ledgerLock \in BOOLEAN
    /\ task \in [Deciders -> Task]
    /\ dropJobs \subseteq Members
    /\ mootJobs \subseteq RequestIds
    /\ mesh \in 0 .. MaxMesh
    /\ missed \subseteq RequestIds
    /\ overtaken \subseteq RequestIds
    /\ amiss \subseteq RequestIds

\* The ledger is one chain and has exactly one entry for each request that was
\* executed, none for the others (appendLedgerEntryTx within the approval).
LedgerIsTheRecord ==
    /\ \A i \in DOMAIN ledger : ledger[i].prev = i - 1
    /\ \A r \in RequestIds :
        Cardinality({i \in DOMAIN ledger : ledger[i].req = r})
            = IF adminReq[r].state = "executed" THEN 1 ELSE 0

\* An approval obeys the approver's rules as they stand when it takes effect,
\* not only when it was checked, unless another decision committed in between
\* (checkDeciderQ locks nothing that it reads).
RulesHoldUnlessOvertaken == amiss \subseteq overtaken

\* With no goroutine at work, a pending request that names somebody names
\* somebody who is still there, unless the removal was missed: it fell between
\* the checks and the insert of the request, or a stop lost the goroutine.
MootUnlessMissed ==
    dropJobs = {} /\ mootJobs = {} =>
        \A r \in RequestIds \ missed :
            Pending(r) /\ adminReq[r].targets # {} => adminReq[r].targets \ departed # {}

\* A request closes as moot only when all it named have left.
MootMeansGone ==
    \A r \in RequestIds : adminReq[r].state = "moot" => adminReq[r].targets \subseteq departed

\* A pending request is closed as moot when, and only when, everybody it names
\* has left (closeMootAdminRequests, which runs after the removal's commit).
MootIffAllGone == MootUnlessMissed /\ MootMeansGone

\* What is decided stands on the rules and on who is still there.
DecisionsHold == RulesHoldUnlessOvertaken /\ MootIffAllGone
=============================================================================
