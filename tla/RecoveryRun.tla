---------------------------- MODULE RecoveryRun ----------------------------
(***************************************************************************)
(* A device brings its account back: it imports a full backup, or finds    *)
(* itself signed in on a server that was rebuilt, and then reports, one    *)
(* unit after another, what the new server should know.  Where it stands   *)
(* is kept in localStorage alone: the import marker, the recovery marker   *)
(* and a ledger of the units (importRun.ts, recoveryRun.ts,                *)
(* recoveryProgress.ts); the runner (recoveryRunner.ts) works the ledger   *)
(* off, and the gate (restoreFlow.ts) keeps the app away until it is done. *)
(*                                                                         *)
(* The tab may be closed and reopened between any two steps, an answer may *)
(* be lost, an abandoned call may still be handled, the server may be      *)
(* rebuilt again, and another device of the account may claim or bind it.  *)
(* A backup holds the whole of localStorage, so one made by a device that  *)
(* recovered before ("recovered") brings its finished markers and ledger.  *)
(***************************************************************************)
EXTENDS Naturals, FiniteSets

CONSTANTS
    HeldPeers,          \* users of this server whose records the device holds
    Unbuildable,        \* those whose chain of keys is not whole here
    HeldReeds,          \* reeds it holds
    RecordPages,        \* pages of signed records; their order is left open
    Refusable,          \* peers and reeds the server answers with a 4xx
    MaxWipes,           \* BOUND: how often the server's database is rebuilt
    MaxOthers           \* BOUND: how often another device claims or binds the account

Own == "own_identity"
FixedUnits == {Own, "servers", "pins", "complete"}

ASSUME RecoveryRunAssumption ==
    /\ (HeldPeers \union HeldReeds) \intersect (FixedUnits \union RecordPages) = {}
    /\ HeldPeers \intersect HeldReeds = {} /\ RecordPages \intersect FixedUnits = {}
    /\ Unbuildable \subseteq HeldPeers
    /\ Refusable \subseteq HeldPeers \union HeldReeds
    /\ {MaxWipes, MaxOthers} \subseteq Nat

Units == FixedUnits \union HeldPeers \union HeldReeds \union RecordPages

\* The order runRecoveryWork goes in.
Stage(u) ==
    CASE u = Own -> 1
      [] u = "servers" -> 2
      [] u \in HeldPeers -> 3
      [] u \in HeldReeds -> 4
      [] u \in RecordPages -> 5
      [] u = "pins" -> 6
      [] OTHER -> 7

Earlier(u, v) == Stage(u) < Stage(v)

VARIABLES
    importRun,          \* the import marker: "none", "started" or "completed"
    recoveryRun,        \* the recovery marker, likewise
    workLedger,         \* what each unit enumerated so far has come to
    signedIn,           \* localStorage names a user
    whole,              \* IndexedDB holds all of the backup
    place,              \* the page the tab is on; "going" is on its way to /recovery
    doing,              \* what the tab is in the middle of
    restoring,          \* the import under way: its file and what follows the write
    report,             \* the call of the runner that is open
    erred,              \* peers whose report failed in this pass
    late,               \* a call the tab gave up, still on its way
    probedThisSession,  \* the device asked once since it was loaded
    account,            \* what the server says: "complete", "unclaimed" or "ongoing"
    boundTo,            \* the device the account is bound to
    told,               \* what this device reported to the server as it now is
    wipes, others,      \* rebuilds and steps of another device so far
    outlived,           \* units the ledger calls finished that an earlier server was told
    reopened,           \* a claim came after the server had called the account complete
    inPlace             \* the run began without an import

runVars ==
    <<importRun, recoveryRun, workLedger, signedIn, whole, place, doing, restoring, report, erred,
      late, probedThisSession, account, boundTo, told, wipes, others, outlived, reopened, inPlace>>
deviceVars ==
    <<importRun, recoveryRun, workLedger, signedIn, whole, place, doing, restoring, report, erred,
      probedThisSession, inPlace>>

NoUnit == "no_unit"
NoReport == [unit |-> NoUnit, answer |-> "none"]
NotRestoring == [file |-> "none", then |-> "none"]
EmptyLedger == [u \in {} |-> "due"]

With(l, status) == {u \in DOMAIN l : l[u] = status}

RunTypeOK ==
    /\ {importRun, recoveryRun} \subseteq {"none", "started", "completed"}
    /\ DOMAIN workLedger \subseteq Units
    /\ \A u \in DOMAIN workLedger : workLedger[u] \in {"due", "finished", "skipped"}
    /\ {signedIn, whole, probedThisSession, reopened, inPlace} \subseteq BOOLEAN
    /\ place \in {"home", "import", "going", "recovery"}
    /\ doing \in {"idle", "markers", "items", "bind", "ensuring", "running"}
    /\ restoring \in [file : {"none", "plain", "recovered"},
                      then : {"none", "complete", "start", "resume"}]
    /\ report \in [unit : Units \union {NoUnit},
                   answer : {"none", "ok", "refused", "failed", "mismatch"}]
    /\ erred \subseteq HeldPeers
    /\ late \in Units \union {NoUnit}
    /\ account \in {"complete", "unclaimed", "ongoing"}
    /\ boundTo \in {"this", "other", "nobody"}
    /\ told \subseteq Units /\ outlived \subseteq Units
    /\ wipes \in 0 .. MaxWipes /\ others \in 0 .. MaxOthers

\* A device that signed up here.
RunInit ==
    /\ importRun = "none" /\ recoveryRun = "none" /\ workLedger = EmptyLedger
    /\ signedIn = TRUE /\ whole = TRUE /\ place = "home" /\ doing = "idle"
    /\ restoring = NotRestoring /\ report = NoReport /\ erred = {} /\ late = NoUnit
    /\ probedThisSession = FALSE /\ account = "complete" /\ boundTo = "this" /\ told = {}
    /\ wipes = 0 /\ others = 0 /\ outlived = {} /\ reopened = FALSE /\ inPlace = FALSE

------------------------------------------------------------------------------
(* The markers and the gate. *)

InProgress(marker) == marker = "started"
Gated(imported, recovery) == imported = "completed" /\ InProgress(recovery)
IsLoggedIn(user, imported, recovery) ==
    user /\ ~InProgress(imported) /\ ~InProgress(recovery)

\* Variant that must fail: a new run takes the old one's ledger over.
StartRecoveryRun_Kept == recoveryRun' = "started" /\ outlived' = {} /\ UNCHANGED workLedger

\* startRecoveryRun: a marker and an empty ledger.
StartRecoveryRun ==
    recoveryRun' = "started" /\ workLedger' = EmptyLedger /\ outlived' = {}

\* resumeRecoveryRun: the ledger that is there is kept, finished or not.
ResumeRecoveryRun ==
    recoveryRun' = "started" /\ UNCHANGED <<workLedger, outlived>>

ClearRecoveryRun ==
    recoveryRun' = "none" /\ workLedger' = EmptyLedger /\ outlived' = {}

\* importGateRedirect: where a tab is sent that asks for p.
GateRedirect(p) ==
    CASE InProgress(importRun) -> "import"
      [] Gated(importRun, recoveryRun) -> "going"
      [] OTHER -> p

\* GET /users/{id}/status: the account's row, its entry among the unclaimed
\* accounts, and the one among the ongoing recoveries.
UserStatus == account

\* recoveryImportGateMiddleware: nothing else is served until the import ends.
ImportGated == account = "ongoing"

\* bindRecoveryClaimDeviceTx: whatever device was bound gives way.
BindClaimDevice == boundTo' = "this"

\* Where a freshly loaded tab ends up.  A session whose user IndexedDB does not
\* hold is dropped with its import marker (resolveRestoreTarget).
Land ==
    LET signed == IsLoggedIn(signedIn, importRun, recoveryRun) IN
    /\ doing' = "idle" /\ restoring' = NotRestoring /\ erred' = {} /\ probedThisSession' = FALSE
    /\ place' = GateRedirect(IF signed /\ whole THEN "home" ELSE "import")
    /\ signedIn' = (signedIn /\ ~(signed /\ ~whole))
    /\ importRun' = IF signed /\ ~whole THEN "none" ELSE importRun
    /\ UNCHANGED <<recoveryRun, workLedger, whole, inPlace>>

\* The tab is closed or reloaded, whatever it was doing; a call nobody has
\* handled yet may still get there.
Reload ==
    /\ Land
    /\ report' = NoReport
    /\ late' \in IF report.answer = "none" THEN {late, report.unit} ELSE {late}
    /\ UNCHANGED <<account, boundTo, told, wipes, others, outlived, reopened>>

------------------------------------------------------------------------------
(* The import page. *)

\* handleBackupRestore up to startImportRun: what follows is settled by what the
\* server answered and by the recovery marker as it was before the write.
StartImport(file) ==
    /\ place = "import" /\ doing = "idle"
    /\ importRun' = "started" /\ doing' = "markers"
    /\ restoring' = [file |-> file,
                     then |-> IF UserStatus = "complete" THEN "complete"
                              ELSE IF InProgress(recoveryRun) THEN "resume" ELSE "start"]
    /\ IF UserStatus = "complete" /\ InProgress(recoveryRun) THEN ClearRecoveryRun
       ELSE UNCHANGED <<recoveryRun, workLedger, outlived>>
    /\ UNCHANGED <<signedIn, whole, place, report, erred, late, probedThisSession, account,
                   boundTo, told, wipes, others, reopened, inPlace>>

\* writeBackup, localStorage: every key of the file but the device's id.
WriteMarkers ==
    /\ doing = "markers"
    /\ doing' = "items" /\ signedIn' = TRUE
    /\ IF restoring.file = "recovered"
       THEN /\ importRun' = "completed" /\ recoveryRun' = "completed"
            /\ workLedger' = [u \in Units |-> IF u \in Unbuildable \union Refusable
                                              THEN "skipped" ELSE "finished"]
            /\ outlived' = Units \ (Unbuildable \union Refusable)
       ELSE UNCHANGED <<importRun, recoveryRun, workLedger, outlived>>
    /\ UNCHANGED <<whole, place, restoring, report, erred, late, probedThisSession, account,
                   boundTo, told, wipes, others, reopened, inPlace>>

\* writeBackup, IndexedDB, and what the branch does next.
WriteItems ==
    /\ doing = "items"
    /\ whole' = TRUE
    /\ doing' = IF restoring.then = "complete" THEN "bind" ELSE "ensuring"
    /\ CASE restoring.then = "start" -> StartRecoveryRun
         [] restoring.then = "resume" -> ResumeRecoveryRun
         [] OTHER -> UNCHANGED <<recoveryRun, workLedger, outlived>>
    /\ UNCHANGED <<importRun, signedIn, place, restoring, report, erred, late,
                   probedThisSession, account, boundTo, told, wipes, others, reopened, inPlace>>

\* The account is complete here: the device is bound and that is all.
BindDevice ==
    /\ doing = "bind" /\ account # "unclaimed"
    /\ boundTo' = "this" /\ importRun' = "completed"
    /\ ClearRecoveryRun
    /\ doing' = "idle" /\ restoring' = NotRestoring /\ place' = "home" /\ inPlace' = FALSE
    /\ reopened' = (reopened \/ account = "ongoing")
    /\ UNCHANGED <<signedIn, whole, report, erred, late, probedThisSession, account, told,
                   wipes, others>>

\* Binding the device or reading the stores fails, and the flow ends there.
StepFails ==
    /\ doing \in {"bind", "ensuring"}
    /\ doing' = "idle" /\ restoring' = NotRestoring
    /\ UNCHANGED <<importRun, recoveryRun, workLedger, signedIn, whole, place, report, erred, late,
                   probedThisSession, account, boundTo, told, wipes, others, outlived, reopened,
                   inPlace>>

\* cancelImport with something to undo: discardFailedImport.
CancelImport ==
    /\ place = "import" /\ doing = "idle" /\ {importRun, recoveryRun} # {"none"}
    /\ importRun' = "none" /\ signedIn' = FALSE /\ whole' = FALSE /\ inPlace' = FALSE
    /\ ClearRecoveryRun
    /\ UNCHANGED <<place, doing, restoring, report, erred, late, probedThisSession, account,
                   boundTo, told, wipes, others, reopened>>

------------------------------------------------------------------------------
(* A device that is signed in. *)

\* recoverInPlaceIfNeeded.
RecoverInPlace ==
    /\ place = "home" /\ doing = "idle" /\ ~probedThisSession /\ whole
    /\ IsLoggedIn(signedIn, importRun, recoveryRun)
    /\ probedThisSession' = TRUE
    /\ CASE UserStatus = "unclaimed" -> StartRecoveryRun
         [] UserStatus = "ongoing" -> ResumeRecoveryRun
         [] OTHER -> UNCHANGED <<recoveryRun, workLedger, outlived>>
    /\ doing' = IF UserStatus = "complete" THEN "idle" ELSE "ensuring"
    /\ inPlace' = (UserStatus # "complete" \/ inPlace)
    /\ UNCHANGED <<importRun, signedIn, whole, place, restoring, report, erred, late, account,
                   boundTo, told, wipes, others, reopened>>

\* A call answered 403 "finish recovery": handleFinishRecoveryForbidden.
FinishRecoveryForbidden ==
    /\ place = "home" /\ doing = "idle" /\ ImportGated /\ boundTo = "this"
    /\ importRun = "completed" /\ recoveryRun = "none"
    /\ ResumeRecoveryRun
    /\ place' = "going"
    /\ UNCHANGED <<importRun, signedIn, whole, doing, restoring, report, erred, late,
                   probedThisSession, account, boundTo, told, wipes, others, reopened, inPlace>>

\* A call answered 403 "device mismatch": handleDeviceMismatch.
DeviceMismatch ==
    /\ place = "home" /\ doing = "idle" /\ account # "unclaimed" /\ boundTo # "this"
    /\ signedIn' = FALSE /\ place' = "import"
    /\ UNCHANGED <<importRun, recoveryRun, workLedger, whole, doing, restoring, report, erred, late,
                   probedThisSession, account, boundTo, told, wipes, others, outlived, reopened,
                   inPlace>>

------------------------------------------------------------------------------
(* The recovery page and its runner. *)

\* onMount of /recovery.
MountRecovery ==
    LET runs == Gated(importRun, recoveryRun) IN
    /\ place = "going"
    /\ place' = CASE IsLoggedIn(signedIn, importRun, recoveryRun) /\ whole -> "home"
                  [] runs \/ (importRun = "completed" /\ recoveryRun = "completed") -> "recovery"
                  [] OTHER -> "import"
    /\ doing' = IF runs THEN "ensuring" ELSE "idle"
    /\ UNCHANGED <<importRun, recoveryRun, workLedger, signedIn, whole, restoring, report, erred,
                   late, probedThisSession, account, boundTo, told, wipes, others, outlived,
                   reopened, inPlace>>

\* enumerateRecoveryWork: a peer whose keys do not link up is passed over.
Enumerated == [u \in Units |-> IF u \in Unbuildable THEN "skipped" ELSE "due"]

\* mergeRecoveryProgress: what is settled stays so.
Merged(l) ==
    [u \in Units |-> IF u \in DOMAIN l /\ l[u] # "due" THEN l[u] ELSE Enumerated[u]]

\* ensureRecoveryProgress, and what its caller goes on to.
EnsureProgress ==
    /\ doing = "ensuring"
    /\ workLedger' = Merged(workLedger)
    /\ importRun' = IF place = "import" THEN "completed" ELSE importRun
    /\ inPlace' = (inPlace /\ place # "import")
    /\ doing' = IF place = "recovery" THEN "running" ELSE "idle"
    /\ place' = IF place = "recovery" THEN place ELSE "going"
    /\ restoring' = NotRestoring /\ erred' = {}
    /\ UNCHANGED <<recoveryRun, signedIn, whole, report, late, probedThisSession, account,
                   boundTo, told, wipes, others, outlived, reopened>>

Due == With(workLedger, "due") \ erred

\* claimOwnIdentity and reportPeerIdentity need to know who the user is.
ClaimOpens == IF signedIn THEN "none" ELSE "failed"
PeerOpens == IF signedIn THEN "none" ELSE "failed"

\* What a call comes to before anything is sent.
Opens(u) == IF u = Own THEN ClaimOpens ELSE IF u \in HeldPeers THEN PeerOpens ELSE "none"

\* Variant that must fail: the pass goes on to the reeds though a peer failed.
CallNext_Anyway(u) ==
    /\ doing = "running" /\ report = NoReport
    /\ u \in Due /\ \A v \in Due : ~Earlier(v, u)
    /\ report' = [unit |-> u, answer |-> "none"]
    /\ UNCHANGED <<importRun, recoveryRun, workLedger, signedIn, whole, place, doing, restoring,
                   erred, late, probedThisSession, account, boundTo, told, wipes, others,
                   outlived, reopened, inPlace>>

\* The next unit is called for, unless peers that failed end the pass first.
CallNext(u) ==
    /\ doing = "running" /\ report = NoReport
    /\ u \in Due /\ \A v \in Due : ~Earlier(v, u)
    /\ Stage(u) <= 3 \/ erred = {}
    /\ report' = [unit |-> u, answer |-> Opens(u)]
    /\ UNCHANGED <<importRun, recoveryRun, workLedger, signedIn, whole, place, doing, restoring,
                   erred, late, probedThisSession, account, boundTo, told, wipes, others,
                   outlived, reopened, inPlace>>

PassEnds ==
    /\ doing = "running" /\ report = NoReport
    /\ Due = {} \/ (erred # {} /\ \A u \in Due : Stage(u) > 3)
    /\ doing' = "idle"
    /\ UNCHANGED <<importRun, recoveryRun, workLedger, signedIn, whole, place, restoring, report,
                   erred, late, probedThisSession, account, boundTo, told, wipes, others,
                   outlived, reopened, inPlace>>

Retry ==
    /\ place = "recovery" /\ doing = "idle" /\ InProgress(recoveryRun)
    /\ doing' = "running" /\ erred' = {}
    /\ UNCHANGED <<importRun, recoveryRun, workLedger, signedIn, whole, place, restoring, report,
                   late, probedThisSession, account, boundTo, told, wipes, others, outlived,
                   reopened, inPlace>>

\* A unit is settled; the last one completes the run in the same task.
Settle(u, status) ==
    /\ workLedger' = [workLedger EXCEPT ![u] = status]
    /\ recoveryRun' = IF u = "complete" THEN "completed" ELSE recoveryRun
    /\ doing' = IF u = "complete" THEN "idle" ELSE doing
    /\ UNCHANGED <<erred, signedIn>>

\* A peer that failed is left for the next pass, anything else ends this one; a
\* 403 for the device signs it out as well.
Fail(u, mismatch) ==
    /\ erred' = erred \union ({u} \intersect HeldPeers)
    /\ doing' = IF u \in HeldPeers THEN doing ELSE "idle"
    /\ signedIn' = (signedIn /\ ~mismatch)
    /\ UNCHANGED <<workLedger, recoveryRun>>

Answered ==
    LET u == report.unit IN
    /\ report.answer # "none"
    /\ CASE report.answer = "ok" -> Settle(u, "finished")
         [] report.answer = "refused" /\ u \in HeldPeers \union HeldReeds -> Settle(u, "skipped")
         [] OTHER -> Fail(u, report.answer = "mismatch")
    /\ report' = NoReport
    /\ UNCHANGED <<importRun, whole, place, restoring, late, probedThisSession, account, boundTo,
                   told, wipes, others, outlived, reopened, inPlace>>

\* The network gives the call up, handled or not.
AnswerLost ==
    /\ report # NoReport /\ report.answer \in {"none", "ok"}
    /\ Fail(report.unit, FALSE)
    /\ report' = NoReport
    /\ late' \in IF report.answer = "none" THEN {late, report.unit} ELSE {late}
    /\ UNCHANGED <<importRun, whole, place, restoring, probedThisSession, account, boundTo, told,
                   wipes, others, outlived, reopened, inPlace>>

------------------------------------------------------------------------------
(* The server. *)

\* The answer a report gets: nobody is known by a key before the claim, and a
\* device the account is not bound to is turned away.
Turned == CASE account = "unclaimed" -> "failed"
            [] boundTo # "this" -> "mismatch"
            [] OTHER -> "ok"

\* ClaimIdentity: from any state, whatever the account has come to.
HandleClaim(u) ==
    /\ u = Own
    /\ told' = told \union {u} /\ account' = "ongoing" /\ BindClaimDevice
    /\ reopened' = (reopened \/ account = "complete")

\* ReportServers, ReportPeerIdentity, ReportReed, ReportRecords and ReportPins.
HandleUnit(u) ==
    /\ u \notin {Own, "complete"}
    /\ told' = IF Turned = "ok" /\ u \notin Refusable THEN told \union {u} ELSE told
    /\ UNCHANGED <<account, boundTo, reopened>>

\* CompleteImport.
HandleComplete(u) ==
    /\ u = "complete"
    /\ told' = IF Turned = "ok" THEN told \union {u} ELSE told
    /\ account' = IF Turned = "ok" THEN "complete" ELSE account
    /\ UNCHANGED <<boundTo, reopened>>

Handle(u) == HandleClaim(u) \/ HandleUnit(u) \/ HandleComplete(u)

AnswerTo(u) ==
    CASE u = Own -> "ok"
      [] Turned = "ok" /\ u \in Refusable -> "refused"
      [] OTHER -> Turned

HandleReport ==
    /\ report # NoReport /\ report.answer = "none"
    /\ Handle(report.unit)
    /\ report' = [report EXCEPT !.answer = AnswerTo(report.unit)]
    /\ UNCHANGED <<importRun, recoveryRun, workLedger, signedIn, whole, place, doing, restoring,
                   erred, late, probedThisSession, wipes, others, outlived, inPlace>>

\* A call the tab no longer waits for is handled after all.
HandleLate ==
    /\ late # NoUnit
    /\ Handle(late)
    /\ late' = NoUnit
    /\ UNCHANGED <<deviceVars, wipes, others, outlived>>

\* The account's other device restores it: a claim, or a bind when it is complete.
OtherClaims ==
    /\ others < MaxOthers
    /\ others' = others + 1 /\ boundTo' = "other"
    /\ account' \in IF account = "complete" THEN {"complete", "ongoing"} ELSE {"ongoing"}
    /\ reopened' = (reopened \/ (account = "complete" /\ account' = "ongoing"))
    /\ UNCHANGED <<deviceVars, late, told, wipes, outlived>>

OtherCompletes ==
    /\ account = "ongoing" /\ boundTo = "other"
    /\ account' = "complete"
    /\ UNCHANGED <<deviceVars, late, boundTo, told, wipes, others, outlived, reopened>>

\* The operator starts over with an empty database.
Rebuild ==
    /\ wipes < MaxWipes
    /\ wipes' = wipes + 1
    /\ account' = "unclaimed" /\ boundTo' = "nobody" /\ told' = {} /\ late' = NoUnit
    /\ outlived' = outlived \union With(workLedger, "finished")
                   \union (IF report.answer = "ok" THEN {report.unit} ELSE {})
    /\ reopened' = FALSE
    /\ UNCHANGED <<deviceVars, others>>

RunNext ==
    \/ Reload
    \/ \E file \in {"plain", "recovered"} : StartImport(file)
    \/ WriteMarkers \/ WriteItems \/ BindDevice \/ StepFails \/ CancelImport
    \/ RecoverInPlace \/ FinishRecoveryForbidden \/ DeviceMismatch
    \/ MountRecovery \/ EnsureProgress
    \/ \E u \in Units : CallNext(u)
    \/ PassEnds \/ Retry \/ Answered \/ AnswerLost
    \/ HandleReport \/ HandleLate \/ OtherClaims \/ OtherCompletes \/ Rebuild

RunSpec == RunInit /\ [][RunNext]_runVars

------------------------------------------------------------------------------
(* Properties. *)

\* A unit the ledger calls finished was told to the server as it is now, unless
\* the server was rebuilt since or the ledger came out of a backup.
LedgerIsTrue == With(workLedger, "finished") \subseteq told \union outlived

\* A server never hears of a unit before those it depends on: a reed is reported
\* after its author, the end after everything, save what cannot be reported.
ReportedInOrder ==
    \A u \in told, v \in Units :
        Earlier(v, u) => v \in told \union Unbuildable \union Refusable

\* A run that is open has something left to do, unless it was resumed on a
\* ledger an earlier server finished or a claim came in late.
OpenRunHasWork ==
    InProgress(recoveryRun) /\ DOMAIN workLedger # {} /\ With(workLedger, "due") = {}
        => outlived # {} \/ reopened

\* The gates agree: a device the server holds back because its recovery is
\* going on knows that it is, unless a claim came in after the account was complete.
GatesAgree ==
    IsLoggedIn(signedIn, importRun, recoveryRun) /\ account = "ongoing" /\ boundTo = "this"
        => reopened

\* A run that no import leads to, and so no page carries on, began in place.
NoWayOnOnlyInPlace == InProgress(recoveryRun) /\ importRun = "none" => inPlace

\* Half a backup never passes for an account.
HalfIsNoAccount == place = "home" => whole

\* A device's restore and recovery: the ledger, the order of the reports, and
\* the two gates.
RecoveryHolds ==
    /\ LedgerIsTrue
    /\ ReportedInOrder
    /\ OpenRunHasWork
    /\ GatesAgree
    /\ NoWayOnOnlyInPlace
    /\ HalfIsNoAccount
=============================================================================
