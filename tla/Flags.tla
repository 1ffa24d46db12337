------------------------------- MODULE Flags -------------------------------
(***************************************************************************)
(* The flags on one reed and the cases they are grouped in: a flag joins   *)
(* the reed's open case or opens one, withdrawing the last open flag voids *)
(* the case, an admin dismisses or, much later, deletes it, the removal of *)
(* a reporter takes their flags out of open cases, and after the loss of   *)
(* the database copies of flags come back (flags.go; settleAccountRemovalTx*)
(* of services.go; restoreFlagTx of recovery_records.go).                  *)
(*                                                                         *)
(* A transaction that stores a flag locks its case.  One that withdraws or *)
(* removes flags does not: it decides in one statement what becomes of the *)
(* case, from the flags that were committed when the statement began, and  *)
(* may then wait for whoever has locked the case.                          *)
(***************************************************************************)
EXTENDS Naturals, FiniteSets

CONSTANTS
    Reporters,      \* members who flag, here or at a peer (model values)
    MaxCases,       \* BOUND: cases, numbered as they are opened
    FlagWorkers,    \* BOUND: transactions under way at once
    Copies          \* BOUND: copies of flags that come back: [reporter, case, withdrawn, dismissed]

Cases == 1 .. MaxCases

ASSUME FlagsAssumption ==
    /\ MaxCases \in Nat
    /\ Copies \subseteq [reporter : Reporters, case : Cases, withdrawn : BOOLEAN, dismissed : BOOLEAN]

CaseRow == [state : {"none", "open", "dismissed", "void", "deleted"}, restored : BOOLEAN]
FlagRow == [case : Cases \cup {0}, withdrawn : BOOLEAN]
NoFlag == [case |-> 0, withdrawn |-> FALSE]
NoFlagJob == [step |-> "idle"]

VARIABLES
    caseRow,    \* flag_cases of the reed
    flagRow,    \* reed_flags of the reed, one row a reporter
    removed,    \* account_removals
    lockdown,   \* RECOVERY_MODE=lockdown, as after a loss; an ordinary server has left it
    flagJob,    \* transactions that have not committed
    taken,      \* history: the case of the flag a reporter was told is stored, 0 if not
    tangled     \* history: cases a transaction closed, left or deleted on what was no longer so

flagVars == <<caseRow, flagRow, removed, lockdown, flagJob, taken, tangled>>

FlagsInit ==
    /\ caseRow = [c \in Cases |-> [state |-> "none", restored |-> FALSE]]
    /\ flagRow = [r \in Reporters |-> NoFlag]
    /\ removed = {}
    /\ lockdown = TRUE
    /\ flagJob = [w \in FlagWorkers |-> NoFlagJob]
    /\ taken = [r \in Reporters |-> 0]
    /\ tangled = {}

----------------------------------------------------------------------------
Flagged(c) == {r \in Reporters : flagRow[r].case = c}
OpenIn(c) == {r \in Flagged(c) : ~flagRow[r].withdrawn}
CaseOpen(c) == caseRow[c].state = "open"

\* The case StoreFlag joins: open, and not brought back by recovery.
Joinable(c) == CaseOpen(c) /\ ~caseRow[c].restored

\* Restored, and the server is still in lockdown.
CaseFrozen(c) == caseRow[c].restored /\ lockdown

\* Who holds a case's row: a flag that joins it, and whoever got to update or
\* delete it.
HoldsCase(w, c) ==
    /\ flagJob[w] # NoFlagJob /\ flagJob[w].case = c
    /\ \/ flagJob[w].step = "flagging" /\ ~flagJob[w].opens
       \/ flagJob[w].step \in {"withdrawing", "settling"} /\ flagJob[w].update = "locked"
CaseFree(c) == \A w \in FlagWorkers : ~HoldsCase(w, c)

\* A withdrawal or a removal has locked or deleted the flag's row.
FlagFree(r) ==
    \A w \in FlagWorkers : flagJob[w].step \in {"withdrawing", "settling"} => flagJob[w].reporter # r

\* What a statement sees of a case but for r's flag.
Seen(c, r) == <<caseRow[c].state, Flagged(c) \ {r}, OpenIn(c) \ {r}>>
Stale(w) == flagJob[w].seen # Seen(flagJob[w].case, flagJob[w].reporter)

\* Variant that must fail: the other flags of the case are not looked at.
Finished_Always(c, r) == TRUE
\* voidCaseIfDoneTx's condition: every flag of the case is withdrawn, r's to be.
Finished(c, r) == OpenIn(c) \subseteq {r}

\* How an update of the case goes: its row is locked at once or waited for.
Reach(c) == IF CaseFree(c) THEN "locked" ELSE "waiting"
Reached(w) == flagJob[w].update = "waiting" => CaseFree(flagJob[w].case)

Void(rows, c) == IF rows[c].state = "open" THEN [rows EXCEPT ![c].state = "void"] ELSE rows
FlagJobDone(w) == flagJob' = [flagJob EXCEPT ![w] = NoFlagJob]

----------------------------------------------------------------------------
(* Flagging.                                                               *)

\* Variant that must fail: the case a flag joins is read and not locked.
JoinsFree_Unlocked(c) == TRUE
\* openCaseTx: FOR UPDATE waits for whoever holds the case.
JoinsFree(c) == CaseFree(c)

\* A second opener waits for the first one's commit, on the unique index.
FirstToFlag == \A w \in FlagWorkers : flagJob[w].step # "flagging"

\* FlagReed, FlagFromPeer: StoreFlag up to its commit, in the open case.
FlagJoins(w, r, c) ==
    /\ flagJob[w] = NoFlagJob /\ FirstToFlag
    /\ r \notin removed /\ flagRow[r] = NoFlag
    /\ Joinable(c) /\ JoinsFree(c)
    /\ flagJob' = [flagJob EXCEPT ![w] =
            [step |-> "flagging", reporter |-> r, case |-> c, opens |-> FALSE]]
    /\ UNCHANGED <<caseRow, flagRow, removed, lockdown, taken, tangled>>

\* The same with no open case: a new id, whose row nobody else sees yet.
FlagOpens(w, r, c) ==
    /\ flagJob[w] = NoFlagJob /\ FirstToFlag
    /\ r \notin removed /\ flagRow[r] = NoFlag
    /\ \A d \in Cases : ~Joinable(d)
    /\ caseRow[c].state = "none" /\ \A d \in 1 .. c - 1 : caseRow[d].state # "none"
    /\ \A p \in Copies : p.case # c
    /\ flagJob' = [flagJob EXCEPT ![w] =
            [step |-> "flagging", reporter |-> r, case |-> c, opens |-> TRUE]]
    /\ UNCHANGED <<caseRow, flagRow, removed, lockdown, taken, tangled>>

\* It commits and the reporter gets the flag back countersigned.
FlagStored(w) ==
    LET r == flagJob[w].reporter  c == flagJob[w].case IN
    /\ flagJob[w].step = "flagging"
    /\ flagRow[r] = NoFlag
    /\ caseRow' = IF flagJob[w].opens THEN [caseRow EXCEPT ![c].state = "open"] ELSE caseRow
    /\ flagRow' = [flagRow EXCEPT ![r] = [case |-> c, withdrawn |-> FALSE]]
    /\ taken' = [taken EXCEPT ![r] = c]
    /\ tangled' = IF r \in removed THEN tangled \cup {c} ELSE tangled
    /\ FlagJobDone(w)
    /\ UNCHANGED <<removed, lockdown>>

----------------------------------------------------------------------------
(* Withdrawing.                                                            *)

\* WithdrawOwnFlag, FlagWithdrawalFromPeer: WithdrawFlag locks the flag's row,
\* reads the case without locking it, and decides whether it voids it.
WithdrawFlag(w, r) ==
    LET c == flagRow[r].case IN
    /\ flagJob[w] = NoFlagJob
    /\ r \notin removed /\ c # 0 /\ ~flagRow[r].withdrawn /\ FlagFree(r)
    /\ caseRow[c].state # "dismissed" /\ ~CaseFrozen(c)
    /\ flagJob' = [flagJob EXCEPT ![w] =
            [step |-> "withdrawing", reporter |-> r, case |-> c, seen |-> Seen(c, r),
             update |-> IF CaseOpen(c) /\ Finished(c, r) THEN Reach(c) ELSE "left"]]
    /\ UNCHANGED <<caseRow, flagRow, removed, lockdown, taken, tangled>>

\* The update that waited asks again whether the case is open, and nothing else.
WithdrawalStored(w) ==
    LET r == flagJob[w].reporter  c == flagJob[w].case IN
    /\ flagJob[w].step = "withdrawing"
    /\ Reached(w)
    /\ flagRow' = [flagRow EXCEPT ![r].withdrawn = TRUE]
    /\ caseRow' = IF flagJob[w].update = "left" THEN caseRow ELSE Void(caseRow, c)
    /\ tangled' = IF Stale(w) THEN tangled \cup {c} ELSE tangled
    /\ FlagJobDone(w)
    /\ UNCHANGED <<removed, lockdown, taken>>

----------------------------------------------------------------------------
(* Admins.                                                                 *)

\* DismissCase: one update, of a case that is still open.
DismissCase(c) ==
    /\ CaseOpen(c) /\ ~CaseFrozen(c)
    /\ CaseFree(c)
    /\ caseRow' = [caseRow EXCEPT ![c].state = "dismissed"]
    /\ UNCHANGED <<flagRow, removed, lockdown, flagJob, taken, tangled>>

\* DeleteFlagCase, half a year after it was closed: its flags go with it.
DeleteFlagCase(c) ==
    /\ caseRow[c].state \in {"dismissed", "void"}
    /\ CaseFree(c) /\ \A r \in Flagged(c) : FlagFree(r)
    /\ caseRow' = [caseRow EXCEPT ![c].state = "deleted"]
    /\ flagRow' = [r \in Reporters |-> IF r \in Flagged(c) THEN NoFlag ELSE flagRow[r]]
    /\ taken' = [r \in Reporters |-> IF taken[r] = c THEN 0 ELSE taken[r]]
    /\ UNCHANGED <<removed, lockdown, flagJob, tangled>>

----------------------------------------------------------------------------
(* Reporters who leave.                                                    *)

\* An account removal that finds no flag in an open case.
LeavesUnsettled(r) ==
    /\ r \notin removed /\ FlagFree(r)
    /\ flagRow[r] # NoFlag => ~CaseOpen(flagRow[r].case)
    /\ removed' = removed \cup {r}
    /\ UNCHANGED <<caseRow, flagRow, lockdown, flagJob, taken, tangled>>

\* settleAccountRemovalTx deletes the flag and then decides on the case it was
\* in: empty, it goes; with withdrawn flags only, it is void.
SettleRemoval(w, r) ==
    LET c == flagRow[r].case IN
    /\ flagJob[w] = NoFlagJob
    /\ r \notin removed /\ c # 0 /\ FlagFree(r) /\ CaseOpen(c)
    /\ flagJob' = [flagJob EXCEPT ![w] =
            [step |-> "settling", reporter |-> r, case |-> c, seen |-> Seen(c, r),
             empty |-> Flagged(c) = {r},
             update |-> IF Finished(c, r) THEN Reach(c) ELSE "left"]]
    /\ UNCHANGED <<caseRow, flagRow, removed, lockdown, taken, tangled>>

\* A case that goes takes along what was stored in it meanwhile: ON DELETE CASCADE.
RemovalSettled(w) ==
    LET r == flagJob[w].reporter  c == flagJob[w].case
        goes == flagJob[w].update # "left" /\ flagJob[w].empty
    IN
    /\ flagJob[w].step = "settling"
    /\ Reached(w) /\ (goes => \A q \in Flagged(c) \ {r} : FlagFree(q))
    /\ removed' = removed \cup {r}
    /\ flagRow' = [q \in Reporters |-> IF q = r \/ (goes /\ q \in Flagged(c)) THEN NoFlag ELSE flagRow[q]]
    /\ caseRow' = IF goes THEN [caseRow EXCEPT ![c].state = "deleted"]
                  ELSE IF flagJob[w].update = "left" THEN caseRow ELSE Void(caseRow, c)
    /\ taken' = [taken EXCEPT ![r] = 0]
    /\ tangled' = IF Stale(w) THEN tangled \cup {c} ELSE tangled
    /\ FlagJobDone(w)
    /\ UNCHANGED lockdown

\* Any of these transactions fails and is rolled back.
FlagJobFails(w) ==
    /\ flagJob[w] # NoFlagJob
    /\ FlagJobDone(w)
    /\ UNCHANGED <<caseRow, flagRow, removed, lockdown, taken, tangled>>

----------------------------------------------------------------------------
(* Recovery.                                                               *)

\* The last statement of restoreFlagTx.
Reopened(row) == IF row.state = "dismissed" THEN row ELSE [row EXCEPT !.state = "open"]

\* The case of a copy once its row is there and its dismissal written, which
\* outranks a void.
Brought(p) ==
    LET row == caseRow[p.case] IN
    IF p.dismissed THEN [row EXCEPT !.state = "dismissed", !.restored = @ \/ row.state \in {"none", "deleted"}]
    ELSE IF row.state \in {"none", "deleted"} THEN [state |-> "open", restored |-> TRUE]
    ELSE row

\* restoreFlagTx, in lockdown: a withdrawn copy of a dismissed case's flag is
\* refused, and a removed reporter's flag is dropped unless it was dismissed.
RestoreFlag(p) ==
    LET r == p.reporter  c == p.case  held == flagRow[r]
        row == Brought(p)
        rows == [caseRow EXCEPT ![c] = row]
        at == IF held = NoFlag THEN c ELSE held.case
        others == {q \in Reporters \ {r} : flagRow[q].case = at /\ ~flagRow[q].withdrawn}
    IN
    /\ lockdown
    /\ CaseFree(c) /\ CaseFree(at) /\ FlagFree(r) /\ FirstToFlag
    /\ p.withdrawn => row.state # "dismissed"
    /\ r \in removed => row.state = "dismissed"
    /\ flagRow' = [flagRow EXCEPT ![r] = [case |-> at, withdrawn |-> held.withdrawn \/ p.withdrawn]]
    /\ caseRow' = IF p.withdrawn /\ ~held.withdrawn
                  THEN IF others = {} THEN Void(rows, at) ELSE rows
                  ELSE IF held = NoFlag THEN [rows EXCEPT ![c] = Reopened(row)] ELSE rows
    /\ tangled' = IF at # c THEN tangled \cup {at, c} ELSE tangled
    /\ UNCHANGED <<removed, lockdown, flagJob, taken>>

\* The operator restarts the server in another mode.
EndLockdown ==
    /\ lockdown
    /\ lockdown' = FALSE
    /\ flagJob' = [w \in FlagWorkers |-> NoFlagJob]
    /\ UNCHANGED <<caseRow, flagRow, removed, taken, tangled>>

FlagsNext ==
    \/ \E w \in FlagWorkers :
        \/ \E r \in Reporters :
            \/ WithdrawFlag(w, r) \/ SettleRemoval(w, r)
            \/ \E c \in Cases : FlagJoins(w, r, c) \/ FlagOpens(w, r, c)
        \/ FlagStored(w) \/ WithdrawalStored(w) \/ RemovalSettled(w) \/ FlagJobFails(w)
    \/ \E c \in Cases : DismissCase(c) \/ DeleteFlagCase(c)
    \/ \E r \in Reporters : LeavesUnsettled(r)
    \/ \E p \in Copies : RestoreFlag(p)
    \/ EndLockdown

FlagsSpec == FlagsInit /\ [][FlagsNext]_flagVars

----------------------------------------------------------------------------
\* Rows and transactions keep their shape.
FlagsTypeOK ==
    /\ caseRow \in [Cases -> CaseRow]
    /\ flagRow \in [Reporters -> FlagRow]
    /\ removed \subseteq Reporters
    /\ lockdown \in BOOLEAN
    /\ \A w \in FlagWorkers : flagJob[w] # NoFlagJob =>
        /\ flagJob[w].step \in {"flagging", "withdrawing", "settling"}
        /\ flagJob[w].reporter \in Reporters /\ flagJob[w].case \in Cases
    /\ taken \in [Reporters -> Cases \cup {0}]
    /\ tangled \subseteq Cases

\* A case is void exactly when its flags are all withdrawn, an open one has an
\* open flag and none of a removed account, and a flag its reporter was told is
\* stored is in its case until that is deleted: unless a statement decided on
\* flags that had changed when it took effect (voidCaseIfDoneTx,
\* settleAccountRemovalTx), or an account flagged while it was removed.
CasesAddUpUnlessTangled ==
    \A c \in Cases \ tangled :
        /\ CaseOpen(c) => OpenIn(c) # {} /\ OpenIn(c) \cap removed = {}
        /\ caseRow[c].state = "void" => Flagged(c) # {} /\ OpenIn(c) = {}
        /\ \A r \in Reporters : taken[r] = c => flagRow[r].case = c

\* "A dismissed or void case never reopens and never takes a flag"
\* (specs/admin_actions/14_flag_cases.md), recovery excepted: whatever a flag
\* had read of the case before.
ClosedForGood ==
    [][~lockdown => \A c \in Cases :
         caseRow[c].state \in {"dismissed", "void"} =>
            /\ caseRow'[c].state \in {caseRow[c].state, "deleted"}
            /\ \A r \in Reporters : flagRow'[r].case = c => flagRow[r].case = c]_flagVars
=============================================================================
