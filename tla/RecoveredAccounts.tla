------------------------- MODULE RecoveredAccounts -------------------------
(***************************************************************************)
(* Accounts brought back after the database was lost: devices claim their  *)
(* own profile and report the ones they hold of others, in any order and   *)
(* at the same time, while the server is already in use (handlers.go       *)
(* ClaimIdentity, ReportPeerIdentity; services.go saveOwnIdentity,         *)
(* savePeerIdentity, upsertRecoveryIdentity, takeRecoveryUserID,           *)
(* claimRecoveryUsername, returnCollidedUsernames; recovery_records.go     *)
(* applyRestoredUserStateTx; Signup, UpdateUser, storeAccountRemovalTx).   *)
(*                                                                         *)
(* A save reads when the profile on record was signed, in the statement    *)
(* that locks the identity's row: one that had to wait for that lock goes  *)
(* on with what it read before.                                            *)
(***************************************************************************)
EXTENDS Naturals, FiniteSets

CONSTANTS
    UserIDs,        \* local user ids
    Saved,          \* the signed profiles devices hold: [id, key, name, at, since]
    Joins,          \* the profiles of those who sign up meanwhile, likewise
    FirstBoot,      \* first_boot_at of this database
    Moment,         \* BOUND: the second in which every profile update is signed
    Savers,         \* BOUND: saves under way at once
    Claimants,      \* BOUND: who claims their own account
    Editors,        \* BOUND: who updates their profile
    Removable         \* BOUND: who is removed

Usernames == {p.name : p \in Saved \cup Joins}
\* flattenKeysNest: a chain of keys, each handed on to the next, stands for one account.
KeyNests == {p.key : p \in Saved \cup Joins}

ASSUME RecoveredAssumption ==
    /\ IsFiniteSet(UserIDs)
    /\ FirstBoot \in Nat /\ Moment \in Nat /\ Moment >= FirstBoot
    /\ \A p \in Saved \cup Joins :
        p.id \in UserIDs /\ p.at \in 1 .. Moment /\ p.since \in 1 .. p.at
    /\ \A p \in Joins : p.since >= FirstBoot
    /\ "none" \notin Usernames

VARIABLES
    userRow,        \* users: absent, or [key, name, at, says, since]; at is 0
                    \* once removed, says the name in the signed profile
    collision,      \* username_collisions, by loser: absent or [name, winner]
    leftIds,        \* account_removals
    unclaimed,      \* unclaimed_accounts
    ongoing,        \* ongoing_recoveries
    activeUsers,    \* network_stats.active_users
    saving,         \* saves that have read and not committed
    newest,         \* history: the newest profile taken for an account
    stale,          \* history: accounts saved over something unread
    freed,          \* history: names given up otherwise than to a better
                    \* claim, or held by a profile since signed anew
    orphaned        \* history: accounts whose collision went with its winner

recoveredVars == <<userRow, collision, leftIds, unclaimed, ongoing, activeUsers, saving,
                   newest, stale, freed, orphaned>>

NoUser == [key |-> "none"]
NoCollision == [winner |-> "none"]
NotSaving == [step |-> "idle"]

OnRecord(id) == userRow[id] # NoUser
Has(us, id) == us[id] # NoUser /\ us[id].at > 0

RecoveredInit ==
    /\ userRow = [id \in UserIDs |-> NoUser]
    /\ collision = [id \in UserIDs |-> NoCollision]
    /\ leftIds = {} /\ unclaimed = {} /\ ongoing = {}
    /\ activeUsers = 0
    /\ saving = [w \in Savers |-> NotSaving]
    /\ newest = [id \in UserIDs |-> 0]
    /\ stale = {} /\ freed = {} /\ orphaned = {}

----------------------------------------------------------------------------
(* Names.                                                                  *)

\* Variant that must fail: the newest profile wins, whenever it was signed.
Outranks_Newest(a, b) == a > b
\* A profile signed before first_boot_at beats one after; else the newest wins.
Outranks(a, b) ==
    LET before(t) == t < FirstBoot IN
    (before(a) /\ ~before(b)) \/ (before(a) = before(b) /\ a > b)

HoldersOf(us, name, id) == {h \in UserIDs \ {id} : Has(us, h) /\ us[h].name = name}

\* Variant that must fail: the name is taken and nothing recorded.
Lose_Unrecorded(co, loser, name, winner) == co
\* recordUsernameCollision.
Lose(co, loser, name, winner) == [co EXCEPT ![loser] = [name |-> name, winner |-> winner]]

\* claimRecoveryUsername: the name id ends with, the rows and the collisions.
ClaimName(us, co, id, name, at) ==
    IF HoldersOf(us, name, id) = {}
    THEN [name |-> name, rows |-> us, lost |-> [co EXCEPT ![id] = NoCollision]]
    ELSE LET h == CHOOSE h \in HoldersOf(us, name, id) : TRUE IN
         IF Outranks(at, us[h].at)
         THEN [name |-> name, rows |-> [us EXCEPT ![h].name = "none"],
               lost |-> [Lose(co, h, name, id) EXCEPT ![id] = NoCollision]]
         ELSE [name |-> "none", rows |-> us, lost |-> Lose(co, id, name, h)]

\* The losers to id of a name that nobody else holds, none of them with a newer profile.
InLine(us, co, id) ==
    {u \in UserIDs \ {id} :
        /\ Has(us, u) /\ co[u] # NoCollision /\ co[u].winner = id
        /\ HoldersOf(us, co[u].name, id) = {}
        /\ \A v \in UserIDs : Has(us, v) /\ co[v] = co[u] => us[v].at <= us[u].at}

\* returnCollidedUsernames: whose names come back, one loser of each name.
ReturnedTo(us, co, id) ==
    {back \in SUBSET InLine(us, co, id) :
        /\ \A u \in InLine(us, co, id) : \E v \in back : co[v] = co[u]
        /\ \A u, v \in back : co[u] = co[v] => u = v}

Returned(us, co, back) ==
    [u \in UserIDs |-> IF u \in back THEN [us[u] EXCEPT !.name = co[u].name] ELSE us[u]]

\* What goes with an identities row: ON DELETE CASCADE.
Cascaded(co, id) ==
    [u \in UserIDs |-> IF u = id \/ co[u].winner = id THEN NoCollision ELSE co[u]]

----------------------------------------------------------------------------
(* Saves.                                                                  *)

\* upsertRecoveryIdentity reads when the profile on record was signed.
SaveReads(w, p, own) ==
    /\ saving[w] = NotSaving
    /\ saving' = [saving EXCEPT ![w] =
            [step |-> "read", profile |-> p, own |-> own,
             was |-> IF OnRecord(p.id) THEN userRow[p.id].key ELSE "none",
             seen |-> IF OnRecord(p.id) THEN userRow[p.id].at ELSE 0]]
    /\ UNCHANGED <<userRow, collision, leftIds, unclaimed, ongoing, activeUsers, newest, stale,
                   freed, orphaned>>

\* An account's own claim; refused once it is removed.
ClaimIdentity(w, p) == p.id \in Claimants \ leftIds /\ SaveReads(w, p, TRUE)

\* An account another one knows, a removed one too.
ReportPeerIdentity(w, p) == SaveReads(w, p, FALSE)

\* The row a save read is still that account's.
SameRow(j) == OnRecord(j.profile.id) /\ userRow[j.profile.id].key = j.was

\* Variant that must fail: whatever is reported is written.
SignedLater_Any(p, seen) == TRUE
\* updateRecoveryUserIfNewer.
SignedLater(p, seen) == p.at > seen

\* applyRestoredUserStateTx, as far as a removal goes, with the removals on record.
Settle(us, id, removed) ==
    IF id \in removed /\ Has(us, id)
    THEN [us EXCEPT ![id].name = "none", ![id].at = 0] ELSE us

Less(n) == IF n = 0 THEN 0 ELSE n - 1

\* What saveOwnIdentity and savePeerIdentity add once the account is written: an
\* account created on the word of another is unclaimed, a removed one too.
Claimed(j, created) ==
    LET id == j.profile.id IN
    /\ unclaimed' =
        IF ~j.own /\ created THEN unclaimed \cup {id}
        ELSE IF j.own \/ id \in leftIds THEN unclaimed \ {id} ELSE unclaimed
    /\ ongoing' = IF j.own THEN ongoing \cup {id} ELSE ongoing

\* insertRecoveryUser and what follows, from rows us, collisions co, count n and
\* the removals on record.
Insert(j, us, co, n, removed) ==
    LET p == j.profile
        c == ClaimName(us, co, p.id, p.name, p.at)
        rows == [c.rows EXCEPT ![p.id] =
                    [key |-> p.key, name |-> c.name, at |-> p.at, says |-> p.name, since |-> p.since]]
    IN
    /\ userRow' = Settle(rows, p.id, removed)
    /\ collision' = c.lost
    /\ activeUsers' = IF p.id \in removed THEN n ELSE n + 1
    /\ newest' = [newest EXCEPT ![p.id] = p.at]

\* A removed account's restored name is dropped again.
GivenUp(j) == IF j.profile.id \in leftIds THEN {j.profile.name} ELSE {}

SaveDone(w) ==
    saving' = [saving EXCEPT ![w] = NotSaving]

\* No account on record under the id: one is created.
SaveCreates(w) ==
    LET j == saving[w] IN
    /\ j # NotSaving
    /\ ~OnRecord(j.profile.id)
    /\ Insert(j, userRow, collision, activeUsers, leftIds)
    /\ freed' = freed \cup GivenUp(j)
    /\ Claimed(j, TRUE)
    /\ SaveDone(w)
    /\ UNCHANGED <<leftIds, stale, orphaned>>

\* The account was removed: it stays without a profile.
SaveRemoved(w) ==
    LET j == saving[w] IN
    /\ j # NotSaving
    /\ SameRow(j) /\ j.seen = 0
    /\ Claimed(j, FALSE)
    /\ SaveDone(w)
    /\ UNCHANGED <<userRow, collision, leftIds, activeUsers, newest, stale, freed, orphaned>>

\* The same account: its profile is written when newer than the one read.
SaveUpdates(w) ==
    LET j == saving[w]
        p == j.profile
        id == p.id
        c == ClaimName(userRow, collision, id, p.name, p.at)
        written == [c.rows EXCEPT ![id].name = c.name, ![id].at = p.at, ![id].says = p.name]
    IN
    /\ j # NotSaving
    /\ SameRow(j) /\ j.seen > 0 /\ j.was = p.key
    /\ IF SignedLater(p, j.seen)
       THEN /\ userRow' = Settle(written, id, leftIds)
            /\ collision' = c.lost
            /\ activeUsers' = IF id \in leftIds THEN Less(activeUsers) ELSE activeUsers
            /\ freed' = freed \cup {userRow[id].name} \cup GivenUp(j)
       ELSE UNCHANGED <<userRow, collision, activeUsers, freed>>
    /\ newest' = [newest EXCEPT ![id] = IF p.at > @ THEN p.at ELSE @]
    /\ stale' = IF userRow[id].at # j.seen THEN stale \cup {id} ELSE stale
    /\ Claimed(j, FALSE)
    /\ SaveDone(w)
    /\ UNCHANGED <<leftIds, orphaned>>

\* Variant that must fail: the account deleted stays counted.
Replaced_StillCounted(n) == n
\* bumpActiveUsers of takeRecoveryUserID.
Replaced(n) == Less(n)

\* Another account, which signed up after the database was lost, has the id:
\* it is deleted, with its removal if it has left, and the recovered one takes
\* its place.
SaveReplaces(w) ==
    LET j == saving[w]
        id == j.profile.id
        co == Cascaded(collision, id)
    IN
    /\ j # NotSaving
    /\ SameRow(j) /\ j.seen > 0 /\ j.was # j.profile.key
    /\ userRow[id].since >= FirstBoot
    /\ \E back \in ReturnedTo(userRow, collision, id) :
       LET rows == [Returned(userRow, collision, back) EXCEPT ![id] = NoUser] IN
       /\ Insert(j, rows, co, Replaced(activeUsers), leftIds \ {id})
       /\ orphaned' = orphaned \cup
            {u \in UserIDs : collision[u].winner = id /\ Has(rows, u) /\ rows[u].name = "none"}
    /\ leftIds' = leftIds \ {id}
    /\ unclaimed' = IF j.own THEN unclaimed \ {id} ELSE unclaimed \cup {id}
    /\ ongoing' = IF j.own THEN ongoing \cup {id} ELSE ongoing \ {id}
    /\ freed' = freed \cup {userRow[id].name}
    /\ stale' = IF userRow[id].at # j.seen THEN stale \cup {id} ELSE stale
    /\ SaveDone(w)

\* An older account has the id (409), another save created it meanwhile (the
\* primary key refuses it), or the request fails: nothing is written.
SaveRefused(w) ==
    /\ saving[w] # NotSaving
    /\ SaveDone(w)
    /\ UNCHANGED <<userRow, collision, leftIds, unclaimed, ongoing, activeUsers, newest, stale,
                   freed, orphaned>>

----------------------------------------------------------------------------
(* The server in use.                                                      *)

\* CompleteImport.
CompleteImport(id) ==
    /\ id \in ongoing
    /\ ongoing' = ongoing \ {id}
    /\ UNCHANGED <<userRow, collision, leftIds, unclaimed, activeUsers, saving, newest, stale, freed,
                   orphaned>>

NameFree(name, id) == HoldersOf(userRow, name, id) = {}

\* Signup, in a server whose recovery mode is off.
Join(p) ==
    /\ ~OnRecord(p.id) /\ p.id \notin leftIds
    /\ NameFree(p.name, p.id)
    /\ userRow' = [userRow EXCEPT ![p.id] =
            [key |-> p.key, name |-> p.name, at |-> p.at, says |-> p.name, since |-> p.since]]
    /\ activeUsers' = activeUsers + 1
    /\ newest' = [newest EXCEPT ![p.id] = p.at]
    /\ UNCHANGED <<collision, leftIds, unclaimed, ongoing, saving, stale, freed, orphaned>>

\* The store's UpdateUser: a name of one's own choice ends a collision.
StoreProfile(id, name) ==
    /\ userRow' = [userRow EXCEPT ![id].name = name, ![id].says = name, ![id].at = Moment]
    /\ collision' = [collision EXCEPT ![id] = NoCollision]

\* The handler UpdateUser; the import gate keeps out who is being recovered.
UpdateProfile(id, name) ==
    /\ id \in Editors /\ Has(userRow, id) /\ id \notin ongoing
    /\ NameFree(name, id)
    /\ StoreProfile(id, name)
    /\ newest' = [newest EXCEPT ![id] = Moment]
    /\ freed' = freed \cup {userRow[id].name}
    /\ UNCHANGED <<leftIds, unclaimed, ongoing, activeUsers, saving, stale, orphaned>>

\* storeAccountRemovalTx, by the user or a kick.
AccountLeaves(id) ==
    /\ id \in Removable /\ Has(userRow, id) /\ id \notin leftIds
    /\ leftIds' = leftIds \cup {id}
    /\ userRow' = [userRow EXCEPT ![id].name = "none", ![id].at = 0]
    /\ activeUsers' = Less(activeUsers)
    /\ freed' = freed \cup {userRow[id].name}
    /\ UNCHANGED <<collision, unclaimed, ongoing, saving, newest, stale, orphaned>>

\* recoveredAccountRemoval: the certificate of a removal, whose account may
\* not be back yet.
RestoreRemoval(id) ==
    /\ id \in Removable \ leftIds
    /\ leftIds' = leftIds \cup {id}
    /\ unclaimed' = unclaimed \ {id}
    /\ IF Has(userRow, id)
       THEN /\ userRow' = [userRow EXCEPT ![id].name = "none", ![id].at = 0]
            /\ activeUsers' = Less(activeUsers)
            /\ freed' = freed \cup {userRow[id].name}
       ELSE UNCHANGED <<userRow, activeUsers, freed>>
    /\ UNCHANGED <<collision, ongoing, saving, newest, stale, orphaned>>

RecoveredNext ==
    \/ \E w \in Savers :
        \/ \E p \in Saved : ClaimIdentity(w, p) \/ ReportPeerIdentity(w, p)
        \/ SaveCreates(w) \/ SaveRemoved(w) \/ SaveUpdates(w) \/ SaveReplaces(w) \/ SaveRefused(w)
    \/ \E p \in Joins : Join(p)
    \/ \E id \in UserIDs :
        \/ CompleteImport(id) \/ AccountLeaves(id) \/ RestoreRemoval(id)
        \/ \E name \in Usernames : UpdateProfile(id, name)

RecoveredSpec == RecoveredInit /\ [][RecoveredNext]_recoveredVars

----------------------------------------------------------------------------
\* Rows keep their shape.
RecoveredTypeOK ==
    /\ userRow \in [UserIDs -> {NoUser} \cup
            [key : KeyNests, name : Usernames \cup {"none"}, at : 0 .. Moment,
             says : Usernames, since : 1 .. Moment]]
    /\ collision \in [UserIDs -> {NoCollision} \cup [name : Usernames, winner : UserIDs]]
    /\ leftIds \subseteq UserIDs /\ unclaimed \subseteq UserIDs /\ ongoing \subseteq UserIDs
    /\ activeUsers \in Nat
    /\ saving \in [Savers -> {NotSaving} \cup
            [step : {"read"}, profile : Saved, own : BOOLEAN, was : KeyNests \cup {"none"},
             seen : 0 .. Moment]]
    /\ newest \in [UserIDs -> 0 .. Moment]
    /\ stale \subseteq UserIDs /\ orphaned \subseteq UserIDs
    /\ freed \subseteq Usernames \cup {"none"}

\* Whatever the order of the reports, an account ends with the newest profile
\* anyone reported or its owner wrote, unless a save went on with what it had
\* read before another write (updateRecoveryUserIfNewer).
NewestProfileUnlessStale ==
    \A id \in UserIDs \ stale : Has(userRow, id) => userRow[id].at = newest[id]

\* How good a claim signed at t is.
ClaimRank(t) == IF t < FirstBoot THEN t + Moment ELSE t

\* A name goes to the best claim on record, in whatever order the claims came
\* in (claimRecoveryUsername), unless a holder gave it up or signed a new
\* profile meanwhile.
NameToTheBestUnlessFreed ==
    \A id \in UserIDs :
        Has(userRow, id) /\ userRow[id].name = "none" /\ userRow[id].says \notin freed =>
            \E h \in UserIDs :
                /\ Has(userRow, h) /\ userRow[h].name = userRow[id].says
                /\ ClaimRank(userRow[h].at) >= ClaimRank(userRow[id].at)

\* Who lost a name has the record that says to whom, unless the winner was
\* deleted and the name went to another loser or was taken.
NamelessKnowsWhyUnlessOrphaned ==
    \A id \in UserIDs \ orphaned :
        Has(userRow, id) /\ userRow[id].name = "none" => collision[id] # NoCollision

\* The counter behind every coverage percentage is the number of accounts
\* with a profile, through creations, removals and replacements, unless a
\* save went on with what it had read before another write.
ActiveUsersCountedUnlessStale ==
    stale = {} => activeUsers = Cardinality({id \in UserIDs : Has(userRow, id)})

\* Whatever the order of the reports, the newest profile wins and the accounts
\* are counted once.
ProfilesSettle == NewestProfileUnlessStale /\ ActiveUsersCountedUnlessStale

\* No two accounts hold one name: no save fails on the index of names
\* (idx_lower_users_username), whatever was claimed, lost and given back.
NamesAreHeldOnce ==
    \A u, v \in UserIDs :
        /\ Has(userRow, u) /\ Has(userRow, v) /\ u # v
        /\ userRow[u].name # "none"
        => userRow[u].name # userRow[v].name

\* Whatever the order of the claims, a name ends with the best of them, with
\* nobody else, and the others have the record that says so.
NamesSettle ==
    NamesAreHeldOnce /\ NameToTheBestUnlessFreed /\ NamelessKnowsWhyUnlessOrphaned

\* Recovery ends the same way whatever devices report first: profiles, counts
\* and names (upsertRecoveryIdentity, resolveUsernameCollision).
AccountsSettle == ProfilesSettle /\ NamesSettle
=============================================================================
