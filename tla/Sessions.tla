------------------------------ MODULE Sessions ------------------------------
(***************************************************************************)
(* Whose session is open.  A user acts from one device at a time; sockets  *)
(* are opened after a series of look-ups, each a statement of its own, and *)
(* what ends a session (another device, a suspension, a kick, a rebind) is *)
(* first committed and then closes the sockets there are.                  *)
(***************************************************************************)
EXTENDS Naturals, Sequences

CONSTANTS
    Devices,            \* origins the user signs in from (model values)
    Calls,              \* requests and handshakes at work at once (model values)
    NoDevice,           \* also: no socket is open
    MaxUserKeys,        \* BOUND: keys the user ever has
    MaxTurns,           \* BOUND: devices bound, sanctions and rebinds
    MaxChallenges       \* BOUND: challenges issued

ASSUME SessionsAssumption ==
    /\ NoDevice \notin Devices \cup Calls /\ Devices # {}
    /\ MaxUserKeys \in Nat \ {0} /\ MaxTurns \in Nat /\ MaxChallenges \in Nat

VARIABLES
    bound,          \* the row of user_devices that is not revoked
    keyInUse,      \* users.active_key_id, numbered in the order the keys were made
    restrictedKey,  \* has an admin rebound it, and it must be replaced?
    sanctions,      \* which of "suspended", "removed" hold
    challenges,     \* rows of account_recovery_challenges
    issued,         \* how many there were
    call,           \* call -> what it does, from where, with which key, and what is next
    open,           \* userConnections: the socket that is registered
    owedKicks,      \* decisions that have committed and have not closed sockets yet
    turns,          \* how many there were
    rebound,        \* history: the first key since the last rebind
    lookedEarly       \* history: handshakes that had looked too early when their like were closed

sessionVars == <<bound, keyInUse, restrictedKey, sanctions, challenges, issued, call, open,
                 owedKicks, turns, rebound, lookedEarly>>

IdleCall == [does |-> "nothing"]

SessionsInit ==
    /\ bound = CHOOSE d \in Devices : TRUE
    /\ keyInUse = 1 /\ restrictedKey = FALSE /\ sanctions = {}
    /\ challenges = 0 /\ issued = 0
    /\ call = [c \in Calls |-> IdleCall]
    /\ open = NoDevice /\ owedKicks = 0 /\ turns = 0
    /\ rebound = 1 /\ lookedEarly = {}

\* What each looks up, in this order, before it does anything: a socket
\* (authenticateWebSocket, then HandleWebSocket), a signed request
\* (signatureAuthMiddleware, then deviceMiddleware, which binding a device is
\* exempt from) and a bootstrap, which signs nothing but its challenge.
HandshakeLooksUp == <<"key", "removal", "suspension", "device">>
RequestLooksUp == <<"key", "removal", "suspension">>
BootstrapLooksUp == <<"removal", "key">>

LooksUp(what) ==
    [handshake |-> HandshakeLooksUp, bind |-> RequestLooksUp, bootstrap |-> BootstrapLooksUp][what]

Does(c, what) == call[c].does = what
Ready(c, what) == Does(c, what) /\ call[c].looked = Len(LooksUp(what))

\* getRealtimeAuthPublicKey, as the middleware: a revoked key is of no use, one
\* that an admin bound only for what replaces it.
KeyServes(what, key) == key = keyInUse /\ (restrictedKey => what = "bootstrap")

\* refuseIfSuspended
Suspended == "suspended" \in sanctions

\* Does the look-up let the call pass?
Passes(what, device, key, check) ==
    /\ check = "key" => KeyServes(what, key)
    /\ check = "removal" => "removed" \notin sanctions
    /\ check = "suspension" => ~Suspended
    /\ check = "device" => bound = device

----------------------------------------------------------------------------
(* Calls.                                                                  *)

IssueChallenge ==
    /\ issued < MaxChallenges
    /\ issued' = issued + 1 /\ challenges' = challenges + 1
    /\ UNCHANGED <<bound, keyInUse, restrictedKey, sanctions, call, open, owedKicks, turns,
                   rebound, lookedEarly>>

ChallengesCleanup ==
    /\ challenges > 0
    /\ challenges' = 0
    /\ UNCHANGED <<bound, keyInUse, restrictedKey, sanctions, issued, call, open, owedKicks, turns,
                   rebound, lookedEarly>>

\* A bootstrap uses a challenge up before it looks anything up.
Begin(c, what, device, key) ==
    /\ Does(c, "nothing")
    /\ challenges' = challenges - (IF what = "bootstrap" THEN 1 ELSE 0)
    /\ challenges' >= 0
    /\ what # "handshake" => turns < MaxTurns
    /\ turns' = turns + (IF what = "handshake" THEN 0 ELSE 1)
    /\ call' = [call EXCEPT ![c] = [does |-> what, device |-> device, key |-> key, looked |-> 0]]
    /\ lookedEarly' = lookedEarly \ {c}
    /\ UNCHANGED <<bound, keyInUse, restrictedKey, sanctions, issued, open, owedKicks, rebound>>

\* signatureAuthMiddleware and deviceMiddleware, authenticateWebSocket and
\* HandleWebSocket, BootstrapAccountRecovery: refused, or on to the next.
Look(c) ==
    LET what == call[c].does IN
    /\ ~Does(c, "nothing") /\ ~Does(c, "session") /\ ~Does(c, "kick")
    /\ call[c].looked < Len(LooksUp(what))
    /\ call' = [call EXCEPT ![c] =
           IF Passes(what, call[c].device, call[c].key, LooksUp(what)[call[c].looked + 1])
           THEN [call[c] EXCEPT !.looked = @ + 1] ELSE IdleCall]
    /\ UNCHANGED <<bound, keyInUse, restrictedKey, sanctions, challenges, issued, open, owedKicks,
                   turns, rebound, lookedEarly>>

\* registerClient: the user's other sockets are closed.
RegisterSocket(c) ==
    /\ Ready(c, "handshake")
    /\ call' = [d \in Calls |-> IF d = c THEN [call[c] EXCEPT !.does = "session"]
                                ELSE IF d = open THEN IdleCall ELSE call[d]]
    /\ open' = c
    /\ UNCHANGED <<bound, keyInUse, restrictedKey, sanctions, challenges, issued, owedKicks, turns,
                   rebound, lookedEarly>>

\* The client goes away.
Hangup(c) ==
    /\ open = c
    /\ call' = [call EXCEPT ![c] = IdleCall]
    /\ open' = NoDevice
    /\ UNCHANGED <<bound, keyInUse, restrictedKey, sanctions, challenges, issued, owedKicks, turns,
                   rebound, lookedEarly>>

\* A handshake that goes on though a look-up it passed would now refuse it.
OutOfDate(c) ==
    /\ Does(c, "handshake")
    /\ \/ call[c].looked > 0 /\ call[c].key < rebound
       \/ call[c].looked > 1 /\ "removed" \in sanctions
       \/ call[c].looked > 2 /\ "suspended" \in sanctions
       \/ call[c].looked > 3 /\ call[c].device # bound

\* disconnectLocal closes what is registered; a handshake is not.
Kicked(c) ==
    /\ open' = NoDevice
    /\ lookedEarly' = lookedEarly \cup {d \in Calls : OutOfDate(d)}
    /\ call' = [d \in Calls |-> IF d \in {c, open} THEN IdleCall ELSE call[d]]

\* BindDevice commits; the sockets are closed afterwards.
\* Variant that must fail: they are closed first.
BindDevice_KicksFirst(c) ==
    /\ bound' = call[c].device
    /\ Kicked(c)
BindDevice(c) ==
    /\ bound' = call[c].device
    /\ call' = [call EXCEPT ![c] = [does |-> "kick"]]
    /\ UNCHANGED <<open, lookedEarly>>

Bind(c) ==
    /\ Ready(c, "bind") \/ Ready(c, "bootstrap")
    /\ BindDevice(c)
    /\ UNCHANGED <<keyInUse, restrictedKey, sanctions, challenges, issued, owedKicks, turns,
                   rebound>>

\* Another call is binding too: the later insert finds an active device
\* (user_devices_one_active_per_user), and nothing is closed.
BindConflict(c) ==
    /\ Ready(c, "bind") \/ Ready(c, "bootstrap")
    /\ \E d \in Calls \ {c} : Does(d, "kick")
    /\ call' = [call EXCEPT ![c] = IdleCall]
    /\ UNCHANGED <<bound, keyInUse, restrictedKey, sanctions, challenges, issued, open, owedKicks,
                   turns, rebound, lookedEarly>>

KickAfterBind(c) ==
    /\ Does(c, "kick")
    /\ Kicked(c)
    /\ UNCHANGED <<bound, keyInUse, restrictedKey, sanctions, challenges, issued, owedKicks, turns,
                   rebound>>

----------------------------------------------------------------------------
(* What admins decide, and the keys of the user.                           *)

\* suspendExecutor and kickExecutor: executed in the request's transaction,
\* the sockets closed in what comes after.
Sanction(s) ==
    /\ turns < MaxTurns /\ s \notin sanctions /\ "removed" \notin sanctions
    /\ turns' = turns + 1
    /\ sanctions' = sanctions \cup {s}
    /\ owedKicks' = owedKicks + 1
    /\ UNCHANGED <<bound, keyInUse, restrictedKey, challenges, issued, call, open, rebound,
                   lookedEarly>>

Reinstate ==
    /\ Suspended
    /\ sanctions' = sanctions \ {"suspended"}
    /\ UNCHANGED <<bound, keyInUse, restrictedKey, challenges, issued, call, open, owedKicks, turns,
                   rebound, lookedEarly>>

\* rebindExecutor: another key, that can only be replaced.
RebindKey ==
    /\ turns < MaxTurns /\ keyInUse < MaxUserKeys /\ "removed" \notin sanctions
    /\ turns' = turns + 1
    /\ keyInUse' = keyInUse + 1 /\ rebound' = keyInUse' /\ restrictedKey' = TRUE
    /\ owedKicks' = owedKicks + 1
    /\ UNCHANGED <<bound, sanctions, challenges, issued, call, open, lookedEarly>>

\* AddPublicKey revokes the key before; a session it opened goes on.
Rotate ==
    /\ keyInUse < MaxUserKeys /\ "removed" \notin sanctions
    /\ keyInUse' = keyInUse + 1 /\ restrictedKey' = FALSE
    /\ UNCHANGED <<bound, sanctions, challenges, issued, call, open, owedKicks, turns, rebound,
                   lookedEarly>>

KickAfterDecision ==
    /\ owedKicks > 0
    /\ owedKicks' = owedKicks - 1
    /\ Kicked(NoDevice)
    /\ UNCHANGED <<bound, keyInUse, restrictedKey, sanctions, challenges, issued, turns, rebound>>

\* The process ends, and with it the sockets there were to close.
Stop ==
    /\ turns < MaxTurns
    /\ turns' = turns + 1
    /\ call' = [c \in Calls |-> IdleCall] /\ open' = NoDevice /\ owedKicks' = 0
    /\ UNCHANGED <<bound, keyInUse, restrictedKey, sanctions, challenges, issued, rebound,
                   lookedEarly>>

SessionsNext ==
    \/ IssueChallenge \/ ChallengesCleanup
    \/ \E c \in Calls :
        \/ \E what \in {"handshake", "bind", "bootstrap"}, d \in Devices, k \in 1 .. keyInUse :
               Begin(c, what, d, k)
        \/ Look(c) \/ RegisterSocket(c) \/ Hangup(c)
        \/ Bind(c) \/ BindConflict(c) \/ KickAfterBind(c)
    \/ \E s \in {"suspended", "removed"} : Sanction(s)
    \/ Reinstate \/ RebindKey \/ Rotate \/ KickAfterDecision \/ Stop

SessionsSpec == SessionsInit /\ [][SessionsNext]_sessionVars

----------------------------------------------------------------------------
CallType ==
    [does : {"handshake", "session", "bind", "bootstrap"},
     device : Devices, key : Nat, looked : Nat]
        \cup {IdleCall, [does |-> "kick"]}

SessionsTypeOK ==
    /\ bound \in Devices /\ keyInUse \in 1 .. MaxUserKeys /\ restrictedKey \in BOOLEAN
    /\ sanctions \subseteq {"suspended", "removed"}
    /\ challenges \in Nat /\ issued \in Nat
    /\ call \in [Calls -> CallType] /\ open \in Calls \cup {NoDevice}
    /\ owedKicks \in Nat /\ turns \in Nat /\ rebound \in 1 .. MaxUserKeys
    /\ lookedEarly \subseteq Calls

\* Once everything that was decided has closed its sockets, the session that
\* is open is of the bound device, of a user who may be here, and of a key
\* made since the last rebind; unless its handshake had looked before a kick.
SessionIsBoundUnlessEarly ==
    (owedKicks = 0 /\ \A c \in Calls : ~Does(c, "kick")) =>
        \/ open = NoDevice \/ open \in lookedEarly
        \/ /\ call[open].device = bound
           /\ sanctions = {}
           /\ call[open].key >= rebound
=============================================================================
