------------------------------ MODULE Presence ------------------------------
(***************************************************************************)
(* Who the server believes is connected (src/src/backend/realtime.go):     *)
(* the connection map of the process, the presence rows of online_users    *)
(* and the subscriptions of connected users, through HandleWebSocket, the  *)
(* teardown of the last socket, the PONG heartbeat and the reaper.         *)
(*                                                                         *)
(* The map is in memory and the rows are in Postgres; no lock spans the    *)
(* two.  A socket's goroutine is a program counter, pc[s], and one         *)
(* statement or one use of the map is one step, so a teardown may run      *)
(* against a session that has begun in the meantime.  Clients are the      *)
(* environment.  They open sockets one after the other and may leave the   *)
(* last one open (detachSocket in the browser's serverConnection.ts); they *)
(* subscribe anew on every socket, and send PONG.                          *)
(***************************************************************************)
EXTENDS Naturals, FiniteSets

CONSTANTS
    Users,          \* accounts of this server (model values)
    Sockets,        \* connections that may be opened, each once
    Owner,          \* Owner[s]: the user who authenticates on s
    Nobody,         \* "no user": the reaper has none at hand
    Kinds,          \* kinds of subscription; "broadcast" is one that
                    \* references the presence row, with ON DELETE CASCADE
    BusEnabled,     \* REALTIME_BUS_ENABLED
    ClearOnBoot,    \* CLEAR_PRESENCE_ON_BOOT
    MaxKicks,       \* BOUND: times other handlers disconnect somebody
    MaxCrashes      \* BOUND: times the process crashes

ASSUME PresenceAssumption ==
    /\ Nobody \notin Users
    /\ Owner \in [Sockets -> Users]
    /\ BusEnabled \in BOOLEAN
    /\ ClearOnBoot \in BOOLEAN
    /\ MaxKicks \in Nat
    /\ MaxCrashes \in Nat

VARIABLES
    pc,         \* where HandleWebSocket is for a socket
    open,       \* sockets whose connection nobody has closed
    silent,     \* open sockets whose client is gone or reads another one
    conn,       \* userConnections: conn[u], the sockets registered for u
    wants,      \* what the client of a socket has subscribed to on it
    pong,       \* sockets with pongPending set
    row,        \* online_users: "none", "fresh", or "stale" once last_pong
                \* is older than realtimePresenceTTL
    subs,       \* rows of broadcast_, profile_ and reed_subscriptions
    reaper,     \* where reapStalePresence is, and what it has read
    echo,       \* disconnect notifications on the bus, by user
    kicks, crashes,
    belated     \* history: users whose row was written by the goroutine of a
                \* socket that another one had already replaced

state == <<pc, open, silent, conn, wants, pong>>
vars == <<state, row, subs, reaper, echo, kicks, crashes, belated>>

\* The places of HandleWebSocket a goroutine may be at.
Places == {"new", "registered", "reading", "left", "leaving", "offline", "gone"}

Idle == [at |-> "idle", taken |-> {}, stale |-> {}, user |-> Nobody]

SubsOf(u) == {u} \X Kinds

\* A presence row goes, and what references it with it.
WithoutRow(u) == subs \ {<<u, "broadcast">>}

-----------------------------------------------------------------------------

Init ==
    /\ pc = [s \in Sockets |-> "new"]
    /\ open = {}
    /\ silent = {}
    /\ conn = [u \in Users |-> {}]
    /\ wants = [s \in Sockets |-> {}]
    /\ pong = {}
    /\ row = [u \in Users |-> "none"]
    /\ subs = {}
    /\ reaper = Idle
    /\ echo = [u \in Users |-> 0]
    /\ kicks = 0
    /\ crashes = 0
    /\ belated = {}

-----------------------------------------------------------------------------
(* The goroutine of a socket                                               *)

\* A handshake is accepted.  registerClient puts the socket in place of
\* whatever the user had in the map, then closes that.
RegisterClient(s) ==
    LET u == Owner[s] IN
    /\ pc[s] = "new"
    /\ pc' = [pc EXCEPT ![s] = "registered"]
    /\ conn' = [conn EXCEPT ![u] = {s}]
    /\ open' = (open \ conn[u]) \cup {s}
    /\ belated' = belated \ {u}
    /\ UNCHANGED <<silent, wants, pong, row, subs, reaper, echo, kicks, crashes>>

\* MarkUserOnline: an upsert that refreshes the heartbeat.
MarkUserOnline(s) ==
    LET u == Owner[s] IN
    /\ pc[s] = "registered"
    /\ pc' = [pc EXCEPT ![s] = "reading"]
    /\ row' = [row EXCEPT ![u] = "fresh"]
    /\ belated' = IF conn[u] \ {s} # {} THEN belated \cup {u} ELSE belated
    /\ UNCHANGED <<open, silent, conn, wants, pong, subs, reaper, echo, kicks, crashes>>

\* UnregisterClient: the client leaves the map, its flag with it, and its
\* connection is closed.
Unregistered(s) ==
    /\ conn' = [conn EXCEPT ![Owner[s]] = @ \ {s}]
    /\ open' = open \ {s}
    /\ pong' = pong \ {s}

\* MUTANT of MarkUserOnlineFails: the dead socket stays in the map.
MarkUserOnlineFails_LeftInMap(s) ==
    /\ pc[s] = "registered"
    /\ pc' = [pc EXCEPT ![s] = "gone"]
    /\ open' = open \ {s}
    /\ silent' = silent \ {s}
    /\ UNCHANGED <<conn, pong, wants, row, subs, reaper, echo, kicks, crashes, belated>>

\* MarkUserOnline fails: the socket leaves the map, and nothing is torn down.
MarkUserOnlineFails(s) ==
    /\ pc[s] = "registered"
    /\ pc' = [pc EXCEPT ![s] = "gone"]
    /\ Unregistered(s)
    /\ silent' = silent \ {s}
    /\ UNCHANGED <<wants, row, subs, reaper, echo, kicks, crashes, belated>>

\* handleSubscribeBroadcast, handleSubscribeReed, handleSubscribeProfile: the
\* insert of a broadcast subscription fails without a presence row, and only
\* the log hears of it.  The frame may have been read before the socket was
\* closed.
Subscribe(s, k) ==
    LET u == Owner[s] IN
    /\ pc[s] = "reading"
    /\ s \notin silent
    /\ k \notin wants[s]
    /\ wants' = [wants EXCEPT ![s] = @ \cup {k}]
    /\ subs' = IF k = "broadcast" /\ row[u] = "none" THEN subs ELSE subs \cup {<<u, k>>}
    /\ UNCHANGED <<pc, open, silent, conn, pong, row, reaper, echo, kicks, crashes, belated>>

\* handlePong only flags the client; the reaper writes.
handlePong(s) ==
    /\ pc[s] = "reading"
    /\ s \in open \ silent
    /\ s \notin pong
    /\ pong' = pong \cup {s}
    /\ UNCHANGED <<pc, open, silent, conn, wants, row, subs, reaper, echo, kicks, crashes, belated>>

\* ReadMessage fails on a closed connection and handleClientMessages returns;
\* nobody asks any more what the client of s wanted.
ReadFails(s) ==
    /\ pc[s] = "reading"
    /\ s \notin open
    /\ pc' = [pc EXCEPT ![s] = "left"]
    /\ wants' = [wants EXCEPT ![s] = {}]
    /\ silent' = silent \ {s}
    /\ UNCHANGED <<open, conn, pong, row, subs, reaper, echo, kicks, crashes, belated>>

\* UnregisterClient: with another socket of the user in the map (stillOnline)
\* the goroutine ends here.
UnregisterClient(s) ==
    /\ pc[s] = "left"
    /\ Unregistered(s)
    /\ pc' = [pc EXCEPT ![s] = IF conn'[Owner[s]] # {} THEN "gone" ELSE "leaving"]
    /\ UNCHANGED <<silent, wants, row, subs, reaper, echo, kicks, crashes, belated>>

\* teardownUser: everything the user is subscribed to.
teardownUser(s) ==
    /\ pc[s] = "leaving"
    /\ pc' = [pc EXCEPT ![s] = "offline"]
    /\ subs' = subs \ SubsOf(Owner[s])
    /\ UNCHANGED <<open, silent, conn, wants, pong, row, reaper, echo, kicks, crashes, belated>>

\* MarkUserOffline, without a second look at the map.
MarkUserOffline(s) ==
    /\ pc[s] = "offline"
    /\ pc' = [pc EXCEPT ![s] = "gone"]
    /\ row' = [row EXCEPT ![Owner[s]] = "none"]
    /\ subs' = WithoutRow(Owner[s])
    /\ UNCHANGED <<open, silent, conn, wants, pong, reaper, echo, kicks, crashes, belated>>

-----------------------------------------------------------------------------
(* Disconnects                                                             *)

\* disconnectLocal: the user's sockets leave the map and are closed.
Disconnected(u) ==
    /\ conn' = [conn EXCEPT ![u] = {}]
    /\ open' = open \ conn[u]

\* DisconnectUser: the sockets held here, and a notification every process
\* listening on the bus gets, this one included.
DisconnectUser(u) ==
    /\ Disconnected(u)
    /\ echo' = IF BusEnabled THEN [echo EXCEPT ![u] = @ + 1] ELSE echo

\* Another handler disconnects a user: a device is bound, an account is
\* suspended or removed.
KickUser(u) ==
    /\ kicks < MaxKicks
    /\ kicks' = kicks + 1
    /\ DisconnectUser(u)
    /\ UNCHANGED <<pc, silent, wants, pong, row, subs, reaper, crashes, belated>>

\* The notification comes back and closes whatever the user has by then.
BusDisconnect(u) ==
    /\ echo[u] > 0
    /\ echo' = [echo EXCEPT ![u] = @ - 1]
    /\ Disconnected(u)
    /\ UNCHANGED <<pc, silent, wants, pong, row, subs, reaper, kicks, crashes, belated>>

-----------------------------------------------------------------------------
(* The reaper: one goroutine                                               *)

\* takePongs: the flags of registered sockets are cleared and remembered.
takePongs ==
    LET taken == {s \in pong : s \in conn[Owner[s]]} IN
    /\ reaper.at = "idle"
    /\ pong' = pong \ taken
    /\ reaper' = [reaper EXCEPT !.at = IF taken = {} THEN "list" ELSE "pongs",
                                !.taken = taken]
    /\ UNCHANGED <<pc, open, silent, conn, wants, row, subs, echo, kicks, crashes, belated>>

\* RecordPongs: rows are refreshed, and a client without one is closed.
RecordPongs ==
    LET users == {Owner[s] : s \in reaper.taken}
        live == {u \in users : row[u] # "none"} IN
    /\ reaper.at = "pongs"
    /\ row' = [u \in Users |-> IF u \in live THEN "fresh" ELSE row[u]]
    /\ open' = open \ {s \in reaper.taken : Owner[s] \notin live}
    /\ reaper' = [reaper EXCEPT !.at = "list", !.taken = {}]
    /\ UNCHANGED <<pc, silent, conn, wants, pong, subs, echo, kicks, crashes, belated>>

\* MUTANT of RecordPongsFails: the pass goes on with the PONGs still taken.
RecordPongsFails_KeepsTaken ==
    /\ reaper.at = "pongs"
    /\ pong' = pong \cup reaper.taken
    /\ reaper' = [reaper EXCEPT !.at = "list"]
    /\ UNCHANGED <<pc, open, silent, conn, wants, row, subs, echo, kicks, crashes, belated>>

\* The statement fails: the flags are set again for the next pass.
RecordPongsFails ==
    /\ reaper.at = "pongs"
    /\ pong' = pong \cup reaper.taken
    /\ reaper' = [reaper EXCEPT !.at = "list", !.taken = {}]
    /\ UNCHANGED <<pc, open, silent, conn, wants, row, subs, echo, kicks, crashes, belated>>

\* The reaper goes on with the stale users in left, or is done.
NextUser(left) ==
    reaper' = IF left = {} THEN Idle
              ELSE [reaper EXCEPT !.at = "check", !.stale = left, !.user = Nobody]

StalePresence ==
    /\ reaper.at = "list"
    /\ NextUser({u \in Users : row[u] = "stale"})
    /\ UNCHANGED <<state, row, subs, echo, kicks, crashes, belated>>

\* HasConnection: a socket here is disconnected and its own goroutine cleans
\* up; anybody else is torn down by the reaper.
HasConnection(u) ==
    /\ reaper.at = "check"
    /\ u \in reaper.stale
    /\ reaper' = [reaper EXCEPT !.at = IF conn[u] # {} THEN "disconnect" ELSE "teardown",
                                !.stale = @ \ {u},
                                !.user = u]
    /\ UNCHANGED <<state, row, subs, echo, kicks, crashes, belated>>

DisconnectStale ==
    /\ reaper.at = "disconnect"
    /\ DisconnectUser(reaper.user)
    /\ NextUser(reaper.stale)
    /\ UNCHANGED <<pc, silent, wants, pong, row, subs, kicks, crashes, belated>>

TeardownStale ==
    /\ reaper.at = "teardown"
    /\ subs' = subs \ SubsOf(reaper.user)
    /\ reaper' = [reaper EXCEPT !.at = "evict"]
    /\ UNCHANGED <<state, row, echo, kicks, crashes, belated>>

\* MUTANT of EvictStalePresence: a user who came back is left alone.
EvictStalePresence_LeavesReturned ==
    LET u == reaper.user
        gone == row[u] = "stale" IN
    /\ reaper.at = "evict"
    /\ row' = IF gone THEN [row EXCEPT ![u] = "none"] ELSE row
    /\ subs' = IF gone THEN WithoutRow(u) ELSE subs
    /\ NextUser(reaper.stale)
    /\ UNCHANGED <<state, echo, kicks, crashes, belated>>

\* EvictStalePresence: the row goes if it is still stale; otherwise the user
\* came back, perhaps with subscriptions that are gone again.
EvictStalePresence ==
    LET u == reaper.user IN
    /\ reaper.at = "evict"
    /\ IF row[u] = "stale"
       THEN /\ row' = [row EXCEPT ![u] = "none"]
            /\ subs' = WithoutRow(u)
            /\ NextUser(reaper.stale)
       ELSE /\ reaper' = [reaper EXCEPT !.at = "disconnect"]
            /\ UNCHANGED <<row, subs>>
    /\ UNCHANGED <<state, echo, kicks, crashes, belated>>

-----------------------------------------------------------------------------
(* Clients, time and the process                                           *)

\* The client leaves, or the network breaks the connection.
Drop(s) ==
    /\ s \in open
    /\ open' = open \ {s}
    /\ UNCHANGED <<pc, silent, conn, wants, pong, row, subs, reaper, echo, kicks, crashes, belated>>

\* The client detaches from the socket, or is gone and no packet says so.
FallSilent(s) ==
    /\ s \in open \ silent
    /\ silent' = silent \cup {s}
    /\ UNCHANGED <<pc, open, conn, wants, pong, row, subs, reaper, echo, kicks, crashes, belated>>

\* Two minutes pass without a heartbeat written for u.
HeartbeatLapses(u) ==
    /\ row[u] = "fresh"
    /\ row' = [row EXCEPT ![u] = "stale"]
    /\ UNCHANGED <<state, subs, reaper, echo, kicks, crashes, belated>>

\* The process crashes and boots.  Rows survive unless the boot clears them.
Restart ==
    /\ crashes < MaxCrashes
    /\ crashes' = crashes + 1
    /\ pc' = [s \in Sockets |-> IF pc[s] = "new" THEN "new" ELSE "gone"]
    /\ open' = {}
    /\ silent' = {}
    /\ wants' = [s \in Sockets |-> {}]
    /\ conn' = [u \in Users |-> {}]
    /\ pong' = {}
    /\ reaper' = Idle
    /\ echo' = [u \in Users |-> 0]
    /\ IF ClearOnBoot
       THEN /\ row' = [u \in Users |-> "none"]
            /\ subs' = {}
       ELSE UNCHANGED <<row, subs>>
    /\ belated' = {}
    /\ UNCHANGED kicks

Next ==
    \/ \E s \in Sockets :
        \/ RegisterClient(s) \/ MarkUserOnline(s) \/ MarkUserOnlineFails(s)
        \/ handlePong(s) \/ ReadFails(s)
        \/ UnregisterClient(s) \/ teardownUser(s) \/ MarkUserOffline(s)
        \/ Drop(s) \/ FallSilent(s)
        \/ \E k \in Kinds : Subscribe(s, k)
    \/ \E u \in Users :
        \/ KickUser(u) \/ BusDisconnect(u) \/ HasConnection(u) \/ HeartbeatLapses(u)
    \/ takePongs \/ RecordPongs \/ RecordPongsFails \/ StalePresence
    \/ DisconnectStale \/ TeardownStale \/ EvictStalePresence
    \/ Restart

Spec == Init /\ [][Next]_vars

-----------------------------------------------------------------------------
(* Fairness: goroutines run, the reaper's ticker ticks, a statement that is *)
(* tried again and again succeeds at times, the browser's PONG timer runs,  *)
(* a dead peer is noticed, and time passes for a row nobody refreshes.      *)

GoesOn(s) ==
    \/ MarkUserOnline(s) \/ MarkUserOnlineFails(s)
    \/ ReadFails(s) \/ UnregisterClient(s) \/ teardownUser(s) \/ MarkUserOffline(s)

Reap ==
    \/ takePongs \/ RecordPongs \/ RecordPongsFails \/ StalePresence
    \/ (\E u \in Users : HasConnection(u))
    \/ DisconnectStale \/ TeardownStale \/ EvictStalePresence

DeadPeerNoticed(s) == s \in silent /\ Drop(s)
LapsesAlone(u) == conn[u] \subseteq silent /\ HeartbeatLapses(u)

FairSpec ==
    /\ Spec
    /\ \A s \in Sockets :
        WF_vars(GoesOn(s)) /\ WF_vars(handlePong(s)) /\ WF_vars(DeadPeerNoticed(s))
    /\ \A u \in Users : WF_vars(LapsesAlone(u))
    /\ WF_vars(Reap)
    /\ SF_vars(RecordPongs)

-----------------------------------------------------------------------------
(* Properties                                                              *)

\* The program counters, the map, the rows and the reaper keep their shape;
\* the reaper holds PONGs only until it has written them, and a user only
\* between the check of the map and the end of that user's eviction.
TypeOK ==
    /\ pc \in [Sockets -> Places]
    /\ open \subseteq Sockets
    /\ silent \subseteq Sockets
    /\ conn \in [Users -> SUBSET Sockets]
    /\ wants \in [Sockets -> SUBSET Kinds]
    /\ pong \subseteq Sockets
    /\ row \in [Users -> {"none", "fresh", "stale"}]
    /\ subs \subseteq Users \X Kinds
    /\ reaper \in [at : {"idle", "pongs", "list", "check", "disconnect", "teardown", "evict"},
                   taken : SUBSET Sockets, stale : SUBSET Users, user : Users \cup {Nobody}]
    /\ (reaper.taken # {}) <=> (reaper.at = "pongs")
    /\ (reaper.user # Nobody) <=> (reaper.at \in {"disconnect", "teardown", "evict"})
    /\ echo \in [Users -> Nat]
    /\ kicks \in 0 .. MaxKicks
    /\ crashes \in 0 .. MaxCrashes
    /\ belated \subseteq Users

\* A user keeps a single active session (registerClient): at most one socket
\* of the user is in the map; whatever is in the map has a goroutine that will
\* take it out, so no dead socket counts as a live connection; and a socket
\* that is not in the map is closed, so no client goes on reading from one the
\* server has forgotten.
OneSession ==
    /\ \A u \in Users : \A s, t \in conn[u] : s = t
    /\ \A u \in Users : \A s \in conn[u] :
        Owner[s] = u /\ pc[s] \in {"registered", "reading", "left"}
    /\ \A s \in open : s \in conn[Owner[s]]

\* What the client on s has subscribed to is stored.
Heard(s) == wants[s] \subseteq {k \in Kinds : <<Owner[s], k>> \in subs}

\* Presence is true of u: a row exactly with a session, and the session gets
\* what its client asked for.
Settled(u) ==
    /\ row[u] # "none" <=> conn[u] # {}
    /\ u \in belated \/ \A s \in conn[u] : Heard(s)

\* However disconnects, teardowns, heartbeats, evictions and a crash overlap,
\* every user ends up settled once the client stops reconnecting: no presence
\* row without a session, no session without a row, and no session whose
\* subscriptions an old teardown or the reaper took (flushPongs and the
\* reaper's last DisconnectUser are the repairs).  Left out is a user whose
\* row a replaced socket wrote late, see NobodyDeaf.
PresenceSettles == \A u \in Users : <>[]Settled(u)

\* Nothing of u is going on: no goroutine is between two steps, the reaper is
\* idle and every PONG has been written.
AtRest(u) ==
    /\ \A s \in Sockets : Owner[s] = u =>
        /\ pc[s] \in {"new", "reading", "gone"}
        /\ pc[s] = "reading" => s \in open /\ s \notin pong
    /\ reaper = Idle

\* A session that has lost subscriptions has lost its presence row too, which
\* is how flushPongs finds out: "A client whose row was reaped is closed, so
\* it reconnects and subscribes again" (realtime.go:2176).
NobodyDeaf ==
    \A u \in Users : AtRest(u) =>
        \A s \in conn[u] : Heard(s) \/ row[u] = "none"
=============================================================================
