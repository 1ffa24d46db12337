-------------------------- MODULE Presence_proofs --------------------------
(* Theorems about Presence, for any number of users, sockets, kinds of     *)
(* subscription, disconnects and crashes.  OneSession is inductive         *)
(* together with TypeOK.                                                   *)
EXTENDS Presence, TLAPS

USE DEF Places

-----------------------------------------------------------------------------
(* Types                                                                   *)

\* The reaper's state as a set of its own, so that the steps that leave the
\* reaper alone need not look into it.
Reapers ==
    {x \in [at : {"idle", "pongs", "list", "check", "disconnect", "teardown", "evict"},
            taken : SUBSET Sockets, stale : SUBSET Users, user : Users \cup {Nobody}] :
        /\ (x.taken # {}) <=> (x.at = "pongs")
        /\ (x.user # Nobody) <=> (x.at \in {"disconnect", "teardown", "evict"})}

\* The idle reaper is a reaper (Idle is where every pass of
\* reapStalePresence ends).
LEMMA IdleReaper == Idle \in Reapers
BY DEF Idle, Reapers

\* NextUser, with users that are stale and no PONGs at hand, leaves a reaper.
LEMMA NextReaper ==
    ASSUME NEW left \in SUBSET Users, reaper \in Reapers, reaper.taken = {} \/ reaper.at # "pongs",
           NextUser(left)
    PROVE  reaper' \in Reapers
<1>1. CASE left = {}
  BY <1>1, IdleReaper DEF NextUser
<1>2. CASE left # {}
  <2>1. reaper' = [reaper EXCEPT !.at = "check", !.stale = left, !.user = Nobody]
    BY <1>2 DEF NextUser
  <2>2. QED
    BY <2>1 DEF Reapers
<1>3. QED
  BY <1>1, <1>2

\* TypeOK holds from the start.
LEMMA InitTypes == Init => TypeOK
BY PresenceAssumption DEF Init, TypeOK, Idle

\* Every step keeps TypeOK, whatever the sockets, the reaper and the clients
\* do.
LEMMA NextTypes == TypeOK /\ [Next]_vars => TypeOK'
<1> SUFFICES ASSUME TypeOK, [Next]_vars
             PROVE  TypeOK'
  OBVIOUS
<1> USE PresenceAssumption
<1>0. reaper \in Reapers
  BY DEF TypeOK, Reapers
<1>1. ASSUME NEW s \in Sockets, RegisterClient(s)
      PROVE  TypeOK'
  BY <1>1 DEF TypeOK, RegisterClient
<1>2. ASSUME NEW s \in Sockets, MarkUserOnline(s)
      PROVE  TypeOK'
  BY <1>2 DEF TypeOK, MarkUserOnline
<1>3. ASSUME NEW s \in Sockets, MarkUserOnlineFails(s)
      PROVE  TypeOK'
  BY <1>3 DEF TypeOK, MarkUserOnlineFails, Unregistered
<1>4. ASSUME NEW s \in Sockets, NEW k \in Kinds, Subscribe(s, k)
      PROVE  TypeOK'
  BY <1>4 DEF TypeOK, Subscribe
<1>5. ASSUME NEW s \in Sockets, handlePong(s) \/ Drop(s) \/ FallSilent(s)
      PROVE  TypeOK'
  BY <1>5 DEF TypeOK, handlePong, Drop, FallSilent
<1>6. ASSUME NEW s \in Sockets, ReadFails(s)
      PROVE  TypeOK'
  BY <1>6 DEF TypeOK, ReadFails
<1>7. ASSUME NEW s \in Sockets, UnregisterClient(s)
      PROVE  TypeOK'
  BY <1>7 DEF TypeOK, UnregisterClient, Unregistered
<1>8. ASSUME NEW s \in Sockets, teardownUser(s) \/ MarkUserOffline(s)
      PROVE  TypeOK'
  BY <1>8 DEF TypeOK, teardownUser, MarkUserOffline, SubsOf, WithoutRow
<1>9. ASSUME NEW u \in Users, KickUser(u) \/ BusDisconnect(u)
      PROVE  TypeOK'
  BY <1>9 DEF TypeOK, KickUser, BusDisconnect, DisconnectUser, Disconnected
<1>10. ASSUME NEW u \in Users, HeartbeatLapses(u)
       PROVE  TypeOK'
  BY <1>10 DEF TypeOK, HeartbeatLapses, state
<1>11. CASE Restart
  BY <1>11 DEF TypeOK, Restart, Idle
<1>12. CASE takePongs
  <2>. DEFINE taken == {s \in pong : s \in conn[Owner[s]]}
  <2>1. taken \in SUBSET Sockets
    BY DEF TypeOK
  <2>2. reaper' = [reaper EXCEPT !.at = IF taken = {} THEN "list" ELSE "pongs",
                                 !.taken = taken]
    BY <1>12 DEF takePongs
  <2>3. reaper' \in Reapers
    <3>. HIDE DEF taken
    <3>1. reaper.at = "idle"
      BY <1>12 DEF takePongs
    <3>2. QED
      BY <1>0, <2>1, <2>2, <3>1 DEF Reapers
  <2>4. pong' \subseteq Sockets
    BY <1>12 DEF TypeOK, takePongs
  <2>5. QED
    BY <1>12, <2>3, <2>4 DEF TypeOK, takePongs, Reapers
<1>12a. CASE RecordPongsFails
  BY <1>12a DEF TypeOK, RecordPongsFails
<1>13. CASE RecordPongs
  BY <1>13 DEF TypeOK, RecordPongs
<1>14. CASE StalePresence
  <2>1. reaper' \in Reapers
    BY <1>0, <1>14, NextReaper DEF StalePresence
  <2>2. QED
    BY <1>14, <2>1 DEF TypeOK, StalePresence, Reapers, state
<1>15. ASSUME NEW u \in Users, HasConnection(u)
       PROVE  TypeOK'
  BY <1>15 DEF TypeOK, HasConnection, state
<1>16. CASE DisconnectStale
  <2>1. reaper' \in Reapers /\ reaper.user \in Users
    BY <1>0, <1>16, NextReaper DEF DisconnectStale, Reapers
  <2>2. QED
    BY <1>16, <2>1 DEF TypeOK, DisconnectStale, DisconnectUser, Disconnected, Reapers
<1>17. CASE TeardownStale
  BY <1>17 DEF TypeOK, TeardownStale, SubsOf, state
<1>18. CASE EvictStalePresence
  <2>1. reaper.user \in Users
    BY <1>0, <1>18 DEF EvictStalePresence, Reapers
  <2>2. CASE row[reaper.user] = "stale"
    <3>1. reaper' \in Reapers
      BY <1>0, <1>18, <2>2, NextReaper DEF EvictStalePresence, Reapers
    <3>2. QED
      BY <1>18, <2>1, <2>2, <3>1 DEF TypeOK, EvictStalePresence, WithoutRow, Reapers, state
  <2>3. CASE row[reaper.user] # "stale"
    BY <1>18, <2>1, <2>3 DEF TypeOK, EvictStalePresence, state
  <2>4. QED
    BY <2>2, <2>3
<1>19. CASE UNCHANGED vars
  BY <1>19 DEF TypeOK, vars, state
<1>20. QED
  BY <1>1, <1>2, <1>3, <1>4, <1>5, <1>6, <1>7, <1>8, <1>9, <1>10, <1>11, <1>12, <1>13,
     <1>14, <1>15, <1>16, <1>17, <1>18, <1>19, <1>12a DEF Next

\* The connection map, the rows and the reaper keep their shape.
THEOREM PresenceTypes == Spec => []TypeOK
BY InitTypes, NextTypes, PTL DEF Spec

-----------------------------------------------------------------------------
(* One session                                                             *)

\* A socket that leaves the map with its connection (UnregisterClient, or the
\* failure of MarkUserOnline) leaves the other users' sessions alone,
\* wherever its goroutine goes on.
LEMMA UnregisteringKeepsSession ==
    ASSUME NEW s \in Sockets, TypeOK, OneSession, Unregistered(s),
           \A t \in Sockets \ {s} : pc'[t] = pc[t]
    PROVE  OneSession'
<1>1. \A u \in Users : conn'[u] \subseteq conn[u] /\ s \notin conn'[u]
  BY PresenceAssumption DEF TypeOK, OneSession, Unregistered
<1>2. \A t \in open' : t \in open /\ t # s /\ t \in Sockets
  BY DEF TypeOK, Unregistered
<1>3. \A t \in open' : t \in conn'[Owner[t]]
  BY <1>2, PresenceAssumption DEF TypeOK, OneSession, Unregistered
<1>4. \A u \in Users : \A t \in conn'[u] :
        Owner[t] = u /\ pc'[t] \in {"registered", "reading", "left"}
  BY <1>1 DEF TypeOK, OneSession
<1>5. \A u \in Users : \A t, v \in conn'[u] : t = v
  BY <1>1 DEF OneSession
<1>6. QED
  BY <1>3, <1>4, <1>5 DEF OneSession

\* disconnectLocal leaves the other users' sessions alone.
LEMMA DisconnectingKeepsSession ==
    ASSUME NEW u \in Users, TypeOK, OneSession, Disconnected(u), UNCHANGED pc
    PROVE  OneSession'
<1>1. \A w \in Users : conn'[w] = IF w = u THEN {} ELSE conn[w]
  BY DEF TypeOK, Disconnected
<1>2. \A t \in open' : Owner[t] # u /\ t \in conn'[Owner[t]]
  BY <1>1, PresenceAssumption DEF TypeOK, OneSession, Disconnected
<1>3. QED
  BY <1>1, <1>2 DEF OneSession

\* No goroutine ever sees two sessions of a user, a dead socket in the map or
\* an open one outside of it.
LEMMA NextOneSession == TypeOK /\ OneSession /\ [Next]_vars => OneSession'
<1> SUFFICES ASSUME TypeOK, OneSession, [Next]_vars
             PROVE  OneSession'
  OBVIOUS
<1>1. ASSUME NEW s \in Sockets, RegisterClient(s)
      PROVE  OneSession'
  <2>. DEFINE u == Owner[s]
  <2>1. u \in Users
    BY PresenceAssumption
  <2>2. \A w \in Users : conn'[w] = IF w = u THEN {s} ELSE conn[w]
    BY <1>1, <2>1 DEF TypeOK, RegisterClient
  <2>3. \A w \in Users : s \notin conn[w]
    BY <1>1 DEF OneSession, RegisterClient
  <2>4. pc'[s] = "registered" /\ \A t \in Sockets \ {s} : pc'[t] = pc[t]
    BY <1>1 DEF TypeOK, RegisterClient
  <2>5. \A t \in open' : t = s \/ (t \in open /\ t \notin conn[u])
    BY <1>1 DEF RegisterClient
  <2>6. \A t \in open' : t \in conn'[Owner[t]]
    BY <2>1, <2>2, <2>5, PresenceAssumption DEF TypeOK, OneSession
  <2>7. \A w \in Users : \A t \in conn'[w] :
          Owner[t] = w /\ pc'[t] \in {"registered", "reading", "left"}
    BY <2>2, <2>3, <2>4 DEF TypeOK, OneSession
  <2>8. \A w \in Users : \A t, v \in conn'[w] : t = v
    BY <2>2 DEF OneSession
  <2>9. QED
    BY <2>6, <2>7, <2>8 DEF OneSession
<1>2. ASSUME NEW s \in Sockets, MarkUserOnline(s) \/ ReadFails(s)
      PROVE  OneSession'
  BY <1>2 DEF TypeOK, OneSession, MarkUserOnline, ReadFails
<1>3. ASSUME NEW s \in Sockets, MarkUserOnlineFails(s)
      PROVE  OneSession'
  BY <1>3, UnregisteringKeepsSession DEF TypeOK, MarkUserOnlineFails
<1>4. ASSUME NEW s \in Sockets, UnregisterClient(s)
      PROVE  OneSession'
  BY <1>4, UnregisteringKeepsSession DEF TypeOK, UnregisterClient
<1>5. ASSUME NEW s \in Sockets, teardownUser(s) \/ MarkUserOffline(s)
      PROVE  OneSession'
  <2>1. \A u \in Users : s \notin conn[u]
    BY <1>5 DEF OneSession, teardownUser, MarkUserOffline
  <2>2. conn' = conn /\ open' = open /\ \A t \in Sockets \ {s} : pc'[t] = pc[t]
    BY <1>5 DEF TypeOK, teardownUser, MarkUserOffline
  <2>3. QED
    BY <2>1, <2>2 DEF TypeOK, OneSession
<1>6. ASSUME NEW s \in Sockets,
             handlePong(s) \/ FallSilent(s) \/ Drop(s) \/ \E k \in Kinds : Subscribe(s, k)
      PROVE  OneSession'
  BY <1>6 DEF OneSession, handlePong, FallSilent, Drop, Subscribe
<1>7. ASSUME NEW u \in Users, KickUser(u) \/ BusDisconnect(u)
      PROVE  OneSession'
  BY <1>7, DisconnectingKeepsSession DEF KickUser, BusDisconnect, DisconnectUser
<1>8. CASE DisconnectStale
  <2>1. reaper.user \in Users
    BY <1>8 DEF TypeOK, DisconnectStale
  <2>2. QED
    BY <1>8, <2>1, DisconnectingKeepsSession DEF DisconnectStale, DisconnectUser
<1>9. CASE RecordPongs
  BY <1>9 DEF OneSession, RecordPongs
<1>10. CASE takePongs \/ RecordPongsFails \/ StalePresence \/ TeardownStale
            \/ EvictStalePresence \/ UNCHANGED vars
  BY <1>10 DEF OneSession, takePongs, RecordPongsFails, StalePresence, TeardownStale,
               EvictStalePresence, vars, state
<1>11. ASSUME NEW u \in Users, HasConnection(u) \/ HeartbeatLapses(u)
       PROVE  OneSession'
  BY <1>11 DEF OneSession, HasConnection, HeartbeatLapses, state
<1>12. CASE Restart
  BY <1>12 DEF OneSession, Restart
<1>13. QED
  BY <1>1, <1>2, <1>3, <1>4, <1>5, <1>6, <1>7, <1>8, <1>9, <1>10, <1>11, <1>12 DEF Next

\* A user keeps a single active session, whatever registers, disconnects, is
\* reaped or crashes.
THEOREM SingleSession == Spec => []OneSession
<1>1. Init => OneSession
  BY DEF Init, OneSession
<1>2. QED
  BY <1>1, InitTypes, NextTypes, NextOneSession, PTL DEF Spec
=============================================================================
