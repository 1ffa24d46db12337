----------------------------- MODULE MCPeerQueue -----------------------------
(* Instances of PeerQueue for TLC. *)
EXTENDS PeerQueue, TLC
CONSTANTS p1, p2, h1, h2, d1, d2

\* The handlers of a pair are alike, and what is checked with this is safety.
Alike == Permutations({h1, h2})

Busy == {h \in Handlers : handler[h].pc # "idle"}

\* BOUND: two requests overlap only in the first two seconds, and while they
\* do the pair is not blocked and no call given up on is under way.
FewAtOnce ==
    Cardinality(Busy) > 1 =>
        second <= 2 /\ blocked = {} /\ \A k \in calls : k.by # Nobody
=============================================================================
