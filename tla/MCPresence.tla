----------------------------- MODULE MCPresence -----------------------------
(* Instances of Presence for TLC: one user, who connects several times.    *)
EXTENDS Presence
CONSTANTS u1

MCOwner == [s \in Sockets |-> u1]
=============================================================================
