------------------------------ MODULE MCRelay ------------------------------
(* Instances of Relay for TLC: a writes r1, b may hold it from the start, *)
(* c asks for it.                                                          *)
EXTENDS Relay, TLC
CONSTANTS a, b, c, r1

MCAuthor == (r1 :> a)
MCNoFollows == [u \in Users |-> {}]
MCFollows == [u \in Users |-> IF u = c THEN {r1} ELSE {}]
MCNoHolders == {}
MCTwoHolders == {<<r1, b>>}
=============================================================================
