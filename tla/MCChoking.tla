------------------------------ MODULE MCChoking -----------------------------
(* Instances of Choking for TLC. *)
EXTENDS Choking, TLC

CONSTANTS p1, p2, c1, c2, c3

OnePeer == {p1}
TwoPeers == {p1, p2}
TwoConns == {c1, c2}
ThreeConns == {c1, c2, c3}

(* The first peer may get two connections.                                 *)
IdOf == [c \in Conns |-> IF c = c3 THEN p2 ELSE p1]
Symmetry == Permutations({c1, c2})

(* What nothing can tell any more is left out: the past of a connection    *)
(* without a slot, the interest of one that does not have the last word, a *)
(* late message of a peer that has asked since, and a missed list where    *)
(* the peer is choked and no other list waits.                             *)
Present == {c \in Conns : conn[c] # "none"} \cup Range(adding)
View ==
  <<conn, adding, crossed \cap Present, lastWord, {c \in lastWord : interested[c]}, choking,
    asked, late \ asked, list, interestCh, interest, generosity,
    {c \in missed : list[c] # Empty \/ ~choking[c]}>>
=============================================================================
