---------------------------- MODULE MCPieceOrders ---------------------------
(* Instances of PieceOrders for TLC. *)
EXTENDS PieceOrders

CONSTANTS p1, p2, c1, c2, c3

TwoPieces == {p1, p2}
ThreeConns == {c1, c2, c3}

(* Complete peers, and peers that have nothing but p1. *)
MixedPeers == {TwoPieces, {p1}}
=============================================================================
