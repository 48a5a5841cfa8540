----------------------------- MODULE MCTransfer -----------------------------
(* Instances of Transfer for TLC. *)
EXTENDS Transfer, TLC

CONSTANTS a, b, p1, p2, p3, p4

TwoNodes == {a, b}
ThreePieces == {p1, p2, p3}
FourPieces == {p1, p2, p3, p4}

(* Each has pieces for the other, and the last piece is nowhere. *)
Swapping == a :> {p1} @@ b :> {p2}
Trading == a :> {p1} @@ b :> {p2, p3}
=============================================================================
