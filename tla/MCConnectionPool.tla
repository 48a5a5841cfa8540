-------------------------- MODULE MCConnectionPool --------------------------
(* Instances of ConnectionPool for TLC. *)
EXTENDS ConnectionPool, TLC

CONSTANTS h1, h2, h3, i1, i2, i3, i4

TwoHosts == {h1, h2}
TwoTracked == <<h1, h2>>
ThreeHosts == {h1, h2, h3}
ThreeTracked == <<h1, h2, h3>>

(* One connection to each host, or two to h1 and one to each other host. *)
TwoIds == {i1, i3}
ThreeIds == {i1, i2, i3}
FourIds == {i1, i2, i3, i4}
TwoIdHosts == i1 :> h1 @@ i3 :> h2
DoubleIdHosts == i1 :> h1 @@ i2 :> h1 @@ i3 :> h2
FourIdHosts == DoubleIdHosts @@ i4 :> h3

(* A slot that is neither in the slice nor pointed to is never read again: *)
(* an append overwrites it first.                                          *)
Readable(k, i) ==
  \/ k = cap /\ i <= len
  \/ \E t \in Threads : pointer[t] = <<k, i>>

ReadableMemory ==
  [k \in Capacities |-> [i \in 1..k |-> IF Readable(k, i) THEN memory[k][i] ELSE NoId]]
View == <<ReadableMemory, cap, len, blacklist, connVars, complete, pc, conn,
          pointer, toRemove, launch>>

Symmetry == Permutations({i1, i2})
=============================================================================
