-------------------------- MODULE PieceOrdersProofs -------------------------
(***************************************************************************)
(* Proofs about PieceOrders, for any finite set of pieces, any set of      *)
(* connections and any bitfields.  The inductive invariant says where      *)
(* every piece is: ordered, held, verified, stored or dropped, in exactly  *)
(* one of these places; every action moves at most one piece from one      *)
(* place to another.                                                       *)
(***************************************************************************)
EXTENDS PieceOrders, TLAPS, FiniteSetTheorems, SequenceTheorems

-----------------------------------------------------------------------------
(* Sequences without repetition.                                           *)

LEMMA AppendNew ==
  ASSUME NEW S, NEW s \in Seq(S), NEW e \in S
  PROVE  /\ Append(s, e) \in Seq(S)
         /\ Len(Append(s, e)) = Len(s) + 1
         /\ Range(Append(s, e)) = Range(s) \cup {e}
         /\ IsInjective(s) /\ e \notin Range(s) => IsInjective(Append(s, e))
<1>1. /\ Append(s, e) \in Seq(S) /\ Len(Append(s, e)) = Len(s) + 1
      /\ Len(s) \in Nat /\ DOMAIN s = 1..Len(s)
      /\ DOMAIN Append(s, e) = 1..(Len(s) + 1)
      /\ \A i \in 1..Len(s) : Append(s, e)[i] = s[i]
      /\ Append(s, e)[Len(s) + 1] = e
  BY LenProperties
<1>2. Range(Append(s, e)) = Range(s) \cup {e}
  <2>1. \A x \in Range(s) \cup {e} : x \in Range(Append(s, e))
    BY <1>1 DEF Range
  <2>2. \A x \in Range(Append(s, e)) : x \in Range(s) \cup {e}
    BY <1>1 DEF Range
  <2> QED BY <2>1, <2>2
<1>3. ASSUME IsInjective(s), e \notin Range(s)
      PROVE  IsInjective(Append(s, e))
  BY <1>1, <1>3 DEF IsInjective, Range
<1> QED BY <1>1, <1>2, <1>3

LEMMA TailDistinct ==
  ASSUME NEW S, NEW s \in Seq(S), s # <<>>, IsInjective(s)
  PROVE  /\ Head(s) \in Range(s) /\ Head(s) \in S
         /\ Tail(s) \in Seq(S)
         /\ Len(Tail(s)) = Len(s) - 1
         /\ Range(Tail(s)) = Range(s) \ {Head(s)}
         /\ IsInjective(Tail(s))
<1>1. /\ Tail(s) \in Seq(S) /\ Len(Tail(s)) = Len(s) - 1
      /\ Len(s) \in Nat \ {0} /\ DOMAIN s = 1..Len(s)
      /\ DOMAIN Tail(s) = 1..(Len(s) - 1)
      /\ \A i \in 1..(Len(s) - 1) : Tail(s)[i] = s[i + 1]
      /\ Head(s) = s[1] /\ Head(s) \in S
  BY HeadTailProperties, LenProperties, EmptySeq
<1>2. Head(s) \in Range(s)
  BY <1>1 DEF Range
<1>3. \A x \in Range(Tail(s)) : x \in Range(s) \ {Head(s)}
  BY <1>1 DEF Range, IsInjective
<1>4. ASSUME NEW x \in Range(s) \ {Head(s)} PROVE x \in Range(Tail(s))
  <2>1. PICK i \in 1..Len(s) : x = s[i] /\ i # 1
    BY <1>1, <1>4 DEF Range
  <2>2. i - 1 \in 1..(Len(s) - 1) /\ Tail(s)[i - 1] = x
    BY <1>1, <2>1
  <2> QED BY <1>1, <2>2 DEF Range
<1>5. IsInjective(Tail(s))
  BY <1>1 DEF IsInjective
<1> QED BY <1>1, <1>2, <1>3, <1>4, <1>5

LEMMA DistinctLength ==
  ASSUME NEW S, NEW s \in Seq(S), IsInjective(s)
  PROVE  IsFiniteSet(Range(s)) /\ Cardinality(Range(s)) = Len(s)
<1>1. Len(s) \in Nat /\ DOMAIN s = 1..Len(s) /\ s \in [1..Len(s) -> Range(s)]
  BY LenProperties DEF Range
<1>2. s \in Bijection(1..Len(s), Range(s))
  BY <1>1 DEF Bijection, Injection, Surjection, Range, IsInjective
<1>3. ExistsBijection(1..Len(s), Range(s))
  BY <1>2 DEF ExistsBijection
<1>4. IsFiniteSet(1..Len(s)) /\ Cardinality(1..Len(s)) = Len(s)
  BY <1>1, FS_Interval
<1> QED BY <1>3, <1>4, FS_Bijection

(* A sequence without repetition that misses an element of a finite set is *)
(* shorter than the set: why a send never waits.                           *)
LEMMA RoomForOneMore ==
  ASSUME NEW s \in Seq(Pieces), IsInjective(s)
  PROVE  /\ Len(s) \in 0..N
         /\ \A p \in Pieces : p \notin Range(s) => Len(s) < N
<1>1. N \in Nat /\ IsFiniteSet(Pieces)
  BY PiecesAssumption, FS_CardinalityType DEF N
<1>2. Cardinality(Range(s)) = Len(s) /\ Range(s) \in SUBSET Pieces
  <2>1. Range(s) \subseteq Pieces
    BY LenProperties DEF Range
  <2> QED BY <2>1, DistinctLength
<1>3. Len(s) <= N /\ (Len(s) = N => Range(s) = Pieces)
  BY <1>1, <1>2, FS_Subset DEF N
<1>4. Len(s) \in Nat
  BY LenProperties
<1> QED BY <1>1, <1>3, <1>4

-----------------------------------------------------------------------------
(* The inductive invariant.                                                *)

(* What the control state says of a goroutine's order.                     *)
ControlOK ==
  \A c \in Conns :
    /\ pc[c] = "off" => order[c] = NoOrder
    /\ pc[c] \in {"putback", "giveback"} => order[c] # NoOrder
    /\ buf[c] # "partial" => order[c] # NoOrder

(* The counter is exact, and the disk never holds more than memory.        *)
StoreOK ==
  /\ piecesDone = Cardinality(pieces)
  /\ disk \subseteq pieces
  /\ saved => disk = Pieces

Placed == NoPieceTwice /\ NoPieceLost
IInv == TypeOK /\ Placed /\ ControlOK /\ StoreOK

LEMMA NType == N \in Nat /\ IsFiniteSet(Pieces) /\ NoOrder \notin Pieces
BY PiecesAssumption, FS_CardinalityType DEF N

(* A goroutine lets go of its order.                                       *)
LEMMA Release ==
  ASSUME TypeOK, HeldOnce, NEW c \in Conns,
         order' = [order EXCEPT ![c] = NoOrder]
  PROVE  /\ order' \in [Conns -> Pieces \cup {NoOrder}]
         /\ Held' = Held \ {order[c]}
         /\ HeldOnce'
<1>1. order \in [Conns -> Pieces \cup {NoOrder}]
  BY DEF TypeOK
<1>2. \A d \in Conns : order'[d] = IF d = c THEN NoOrder ELSE order[d]
  BY <1>1
<1>3. \A p \in Held' : p \in Held \ {order[c]}
  BY <1>2 DEF Held, HeldOnce
<1>4. \A p \in Held \ {order[c]} : p \in Held'
  BY <1>2 DEF Held
<1>5. HeldOnce'
  BY <1>2 DEF HeldOnce
<1> QED BY <1>1, <1>3, <1>4, <1>5

(* A goroutine without an order takes one that nobody holds.               *)
LEMMA Grab ==
  ASSUME TypeOK, HeldOnce, NEW c \in Conns, order[c] = NoOrder,
         NEW p \in Pieces, p \notin Held,
         order' = [order EXCEPT ![c] = p]
  PROVE  /\ order' \in [Conns -> Pieces \cup {NoOrder}]
         /\ Held' = Held \cup {p}
         /\ HeldOnce'
<1>1. order \in [Conns -> Pieces \cup {NoOrder}]
  BY DEF TypeOK
<1>2. \A d \in Conns : order'[d] = IF d = c THEN p ELSE order[d]
  BY <1>1
<1>3. p # NoOrder
  BY NType
<1>4. \A q \in Held' : q \in Held \cup {p}
  BY <1>2 DEF Held
<1>5. \A q \in Held \cup {p} : q \in Held'
  BY <1>2, <1>3 DEF Held
<1>6. \A d \in Conns : order[d] # p
  BY <1>3 DEF Held
<1>7. HeldOnce'
  BY <1>2, <1>6 DEF HeldOnce
<1> QED BY <1>1, <1>4, <1>5, <1>7

LEMMA HeldOrder ==
  ASSUME TypeOK, NEW c \in Conns, order[c] # NoOrder
  PROVE  order[c] \in Pieces /\ order[c] \in Held
BY DEF TypeOK, Held

(* No piece moves.                                                         *)
LEMMA Unmoved ==
  ASSUME Placed, UNCHANGED <<orders, results, pieces, order, dropped>>
  PROVE  Placed'
BY DEF Placed, NoPieceTwice, NoPieceLost, Ordered, Held, Verified, HeldOnce

(* A held order goes back to the Orders channel.                           *)
LEMMA ReturnKeepsPlaces ==
  ASSUME TypeOK, Placed, NEW c \in Conns, order[c] # NoOrder,
         ReturnOrder(c), ResetProgress(c),
         UNCHANGED <<results, pieces, dropped>>
  PROVE  /\ orders' \in Seq(Pieces) /\ Len(orders') <= N
         /\ order' \in [Conns -> Pieces \cup {NoOrder}]
         /\ Placed'
<1>1. order[c] \in Pieces /\ order[c] \in Held
  BY HeldOrder
<1>2. /\ order' \in [Conns -> Pieces \cup {NoOrder}]
      /\ Held' = Held \ {order[c]} /\ HeldOnce'
  BY Release DEF ResetProgress, Placed, NoPieceTwice
<1>3. /\ orders' \in Seq(Pieces) /\ Len(orders') = Len(orders) + 1
      /\ Ordered' = Ordered \cup {order[c]}
      /\ IsInjective(orders) /\ order[c] \notin Ordered => IsInjective(orders')
  BY <1>1, AppendNew DEF ReturnOrder, TypeOK, Ordered
<1>4. Len(orders') <= N
  BY <1>3, NType, LenProperties DEF ReturnOrder, TypeOK
<1>5. Verified' = Verified
  BY DEF Verified
<1>6. NoPieceTwice'
  BY <1>1, <1>2, <1>3, <1>5 DEF Placed, NoPieceTwice
<1>7. NoPieceLost'
  BY <1>1, <1>2, <1>3, <1>5 DEF Placed, NoPieceLost
<1> QED BY <1>2, <1>3, <1>4, <1>6, <1>7 DEF Placed

(* The permutation main orders holds each missing piece exactly once.      *)
LEMMA PermutationOfMissing ==
  ASSUME NEW S \in SUBSET Pieces, NEW s \in SetToSeqs(S)
  PROVE  s \in Seq(Pieces) /\ IsInjective(s) /\ Range(s) = S
<1>1. IsFiniteSet(S) /\ Cardinality(S) \in Nat
  BY NType, FS_Subset, FS_CardinalityType
<1>2. s \in [1..Cardinality(S) -> S] /\ IsInjective(s)
  BY DEF SetToSeqs, IsInjective
<1>3. s \in Injection(1..Cardinality(S), S)
  BY <1>2 DEF Injection
<1>4. Cardinality(1..Cardinality(S)) = Cardinality(S)
  BY <1>1, FS_Interval
<1>5. s \in Surjection(1..Cardinality(S), S)
  BY <1>1, <1>3, <1>4, FS_Injection
<1>6. Range(s) = S
  BY <1>2, <1>5 DEF Surjection, Range
<1>7. s \in Seq(Pieces)
  BY <1>1, <1>2
<1> QED BY <1>2, <1>6, <1>7

LEMMA InitIInv == Init => IInv
<1> SUFFICES ASSUME Init PROVE IInv
  OBVIOUS
<1>1. orders \in Seq(Pieces) /\ IsInjective(orders) /\ Ordered = Pieces \ pieces
  BY PermutationOfMissing DEF Init, Ordered
<1>2. results \in Seq(Pieces) /\ IsInjective(results) /\ Verified = {}
      /\ Len(results) = 0
  BY DEF Init, Verified, Range, IsInjective
<1>3. Held = {} /\ HeldOnce
  BY DEF Init, Held, HeldOnce
<1>4. piecesDone = Cardinality(pieces) /\ piecesDone \in 0..N
  BY NType, FS_Subset, FS_CardinalityType DEF Init, N
<1>5. Len(orders) <= N
  BY <1>1, RoomForOneMore
<1>6. TypeOK
  BY <1>1, <1>2, <1>4, <1>5, NType DEF Init, TypeOK
<1>7. Placed
  BY <1>1, <1>2, <1>3 DEF Init, Placed, NoPieceTwice, NoPieceLost
<1>8. ControlOK
  BY DEF Init, ControlOK
<1>9. StoreOK
  BY <1>4 DEF Init, StoreOK
<1> QED BY <1>6, <1>7, <1>8, <1>9 DEF IInv

-----------------------------------------------------------------------------
(* The steps of a goroutine.  They leave main's variables alone, unless    *)
(* the process crashes.                                                    *)

LEMMA MainIsLeftAlone ==
  ASSUME NEW c \in Conns, ConnStep(c)
  PROVE  Panic(c) \/ UNCHANGED mainVars
BY DEF ConnStep, OpenConnection, RunLoop, HashMismatch, DeliverPiece,
   HaveNotSent, TakeOrder, PutBack, Proceed, GiveBack, Select,
   ReceiveLastChunk, ReceiveBitfield, Wake, RejectMessage, LoseConnection,
   ContextDone, LeaveSelect

LEMMA ConnStepIInv ==
  ASSUME IInv, NEW c \in Conns, ConnStep(c)
  PROVE  IInv'
<1> USE DEF IInv
<1>1. Panic(c) \/ UNCHANGED mainVars
  BY MainIsLeftAlone
<1>2. StoreOK'
  BY <1>1 DEF Panic, StoreOK, mainVars
<1>3. CASE OpenConnection(c)
  <2>1. TypeOK' /\ ControlOK'
    BY <1>3 DEF OpenConnection, Goto, mainVars, TypeOK, ControlOK
  <2>2. Placed'
    BY <1>3, Unmoved DEF OpenConnection, mainVars
  <2> QED BY <1>2, <2>1, <2>2
<1>4. CASE HashMismatch(c)
  <2>1. order[c] # NoOrder
    BY <1>4 DEF HashMismatch, ControlOK
  <2>2. /\ orders' \in Seq(Pieces) /\ Len(orders') <= N
        /\ order' \in [Conns -> Pieces \cup {NoOrder}]
        /\ Placed'
    BY <1>4, <2>1, ReturnKeepsPlaces DEF HashMismatch, mainVars
  <2>3. TypeOK' /\ ControlOK'
    BY <1>4, <2>2 DEF HashMismatch, ResetProgress, mainVars, TypeOK, ControlOK
  <2> QED BY <1>2, <2>2, <2>3
<1>5. CASE DeliverPiece(c)
  <2>1. order[c] \in Pieces /\ order[c] \in Held
    BY <1>5, HeldOrder DEF DeliverPiece, ControlOK
  <2>2. /\ order' \in [Conns -> Pieces \cup {NoOrder}]
        /\ Held' = Held \ {order[c]} /\ HeldOnce'
    BY <1>5, Release DEF DeliverPiece, ResetProgress, Placed, NoPieceTwice
  <2>3. /\ results' \in Seq(Pieces) /\ Len(results') = Len(results) + 1
        /\ Verified' = Verified \cup {order[c]}
        /\ IsInjective(results) /\ order[c] \notin Verified => IsInjective(results')
    BY <1>5, <2>1, AppendNew DEF DeliverPiece, TypeOK, Verified
  <2>4. Ordered' = Ordered /\ UNCHANGED <<orders, pieces, dropped>>
    BY <1>5 DEF DeliverPiece, mainVars, Ordered
  <2>5. Placed'
    BY <2>1, <2>2, <2>3, <2>4 DEF Placed, NoPieceTwice, NoPieceLost
  <2>6. Len(results') <= N
    BY <1>5, <2>3, NType, LenProperties DEF DeliverPiece, TypeOK
  <2>7. TypeOK' /\ ControlOK'
    BY <1>5, <2>2, <2>3, <2>6
       DEF DeliverPiece, ResetProgress, mainVars, TypeOK, ControlOK
  <2> QED BY <1>2, <2>5, <2>7
<1>6. CASE HaveNotSent(c)
  <2>1. TypeOK' /\ ControlOK'
    BY <1>6 DEF HaveNotSent, Goto, mainVars, TypeOK, ControlOK
  <2>2. Placed'
    BY <1>6, Unmoved DEF HaveNotSent, mainVars
  <2> QED BY <1>2, <2>1, <2>2
<1>7. CASE TakeOrder(c)
  <2> DEFINE p == Head(orders)
  <2>1. /\ p \in Ordered /\ p \in Pieces
        /\ orders' \in Seq(Pieces) /\ Len(orders') = Len(orders) - 1
        /\ Ordered' = Ordered \ {p} /\ IsInjective(orders')
    BY <1>7, TailDistinct
       DEF TakeOrder, PopOrder, TypeOK, Ordered, Placed, NoPieceTwice
  <2>2. p \notin Held
    BY <2>1 DEF Placed, NoPieceTwice
  <2>3. /\ order' \in [Conns -> Pieces \cup {NoOrder}]
        /\ Held' = Held \cup {p} /\ HeldOnce'
    BY <1>7, <2>1, <2>2, Grab DEF TakeOrder, Placed, NoPieceTwice
  <2>4. Verified' = Verified /\ UNCHANGED <<results, pieces, dropped>>
    BY <1>7 DEF TakeOrder, mainVars, Verified
  <2>5. Placed'
    BY <2>1, <2>3, <2>4 DEF Placed, NoPieceTwice, NoPieceLost
  <2>6. Len(orders') <= N
    BY <2>1, NType, LenProperties DEF TypeOK
  <2>7. TypeOK'
    BY <1>7, <2>1, <2>3, <2>6 DEF TakeOrder, Goto, mainVars, TypeOK
  <2>8. ControlOK'
    BY <1>7, <2>1, NType DEF TakeOrder, Goto, TypeOK, ControlOK
  <2> QED BY <1>2, <2>5, <2>7, <2>8
<1>8. CASE PutBack(c)
  <2>1. order[c] # NoOrder
    BY <1>8 DEF PutBack, ControlOK
  <2>2. /\ orders' \in Seq(Pieces) /\ Len(orders') <= N
        /\ order' \in [Conns -> Pieces \cup {NoOrder}]
        /\ Placed'
    BY <1>8, <2>1, ReturnKeepsPlaces DEF PutBack, mainVars
  <2>3. TypeOK' /\ ControlOK'
    BY <1>8, <2>2 DEF PutBack, Goto, ResetProgress, mainVars, TypeOK, ControlOK
  <2> QED BY <1>2, <2>2, <2>3
<1>9. CASE Proceed(c)
  <2>1. TypeOK' /\ ControlOK'
    BY <1>9 DEF Proceed, Goto, mainVars, TypeOK, ControlOK
  <2>2. Placed'
    BY <1>9, Unmoved DEF Proceed, mainVars
  <2> QED BY <1>2, <2>1, <2>2
<1>10. CASE GiveBack(c)
  <2>1. order[c] # NoOrder
    BY <1>10 DEF GiveBack, ControlOK
  <2>2. /\ orders' \in Seq(Pieces) /\ Len(orders') <= N
        /\ order' \in [Conns -> Pieces \cup {NoOrder}]
        /\ Placed'
    BY <1>10, <2>1, ReturnKeepsPlaces DEF GiveBack, mainVars
  <2>3. TypeOK' /\ ControlOK'
    BY <1>10, <2>2 DEF GiveBack, Goto, ResetProgress, mainVars, TypeOK, ControlOK
  <2> QED BY <1>2, <2>2, <2>3
<1>11. ASSUME NEW hash \in {"good", "bad"}, ReceiveLastChunk(c, hash)
       PROVE  IInv'
  <2>1. TypeOK' /\ ControlOK'
    BY <1>11 DEF ReceiveLastChunk, Goto, mainVars, TypeOK, ControlOK
  <2>2. Placed'
    BY <1>11, Unmoved DEF ReceiveLastChunk, mainVars
  <2> QED BY <1>2, <2>1, <2>2
<1>12. ASSUME NEW b \in Bitfields, ReceiveBitfield(c, b)
       PROVE  IInv'
  <2>1. TypeOK' /\ ControlOK'
    BY <1>12 DEF ReceiveBitfield, Goto, mainVars, TypeOK, ControlOK
  <2>2. Placed'
    BY <1>12, Unmoved DEF ReceiveBitfield, mainVars
  <2> QED BY <1>2, <2>1, <2>2
<1>13. CASE Wake(c)
  <2>1. TypeOK' /\ ControlOK'
    BY <1>13 DEF Wake, Goto, mainVars, TypeOK, ControlOK
  <2>2. Placed'
    BY <1>13, Unmoved DEF Wake, mainVars
  <2> QED BY <1>2, <2>1, <2>2
<1>14. CASE RejectMessage(c)
  <2>1. /\ order' \in [Conns -> Pieces \cup {NoOrder}]
        /\ Held' = Held \ {order[c]} /\ HeldOnce'
    BY <1>14, Release DEF RejectMessage, ResetProgress, Placed, NoPieceTwice
  <2>2. order[c] # NoOrder => order[c] \in Pieces /\ order[c] \in Held
    BY HeldOrder
  <2>3. /\ dropped' = dropped \cup ({order[c]} \ {NoOrder})
        /\ Ordered' = Ordered /\ Verified' = Verified
        /\ UNCHANGED <<orders, results, pieces>>
    BY <1>14 DEF RejectMessage, mainVars, Ordered, Verified
  <2>4. Placed'
    <3>1. CASE order[c] = NoOrder
      <4>1. Held' = Held /\ dropped' = dropped
        BY <2>1, <2>3, <3>1 DEF Held
      <4> QED BY <2>1, <2>3, <4>1 DEF Placed, NoPieceTwice, NoPieceLost
    <3>2. CASE order[c] # NoOrder
      <4>1. dropped' = dropped \cup {order[c]}
        BY <2>3, <3>2
      <4> QED BY <2>1, <2>2, <2>3, <3>2, <4>1 DEF Placed, NoPieceTwice, NoPieceLost
    <3> QED BY <3>1, <3>2
  <2>5. TypeOK' /\ ControlOK'
    BY <1>14, <2>1, <2>2, <2>3
       DEF RejectMessage, Goto, ResetProgress, mainVars, TypeOK, ControlOK
  <2> QED BY <1>2, <2>4, <2>5
<1>15. CASE LeaveSelect(c)
  <2>1. TypeOK' /\ ControlOK'
    BY <1>15 DEF LeaveSelect, Goto, mainVars, TypeOK, ControlOK
  <2>2. Placed'
    BY <1>15, Unmoved DEF LeaveSelect, mainVars
  <2> QED BY <1>2, <2>1, <2>2
<1>16. CASE Panic(c)
  <2>1. TypeOK' /\ ControlOK'
    BY <1>16 DEF Panic, connVars, TypeOK, ControlOK
  <2>2. Placed'
    BY <1>16, Unmoved DEF Panic, connVars
  <2> QED BY <1>2, <2>1, <2>2
<1> QED
  BY <1>3, <1>4, <1>5, <1>6, <1>7, <1>8, <1>9, <1>10, <1>11, <1>12, <1>13,
     <1>14, <1>15, <1>16 DEF ConnStep, RunLoop, Select, LoseConnection, ContextDone

-----------------------------------------------------------------------------
(* The steps of main.                                                      *)

(* A piece that is in Results is new, so the counter stays exact.          *)
LEMMA RecordPieceFacts ==
  ASSUME IInv, RecordPiece
  PROVE  /\ Head(results) \in Pieces \ pieces
         /\ pieces' = pieces \cup {Head(results)}
         /\ piecesDone' = Cardinality(pieces') /\ piecesDone' \in 0..N
         /\ piecesDone' = N => pieces' = Pieces
<1> USE DEF IInv
<1>1. Head(results) \in Verified /\ Head(results) \in Pieces
  BY TailDistinct
     DEF RecordPiece, ResultReady, TypeOK, Placed, NoPieceTwice, Verified
<1>2. Head(results) \notin pieces
  BY <1>1 DEF Placed, NoPieceTwice
<1>3. pieces' = pieces \cup {Head(results)} /\ piecesDone' = piecesDone + 1
  BY DEF RecordPiece
<1>4. pieces' \in SUBSET Pieces /\ IsFiniteSet(pieces)
  BY <1>1, <1>3, NType, FS_Subset DEF TypeOK
<1>5. piecesDone' = Cardinality(pieces')
  BY <1>2, <1>3, <1>4, FS_AddElement DEF StoreOK
<1>6. /\ Cardinality(pieces') <= N
      /\ Cardinality(pieces') = N => pieces' = Pieces
  BY <1>4, NType, FS_Subset DEF N
<1>7. Cardinality(pieces') \in Nat
  BY <1>4, NType, FS_Subset, FS_CardinalityType
<1> QED BY <1>1, <1>2, <1>3, <1>5, <1>6, <1>7, NType

LEMMA MainStepIInv ==
  ASSUME IInv, RecordPiece \/ MainTick \/ AskTracker \/ TrackerAnswers \/ Interrupt \/ Exit
  PROVE  IInv'
<1> USE DEF IInv
<1>1. CASE RecordPiece
  <2> DEFINE p == Head(results)
  <2>1. /\ p \in Pieces \ pieces /\ pieces' = pieces \cup {p}
        /\ piecesDone' = Cardinality(pieces') /\ piecesDone' \in 0..N
        /\ piecesDone' = N => pieces' = Pieces
    BY <1>1, RecordPieceFacts
  <2>2. /\ p \in Verified
        /\ results' \in Seq(Pieces) /\ Len(results') = Len(results) - 1
        /\ Verified' = Verified \ {p} /\ IsInjective(results')
    BY <1>1, TailDistinct
       DEF RecordPiece, ResultReady, TypeOK, Verified, Placed, NoPieceTwice
  <2>3. /\ UNCHANGED <<orders, main, connVars, dropped>>
        /\ Ordered' = Ordered /\ Held' = Held /\ HeldOnce' = HeldOnce
    BY <1>1 DEF RecordPiece, connVars, Ordered, Held, HeldOnce
  <2>4. Placed'
    BY <2>1, <2>2, <2>3 DEF Placed, NoPieceTwice, NoPieceLost
  <2>5. \/ piecesDone' = N /\ saved' = TRUE /\ disk' = pieces'
        \/ UNCHANGED <<saved, disk>>
    BY <1>1 DEF RecordPiece, SaveIfComplete, AllDone
  <2>6. StoreOK'
    BY <2>1, <2>5 DEF StoreOK
  <2>7. Len(results') <= N
    BY <2>2, NType, LenProperties DEF TypeOK
  <2>8. TypeOK'
    BY <2>1, <2>2, <2>3, <2>5, <2>7 DEF TypeOK, connVars
  <2>9. ControlOK'
    BY <2>3 DEF ControlOK, connVars
  <2> QED BY <2>4, <2>6, <2>8, <2>9
<1>2. CASE MainTick
  <2>1. saved' = TRUE /\ disk' = pieces /\ piecesDone = N
        /\ UNCHANGED <<orders, results, pieces, piecesDone, main, connVars, dropped>>
    BY <1>2 DEF MainTick, SaveIfComplete, AllDone
  <2>2. pieces = Pieces
    BY <2>1, NType, FS_Subset DEF StoreOK, TypeOK, N
  <2>3. TypeOK' /\ ControlOK' /\ StoreOK'
    BY <2>1, <2>2 DEF TypeOK, ControlOK, StoreOK, connVars
  <2>4. Placed'
    BY <2>1, Unmoved DEF connVars
  <2> QED BY <2>3, <2>4
<1>3. CASE Interrupt
  <2>1. TypeOK' /\ ControlOK' /\ StoreOK'
    BY <1>3 DEF Interrupt, TypeOK, ControlOK, StoreOK, connVars
  <2>2. Placed'
    BY <1>3, Unmoved DEF Interrupt, connVars
  <2> QED BY <2>1, <2>2
<1>4. CASE Exit
  <2>1. /\ UNCHANGED <<orders, results, pieces, piecesDone, saved, connVars, dropped>>
        /\ main' = "exited"
    BY <1>4 DEF Exit
  <2>2. \/ disk' = disk
        \/ ~saved /\ disk' = disk \cup pieces
    <3>1. CASE ~saved /\ Cardinality(disk) < N
      BY <1>4, <3>1 DEF Exit
    <3>2. CASE ~(~saved /\ Cardinality(disk) < N)
      BY <1>4, <3>2 DEF Exit
    <3> QED BY <3>1, <3>2
  <2>3. TypeOK' /\ ControlOK' /\ StoreOK'
    BY <2>1, <2>2 DEF TypeOK, ControlOK, StoreOK, connVars
  <2>4. Placed'
    BY <2>1, Unmoved DEF connVars
  <2> QED BY <2>3, <2>4
<1>5. CASE AskTracker
  <2>1. TypeOK' /\ ControlOK' /\ StoreOK'
    BY <1>5 DEF AskTracker, TypeOK, ControlOK, StoreOK, connVars
  <2>2. Placed'
    BY <1>5, Unmoved DEF AskTracker, connVars
  <2> QED BY <2>1, <2>2
<1>6. CASE TrackerAnswers
  <2>1. /\ UNCHANGED <<orders, results, pieces, piecesDone, connVars, dropped>>
        /\ main' = "loop"
        /\ \/ piecesDone = N /\ saved' = TRUE /\ disk' = pieces
           \/ UNCHANGED <<saved, disk>>
    BY <1>6 DEF TrackerAnswers, SaveIfComplete, AllDone
  <2>2. piecesDone = N => pieces = Pieces
    BY NType, FS_Subset DEF StoreOK, TypeOK, N
  <2>3. disk' \in SUBSET Pieces /\ saved' \in BOOLEAN
    BY <2>1 DEF TypeOK
  <2>4. TypeOK'
    BY <2>1, <2>3 DEF TypeOK, connVars
  <2>5. ControlOK'
    BY <2>1 DEF ControlOK, connVars
  <2>6. StoreOK'
    <3>1. CASE piecesDone = N /\ saved' = TRUE /\ disk' = pieces
      BY <2>1, <2>2, <3>1 DEF StoreOK
    <3>2. CASE UNCHANGED <<saved, disk>>
      BY <2>1, <3>2 DEF StoreOK
    <3> QED BY <2>1, <3>1, <3>2
  <2>7. Placed'
    BY <2>1, Unmoved DEF connVars
  <2> QED BY <2>4, <2>5, <2>6, <2>7
<1> QED BY <1>1, <1>2, <1>3, <1>4, <1>5, <1>6

LEMMA NextIInv == IInv /\ [Next]_vars => IInv'
<1> SUFFICES ASSUME IInv, [Next]_vars PROVE IInv'
  OBVIOUS
<1>1. CASE UNCHANGED vars
  <2>1. Placed'
    BY <1>1, Unmoved DEF IInv, vars, mainVars, connVars
  <2>2. TypeOK' /\ ControlOK' /\ StoreOK'
    BY <1>1 DEF IInv, TypeOK, ControlOK, StoreOK, vars, mainVars, connVars
  <2> QED BY <2>1, <2>2 DEF IInv
<1>2. CASE Next
  BY <1>1, <1>2, ConnStepIInv, MainStepIInv DEF Next, Terminated
<1> QED BY <1>1, <1>2

LEMMA Invariance == Spec => []IInv
BY InitIInv, NextIInv, PTL DEF Spec

-----------------------------------------------------------------------------
(* The theorems.                                                           *)

(* Every variable keeps its type and no channel exceeds its capacity.      *)
THEOREM TypeCorrect == Spec => []TypeOK
<1>1. IInv => TypeOK
  BY DEF IInv
<1> QED BY <1>1, Invariance, PTL

(* No piece is ever in two places: ordered, held by one goroutine,         *)
(* verified, stored, dropped.                                              *)
THEOREM NeverTwice == Spec => []NoPieceTwice
<1>1. IInv => NoPieceTwice
  BY DEF IInv, Placed
<1> QED BY <1>1, Invariance, PTL

(* Every piece is in one of these places.                                  *)
THEOREM NeverLost == Spec => []NoPieceLost
<1>1. IInv => NoPieceLost
  BY DEF IInv, Placed
<1> QED BY <1>1, Invariance, PTL

(* A goroutine that is about to send to Orders or Results finds room.      *)
THEOREM NeverBlocked == Spec => []SendsNeverBlock
<1>1. IInv => SendsNeverBlock
  <2> SUFFICES ASSUME IInv, NEW c \in Conns
               PROVE  /\ \/ pc[c] \in {"putback", "giveback"}
                         \/ pc[c] = "top" /\ buf[c] = "bad"
                         => Len(orders) < N
                      /\ pc[c] = "top" /\ buf[c] = "good" => Len(results) < N
    BY DEF SendsNeverBlock
  <2>1. order[c] # NoOrder =>
          order[c] \in Pieces /\ order[c] \notin Ordered /\ order[c] \notin Verified
    BY HeldOrder DEF IInv, Placed, NoPieceTwice
  <2>2. order[c] # NoOrder => Len(orders) < N /\ Len(results) < N
    BY <2>1, RoomForOneMore
       DEF IInv, TypeOK, Placed, NoPieceTwice, Ordered, Verified
  <2> QED BY <2>2 DEF IInv, ControlOK
<1> QED BY <1>1, Invariance, PTL

(* When the counter says that the download is over, nothing is under way.  *)
THEOREM CompletionIsQuiet == Spec => []CompleteMeansIdle
<1>1. IInv => CompleteMeansIdle
  <2> SUFFICES ASSUME IInv, piecesDone = N
               PROVE  /\ pieces = Pieces
                      /\ orders = <<>> /\ results = <<>>
                      /\ \A c \in Conns : order[c] = NoOrder
    BY DEF CompleteMeansIdle
  <2>1. pieces = Pieces
    BY NType, FS_Subset DEF IInv, StoreOK, TypeOK, N
  <2>2. \A s \in Seq(Pieces) : Range(s) \cap Pieces = {} => s = <<>>
    <3> SUFFICES ASSUME NEW s \in Seq(Pieces), s # <<>>
                 PROVE  Range(s) \cap Pieces # {}
      OBVIOUS
    <3>1. s[1] \in Range(s) /\ s[1] \in Pieces
      BY EmptySeq, LenProperties, ElementOfSeq DEF Range
    <3> QED BY <3>1
  <2>3. orders = <<>> /\ results = <<>>
    BY <2>1, <2>2 DEF IInv, TypeOK, Placed, NoPieceTwice, Ordered, Verified
  <2>4. \A c \in Conns : order[c] = NoOrder
    BY <2>1, HeldOrder DEF IInv, Placed, NoPieceTwice
  <2> QED BY <2>1, <2>3, <2>4
<1> QED BY <1>1, Invariance, PTL

-----------------------------------------------------------------------------
(* The refinement.                                                         *)

LEMMA InitImplements == Init => D!Init
BY DEF Init, D!Init, State

(* What the state of the run depends on.                                   *)
LEMMA StateValues ==
  /\ main \notin {"exited", "crashed"} => State = "running"
  /\ main = "exited" => State = "stopped"
  /\ main = "crashed" => State = "crashed"
BY DEF State

LEMMA NextStateValues ==
  /\ main' \notin {"exited", "crashed"} => State' = "running"
  /\ main' = "exited" => State' = "stopped"
  /\ main' = "crashed" => State' = "crashed"
BY DEF State

LEMMA StepImplements == IInv /\ [Next]_vars => [D!Next]_D!vars
<1> SUFFICES ASSUME IInv, [Next]_vars PROVE [D!Next]_D!vars
  OBVIOUS
<1>1. CASE RecordPiece
  <2>1. /\ Head(results) \in Pieces \ pieces
        /\ pieces' = pieces \cup {Head(results)}
        /\ piecesDone' = N => pieces' = Pieces
    BY <1>1, RecordPieceFacts
  <2>2. State = "running" /\ State' = State
    BY <1>1, StateValues, NextStateValues DEF RecordPiece, ResultReady
  <2>3. D!Write \/ UNCHANGED <<disk, saved>>
    BY <1>1, <2>1 DEF RecordPiece, SaveIfComplete, AllDone, D!Write
  <2>4. D!Gather
    BY <2>1, <2>2, <2>3 DEF D!Gather
  <2> QED BY <2>4 DEF D!Next
<1>2. CASE MainTick
  <2>1. pieces = Pieces
    BY <1>2, NType, FS_Subset DEF MainTick, IInv, StoreOK, TypeOK, N
  <2>2. State = "running" /\ State' = State
    BY <1>2, StateValues, NextStateValues DEF MainTick
  <2>3. D!Save
    BY <1>2, <2>1, <2>2 DEF MainTick, SaveIfComplete, AllDone, D!Save, D!Write
  <2> QED BY <2>3 DEF D!Next
<1>3. CASE Exit
  <2>1. IsFiniteSet(disk) /\ Cardinality(disk) \in Nat /\ Cardinality(disk) <= N
        /\ (Cardinality(disk) = N => disk = Pieces)
    BY NType, FS_Subset, FS_CardinalityType DEF IInv, TypeOK, N
  <2>2. disk' = pieces
    <3>1. CASE ~saved /\ Cardinality(disk) < N
      <4>1. disk' = disk \cup pieces
        BY <1>3, <3>1 DEF Exit
      <4> QED BY <4>1 DEF IInv, StoreOK
    <3>2. CASE ~(~saved /\ Cardinality(disk) < N)
      <4>1. disk' = disk
        BY <1>3, <3>2 DEF Exit
      <4>2. saved \/ Cardinality(disk) = N
        BY <2>1, <3>2, NType
      <4>3. disk = Pieces
        BY <2>1, <4>2 DEF IInv, StoreOK
      <4> QED BY <4>1, <4>3 DEF IInv, StoreOK, TypeOK
    <3> QED BY <3>1, <3>2
  <2>3. State = "running" /\ State' = "stopped"
    BY <1>3, StateValues, NextStateValues DEF Exit
  <2>4. D!Stop
    BY <1>3, <2>2, <2>3 DEF Exit, D!Stop
  <2> QED BY <2>4 DEF D!Next
<1>4. CASE Interrupt \/ AskTracker
  <2>1. State = "running" /\ State' = State
    BY <1>4, StateValues, NextStateValues DEF Interrupt, AskTracker
  <2> QED BY <1>4, <2>1 DEF Interrupt, AskTracker, D!vars
<1>5. CASE TrackerAnswers
  <2>1. State = "running" /\ State' = State /\ UNCHANGED pieces
    BY <1>5, StateValues, NextStateValues DEF TrackerAnswers
  <2>2. CASE piecesDone = N /\ ~saved
    <3>1. pieces = Pieces
      BY <2>2, NType, FS_Subset DEF IInv, StoreOK, TypeOK, N
    <3>2. D!Save
      BY <1>5, <2>1, <2>2, <3>1
         DEF TrackerAnswers, SaveIfComplete, AllDone, D!Save, D!Write
    <3> QED BY <3>2 DEF D!Next
  <2>3. CASE ~(piecesDone = N /\ ~saved)
    <3>1. UNCHANGED <<saved, disk>>
      BY <1>5, <2>3 DEF TrackerAnswers, SaveIfComplete, AllDone
    <3> QED BY <2>1, <3>1 DEF D!vars
  <2> QED BY <2>2, <2>3
<1>6. ASSUME NEW c \in Conns, ~Over, Panic(c)
      PROVE  D!Next
  <2>1. State = "running" /\ State' = "crashed"
    BY <1>6, StateValues, NextStateValues DEF Panic, Over
  <2>2. D!Crash
    BY <1>6, <2>1 DEF Panic, D!Crash
  <2> QED BY <2>2 DEF D!Next
<1>7. UNCHANGED mainVars => UNCHANGED D!vars
  BY DEF mainVars, D!vars, State
<1>8. CASE UNCHANGED vars
  BY <1>7, <1>8 DEF vars
<1>9. ASSUME NEW c \in Conns, ~Over, ConnStep(c)
      PROVE  [D!Next]_D!vars
  BY <1>6, <1>7, <1>9, MainIsLeftAlone
<1> QED BY <1>1, <1>2, <1>3, <1>4, <1>5, <1>8, <1>9 DEF Next, Terminated

(* The work queue, with all its goroutines, implements Download: pieces    *)
(* are stored once each, the file is written only when complete, and a run *)
(* that stops leaves what it stored on disk.  Only a panic loses some.     *)
THEOREM Implementation == Spec => ImplementsDownload
<1>1. Spec => D!Spec
  BY InitImplements, StepImplements, Invariance, PTL DEF Spec, D!Spec
<1> QED BY <1>1 DEF ImplementsDownload
=============================================================================
