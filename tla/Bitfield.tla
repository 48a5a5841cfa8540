------------------------------ MODULE Bitfield ------------------------------
(***************************************************************************)
(* A set of piece indexes as the protocol has it: bytes, in which index 0  *)
(* is the highest bit of the first one.  A client makes its field empty or *)
(* full, sets bits in it as pieces arrive, and sends its bytes to a peer,  *)
(* which first counts them.  For integers, "or" and "and" with a mask are  *)
(* written as arithmetic.                                                  *)
(***************************************************************************)
EXTENDS Integers, Sequences, FiniteSets

CONSTANT MaxLength   \* bound: pieces of a torrent

ASSUME MaxLengthAssumption == MaxLength \in Nat \ {0}

VARIABLES
  length,      \* Bitfield.Length, the same at both ends
  made,        \* history: the function that made the field
  data,        \* Bitfield.data
  members,     \* history: the indexes that were set, and not unset since
  received,    \* the peer's copy of data, empty if it has none
  announced    \* history: members when it was sent

vars == <<length, made, data, members, received, announced>>

Indexes == 0..(length - 1)

-----------------------------------------------------------------------------
(* One bit.  Variant: index 0 is the lowest bit.                           *)

FromLowest(index) == index % 8
Shift(index) == 7 - (index % 8)
Mask(index) == 2 ^ Shift(index)
ByteOf(index) == index \div 8 + 1
BitOf(byte, index) == (byte \div Mask(index)) % 2

Get(bytes, index) == BitOf(bytes[ByteOf(index)], index) = 1

With(byte, index, value) ==
  CASE value /\ BitOf(byte, index) = 0 -> byte + Mask(index)
    [] ~value /\ BitOf(byte, index) = 1 -> byte - Mask(index)
    [] OTHER -> byte

-----------------------------------------------------------------------------
(* A new field.  The number of bytes is computed in three places.          *)

EmptyBytes(n) == [i \in 1..(n \div 8 + 1) |-> 0]

Full(n) == n \div 8 + (IF n % 8 > 0 THEN 1 ELSE 0)

(* The bits that are left in the last byte.  Variant: all of them.         *)
AllOnes(n) == 255
LastByte(n) == IF n % 8 = 0 THEN 255 ELSE 256 - 2 ^ (8 - (n % 8))

FullBytes(n) == [i \in 1..Full(n) |-> IF i < Full(n) THEN 255 ELSE LastByte(n)]

(* handleMessage.  Variant: it does not round up.                          *)
RoundedDown == length \div 8
ExpectedLength == length \div 8 + (IF length % 8 > 0 THEN 1 ELSE 0)

Init ==
  /\ length \in 1..MaxLength
  /\ \/ made = "New" /\ data = EmptyBytes(length) /\ members = {}
     \/ made = "NewFull" /\ data = FullBytes(length) /\ members = Indexes
  /\ received = <<>>
  /\ announced = {}

-----------------------------------------------------------------------------
(* Set; an index past the end is an error and changes nothing.             *)
Set(index, value) ==
  /\ index < length
  /\ data' = [data EXCEPT ![ByteOf(index)] = With(@, index, value)]
  /\ members' = IF value THEN members \cup {index} ELSE members \ {index}
  /\ UNCHANGED <<length, made, received, announced>>

(* sendBitfield, on a new connection, and MsgBitfield at the other end,    *)
(* where another number of bytes closes the connection.                    *)
IsAccepted == Len(data) = ExpectedLength

SendBitfield ==
  /\ received' = IF IsAccepted THEN data ELSE <<>>
  /\ announced' = IF IsAccepted THEN members ELSE {}
  /\ UNCHANGED <<length, made, data, members>>

Next ==
  \/ \E index \in 0..MaxLength, value \in BOOLEAN : Set(index, value)
  \/ SendBitfield

Spec == Init /\ [][Next]_vars

-----------------------------------------------------------------------------
(* Properties.                                                             *)

Holds(bytes, indexes) == \A i \in Indexes : Get(bytes, i) <=> i \in indexes

(* The bytes hold the set that the calls describe, whatever was set, unset *)
(* or set twice before, and the peer reads the set that was sent.          *)
Represents ==
  /\ Holds(data, members)
  /\ received # <<>> => Holds(received, announced)

(* "the trailing bits are supposed to be zerod": the bits after the last   *)
(* piece are never set, in any byte that is sent.                          *)
SpareBitsZero ==
  \A i \in length..(8 * Len(data) - 1) : ~Get(data, i)

(* A peer takes the field of a client that started with all pieces, or     *)
(* with a number of pieces that does not fill its bytes.                   *)
Accepted ==
  made = "NewFull" \/ length % 8 # 0 => IsAccepted
=============================================================================
