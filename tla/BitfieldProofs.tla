--------------------------- MODULE BitfieldProofs ---------------------------
(***************************************************************************)
(* Proofs about Bitfield, for torrents of any number of pieces.            *)
(***************************************************************************)
EXTENDS Bitfield, TLAPS, SequenceTheorems

(* A function on the first n numbers is a sequence of length n.            *)
LEMMA LengthOf ==
  ASSUME NEW S, NEW n \in Nat, NEW f \in [1..n -> S]
  PROVE  f \in Seq(S) /\ Len(f) = n
<1>1. f \in Seq(S)
  BY SeqDef
<1>2. Len(f) \in Nat /\ DOMAIN f = 1..Len(f)
  BY <1>1, LenProperties
<1>3. 1..Len(f) = 1..n
  BY <1>2
<1> QED BY <1>1, <1>2, <1>3

-----------------------------------------------------------------------------
(* Bytes and masks.                                                        *)

Byte == 0..255
Masks == {1, 2, 4, 8, 16, 32, 64, 128}

Power(s) == 2 ^ s

LEMMA Powers ==
  /\ Power(0) = 1 /\ Power(1) = 2 /\ Power(2) = 4 /\ Power(3) = 8
  /\ Power(4) = 16 /\ Power(5) = 32 /\ Power(6) = 64 /\ Power(7) = 128
BY DEF Power

LEMMA Division ==
  ASSUME NEW i \in Nat
  PROVE  i \div 8 \in Nat /\ i % 8 \in 0..7 /\ i = 8 * (i \div 8) + (i % 8)
OBVIOUS

(* The mask of an index depends on its place in a byte, and tells it.      *)
LEMMA ShiftFacts ==
  /\ \A s \in 0..7 : Power(s) \in Masks
  /\ \A r, s \in 0..7 : Power(r) >= Power(s) <=> r >= s
<1>1. 0..7 = {0, 1, 2, 3, 4, 5, 6, 7}
  OBVIOUS
<1>2. \A s \in 0..7 : Power(s) \in Masks
  BY <1>1, Powers DEF Masks
<1>3. ASSUME NEW r \in 0..7 PROVE \A s \in 0..7 : Power(r) >= Power(s) <=> r >= s
  BY <1>1, Powers
<1> QED BY <1>2, <1>3

LEMMA MaskFacts ==
  ASSUME NEW i \in Nat, NEW j \in Nat
  PROVE  Mask(i) \in Masks /\ (Mask(i) = Mask(j) => i % 8 = j % 8)
<1>1. Shift(i) \in 0..7 /\ Shift(j) \in 0..7
  BY DEF Shift
<1>2. Mask(i) = Power(Shift(i)) /\ Mask(j) = Power(Shift(j))
  BY DEF Mask, Power
<1>3. Mask(i) \in Masks /\ (Mask(i) = Mask(j) => Shift(i) = Shift(j))
  <2>1. Mask(i) \in Masks /\ Mask(j) \in Masks
    BY <1>1, <1>2, ShiftFacts
  <2>2. Mask(i) = Mask(j) => Mask(i) >= Mask(j) /\ Mask(j) >= Mask(i)
    BY <2>1 DEF Masks
  <2> QED BY <1>1, <1>2, <2>1, <2>2, ShiftFacts
<1>4. Shift(i) = Shift(j) => i % 8 = j % 8
  BY Division DEF Shift
<1> QED BY <1>3, <1>4

(* To add a mask whose bit is not set, or to take away one whose bit is,   *)
(* changes this bit and no other.                                          *)
Flips(m) ==
  \A b \in Byte :
    /\ (b \div m) % 2 \in {0, 1}
    /\ (b \div m) % 2 = 0 =>
         b + m \in Byte /\ ((b + m) \div m) % 2 = 1
    /\ (b \div m) % 2 = 1 =>
         b - m \in Byte /\ ((b - m) \div m) % 2 = 0

Spares(m, n) ==
  \A b \in Byte :
    /\ (b \div m) % 2 = 0 => ((b + m) \div n) % 2 = (b \div n) % 2
    /\ (b \div m) % 2 = 1 => ((b - m) \div n) % 2 = (b \div n) % 2

LEMMA AllFlip == \A m \in Masks : Flips(m)
<1>1. Flips(1) /\ Flips(2) /\ Flips(4) /\ Flips(8)
  BY DEF Flips, Byte
<1>2. Flips(16) /\ Flips(32) /\ Flips(64) /\ Flips(128)
  BY DEF Flips, Byte
<1> QED BY <1>1, <1>2 DEF Masks

LEMMA AllSpare == \A m, n \in Masks : m # n => Spares(m, n)
<1>1. \A n \in Masks \ {1} : Spares(1, n)
  BY SMTT(60) DEF Spares, Byte, Masks
<1>2. \A n \in Masks \ {2} : Spares(2, n)
  BY SMTT(60) DEF Spares, Byte, Masks
<1>3. \A n \in Masks \ {4} : Spares(4, n)
  BY SMTT(60) DEF Spares, Byte, Masks
<1>4. \A n \in Masks \ {8} : Spares(8, n)
  BY SMTT(60) DEF Spares, Byte, Masks
<1>5. \A n \in Masks \ {16} : Spares(16, n)
  BY SMTT(60) DEF Spares, Byte, Masks
<1>6. \A n \in Masks \ {32} : Spares(32, n)
  BY SMTT(60) DEF Spares, Byte, Masks
<1>7. \A n \in Masks \ {64} : Spares(64, n)
  BY SMTT(60) DEF Spares, Byte, Masks
<1>8. \A n \in Masks \ {128} : Spares(128, n)
  BY SMTT(60) DEF Spares, Byte, Masks
<1> QED BY <1>1, <1>2, <1>3, <1>4, <1>5, <1>6, <1>7, <1>8 DEF Masks

(* Setting a bit in a byte.                                                *)
LEMMA WithFacts ==
  ASSUME NEW b \in Byte, NEW i \in Nat, NEW value \in BOOLEAN
  PROVE  /\ With(b, i, value) \in Byte
         /\ BitOf(With(b, i, value), i) = 1 <=> value
         /\ \A j \in Nat : j % 8 # i % 8 => BitOf(With(b, i, value), j) = BitOf(b, j)
<1> DEFINE m == Mask(i)
<1>1. m \in Masks /\ \A j \in Nat : Mask(j) \in Masks /\ (j % 8 # i % 8 => Mask(j) # m)
  BY MaskFacts
<1>2. BitOf(b, i) = (b \div m) % 2
  BY DEF BitOf
<1>3. With(b, i, value) = CASE value /\ BitOf(b, i) = 0 -> b + m
                            [] ~value /\ BitOf(b, i) = 1 -> b - m
                            [] OTHER -> b
  BY DEF With
<1> HIDE DEF m
<1>4. Flips(m) /\ \A j \in Nat : j % 8 # i % 8 => Spares(m, Mask(j))
  BY <1>1, AllFlip, AllSpare
<1>5. BitOf(b, i) \in {0, 1}
  BY <1>2, <1>4 DEF Flips
<1>6. \A c : BitOf(c, i) = (c \div m) % 2
  BY DEF BitOf, m
<1>7. CASE value /\ BitOf(b, i) = 0
  <2>1. With(b, i, value) = b + m
    BY <1>3, <1>7
  <2>2. b + m \in Byte /\ BitOf(b + m, i) = 1
    BY <1>2, <1>4, <1>6, <1>7 DEF Flips
  <2>3. \A j \in Nat : j % 8 # i % 8 => BitOf(b + m, j) = BitOf(b, j)
    BY <1>2, <1>4, <1>7 DEF Spares, BitOf
  <2> QED BY <1>7, <2>1, <2>2, <2>3
<1>8. CASE ~value /\ BitOf(b, i) = 1
  <2>1. With(b, i, value) = b - m
    BY <1>3, <1>8
  <2>2. b - m \in Byte /\ BitOf(b - m, i) = 0
    BY <1>2, <1>4, <1>6, <1>8 DEF Flips
  <2>3. \A j \in Nat : j % 8 # i % 8 => BitOf(b - m, j) = BitOf(b, j)
    BY <1>2, <1>4, <1>8 DEF Spares, BitOf
  <2> QED BY <1>8, <2>1, <2>2, <2>3
<1>9. CASE value <=> BitOf(b, i) = 1
  <2>1. With(b, i, value) = b
    BY <1>3, <1>5, <1>9
  <2> QED BY <1>9, <2>1
<1> QED BY <1>5, <1>7, <1>8, <1>9

-----------------------------------------------------------------------------
(* The inductive invariant: the bits of a field are the indexes that were  *)
(* set, those behind the last piece included, and a peer's copy is what    *)
(* was sent.                                                               *)

Describes(bytes, indexes) ==
  \A i \in 0..(8 * Len(bytes) - 1) : Get(bytes, i) <=> i \in indexes

Size == IF made = "New" THEN length \div 8 + 1 ELSE Full(length)

Field(bytes, indexes) ==
  /\ bytes \in [1..Size -> Byte]
  /\ indexes \subseteq Indexes
  /\ Describes(bytes, indexes)

IInv ==
  /\ length \in Nat \ {0} /\ made \in {"New", "NewFull"}
  /\ Field(data, members)
  /\ received # <<>> => Field(received, announced)

(* All pieces have a bit.                                                  *)
LEMMA SizeFacts ==
  ASSUME length \in Nat \ {0}, made \in {"New", "NewFull"}
  PROVE  /\ Size \in Nat \ {0} /\ length <= 8 * Size
         /\ made = "NewFull" => Size = ExpectedLength
         /\ length % 8 # 0 => Size = ExpectedLength
         /\ \A bytes \in [1..Size -> Byte] : bytes \in Seq(Byte) /\ Len(bytes) = Size
<1>1. length \div 8 \in Nat /\ length % 8 \in 0..7 /\ length = 8 * (length \div 8) + (length % 8)
  BY Division
<1>2. Size \in Nat \ {0} /\ length <= 8 * Size
  BY <1>1 DEF Size, Full
<1>3. \A bytes \in [1..Size -> Byte] : bytes \in Seq(Byte) /\ Len(bytes) = Size
  BY <1>2, LengthOf
<1>4. /\ made = "NewFull" => Size = ExpectedLength
      /\ length % 8 # 0 => Size = ExpectedLength
  BY <1>1 DEF Size, Full, ExpectedLength
<1> QED BY <1>2, <1>3, <1>4

LEMMA ByteIndex ==
  ASSUME NEW n \in Nat, NEW i \in 0..(8 * n - 1)
  PROVE  i \in Nat /\ ByteOf(i) \in 1..n
<1>1. i \in Nat /\ i < 8 * n
  OBVIOUS
<1>2. i \div 8 \in Nat /\ i = 8 * (i \div 8) + (i % 8) /\ i % 8 \in 0..7
  BY <1>1, Division
<1> QED BY <1>1, <1>2 DEF ByteOf

(* A new field is empty.                                                   *)
LEMMA NewField ==
  ASSUME length \in Nat \ {0}, made = "New"
  PROVE  Field(EmptyBytes(length), {})
<1>1. Size = length \div 8 + 1 /\ Size \in Nat
  BY SizeFacts DEF Size
<1>2. EmptyBytes(length) \in [1..Size -> Byte]
  BY <1>1 DEF EmptyBytes, Byte
<1>3. Len(EmptyBytes(length)) = Size
  BY <1>2, SizeFacts
<1>4. ASSUME NEW i \in 0..(8 * Size - 1) PROVE ~Get(EmptyBytes(length), i)
  <2>1. i \in Nat /\ EmptyBytes(length)[ByteOf(i)] = 0
    BY <1>1, <1>4, ByteIndex DEF EmptyBytes
  <2>2. \A m \in Masks : (0 \div m) % 2 = 0
    BY DEF Masks
  <2> QED BY <2>1, <2>2, MaskFacts DEF Get, BitOf
<1> QED BY <1>2, <1>3, <1>4 DEF Field, Describes

(* 256 - m is the byte whose bits are set from the one of m upwards.       *)
LEMMA HighBits ==
  \A p \in Masks \ {1}, m \in Masks :
    256 - p \in Byte /\ (((256 - p) \div m) % 2 = 1 <=> m >= p)
<1>1. \A m \in Masks : ((256 - 2) \div m) % 2 = 1 <=> m >= 2
  BY DEF Masks
<1>2. \A m \in Masks : ((256 - 4) \div m) % 2 = 1 <=> m >= 4
  BY DEF Masks
<1>3. \A m \in Masks : ((256 - 8) \div m) % 2 = 1 <=> m >= 8
  BY DEF Masks
<1>4. \A m \in Masks : ((256 - 16) \div m) % 2 = 1 <=> m >= 16
  BY DEF Masks
<1>5. \A m \in Masks : ((256 - 32) \div m) % 2 = 1 <=> m >= 32
  BY DEF Masks
<1>6. \A m \in Masks : ((256 - 64) \div m) % 2 = 1 <=> m >= 64
  BY DEF Masks
<1>7. \A m \in Masks : ((256 - 128) \div m) % 2 = 1 <=> m >= 128
  BY DEF Masks
<1> QED BY <1>1, <1>2, <1>3, <1>4, <1>5, <1>6, <1>7 DEF Masks, Byte

(* In a full field the last byte has as many bits as there are pieces left.*)
LEMMA LastByteBits ==
  ASSUME NEW n \in Nat, NEW i \in Nat
  PROVE  /\ LastByte(n) \in Byte
         /\ BitOf(255, i) = 1
         /\ n % 8 = 0 => BitOf(LastByte(n), i) = 1
         /\ n % 8 # 0 => (BitOf(LastByte(n), i) = 1 <=> i % 8 < n % 8)
<1> DEFINE r == n % 8  m == Mask(i)
<1>1. r \in 0..7 /\ i % 8 \in 0..7 /\ m \in Masks /\ Shift(i) = 7 - (i % 8) /\ Shift(i) \in 0..7
  BY Division, MaskFacts DEF Shift
<1>2. LastByte(n) = IF r = 0 THEN 255 ELSE 256 - Power(8 - r)
  BY DEF LastByte, Power
<1>3. m = Power(Shift(i)) /\ \A b : BitOf(b, i) = (b \div m) % 2
  BY DEF BitOf, Mask, Power
<1> HIDE DEF r, m
<1>4. \A k \in Masks : (255 \div k) % 2 = 1
  BY DEF Masks
<1>5. Power(0) = 1 /\ \A t \in 1..7 : Power(t) \in Masks \ {1}
  <2>1. 1..7 = {1, 2, 3, 4, 5, 6, 7}
    OBVIOUS
  <2> QED BY <2>1, Powers DEF Masks
<1>6. CASE r = 0
  <2>1. LastByte(n) = 255 /\ n % 8 = 0
    BY <1>2, <1>6 DEF r
  <2>2. BitOf(255, i) = 1
    BY <1>1, <1>3, <1>4
  <2> QED BY <2>1, <2>2 DEF Byte
<1>7. CASE r # 0
  <2>1. 8 - r \in 1..7
    BY <1>1, <1>7
  <2>2. /\ 256 - Power(8 - r) \in Byte
        /\ ((256 - Power(8 - r)) \div m) % 2 = 1 <=> m >= Power(8 - r)
    BY <1>1, <1>5, <2>1, HighBits
  <2>3. m >= Power(8 - r) <=> i % 8 < r
    <3>1. m >= Power(8 - r) <=> Shift(i) >= 8 - r
      BY <1>1, <1>3, <2>1, ShiftFacts
    <3> QED BY <1>1, <3>1
  <2>4. LastByte(n) = 256 - Power(8 - r) /\ n % 8 # 0 /\ n % 8 = r
    BY <1>2, <1>7 DEF r
  <2>5. BitOf(255, i) = 1
    BY <1>1, <1>3, <1>4
  <2>6. BitOf(LastByte(n), i) = 1 <=> i % 8 < n % 8
    BY <1>3, <2>2, <2>3, <2>4
  <2> QED BY <2>2, <2>4, <2>5, <2>6
<1> QED BY <1>6, <1>7

LEMMA NewFullField ==
  ASSUME length \in Nat \ {0}, made = "NewFull"
  PROVE  Field(FullBytes(length), Indexes)
<1> DEFINE d == FullBytes(length)
<1>1. Size = Full(length) /\ Size \in Nat \ {0}
  BY SizeFacts DEF Size
<1>2. d \in [1..Size -> Byte]
  BY <1>1, LastByteBits DEF FullBytes, Byte
<1>3. Len(d) = Size
  BY <1>2, SizeFacts
<1>4. ASSUME NEW i \in 0..(8 * Size - 1) PROVE Get(d, i) <=> i \in Indexes
  <2>1. i \in Nat /\ ByteOf(i) \in 1..Size
    BY <1>1, <1>4, ByteIndex
  <2>2. /\ i = 8 * (i \div 8) + (i % 8) /\ i % 8 \in 0..7 /\ ByteOf(i) = (i \div 8) + 1
        /\ length = 8 * (length \div 8) + (length % 8) /\ length % 8 \in 0..7
        /\ i \div 8 \in Nat /\ length \div 8 \in Nat
    BY <2>1, Division DEF ByteOf
  <2>3. Size = (length \div 8) + (IF length % 8 > 0 THEN 1 ELSE 0)
    BY <1>1 DEF Full
  <2>4. i \in Indexes <=> i < length
    BY <2>1 DEF Indexes
  <2>5. d[ByteOf(i)] = IF ByteOf(i) < Size THEN 255 ELSE LastByte(length)
    BY <1>1, <2>1 DEF FullBytes
  <2>6. /\ BitOf(255, i) = 1
        /\ length % 8 = 0 => BitOf(LastByte(length), i) = 1
        /\ length % 8 # 0 => (BitOf(LastByte(length), i) = 1 <=> i % 8 < length % 8)
    BY <2>1, LastByteBits
  <2>7. Get(d, i) <=> BitOf(d[ByteOf(i)], i) = 1
    BY DEF Get
  <2> HIDE DEF d
  <2>8. CASE ByteOf(i) < Size
    <3>1. i < length
      BY <2>2, <2>3, <2>8
    <3> QED BY <2>4, <2>5, <2>6, <2>7, <2>8, <3>1
  <2>9. CASE ByteOf(i) = Size /\ length % 8 = 0
    <3>1. i < length
      BY <2>2, <2>3, <2>9
    <3> QED BY <2>4, <2>5, <2>6, <2>7, <2>9, <3>1
  <2>10. CASE ByteOf(i) = Size /\ length % 8 # 0
    <3>1. i < length <=> i % 8 < length % 8
      BY <2>2, <2>3, <2>10
    <3>2. d[ByteOf(i)] = LastByte(length)
      BY <1>1, <2>5, <2>10
    <3> QED BY <2>4, <2>6, <2>7, <2>10, <3>1, <3>2
  <2> QED BY <1>1, <2>1, <2>8, <2>9, <2>10
<1> QED BY <1>2, <1>3, <1>4 DEF Field, Describes

LEMMA InitIInv == Init => IInv
<1> SUFFICES ASSUME Init PROVE IInv
  OBVIOUS
<1>1. length \in Nat \ {0} /\ received = <<>>
  BY MaxLengthAssumption DEF Init
<1>2. Field(data, members) /\ made \in {"New", "NewFull"}
  BY <1>1, NewField, NewFullField DEF Init
<1> QED BY <1>1, <1>2 DEF IInv

-----------------------------------------------------------------------------
(* Setting an index changes its bit and no other, in its byte or elsewhere.*)
LEMMA SetField ==
  ASSUME IInv, NEW index \in Nat, NEW value \in BOOLEAN, Set(index, value)
  PROVE  Field(data, members)'
<1>1. /\ index < length
      /\ data' = [data EXCEPT ![ByteOf(index)] = With(data[ByteOf(index)], index, value)]
      /\ members' = IF value THEN members \cup {index} ELSE members \ {index}
      /\ UNCHANGED <<length, made>>
  BY DEF Set
<1>2. /\ length \in Nat \ {0} /\ made \in {"New", "NewFull"}
      /\ data \in [1..Size -> Byte] /\ members \subseteq Indexes /\ Describes(data, members)
  BY DEF IInv, Field
<1>3. Size \in Nat /\ length <= 8 * Size /\ Size' = Size /\ Indexes' = Indexes
  BY <1>1, <1>2, SizeFacts DEF Size, Indexes
<1>4. index \in 0..(8 * Size - 1) /\ index \in Indexes
  BY <1>1, <1>2, <1>3 DEF Indexes
<1>5. ByteOf(index) \in 1..Size
  BY <1>3, <1>4, ByteIndex
<1> DEFINE b == data[ByteOf(index)]
<1>6. b \in Byte
  BY <1>2, <1>5
<1>7. /\ With(b, index, value) \in Byte
      /\ BitOf(With(b, index, value), index) = 1 <=> value
      /\ \A j \in Nat : j % 8 # index % 8 => BitOf(With(b, index, value), j) = BitOf(b, j)
  BY <1>6, WithFacts
<1>8. data' \in [1..Size -> Byte]
  BY <1>1, <1>2, <1>5, <1>7
<1>9. Len(data) = Size /\ Len(data') = Size
  BY <1>2, <1>8, SizeFacts
<1>10. members' \subseteq Indexes
  BY <1>1, <1>2, <1>4
<1>11. ASSUME NEW i \in 0..(8 * Size - 1) PROVE Get(data', i) <=> i \in members'
  <2>1. i \in Nat /\ ByteOf(i) \in 1..Size /\ (Get(data, i) <=> i \in members)
    BY <1>2, <1>3, <1>9, <1>11, ByteIndex DEF Describes
  <2>2. CASE i = index
    <3>1. data'[ByteOf(i)] = With(b, index, value)
      BY <1>1, <1>2, <1>5, <2>2
    <3>2. Get(data', i) <=> value
      BY <1>7, <2>2, <3>1 DEF Get
    <3> QED BY <1>1, <2>2, <3>2
  <2>3. CASE i # index
    <3>1. i \in members' <=> i \in members
      BY <1>1, <2>3
    <3>2. CASE ByteOf(i) # ByteOf(index)
      <4>1. data'[ByteOf(i)] = data[ByteOf(i)]
        BY <1>1, <1>2, <2>1, <3>2
      <4> QED BY <2>1, <3>1, <4>1 DEF Get
    <3>3. CASE ByteOf(i) = ByteOf(index)
      <4>1. i % 8 # index % 8
        BY <2>1, <2>3, <3>3, Division DEF ByteOf
      <4>2. data'[ByteOf(i)] = With(b, index, value) /\ data[ByteOf(i)] = b
        BY <1>1, <1>2, <1>5, <3>3
      <4>3. BitOf(With(b, index, value), i) = BitOf(b, i)
        BY <1>7, <2>1, <4>1
      <4> QED BY <2>1, <3>1, <4>2, <4>3 DEF Get
    <3> QED BY <3>2, <3>3
  <2> QED BY <2>2, <2>3
<1> QED BY <1>3, <1>8, <1>9, <1>10, <1>11 DEF Field, Describes

LEMMA StepIInv == IInv /\ [Next]_vars => IInv'
<1> SUFFICES ASSUME IInv, [Next]_vars PROVE IInv'
  OBVIOUS
<1>1. ASSUME UNCHANGED <<length, made>>, NEW bytes, NEW indexes, Field(bytes, indexes)
      PROVE  Field(bytes, indexes)'
  BY <1>1 DEF Field, Size, Indexes, Describes
<1>2. ASSUME NEW index \in 0..MaxLength, NEW value \in BOOLEAN, Set(index, value) PROVE IInv'
  <2>1. index \in Nat /\ UNCHANGED <<length, made, received, announced>>
    BY <1>2, MaxLengthAssumption DEF Set
  <2>2. Field(data, members)'
    BY <1>2, <2>1, SetField
  <2>3. received' # <<>> => Field(received, announced)'
    BY <2>1 DEF IInv, Field, Size, Indexes, Describes
  <2> QED BY <2>1, <2>2, <2>3 DEF IInv
<1>3. CASE SendBitfield
  <2>1. UNCHANGED <<length, made, data, members>>
    BY <1>3 DEF SendBitfield
  <2>2. Field(data, members)'
    BY <2>1 DEF IInv, Field, Size, Indexes, Describes
  <2>3. received' # <<>> => received' = data' /\ announced' = members'
    BY <1>3, <2>1 DEF SendBitfield
  <2>4. received' # <<>> => Field(received, announced)'
    BY <2>2, <2>3 DEF Field
  <2> QED BY <2>1, <2>2, <2>4 DEF IInv
<1>4. CASE UNCHANGED vars
  BY <1>4 DEF vars, IInv, Field, Size, Indexes, Describes
<1> QED BY <1>2, <1>3, <1>4 DEF Next

LEMMA Invariance == Spec => []IInv
BY InitIInv, StepIInv, PTL DEF Spec

-----------------------------------------------------------------------------
(* A bitfield is the set of indexes that its calls describe, in the bytes  *)
(* of the one who has it and in those that a peer has been sent.           *)
THEOREM BytesAreTheSet == Spec => []Represents
<1>1. ASSUME IInv PROVE Represents
  <2>1. length \in Nat /\ length <= 8 * Size /\ Size \in Nat
    BY <1>1, SizeFacts DEF IInv
  <2>2. ASSUME NEW bytes, NEW indexes, Field(bytes, indexes) PROVE Holds(bytes, indexes)
    <3>1. Len(bytes) = Size
      BY <1>1, <2>2, SizeFacts DEF IInv, Field
    <3>2. \A i \in Indexes : i \in 0..(8 * Len(bytes) - 1)
      BY <2>1, <3>1 DEF Indexes
    <3> QED BY <2>2, <3>2 DEF Field, Describes, Holds
  <2> QED BY <1>1, <2>2 DEF IInv, Represents
<1> QED BY <1>1, Invariance, PTL

(* No bit behind the last piece is ever set, in any of the bytes.          *)
THEOREM NothingBehindTheEnd == Spec => []SpareBitsZero
<1>1. ASSUME IInv PROVE SpareBitsZero
  <2>1. length \in Nat \ {0} /\ members \subseteq Indexes /\ Describes(data, members)
    BY <1>1 DEF IInv, Field
  <2>2. \A i \in length..(8 * Len(data) - 1) : i \in 0..(8 * Len(data) - 1) /\ i \notin Indexes
    <3>1. Len(data) \in Nat
      BY <1>1, SizeFacts DEF IInv, Field
    <3> QED BY <2>1, <3>1 DEF Indexes
  <2> QED BY <2>1, <2>2 DEF SpareBitsZero, Describes
<1> QED BY <1>1, Invariance, PTL

(* The three places that count the bytes of a field agree, but for a field *)
(* that starts empty and fills its bytes.                                  *)
THEOREM LengthsAgree == Spec => []Accepted
<1>1. ASSUME IInv PROVE Accepted
  <2>1. Len(data) = Size
    BY <1>1, SizeFacts DEF IInv, Field
  <2> QED BY <1>1, <2>1, SizeFacts DEF IInv, Accepted, IsAccepted
<1> QED BY <1>1, Invariance, PTL
=============================================================================
