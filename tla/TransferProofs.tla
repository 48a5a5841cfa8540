--------------------------- MODULE TransferProofs ---------------------------
(***************************************************************************)
(* Proofs about Transfer, for any pieces, any number of chunks and any     *)
(* length of the pipeline.                                                 *)
(***************************************************************************)
EXTENDS Transfer, TLAPS, FiniteSetTheorems, SequenceTheorems

-----------------------------------------------------------------------------
(* Sequences of messages, and what the invariant tells apart about them.   *)

ChangeTypes == {"choke", "unchoke"}

Messages ==
  [type : ChangeTypes \cup {"interested", "have"}, body : {NoPiece}]
    \cup [type : {"bitfield"}, body : SUBSET Pieces]
    \cup [type : {"request", "piece"}, body : Request]

(* What messages of a type say, and that no two of them say the same.      *)
Said(q, type) == {q[i].body : i \in {j \in DOMAIN q : q[j].type = type}}
Once(q, type) ==
  \A i, j \in DOMAIN q :
    q[i].type = type /\ q[j].type = type /\ q[i].body = q[j].body => i = j

Has(q, type) == \E i \in DOMAIN q : q[i].type = type
HasChange(q) == \E i \in DOMAIN q : q[i].type \in ChangeTypes
LastChange(q, i) ==
  /\ i \in DOMAIN q /\ q[i].type \in ChangeTypes
  /\ \A j \in DOMAIN q : q[j].type \in ChangeTypes => j <= i

LEMMA MessageTypes ==
  ASSUME NEW m \in Messages
  PROVE  /\ m.type \in {"choke", "unchoke", "interested", "have", "bitfield", "request", "piece"}
         /\ m.type = "bitfield" => m.body \in SUBSET Pieces
         /\ m.type \in {"request", "piece"} => m.body \in Request
BY DEF Messages, ChangeTypes

LEMMA Elements ==
  ASSUME NEW S, NEW q \in Seq(S)
  PROVE  /\ Len(q) \in Nat /\ DOMAIN q = 1..Len(q)
         /\ \A i \in 1..Len(q) : q[i] \in S
         /\ Range(q) \subseteq S
BY DEF Range

LEMMA Appended ==
  ASSUME NEW S, NEW q \in Seq(S), NEW m \in S
  PROVE  /\ Append(q, m) \in Seq(S)
         /\ DOMAIN Append(q, m) = DOMAIN q \cup {Len(q) + 1}
         /\ Len(q) + 1 \notin DOMAIN q
         /\ \A i \in DOMAIN q : Append(q, m)[i] = q[i] /\ i < Len(q) + 1
         /\ Append(q, m)[Len(q) + 1] = m
         /\ Range(Append(q, m)) = Range(q) \cup {m}
         /\ IsInjective(q) /\ m \notin Range(q) => IsInjective(Append(q, m))
<1>1. /\ Append(q, m) \in Seq(S)
      /\ DOMAIN Append(q, m) = DOMAIN q \cup {Len(q) + 1}
      /\ Len(q) + 1 \notin DOMAIN q
      /\ \A i \in DOMAIN q : Append(q, m)[i] = q[i] /\ i < Len(q) + 1
      /\ Append(q, m)[Len(q) + 1] = m
  BY Elements
<1>2. Range(Append(q, m)) = Range(q) \cup {m}
  BY <1>1 DEF Range
<1>3. IsInjective(q) /\ m \notin Range(q) => IsInjective(Append(q, m))
  BY <1>1 DEF IsInjective, Range
<1> QED BY <1>1, <1>2, <1>3

(* A message more at the end of the queue.                                 *)
LEMMA SaidMore ==
  ASSUME NEW q \in Seq(Messages), NEW m \in Messages
  PROVE  /\ Append(q, m) \in Seq(Messages)
         /\ Said(Append(q, m), m.type) = Said(q, m.type) \cup {m.body}
         /\ \A type : type # m.type => Said(Append(q, m), type) = Said(q, type)
         /\ \A type : type # m.type => (Once(q, type) <=> Once(Append(q, m), type))
         /\ Once(q, m.type) /\ m.body \notin Said(q, m.type) => Once(Append(q, m), m.type)
         /\ Has(Append(q, m), m.type)
         /\ \A type : Has(q, type) => Has(Append(q, m), type)
         /\ \A type : Has(Append(q, m), type) /\ type # m.type => Has(q, type)
<1> DEFINE p == Append(q, m)
           z == Len(q) + 1
<1>1. /\ p \in Seq(Messages)
      /\ DOMAIN p = DOMAIN q \cup {z} /\ z \notin DOMAIN q /\ p[z] = m
      /\ \A i \in DOMAIN q : p[i] = q[i]
  BY Appended
<1> HIDE DEF p, z
<1>2. Said(p, m.type) = Said(q, m.type) \cup {m.body}
  BY <1>1 DEF Said
<1>3. \A type : type # m.type => Said(p, type) = Said(q, type)
  BY <1>1 DEF Said
<1>4. \A type : type # m.type => (Once(q, type) <=> Once(p, type))
  BY <1>1 DEF Once
<1>5. Once(q, m.type) /\ m.body \notin Said(q, m.type) => Once(p, m.type)
  BY <1>1 DEF Once, Said
<1>6. Has(p, m.type)
  BY <1>1 DEF Has
<1>7. \A type : Has(q, type) => Has(p, type)
  BY <1>1 DEF Has
<1>8. \A type : Has(p, type) /\ type # m.type => Has(q, type)
  BY <1>1 DEF Has
<1> QED BY <1>1, <1>2, <1>3, <1>4, <1>5, <1>6, <1>7, <1>8 DEF p

After(q, m, v) == v = Append(q, m)
NewChange(v, kind) ==
  HasChange(v) /\ \A i : LastChange(v, i) => v[i].type = kind
SameChange(q, v) ==
  /\ HasChange(v) <=> HasChange(q)
  /\ \A i : LastChange(v, i) => LastChange(q, i) /\ v[i] = q[i]

LEMMA ChangesMore ==
  ASSUME NEW q \in Seq(Messages), NEW m \in Messages, NEW v, After(q, m, v)
  PROVE  IF m.type \in ChangeTypes THEN NewChange(v, m.type) ELSE SameChange(q, v)
<1> DEFINE z == Len(q) + 1
<1>1. /\ DOMAIN v = DOMAIN q \cup {z} /\ z \notin DOMAIN q /\ v[z] = m
      /\ \A i \in DOMAIN q : v[i] = q[i] /\ i < z
      /\ DOMAIN q \subseteq Nat /\ z \in Nat
  BY Appended, Elements DEF After
<1> HIDE DEF z
<1>2. CASE m.type \notin ChangeTypes
  BY <1>1, <1>2 DEF HasChange, LastChange, SameChange
<1>3. CASE m.type \in ChangeTypes
  <2>1. HasChange(v)
    BY <1>1, <1>3 DEF HasChange
  <2>2. ASSUME NEW i, LastChange(v, i)
        PROVE  v[i].type = m.type
    <3>1. z <= i /\ i \in DOMAIN q \cup {z}
      BY <1>1, <1>3, <2>2 DEF LastChange
    <3>2. i = z
      BY <1>1, <3>1
    <3> QED BY <1>1, <3>2
  <2> QED BY <1>3, <2>1, <2>2 DEF NewChange
<1> QED BY <1>2, <1>3

(* The first message is taken from the queue.                              *)
LEMMA TakenFirst ==
  ASSUME NEW S, NEW q \in Seq(S), q # <<>>
  PROVE  /\ Tail(q) \in Seq(S) /\ Head(q) \in S /\ Head(q) = q[1]
         /\ 1 \in DOMAIN q
         /\ \A i \in DOMAIN Tail(q) : i + 1 \in DOMAIN q /\ Tail(q)[i] = q[i + 1]
         /\ \A i \in DOMAIN q : i # 1 => i - 1 \in DOMAIN Tail(q) /\ Tail(q)[i - 1] = q[i]
         /\ DOMAIN q \subseteq Nat \ {0} /\ DOMAIN Tail(q) \subseteq Nat \ {0}
BY Elements

LEMMA SaidLess ==
  ASSUME NEW q \in Seq(Messages), q # <<>>
  PROVE  /\ Tail(q) \in Seq(Messages) /\ Head(q) \in Messages
         /\ \A type : Said(Tail(q), type) \subseteq Said(q, type)
         /\ \A type : type # Head(q).type => Said(Tail(q), type) = Said(q, type)
         /\ Head(q).body \in Said(q, Head(q).type)
         /\ Once(q, Head(q).type) =>
              Said(Tail(q), Head(q).type) = Said(q, Head(q).type) \ {Head(q).body}
         /\ \A type : Once(q, type) => Once(Tail(q), type)
         /\ \A type : Has(Tail(q), type) => Has(q, type)
         /\ \A type : type # Head(q).type /\ Has(q, type) => Has(Tail(q), type)
         /\ Has(q, Head(q).type)
<1> DEFINE p == Tail(q)
           h == Head(q)
<1>1. /\ p \in Seq(Messages) /\ h \in Messages /\ h = q[1]
      /\ 1 \in DOMAIN q
      /\ \A i \in DOMAIN p : i + 1 \in DOMAIN q /\ p[i] = q[i + 1]
      /\ \A i \in DOMAIN q : i # 1 => i - 1 \in DOMAIN p /\ p[i - 1] = q[i]
      /\ DOMAIN q \subseteq Nat \ {0} /\ DOMAIN p \subseteq Nat \ {0}
  BY TakenFirst
<1> HIDE DEF p, h
<1>2. \A type : Said(p, type) \subseteq Said(q, type)
  BY <1>1 DEF Said
<1>3. ASSUME NEW type, type # h.type
      PROVE  Said(p, type) = Said(q, type)
  <2>1. ASSUME NEW x \in Said(q, type)
        PROVE  x \in Said(p, type)
    <3>1. PICK i \in DOMAIN q : q[i].type = type /\ x = q[i].body
      BY DEF Said
    <3>2. i - 1 \in DOMAIN p /\ p[i - 1] = q[i]
      BY <1>1, <1>3, <3>1
    <3> QED BY <3>1, <3>2 DEF Said
  <2> QED BY <1>2, <2>1
<1>4. h.body \in Said(q, h.type)
  BY <1>1 DEF Said
<1>5. ASSUME NEW type, Once(q, type)
      PROVE  Once(p, type)
  <2>1. ASSUME NEW i \in DOMAIN p, NEW j \in DOMAIN p,
               p[i].type = type, p[j].type = type, p[i].body = p[j].body
        PROVE  i = j
    <3>1. i + 1 \in DOMAIN q /\ j + 1 \in DOMAIN q /\ p[i] = q[i + 1] /\ p[j] = q[j + 1]
      BY <1>1
    <3>2. i + 1 = j + 1
      BY <1>5, <2>1, <3>1 DEF Once
    <3> QED BY <1>1, <3>2
  <2> QED BY <2>1 DEF Once
<1>6. ASSUME Once(q, h.type)
      PROVE  Said(p, h.type) = Said(q, h.type) \ {h.body}
  <2>1. \A i \in DOMAIN q : q[i].type = h.type /\ q[i].body = h.body => i = 1
    BY <1>1, <1>6 DEF Once
  <2>2. ASSUME NEW i \in DOMAIN p, p[i].type = h.type, p[i].body = h.body
        PROVE  FALSE
    <3>1. i + 1 \in DOMAIN q /\ p[i] = q[i + 1] /\ i \in Nat \ {0}
      BY <1>1
    <3>2. i + 1 = 1
      BY <2>1, <2>2, <3>1
    <3> QED BY <3>1, <3>2
  <2>3. ASSUME NEW x \in Said(q, h.type), x # h.body
        PROVE  x \in Said(p, h.type)
    <3>1. PICK i \in DOMAIN q : q[i].type = h.type /\ x = q[i].body
      BY DEF Said
    <3>2. i # 1
      BY <1>1, <2>3, <3>1
    <3>3. i - 1 \in DOMAIN p /\ p[i - 1] = q[i]
      BY <1>1, <3>2
    <3> QED BY <3>1, <3>3 DEF Said
  <2>4. h.body \notin Said(p, h.type)
    BY <2>2 DEF Said
  <2> QED BY <1>2, <2>3, <2>4
<1>7. \A type : Has(p, type) => Has(q, type)
  BY <1>1 DEF Has
<1>8. \A type : type # h.type /\ Has(q, type) => Has(p, type)
  BY <1>1 DEF Has
<1>9. Has(q, h.type)
  BY <1>1 DEF Has
<1> QED BY <1>1, <1>2, <1>3, <1>4, <1>5, <1>6, <1>7, <1>8, <1>9 DEF p, h

LEMMA ChangesLess ==
  ASSUME NEW q \in Seq(Messages), q # <<>>
  PROVE  /\ HasChange(Tail(q)) => HasChange(q)
         /\ Head(q).type \notin ChangeTypes /\ HasChange(q) => HasChange(Tail(q))
         /\ Head(q).type \in ChangeTypes /\ ~HasChange(Tail(q)) =>
              LastChange(q, 1) /\ q[1] = Head(q)
         /\ \A i : LastChange(Tail(q), i) => LastChange(q, i + 1) /\ Tail(q)[i] = q[i + 1]
<1> DEFINE p == Tail(q)
           h == Head(q)
<1>1. /\ h = q[1] /\ 1 \in DOMAIN q
      /\ \A i \in DOMAIN p : i + 1 \in DOMAIN q /\ p[i] = q[i + 1]
      /\ \A i \in DOMAIN q : i # 1 => i - 1 \in DOMAIN p /\ p[i - 1] = q[i]
      /\ DOMAIN q \subseteq Nat \ {0} /\ DOMAIN p \subseteq Nat \ {0}
  BY TakenFirst
<1> HIDE DEF p, h
<1>2. HasChange(p) => HasChange(q)
  BY <1>1 DEF HasChange
<1>3. h.type \notin ChangeTypes /\ HasChange(q) => HasChange(p)
  BY <1>1 DEF HasChange
<1>4. ASSUME h.type \in ChangeTypes, ~HasChange(p)
      PROVE  LastChange(q, 1) /\ q[1] = h
  <2>1. \A j \in DOMAIN q : q[j].type \in ChangeTypes => j = 1
    BY <1>1, <1>4 DEF HasChange
  <2>2. \A j \in DOMAIN q : q[j].type \in ChangeTypes => j <= 1
    BY <2>1
  <2> QED BY <1>1, <1>4, <2>2 DEF LastChange
<1>5. ASSUME NEW i, LastChange(p, i)
      PROVE  LastChange(q, i + 1) /\ p[i] = q[i + 1]
  <2>1. i \in DOMAIN p /\ i \in Nat /\ i + 1 \in DOMAIN q /\ p[i] = q[i + 1]
    BY <1>1, <1>5 DEF LastChange
  <2>2. ASSUME NEW j \in DOMAIN q, q[j].type \in ChangeTypes
        PROVE  j <= i + 1
    <3>1. CASE j = 1
      BY <2>1, <3>1
    <3>2. CASE j # 1
      <4>1. j - 1 <= i /\ j \in Nat
        BY <1>1, <1>5, <2>2, <3>2 DEF LastChange
      <4> QED BY <2>1, <4>1
    <3> QED BY <3>1, <3>2
  <2> QED BY <1>5, <2>1, <2>2 DEF LastChange
<1> QED BY <1>2, <1>3, <1>4, <1>5 DEF p, h

(* Deleting from a list whose elements differ loses that element alone.    *)
LEMMA SwapDeleted ==
  ASSUME NEW S, NEW q \in Seq(S), IsInjective(q), NEW i \in DOMAIN q
  PROVE  /\ SwapDelete(q, i) \in Seq(S)
         /\ Len(SwapDelete(q, i)) = Len(q) - 1
         /\ IsInjective(SwapDelete(q, i))
         /\ Range(SwapDelete(q, i)) = Range(q) \ {q[i]}
<1> DEFINE r == SwapDelete(q, i)
           z == Len(q)
           e == [q EXCEPT ![i] = q[z]]
<1>1. z \in Nat \ {0} /\ DOMAIN q = 1..z /\ i \in 1..z /\ \A j \in 1..z : q[j] \in S
  BY Elements
<1>2. /\ e \in Seq(S) /\ Len(e) = z
      /\ \A j \in 1..z : e[j] = IF j = i THEN q[z] ELSE q[j]
  BY <1>1
<1>3. r \in Seq(S) /\ Len(r) = z - 1 /\ \A j \in 1..(z - 1) : r[j] = e[j]
  <2> HIDE DEF e
  <2>1. SubSeq(e, 1, z - 1) \in Seq(S) /\ Len(SubSeq(e, 1, z - 1)) = z - 1
        /\ \A j \in 1..(z - 1) : SubSeq(e, 1, z - 1)[j] = e[j]
    BY <1>1, <1>2
  <2> QED BY <2>1 DEF SwapDelete, e
<1>4. DOMAIN r = 1..(z - 1) /\ \A j \in 1..(z - 1) : r[j] = IF j = i THEN q[z] ELSE q[j]
  BY <1>1, <1>2, <1>3
<1>5. \A j, k \in 1..z : q[j] = q[k] => j = k
  BY <1>1 DEF IsInjective
<1> HIDE DEF r, z, e
<1>6. \A j, k \in 1..(z - 1) : r[j] = r[k] => j = k
  BY <1>1, <1>4, <1>5
<1>7. IsInjective(r)
  BY <1>4, <1>6 DEF IsInjective
<1>8. ASSUME NEW x \in Range(r)
      PROVE  x \in Range(q) \ {q[i]}
  <2>1. PICK j \in 1..(z - 1) : x = r[j]
    BY <1>4 DEF Range
  <2>2. j # z /\ j \in 1..z
    BY <1>1
  <2>3. CASE j = i
    BY <1>1, <1>4, <1>5, <2>1, <2>2, <2>3 DEF Range
  <2>4. CASE j # i
    BY <1>1, <1>4, <1>5, <2>1, <2>2, <2>4 DEF Range
  <2> QED BY <2>3, <2>4
<1>9. ASSUME NEW x \in Range(q), x # q[i]
      PROVE  x \in Range(r)
  <2>1. PICK j \in 1..z : x = q[j]
    BY <1>1 DEF Range
  <2>2. CASE j # z
    <3>1. j \in 1..(z - 1) /\ j # i
      BY <1>1, <1>9, <2>1, <2>2
    <3> QED BY <1>4, <2>1, <3>1 DEF Range
  <2>3. CASE j = z
    <3>1. i \in 1..(z - 1)
      BY <1>1, <1>9, <2>1, <2>3
    <3>2. r[i] = x
      BY <1>4, <2>1, <2>3, <3>1
    <3> QED BY <1>4, <3>1, <3>2 DEF Range
  <2> QED BY <2>2, <2>3
<1>10. Range(r) = Range(q) \ {q[i]}
  BY <1>8, <1>9
<1> QED BY <1>3, <1>7, <1>10 DEF r, z

LEMMA Concatenated ==
  ASSUME NEW S, NEW q \in Seq(S), NEW r \in Seq(S)
  PROVE  /\ q \o r \in Seq(S) /\ Len(q \o r) = Len(q) + Len(r)
         /\ Range(q \o r) = Range(q) \cup Range(r)
         /\ IsInjective(q) /\ IsInjective(r) /\ Range(q) \cap Range(r) = {} =>
              IsInjective(q \o r)
<1> DEFINE p == q \o r
           z == Len(q)
           y == Len(r)
<1>1. /\ p \in Seq(S) /\ Len(p) = z + y /\ z \in Nat /\ y \in Nat
      /\ DOMAIN p = 1..(z + y) /\ DOMAIN q = 1..z /\ DOMAIN r = 1..y
      /\ \A i \in 1..z : p[i] = q[i]
      /\ \A i \in 1..y : p[z + i] = r[i]
  OBVIOUS
<1> HIDE DEF p, z, y
<1>2. \A i \in 1..(z + y) : i \in 1..z \/ (i - z \in 1..y /\ p[i] = r[i - z])
  <2> TAKE i \in 1..(z + y)
  <2>1. CASE i > z
    <3>1. i - z \in 1..y /\ z + (i - z) = i
      BY <1>1, <2>1
    <3> QED BY <1>1, <3>1
  <2>2. CASE ~(i > z)
    BY <1>1, <2>2
  <2> QED BY <2>1, <2>2
<1>3. ASSUME NEW x
      PROVE  x \in Range(p) <=> x \in Range(q) \cup Range(r)
  <2>1. x \in Range(p) => x \in Range(q) \cup Range(r)
    BY <1>1, <1>2 DEF Range
  <2>2. x \in Range(q) => x \in Range(p)
    BY <1>1 DEF Range
  <2>3. ASSUME x \in Range(r) PROVE x \in Range(p)
    <3>1. PICK i \in 1..y : x = r[i]
      BY <1>1, <2>3 DEF Range
    <3>2. z + i \in 1..(z + y)
      BY <1>1
    <3> QED BY <1>1, <3>1, <3>2 DEF Range
  <2> QED BY <2>1, <2>2, <2>3
<1>4. ASSUME IsInjective(q), IsInjective(r), Range(q) \cap Range(r) = {}
      PROVE  IsInjective(p)
  <2>1. \A i \in 1..z, j \in 1..y : q[i] # r[j]
    BY <1>1, <1>4 DEF Range
  <2>2. ASSUME NEW i \in 1..(z + y), NEW j \in 1..(z + y), p[i] = p[j]
        PROVE  i = j
    <3>1. CASE i \in 1..z /\ j \in 1..z
      BY <1>1, <1>4, <2>2, <3>1 DEF IsInjective
    <3>2. CASE i \in 1..z /\ j \notin 1..z
      BY <1>1, <1>2, <2>1, <2>2, <3>2
    <3>3. CASE i \notin 1..z /\ j \in 1..z
      BY <1>1, <1>2, <2>1, <2>2, <3>3
    <3>4. CASE i \notin 1..z /\ j \notin 1..z
      <4>1. i - z \in DOMAIN r /\ j - z \in DOMAIN r /\ r[i - z] = r[j - z]
        BY <1>1, <1>2, <2>2, <3>4
      <4>2. i - z = j - z
        BY <1>4, <4>1 DEF IsInjective
      <4> QED BY <1>1, <4>2
    <3> QED BY <3>1, <3>2, <3>3, <3>4
  <2> QED BY <1>1, <2>2 DEF IsInjective
<1> QED BY <1>1, <1>3, <1>4 DEF p, z, y

(* The queue v is q and requests for the chunks new of p at its end, and   *)
(* what that means.                                                        *)
LongerByRequests(q, p, new, v) ==
  v = q \o [i \in DOMAIN new |-> Message("request", <<p, new[i]>>)]

SaysRequests(q, p, new, v) ==
  /\ v \in Seq(Messages)
  /\ Said(v, "request") = Said(q, "request") \cup {p} \X Range(new)
  /\ \A type : type # "request" =>
       /\ Said(v, type) = Said(q, type)
       /\ Once(q, type) => Once(v, type)
       /\ Has(v, type) <=> Has(q, type)
  /\ Once(q, "request") /\ Said(q, "request") \cap ({p} \X Range(new)) = {} =>
       Once(v, "request")
  /\ HasChange(v) <=> HasChange(q)
  /\ \A i : LastChange(v, i) => LastChange(q, i) /\ v[i] = q[i]

LEMMA MoreRequests ==
  ASSUME NEW q \in Seq(Messages), NEW p \in Pieces, NEW new \in Seq(1..Chunks), IsInjective(new),
         NEW r, LongerByRequests(q, p, new, r)
  PROVE  SaysRequests(q, p, new, r)
<1> DEFINE v == [i \in DOMAIN new |-> Message("request", <<p, new[i]>>)]
           z == Len(q)
           y == Len(new)
<1>1. /\ z \in Nat /\ y \in Nat /\ DOMAIN q = 1..z /\ DOMAIN new = 1..y
      /\ \A i \in 1..y : new[i] \in 1..Chunks
  BY Elements
<1>2. \A i \in 1..y : v[i] \in Messages /\ v[i].type = "request" /\ v[i].body = <<p, new[i]>>
  BY <1>1 DEF Messages, Message, Request
<1>3. v \in Seq(Messages) /\ Len(v) = y
  BY <1>1, <1>2
<1> HIDE DEF v
<1>4. /\ r \in Seq(Messages) /\ DOMAIN r = 1..(z + y)
      /\ \A i \in 1..z : r[i] = q[i]
      /\ \A i \in 1..y : r[z + i] = v[i]
  <2>1. q \o v \in Seq(Messages) /\ Len(q \o v) = z + y
    BY <1>3
  <2>2. \A i \in 1..(z + y) : (q \o v)[i] = IF i <= z THEN q[i] ELSE v[i - z]
    BY <1>3
  <2>3. \A i \in 1..y : z + i \in 1..(z + y) /\ ~(z + i <= z) /\ (z + i) - z = i
    BY <1>1
  <2>4. \A i \in 1..z : i \in 1..(z + y) /\ i <= z
    BY <1>1
  <2>5. r = q \o v
    BY DEF LongerByRequests, v
  <2> HIDE DEF z, y
  <2> QED BY <2>1, <2>2, <2>3, <2>4, <2>5, Elements
<1> HIDE DEF z, y
<1>5. \A i \in 1..(z + y) : i \in 1..z \/ (i - z \in 1..y /\ r[i] = v[i - z])
  <2> TAKE i \in 1..(z + y)
  <2>1. CASE i > z
    <3>1. i - z \in 1..y /\ z + (i - z) = i
      BY <1>1, <2>1
    <3> QED BY <1>4, <3>1
  <2>2. CASE ~(i > z)
    BY <1>1, <2>2
  <2> QED BY <2>1, <2>2
<1>6. \A i \in 1..z : i \in 1..(z + y)
  BY <1>1
<1>7. \A i \in 1..y : z + i \in 1..(z + y)
  BY <1>1
<1>8. ASSUME NEW x
      PROVE  x \in Said(r, "request") <=> x \in Said(q, "request") \cup {p} \X Range(new)
  <2>1. ASSUME x \in Said(r, "request") PROVE x \in Said(q, "request") \cup {p} \X Range(new)
    <3>1. PICK i \in 1..(z + y) : r[i].type = "request" /\ x = r[i].body
      BY <1>4, <2>1 DEF Said
    <3>2. CASE i \in 1..z
      BY <1>1, <1>4, <3>1, <3>2 DEF Said
    <3>3. CASE i \notin 1..z
      <4>1. i - z \in 1..y /\ x = <<p, new[i - z]>>
        BY <1>2, <1>5, <3>1, <3>3
      <4> QED BY <1>1, <4>1 DEF Range
    <3> QED BY <3>2, <3>3
  <2>2. x \in Said(q, "request") => x \in Said(r, "request")
    BY <1>1, <1>4, <1>6 DEF Said
  <2>3. ASSUME x \in {p} \X Range(new) PROVE x \in Said(r, "request")
    <3>1. PICK i \in 1..y : x = <<p, new[i]>>
      BY <1>1, <2>3 DEF Range
    <3>2. r[z + i].type = "request" /\ r[z + i].body = x /\ z + i \in DOMAIN r
      BY <1>2, <1>4, <1>7, <3>1
    <3> QED BY <3>2 DEF Said
  <2> QED BY <2>1, <2>2, <2>3
<1>9. ASSUME NEW type, type # "request", NEW i \in 1..(z + y), r[i].type = type
      PROVE  i \in 1..z
  BY <1>2, <1>5, <1>9
<1>10. ASSUME NEW type, type # "request"
       PROVE  /\ Said(r, type) = Said(q, type)
              /\ Once(q, type) => Once(r, type)
              /\ Has(r, type) <=> Has(q, type)
  <2>1. Said(r, type) = Said(q, type)
    BY <1>1, <1>4, <1>6, <1>9, <1>10 DEF Said
  <2>2. Once(q, type) => Once(r, type)
    BY <1>1, <1>4, <1>9, <1>10 DEF Once
  <2>3. Has(r, type) <=> Has(q, type)
    BY <1>1, <1>4, <1>6, <1>9, <1>10 DEF Has
  <2> QED BY <2>1, <2>2, <2>3
<1>11. ASSUME Once(q, "request"), Said(q, "request") \cap ({p} \X Range(new)) = {}
       PROVE  Once(r, "request")
  <2>1. ASSUME NEW i \in 1..z, NEW j \in 1..y, q[i].type = "request", q[i].body = <<p, new[j]>>
        PROVE  FALSE
    <3>1. q[i].body \in Said(q, "request")
      BY <1>1, <2>1 DEF Said
    <3>2. new[j] \in Range(new)
      BY <1>1 DEF Range
    <3> QED BY <1>11, <2>1, <3>1, <3>2
  <2>2. ASSUME NEW i \in 1..(z + y), NEW j \in 1..(z + y),
               r[i].type = "request", r[j].type = "request", r[i].body = r[j].body
        PROVE  i = j
    <3>1. CASE i \in 1..z /\ j \in 1..z
      BY <1>1, <1>4, <1>11, <2>2, <3>1 DEF Once
    <3>2. CASE i \in 1..z /\ j \notin 1..z
      <4>1. j - z \in 1..y /\ r[j].body = <<p, new[j - z]>> /\ r[i] = q[i]
        BY <1>2, <1>4, <1>5, <3>2
      <4> QED BY <2>1, <2>2, <3>2, <4>1
    <3>3. CASE i \notin 1..z /\ j \in 1..z
      <4>1. i - z \in 1..y /\ r[i].body = <<p, new[i - z]>> /\ r[j] = q[j]
        BY <1>2, <1>4, <1>5, <3>3
      <4> QED BY <2>1, <2>2, <3>3, <4>1
    <3>4. CASE i \notin 1..z /\ j \notin 1..z
      <4>1. /\ i - z \in 1..y /\ r[i].body = <<p, new[i - z]>>
            /\ j - z \in 1..y /\ r[j].body = <<p, new[j - z]>>
        BY <1>2, <1>5, <3>4
      <4>2. new[i - z] = new[j - z]
        <5>1. <<p, new[i - z]>> = <<p, new[j - z]>>
          BY <2>2, <4>1
        <5>2. \A a, b : <<p, a>> = <<p, b>> => a = b
          OBVIOUS
        <5> QED BY <5>1, <5>2
      <4>3. i - z = j - z
        BY <1>1, <4>1, <4>2 DEF IsInjective
      <4> QED BY <1>1, <4>3
    <3> QED BY <3>1, <3>2, <3>3, <3>4
  <2> QED BY <1>4, <2>2 DEF Once
<1>12. \A i \in 1..(z + y) : r[i].type \in ChangeTypes => i \in 1..z
  BY <1>9 DEF ChangeTypes
<1>13. HasChange(r) <=> HasChange(q)
  BY <1>1, <1>4, <1>6, <1>12 DEF HasChange
<1>14. \A i : LastChange(r, i) => LastChange(q, i) /\ r[i] = q[i]
  BY <1>1, <1>4, <1>6, <1>12 DEF LastChange
<1> QED BY <1>4, <1>8, <1>10, <1>11, <1>13, <1>14 DEF SaysRequests

-----------------------------------------------------------------------------
(* The inductive invariant, about the state s of one end, the state t of   *)
(* the other, the messages in on their way to s and those to t.            *)

State ==
  [has : SUBSET Pieces, orders : Seq(Pieces), bf : {NoBitfield} \cup SUBSET Pieces,
   order : Pieces \cup {NoPiece}, received : SUBSET (1..Chunks), numDone : Nat,
   requests : Seq(1..Chunks), next : 1..(Chunks + 1),
   chokedBy : BOOLEAN, choking : BOOLEAN,
   interested : BOOLEAN, interestedSent : BOOLEAN,
   requested : Seq(Request), failed : BOOLEAN, out : Seq(Messages)]

(* The chunks of the piece in progress: asked for, received, or neither.   *)
ProgressOK(s) ==
  /\ IsInjective(s.requests) /\ Len(s.requests) <= PipelineLength
  /\ Range(s.requests) \cap s.received = {}
  /\ Range(s.requests) \cup s.received = 1..(s.next - 1)
  /\ s.numDone = Cardinality(s.received)
  /\ s.order = NoPiece => s.next = 1

(* What s has asked for is on its way to t, in t's list or on its way back.*)
AccountOK(s, t, in, to) ==
  /\ Once(to, "request") /\ IsInjective(t.requested) /\ Once(in, "piece")
  /\ Said(to, "request") \cap Range(t.requested) = {}
  /\ Said(to, "request") \cap Said(in, "piece") = {}
  /\ Range(t.requested) \cap Said(in, "piece") = {}
  /\ Said(to, "request") \cup Range(t.requested) \cup Said(in, "piece")
       = {s.order} \X Range(s.requests)

(* Whatever s believes of t's pieces, t has.                               *)
OfferOK(s, t, in) ==
  /\ \A pieces \in Said(in, "bitfield") : pieces \subseteq t.has
  /\ s.bf # NoBitfield => s.bf \subseteq t.has
  /\ s.order # NoPiece => s.order \in t.has

(* What s was told last about its being choked is true.                    *)
ViewOK(s, t, in) ==
  /\ ~HasChange(in) => t.choking = s.chokedBy
  /\ \A i \in DOMAIN in : LastChange(in, i) => t.choking = (in[i].type = "choke")

(* t knows that s is interested, or will, when s has said so, and s has    *)
(* when it waits for a choke to be lifted.                                 *)
Known(t, to) == t.interested \/ Has(to, "interested")
InterestOK(s, t, in, to) == s.interestedSent => Known(t, to)

Wanted(s, t, to) == s.order # NoPiece /\ s.chokedBy => Known(t, to)

Half(s, t, in, to) ==
  /\ AccountOK(s, t, in, to)
  /\ OfferOK(s, t, in)
  /\ ViewOK(s, t, in)
  /\ InterestOK(s, t, in, to)

(* What holds while s is busy between two selects.                         *)
Pair(s, t, in, to) ==
  /\ ProgressOK(s) /\ ProgressOK(t)
  /\ Half(s, t, in, to) /\ Half(t, s, to, in)
  /\ Wanted(t, s, in)

Typed ==
  /\ node \in [Nodes -> State] /\ wire \in [Nodes -> Seq(Messages)]
  /\ \A n \in Nodes : node[n].out = <<>> /\ ~node[n].failed

IInv ==
  /\ Typed
  /\ \A n \in Nodes :
       /\ ProgressOK(node[n])
       /\ Half(node[n], node[Other(n)], wire[n], wire[Other(n)])
       /\ Wanted(node[n], node[Other(n)], wire[Other(n)])

-----------------------------------------------------------------------------
(* The top of the loop, one call after the other.                          *)

LEMMA Fields ==
  ASSUME NEW s \in State
  PROVE  /\ s.has \in SUBSET Pieces /\ s.orders \in Seq(Pieces)
         /\ s.bf \in {NoBitfield} \cup SUBSET Pieces
         /\ s.order \in Pieces \cup {NoPiece}
         /\ s.received \in SUBSET (1..Chunks) /\ s.numDone \in Nat
         /\ s.requests \in Seq(1..Chunks) /\ s.next \in 1..(Chunks + 1)
         /\ s.chokedBy \in BOOLEAN /\ s.choking \in BOOLEAN
         /\ s.interested \in BOOLEAN /\ s.interestedSent \in BOOLEAN
         /\ s.requested \in Seq(Request) /\ s.failed \in BOOLEAN
         /\ s.out \in Seq(Messages)
BY DEF State

LEMMA AppendToOut ==
  ASSUME NEW S, NEW q \in Seq(S), NEW r \in Seq(S), NEW m \in S
  PROVE  q \o Append(r, m) = Append(q \o r, m)
OBVIOUS

LEMMA AppendAllToOut ==
  ASSUME NEW S, NEW q \in Seq(S), NEW r \in Seq(S), NEW u \in Seq(S)
  PROVE  q \o (r \o u) = (q \o r) \o u
BY ConcatAssociative

(* The queue v is q and one message more, and what that means.             *)
Longer(q, kind, body, v) ==
  Message(kind, body) \in Messages /\ v = Append(q, Message(kind, body))

SaysMore(q, kind, body, v) ==
  /\ v \in Seq(Messages)
  /\ Said(v, kind) = Said(q, kind) \cup {body} /\ Has(v, kind)
  /\ \A type : type # kind =>
       /\ Said(v, type) = Said(q, type)
       /\ Once(q, type) => Once(v, type)
       /\ Has(v, type) <=> Has(q, type)
  /\ Once(q, kind) /\ body \notin Said(q, kind) => Once(v, kind)
  /\ kind \notin ChangeTypes =>
       /\ HasChange(v) <=> HasChange(q)
       /\ \A i : LastChange(v, i) => LastChange(q, i) /\ v[i] = q[i]
  /\ kind \in ChangeTypes =>
       /\ HasChange(v)
       /\ \A i : LastChange(v, i) => v[i].type = kind

LEMMA OneMore ==
  ASSUME NEW q \in Seq(Messages), NEW kind, NEW body, NEW v, Longer(q, kind, body, v)
  PROVE  SaysMore(q, kind, body, v)
<1>1. PICK m \in Messages : m = Message(kind, body) /\ m.type = kind /\ m.body = body
  BY DEF Message, Longer
<1>2. v = Append(q, m) /\ After(q, m, v)
  BY <1>1 DEF Longer, After
<1>3. /\ v \in Seq(Messages)
      /\ Said(v, m.type) = Said(q, m.type) \cup {m.body} /\ Has(v, m.type)
      /\ Once(q, m.type) /\ m.body \notin Said(q, m.type) => Once(v, m.type)
  BY <1>2, SaidMore
<1>4. \A type : type # m.type => Said(v, type) = Said(q, type)
  BY <1>2, SaidMore
<1>5. \A type : type # m.type => (Once(q, type) => Once(v, type))
  BY <1>2, SaidMore
<1>6. \A type : type # m.type => (Has(v, type) <=> Has(q, type))
  BY <1>2, SaidMore
<1>7. IF m.type \in ChangeTypes THEN NewChange(v, m.type) ELSE SameChange(q, v)
  BY <1>2, ChangesMore
<1> QED BY <1>1, <1>3, <1>4, <1>5, <1>6, <1>7 DEF SaysMore, NewChange, SameChange

LEMMA Uploading ==
  ASSUME NEW s \in State, NEW t \in State,
         NEW in \in Seq(Messages), NEW to \in Seq(Messages),
         ~s.failed, Pair(s, t, in, to \o s.out),
         NEW c, c = UploadChunk(s)
  PROVE  c \in State /\ ~c.failed /\ Pair(c, t, in, to \o c.out)
<1>1. CASE s.choking \/ ~s.interested \/ s.requested = <<>>
  BY <1>1 DEF UploadChunk
<1>2. CASE ~(s.choking \/ ~s.interested \/ s.requested = <<>>)
  <2> DEFINE h == Head(s.requested)
             m == Message("piece", h)
             w == to \o s.out
  <2>1. s.requested \in Seq(Request) /\ s.out \in Seq(Messages) /\ w \in Seq(Messages)
    BY Fields
  <2>2. h \in Request /\ h \in Range(s.requested) /\ 1 \in DOMAIN s.requested /\ h = s.requested[1]
    BY <1>2, <2>1, TakenFirst DEF Range
  <2>3. m \in Messages /\ m.type = "piece" /\ m.body = h
    BY <2>2 DEF Message, Messages
  <2>4. AccountOK(t, s, w, in) /\ OfferOK(t, s, w) /\ ProgressOK(t)
    BY DEF Pair, Half
  <2>5. h \in {t.order} \X Range(t.requests)
    BY <2>2, <2>4 DEF AccountOK
  <2>6. h[1] = t.order /\ t.order # NoPiece
    <3>1. h[1] = t.order /\ h[1] \in Pieces
      BY <2>2, <2>5 DEF Request
    <3> QED BY <3>1, PiecesAssumption
  <2>7. h[1] \in s.has
    BY <2>4, <2>6 DEF OfferOK
  <2> DEFINE d == [s EXCEPT !.out = Append(@, m), !.requested = SwapDelete(@, 1)]
  <2>8. c = d
    BY <1>2, <2>7 DEF UploadChunk
  <2>9. /\ SwapDelete(s.requested, 1) \in Seq(Request)
        /\ IsInjective(SwapDelete(s.requested, 1))
        /\ Range(SwapDelete(s.requested, 1)) = Range(s.requested) \ {h}
    BY <2>1, <2>2, <2>4, SwapDeleted DEF AccountOK
  <2>10. Append(s.out, m) \in Seq(Messages)
    BY <2>1, <2>3
  <2> HIDE DEF m, h
  <2>11. d \in State
    BY <2>9, <2>10 DEF State
  <2>12. /\ d.has = s.has /\ d.bf = s.bf /\ d.order = s.order /\ d.received = s.received
         /\ d.numDone = s.numDone /\ d.requests = s.requests /\ d.next = s.next
         /\ d.chokedBy = s.chokedBy /\ d.choking = s.choking /\ d.interested = s.interested
         /\ d.interestedSent = s.interestedSent /\ d.failed = s.failed
         /\ d.requested = SwapDelete(s.requested, 1) /\ d.out = Append(s.out, m)
    BY DEF State
  <2> DEFINE v == to \o d.out
  <2>13. v = Append(w, m)
    BY <2>1, <2>3, <2>12, AppendToOut
  <2> HIDE DEF d, w, v
  <2>14. /\ Said(v, "piece") = Said(w, "piece") \cup {h}
         /\ \A type : type # "piece" =>
              /\ Said(v, type) = Said(w, type)
              /\ Once(w, type) => Once(v, type)
              /\ Has(v, type) <=> Has(w, type)
         /\ Once(w, "piece") /\ h \notin Said(w, "piece") => Once(v, "piece")
         /\ HasChange(v) <=> HasChange(w)
         /\ \A i : LastChange(v, i) => LastChange(w, i) /\ v[i] = w[i]
    <3>1. "piece" \notin ChangeTypes
      BY DEF ChangeTypes
    <3>2. Longer(w, "piece", h, v)
      BY <2>3, <2>13 DEF Longer, m
    <3>3. SaysMore(w, "piece", h, v)
      BY <2>1, <3>2, OneMore
    <3> QED BY <3>1, <3>3 DEF SaysMore
  <2>15. ProgressOK(d) /\ ProgressOK(t) /\ Wanted(t, d, in)
    BY <2>12 DEF Pair, ProgressOK, Wanted, Known
  <2>16. Half(d, t, in, v)
    <3>1. AccountOK(s, t, in, w) /\ OfferOK(s, t, in) /\ ViewOK(s, t, in) /\ InterestOK(s, t, in, w)
      BY DEF Pair, Half, w
    <3>2. AccountOK(d, t, in, v)
      BY <3>1, <2>12, <2>14 DEF AccountOK
    <3>3. OfferOK(d, t, in) /\ ViewOK(d, t, in) /\ InterestOK(d, t, in, v)
      BY <3>1, <2>12, <2>14 DEF OfferOK, ViewOK, InterestOK, Known
    <3> QED BY <3>2, <3>3 DEF Half
  <2>17. Half(t, d, v, in)
    <3>1. AccountOK(t, s, w, in) /\ OfferOK(t, s, w) /\ ViewOK(t, s, w) /\ InterestOK(t, s, w, in)
      BY DEF Pair, Half, w
    <3>2. AccountOK(t, d, v, in)
      BY <3>1, <2>2, <2>9, <2>12, <2>14 DEF AccountOK
    <3>3. OfferOK(t, d, v) /\ InterestOK(t, d, v, in)
      BY <3>1, <2>12, <2>14 DEF OfferOK, InterestOK, Known
    <3>4. ViewOK(t, d, v)
      BY <3>1, <2>12, <2>14 DEF ViewOK, LastChange
    <3> QED BY <3>2, <3>3, <3>4 DEF Half
  <2> QED BY <2>8, <2>11, <2>12, <2>15, <2>16, <2>17 DEF Pair, v
<1> QED BY <1>1, <1>2

LEMMA Chunked ==
  /\ IsFiniteSet(1..Chunks) /\ Cardinality(1..Chunks) = Chunks
  /\ \A C \in SUBSET (1..Chunks) :
       /\ IsFiniteSet(C) /\ Cardinality(C) \in 0..Chunks
       /\ Cardinality(C) = Chunks => C = 1..Chunks
<1>1. IsFiniteSet(1..Chunks) /\ Cardinality(1..Chunks) = Chunks
  BY LengthsAssumption, FS_Interval
<1>2. ASSUME NEW C \in SUBSET (1..Chunks)
      PROVE  /\ IsFiniteSet(C) /\ Cardinality(C) \in 0..Chunks
             /\ Cardinality(C) = Chunks => C = 1..Chunks
  <2>1. IsFiniteSet(C) /\ Cardinality(C) <= Chunks /\ (Cardinality(C) = Chunks => C = 1..Chunks)
    BY <1>1, FS_Subset
  <2>2. Cardinality(C) \in Nat
    BY <2>1, FS_CardinalityType
  <2> QED BY <2>1, <2>2, LengthsAssumption
<1> QED BY <1>1, <1>2

LEMMA Completing ==
  ASSUME NEW s \in State, NEW t \in State,
         NEW in \in Seq(Messages), NEW to \in Seq(Messages),
         ~s.failed, Pair(s, t, in, to \o s.out),
         NEW c, c = CompletePiece(s)
  PROVE  c \in State /\ ~c.failed /\ Pair(c, t, in, to \o c.out)
<1>1. CASE s.order = NoPiece \/ s.numDone # Chunks
  BY <1>1 DEF CompletePiece
<1>2. CASE ~(s.order = NoPiece \/ s.numDone # Chunks)
  <2> DEFINE m == Bare("have")
             w == to \o s.out
             d == [s EXCEPT !.out = Append(@, m), !.has = @ \cup {s.order},
                            !.order = NoPiece, !.received = {}, !.numDone = 0,
                            !.requests = <<>>, !.next = 1]
             v == to \o d.out
  <2>1. c = d
    BY <1>2 DEF CompletePiece
  <2>2. s.out \in Seq(Messages) /\ w \in Seq(Messages) /\ m \in Messages
    BY Fields DEF Message, Bare, Messages
  <2>3. s.has \cup {s.order} \in SUBSET Pieces /\ s.order \in Pieces
    BY <1>2, Fields
  <2> HIDE DEF m
  <2>4. d \in State
    <3>1. <<>> \in Seq(1..Chunks) /\ 1 \in 1..(Chunks + 1) /\ Append(s.out, m) \in Seq(Messages)
      BY <2>2, LengthsAssumption
    <3>2. s.has \cup {s.order} \in SUBSET Pieces
      BY <2>3
    <3> QED BY <3>1, <3>2 DEF State
  <2>5. /\ d.has = s.has \cup {s.order} /\ d.bf = s.bf /\ d.order = NoPiece /\ d.received = {}
        /\ d.numDone = 0 /\ d.requests = <<>> /\ d.next = 1
        /\ d.chokedBy = s.chokedBy /\ d.choking = s.choking /\ d.interested = s.interested
        /\ d.interestedSent = s.interestedSent /\ d.failed = s.failed
        /\ d.requested = s.requested /\ d.out = Append(s.out, m)
    BY DEF State
  <2>6. v = Append(w, m)
    BY <2>2, <2>5, AppendToOut
  <2> HIDE DEF d, w, v
  <2>7. SaysMore(w, "have", NoPiece, v)
    <3>1. Longer(w, "have", NoPiece, v)
      BY <2>2, <2>6 DEF Longer, m, Bare
    <3> QED BY <2>2, <3>1, OneMore
  <2>8. /\ \A type \in {"request", "piece", "bitfield", "interested", "unchoke"} :
             /\ Said(v, type) = Said(w, type)
             /\ Once(w, type) => Once(v, type)
             /\ Has(v, type) <=> Has(w, type)
        /\ HasChange(v) <=> HasChange(w)
        /\ \A i : LastChange(v, i) => LastChange(w, i) /\ v[i] = w[i]
    BY <2>7 DEF SaysMore, ChangeTypes
  <2>9. Range(s.requests) = {}
    <3>1. s.received = 1..Chunks
      BY <1>2, Fields, Chunked DEF Pair, ProgressOK
    <3>2. Range(s.requests) \subseteq 1..Chunks
      BY Fields, Elements
    <3> QED BY <3>1, <3>2 DEF Pair, ProgressOK
  <2>10. IsInjective(d.requests) /\ Range(d.requests) = {} /\ Len(d.requests) = 0
    BY <2>5 DEF IsInjective, Range
  <2>11. ProgressOK(d)
    BY <2>5, <2>10, FS_EmptySet, LengthsAssumption DEF ProgressOK
  <2>12. ProgressOK(t) /\ Wanted(t, d, in)
    BY <2>5 DEF Pair, Wanted, Known
  <2>13. Half(d, t, in, v)
    <3>1. AccountOK(s, t, in, w) /\ OfferOK(s, t, in) /\ ViewOK(s, t, in) /\ InterestOK(s, t, in, w)
      BY DEF Pair, Half, w
    <3>2. AccountOK(d, t, in, v)
      BY <3>1, <2>5, <2>8, <2>9, <2>10 DEF AccountOK
    <3>3. OfferOK(d, t, in) /\ ViewOK(d, t, in) /\ InterestOK(d, t, in, v)
      BY <3>1, <2>5, <2>8 DEF OfferOK, ViewOK, InterestOK, Known
    <3> QED BY <3>2, <3>3 DEF Half
  <2>14. Half(t, d, v, in)
    <3>1. AccountOK(t, s, w, in) /\ OfferOK(t, s, w) /\ ViewOK(t, s, w) /\ InterestOK(t, s, w, in)
      BY DEF Pair, Half, w
    <3>2. AccountOK(t, d, v, in)
      BY <3>1, <2>5, <2>8 DEF AccountOK
    <3>3. OfferOK(t, d, v) /\ InterestOK(t, d, v, in)
      BY <3>1, <2>5, <2>8 DEF OfferOK, InterestOK, Known
    <3>4. ViewOK(t, d, v)
      BY <3>1, <2>5, <2>8 DEF ViewOK, LastChange
    <3> QED BY <3>2, <3>3, <3>4 DEF Half
  <2> QED BY <2>1, <2>4, <2>5, <2>11, <2>12, <2>13, <2>14 DEF Pair, v
<1> QED BY <1>1, <1>2

LEMMA Taking ==
  ASSUME NEW s \in State, NEW t \in State,
         NEW in \in Seq(Messages), NEW to \in Seq(Messages),
         ~s.failed, Pair(s, t, in, to \o s.out),
         NEW c, c = TakePiece(s)
  PROVE  c \in State /\ ~c.failed /\ Pair(c, t, in, to \o c.out)
<1>1. CASE s.order # NoPiece \/ s.bf = NoBitfield \/ s.orders = <<>>
  BY <1>1 DEF TakePiece
<1>2. CASE ~(s.order # NoPiece \/ s.bf = NoBitfield \/ s.orders = <<>>)
  <2> DEFINE p == Head(s.orders)
             q == Tail(s.orders)
             w == to \o s.out
  <2>1. s.orders \in Seq(Pieces) /\ s.orders # <<>>
    BY <1>2, Fields
  <2>2. p \in Pieces /\ q \in Seq(Pieces) /\ Append(q, p) \in Seq(Pieces)
    BY <2>1
  <2>3. /\ AccountOK(s, t, in, w) /\ OfferOK(s, t, in) /\ ViewOK(s, t, in) /\ InterestOK(s, t, in, w)
        /\ AccountOK(t, s, w, in) /\ OfferOK(t, s, w) /\ ViewOK(t, s, w) /\ InterestOK(t, s, w, in)
        /\ ProgressOK(s) /\ ProgressOK(t) /\ Wanted(t, s, in)
    BY DEF Pair, Half
  <2> HIDE DEF p, q, w
  <2>4. CASE p \in s.bf
    <3> DEFINE d == [s EXCEPT !.order = p, !.orders = Tail(@)]
    <3>1. c = d
      BY <1>2, <2>4 DEF TakePiece, p
    <3>2. d \in State
      <4>1. Tail(s.orders) \in Seq(Pieces)
        BY <2>2 DEF q
      <4> QED BY <2>2, <4>1 DEF State
    <3>3. /\ d.has = s.has /\ d.bf = s.bf /\ d.order = p /\ d.received = s.received
          /\ d.numDone = s.numDone /\ d.requests = s.requests /\ d.next = s.next
          /\ d.chokedBy = s.chokedBy /\ d.choking = s.choking /\ d.interested = s.interested
          /\ d.interestedSent = s.interestedSent /\ d.failed = s.failed
          /\ d.requested = s.requested /\ d.out = s.out
      BY DEF State
    <3> HIDE DEF d
    <3>4. p # NoPiece /\ p \in t.has
      BY <1>2, <2>2, <2>3, <2>4, PiecesAssumption DEF OfferOK
    <3>5. Range(s.requests) = {}
      BY <1>2, <2>3, LengthsAssumption DEF ProgressOK
    <3>6. ProgressOK(d) /\ Wanted(t, d, in)
      BY <2>3, <3>3, <3>4 DEF ProgressOK, Wanted, Known
    <3>7. AccountOK(d, t, in, w) /\ AccountOK(t, d, w, in)
      BY <2>3, <3>3, <3>5 DEF AccountOK
    <3>8. OfferOK(d, t, in) /\ OfferOK(t, d, w)
      BY <2>3, <3>3, <3>4 DEF OfferOK
    <3>9. /\ ViewOK(d, t, in) /\ ViewOK(t, d, w)
          /\ InterestOK(d, t, in, w) /\ InterestOK(t, d, w, in)
      BY <2>3, <3>3 DEF ViewOK, InterestOK, Known
    <3> QED BY <2>3, <3>1, <3>2, <3>3, <3>6, <3>7, <3>8, <3>9 DEF Pair, Half, w
  <2>5. CASE p \notin s.bf
    <3> DEFINE d == [s EXCEPT !.orders = Append(Tail(@), Head(@))]
    <3>1. c = d
      BY <1>2, <2>5 DEF TakePiece, p
    <3>2. d \in State
      <4>1. Append(Tail(s.orders), Head(s.orders)) \in Seq(Pieces)
        BY <2>2 DEF p, q
      <4> QED BY <4>1 DEF State
    <3>3. /\ d.has = s.has /\ d.bf = s.bf /\ d.order = s.order /\ d.received = s.received
          /\ d.numDone = s.numDone /\ d.requests = s.requests /\ d.next = s.next
          /\ d.chokedBy = s.chokedBy /\ d.choking = s.choking /\ d.interested = s.interested
          /\ d.interestedSent = s.interestedSent /\ d.failed = s.failed
          /\ d.requested = s.requested /\ d.out = s.out
      BY DEF State
    <3> HIDE DEF d
    <3>4. ProgressOK(d) /\ Wanted(t, d, in)
      BY <2>3, <3>3 DEF ProgressOK, Wanted, Known
    <3>5. AccountOK(d, t, in, w) /\ AccountOK(t, d, w, in)
      BY <2>3, <3>3 DEF AccountOK
    <3>6. /\ OfferOK(d, t, in) /\ OfferOK(t, d, w)
          /\ ViewOK(d, t, in) /\ ViewOK(t, d, w)
          /\ InterestOK(d, t, in, w) /\ InterestOK(t, d, w, in)
      BY <2>3, <3>3 DEF OfferOK, ViewOK, InterestOK, Known
    <3> QED BY <2>3, <3>1, <3>2, <3>3, <3>4, <3>5, <3>6 DEF Pair, Half, w
  <2> QED BY <2>4, <2>5
<1> QED BY <1>1, <1>2

LEMMA SayingInterest ==
  ASSUME NEW s \in State, NEW t \in State,
         NEW in \in Seq(Messages), NEW to \in Seq(Messages),
         ~s.failed, Pair(s, t, in, to \o s.out),
         NEW c, c = SayInterested(s)
  PROVE  /\ c \in State /\ ~c.failed /\ Pair(c, t, in, to \o c.out)
         /\ Wanted(c, t, to \o c.out)
<1> DEFINE w == to \o s.out
<1>1. s.out \in Seq(Messages) /\ w \in Seq(Messages)
  BY Fields
<1>2. /\ AccountOK(s, t, in, w) /\ OfferOK(s, t, in) /\ ViewOK(s, t, in) /\ InterestOK(s, t, in, w)
      /\ AccountOK(t, s, w, in) /\ OfferOK(t, s, w) /\ ViewOK(t, s, w) /\ InterestOK(t, s, w, in)
      /\ ProgressOK(s) /\ ProgressOK(t) /\ Wanted(t, s, in)
  BY DEF Pair, Half
<1> HIDE DEF w
<1>3. CASE s.order = NoPiece \/ ~s.chokedBy \/ s.interestedSent
  <2>1. c = s
    BY <1>3 DEF SayInterested
  <2>2. Wanted(s, t, w)
    BY <1>2, <1>3 DEF Wanted, InterestOK, Known
  <2> QED BY <2>1, <2>2 DEF w
<1>4. CASE ~(s.order = NoPiece \/ ~s.chokedBy \/ s.interestedSent)
  <2> DEFINE m == Bare("interested")
             d == [s EXCEPT !.out = Append(@, m), !.interestedSent = TRUE]
             v == to \o d.out
  <2>1. c = d
    BY <1>4 DEF SayInterested
  <2>2. m \in Messages
    BY DEF Message, Bare, Messages
  <2> HIDE DEF m
  <2>3. d \in State
    <3>1. Append(s.out, m) \in Seq(Messages)
      BY <1>1, <2>2
    <3> QED BY <3>1 DEF State
  <2>4. /\ d.has = s.has /\ d.bf = s.bf /\ d.order = s.order /\ d.received = s.received
        /\ d.numDone = s.numDone /\ d.requests = s.requests /\ d.next = s.next
        /\ d.chokedBy = s.chokedBy /\ d.choking = s.choking /\ d.interested = s.interested
        /\ d.failed = s.failed /\ d.requested = s.requested /\ d.out = Append(s.out, m)
    BY DEF State
  <2>5. v = Append(w, m)
    BY <1>1, <2>2, <2>4, AppendToOut DEF w
  <2> HIDE DEF d, v
  <2>6. SaysMore(w, "interested", NoPiece, v)
    <3>1. Longer(w, "interested", NoPiece, v)
      BY <2>2, <2>5 DEF Longer, m, Bare
    <3> QED BY <1>1, <3>1, OneMore
  <2>7. /\ \A type \in {"request", "piece", "bitfield", "unchoke"} :
             /\ Said(v, type) = Said(w, type)
             /\ Once(w, type) => Once(v, type)
             /\ Has(v, type) <=> Has(w, type)
        /\ Has(v, "interested")
        /\ HasChange(v) <=> HasChange(w)
        /\ \A i : LastChange(v, i) => LastChange(w, i) /\ v[i] = w[i]
    BY <2>6 DEF SaysMore, ChangeTypes
  <2>8. ProgressOK(d) /\ Wanted(t, d, in) /\ Wanted(d, t, v)
    BY <1>2, <2>4, <2>7 DEF ProgressOK, Wanted, Known
  <2>9. AccountOK(d, t, in, v) /\ AccountOK(t, d, v, in)
    BY <1>2, <2>4, <2>7 DEF AccountOK
  <2>10. /\ OfferOK(d, t, in) /\ OfferOK(t, d, v)
         /\ InterestOK(d, t, in, v) /\ InterestOK(t, d, v, in)
    BY <1>2, <2>4, <2>7 DEF OfferOK, InterestOK, Known
  <2>11. ViewOK(d, t, in) /\ ViewOK(t, d, v)
    BY <1>2, <2>4, <2>7 DEF ViewOK, LastChange
  <2> QED BY <1>2, <2>1, <2>3, <2>4, <2>8, <2>9, <2>10, <2>11 DEF Pair, Half, v
<1> QED BY <1>3, <1>4

(* New requests are for chunks that were not asked for before.             *)
NewChunks(s, new) == new = [i \in 1..NumberToSend(s) |-> s.next + i - 1]

LEMMA NewRequests ==
  ASSUME NEW s \in State, ProgressOK(s), Len(s.requests) < PipelineLength,
         NEW new, NewChunks(s, new)
  PROVE  /\ new \in Seq(1..Chunks) /\ IsInjective(new)
         /\ s.next + Len(new) \in 1..(Chunks + 1)
         /\ Len(s.requests) + Len(new) <= PipelineLength
         /\ Range(new) \cap (1..(s.next - 1)) = {}
         /\ Range(new) \cup (1..(s.next - 1)) = 1..((s.next + Len(new)) - 1)
<1> DEFINE k == NumberToSend(s)
           z == s.next
<1>1. /\ k \in Nat /\ z \in Nat \ {0} /\ z + k <= Chunks + 1 /\ Chunks \in Nat
      /\ Len(s.requests) + k <= PipelineLength
  BY Fields, LengthsAssumption DEF NumberToSend
<1> HIDE DEF k
<1>2. \A i \in 1..k : z + i - 1 \in 1..Chunks
  BY <1>1
<1>3. new \in Seq(1..Chunks) /\ Len(new) = k /\ DOMAIN new = 1..k
      /\ \A i \in 1..k : new[i] = z + i - 1
  BY <1>1, <1>2 DEF k, NewChunks
<1> HIDE DEF z
<1>4. IsInjective(new)
  <2>1. ASSUME NEW i \in 1..k, NEW j \in 1..k, new[i] = new[j]
        PROVE  i = j
    <3>1. z + i - 1 = z + j - 1
      BY <1>3, <2>1
    <3>2. i \in Int /\ j \in Int /\ z \in Int
      BY <1>1
    <3> QED BY <3>1, <3>2
  <2> QED BY <1>3, <2>1 DEF IsInjective
<1>5. \A x : x \in Range(new) <=> x \in z..((z + k) - 1)
  <2>1. ASSUME NEW x \in Range(new) PROVE x \in z..((z + k) - 1)
    <3>1. PICK i \in 1..k : x = z + i - 1
      BY <1>3 DEF Range
    <3> QED BY <1>1, <3>1
  <2>2. ASSUME NEW x \in z..((z + k) - 1) PROVE x \in Range(new)
    <3>1. x - z + 1 \in 1..k /\ z + (x - z + 1) - 1 = x
      BY <1>1
    <3> QED BY <1>3, <3>1 DEF Range
  <2> QED BY <2>1, <2>2
<1>6. Range(new) \cap (1..(z - 1)) = {} /\ Range(new) \cup (1..(z - 1)) = 1..((z + k) - 1)
  BY <1>1, <1>5
<1>7. s.next + Len(new) \in 1..(Chunks + 1) /\ Len(s.requests) + Len(new) <= PipelineLength
  <2>1. z + Len(new) \in 1..(Chunks + 1)
    BY <1>1, <1>3
  <2>2. Len(s.requests) + Len(new) <= PipelineLength
    BY <1>1, <1>3
  <2> QED BY <2>1, <2>2 DEF z
<1>8. /\ Range(new) \cap (1..(s.next - 1)) = {}
      /\ Range(new) \cup (1..(s.next - 1)) = 1..((s.next + Len(new)) - 1)
  BY <1>3, <1>6 DEF z
<1> QED BY <1>3, <1>4, <1>7, <1>8

LEMMA Filling ==
  ASSUME NEW s \in State, NEW t \in State,
         NEW in \in Seq(Messages), NEW to \in Seq(Messages),
         ~s.failed, Pair(s, t, in, to \o s.out), Wanted(s, t, to \o s.out),
         NEW c, c = FillRequests(s)
  PROVE  /\ c \in State /\ ~c.failed /\ Pair(c, t, in, to \o c.out)
         /\ Wanted(c, t, to \o c.out)
<1> DEFINE w == to \o s.out
<1>1. s.out \in Seq(Messages) /\ w \in Seq(Messages) /\ s.requests \in Seq(1..Chunks)
  BY Fields
<1>2. /\ AccountOK(s, t, in, w) /\ OfferOK(s, t, in) /\ ViewOK(s, t, in) /\ InterestOK(s, t, in, w)
      /\ AccountOK(t, s, w, in) /\ OfferOK(t, s, w) /\ ViewOK(t, s, w) /\ InterestOK(t, s, w, in)
      /\ ProgressOK(s) /\ ProgressOK(t) /\ Wanted(t, s, in) /\ Wanted(s, t, w)
  BY DEF Pair, Half
<1> HIDE DEF w
<1>3. CASE s.order = NoPiece \/ s.chokedBy \/ Len(s.requests) >= PipelineLength
  BY <1>3 DEF FillRequests
<1>4. CASE ~(s.order = NoPiece \/ s.chokedBy \/ Len(s.requests) >= PipelineLength)
  <2> DEFINE new == [i \in 1..NumberToSend(s) |-> s.next + i - 1]
             asks == [i \in DOMAIN new |-> Message("request", <<s.order, new[i]>>)]
             d == [s EXCEPT !.out = @ \o asks, !.requests = @ \o new, !.next = @ + Len(new)]
             v == to \o d.out
  <2>1. c = d
    BY <1>4 DEF FillRequests
  <2>2. s.order \in Pieces /\ Len(s.requests) < PipelineLength
    BY <1>1, <1>4, Fields, LengthsAssumption
  <2>3. /\ new \in Seq(1..Chunks) /\ IsInjective(new)
        /\ s.next + Len(new) \in 1..(Chunks + 1)
        /\ Len(s.requests) + Len(new) <= PipelineLength
        /\ Range(new) \cap (1..(s.next - 1)) = {}
        /\ Range(new) \cup (1..(s.next - 1)) = 1..((s.next + Len(new)) - 1)
    BY <1>2, <2>2, NewRequests DEF NewChunks
  <2> HIDE DEF new
  <2>4. asks \in Seq(Messages)
    <3>1. ASSUME NEW i \in DOMAIN new
          PROVE  Message("request", <<s.order, new[i]>>) \in Messages
      <4>1. new[i] \in 1..Chunks
        BY <2>3, Elements
      <4>2. <<s.order, new[i]>> \in Request
        BY <2>2, <4>1 DEF Request
      <4> QED BY <4>2 DEF Messages, Message
    <3>2. Len(new) \in Nat /\ DOMAIN new = 1..Len(new)
      BY <2>3, Elements
    <3> QED BY <3>1, <3>2
  <2> HIDE DEF asks
  <2>6. /\ s.requests \o new \in Seq(1..Chunks)
        /\ Len(s.requests \o new) = Len(s.requests) + Len(new)
        /\ Range(s.requests \o new) = Range(s.requests) \cup Range(new)
        /\ IsInjective(s.requests \o new)
    <3>1. Range(s.requests) \subseteq 1..(s.next - 1) /\ IsInjective(s.requests)
      BY <1>2 DEF ProgressOK
    <3>2. Range(s.requests) \cap Range(new) = {}
      BY <2>3, <3>1
    <3> QED BY <1>1, <2>3, <3>1, <3>2, Concatenated
  <2>7. d \in State
    <3>1. s.out \o asks \in Seq(Messages)
      BY <1>1, <2>4
    <3> QED BY <2>3, <2>6, <3>1 DEF State
  <2>8. /\ d.has = s.has /\ d.bf = s.bf /\ d.order = s.order /\ d.received = s.received
        /\ d.numDone = s.numDone /\ d.requests = s.requests \o new
        /\ d.next = s.next + Len(new)
        /\ d.chokedBy = s.chokedBy /\ d.choking = s.choking /\ d.interested = s.interested
        /\ d.interestedSent = s.interestedSent /\ d.failed = s.failed
        /\ d.requested = s.requested /\ d.out = s.out \o asks
    BY DEF State
  <2>9. SaysRequests(w, s.order, new, v)
    <3>1. to \o (s.out \o asks) = (to \o s.out) \o asks
      <4>1. \A r, u \in Seq(Messages) : to \o (r \o u) = (to \o r) \o u
        BY AppendAllToOut
      <4> QED BY <1>1, <2>4, <4>1
    <3>2. v = w \o asks
      BY <2>8, <3>1 DEF w
    <3> HIDE DEF d, v
    <3>3. LongerByRequests(w, s.order, new, v)
      BY <3>2 DEF LongerByRequests, asks
    <3> QED BY <1>1, <2>2, <2>3, <3>3, MoreRequests
  <2> HIDE DEF d, v
  <2>5. /\ Said(v, "request") = Said(w, "request") \cup {s.order} \X Range(new)
        /\ \A type \in {"piece", "bitfield", "interested", "unchoke"} :
             /\ Said(v, type) = Said(w, type)
             /\ Once(w, type) => Once(v, type)
             /\ Has(v, type) <=> Has(w, type)
        /\ Once(w, "request") /\ Said(w, "request") \cap ({s.order} \X Range(new)) = {} =>
             Once(v, "request")
        /\ HasChange(v) <=> HasChange(w)
        /\ \A i : LastChange(v, i) => LastChange(w, i) /\ v[i] = w[i]
    BY <2>9 DEF SaysRequests
  <2>10. ProgressOK(d)
    <3>1. Range(d.requests) \cap d.received = {}
      BY <1>2, <2>3, <2>6, <2>8 DEF ProgressOK
    <3>2. Range(d.requests) \cup d.received = 1..(d.next - 1)
      <4>1. Range(s.requests) \cup s.received = 1..(s.next - 1)
        BY <1>2 DEF ProgressOK
      <4>2. Range(d.requests) = Range(s.requests) \cup Range(new)
        BY <2>6, <2>8
      <4>3. d.received = s.received /\ d.next = s.next + Len(new)
        BY <2>8
      <4>4. Range(new) \cup (1..(s.next - 1)) = 1..((s.next + Len(new)) - 1)
        BY <2>3
      <4>5. Range(d.requests) \cup d.received = Range(new) \cup (1..(s.next - 1))
        BY <4>1, <4>2, <4>3
      <4> QED BY <4>3, <4>4, <4>5
    <3>3. d.order # NoPiece
      BY <2>2, <2>8, PiecesAssumption
    <3> QED BY <1>2, <2>3, <2>6, <2>8, <3>1, <3>2, <3>3 DEF ProgressOK
  <2>11. Wanted(t, d, in) /\ Wanted(d, t, v)
    BY <1>2, <2>5, <2>8 DEF Wanted, Known
  <2>12. AccountOK(d, t, in, v)
    <3>1. Said(v, "request") = Said(w, "request") \cup {s.order} \X Range(new)
      BY <2>5
    <3>2. Range(d.requests) = Range(s.requests) \cup Range(new)
      BY <2>6, <2>8
    <3>3. ({s.order} \X Range(new)) \cap ({s.order} \X Range(s.requests)) = {}
      BY <1>2, <2>3 DEF ProgressOK
    <3>4. Once(v, "request")
      BY <1>2, <2>5, <3>3 DEF AccountOK
    <3>5. {d.order} \X Range(d.requests) = ({s.order} \X Range(s.requests)) \cup ({s.order} \X Range(new))
      BY <2>8, <3>2
    <3> HIDE DEF new
    <3> DEFINE N == {s.order} \X Range(new)
               O == {s.order} \X Range(s.requests)
    <3> HIDE DEF N, O
    <3>6. /\ Said(v, "request") = Said(w, "request") \cup N
          /\ N \cap O = {} /\ {d.order} \X Range(d.requests) = O \cup N
          /\ Said(w, "request") \cup Range(t.requested) \cup Said(in, "piece") = O
      BY <1>2, <3>1, <3>3, <3>5 DEF AccountOK, N, O
    <3> QED BY <1>2, <3>4, <3>6 DEF AccountOK
  <2>13. AccountOK(t, d, v, in)
    BY <1>2, <2>5, <2>8 DEF AccountOK
  <2>14. /\ OfferOK(d, t, in) /\ OfferOK(t, d, v)
         /\ InterestOK(d, t, in, v) /\ InterestOK(t, d, v, in)
    BY <1>2, <2>5, <2>8 DEF OfferOK, InterestOK, Known
  <2>15. ViewOK(d, t, in)
    BY <1>2, <2>8 DEF ViewOK
  <2>16. ViewOK(t, d, v)
    BY <1>2, <2>5, <2>8 DEF ViewOK, LastChange
  <2> QED BY <1>2, <2>1, <2>7, <2>8, <2>10, <2>11, <2>12, <2>13, <2>14, <2>15, <2>16
          DEF Pair, Half, v
<1> QED BY <1>3, <1>4

(* All that an iteration does between two selects.                         *)
LEMMA Iterating ==
  ASSUME NEW s \in State, NEW t \in State,
         NEW in \in Seq(Messages), NEW to \in Seq(Messages),
         ~s.failed, Pair(s, t, in, to \o s.out),
         NEW c, c = Iterate(s)
  PROVE  /\ c \in State /\ ~c.failed /\ Pair(c, t, in, to \o c.out)
         /\ Wanted(c, t, to \o c.out)
<1> DEFINE s1 == UploadChunk(s)
           s2 == CompletePiece(s1)
           s3 == TakePiece(s2)
           s4 == SayInterested(s3)
<1>1. s1 \in State /\ ~s1.failed /\ Pair(s1, t, in, to \o s1.out)
  BY Uploading
<1> HIDE DEF s1
<1>2. s2 \in State /\ ~s2.failed /\ Pair(s2, t, in, to \o s2.out)
  BY <1>1, Completing
<1> HIDE DEF s2
<1>3. s3 \in State /\ ~s3.failed /\ Pair(s3, t, in, to \o s3.out)
  BY <1>2, Taking
<1> HIDE DEF s3
<1>4. /\ s4 \in State /\ ~s4.failed /\ Pair(s4, t, in, to \o s4.out)
      /\ Wanted(s4, t, to \o s4.out)
  BY <1>3, SayingInterest
<1> HIDE DEF s4
<1>5. c = FillRequests(s4)
  BY DEF Iterate, s1, s2, s3, s4
<1> QED BY <1>4, <1>5, Filling

-----------------------------------------------------------------------------
(* From one select to the next.                                            *)

LEMMA Others ==
  \A n \in Nodes :
    /\ Other(n) \in Nodes /\ Other(n) # n /\ Other(Other(n)) = n
    /\ \A m \in Nodes : m = n \/ m = Other(n)
<1>1. PICK a, b \in Nodes : a # b /\ Nodes = {a, b}
  BY NodesAssumption
<1>2. Other(a) = b /\ Other(b) = a
  BY <1>1 DEF Other
<1> QED BY <1>1, <1>2

(* The other fields decide, not what has been written already.             *)
LEMMA Cleared ==
  ASSUME NEW c \in State, NEW t, NEW in, NEW to, Pair(c, t, in, to), Wanted(c, t, to),
         NEW e, e = [c EXCEPT !.out = <<>>]
  PROVE  /\ e \in State /\ e.out = <<>> /\ e.failed = c.failed
         /\ Pair(e, t, in, to) /\ Wanted(e, t, to)
<1>1. e \in State
  <2>1. <<>> \in Seq(Messages)
    OBVIOUS
  <2> QED BY <2>1 DEF State
<1>2. /\ e.has = c.has /\ e.bf = c.bf /\ e.order = c.order /\ e.received = c.received
      /\ e.numDone = c.numDone /\ e.requests = c.requests /\ e.next = c.next
      /\ e.chokedBy = c.chokedBy /\ e.choking = c.choking /\ e.interested = c.interested
      /\ e.interestedSent = c.interestedSent /\ e.failed = c.failed
      /\ e.requested = c.requested /\ e.out = <<>>
  BY DEF State
<1>3. ProgressOK(e) /\ Wanted(e, t, to) /\ Wanted(t, e, in)
  BY <1>2 DEF Pair, ProgressOK, Wanted, Known
<1>4. AccountOK(e, t, in, to) /\ AccountOK(t, e, to, in)
  BY <1>2 DEF Pair, Half, AccountOK
<1>5. /\ OfferOK(e, t, in) /\ OfferOK(t, e, to)
      /\ ViewOK(e, t, in) /\ ViewOK(t, e, to)
      /\ InterestOK(e, t, in, to) /\ InterestOK(t, e, to, in)
  BY <1>2 DEF Pair, Half, OfferOK, ViewOK, InterestOK, Known
<1> QED BY <1>1, <1>2, <1>3, <1>4, <1>5 DEF Pair, Half

LEMMA Looping ==
  ASSUME IInv, NEW n \in Nodes,
         NEW s \in State, ~s.failed, NEW rest \in Seq(Messages),
         Pair(s, node[Other(n)], rest, wire[Other(n)] \o s.out), Loop(n, s, rest)
  PROVE  IInv'
<1> DEFINE o == Other(n)
           t == node[o]
           to == wire[o]
           c == Iterate(s)
           e == [c EXCEPT !.out = <<>>]
           w == to \o c.out
<1>1. o \in Nodes /\ o # n /\ Other(o) = n /\ \A m \in Nodes : m = n \/ m = o
  BY Others
<1>2. t \in State /\ to \in Seq(Messages) /\ t.out = <<>> /\ ~t.failed
  BY <1>1 DEF IInv, Typed
<1>3. c \in State /\ ~c.failed /\ Pair(c, t, rest, w) /\ Wanted(c, t, w)
  BY <1>2, Iterating
<1>4. w \in Seq(Messages)
  BY <1>2, <1>3, Fields
<1>5. /\ node' = [node EXCEPT ![n] = e]
      /\ wire' = [wire EXCEPT ![n] = rest, ![o] = w]
  BY DEF Loop
<1> HIDE DEF c, w
<1>6. /\ e \in State /\ e.out = <<>> /\ ~e.failed
      /\ Pair(e, t, rest, w) /\ Wanted(e, t, w)
  BY <1>3, Cleared
<1> HIDE DEF e
<1>7. node'[n] = e /\ node'[o] = t /\ wire'[n] = rest /\ wire'[o] = w
  BY <1>1, <1>5 DEF IInv, Typed
<1>8. Typed'
  <2>1. node' \in [Nodes -> State] /\ wire' \in [Nodes -> Seq(Messages)]
    BY <1>1, <1>4, <1>5, <1>6 DEF IInv, Typed
  <2>2. \A m \in Nodes : node'[m].out = <<>> /\ ~node'[m].failed
    BY <1>1, <1>2, <1>6, <1>7
  <2> QED BY <2>1, <2>2 DEF Typed
<1> HIDE DEF t, o
<1>9. /\ ProgressOK(e) /\ ProgressOK(t) /\ Half(e, t, rest, w) /\ Half(t, e, w, rest)
      /\ Wanted(e, t, w) /\ Wanted(t, e, rest)
  BY <1>6 DEF Pair
<1>10. /\ ProgressOK(node'[n]) /\ Half(node'[n], node'[o], wire'[n], wire'[o])
       /\ Wanted(node'[n], node'[o], wire'[o])
       /\ ProgressOK(node'[o]) /\ Half(node'[o], node'[n], wire'[o], wire'[n])
       /\ Wanted(node'[o], node'[n], wire'[n])
  BY <1>7, <1>9
<1>11. Other(n) = o
  BY DEF o
<1>12. \A m \in Nodes :
         /\ ProgressOK(node'[m])
         /\ Half(node'[m], node'[Other(m)], wire'[m], wire'[Other(m)])
         /\ Wanted(node'[m], node'[Other(m)], wire'[Other(m)])
  BY <1>1, <1>10, <1>11
<1> QED BY <1>8, <1>12 DEF IInv

(* The queue v is q without its first message, and what that means.        *)
Shorter(q, kind, body, v) ==
  /\ q # <<>> /\ v = Tail(q)
  /\ kind = Head(q).type /\ body = Head(q).body

SaysLess(q, kind, body, v) ==
  /\ v \in Seq(Messages)
  /\ Has(q, kind) /\ body \in Said(q, kind) /\ Said(v, kind) \subseteq Said(q, kind)
  /\ Once(q, kind) => Said(v, kind) = Said(q, kind) \ {body} /\ Once(v, kind)
  /\ Has(v, kind) => Has(q, kind)
  /\ \A type : type # kind =>
       /\ Said(v, type) = Said(q, type)
       /\ Once(q, type) => Once(v, type)
       /\ Has(v, type) <=> Has(q, type)
  /\ kind \notin ChangeTypes => (HasChange(v) <=> HasChange(q))
  /\ kind \in ChangeTypes /\ ~HasChange(v) =>
       \E i \in DOMAIN q : LastChange(q, i) /\ q[i].type = kind
  /\ HasChange(v) => HasChange(q)
  /\ \A i \in DOMAIN v : LastChange(v, i) =>
       i + 1 \in DOMAIN q /\ LastChange(q, i + 1) /\ v[i] = q[i + 1]

LEMMA OneLess ==
  ASSUME NEW q \in Seq(Messages), NEW kind, NEW body, NEW v, Shorter(q, kind, body, v)
  PROVE  SaysLess(q, kind, body, v)
<1>1. q # <<>> /\ v = Tail(q) /\ Head(q) \in Messages /\ v \in Seq(Messages)
      /\ Head(q).type = kind /\ Head(q).body = body
  BY SaidLess DEF Shorter
<1>2. /\ Has(q, kind) /\ body \in Said(q, kind) /\ Said(v, kind) \subseteq Said(q, kind)
      /\ Once(q, kind) => Said(v, kind) = Said(q, kind) \ {body} /\ Once(v, kind)
      /\ Has(v, kind) => Has(q, kind)
  BY <1>1, SaidLess
<1>3. \A type : type # kind => Said(v, type) = Said(q, type)
  BY <1>1, SaidLess
<1>4. \A type : Once(q, type) => Once(v, type)
  BY <1>1, SaidLess
<1>5. \A type : type # kind => (Has(v, type) <=> Has(q, type))
  BY <1>1, SaidLess
<1>6. /\ kind \notin ChangeTypes => (HasChange(v) <=> HasChange(q))
      /\ kind \in ChangeTypes /\ ~HasChange(v) => LastChange(q, 1) /\ q[1] = Head(q)
      /\ HasChange(v) => HasChange(q)
  BY <1>1, ChangesLess
<1>7. kind \in ChangeTypes /\ ~HasChange(v) =>
        \E i \in DOMAIN q : LastChange(q, i) /\ q[i].type = kind
  BY <1>1, <1>6 DEF LastChange
<1>8. ASSUME NEW i \in DOMAIN v, LastChange(v, i)
      PROVE  i + 1 \in DOMAIN q /\ LastChange(q, i + 1) /\ v[i] = q[i + 1]
  <2>1. LastChange(q, i + 1) /\ Tail(q)[i] = q[i + 1]
    BY <1>1, <1>8, ChangesLess
  <2> QED BY <1>1, <2>1 DEF LastChange
<1> QED BY <1>1, <1>2, <1>3, <1>4, <1>5, <1>6, <1>7, <1>8 DEF SaysLess

(* A message of a kind has come, and what the invariant says then.         *)
LEMMA Receiving ==
  ASSUME IInv, NEW n \in Nodes, NEW kind, Receives(n, kind)
  PROVE  /\ node[n] \in State /\ ~node[n].failed /\ node[n].out = <<>>
         /\ node[Other(n)] \in State
         /\ wire[n] \in Seq(Messages) /\ wire[Other(n)] \in Seq(Messages)
         /\ Tail(wire[n]) \in Seq(Messages)
         /\ Head(wire[n]) \in Messages
         /\ SaysLess(wire[n], kind, Body(n), Tail(wire[n]))
         /\ Pair(node[n], node[Other(n)], wire[n], wire[Other(n)])
         /\ Wanted(node[n], node[Other(n)], wire[Other(n)])
<1> DEFINE o == Other(n)
<1>1. o \in Nodes /\ Other(o) = n
  BY Others
<1> HIDE DEF o
<1>2. /\ node[n] \in State /\ ~node[n].failed /\ node[n].out = <<>>
      /\ node[o] \in State
      /\ wire[n] \in Seq(Messages) /\ wire[o] \in Seq(Messages)
  BY <1>1 DEF IInv, Typed
<1>3. /\ Half(node[n], node[o], wire[n], wire[o]) /\ Half(node[o], node[n], wire[o], wire[n])
      /\ ProgressOK(node[n]) /\ ProgressOK(node[o])
      /\ Wanted(node[n], node[o], wire[o]) /\ Wanted(node[o], node[n], wire[n])
  BY <1>1 DEF IInv, o
<1>4. Shorter(wire[n], kind, Body(n), Tail(wire[n]))
  BY DEF Receives, Body, Shorter
<1>5. SaysLess(wire[n], kind, Body(n), Tail(wire[n]))
  BY <1>2, <1>4, OneLess
<1>6. Tail(wire[n]) \in Seq(Messages) /\ Head(wire[n]) \in Messages
  BY <1>2, SaidLess DEF Receives
<1> QED BY <1>2, <1>3, <1>5, <1>6 DEF Pair, o

(* A handler leaves d, and the loop goes on from there.                    *)
LEMMA Handling ==
  ASSUME IInv, NEW n \in Nodes, NEW kind, Receives(n, kind),
         NEW d \in State, ~d.failed, d.out = <<>>,
         Pair(d, node[Other(n)], Tail(wire[n]), wire[Other(n)]),
         Handled(n, d)
  PROVE  IInv'
<1>1. Tail(wire[n]) \in Seq(Messages) /\ wire[Other(n)] \in Seq(Messages)
  BY Receiving
<1>2. wire[Other(n)] \o d.out = wire[Other(n)]
  BY <1>1
<1> QED BY <1>1, <1>2, Looping DEF Handled

(* What each message does.                                                 *)

LEMMA Choking ==
  ASSUME IInv, NEW n \in Nodes, HandleChoke(n)
  PROVE  IInv'
<1> DEFINE s == node[n]
           t == node[Other(n)]
           in == wire[n]
           to == wire[Other(n)]
           rest == Tail(in)
           b == Body(n)
<1>1. /\ s \in State /\ ~s.failed /\ s.out = <<>> /\ t \in State
      /\ in \in Seq(Messages) /\ rest \in Seq(Messages) /\ Head(in) \in Messages
      /\ SaysLess(in, "choke", b, rest)
      /\ AccountOK(s, t, in, to) /\ OfferOK(s, t, in) /\ ViewOK(s, t, in) /\ InterestOK(s, t, in, to)
      /\ AccountOK(t, s, to, in) /\ OfferOK(t, s, to) /\ ViewOK(t, s, to) /\ InterestOK(t, s, to, in)
      /\ ProgressOK(s) /\ ProgressOK(t) /\ Wanted(t, s, in)
  <2>1. Receives(n, "choke")
    BY DEF HandleChoke
  <2> QED BY <2>1, Receiving DEF Pair, Half
<1> DEFINE d == Choked(s)
<1>2. d \in State
  BY <1>1 DEF State, Choked
<1>3. /\ d.has = s.has /\ d.bf = s.bf /\ d.order = s.order
      /\ d.received = s.received /\ d.numDone = s.numDone
      /\ d.requests = s.requests /\ d.next = s.next /\ d.chokedBy = TRUE
      /\ d.choking = s.choking /\ d.interested = s.interested
      /\ d.interestedSent = FALSE /\ d.requested = s.requested /\ d.out = <<>>
      /\ d.failed = s.failed
  BY <1>1 DEF State, Choked
<1>4. Receives(n, "choke") /\ Handled(n, d)
  BY DEF HandleChoke
<1> HIDE DEF d, s, t, in, to, rest, b
<1>5. /\ \A type \in {"request", "piece", "bitfield", "interested", "unchoke"} :
           /\ Said(rest, type) = Said(in, type)
           /\ Once(in, type) => Once(rest, type)
           /\ Has(rest, type) <=> Has(in, type)
      /\ \A i \in DOMAIN rest : LastChange(rest, i) =>
           i + 1 \in DOMAIN in /\ LastChange(in, i + 1) /\ rest[i] = in[i + 1]
      /\ ~HasChange(rest) => \E i \in DOMAIN in : LastChange(in, i) /\ in[i].type = "choke"
      /\ Has(in, "choke") /\ (Has(rest, "choke") => Has(in, "choke"))
  BY <1>1 DEF SaysLess, ChangeTypes
<1>6. ProgressOK(d) /\ Wanted(t, d, rest)
  BY <1>1, <1>3, <1>5 DEF ProgressOK, Wanted, Known
<1>7. AccountOK(d, t, rest, to) /\ AccountOK(t, d, to, rest)
  BY <1>1, <1>3, <1>5 DEF AccountOK
<1>8. OfferOK(d, t, rest) /\ OfferOK(t, d, to)
  BY <1>1, <1>3, <1>5 DEF OfferOK
<1>9. ViewOK(d, t, rest) /\ ViewOK(t, d, to)
  <2>1. ASSUME ~HasChange(rest)
        PROVE  t.choking = d.chokedBy
    <3>1. PICK i \in DOMAIN in : LastChange(in, i) /\ in[i].type = "choke"
      BY <1>5, <2>1
    <3>2. t.choking = (in[i].type = "choke")
      BY <1>1, <3>1 DEF ViewOK
    <3> QED BY <1>1, <1>3, <3>1, <3>2, Fields
  <2>2. \A i \in DOMAIN rest : LastChange(rest, i) => t.choking = (rest[i].type = "choke")
    BY <1>1, <1>5 DEF ViewOK
  <2>3. ViewOK(t, d, to)
    BY <1>1, <1>3 DEF ViewOK
  <2> QED BY <2>1, <2>2, <2>3 DEF ViewOK
<1>10. InterestOK(d, t, rest, to) /\ InterestOK(t, d, to, rest)
  BY <1>1, <1>3, <1>5 DEF InterestOK, Known
<1> QED
  <2>1. Pair(d, t, rest, to)
    BY <1>1, <1>6, <1>7, <1>8, <1>9, <1>10 DEF Pair, Half
  <2> QED BY <1>1, <1>2, <1>3, <1>4, <2>1, Handling DEF s, t, in, to, rest

LEMMA Unchoking ==
  ASSUME IInv, NEW n \in Nodes, HandleUnchoke(n)
  PROVE  IInv'
<1> DEFINE s == node[n]
           t == node[Other(n)]
           in == wire[n]
           to == wire[Other(n)]
           rest == Tail(in)
           b == Body(n)
<1>1. /\ s \in State /\ ~s.failed /\ s.out = <<>> /\ t \in State
      /\ in \in Seq(Messages) /\ rest \in Seq(Messages) /\ Head(in) \in Messages
      /\ SaysLess(in, "unchoke", b, rest)
      /\ AccountOK(s, t, in, to) /\ OfferOK(s, t, in) /\ ViewOK(s, t, in) /\ InterestOK(s, t, in, to)
      /\ AccountOK(t, s, to, in) /\ OfferOK(t, s, to) /\ ViewOK(t, s, to) /\ InterestOK(t, s, to, in)
      /\ ProgressOK(s) /\ ProgressOK(t) /\ Wanted(t, s, in)
  <2>1. Receives(n, "unchoke")
    BY DEF HandleUnchoke
  <2> QED BY <2>1, Receiving DEF Pair, Half
<1> DEFINE d == [s EXCEPT !.chokedBy = FALSE]
<1>2. d \in State
  BY <1>1 DEF State
<1>3. /\ d.has = s.has /\ d.bf = s.bf /\ d.order = s.order
      /\ d.received = s.received /\ d.numDone = s.numDone
      /\ d.requests = s.requests /\ d.next = s.next /\ d.chokedBy = FALSE
      /\ d.choking = s.choking /\ d.interested = s.interested
      /\ d.interestedSent = s.interestedSent /\ d.requested = s.requested
      /\ d.out = <<>> /\ d.failed = s.failed
  BY <1>1 DEF State
<1>4. Receives(n, "unchoke") /\ Handled(n, d)
  BY DEF HandleUnchoke
<1> HIDE DEF d, s, t, in, to, rest, b
<1>5. /\ \A type \in {"request", "piece", "bitfield", "interested"} :
           /\ Said(rest, type) = Said(in, type)
           /\ Once(in, type) => Once(rest, type)
           /\ Has(rest, type) <=> Has(in, type)
      /\ \A i \in DOMAIN rest : LastChange(rest, i) =>
           i + 1 \in DOMAIN in /\ LastChange(in, i + 1) /\ rest[i] = in[i + 1]
      /\ ~HasChange(rest) => \E i \in DOMAIN in : LastChange(in, i) /\ in[i].type = "unchoke"
      /\ Has(in, "unchoke") /\ (Has(rest, "unchoke") => Has(in, "unchoke"))
  BY <1>1 DEF SaysLess, ChangeTypes
<1>6. ProgressOK(d) /\ Wanted(t, d, rest)
  BY <1>1, <1>3, <1>5 DEF ProgressOK, Wanted, Known
<1>7. AccountOK(d, t, rest, to) /\ AccountOK(t, d, to, rest)
  BY <1>1, <1>3, <1>5 DEF AccountOK
<1>8. OfferOK(d, t, rest) /\ OfferOK(t, d, to)
  BY <1>1, <1>3, <1>5 DEF OfferOK
<1>9. ViewOK(d, t, rest) /\ ViewOK(t, d, to)
  BY <1>1, <1>3, <1>5 DEF ViewOK
<1>10. InterestOK(d, t, rest, to) /\ InterestOK(t, d, to, rest)
  BY <1>1, <1>3, <1>5 DEF InterestOK, Known
<1> QED
  <2>1. Pair(d, t, rest, to)
    BY <1>1, <1>6, <1>7, <1>8, <1>9, <1>10 DEF Pair, Half
  <2> QED BY <1>1, <1>2, <1>3, <1>4, <2>1, Handling DEF s, t, in, to, rest

LEMMA HearingInterest ==
  ASSUME IInv, NEW n \in Nodes, HandleInterested(n)
  PROVE  IInv'
<1> DEFINE s == node[n]
           t == node[Other(n)]
           in == wire[n]
           to == wire[Other(n)]
           rest == Tail(in)
           b == Body(n)
<1>1. /\ s \in State /\ ~s.failed /\ s.out = <<>> /\ t \in State
      /\ in \in Seq(Messages) /\ rest \in Seq(Messages) /\ Head(in) \in Messages
      /\ SaysLess(in, "interested", b, rest)
      /\ AccountOK(s, t, in, to) /\ OfferOK(s, t, in) /\ ViewOK(s, t, in) /\ InterestOK(s, t, in, to)
      /\ AccountOK(t, s, to, in) /\ OfferOK(t, s, to) /\ ViewOK(t, s, to) /\ InterestOK(t, s, to, in)
      /\ ProgressOK(s) /\ ProgressOK(t) /\ Wanted(t, s, in)
  <2>1. Receives(n, "interested")
    BY DEF HandleInterested
  <2> QED BY <2>1, Receiving DEF Pair, Half
<1> DEFINE d == [s EXCEPT !.interested = TRUE]
<1>2. d \in State
  BY <1>1 DEF State
<1>3. /\ d.has = s.has /\ d.bf = s.bf /\ d.order = s.order
      /\ d.received = s.received /\ d.numDone = s.numDone
      /\ d.requests = s.requests /\ d.next = s.next /\ d.chokedBy = s.chokedBy
      /\ d.choking = s.choking /\ d.interested = TRUE
      /\ d.interestedSent = s.interestedSent /\ d.requested = s.requested
      /\ d.out = <<>> /\ d.failed = s.failed
  BY <1>1 DEF State
<1>4. Receives(n, "interested") /\ Handled(n, d)
  BY DEF HandleInterested
<1> HIDE DEF d, s, t, in, to, rest, b
<1>5. /\ \A type \in {"request", "piece", "bitfield", "unchoke"} :
           /\ Said(rest, type) = Said(in, type)
           /\ Once(in, type) => Once(rest, type)
           /\ Has(rest, type) <=> Has(in, type)
      /\ \A i \in DOMAIN rest : LastChange(rest, i) =>
           i + 1 \in DOMAIN in /\ LastChange(in, i + 1) /\ rest[i] = in[i + 1]
      /\ HasChange(rest) <=> HasChange(in)
      /\ Has(rest, "interested") => Has(in, "interested")
      /\ b \in Said(in, "interested") /\ Said(rest, "interested") \subseteq Said(in, "interested")
      /\ Once(in, "interested") => Said(rest, "interested") = Said(in, "interested") \ {b} /\ Once(rest, "interested")
  BY <1>1 DEF SaysLess, ChangeTypes
<1>6. ProgressOK(d) /\ Wanted(t, d, rest)
  BY <1>1, <1>3, <1>5 DEF ProgressOK, Wanted, Known
<1>7. AccountOK(d, t, rest, to) /\ AccountOK(t, d, to, rest)
  BY <1>1, <1>3, <1>5 DEF AccountOK
<1>8. OfferOK(d, t, rest) /\ OfferOK(t, d, to)
  BY <1>1, <1>3, <1>5 DEF OfferOK
<1>9. ViewOK(d, t, rest) /\ ViewOK(t, d, to)
  BY <1>1, <1>3, <1>5 DEF ViewOK
<1>10. InterestOK(d, t, rest, to) /\ InterestOK(t, d, to, rest)
  BY <1>1, <1>3, <1>5 DEF InterestOK, Known
<1> QED
  <2>1. Pair(d, t, rest, to)
    BY <1>1, <1>6, <1>7, <1>8, <1>9, <1>10 DEF Pair, Half
  <2> QED BY <1>1, <1>2, <1>3, <1>4, <2>1, Handling DEF s, t, in, to, rest

LEMMA HearingHave ==
  ASSUME IInv, NEW n \in Nodes, HandleHave(n)
  PROVE  IInv'
<1> DEFINE s == node[n]
           t == node[Other(n)]
           in == wire[n]
           to == wire[Other(n)]
           rest == Tail(in)
           b == Body(n)
<1>1. /\ s \in State /\ ~s.failed /\ s.out = <<>> /\ t \in State
      /\ in \in Seq(Messages) /\ rest \in Seq(Messages) /\ Head(in) \in Messages
      /\ SaysLess(in, "have", b, rest)
      /\ AccountOK(s, t, in, to) /\ OfferOK(s, t, in) /\ ViewOK(s, t, in) /\ InterestOK(s, t, in, to)
      /\ AccountOK(t, s, to, in) /\ OfferOK(t, s, to) /\ ViewOK(t, s, to) /\ InterestOK(t, s, to, in)
      /\ ProgressOK(s) /\ ProgressOK(t) /\ Wanted(t, s, in)
  <2>1. Receives(n, "have")
    BY DEF HandleHave
  <2> QED BY <2>1, Receiving DEF Pair, Half
<1> DEFINE d == s
<1>2. d \in State
  BY <1>1
<1>3. /\ d.has = s.has /\ d.bf = s.bf /\ d.order = s.order
      /\ d.received = s.received /\ d.numDone = s.numDone
      /\ d.requests = s.requests /\ d.next = s.next /\ d.chokedBy = s.chokedBy
      /\ d.choking = s.choking /\ d.interested = s.interested
      /\ d.interestedSent = s.interestedSent /\ d.requested = s.requested
      /\ d.out = <<>> /\ d.failed = s.failed
  BY <1>1 DEF State
<1>4. Receives(n, "have") /\ Handled(n, d)
  BY DEF HandleHave
<1> HIDE DEF d, s, t, in, to, rest, b
<1>5. /\ \A type \in {"request", "piece", "bitfield", "interested", "unchoke"} :
           /\ Said(rest, type) = Said(in, type)
           /\ Once(in, type) => Once(rest, type)
           /\ Has(rest, type) <=> Has(in, type)
      /\ \A i \in DOMAIN rest : LastChange(rest, i) =>
           i + 1 \in DOMAIN in /\ LastChange(in, i + 1) /\ rest[i] = in[i + 1]
      /\ HasChange(rest) <=> HasChange(in)
      /\ Has(rest, "have") => Has(in, "have")
      /\ b \in Said(in, "have") /\ Said(rest, "have") \subseteq Said(in, "have")
      /\ Once(in, "have") => Said(rest, "have") = Said(in, "have") \ {b} /\ Once(rest, "have")
  BY <1>1 DEF SaysLess, ChangeTypes
<1>6. ProgressOK(d) /\ Wanted(t, d, rest)
  BY <1>1, <1>3, <1>5 DEF ProgressOK, Wanted, Known
<1>7. AccountOK(d, t, rest, to) /\ AccountOK(t, d, to, rest)
  BY <1>1, <1>3, <1>5 DEF AccountOK
<1>8. OfferOK(d, t, rest) /\ OfferOK(t, d, to)
  BY <1>1, <1>3, <1>5 DEF OfferOK
<1>9. ViewOK(d, t, rest) /\ ViewOK(t, d, to)
  BY <1>1, <1>3, <1>5 DEF ViewOK
<1>10. InterestOK(d, t, rest, to) /\ InterestOK(t, d, to, rest)
  BY <1>1, <1>3, <1>5 DEF InterestOK, Known
<1> QED
  <2>1. Pair(d, t, rest, to)
    BY <1>1, <1>6, <1>7, <1>8, <1>9, <1>10 DEF Pair, Half
  <2> QED BY <1>1, <1>2, <1>3, <1>4, <2>1, Handling DEF s, t, in, to, rest

LEMMA Bitfields ==
  ASSUME IInv, NEW n \in Nodes, HandleBitfield(n)
  PROVE  IInv'
<1> DEFINE s == node[n]
           t == node[Other(n)]
           in == wire[n]
           to == wire[Other(n)]
           rest == Tail(in)
           b == Body(n)
<1>1. /\ s \in State /\ ~s.failed /\ s.out = <<>> /\ t \in State
      /\ in \in Seq(Messages) /\ rest \in Seq(Messages) /\ Head(in) \in Messages
      /\ SaysLess(in, "bitfield", b, rest)
      /\ AccountOK(s, t, in, to) /\ OfferOK(s, t, in) /\ ViewOK(s, t, in) /\ InterestOK(s, t, in, to)
      /\ AccountOK(t, s, to, in) /\ OfferOK(t, s, to) /\ ViewOK(t, s, to) /\ InterestOK(t, s, to, in)
      /\ ProgressOK(s) /\ ProgressOK(t) /\ Wanted(t, s, in)
  <2>1. Receives(n, "bitfield")
    BY DEF HandleBitfield
  <2> QED BY <2>1, Receiving DEF Pair, Half
<1> DEFINE d == [s EXCEPT !.bf = b]
<1>2. d \in State
  <2>1. b \in SUBSET Pieces
    BY <1>1, MessageTypes DEF HandleBitfield, Receives, Body
  <2> QED BY <1>1, <2>1 DEF State
<1>3. /\ d.has = s.has /\ d.bf = b /\ d.order = s.order
      /\ d.received = s.received /\ d.numDone = s.numDone
      /\ d.requests = s.requests /\ d.next = s.next /\ d.chokedBy = s.chokedBy
      /\ d.choking = s.choking /\ d.interested = s.interested
      /\ d.interestedSent = s.interestedSent /\ d.requested = s.requested
      /\ d.out = <<>> /\ d.failed = s.failed
  BY <1>1 DEF State
<1>4. Receives(n, "bitfield") /\ Handled(n, d)
  BY DEF HandleBitfield
<1> HIDE DEF d, s, t, in, to, rest, b
<1>5. /\ \A type \in {"request", "piece", "interested", "unchoke"} :
           /\ Said(rest, type) = Said(in, type)
           /\ Once(in, type) => Once(rest, type)
           /\ Has(rest, type) <=> Has(in, type)
      /\ \A i \in DOMAIN rest : LastChange(rest, i) =>
           i + 1 \in DOMAIN in /\ LastChange(in, i + 1) /\ rest[i] = in[i + 1]
      /\ HasChange(rest) <=> HasChange(in)
      /\ Has(rest, "bitfield") => Has(in, "bitfield")
      /\ b \in Said(in, "bitfield") /\ Said(rest, "bitfield") \subseteq Said(in, "bitfield")
      /\ Once(in, "bitfield") => Said(rest, "bitfield") = Said(in, "bitfield") \ {b} /\ Once(rest, "bitfield")
  BY <1>1 DEF SaysLess, ChangeTypes
<1>6. ProgressOK(d) /\ Wanted(t, d, rest)
  BY <1>1, <1>3, <1>5 DEF ProgressOK, Wanted, Known
<1>7. AccountOK(d, t, rest, to) /\ AccountOK(t, d, to, rest)
  BY <1>1, <1>3, <1>5 DEF AccountOK
<1>8. OfferOK(d, t, rest) /\ OfferOK(t, d, to)
  BY <1>1, <1>3, <1>5 DEF OfferOK
<1>9. ViewOK(d, t, rest) /\ ViewOK(t, d, to)
  BY <1>1, <1>3, <1>5 DEF ViewOK
<1>10. InterestOK(d, t, rest, to) /\ InterestOK(t, d, to, rest)
  BY <1>1, <1>3, <1>5 DEF InterestOK, Known
<1> QED
  <2>1. Pair(d, t, rest, to)
    BY <1>1, <1>6, <1>7, <1>8, <1>9, <1>10 DEF Pair, Half
  <2> QED BY <1>1, <1>2, <1>3, <1>4, <2>1, Handling DEF s, t, in, to, rest

LEMMA Requests ==
  ASSUME IInv, NEW n \in Nodes, HandleRequest(n)
  PROVE  IInv'
<1> DEFINE s == node[n]
           t == node[Other(n)]
           in == wire[n]
           to == wire[Other(n)]
           rest == Tail(in)
           b == Body(n)
<1>1. /\ s \in State /\ ~s.failed /\ s.out = <<>> /\ t \in State
      /\ in \in Seq(Messages) /\ rest \in Seq(Messages) /\ Head(in) \in Messages
      /\ SaysLess(in, "request", b, rest)
      /\ AccountOK(s, t, in, to) /\ OfferOK(s, t, in) /\ ViewOK(s, t, in) /\ InterestOK(s, t, in, to)
      /\ AccountOK(t, s, to, in) /\ OfferOK(t, s, to) /\ ViewOK(t, s, to) /\ InterestOK(t, s, to, in)
      /\ ProgressOK(s) /\ ProgressOK(t) /\ Wanted(t, s, in)
  <2>1. Receives(n, "request")
    BY DEF HandleRequest
  <2> QED BY <2>1, Receiving DEF Pair, Half
<1> DEFINE d == [s EXCEPT !.requested = Append(@, b)]
<1>2. d \in State
  <2>1. b \in Request
    BY <1>1, MessageTypes DEF HandleRequest, Receives, Body
  <2>2. Append(s.requested, b) \in Seq(Request)
    BY <1>1, <2>1, Fields
  <2> QED BY <1>1, <2>2 DEF State
<1>3. /\ d.has = s.has /\ d.bf = s.bf /\ d.order = s.order
      /\ d.received = s.received /\ d.numDone = s.numDone
      /\ d.requests = s.requests /\ d.next = s.next /\ d.chokedBy = s.chokedBy
      /\ d.choking = s.choking /\ d.interested = s.interested
      /\ d.interestedSent = s.interestedSent
      /\ d.requested = Append(s.requested, b) /\ d.out = <<>>
      /\ d.failed = s.failed
  BY <1>1 DEF State
<1>4. Receives(n, "request") /\ Handled(n, d)
  BY DEF HandleRequest
<1> HIDE DEF d, s, t, in, to, rest, b
<1>5. /\ \A type \in {"piece", "bitfield", "interested", "unchoke"} :
           /\ Said(rest, type) = Said(in, type)
           /\ Once(in, type) => Once(rest, type)
           /\ Has(rest, type) <=> Has(in, type)
      /\ \A i \in DOMAIN rest : LastChange(rest, i) =>
           i + 1 \in DOMAIN in /\ LastChange(in, i + 1) /\ rest[i] = in[i + 1]
      /\ HasChange(rest) <=> HasChange(in)
      /\ Has(rest, "request") => Has(in, "request")
      /\ b \in Said(in, "request") /\ Said(rest, "request") \subseteq Said(in, "request")
      /\ Once(in, "request") => Said(rest, "request") = Said(in, "request") \ {b} /\ Once(rest, "request")
  BY <1>1 DEF SaysLess, ChangeTypes
<1>11. /\ Range(d.requested) = Range(s.requested) \cup {b}
       /\ IsInjective(d.requested)
  <2>1. b \notin Range(s.requested) /\ IsInjective(s.requested)
    BY <1>1, <1>5 DEF AccountOK
  <2>2. b \in Request
    BY <1>1, MessageTypes DEF HandleRequest, Receives, Body, b, in
  <2>3. s.requested \in Seq(Request)
    BY <1>1, Fields
  <2> QED BY <1>3, <2>1, <2>2, <2>3, Appended
<1>6. ProgressOK(d) /\ Wanted(t, d, rest)
  BY <1>1, <1>3, <1>5 DEF ProgressOK, Wanted, Known
<1>7. AccountOK(d, t, rest, to) /\ AccountOK(t, d, to, rest)
  BY <1>1, <1>3, <1>5, <1>11 DEF AccountOK
<1>8. OfferOK(d, t, rest) /\ OfferOK(t, d, to)
  BY <1>1, <1>3, <1>5 DEF OfferOK
<1>9. ViewOK(d, t, rest) /\ ViewOK(t, d, to)
  BY <1>1, <1>3, <1>5 DEF ViewOK
<1>10. InterestOK(d, t, rest, to) /\ InterestOK(t, d, to, rest)
  BY <1>1, <1>3, <1>5 DEF InterestOK, Known
<1> QED
  <2>1. Pair(d, t, rest, to)
    BY <1>1, <1>6, <1>7, <1>8, <1>9, <1>10 DEF Pair, Half
  <2> QED BY <1>1, <1>2, <1>3, <1>4, <2>1, Handling DEF s, t, in, to, rest

LEMMA ReceivingChunk ==
  ASSUME IInv, NEW n \in Nodes, HandlePiece(n)
  PROVE  IInv'
<1> DEFINE s == node[n]
           t == node[Other(n)]
           in == wire[n]
           to == wire[Other(n)]
           rest == Tail(in)
           b == Body(n)
           k == b[2]
<1>1. /\ s \in State /\ ~s.failed /\ s.out = <<>> /\ t \in State
      /\ in \in Seq(Messages) /\ rest \in Seq(Messages) /\ Head(in) \in Messages
      /\ SaysLess(in, "piece", b, rest)
      /\ AccountOK(s, t, in, to) /\ OfferOK(s, t, in) /\ ViewOK(s, t, in) /\ InterestOK(s, t, in, to)
      /\ AccountOK(t, s, to, in) /\ OfferOK(t, s, to) /\ ViewOK(t, s, to) /\ InterestOK(t, s, to, in)
      /\ ProgressOK(s) /\ ProgressOK(t) /\ Wanted(t, s, in)
  <2>1. Receives(n, "piece")
    BY DEF HandlePiece
  <2> QED BY <2>1, Receiving DEF Pair, Half
<1>2. /\ \A type \in {"request", "bitfield", "interested", "unchoke"} :
           /\ Said(rest, type) = Said(in, type)
           /\ Once(in, type) => Once(rest, type)
           /\ Has(rest, type) <=> Has(in, type)
      /\ \A i \in DOMAIN rest : LastChange(rest, i) =>
           i + 1 \in DOMAIN in /\ LastChange(in, i + 1) /\ rest[i] = in[i + 1]
      /\ HasChange(rest) <=> HasChange(in)
      /\ b \in Said(in, "piece") /\ Said(rest, "piece") = Said(in, "piece") \ {b}
      /\ Once(rest, "piece")
  BY <1>1 DEF SaysLess, ChangeTypes, AccountOK
<1>3. b \in Request /\ Chunks \in Nat
  BY <1>1, MessageTypes, LengthsAssumption DEF HandlePiece, Receives, Body
<1>4. b[1] = s.order /\ k \in Range(s.requests) /\ b = <<s.order, k>> /\ k \in 1..Chunks
      /\ s.order \in Pieces
  <2>1. b \in {s.order} \X Range(s.requests)
    BY <1>1, <1>2 DEF AccountOK
  <2> QED BY <1>3, <2>1 DEF Request
<1>5. PICK i \in DOMAIN s.requests :
        /\ s.requests[i] = k
        /\ Handled(n, [s EXCEPT !.requests = SwapDelete(@, i),
                                !.numDone = @ + 1, !.received = @ \cup {k}])
  BY <1>4 DEF HandlePiece
<1> DEFINE d == [s EXCEPT !.requests = SwapDelete(@, i),
                          !.numDone = @ + 1, !.received = @ \cup {k}]
<1>6. Receives(n, "piece") /\ Handled(n, d)
  BY <1>5 DEF HandlePiece
<1> HIDE DEF s, t, in, to, rest, b, k
<1>7. /\ s.requests \in Seq(1..Chunks) /\ s.received \in SUBSET (1..Chunks)
      /\ s.numDone \in Nat /\ IsInjective(s.requests)
  BY <1>1, Fields DEF ProgressOK
<1>8. /\ SwapDelete(s.requests, i) \in Seq(1..Chunks)
      /\ Len(SwapDelete(s.requests, i)) = Len(s.requests) - 1
      /\ IsInjective(SwapDelete(s.requests, i))
      /\ Range(SwapDelete(s.requests, i)) = Range(s.requests) \ {k}
  BY <1>5, <1>7, SwapDeleted
<1>9. d \in State
  <2>1. s.received \cup {k} \in SUBSET (1..Chunks) /\ s.numDone + 1 \in Nat
    BY <1>4, <1>7
  <2> QED BY <1>1, <1>8, <2>1 DEF State
<1>10. /\ d.has = s.has /\ d.bf = s.bf /\ d.order = s.order
       /\ d.received = s.received \cup {k} /\ d.numDone = s.numDone + 1
       /\ d.requests = SwapDelete(s.requests, i) /\ d.next = s.next /\ d.chokedBy = s.chokedBy
       /\ d.choking = s.choking /\ d.interested = s.interested
       /\ d.interestedSent = s.interestedSent
       /\ d.requested = s.requested /\ d.out = <<>> /\ d.failed = s.failed
  BY <1>1 DEF State
<1> HIDE DEF d
<1>11. ProgressOK(d)
  <2>1. d.order # NoPiece
    BY <1>4, <1>10, PiecesAssumption
  <2>2. Len(d.requests) <= PipelineLength
    <3>1. Len(s.requests) \in Nat /\ Len(s.requests) <= PipelineLength
      BY <1>1, <1>7 DEF ProgressOK
    <3> QED BY <1>8, <1>10, <3>1, LengthsAssumption
  <2>3. /\ Range(d.requests) \cap d.received = {}
        /\ Range(d.requests) \cup d.received = 1..(d.next - 1)
    BY <1>1, <1>4, <1>8, <1>10 DEF ProgressOK
  <2>4. d.numDone = Cardinality(d.received)
    <3>1. k \notin s.received /\ s.numDone = Cardinality(s.received)
      BY <1>1, <1>4 DEF ProgressOK
    <3>2. IsFiniteSet(s.received)
      BY <1>7, Chunked
    <3>3. Cardinality(s.received \cup {k}) = Cardinality(s.received) + 1
      BY <3>1, <3>2, FS_AddElement
    <3> QED BY <1>10, <3>1, <3>3
  <2> QED BY <1>8, <1>10, <2>1, <2>2, <2>3, <2>4 DEF ProgressOK
<1>12. ProgressOK(t) /\ Wanted(t, d, rest)
  BY <1>1, <1>2, <1>10 DEF Wanted, Known
<1>13. AccountOK(d, t, rest, to)
  <2>1. {d.order} \X Range(d.requests) = ({s.order} \X Range(s.requests)) \ {b}
    BY <1>4, <1>8, <1>10
  <2>2. b \notin Said(to, "request") /\ b \notin Range(t.requested)
    BY <1>1, <1>2 DEF AccountOK
  <2>3. Said(to, "request") \cup Range(t.requested) \cup Said(rest, "piece")
          = {d.order} \X Range(d.requests)
    BY <1>1, <1>2, <2>1, <2>2 DEF AccountOK
  <2> QED BY <1>1, <1>2, <2>3 DEF AccountOK
<1>14. AccountOK(t, d, to, rest)
  BY <1>1, <1>2, <1>10 DEF AccountOK
<1>15. /\ OfferOK(d, t, rest) /\ OfferOK(t, d, to)
       /\ ViewOK(d, t, rest) /\ ViewOK(t, d, to)
  BY <1>1, <1>2, <1>10 DEF OfferOK, ViewOK
<1>16. InterestOK(d, t, rest, to) /\ InterestOK(t, d, to, rest)
  BY <1>1, <1>2, <1>10 DEF InterestOK, Known
<1>17. Pair(d, t, rest, to)
  BY <1>11, <1>12, <1>13, <1>14, <1>15, <1>16 DEF Pair, Half
<1> QED BY <1>1, <1>6, <1>9, <1>10, <1>17, Handling DEF s, t, in, to, rest

(* Main's list of peers to unchoke.                                        *)
LEMMA Ticking ==
  ASSUME IInv, NEW n \in Nodes, NEW included \in BOOLEAN, ChokeTick(n, included)
  PROVE  IInv'
<1> DEFINE o == Other(n)
           s == node[n]
           t == node[o]
           in == wire[n]
           to == wire[o]
           d == Rechoke(s, included)
           v == to \o d.out
<1>1. o \in Nodes /\ Other(o) = n
  BY Others
<1>2. /\ s \in State /\ ~s.failed /\ s.out = <<>> /\ t \in State
      /\ in \in Seq(Messages) /\ to \in Seq(Messages)
  BY <1>1 DEF IInv, Typed
<1>3. /\ AccountOK(s, t, in, to) /\ OfferOK(s, t, in) /\ ViewOK(s, t, in) /\ InterestOK(s, t, in, to)
      /\ AccountOK(t, s, to, in) /\ OfferOK(t, s, to) /\ ViewOK(t, s, to) /\ InterestOK(t, s, to, in)
      /\ ProgressOK(s) /\ ProgressOK(t) /\ Wanted(t, s, in)
  BY <1>1 DEF IInv, Half
<1>4. Loop(n, d, in)
  BY DEF ChokeTick
<1>5. CASE included # s.choking
  <2>1. d = s
    BY <1>5 DEF Rechoke
  <2>2. v = to
    <3>1. to \o <<>> = to
      BY <1>2
    <3> HIDE DEF d
    <3> QED BY <1>2, <2>1, <3>1
  <2>3. Pair(d, t, in, v)
    BY <1>3, <2>1, <2>2 DEF Pair, Half
  <2> QED BY <1>2, <1>4, <2>1, <2>3, Looping
<1>6. CASE included = s.choking
  <2> DEFINE kind == IF included THEN "unchoke" ELSE "choke"
             m == Bare(kind)
  <2>1. kind \in ChangeTypes
    BY DEF ChangeTypes
  <2> HIDE DEF kind
  <2>2. m \in Messages
    BY <2>1 DEF Message, Bare, Messages
  <2>3. d = [s EXCEPT !.choking = ~included, !.out = Append(@, m)]
    BY <1>6 DEF Rechoke, kind
  <2> HIDE DEF m
  <2>4. d \in State
    <3>1. Append(s.out, m) \in Seq(Messages)
      <4>1. s.out \in Seq(Messages)
        BY <1>2, Fields
      <4> QED BY <2>2, <4>1
    <3>2. (~included) \in BOOLEAN
      OBVIOUS
    <3> QED BY <1>2, <2>3, <3>1, <3>2 DEF State
  <2>5. /\ d.has = s.has /\ d.bf = s.bf /\ d.order = s.order
        /\ d.received = s.received /\ d.numDone = s.numDone
        /\ d.requests = s.requests /\ d.next = s.next /\ d.chokedBy = s.chokedBy
        /\ d.choking = ~included /\ d.interested = s.interested
        /\ d.interestedSent = s.interestedSent
        /\ d.requested = s.requested /\ d.out = Append(<<>>, m) /\ d.failed = s.failed
    BY <1>2, <2>3 DEF State
  <2>6. v = Append(to, m)
    <3>1. <<>> \in Seq(Messages) /\ to \o <<>> = to
      BY <1>2
    <3> QED BY <1>2, <2>2, <2>5, <3>1, AppendToOut
  <2> HIDE DEF d, v, s, t, in, to, o
  <2>7. SaysMore(to, kind, NoPiece, v)
    <3>1. Longer(to, kind, NoPiece, v)
      BY <2>2, <2>6 DEF Longer, m, Bare
    <3> QED BY <1>2, <3>1, OneMore
  <2>8. /\ \A type \in {"request", "piece", "bitfield", "interested"} :
             /\ Said(v, type) = Said(to, type)
             /\ Once(to, type) => Once(v, type)
             /\ Has(v, type) <=> Has(to, type)
        /\ Has(v, "unchoke") /\ ~Has(to, "unchoke") => kind = "unchoke"
        /\ HasChange(v)
        /\ \A i : LastChange(v, i) => v[i].type = kind
    BY <2>1, <2>7 DEF SaysMore, ChangeTypes
  <2>9. ProgressOK(d) /\ Wanted(t, d, in)
    BY <1>3, <2>5 DEF ProgressOK, Wanted, Known
  <2>10. AccountOK(d, t, in, v) /\ AccountOK(t, d, v, in)
    BY <1>3, <2>5, <2>8 DEF AccountOK
  <2>11. OfferOK(d, t, in) /\ OfferOK(t, d, v)
    BY <1>3, <2>5, <2>8 DEF OfferOK
  <2>12. ViewOK(d, t, in)
    BY <1>3, <2>5 DEF ViewOK
  <2>13. ViewOK(t, d, v)
    <3>1. ASSUME NEW i \in DOMAIN v, LastChange(v, i)
          PROVE  d.choking = (v[i].type = "choke")
      <4>1. v[i].type = kind
        BY <2>8, <3>1
      <4>2. CASE included
        BY <2>5, <4>1, <4>2 DEF kind
      <4>3. CASE ~included
        BY <2>5, <4>1, <4>3 DEF kind
      <4> QED BY <4>2, <4>3
    <3> QED BY <2>8, <3>1 DEF ViewOK
  <2>14. InterestOK(d, t, in, v)
    BY <1>3, <2>5, <2>8 DEF InterestOK, Known
  <2>15. InterestOK(t, d, v, in)
    BY <1>3, <2>5, <2>8 DEF InterestOK, Known
  <2>16. Pair(d, t, in, v)
    BY <1>3, <2>9, <2>10, <2>11, <2>12, <2>13, <2>14, <2>15 DEF Pair, Half
  <2>17. ~d.failed
    BY <1>2, <2>5
  <2> QED BY <1>2, <1>4, <2>4, <2>16, <2>17, Looping DEF v, s, t, in, to, o
<1> QED BY <1>5, <1>6

-----------------------------------------------------------------------------
(* The invariant holds, and what follows from it.                          *)

LEMMA Initially == Init => IInv
<1> SUFFICES ASSUME Init PROVE IInv
  OBVIOUS
<1>1. \A n \in Nodes : node[n].orders \in Seq(Pieces)
  <2> TAKE n \in Nodes
  <2> DEFINE missing == Pieces \ Initial[n]
  <2>1. Cardinality(missing) \in Nat
    BY PiecesAssumption, FS_Difference, FS_CardinalityType
  <2>2. node[n].orders \in SetToSeqs(missing)
    BY DEF Init
  <2>3. node[n].orders \in [1..Cardinality(missing) -> missing]
    BY <2>2 DEF SetToSeqs
  <2>4. node[n].orders \in [1..Cardinality(missing) -> Pieces]
    BY <2>3
  <2> HIDE DEF missing
  <2> QED BY <2>1, <2>4
<1>2. \A n \in Nodes :
        /\ node[n].has = Initial[n] /\ node[n].bf = NoBitfield /\ node[n].order = NoPiece
        /\ node[n].received = {} /\ node[n].numDone = 0 /\ node[n].requests = <<>>
        /\ node[n].next = 1 /\ node[n].chokedBy = TRUE /\ node[n].choking = TRUE
        /\ node[n].interested = FALSE /\ node[n].interestedSent = FALSE
        /\ node[n].requested = <<>> /\ node[n].failed = FALSE /\ node[n].out = <<>>
  BY DEF Init
<1>3. node \in [Nodes -> State]
  <2>1. DOMAIN node = Nodes /\ \A n \in Nodes : node[n] = [f \in DOMAIN node[n] |-> node[n][f]]
    BY DEF Init
  <2>2. ASSUME NEW n \in Nodes PROVE node[n] \in State
    <3>1. /\ Initial[n] \in SUBSET Pieces /\ 1 \in 1..(Chunks + 1)
          /\ <<>> \in Seq(1..Chunks) /\ <<>> \in Seq(Request) /\ <<>> \in Seq(Messages)
          /\ {} \in SUBSET (1..Chunks) /\ 0 \in Nat
      BY InitialAssumption, LengthsAssumption
    <3>2. node[n] \in [has : SUBSET Pieces,
            orders : UNION {SetToSeqs(Pieces \ Initial[m]) : m \in Nodes},
            bf : {NoBitfield}, order : {NoPiece}, received : {{}}, numDone : {0},
            requests : {<<>>}, next : {1}, chokedBy : {TRUE}, choking : {TRUE},
            interested : {FALSE}, interestedSent : {FALSE}, requested : {<<>>},
            failed : {FALSE}, out : {<<>>}]
      BY DEF Init
    <3> HIDE DEF Init
    <3> QED BY <1>1, <1>2, <3>1, <3>2 DEF State
  <2>3. node \in [Nodes -> [has : SUBSET Pieces,
            orders : UNION {SetToSeqs(Pieces \ Initial[m]) : m \in Nodes},
            bf : {NoBitfield}, order : {NoPiece}, received : {{}}, numDone : {0},
            requests : {<<>>}, next : {1}, chokedBy : {TRUE}, choking : {TRUE},
            interested : {FALSE}, interestedSent : {FALSE}, requested : {<<>>},
            failed : {FALSE}, out : {<<>>}]]
    BY DEF Init
  <2> QED BY <2>2, <2>3
<1>4. \A n \in Nodes : Initial[Other(n)] \in SUBSET Pieces
  BY Others, InitialAssumption
<1>5. \A n \in Nodes : wire[n] = <<Message("bitfield", Initial[Other(n)])>>
  BY DEF Init
<1>6. wire \in [Nodes -> Seq(Messages)]
  <2>1. \A n \in Nodes : Message("bitfield", Initial[Other(n)]) \in Messages
    BY <1>4 DEF Message, Messages
  <2>2. wire = [n \in Nodes |-> <<Message("bitfield", Initial[Other(n)])>>]
    BY DEF Init
  <2>3. \A n \in Nodes : <<Message("bitfield", Initial[Other(n)])>> \in Seq(Messages)
    BY <2>1
  <2> QED BY <2>2, <2>3
<1>7. \A n \in Nodes :
        /\ DOMAIN wire[n] = {1} /\ wire[n][1].type = "bitfield"
        /\ wire[n][1].body = node[Other(n)].has
  <2> TAKE n \in Nodes
  <2> DEFINE m == Message("bitfield", Initial[Other(n)])
  <2>1. m.type = "bitfield" /\ m.body = Initial[Other(n)]
    BY DEF Message
  <2>2. node[Other(n)].has = Initial[Other(n)]
    BY <1>2, Others
  <2> HIDE DEF m
  <2>3. wire[n] = <<m>>
    BY <1>5 DEF m
  <2>4. DOMAIN wire[n] = {1} /\ wire[n][1] = m
    BY <2>3
  <2> QED BY <2>1, <2>2, <2>4
<1>8. Typed
  BY <1>2, <1>3, <1>6 DEF Typed
<1>9. ASSUME NEW n \in Nodes
      PROVE  /\ ProgressOK(node[n])
             /\ Half(node[n], node[Other(n)], wire[n], wire[Other(n)])
             /\ Wanted(node[n], node[Other(n)], wire[Other(n)])
  <2> DEFINE o == Other(n)
             s == node[n]
             t == node[o]
             in == wire[n]
             to == wire[o]
  <2>1. o \in Nodes
    BY Others
  <2>2. /\ s.bf = NoBitfield /\ s.order = NoPiece
        /\ s.received = {} /\ s.numDone = 0 /\ s.requests = <<>>
        /\ s.next = 1 /\ s.chokedBy = TRUE /\ s.interestedSent = FALSE
        /\ t.choking = TRUE /\ t.requested = <<>>
    BY <1>2, <2>1
  <2>3. /\ DOMAIN in = {1} /\ in[1].type = "bitfield" /\ in[1].body = t.has
        /\ DOMAIN to = {1} /\ to[1].type = "bitfield"
    BY <1>7, <2>1
  <2> HIDE DEF o, s, t, in, to
  <2>4. /\ IsInjective(<<>>) /\ Range(<<>>) = {} /\ Len(<<>>) = 0
    BY DEF IsInjective, Range
  <2>5. /\ Said(in, "bitfield") = {t.has} /\ Said(in, "piece") = {} /\ Said(to, "request") = {}
        /\ Once(in, "piece") /\ Once(to, "request")
        /\ ~Has(in, "unchoke") /\ ~HasChange(in) /\ \A i : ~LastChange(in, i)
    BY <2>3 DEF Said, Once, Has, HasChange, LastChange, ChangeTypes
  <2>6. ProgressOK(s)
    BY <2>2, <2>4, FS_EmptySet, LengthsAssumption DEF ProgressOK
  <2>7. AccountOK(s, t, in, to)
    BY <2>2, <2>4, <2>5 DEF AccountOK
  <2>8. OfferOK(s, t, in) /\ ViewOK(s, t, in) /\ InterestOK(s, t, in, to) /\ Wanted(s, t, to)
    BY <2>2, <2>5 DEF OfferOK, ViewOK, InterestOK, Wanted
  <2> QED BY <2>6, <2>7, <2>8 DEF Half, s, t, in, to, o
<1> QED BY <1>8, <1>9 DEF IInv

LEMMA Invariance == Spec => []IInv
<1>1. IInv /\ [Next]_vars => IInv'
  <2> SUFFICES ASSUME IInv, [Next]_vars PROVE IInv'
    OBVIOUS
  <2>1. ASSUME NEW n \in Nodes, Receive(n) PROVE IInv'
    <3>1. CASE HandleChoke(n)
      BY <3>1, Choking
    <3>2. CASE HandleUnchoke(n)
      BY <3>2, Unchoking
    <3>3. CASE HandleInterested(n)
      BY <3>3, HearingInterest
    <3>4. CASE HandleHave(n)
      BY <3>4, HearingHave
    <3>5. CASE HandleBitfield(n)
      BY <3>5, Bitfields
    <3>6. CASE HandleRequest(n)
      BY <3>6, Requests
    <3>7. CASE HandlePiece(n)
      BY <3>7, ReceivingChunk
    <3> QED BY <2>1, <3>1, <3>2, <3>3, <3>4, <3>5, <3>6, <3>7 DEF Receive
  <2>2. ASSUME NEW n \in Nodes, NEW included \in BOOLEAN, ChokeTick(n, included) PROVE IInv'
    BY <2>2, Ticking
  <2>3. CASE UNCHANGED vars
    BY <2>3 DEF vars, IInv, Typed
  <2> QED BY <2>1, <2>2, <2>3 DEF Next
<1> QED BY <1>1, Initially, PTL DEF Spec

(* Every field of an end keeps its type: no more requests are outstanding  *)
(* than the pipeline holds, and nothing beyond the piece is asked for or   *)
(* counted.                                                                *)
THEOREM TypeCorrect == Spec => []TypeOK
<1>1. IInv => TypeOK
  <2> SUFFICES ASSUME IInv, NEW n \in Nodes
               PROVE  LET s == node[n] IN
                      /\ s.has \subseteq Pieces /\ Range(s.orders) \subseteq Pieces
                      /\ s.bf = NoBitfield \/ s.bf \subseteq Pieces
                      /\ s.order \in Pieces \cup {NoPiece}
                      /\ s.received \subseteq 1..Chunks /\ s.numDone \in 0..Chunks
                      /\ Range(s.requests) \subseteq 1..Chunks
                      /\ Len(s.requests) <= PipelineLength
                      /\ s.next \in 1..(Chunks + 1)
                      /\ {s.chokedBy, s.choking, s.interested, s.interestedSent, s.failed} \subseteq BOOLEAN
                      /\ Range(s.requested) \subseteq Request
                      /\ s.out = <<>>
    BY DEF TypeOK
  <2> DEFINE s == node[n]
  <2>1. s \in State /\ s.out = <<>> /\ ProgressOK(s)
    BY DEF IInv, Typed
  <2> HIDE DEF s
  <2>2. /\ s.orders \in Seq(Pieces) /\ s.requests \in Seq(1..Chunks) /\ s.requested \in Seq(Request)
        /\ s.received \in SUBSET (1..Chunks)
    BY <2>1, Fields
  <2>3. /\ Range(s.orders) \subseteq Pieces /\ Range(s.requests) \subseteq 1..Chunks
        /\ Range(s.requested) \subseteq Request
    BY <2>2, Elements
  <2>4. s.numDone \in 0..Chunks /\ Len(s.requests) <= PipelineLength
    BY <2>1, <2>2, Chunked DEF ProgressOK
  <2>5. {s.chokedBy, s.choking, s.interested, s.interestedSent, s.failed} \subseteq BOOLEAN
    BY <2>1, Fields
  <2> QED BY <2>1, <2>3, <2>4, <2>5, Fields DEF s
<1> QED BY <1>1, Invariance, PTL

(* No end of a connection between two clients of this kind ever gives up   *)
(* on the other: no chunk comes that was not asked for, and no request     *)
(* names a piece that is not there, whatever chokes and unchokes cross.    *)
THEOREM NeverRejected == Spec => []NothingRejected
<1>1. IInv => NothingRejected
  BY DEF IInv, Typed, NothingRejected
<1> QED BY <1>1, Invariance, PTL

LEMMA BodiesSaid ==
  ASSUME NEW n, NEW type
  PROVE  /\ Range(Bodies(n, type)) = Said(wire[n], type)
         /\ Once(wire[n], type) => IsInjective(Bodies(n, type))
<1> DEFINE q == wire[n]
           f == Bodies(n, type)
<1>1. /\ DOMAIN f = {i \in DOMAIN q : q[i].type = type}
      /\ \A i \in DOMAIN f : f[i] = q[i].body
  BY DEF Bodies, Places
<1> HIDE DEF f, q
<1>2. Range(f) = Said(q, type)
  BY <1>1 DEF Range, Said
<1>3. Once(q, type) => IsInjective(f)
  BY <1>1 DEF Once, IsInjective
<1> QED BY <1>2, <1>3 DEF f, q

(* Each outstanding request is in exactly one place on its way there and   *)
(* back, and chunks are asked for and received once.                       *)
THEOREM EachRequestOnce == Spec => []RequestsAccounted
<1>1. IInv => RequestsAccounted
  <2> SUFFICES ASSUME IInv, NEW n \in Nodes
               PROVE  LET s == node[n]
                          asked == Range(s.requests)
                          under == UnderWay(n)
                      IN  /\ IsInjective(s.requests)
                          /\ \A w \in 1..3 : IsInjective(under[w])
                          /\ \A v, w \in 1..3 : v # w => Range(under[v]) \cap Range(under[w]) = {}
                          /\ UNION {Range(under[w]) : w \in 1..3} = {s.order} \X asked
                          /\ asked \cap s.received = {}
                          /\ asked \cup s.received = 1..(s.next - 1)
                          /\ s.numDone = Cardinality(s.received)
    BY DEF RequestsAccounted
  <2> DEFINE o == Other(n)
             s == node[n]
             t == node[o]
             asks == Bodies(o, "request")
             answers == Bodies(n, "piece")
             under == UnderWay(n)
  <2>1. ProgressOK(s) /\ AccountOK(s, t, wire[n], wire[o])
    BY DEF IInv, Half
  <2>2. under = <<asks, t.requested, answers>>
    BY DEF UnderWay
  <2>3. IsInjective(asks) /\ Range(asks) = Said(wire[o], "request")
    BY <2>1, BodiesSaid DEF AccountOK
  <2>4. IsInjective(answers) /\ Range(answers) = Said(wire[n], "piece")
    BY <2>1, BodiesSaid DEF AccountOK
  <2> HIDE DEF asks, answers, under, s, t
  <2>5. under[1] = asks /\ under[2] = t.requested /\ under[3] = answers
    BY <2>2
  <2>6. \A w \in 1..3 : w = 1 \/ w = 2 \/ w = 3
    OBVIOUS
  <2>7. \A w \in 1..3 : IsInjective(under[w])
    BY <2>1, <2>3, <2>4, <2>5, <2>6 DEF AccountOK
  <2>8. \A v, w \in 1..3 : v # w => Range(under[v]) \cap Range(under[w]) = {}
    BY <2>1, <2>3, <2>4, <2>5, <2>6 DEF AccountOK
  <2>9. UNION {Range(under[w]) : w \in 1..3} = Range(under[1]) \cup Range(under[2]) \cup Range(under[3])
    BY <2>6
  <2>10. UNION {Range(under[w]) : w \in 1..3} = {s.order} \X Range(s.requests)
    BY <2>1, <2>3, <2>4, <2>5, <2>9 DEF AccountOK
  <2> QED BY <2>1, <2>7, <2>8, <2>10 DEF ProgressOK, s, under
<1> QED BY <1>1, Invariance, PTL

(* An end's view of being choked is late by the messages on their way, and *)
(* never wrong.                                                            *)
THEOREM ViewsAgree == Spec => []ChokeViewsAgree
<1>1. IInv => ChokeViewsAgree
  <2> SUFFICES ASSUME IInv, NEW n \in Nodes
               PROVE  /\ Changes(n) = {} => node[Other(n)].choking = node[n].chokedBy
                      /\ \A i \in Changes(n) :
                           (\A j \in Changes(n) : j <= i) =>
                             node[Other(n)].choking = (wire[n][i].type = "choke")
    BY DEF ChokeViewsAgree
  <2>1. ViewOK(node[n], node[Other(n)], wire[n])
    BY DEF IInv, Half
  <2>2. Changes(n) = {i \in DOMAIN wire[n] : wire[n][i].type \in ChangeTypes}
    BY DEF Changes, Places, ChangeTypes
  <2>3. Changes(n) = {} => ~HasChange(wire[n])
    BY <2>2 DEF HasChange
  <2>4. \A i \in Changes(n) : (\A j \in Changes(n) : j <= i) =>
          i \in DOMAIN wire[n] /\ LastChange(wire[n], i)
    BY <2>2 DEF LastChange
  <2> QED BY <2>1, <2>3, <2>4 DEF ViewOK
<1> QED BY <1>1, Invariance, PTL

(* A choked end that has an order never waits for a peer that will not     *)
(* learn of its interest, even if the peer had unchoked it before it said  *)
(* that it is interested.                                                  *)
THEOREM InterestReachesPeer == Spec => []InterestKnown
<1>1. IInv => InterestKnown
  <2> SUFFICES ASSUME IInv, NEW n \in Nodes, node[n].order # NoPiece, node[n].chokedBy
               PROVE  node[Other(n)].interested \/ Interests(Other(n)) # {}
    BY DEF InterestKnown
  <2>1. Known(node[Other(n)], wire[Other(n)])
    BY DEF IInv, Wanted
  <2> QED BY <2>1 DEF Known, Has, Interests, Places
<1> QED BY <1>1, Invariance, PTL

-----------------------------------------------------------------------------
(* The trade in pieces that the messages serve.  A piece is in one place   *)
(* of an end: in its queue of orders, in progress, or among its own.       *)

InQueue(s) ==
  /\ s.orders \in Seq(Pieces) /\ IsInjective(s.orders)
  /\ Range(s.orders) \cap s.has = {}

InProgress(s) ==
  IF s.order = NoPiece THEN s.received = {} /\ s.numDone # Chunks
                       ELSE s.order \notin s.has \cup Range(s.orders)

Apart(s) == InQueue(s) /\ InProgress(s)

(* A piece whose chunks are all there is not left in progress.             *)
TradeInv ==
  /\ IInv
  /\ \A n \in Nodes : Apart(node[n]) /\ node[n].numDone # Chunks

(* What the end s has become c by, as far as the trade goes.               *)
IsRecord(s) ==
  /\ s = [f \in DOMAIN s |-> s[f]]
  /\ {"has", "orders", "bf", "order", "received", "numDone", "requests", "next",
      "interestedSent", "requested", "failed", "out"} \subseteq DOMAIN s

SameTrade(s, c) ==
  /\ IsRecord(c)
  /\ c.has = s.has /\ c.orders = s.orders /\ c.bf = s.bf /\ c.order = s.order
  /\ c.received = s.received /\ c.numDone = s.numDone

Offered(s) == IF s.bf = NoBitfield THEN {} ELSE s.bf

(* It may have chosen a piece.                                             *)
Chosen(s, c) ==
  /\ c.has = s.has /\ c.received = s.received /\ c.numDone = s.numDone
  /\ \/ c.order = s.order
     \/ s.order = NoPiece /\ c.order \in Offered(s) \ s.has

(* It has completed a piece, and may have chosen another.                  *)
Completed(s, c) ==
  /\ c.has = s.has \cup {s.order} /\ c.received = {} /\ c.numDone = 0
  /\ c.order = NoPiece \/ c.order \in Offered(s) \ c.has

LEMMA StatesAreRecords ==
  ASSUME NEW s \in State
  PROVE  IsRecord(s)
BY DEF State, IsRecord

LEMMA UploadKeeps ==
  ASSUME NEW s, IsRecord(s)
  PROVE  SameTrade(s, UploadChunk(s))
BY DEF UploadChunk, SameTrade, IsRecord

LEMMA InterestKeeps ==
  ASSUME NEW s, IsRecord(s)
  PROVE  SameTrade(s, SayInterested(s))
BY DEF SayInterested, SameTrade, IsRecord

LEMMA RequestsKeep ==
  ASSUME NEW s, IsRecord(s)
  PROVE  SameTrade(s, FillRequests(s))
BY DEF FillRequests, SameTrade, IsRecord

LEMMA RechokeKeeps ==
  ASSUME NEW s \in State, NEW included
  PROVE  SameTrade(s, Rechoke(s, included))
BY DEF State, Rechoke, SameTrade, IsRecord

(* The first order leaves the queue.                                       *)
LEMMA FirstOrder ==
  ASSUME NEW q \in Seq(Pieces), IsInjective(q), q # <<>>
  PROVE  /\ Head(q) \in Range(q) /\ Tail(q) \in Seq(Pieces)
         /\ IsInjective(Tail(q)) /\ Range(Tail(q)) = Range(q) \ {Head(q)}
<1> DEFINE p == Tail(q)
           h == Head(q)
<1>1. /\ p \in Seq(Pieces) /\ h = q[1] /\ 1 \in DOMAIN q
      /\ \A i \in DOMAIN p : i + 1 \in DOMAIN q /\ p[i] = q[i + 1]
      /\ \A i \in DOMAIN q : i # 1 => i - 1 \in DOMAIN p /\ p[i - 1] = q[i]
      /\ DOMAIN q \subseteq Nat \ {0} /\ DOMAIN p \subseteq Nat \ {0}
  BY TakenFirst
<1> HIDE DEF p, h
<1>2. h \in Range(q)
  BY <1>1 DEF Range
<1>3. IsInjective(p)
  <2>1. ASSUME NEW i \in DOMAIN p, NEW j \in DOMAIN p, p[i] = p[j]
        PROVE  i = j
    <3>1. i + 1 = j + 1
      BY <1>1, <2>1 DEF IsInjective
    <3> QED BY <1>1, <3>1
  <2> QED BY <2>1 DEF IsInjective
<1>4. Range(p) = Range(q) \ {h}
  <2>1. ASSUME NEW i \in DOMAIN p
        PROVE  p[i] \in Range(q) \ {h}
    <3>1. i + 1 \in DOMAIN q /\ p[i] = q[i + 1] /\ i + 1 # 1
      BY <1>1
    <3> QED BY <1>1, <3>1 DEF IsInjective, Range
  <2>2. ASSUME NEW i \in DOMAIN q, q[i] # h
        PROVE  q[i] \in Range(p)
    <3>1. i # 1
      BY <1>1, <2>2
    <3>2. i - 1 \in DOMAIN p /\ p[i - 1] = q[i]
      BY <1>1, <3>1
    <3> QED BY <3>2 DEF Range
  <2> QED BY <2>1, <2>2 DEF Range
<1> QED BY <1>1, <1>2, <1>3, <1>4 DEF p, h

LEMMA CompletingOnce ==
  ASSUME NEW s, IsRecord(s), Apart(s), NEW c, c = CompletePiece(s)
  PROVE  /\ IsRecord(c) /\ Apart(c) /\ c.bf = s.bf
         /\ c.numDone # Chunks
         /\ IF s.order = NoPiece \/ s.numDone # Chunks
            THEN SameTrade(s, c)
            ELSE /\ c.has = s.has \cup {s.order} /\ c.order = NoPiece
                 /\ c.received = {} /\ c.numDone = 0
<1>1. CASE s.order = NoPiece \/ s.numDone # Chunks
  <2>1. c = s
    BY <1>1 DEF CompletePiece
  <2> QED BY <1>1, <2>1 DEF Apart, InProgress, SameTrade
<1>2. CASE ~(s.order = NoPiece \/ s.numDone # Chunks)
  <2>1. /\ IsRecord(c) /\ c.bf = s.bf /\ c.orders = s.orders
        /\ c.has = s.has \cup {s.order} /\ c.order = NoPiece
        /\ c.received = {} /\ c.numDone = 0
    BY <1>2 DEF CompletePiece, IsRecord
  <2>2. InQueue(c)
    BY <1>2, <2>1 DEF Apart, InQueue, InProgress
  <2>3. InProgress(c) /\ c.numDone # Chunks
    BY <2>1, LengthsAssumption DEF InProgress
  <2> QED BY <1>2, <2>1, <2>2, <2>3 DEF Apart
<1> QED BY <1>1, <1>2

LEMMA TakingOnce ==
  ASSUME NEW s, IsRecord(s), Apart(s), s.numDone # Chunks, NEW c, c = TakePiece(s)
  PROVE  IsRecord(c) /\ Apart(c) /\ c.bf = s.bf /\ Chosen(s, c)
<1>1. CASE s.order # NoPiece \/ s.bf = NoBitfield \/ s.orders = <<>>
  <2>1. c = s
    BY <1>1 DEF TakePiece
  <2> QED BY <2>1 DEF Chosen
<1>2. CASE ~(s.order # NoPiece \/ s.bf = NoBitfield \/ s.orders = <<>>)
  <2> DEFINE h == Head(s.orders)
             q == Tail(s.orders)
  <2>1. /\ h \in Range(s.orders) /\ q \in Seq(Pieces)
        /\ IsInjective(q) /\ Range(q) = Range(s.orders) \ {h}
        /\ Range(s.orders) \subseteq Pieces
    BY <1>2, FirstOrder, Elements DEF Apart, InQueue
  <2>2. CASE h \in s.bf
    <3>1. /\ IsRecord(c) /\ c.bf = s.bf /\ c.orders = q /\ c.order = h
          /\ c.has = s.has /\ c.received = s.received /\ c.numDone = s.numDone
      BY <1>2, <2>2 DEF TakePiece, IsRecord
    <3> HIDE DEF h, q
    <3>2. h # NoPiece /\ h \notin s.has
      BY <2>1, PiecesAssumption DEF Apart, InQueue
    <3>3. Apart(c)
      BY <2>1, <3>1, <3>2 DEF Apart, InQueue, InProgress
    <3>4. Chosen(s, c)
      BY <1>2, <2>2, <3>1, <3>2 DEF Chosen, Offered
    <3> QED BY <3>1, <3>3, <3>4
  <2>3. CASE h \notin s.bf
    <3> DEFINE r == Append(q, h)
    <3> HIDE DEF h, q
    <3>1. /\ IsRecord(c) /\ c.bf = s.bf /\ c.orders = r /\ c.order = s.order
          /\ c.has = s.has /\ c.received = s.received /\ c.numDone = s.numDone
      BY <1>2, <2>3 DEF TakePiece, IsRecord, h, q
    <3>2. r \in Seq(Pieces) /\ IsInjective(r) /\ Range(r) = Range(s.orders)
      <4>1. h \in Pieces /\ h \notin Range(q) /\ Range(s.orders) = Range(q) \cup {h}
        BY <2>1
      <4>2. Range(r) = Range(q) \cup {h}
        BY <2>1, <4>1, Appended
      <4> QED BY <2>1, <4>1, <4>2, Appended
    <3> HIDE DEF r
    <3>3. Apart(c)
      BY <3>1, <3>2 DEF Apart, InQueue, InProgress
    <3> QED BY <3>1, <3>3 DEF Chosen
  <2> QED BY <2>2, <2>3
<1> QED BY <1>1, <1>2

LEMMA SameApart ==
  ASSUME NEW s, NEW c, SameTrade(s, c), Apart(s)
  PROVE  Apart(c)
BY DEF SameTrade, Apart, InQueue, InProgress

(* What an iteration does to the trade of the end s.                       *)
LEMMA Trading ==
  ASSUME NEW s, IsRecord(s), Apart(s), NEW c, c = Iterate(s)
  PROVE  /\ Apart(c) /\ c.numDone # Chunks
         /\ IF s.order = NoPiece \/ s.numDone # Chunks THEN Chosen(s, c) ELSE Completed(s, c)
<1> DEFINE s1 == UploadChunk(s)
           s2 == CompletePiece(s1)
           s3 == TakePiece(s2)
           s4 == SayInterested(s3)
<1>1. SameTrade(s, s1) /\ Apart(s1) /\ IsRecord(s1)
  BY UploadKeeps, SameApart DEF SameTrade
<1> HIDE DEF s1
<1>2. /\ IsRecord(s2) /\ Apart(s2) /\ s2.bf = s.bf /\ s2.numDone # Chunks
      /\ IF s.order = NoPiece \/ s.numDone # Chunks
         THEN SameTrade(s, s2)
         ELSE /\ s2.has = s.has \cup {s.order} /\ s2.order = NoPiece
              /\ s2.received = {} /\ s2.numDone = 0
  BY <1>1, CompletingOnce DEF SameTrade
<1> HIDE DEF s2
<1>3. IsRecord(s3) /\ Apart(s3) /\ Chosen(s2, s3)
  BY <1>2, TakingOnce
<1> HIDE DEF s3
<1>4. SameTrade(s3, s4) /\ Apart(s4) /\ IsRecord(s4)
  BY <1>3, InterestKeeps, SameApart DEF SameTrade
<1> HIDE DEF s4
<1>5. c = FillRequests(s4)
  BY DEF Iterate, s1, s2, s3, s4
<1>6. SameTrade(s4, c) /\ Apart(c)
  BY <1>4, <1>5, RequestsKeep, SameApart
<1>7. /\ c.has = s3.has /\ c.order = s3.order /\ c.received = s3.received
      /\ c.numDone = s3.numDone
  BY <1>4, <1>6 DEF SameTrade
<1>8. c.numDone # Chunks
  BY <1>2, <1>3, <1>7 DEF Chosen
<1>9. CASE s.order = NoPiece \/ s.numDone # Chunks
  <2>1. Chosen(s, c)
    BY <1>2, <1>3, <1>7, <1>9 DEF Chosen, SameTrade, Offered
  <2> QED BY <1>6, <1>8, <1>9, <2>1
<1>10. CASE ~(s.order = NoPiece \/ s.numDone # Chunks)
  <2>1. Completed(s, c)
    BY <1>2, <1>3, <1>7, <1>10 DEF Chosen, Completed, Offered
  <2> QED BY <1>6, <1>8, <1>10, <2>1
<1> QED BY <1>9, <1>10

(* From one select to the next, with the message or the list handled: the  *)
(* end n has become d, with nothing new or with one chunk more.            *)
SamePiece(s, d) ==
  /\ IsRecord(d)
  /\ d.has = s.has /\ d.orders = s.orders /\ d.order = s.order

NothingNew(s, d) ==
  SamePiece(s, d) /\ d.received = s.received /\ d.numDone = s.numDone

NewChunk(s, d) ==
  /\ SamePiece(s, d) /\ s.order # NoPiece
  /\ \E k \in (1..Chunks) \ s.received : d.received = s.received \cup {k}
  /\ d.numDone = Cardinality(d.received)

(* c stands for the end n, and the other end is as it was.                 *)
LEMMA OneEndMoves ==
  ASSUME NEW n \in Nodes, NEW d, NEW rest, Loop(n, d, rest), node \in [Nodes -> State],
         NEW c, c = Iterate(d), IsRecord(c)
  PROVE  /\ \A m \in Nodes : m # n => node'[m] = node[m]
         /\ node'[n].orders = c.orders /\ node'[n].numDone = c.numDone
         /\ node'[n].has = c.has /\ node'[n].order = c.order
         /\ node'[n].received = c.received
<1> DEFINE e == [c EXCEPT !.out = <<>>]
<1>1. node' = [node EXCEPT ![n] = e]
  BY DEF Loop
<1>2. /\ e.has = c.has /\ e.orders = c.orders /\ e.order = c.order
      /\ e.received = c.received /\ e.numDone = c.numDone
  BY DEF IsRecord
<1> HIDE DEF e
<1>3. node'[n] = e /\ \A m \in Nodes : m # n => node'[m] = node[m]
  BY <1>1
<1> QED BY <1>2, <1>3

LEMMA IteratedRecord ==
  ASSUME NEW s, IsRecord(s), NEW c, c = Iterate(s)
  PROVE  IsRecord(c)
<1> DEFINE s1 == UploadChunk(s)
           s2 == CompletePiece(s1)
           s3 == TakePiece(s2)
           s4 == SayInterested(s3)
<1>1. IsRecord(s1)
  BY UploadKeeps DEF SameTrade
<1> HIDE DEF s1
<1>2. IsRecord(s2)
  BY <1>1 DEF CompletePiece, IsRecord
<1> HIDE DEF s2
<1>3. IsRecord(s3)
  BY <1>2 DEF TakePiece, IsRecord
<1> HIDE DEF s3
<1>4. IsRecord(s4)
  BY <1>3, InterestKeeps DEF SameTrade
<1> HIDE DEF s4
<1>5. c = FillRequests(s4)
  BY DEF Iterate, s1, s2, s3, s4
<1> QED BY <1>4, <1>5, RequestsKeep DEF SameTrade

LEMMA Dealing ==
  ASSUME TradeInv, IInv', NEW n \in Nodes, NEW d, NEW rest, Loop(n, d, rest),
         NothingNew(node[n], d) \/ NewChunk(node[n], d),
         Offered(d) \subseteq node[Other(n)].has
  PROVE  TradeInv' /\ (T!Next \/ UNCHANGED T!vars)
<1> DEFINE s == node[n]
           c == Iterate(d)
           has == [m \in Nodes |-> node[m].has]
           order == [m \in Nodes |-> node[m].order]
           received == [m \in Nodes |-> node[m].received]
<1>1. s \in State /\ Apart(s) /\ s.numDone # Chunks /\ ProgressOK(s)
  BY DEF TradeInv, IInv, Typed
<1>2. IsRecord(d) /\ d.has = s.has /\ d.orders = s.orders /\ d.order = s.order
  BY DEF NothingNew, NewChunk, SamePiece
<1>3. Apart(d)
  BY <1>1, <1>2 DEF Apart, InQueue, InProgress, NothingNew, NewChunk
<1>4. /\ IsRecord(c) /\ Apart(c) /\ c.numDone # Chunks
      /\ IF d.order = NoPiece \/ d.numDone # Chunks THEN Chosen(d, c) ELSE Completed(d, c)
  BY <1>2, <1>3, Trading, IteratedRecord
<1> HIDE DEF c
<1>5. /\ \A m \in Nodes : m # n => node'[m] = node[m]
      /\ node'[n].orders = c.orders /\ node'[n].numDone = c.numDone
      /\ node'[n].has = c.has /\ node'[n].order = c.order
      /\ node'[n].received = c.received
  <2>1. node \in [Nodes -> State] /\ c = Iterate(d) /\ IsRecord(c)
    BY <1>4 DEF TradeInv, IInv, Typed, c
  <2> QED BY <2>1, OneEndMoves
<1>6. TradeInv'
  <2>1. Apart(node[n])' /\ node'[n].numDone # Chunks
    BY <1>4, <1>5 DEF Apart, InQueue, InProgress
  <2>2. ASSUME NEW m \in Nodes, m # n
        PROVE  Apart(node[m])' /\ node'[m].numDone # Chunks
    BY <1>5, <2>2 DEF TradeInv, Apart, InQueue, InProgress
  <2> QED BY <2>1, <2>2 DEF TradeInv
<1>7. /\ has[n] = s.has /\ order[n] = s.order /\ received[n] = s.received
      /\ has = [m \in Nodes |-> has[m]]
      /\ order = [m \in Nodes |-> order[m]]
      /\ received = [m \in Nodes |-> received[m]]
      /\ has' = [has EXCEPT ![n] = c.has]
      /\ order' = [order EXCEPT ![n] = c.order]
      /\ received' = [received EXCEPT ![n] = c.received]
  BY <1>5
<1>8. \A mine : Offered(d) \ mine \subseteq T!OnOffer(n, mine)
  <2>1. Other(n) \in Nodes \ {n} /\ has[Other(n)] = node[Other(n)].has
    BY Others
  <2> QED BY <2>1 DEF T!OnOffer
<1> HIDE DEF s, has, order, received
<1>9. CASE d.order = NoPiece \/ d.numDone # Chunks
  <2>1. Chosen(d, c)
    BY <1>4, <1>9
  <2>2. CASE NothingNew(node[n], d)
    <3>1. c.has = has[n] /\ c.received = received[n]
      BY <1>2, <1>7, <2>1, <2>2 DEF Chosen, NothingNew, s
    <3>2. has' = has /\ received' = received
      BY <1>7, <3>1
    <3>3. CASE c.order = d.order
      <4>1. order' = order
        BY <1>2, <1>7, <3>3
      <4> QED BY <1>6, <3>2, <4>1 DEF T!vars, has, order, received
    <3>4. CASE c.order # d.order
      <4>1. order[n] = NoPiece /\ c.order \in T!OnOffer(n, has[n])
        BY <1>2, <1>7, <1>8, <2>1, <3>4 DEF Chosen
      <4>2. T!Choose(n)
        BY <1>7, <3>2, <4>1 DEF T!Choose, has, order, received
      <4> QED BY <1>6, <4>2 DEF T!Next
    <3> QED BY <3>3, <3>4
  <2>3. CASE NewChunk(node[n], d)
    <3>1. PICK k \in (1..Chunks) \ s.received : d.received = s.received \cup {k}
      BY <2>3 DEF NewChunk, s
    <3>2. d.order # NoPiece /\ d.numDone = Cardinality(d.received)
      BY <1>2, <2>3 DEF NewChunk, s
    <3>3. d.received # 1..Chunks
      BY <1>9, <3>2, Chunked
    <3>4. /\ c.has = has[n] /\ c.order = order[n] /\ order[n] # NoPiece
          /\ c.received = received[n] \cup {k}
      BY <1>2, <1>7, <2>1, <3>1, <3>2 DEF Chosen
    <3>5. has' = has /\ order' = order
      BY <1>7, <3>4
    <3>6. T!GetChunk(n)
      <4>1. k \in (1..Chunks) \ received[n] /\ received[n] \cup {k} # 1..Chunks
        BY <1>7, <3>1, <3>3
      <4>2. received' = [received EXCEPT ![n] = received[n] \cup {k}]
        BY <1>7, <3>4
      <4> QED BY <3>4, <3>5, <4>1, <4>2 DEF T!GetChunk, has, order, received
    <3> QED BY <1>6, <3>6 DEF T!Next
  <2> QED BY <2>2, <2>3
<1>10. CASE ~(d.order = NoPiece \/ d.numDone # Chunks)
  <2>1. Completed(d, c)
    BY <1>4, <1>10
  <2>2. NewChunk(node[n], d)
    BY <1>1, <1>10 DEF NothingNew, s
  <2>3. PICK k \in (1..Chunks) \ s.received : d.received = s.received \cup {k}
    BY <2>2 DEF NewChunk, s
  <2>4. d.received = 1..Chunks
    <3>1. d.received \in SUBSET (1..Chunks) /\ Cardinality(d.received) = Chunks
      BY <1>1, <1>10, <2>2, <2>3, Fields DEF NewChunk
    <3> QED BY <3>1, Chunked
  <2>5. order[n] # NoPiece /\ c.has = has[n] \cup {order[n]} /\ c.received = {}
    BY <1>2, <1>7, <1>10, <2>1 DEF Completed
  <2>6. c.order \in T!OnOffer(n, c.has) \cup {NoPiece}
    BY <1>8, <2>1 DEF Completed
  <2>7. has'[n] = c.has
    BY <1>7
  <2>8. k \in (1..Chunks) \ received[n] /\ received[n] \cup {k} = 1..Chunks
    BY <1>7, <2>3, <2>4
  <2>9. T!GetLastChunk(n)
    BY <1>7, <2>5, <2>6, <2>7, <2>8 DEF T!GetLastChunk, has, order, received
  <2> QED BY <1>6, <2>9 DEF T!Next
<1> QED BY <1>9, <1>10

(* A handler leaves d, and what d believes the other end has, it has.      *)
LEMMA Chooses ==
  ASSUME TradeInv, IInv', NEW n \in Nodes, NEW kind, Receives(n, kind), NEW d, Handled(n, d),
         NothingNew(node[n], d) \/ NewChunk(node[n], d), d.bf = node[n].bf
  PROVE  TradeInv' /\ (T!Next \/ UNCHANGED T!vars)
<1>1. OfferOK(node[n], node[Other(n)], wire[n])
  BY DEF TradeInv, IInv, Half
<1>2. Offered(d) \subseteq node[Other(n)].has
  BY <1>1 DEF Offered, OfferOK
<1> QED BY <1>2, Dealing DEF Handled

LEMMA HearingBitfield ==
  ASSUME TradeInv, IInv', NEW n \in Nodes, HandleBitfield(n)
  PROVE  TradeInv' /\ (T!Next \/ UNCHANGED T!vars)
<1> DEFINE d == [node[n] EXCEPT !.bf = Body(n)]
<1>1. Receives(n, "bitfield") /\ Handled(n, d) /\ IInv
  BY DEF HandleBitfield, TradeInv
<1>2. node[n] \in State /\ Body(n) \in Said(wire[n], "bitfield")
  BY <1>1, Receiving DEF SaysLess
<1>3. Body(n) \subseteq node[Other(n)].has
  BY <1>1, <1>2 DEF IInv, Half, OfferOK
<1>4. IsRecord(node[n])
  BY <1>2, StatesAreRecords
<1>5. NothingNew(node[n], d) /\ d.bf = Body(n)
  BY <1>4 DEF NothingNew, SamePiece, IsRecord
<1> HIDE DEF d
<1>6. Offered(d) \subseteq node[Other(n)].has
  BY <1>3, <1>5 DEF Offered
<1> QED BY <1>1, <1>5, <1>6, Dealing DEF Handled

(* The chunk that comes was asked for, so it is not there yet.             *)
LEMMA HearingPiece ==
  ASSUME TradeInv, IInv', NEW n \in Nodes, HandlePiece(n)
  PROVE  TradeInv' /\ (T!Next \/ UNCHANGED T!vars)
<1> DEFINE s == node[n]
           t == node[Other(n)]
           b == Body(n)
           k == b[2]
<1>1. Receives(n, "piece") /\ IInv
  BY DEF HandlePiece, TradeInv
<1>2. /\ s \in State /\ b \in Said(wire[n], "piece")
      /\ ProgressOK(s) /\ AccountOK(s, t, wire[n], wire[Other(n)])
  BY <1>1, Receiving DEF SaysLess, Pair, Half
<1>3. b \in {s.order} \X Range(s.requests)
  BY <1>2 DEF AccountOK
<1>4. b[1] = s.order /\ k \in Range(s.requests)
  BY <1>3
<1>5. PICK i \in DOMAIN s.requests :
        Handled(n, [s EXCEPT !.requests = SwapDelete(@, i),
                             !.numDone = @ + 1, !.received = @ \cup {k}])
  BY <1>4 DEF HandlePiece
<1> DEFINE d == [s EXCEPT !.requests = SwapDelete(@, i),
                          !.numDone = @ + 1, !.received = @ \cup {k}]
<1> HIDE DEF b, k, s
<1>6. /\ s.requests \in Seq(1..Chunks) /\ s.received \in SUBSET (1..Chunks)
      /\ IsRecord(s) /\ s.numDone = Cardinality(s.received)
      /\ Range(s.requests) \cap s.received = {}
  BY <1>2, Fields, StatesAreRecords DEF ProgressOK
<1>7. k \in (1..Chunks) \ s.received
  BY <1>4, <1>6, Elements
<1>8. Cardinality(s.received \cup {k}) = s.numDone + 1
  BY <1>6, <1>7, Chunked, FS_AddElement
<1>9. s.order # NoPiece
  <2>1. Range(s.requests) # {}
    BY <1>4
  <2> QED BY <1>2, <2>1, LengthsAssumption DEF ProgressOK
<1>10. /\ IsRecord(d) /\ d.has = s.has /\ d.orders = s.orders /\ d.order = s.order
       /\ d.bf = s.bf /\ d.received = s.received \cup {k} /\ d.numDone = s.numDone + 1
  BY <1>6 DEF IsRecord
<1>11. Handled(n, d)
  BY <1>5
<1> HIDE DEF d
<1>12. NewChunk(s, d)
  BY <1>7, <1>8, <1>9, <1>10 DEF NewChunk, SamePiece
<1> QED BY <1>1, <1>10, <1>11, <1>12, Chooses DEF s

(* Any other message, and main's list, leave the trade alone.              *)
LEMMA HearingOther ==
  ASSUME TradeInv, IInv', NEW n \in Nodes,
         \/ HandleChoke(n) \/ HandleUnchoke(n) \/ HandleInterested(n)
         \/ HandleHave(n) \/ HandleRequest(n)
  PROVE  TradeInv' /\ (T!Next \/ UNCHANGED T!vars)
<1>1. IsRecord(node[n])
  BY StatesAreRecords DEF TradeInv, IInv, Typed
<1>2. PICK kind, d :
        /\ Receives(n, kind) /\ Handled(n, d)
        /\ \/ d = Choked(node[n])
           \/ d = [node[n] EXCEPT !.chokedBy = FALSE]
           \/ d = [node[n] EXCEPT !.interested = TRUE]
           \/ d = node[n]
           \/ d = [node[n] EXCEPT !.requested = Append(@, Body(n))]
  BY DEF HandleChoke, HandleUnchoke, HandleInterested, HandleHave, HandleRequest
<1>3. NothingNew(node[n], d) /\ d.bf = node[n].bf
  BY <1>1, <1>2 DEF NothingNew, SamePiece, IsRecord, Choked
<1> QED BY <1>2, <1>3, Chooses

LEMMA TickTrades ==
  ASSUME TradeInv, IInv', NEW n \in Nodes, NEW included \in BOOLEAN, ChokeTick(n, included)
  PROVE  TradeInv' /\ (T!Next \/ UNCHANGED T!vars)
<1> DEFINE d == Rechoke(node[n], included)
<1>1. SameTrade(node[n], d)
  BY RechokeKeeps DEF TradeInv, IInv, Typed
<1>2. Loop(n, d, wire[n])
  BY DEF ChokeTick
<1> HIDE DEF d
<1>3. NothingNew(node[n], d)
  BY <1>1 DEF SameTrade, NothingNew, SamePiece
<1>4. OfferOK(node[n], node[Other(n)], wire[n])
  BY DEF TradeInv, IInv, Half
<1>5. Offered(d) \subseteq node[Other(n)].has
  BY <1>1, <1>4 DEF SameTrade, Offered, OfferOK
<1> QED BY <1>2, <1>3, <1>5, Dealing

LEMMA TradeBegins == Init => TradeInv /\ T!Init
<1> SUFFICES ASSUME Init PROVE TradeInv /\ T!Init
  OBVIOUS
<1>1. IInv
  BY Initially
<1>2. \A n \in Nodes :
        /\ node[n].has = Initial[n] /\ node[n].order = NoPiece
        /\ node[n].received = {} /\ node[n].numDone = 0
        /\ node[n].orders \in SetToSeqs(Pieces \ Initial[n])
  BY DEF Init
<1>3. ASSUME NEW n \in Nodes PROVE Apart(node[n]) /\ node[n].numDone # Chunks
  <2> DEFINE q == node[n].orders
  <2>1. q \in Seq(Pieces)
    BY <1>1, Fields DEF IInv, Typed
  <2>2. IsInjective(q) /\ Range(q) \subseteq Pieces \ Initial[n]
    <3> DEFINE missing == Pieces \ Initial[n]
    <3>1. q \in SetToSeqs(missing)
      BY <1>2
    <3>2. q \in [1..Cardinality(missing) -> missing] /\ IsInjective(q)
      BY <3>1 DEF SetToSeqs, IsInjective
    <3> HIDE DEF missing, q
    <3>3. Range(q) \subseteq missing
      BY <3>2 DEF Range
    <3> QED BY <3>2, <3>3 DEF missing
  <2>3. InQueue(node[n])
    BY <1>2, <2>1, <2>2 DEF InQueue
  <2>4. InProgress(node[n]) /\ node[n].numDone # Chunks
    BY <1>2, LengthsAssumption DEF InProgress
  <2> QED BY <2>3, <2>4 DEF Apart
<1>4. T!Init
  BY <1>2, InitialAssumption DEF T!Init
<1> QED BY <1>1, <1>3, <1>4 DEF TradeInv

LEMMA TradeGoesOn == TradeInv /\ [Next]_vars /\ IInv' => TradeInv' /\ [T!Next]_(T!vars)
<1> SUFFICES ASSUME TradeInv, [Next]_vars, IInv'
             PROVE  TradeInv' /\ (T!Next \/ UNCHANGED T!vars)
  OBVIOUS
<1>1. ASSUME NEW n \in Nodes, Receive(n)
      PROVE  TradeInv' /\ (T!Next \/ UNCHANGED T!vars)
  BY <1>1, HearingBitfield, HearingPiece, HearingOther DEF Receive
<1>2. ASSUME NEW n \in Nodes, NEW included \in BOOLEAN, ChokeTick(n, included)
      PROVE  TradeInv' /\ (T!Next \/ UNCHANGED T!vars)
  BY <1>2, TickTrades
<1>3. CASE UNCHANGED vars
  <2>1. node' = node
    BY <1>3 DEF vars
  <2>2. TradeInv'
    BY <2>1 DEF TradeInv, Apart, InQueue, InProgress
  <2>3. UNCHANGED T!vars
    BY <2>1 DEF T!vars
  <2> QED BY <2>2, <2>3
<1> QED BY <1>1, <1>2, <1>3 DEF Next

(* A connection implements Trade: whatever the messages, chokes and        *)
(* requests between them, each end gathers one whole piece at a time, of   *)
(* those it lacks and the other has, each chunk once.                      *)
THEOREM Implementation == Spec => ImplementsTrade
<1>1. Spec => [](TradeInv /\ IInv)
  BY TradeBegins, TradeGoesOn, Invariance, PTL DEF Spec
<1>2. Spec => T!Spec
  BY <1>1, TradeBegins, TradeGoesOn, PTL DEF Spec, T!Spec
<1> QED BY <1>2 DEF ImplementsTrade
=============================================================================
