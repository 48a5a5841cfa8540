---------------------------- MODULE ChokingProofs ---------------------------
(***************************************************************************)
(* What always holds of chokes, for any number of peers and slots and any  *)
(* capacity.  The map of interested peers is behind the goroutines in two  *)
(* ways at once, by messages of interest and by ends of connections, and   *)
(* the invariant says how far for each peer.                               *)
(***************************************************************************)
EXTENDS Choking, TLAPS, FiniteSetTheorems, SequenceTheorems

(* The messages of interest that main has not read.                        *)
About(p) == {i \in DOMAIN interestCh : interestCh[i][1] = p}
LastAbout(p, i) == i \in About(p) /\ \A j \in About(p) : j <= i

Typed ==
  /\ conn \in [Conns -> {"none", "added", "open", "failed", "ended"}]
  /\ adding \in [Adders -> Conns \cup {NoConn}]
  /\ interested \in [Conns -> BOOLEAN] /\ choking \in [Conns -> BOOLEAN]
  /\ list \in [Conns -> BOOLEAN \cup {Empty}]
  /\ interestCh \in Seq(Peers \X BOOLEAN)
  /\ interest \subseteq Peers /\ lastWord \subseteq Conns

(* A goroutine that is not in its loop has said and chosen nothing, and no *)
(* list waits where none runs.                                             *)
QuietOK ==
  /\ \A c \in Conns : conn[c] # "open" => choking[c] /\ c \notin lastWord
  /\ \A c \in Conns \ Running : list[c] = Empty

(* Two connections of one peer come from two Adds that crossed.            *)
AddingOK ==
  /\ \A a \in Adders : adding[a] # NoConn => conn[adding[a]] = "none"
  /\ \A a, b \in Adders : a # b /\ adding[a] # NoConn => adding[a] # adding[b]
CrossedOK ==
  \A c \in Conns : conn[c] # "none" => \A d \in Twins(c) :
    conn[d] # "none" \/ d \in Range(adding) => c \in crossed /\ d \in crossed

(* Main believes in the interest of a peer that has asked, or that it      *)
(* heard of too late.                                                      *)
BeliefOK == interest \subseteq asked \cup late

(* The last word for a peer is its last message, or is in the map when     *)
(* main has read that.                                                     *)
LastWordOK ==
  \A c \in lastWord :
    /\ About(Id[c]) = {} => (Id[c] \in interest <=> interested[c])
    /\ \A i \in About(Id[c]) : LastAbout(Id[c], i) => (interestCh[i][2] <=> interested[c])

(* Who is unchoked, or is going to be, has asked.                          *)
GrantOK ==
  \A c \in Running : ~choking[c] \/ list[c] = TRUE => Id[c] \in asked \cup late

(* The last list that main sent.                                           *)
Heard(S) ==
  \A c \in Running \ missed :
    /\ list[c] = Empty /\ ~choking[c] => Id[c] \in S
    /\ list[c] = TRUE => Id[c] \in S
SentOK == \E S \in SUBSET Peers : Cardinality(S) <= Slots /\ Heard(S)

IInv ==
  Typed /\ QuietOK /\ AddingOK /\ CrossedOK /\ BeliefOK /\ LastWordOK /\ GrantOK /\ SentOK

-----------------------------------------------------------------------------
(* The channel of interest.                                                *)

LEMMA SentInterest ==
  ASSUME Typed, NEW q \in Peers, NEW v \in BOOLEAN,
         interestCh' = Append(interestCh, <<q, v>>)
  PROVE  /\ interestCh' \in Seq(Peers \X BOOLEAN)
         /\ \A p \in Peers : p # q => About(p)' = About(p)
         /\ About(q)' = About(q) \cup {Len(interestCh) + 1}
         /\ \A i \in DOMAIN interestCh :
              i \in Nat /\ i < Len(interestCh) + 1 /\ interestCh'[i] = interestCh[i]
         /\ interestCh'[Len(interestCh) + 1] = <<q, v>>
<1>1. interestCh \in Seq(Peers \X BOOLEAN) /\ <<q, v>> \in Peers \X BOOLEAN
  BY DEF Typed
<1>2. /\ interestCh' \in Seq(Peers \X BOOLEAN)
      /\ Len(interestCh') = Len(interestCh) + 1 /\ Len(interestCh) \in Nat
      /\ \A i \in 1..Len(interestCh) : interestCh'[i] = interestCh[i]
      /\ interestCh'[Len(interestCh) + 1] = <<q, v>>
  BY <1>1, AppendProperties, LenProperties
<1>3. DOMAIN interestCh' = DOMAIN interestCh \cup {Len(interestCh) + 1}
  BY <1>1, <1>2, LenProperties
<1>4. DOMAIN interestCh = 1..Len(interestCh)
  BY <1>1, LenProperties
<1>5. Len(interestCh) + 1 \notin DOMAIN interestCh
  BY <1>2, <1>4
<1>6. \A p \in Peers : p # q => About(p)' = About(p)
  BY <1>2, <1>3, <1>4, <1>5 DEF About
<1>7. About(q)' = About(q) \cup {Len(interestCh) + 1}
  BY <1>2, <1>3, <1>4, <1>5 DEF About
<1> QED BY <1>2, <1>4, <1>6, <1>7

LEMMA ReadInterest ==
  ASSUME Typed, interestCh # <<>>, interestCh' = Tail(interestCh)
  PROVE  /\ interestCh' \in Seq(Peers \X BOOLEAN)
         /\ 1 \in DOMAIN interestCh
         /\ Head(interestCh) = interestCh[1] /\ Head(interestCh) \in Peers \X BOOLEAN
         /\ \A p : \A i : i \in About(p)' =>
              i \in Nat \ {0} /\ i + 1 \in About(p) /\ interestCh'[i] = interestCh[i + 1]
         /\ \A p : \A i \in About(p) :
              i \in Nat /\ (i = 1 \/ (i - 1 \in About(p)' /\ i - 1 < i))
<1>1. interestCh \in Seq(Peers \X BOOLEAN)
  BY DEF Typed
<1>2. /\ interestCh' \in Seq(Peers \X BOOLEAN) /\ Len(interestCh') = Len(interestCh) - 1
      /\ Head(interestCh) \in Peers \X BOOLEAN /\ Len(interestCh) \in Nat \ {0}
      /\ \A i \in 1..Len(interestCh') : interestCh'[i] = interestCh[i + 1]
  BY <1>1, HeadTailProperties, EmptySeq
<1>3. DOMAIN interestCh = 1..Len(interestCh) /\ DOMAIN interestCh' = 1..Len(interestCh')
  BY <1>1, <1>2, LenProperties
<1>4. Head(interestCh) = interestCh[1]
  BY <1>1
<1>5. ASSUME NEW p, NEW i, i \in About(p)'
      PROVE  i \in Nat \ {0} /\ i + 1 \in About(p) /\ interestCh'[i] = interestCh[i + 1]
  BY <1>2, <1>3, <1>5 DEF About
<1>6. ASSUME NEW p, NEW i \in About(p)
      PROVE  i \in Nat /\ (i = 1 \/ (i - 1 \in About(p)' /\ i - 1 < i))
  <2>1. i \in 1..Len(interestCh) /\ interestCh[i][1] = p
    BY <1>3 DEF About
  <2>2. CASE i # 1
    <3>1. i - 1 \in DOMAIN interestCh' /\ interestCh'[i - 1] = interestCh[(i - 1) + 1]
      BY <1>2, <1>3, <2>1, <2>2
    <3>2. (i - 1) + 1 = i
      BY <2>1
    <3> QED BY <2>1, <3>1, <3>2 DEF About
  <2> QED BY <2>1, <2>2
<1>7. 1 \in DOMAIN interestCh
  BY <1>2, <1>3
<1> QED BY <1>2, <1>4, <1>5, <1>6, <1>7

-----------------------------------------------------------------------------
(* Lists of peers to unchoke.                                              *)

(* Whichever branch chokeAlgorithm takes, its list fits the slots.         *)
LEMMA PicksFit ==
  ASSUME Typed, NEW S \in Picks
  PROVE  S \subseteq interest /\ S \subseteq Peers /\ Cardinality(S) <= Slots
<1>1. interest \subseteq Peers /\ IsFiniteSet(interest) /\ Cardinality(interest) \in Nat
  BY PeersAssumption, FS_Subset, FS_CardinalityType DEF Typed
<1>2. Givers \subseteq interest /\ IsFiniteSet(Givers) /\ Cardinality(Givers) \in Nat
  BY <1>1, FS_Subset, FS_CardinalityType DEF Givers
<1>3. Slots \in Nat \ {0}
  BY NumbersAssumption
<1>4. CASE FewerThanSlots
  BY <1>1, <1>3, <1>4 DEF Picks, FewerThanSlots
<1>5. CASE ~FewerThanSlots /\ Cardinality(Givers) < Slots
  BY <1>1, <1>2, <1>3, <1>5 DEF Picks
<1>6. CASE ~FewerThanSlots /\ ~(Cardinality(Givers) < Slots)
  <2>1. S \subseteq Givers /\ \E p \in S : MostGenerous(S \ {p})
    BY <1>6 DEF Picks
  <2>2. PICK p \in S : Cardinality(S \ {p}) = Slots - 1
    BY <2>1 DEF MostGenerous
  <2>3. IsFiniteSet(S) /\ Cardinality(S) \in Nat
    BY <1>2, <2>1, FS_Subset, FS_CardinalityType
  <2>4. Cardinality(S \ {p}) = Cardinality(S) - 1
    BY <2>3, FS_RemoveElement
  <2> QED BY <1>1, <1>2, <1>3, <2>1, <2>2, <2>3, <2>4
<1> QED BY <1>4, <1>5, <1>6

-----------------------------------------------------------------------------
(* The invariant: adding connections.                                      *)

LEMMA InitIInv == Init => IInv
<1> SUFFICES ASSUME Init PROVE IInv
  OBVIOUS
<1>1. Running = {}
  BY DEF Init, Running
<1>2. Typed
  BY EmptySeq DEF Init, Typed
<1>3. SentOK
  <2>1. Heard({}) /\ Cardinality({}) <= Slots
    BY <1>1, FS_EmptySet, NumbersAssumption DEF Heard
  <2> QED BY <2>1 DEF SentOK
<1> QED BY <1>1, <1>2, <1>3
  DEF IInv, Init, QuietOK, AddingOK, CrossedOK, BeliefOK, LastWordOK, GrantOK

LEMMA CheckIInv ==
  ASSUME IInv, NEW a \in Adders, NEW c \in Conns, Check(a, c)
  PROVE  IInv'
<1> USE DEF IInv
<1>1. /\ conn[c] = "none" /\ c \notin Range(adding)
      /\ \A d \in Twins(c) : conn[d] = "none"
      /\ adding' = [adding EXCEPT ![a] = c] /\ crossed' = crossed \ {c}
      /\ UNCHANGED <<conn, interested, choking, asked, list, interestCh, interest, late,
                      lastWord, missed>>
  BY DEF Check, Absent, goroutines, maps
<1>2. Typed'
  BY <1>1 DEF Typed
<1>3. AddingOK'
  <2>1. \A b \in Adders : adding[b] # c
    BY <1>1 DEF Range, Typed
  <2> QED BY <1>1, <2>1 DEF AddingOK, Typed
<1>4. CrossedOK'
  <2> SUFFICES ASSUME NEW x \in Conns, conn[x] # "none", NEW d \in Twins(x),
                      conn[d] # "none" \/ d \in Range(adding')
               PROVE  x \in crossed' /\ d \in crossed'
    BY <1>1 DEF CrossedOK, Twins
  <2>1. x # c
    BY <1>1
  <2>2. d # c
    BY <1>1 DEF Twins
  <2>3. d \in Range(adding') => d \in Range(adding)
    BY <1>1, <2>2 DEF Range, Typed
  <2> QED BY <1>1, <2>1, <2>2, <2>3 DEF CrossedOK
<1>5. QuietOK' /\ BeliefOK' /\ LastWordOK' /\ GrantOK' /\ SentOK'
  BY <1>1 DEF QuietOK, BeliefOK, LastWordOK, GrantOK, SentOK, Heard, Running, About, LastAbout
<1> QED BY <1>2, <1>3, <1>4, <1>5

(* The second half of an Add takes note of every Add that it crosses.      *)
LEMMA AddSlotIInv ==
  ASSUME IInv, NEW a \in Adders, AddSlot(a)
  PROVE  IInv'
<1> USE DEF IInv
<1> DEFINE c == adding[a]
<1>1. /\ c # NoConn /\ c \in Conns /\ conn[c] = "none"
      /\ adding' = [adding EXCEPT ![a] = NoConn] /\ conn' = [conn EXCEPT ![c] = "added"]
      /\ UNCHANGED <<interested, choking, asked, list, interestCh, interest, late, lastWord,
                      missed>>
  BY DEF AddSlot, goroutines, maps, AddingOK, Typed
<1>2. /\ crossed \subseteq crossed'
      /\ \A d \in Twins(c) : d \in Range(adding) => d \in crossed' /\ c \in crossed'
  BY DEF AddSlot
<1>3. \A b \in Adders : b # a => adding[b] # c
  BY <1>1 DEF AddingOK
<1>4. Typed'
  BY <1>1 DEF Typed
<1> HIDE DEF c
<1>5. AddingOK'
  BY <1>1, <1>3 DEF AddingOK, Typed
<1>6. CrossedOK'
  <2> SUFFICES ASSUME NEW x \in Conns, conn'[x] # "none", NEW d \in Twins(x),
                      conn'[d] # "none" \/ d \in Range(adding')
               PROVE  x \in crossed' /\ d \in crossed'
    BY DEF CrossedOK, Twins
  <2>1. d \in Conns /\ d # x /\ x \in Twins(d)
    BY DEF Twins
  <2>2. d \in Range(adding') => d \in Range(adding)
    BY <1>1, <2>1, ConnsAssumption DEF Range, Typed
  <2>3. c \in Range(adding)
    BY DEF c, Range, Typed
  <2>4. CASE x # c /\ d # c
    BY <1>1, <1>2, <2>1, <2>2, <2>4 DEF CrossedOK, Typed
  <2>5. CASE x = c
    <3>1. CASE conn[d] # "none"
      BY <1>2, <2>1, <2>3, <2>5, <3>1 DEF CrossedOK
    <3>2. CASE conn[d] = "none"
      BY <1>1, <1>2, <2>1, <2>2, <2>5, <3>2 DEF Typed
    <3> QED BY <3>1, <3>2
  <2>6. CASE d = c
    <3>1. conn[x] # "none"
      BY <1>1, <2>1, <2>6 DEF Typed
    <3> QED BY <1>2, <2>3, <2>6, <3>1 DEF CrossedOK
  <2> QED BY <2>4, <2>5, <2>6
<1>7. Running' = Running \cup {c} /\ choking[c] /\ list[c] = Empty /\ c \notin Running
  BY <1>1 DEF Running, Typed, QuietOK
<1>8. QuietOK'
  BY <1>1, <1>7 DEF QuietOK, Typed
<1>9. BeliefOK' /\ LastWordOK'
  BY <1>1 DEF BeliefOK, LastWordOK, About, LastAbout
<1>10. GrantOK'
  BY <1>1, <1>7, EmptyAssumption DEF GrantOK
<1>11. SentOK'
  <2>1. PICK S \in SUBSET Peers : Cardinality(S) <= Slots /\ Heard(S)
    BY DEF SentOK
  <2>2. Heard(S)'
    BY <1>1, <1>7, <2>1, EmptyAssumption DEF Heard
  <2> QED BY <2>1, <2>2 DEF SentOK
<1> QED BY <1>4, <1>5, <1>6, <1>8, <1>9, <1>10, <1>11

-----------------------------------------------------------------------------
(* The invariant: what goroutines do.                                      *)

LEMMA ShakeIInv ==
  ASSUME IInv, NEW c \in Conns, Shake(c)
  PROVE  IInv'
<1> USE DEF IInv
<1>1. /\ conn[c] = "added" /\ conn' = [conn EXCEPT ![c] = "open"]
      /\ UNCHANGED <<adding, crossed, interested, choking, asked, list, interestCh, interest,
                      late, lastWord, missed>>
  BY DEF Shake, goroutines, maps
<1>2. Running' = Running /\ \A d \in Conns : conn'[d] = "none" <=> conn[d] = "none"
  BY <1>1 DEF Running, Typed
<1>3. Typed' /\ QuietOK'
  BY <1>1, <1>2 DEF Typed, QuietOK
<1>4. AddingOK' /\ CrossedOK'
  BY <1>1, <1>2 DEF AddingOK, CrossedOK, Twins, Typed
<1>5. BeliefOK' /\ LastWordOK' /\ GrantOK' /\ SentOK'
  BY <1>1, <1>2 DEF BeliefOK, LastWordOK, GrantOK, SentOK, Heard, About, LastAbout
<1> QED BY <1>3, <1>4, <1>5

LEMMA EndIInv ==
  ASSUME IInv, NEW c \in Conns, End(c)
  PROVE  IInv'
<1> USE DEF IInv
<1>1. /\ conn[c] \in {"added", "open"}
      /\ conn' = [conn EXCEPT ![c] = IF @ = "added" THEN "failed" ELSE "ended"]
      /\ interested' = [interested EXCEPT ![c] = FALSE]
      /\ choking' = [choking EXCEPT ![c] = TRUE] /\ list' = [list EXCEPT ![c] = Empty]
      /\ lastWord' = lastWord \ {c} /\ missed' = missed \ {c}
      /\ UNCHANGED <<adding, crossed, asked, interestCh, interest, late>>
  BY DEF End, maps
<1>2. /\ Running' = Running \ {c}
      /\ \A d \in Conns : conn'[d] = "none" <=> conn[d] = "none"
      /\ \A d \in Conns : d # c => /\ conn'[d] = conn[d] /\ interested'[d] = interested[d]
                                   /\ choking'[d] = choking[d] /\ list'[d] = list[d]
      /\ conn'[c] # "open" /\ choking'[c] = TRUE /\ list'[c] = Empty
  BY <1>1 DEF Running, Typed
<1>3. Typed'
  BY <1>1 DEF Typed
<1>4. QuietOK'
  BY <1>1, <1>2 DEF QuietOK
<1>5. AddingOK' /\ CrossedOK'
  BY <1>1, <1>2 DEF AddingOK, CrossedOK, Twins, Typed
<1>6. BeliefOK' /\ GrantOK'
  BY <1>1, <1>2 DEF BeliefOK, GrantOK, Running
<1>7. LastWordOK'
  <2>1. \A d \in lastWord' : d \in lastWord /\ interested'[d] = interested[d]
    BY <1>1, <1>2 DEF Typed
  <2> QED BY <1>1, <2>1 DEF LastWordOK, About, LastAbout
<1>8. SentOK'
  <2>1. PICK S \in SUBSET Peers : Cardinality(S) <= Slots /\ Heard(S)
    BY DEF SentOK
  <2>2. Heard(S)'
    BY <1>1, <1>2, <2>1 DEF Heard, Running
  <2> QED BY <2>1, <2>2 DEF SentOK
<1> QED BY <1>3, <1>4, <1>5, <1>6, <1>7, <1>8

(* The message that was sent last is the last about its peer.              *)
LEMMA SayInterestIInv ==
  ASSUME IInv, NEW c \in Conns, NEW value \in BOOLEAN, SayInterest(c, value)
  PROVE  IInv'
<1> USE DEF IInv
<1>1. /\ conn[c] = "open" /\ interested' = [interested EXCEPT ![c] = value]
      /\ asked \subseteq asked' /\ lastWord' = (lastWord \ Twins(c)) \cup {c}
      /\ interestCh' = Append(interestCh, <<Id[c], value>>)
      /\ UNCHANGED <<conn, adding, crossed, choking, list, interest, late, missed>>
  BY DEF SayInterest, maps, pool
<1>2. Running' = Running /\ Id[c] \in Peers
  BY <1>1, ConnsAssumption DEF Running
<1>3. Typed'
  BY <1>1, <1>2, SentInterest DEF Typed
<1>4. QuietOK' /\ AddingOK' /\ CrossedOK' /\ BeliefOK' /\ GrantOK'
  BY <1>1, <1>2 DEF QuietOK, AddingOK, CrossedOK, BeliefOK, GrantOK
<1>5. LastWordOK'
  <2> SUFFICES ASSUME NEW d \in lastWord'
               PROVE  /\ About(Id[d])' = {} => (Id[d] \in interest <=> interested'[d])
                      /\ \A i \in About(Id[d])' : LastAbout(Id[d], i)' =>
                           (interestCh'[i][2] <=> interested'[d])
    BY <1>1 DEF LastWordOK
  <2>1. d \in Conns /\ Id[d] \in Peers
    BY <1>1, ConnsAssumption DEF Typed
  <2>2. CASE d # c
    <3>1. d \in lastWord /\ Id[d] # Id[c]
      BY <1>1, <2>1, <2>2 DEF Twins
    <3>2. About(Id[d])' = About(Id[d]) /\ interested'[d] = interested[d]
      BY <1>1, <1>2, <2>1, <2>2, <3>1, SentInterest DEF Typed
    <3>3. \A i \in About(Id[d]) : interestCh'[i] = interestCh[i]
      BY <1>1, <1>2, SentInterest DEF About
    <3> QED BY <3>1, <3>2, <3>3 DEF LastWordOK, LastAbout
  <2>3. CASE d = c
    <3>1. /\ About(Id[c])' = About(Id[c]) \cup {Len(interestCh) + 1}
          /\ interestCh'[Len(interestCh) + 1] = <<Id[c], value>> /\ interested'[c] = value
      BY <1>1, <1>2, SentInterest DEF Typed
    <3>2. \A i \in About(Id[c]) : i \in Nat /\ i < Len(interestCh) + 1
      BY <1>1, <1>2, SentInterest DEF About
    <3>3. Len(interestCh) \in Nat
      BY LenProperties DEF Typed
    <3>4. ASSUME NEW i \in About(Id[c])', LastAbout(Id[c], i)'
          PROVE  i = Len(interestCh) + 1
      <4>1. i \in About(Id[c])' /\ Len(interestCh) + 1 <= i
        BY <3>1, <3>4 DEF LastAbout
      <4> QED BY <3>1, <3>2, <3>3, <4>1
    <3> QED BY <2>3, <3>1, <3>4
  <2> QED BY <2>2, <2>3
<1>6. SentOK'
  BY <1>1, <1>2 DEF SentOK, Heard
<1> QED BY <1>3, <1>4, <1>5, <1>6

LEMMA ReadListIInv ==
  ASSUME IInv, NEW c \in Conns, ReadList(c)
  PROVE  IInv'
<1> USE DEF IInv
<1>1. /\ conn[c] = "open" /\ list[c] # Empty
      /\ choking' = [choking EXCEPT ![c] = ~list[c]] /\ list' = [list EXCEPT ![c] = Empty]
      /\ UNCHANGED <<conn, adding, crossed, interested, asked, interestCh, interest, late,
                      lastWord, missed>>
  BY DEF ReadList, maps, pool
<1>2. Running' = Running
  BY <1>1 DEF Running
<1>3. /\ \A d \in Conns : d # c => choking'[d] = choking[d] /\ list'[d] = list[d]
      /\ choking'[c] = (~list[c]) /\ list'[c] = Empty /\ list[c] \in BOOLEAN
  BY <1>1 DEF Typed
<1>4. Typed'
  BY <1>1 DEF Typed
<1>5. QuietOK'
  BY <1>1, <1>2, <1>3 DEF QuietOK
<1>6. AddingOK' /\ CrossedOK' /\ BeliefOK' /\ LastWordOK'
  BY <1>1 DEF AddingOK, CrossedOK, Twins, BeliefOK, LastWordOK, About, LastAbout
<1>7. GrantOK'
  BY <1>1, <1>2, <1>3, EmptyAssumption DEF GrantOK, Running
<1>8. SentOK'
  <2>1. PICK S \in SUBSET Peers : Cardinality(S) <= Slots /\ Heard(S)
    BY DEF SentOK
  <2>2. Heard(S)'
    BY <1>1, <1>2, <1>3, <2>1, EmptyAssumption DEF Heard, Running
  <2> QED BY <2>1, <2>2 DEF SentOK
<1> QED BY <1>4, <1>5, <1>6, <1>7, <1>8

-----------------------------------------------------------------------------
(* The invariant: what main does.                                          *)

(* Every iteration frees the slots of all ends, and of no live connection. *)
(* It forgets a peer that has another connection only if that one is       *)
(* crossed, and what was asked or heard late only with the last one.       *)
LEMMA EndIterationFacts ==
  ASSUME IInv, NEW I \in SUBSET Peers, NEW G, NEW L, EndIteration(I, G, L)
  PROVE  /\ conn' \in [Conns -> {"none", "added", "open", "failed", "ended"}]
         /\ Running' = Running
         /\ \A c \in Conns : conn[c] = "open" <=> conn'[c] = "open"
         /\ \A c \in Conns : conn'[c] # "none" => conn[c] # "none"
         /\ interest' \subseteq I /\ lastWord' \subseteq lastWord
         /\ \A c \in lastWord' : Id[c] \in interest' <=> Id[c] \in I
         /\ I \subseteq asked \cup L => interest' \subseteq asked' \cup late'
         /\ \A c \in Running : Id[c] \in asked \cup L => Id[c] \in asked' \cup late'
         /\ UNCHANGED <<adding, crossed, interested, choking>>
<1> USE DEF IInv
<1> DEFINE ended == {c \in Conns : conn[c] = "ended"}
           gone == {Id[c] : c \in ended}
           left == gone \ {Id[c] : c \in Running}
<1>1. /\ conn' = [c \in Conns |-> IF conn[c] \in {"failed", "ended"} THEN "none" ELSE conn[c]]
      /\ interest' = I \ gone /\ asked' = asked \ left /\ late' = L \ left
      /\ lastWord' = lastWord \ {c \in crossed : Twins(c) \cap ended # {}}
      /\ UNCHANGED <<adding, crossed, interested, choking>>
  BY DEF EndIteration
<1>2. /\ conn' \in [Conns -> {"none", "added", "open", "failed", "ended"}]
      /\ \A c \in Conns : conn[c] = "open" <=> conn'[c] = "open"
      /\ \A c \in Conns : conn[c] = "added" <=> conn'[c] = "added"
      /\ \A c \in Conns : conn'[c] # "none" => conn[c] # "none"
  BY <1>1 DEF Typed
<1>3. Running' = Running
  BY <1>2 DEF Running
<1>4. \A c \in lastWord' : Id[c] \in interest' <=> Id[c] \in I
  <2> SUFFICES ASSUME NEW c \in lastWord' PROVE Id[c] \notin gone
    BY <1>1
  <2>1. c \in Conns /\ c \in lastWord /\ conn[c] = "open"
    BY <1>1 DEF Typed, QuietOK
  <2>2. SUFFICES ASSUME NEW d \in Conns, conn[d] = "ended", Id[d] = Id[c] PROVE FALSE
    OBVIOUS
  <2>3. d \in Twins(c) /\ d \in ended
    BY <2>1, <2>2 DEF Twins
  <2>4. c \in crossed
    BY <2>1, <2>2, <2>3 DEF CrossedOK
  <2> QED BY <1>1, <2>3, <2>4
<1>5. left \subseteq gone /\ \A c \in Running : Id[c] \notin left
  OBVIOUS
<1> HIDE DEF ended, gone, left
<1>6. /\ interest' \subseteq I /\ lastWord' \subseteq lastWord
      /\ I \subseteq asked \cup L => interest' \subseteq asked' \cup late'
      /\ \A c \in Running : Id[c] \in asked \cup L => Id[c] \in asked' \cup late'
  BY <1>1, <1>5
<1> QED BY <1>1, <1>2, <1>3, <1>4, <1>6

(* The parts that no iteration of main disturbs.                           *)
LEMMA MainKeeps ==
  ASSUME IInv, NEW I \in SUBSET Peers, NEW G, NEW L, EndIteration(I, G, L),
         list' \in [Conns -> BOOLEAN \cup {Empty}],
         interestCh' \in Seq(Peers \X BOOLEAN),
         \A c \in Conns \ Running : list'[c] = Empty,
         I \subseteq asked \cup L
  PROVE  Typed' /\ QuietOK' /\ AddingOK' /\ CrossedOK' /\ BeliefOK'
<1>0. /\ conn' \in [Conns -> {"none", "added", "open", "failed", "ended"}]
      /\ Running' = Running
      /\ \A c \in Conns : conn[c] = "open" <=> conn'[c] = "open"
      /\ \A c \in Conns : conn'[c] # "none" => conn[c] # "none"
      /\ interest' \subseteq I /\ lastWord' \subseteq lastWord
      /\ I \subseteq asked \cup L => interest' \subseteq asked' \cup late'
      /\ UNCHANGED <<adding, crossed, interested, choking>>
  BY EndIterationFacts
<1> USE DEF IInv
<1>1. Typed'
  BY <1>0 DEF Typed
<1>2. QuietOK'
  BY <1>0 DEF QuietOK
<1>3. AddingOK'
  BY <1>0 DEF AddingOK, Typed
<1>4. CrossedOK'
  BY <1>0 DEF CrossedOK, Twins
<1>5. BeliefOK'
  BY <1>0 DEF BeliefOK
<1> QED BY <1>1, <1>2, <1>3, <1>4, <1>5

(* An iteration that reads no message of interest and sends no list.       *)
LEMMA IdleIInv ==
  ASSUME IInv, NEW G, EndIteration(interest, G, late), UNCHANGED <<list, missed, interestCh>>
  PROVE  IInv'
<1>1. interest \in SUBSET Peers
  BY DEF IInv, Typed
<1>2. Typed' /\ QuietOK' /\ AddingOK' /\ CrossedOK' /\ BeliefOK'
  BY <1>1, MainKeeps DEF IInv, Typed, QuietOK, BeliefOK
<1>3. /\ Running' = Running /\ lastWord' \subseteq lastWord
      /\ \A c \in lastWord' : Id[c] \in interest' <=> Id[c] \in interest
      /\ \A c \in Running : Id[c] \in asked \cup late => Id[c] \in asked' \cup late'
      /\ UNCHANGED <<interested, choking>>
  BY <1>1, EndIterationFacts
<1>4. LastWordOK' /\ GrantOK' /\ SentOK'
  BY <1>3 DEF IInv, LastWordOK, GrantOK, SentOK, Heard, About, LastAbout
<1> QED BY <1>2, <1>4 DEF IInv

LEMMA RecordInterestIInv == IInv /\ RecordInterest => IInv'
<1> SUFFICES ASSUME IInv, RecordInterest PROVE IInv'
  OBVIOUS
<1> USE DEF IInv
<1> DEFINE m == Head(interestCh)
           q == m[1]
           L == IF m[2] /\ q \notin asked THEN late \cup {q} ELSE late
<1>1. /\ interestCh # <<>> /\ interestCh' = Tail(interestCh)
      /\ EndIteration(NewInterest(m), generosity, L) /\ UNCHANGED <<list, missed>>
  BY DEF RecordInterest
<1>2. /\ m = interestCh[1] /\ m \in Peers \X BOOLEAN /\ 1 \in DOMAIN interestCh
      /\ interestCh' \in Seq(Peers \X BOOLEAN)
  BY <1>1, ReadInterest
<1>3. q \in Peers /\ m[2] \in BOOLEAN /\ interestCh[1][1] = q
  BY <1>2
<1>4. /\ NewInterest(m) \in SUBSET Peers
      /\ NewInterest(m) = IF m[2] THEN interest \cup {q} ELSE interest \ {q}
  BY <1>3 DEF NewInterest, Typed
<1>5. Typed' /\ QuietOK' /\ AddingOK' /\ CrossedOK' /\ BeliefOK'
  <2>1. NewInterest(m) \subseteq asked \cup L
    BY <1>4 DEF BeliefOK
  <2> HIDE DEF m, q, L
  <2> QED BY <1>1, <1>2, <1>4, <2>1, MainKeeps DEF Typed, QuietOK
<1>6. /\ Running' = Running /\ lastWord' \subseteq lastWord /\ UNCHANGED <<interested, choking>>
      /\ \A c \in lastWord' : Id[c] \in interest' <=> Id[c] \in NewInterest(m)
      /\ \A c \in Running : Id[c] \in asked \cup late => Id[c] \in asked' \cup late'
  <2>1. late \subseteq L
    OBVIOUS
  <2> HIDE DEF m, q, L, IInv
  <2>2. /\ Running' = Running /\ lastWord' \subseteq lastWord /\ UNCHANGED <<interested, choking>>
        /\ \A c \in lastWord' : Id[c] \in interest' <=> Id[c] \in NewInterest(m)
        /\ \A c \in Running : Id[c] \in asked \cup L => Id[c] \in asked' \cup late'
    BY <1>1, <1>4, EndIterationFacts
  <2> QED BY <2>1, <2>2
<1>7. LastWordOK'
  <2> HIDE DEF m, L
  <2> SUFFICES ASSUME NEW c \in lastWord', NEW p, p = Id[c]
               PROVE  /\ About(p)' = {} => (p \in interest' <=> interested[c])
                      /\ \A i \in About(p)' : LastAbout(p, i)' =>
                           (interestCh'[i][2] <=> interested[c])
    BY <1>6 DEF LastWordOK
  <2>0. /\ About(p) = {} => (p \in interest <=> interested[c])
        /\ \A i \in About(p) : LastAbout(p, i) => (interestCh[i][2] <=> interested[c])
        /\ p \in interest' <=> p \in NewInterest(m)
    BY <1>6 DEF LastWordOK
  <2>1. ASSUME About(p)' = {} PROVE p \in interest' <=> interested[c]
    <3>1. \A i \in About(p) : i = 1
      BY <1>1, <2>1, ReadInterest
    <3>2. CASE p = q
      <4>1. 1 \in About(p)
        BY <1>2, <1>3, <3>2 DEF About
      <4>2. LastAbout(p, 1)
        BY <3>1, <4>1 DEF LastAbout
      <4> QED BY <1>2, <1>4, <2>0, <3>2, <4>1, <4>2
    <3>3. CASE p # q
      <4>1. About(p) = {}
        BY <1>3, <3>1, <3>3 DEF About
      <4>2. p \in interest' <=> p \in interest
        BY <1>4, <2>0, <3>3
      <4> QED BY <2>0, <4>1, <4>2
    <3> QED BY <3>2, <3>3
  <2>2. ASSUME NEW i \in About(p)', LastAbout(p, i)'
        PROVE  interestCh'[i][2] <=> interested[c]
    <3>1. i \in Nat \ {0} /\ i + 1 \in About(p) /\ interestCh'[i] = interestCh[i + 1]
      BY <1>1, ReadInterest
    <3>2. \A j \in About(p) : j <= i + 1
      <4> SUFFICES ASSUME NEW j \in About(p) PROVE j <= i + 1
        OBVIOUS
      <4>1. j \in Nat /\ (j = 1 \/ j - 1 \in About(p)')
        BY <1>1, ReadInterest
      <4>2. j - 1 \in About(p)' => j - 1 <= i
        BY <2>2 DEF LastAbout
      <4> QED BY <3>1, <4>1, <4>2
    <3> QED BY <2>0, <3>1, <3>2 DEF LastAbout
  <2> QED BY <2>1, <2>2
<1>8. GrantOK' /\ SentOK'
  BY <1>1, <1>6 DEF GrantOK, SentOK, Heard
<1> QED BY <1>5, <1>7, <1>8

(* The list that main sends is heard by all but those that missed it.      *)
LEMMA TickIInv == IInv /\ Tick => IInv'
<1> SUFFICES ASSUME IInv, Tick PROVE IInv'
  OBVIOUS
<1> USE DEF IInv
<1>1. PICK S \in Picks :
        list' = [c \in Conns |->
                   IF c \in Hearers(S) /\ list[c] = Empty THEN Id[c] \in S ELSE list[c]]
  BY DEF Tick
<1>2. /\ EndIteration(interest, generosity, late) /\ UNCHANGED interestCh
      /\ missed' = {c \in Conns : list[c] # Empty}
  BY DEF Tick
<1>3. S \subseteq interest /\ S \in SUBSET Peers /\ Cardinality(S) <= Slots
  BY PicksFit
<1>4. interest \in SUBSET Peers
  BY DEF Typed
<1>5. /\ \A c \in Running :
           IF list[c] = Empty THEN list'[c] = (Id[c] \in S) ELSE list'[c] = list[c]
      /\ \A c \in Conns \ Running : list'[c] = list[c]
  BY <1>1 DEF Hearers, Running
<1>6. list' \in [Conns -> BOOLEAN \cup {Empty}]
  <2>1. \A c \in Conns : (Id[c] \in S) \in BOOLEAN
    OBVIOUS
  <2> QED BY <1>1, <2>1 DEF Typed
<1>7. Typed' /\ QuietOK' /\ AddingOK' /\ CrossedOK' /\ BeliefOK'
  BY <1>2, <1>4, <1>5, <1>6, MainKeeps DEF Typed, QuietOK, BeliefOK
<1>8. /\ Running' = Running /\ lastWord' \subseteq lastWord /\ UNCHANGED <<interested, choking>>
      /\ \A c \in lastWord' : Id[c] \in interest' <=> Id[c] \in interest
      /\ \A c \in Running : Id[c] \in asked \cup late => Id[c] \in asked' \cup late'
  <2> HIDE DEF IInv
  <2> QED BY <1>2, <1>4, EndIterationFacts
<1>9. LastWordOK'
  BY <1>2, <1>8 DEF LastWordOK, About, LastAbout
<1>10. GrantOK'
  <2> SUFFICES ASSUME NEW c \in Running, ~choking[c] \/ list'[c] = TRUE
               PROVE  Id[c] \in asked \cup late
    BY <1>8 DEF GrantOK
  <2>1. CASE ~choking[c] \/ list[c] = TRUE
    BY <2>1 DEF GrantOK
  <2>2. CASE list'[c] = TRUE /\ list[c] # TRUE
    <3>1. Id[c] \in interest
      BY <1>3, <1>5, <2>2
    <3> QED BY <3>1 DEF BeliefOK
  <2> QED BY <2>1, <2>2
<1>11. Heard(S)'
  <2> SUFFICES ASSUME NEW c \in Running, c \notin missed'
               PROVE  list'[c] # Empty /\ (list'[c] = TRUE => Id[c] \in S)
    BY <1>8 DEF Heard
  <2>1. list[c] = Empty
    BY <1>2 DEF Running
  <2>2. list'[c] = (Id[c] \in S)
    BY <1>5, <2>1
  <2>3. (Id[c] \in S) \in BOOLEAN
    OBVIOUS
  <2> QED BY <2>2, <2>3, EmptyAssumption
<1>12. SentOK'
  BY <1>3, <1>11 DEF SentOK
<1> QED BY <1>7, <1>9, <1>10, <1>12

LEMMA StepIInv == IInv /\ [Next]_vars => IInv'
<1> SUFFICES ASSUME IInv, [Next]_vars PROVE IInv'
  OBVIOUS
<1>1. CASE Main
  <2>1. CASE Wake
    BY <2>1, IdleIInv DEF Wake
  <2>2. ASSUME NEW p \in Peers, RecordPiece(p) PROVE IInv'
    BY <2>2, IdleIInv DEF RecordPiece
  <2> QED BY <1>1, <2>1, <2>2, RecordInterestIInv, TickIInv DEF Main
<1>2. ASSUME NEW a \in Adders, AddSlot(a) \/ \E c \in Conns : Check(a, c)
      PROVE  IInv'
  BY <1>2, AddSlotIInv, CheckIInv
<1>3. ASSUME NEW c \in Conns,
             \/ Shake(c) \/ ReadList(c) \/ End(c)
             \/ \E value \in BOOLEAN : SayInterest(c, value)
      PROVE  IInv'
  BY <1>3, ShakeIInv, ReadListIInv, EndIInv, SayInterestIInv
<1>4. CASE UNCHANGED vars
  BY <1>4 DEF vars, pool, goroutines, maps, IInv, Typed, QuietOK, AddingOK, CrossedOK, Twins,
     BeliefOK, LastWordOK, GrantOK, SentOK, Heard, Running, About, LastAbout
<1> QED BY <1>1, <1>2, <1>3, <1>4 DEF Next

LEMMA Invariance == Spec => []IInv
BY InitIInv, StepIInv, PTL DEF Spec

-----------------------------------------------------------------------------
(* Main's map says what the connection that spoke last for a peer said,    *)
(* when its messages have been read: whatever was overtaken by, or         *)
(* overtook, the end of an earlier connection of the same peer.  The end   *)
(* of a second connection takes this away only where two Adds crossed.     *)
THEOREM NothingForgotten == Spec => []InterestNotForgotten
<1>1. IInv => InterestNotForgotten
  <2> SUFFICES ASSUME IInv, NEW c \in Opened \cap lastWord, ~Pending(Id[c])
               PROVE  Id[c] \in interest <=> interested[c]
    BY DEF InterestNotForgotten
  <2>1. ASSUME NEW i \in About(Id[c]) PROVE FALSE
    <3>1. /\ i \in DOMAIN interestCh /\ interestCh[i] \in Peers \X BOOLEAN
          /\ interestCh[i][1] = Id[c]
      BY DEF About, IInv, Typed
    <3>2. interestCh[i][2] \in BOOLEAN /\ interestCh[i] = <<Id[c], interestCh[i][2]>>
      BY <3>1
    <3> QED BY <3>1, <3>2 DEF Pending, Range
  <2> QED BY <2>1 DEF IInv, LastWordOK
<1> QED BY <1>1, Invariance, PTL

(* An unchoked peer has said that it is interested since it last had no    *)
(* slot, or main heard of its interest after it had lost the slot.         *)
THEOREM OnlyThoseWhoAsked == Spec => []UnchokedHasAsked
<1>1. IInv => UnchokedHasAsked
  BY DEF IInv, GrantOK, UnchokedHasAsked, Opened, Running
<1> QED BY <1>1, Invariance, PTL

(* The connections that did not miss the last list and have read all they  *)
(* were sent belong to at most Slots peers that are unchoked.              *)
THEOREM SlotsSuffice == Spec => []SlotsRespected
<1>1. IInv => SlotsRespected
  <2> SUFFICES ASSUME IInv PROVE SlotsRespected
    OBVIOUS
  <2>1. PICK S \in SUBSET Peers : Cardinality(S) <= Slots /\ Heard(S)
    BY DEF IInv, SentOK
  <2> DEFINE D == {d \in Opened \ missed : ~choking[d] /\ list[d] = Empty}
             U == {Id[c] : c \in D}
  <2>2. U \subseteq S
    BY <2>1 DEF Heard, Opened, Running
  <2>3. IsFiniteSet(S) /\ Cardinality(S) \in Nat
    BY PeersAssumption, FS_Subset, FS_CardinalityType
  <2>4. IsFiniteSet(U) /\ Cardinality(U) <= Cardinality(S) /\ Cardinality(U) \in Nat
    BY <2>2, <2>3, FS_Subset, FS_CardinalityType
  <2> HIDE DEF U
  <2>5. Cardinality(U) <= Slots
    BY <2>1, <2>3, <2>4, NumbersAssumption
  <2> QED BY <2>5 DEF U, SlotsRespected
<1> QED BY <1>1, Invariance, PTL
=============================================================================
