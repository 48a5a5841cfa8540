---------------------------- MODULE TrackerProofs ---------------------------
(***************************************************************************)
(* Proofs about Tracker, for any set of announce-lists of any length.      *)
(***************************************************************************)
EXTENDS Tracker, TLAPS, WellFoundedInduction

(* A set of naturals has a least element.                                  *)
LEMMA LeastNatural ==
  ASSUME NEW S, S \subseteq Nat, S # {}
  PROVE  \E m \in S : \A n \in S : m <= n
<1>1. PICK m \in S : \A n \in S : <<n, m>> \notin OpToRel(<, Nat)
  BY NatLessThanWellFounded, WFMin
<1>2. ASSUME NEW n \in S PROVE ~(n < m)
  <2>1. <<n, m>> \in Nat \X Nat /\ <<n, m>>[1] = n /\ <<n, m>>[2] = m
    OBVIOUS
  <2> QED BY <1>1, <2>1 DEF OpToRel
<1> QED BY <1>2

(* Of trackers that can be asked there is a first one.                     *)
LEMMA FirstExists ==
  ASSUME NEW S, S \subseteq Nat \X Nat, S # {}
  PROVE  /\ First(S) \in S
         /\ \A y \in S : First(S) = y \/ Before(First(S), y)
<1> DEFINE Tiers == {x[1] : x \in S}
<1>1. PICK i \in Tiers : \A k \in Tiers : i <= k
  <2>1. Tiers \subseteq Nat /\ Tiers # {}
    OBVIOUS
  <2> HIDE DEF Tiers
  <2> QED BY <2>1, LeastNatural
<1> DEFINE Places == {x[2] : x \in {y \in S : y[1] = i}}
<1>2. PICK t \in Places : \A k \in Places : t <= k
  <2>1. Places \subseteq Nat /\ Places # {}
    BY <1>1
  <2> HIDE DEF Places
  <2> QED BY <2>1, LeastNatural
<1>3. PICK x \in S : x[1] = i /\ x[2] = t
  BY <1>2
<1>4. ASSUME NEW y \in S PROVE x = y \/ Before(x, y)
  <2>1. y[1] \in Nat /\ y[2] \in Nat /\ x[1] \in Nat /\ x[2] \in Nat
    OBVIOUS
  <2>2. i <= y[1] /\ (y[1] = i => t <= y[2])
    BY <1>1, <1>2
  <2>3. x = <<x[1], x[2]>> /\ y = <<y[1], y[2]>>
    OBVIOUS
  <2> QED BY <1>3, <2>1, <2>2, <2>3 DEF Before
<1> QED BY <1>3, <1>4 DEF First

-----------------------------------------------------------------------------
(* The inductive invariant.  All that was asked lies at or before the      *)
(* place where the search goes on, and before the tracker being asked.     *)

Indexes(s) == DOMAIN s \subseteq Nat \ {0}
ListOK == Indexes(list) /\ \A i \in DOMAIN list : Indexes(list[i])

UpTo(x) == x[1] < tier \/ (x[1] = tier /\ x[2] <= tierPos)

WalkOK ==
  /\ tier \in Nat /\ tierPos \in Int /\ -1 <= tierPos
  /\ phase = "find" => \A i \in DOMAIN asked : UpTo(asked[i])
  /\ phase = "ask" =>
       /\ tracker \in Nat \X Nat
       /\ \A i \in DOMAIN asked : asked[i] = tracker \/ Before(asked[i], tracker)

IInv ==
  /\ ListOK
  /\ asked \in Seq(Nat \X Nat)
  /\ AskedInOrder
  /\ IF list = <<>> THEN asked = <<>> ELSE WalkOK

LEMMA InitIInv == Init => IInv
<1> SUFFICES ASSUME Init PROVE IInv
  OBVIOUS
<1>1. PICK l \in AnnounceLists :
        /\ list \in [DOMAIN l -> UNION {Shuffles(l[i]) : i \in DOMAIN l}]
        /\ \A i \in DOMAIN l : list[i] \in Shuffles(l[i])
  BY DEF Init
<1>2. l \in Seq(Seq(Schemes))
  BY ListsAssumption
<1>3. \A i \in DOMAIN l : DOMAIN list[i] = DOMAIN l[i]
  BY <1>1 DEF Shuffles
<1>4. ListOK
  <2>1. DOMAIN list = DOMAIN l
    BY <1>1
  <2>2. /\ DOMAIN l = 1..Len(l) /\ Len(l) \in Nat
        /\ \A i \in DOMAIN l : l[i] \in Seq(Schemes)
    BY <1>2
  <2>3. \A s \in Seq(Schemes) : DOMAIN s = 1..Len(s) /\ Len(s) \in Nat
    OBVIOUS
  <2>4. \A i \in DOMAIN list : DOMAIN list[i] \subseteq Nat \ {0}
    BY <1>3, <2>1, <2>2, <2>3
  <2> QED BY <2>1, <2>2, <2>4 DEF ListOK, Indexes
<1>5. asked = <<>> /\ AskedInOrder
  BY DEF Init, AskedInOrder
<1>6. asked \in Seq(Nat \X Nat)
  BY <1>5
<1>7. WalkOK
  BY <1>5 DEF Init, WalkOK
<1> QED BY <1>4, <1>5, <1>6, <1>7 DEF IInv

LEMMA SupportedPlaces == ListOK => Supported \subseteq Nat \X Nat
BY DEF ListOK, Indexes, Supported

(* The tracker that is asked next comes after all that were asked.         *)
LEMMA FindTrackerIInv == IInv /\ FindTracker => IInv'
<1> SUFFICES ASSUME IInv, FindTracker PROVE IInv'
  OBVIOUS
<1>1. ListOK'
  BY DEF IInv, ListOK, FindTracker
<1>2. CASE list = <<>>
  <2>1. Candidates = {}
    BY <1>2 DEF Candidates, Supported
  <2>2. UNCHANGED <<asked, list>>
    BY <2>1 DEF FindTracker
  <2> QED BY <1>1, <1>2, <2>2 DEF IInv, AskedInOrder, Before
<1>3. CASE list # <<>>
  <2>1. Candidates # {} /\ tracker' = First(Candidates) /\ asked' = Append(asked, tracker')
        /\ phase = "find" /\ phase' = "ask" /\ UNCHANGED <<list, tier, tierPos>>
    BY <1>3 DEF FindTracker
  <2>2. tracker' \in Candidates /\ tracker' \in Nat \X Nat
    <3>1. Candidates \subseteq Nat \X Nat
      BY SupportedPlaces DEF IInv, Candidates
    <3> QED BY <2>1, <3>1, FirstExists
  <2>3. tracker'[1] >= tier /\ (tracker'[1] = tier => tracker'[2] >= tierPos + 1)
    BY <2>2 DEF Candidates, Start
  <2>4. ASSUME NEW i \in DOMAIN asked PROVE Before(asked[i], tracker')
    <3>1. UpTo(asked[i]) /\ asked[i] \in Nat \X Nat /\ tier \in Nat /\ tierPos \in Int
      BY <1>3, <2>1 DEF IInv, WalkOK
    <3> QED BY <2>2, <2>3, <3>1 DEF UpTo, Before
  <2>5. /\ asked' \in Seq(Nat \X Nat)
        /\ DOMAIN asked' = 1..(Len(asked) + 1) /\ DOMAIN asked = 1..Len(asked)
        /\ \A i \in DOMAIN asked : asked'[i] = asked[i]
        /\ asked'[Len(asked) + 1] = tracker'
        /\ Len(asked) \in Nat
    BY <2>1, <2>2 DEF IInv
  <2>6. AskedInOrder'
    <3> SUFFICES ASSUME NEW i \in DOMAIN asked', NEW j \in DOMAIN asked', i < j
                 PROVE  Before(asked'[i], asked'[j])
      BY DEF AskedInOrder, Before
    <3>1. i \in DOMAIN asked /\ (j \in DOMAIN asked \/ j = Len(asked) + 1)
      BY <2>5
    <3> QED BY <2>4, <2>5, <3>1 DEF IInv, AskedInOrder
  <2>7. WalkOK'
    <3>1. ASSUME NEW i \in DOMAIN asked'
          PROVE  asked'[i] = tracker' \/ Before(asked'[i], tracker')
      <4>1. i \in DOMAIN asked \/ i = Len(asked) + 1
        BY <2>5
      <4>2. CASE i \in DOMAIN asked
        <5>1. asked'[i] = asked[i]
          BY <2>5, <4>2
        <5> QED BY <2>4, <4>2, <5>1
      <4>3. CASE i = Len(asked) + 1
        BY <2>5, <4>3
      <4> QED BY <4>1, <4>2, <4>3
    <3> QED BY <1>3, <2>1, <2>2, <3>1 DEF IInv, WalkOK, Before
  <2> QED BY <1>1, <1>3, <2>1, <2>5, <2>6, <2>7 DEF IInv
<1> QED BY <1>2, <1>3

(* A tracker that failed is not passed by the place where the search goes  *)
(* on, which may lie further behind it than the next one.                  *)
LEMMA GetPeersFailsIInv == IInv /\ GetPeersFails => IInv'
<1> SUFFICES ASSUME IInv, GetPeersFails PROVE IInv'
  OBVIOUS
<1>1. UNCHANGED <<list, asked>> /\ ListOK' /\ AskedInOrder' /\ asked' \in Seq(Nat \X Nat)
  BY DEF IInv, ListOK, Indexes, AskedInOrder, Before, GetPeersFails
<1>2. CASE list = <<>>
  BY <1>1, <1>2 DEF IInv
<1>3. CASE list # <<>>
  <2>1. /\ tracker \in Nat \X Nat /\ tierPos \in Int /\ -1 <= tierPos
        /\ tier' = tracker[1] /\ tierPos' = tierPos + tracker[2] + 1
        /\ phase' = "find"
    BY <1>3 DEF IInv, WalkOK, GetPeersFails, NextPos
  <2>2. tier' \in Nat /\ tierPos' \in Int /\ tracker[2] <= tierPos'
    BY <2>1
  <2>3. ASSUME NEW i \in DOMAIN asked
        PROVE  asked[i][1] < tier' \/ (asked[i][1] = tier' /\ asked[i][2] <= tierPos')
    <3>1. asked[i] = tracker \/ Before(asked[i], tracker)
      BY <1>1, <1>3 DEF IInv, WalkOK, GetPeersFails
    <3>2. asked[i] \in Nat \X Nat
      BY <1>1 DEF IInv
    <3> QED BY <2>1, <2>2, <3>1, <3>2 DEF Before
  <2>4. WalkOK'
    BY <1>1, <2>1, <2>2, <2>3 DEF WalkOK, UpTo
  <2> QED BY <1>1, <1>3, <2>4 DEF IInv
<1> QED BY <1>2, <1>3

LEMMA StepIInv == IInv /\ [Next]_vars => IInv'
<1> SUFFICES ASSUME IInv, [Next]_vars PROVE IInv'
  OBVIOUS
<1>1. CASE FindTracker
  BY <1>1, FindTrackerIInv
<1>2. CASE GetPeersFails
  BY <1>2, GetPeersFailsIInv
<1>3. CASE NoTracker \/ GotPeers
  <2>1. UNCHANGED <<list, tier, tierPos, tracker, asked>> /\ phase' \in {"exited", "running"}
    BY <1>3 DEF NoTracker, GotPeers
  <2> QED BY <2>1 DEF IInv, ListOK, Indexes, AskedInOrder, Before, WalkOK
<1>4. CASE UpdateFails
  <2>1. UNCHANGED list /\ phase' = "find" /\ tier' = 0 /\ tierPos' = -1 /\ asked' = <<>>
    BY <1>4 DEF UpdateFails, WalkAnew
  <2> QED BY <2>1 DEF IInv, ListOK, Indexes, AskedInOrder, Before, WalkOK
<1>5. CASE UNCHANGED vars
  BY <1>5 DEF vars, IInv, ListOK, Indexes, AskedInOrder, Before, WalkOK, UpTo
<1> QED BY <1>1, <1>2, <1>3, <1>4, <1>5 DEF Next, Walk

-----------------------------------------------------------------------------
(* A walk goes forwards and asks no tracker twice, whatever the lengths of *)
(* the list and of its tiers, wherever its positions jump.                 *)
THEOREM ForwardsOnly == Spec => []AskedInOrder
<1>1. IInv => AskedInOrder
  BY DEF IInv
<1> QED BY <1>1, InitIInv, StepIInv, PTL DEF Spec

-----------------------------------------------------------------------------
(* Tiers in turn.  A tier is through when its first tracker was asked.  It *)
(* is once a tracker of it, or of a later one, is; when a tracker fails,   *)
(* the search goes on in a tier that is through.                           *)

Turned(i) == InTier(i) # {} => First(InTier(i)) \in Range(asked)

TurnsOK ==
  /\ phase = "find" =>
       \A i \in Nat : i < tier \/ (i = tier /\ tierPos # -1) => Turned(i)
  /\ phase = "ask" => \A i \in Nat : i <= tracker[1] => Turned(i)
  /\ phase = "exited" => \A i \in Nat : Turned(i)
  /\ \A i \in Nat : (\E x \in Range(asked) : x[1] > i) => Turned(i)

TInv == IInv /\ (list # <<>> => TurnsOK)

LEMMA InitTInv == Init => TInv
<1> SUFFICES ASSUME Init PROVE TurnsOK
  BY InitIInv DEF TInv
<1>1. phase = "find" /\ tier = 0 /\ tierPos = -1 /\ Range(asked) = {}
  BY DEF Init, Range
<1> QED BY <1>1 DEF TurnsOK

(* Where the search has not been, it passes no tracker that can be asked.  *)
LEMMA Untouched ==
  ASSUME IInv, list # <<>>, NEW i \in Nat, i >= tier, i = tier => tierPos = -1
  PROVE  InTier(i) \subseteq Candidates
<1>1. Supported \subseteq Nat \X Nat
  BY SupportedPlaces DEF IInv
<1>2. Start(i) = 0
  BY DEF Start
<1> QED BY <1>1, <1>2 DEF InTier, Candidates

(* What is asked before is still asked afterwards.                         *)
LEMMA StaysTurned ==
  ASSUME UNCHANGED list, Range(asked) \subseteq Range(asked'), NEW i, Turned(i)
  PROVE  Turned(i)'
BY DEF Turned, InTier, Supported

LEMMA FindTrackerTurns ==
  ASSUME TInv, FindTracker, list # <<>>
  PROVE  TurnsOK'
<1>1. /\ Candidates # {} /\ tracker' = First(Candidates)
      /\ asked' = Append(asked, tracker')
      /\ phase = "find" /\ phase' = "ask" /\ UNCHANGED <<list, tier, tierPos>>
  BY DEF FindTracker
<1>2. Candidates \subseteq Supported /\ Supported \subseteq Nat \X Nat
  BY SupportedPlaces DEF TInv, IInv, Candidates
<1>3. /\ tracker' \in Candidates /\ tracker' \in Nat \X Nat
      /\ \A y \in Candidates : tracker' = y \/ Before(tracker', y)
  BY <1>1, <1>2, FirstExists
<1>4. Range(asked') = Range(asked) \cup {tracker'}
  <2>1. asked \in Seq(Nat \X Nat)
    BY DEF TInv, IInv
  <2>2. /\ DOMAIN asked = 1..Len(asked) /\ DOMAIN asked' = 1..(Len(asked) + 1)
        /\ Len(asked) \in Nat
        /\ \A k \in 1..Len(asked) : asked'[k] = asked[k]
        /\ asked'[Len(asked) + 1] = tracker'
    BY <1>1, <1>3, <2>1
  <2> QED BY <2>2 DEF Range
<1>5. ASSUME NEW i \in Nat, i <= tracker'[1] PROVE Turned(i)'
  <2>1. tier \in Nat
    BY DEF TInv, IInv, WalkOK
  <2>2. CASE i < tier \/ (i = tier /\ tierPos # -1)
    <3>1. Turned(i)
      BY <1>1, <2>2 DEF TInv, TurnsOK
    <3> QED BY <1>1, <1>4, <3>1, StaysTurned
  <2>3. CASE i >= tier /\ (i = tier => tierPos = -1)
    <3>1. InTier(i) \subseteq Candidates
      BY <2>3, Untouched DEF TInv
    <3>2. InTier(i)' = InTier(i)
      BY <1>1 DEF InTier, Supported
    <3>3. CASE i < tracker'[1]
      <4>1. ASSUME NEW y \in InTier(i) PROVE FALSE
        <5>1. y[1] = i /\ y \in Nat \X Nat /\ (tracker' = y \/ Before(tracker', y))
          BY <1>2, <1>3, <3>1 DEF InTier
        <5> QED BY <1>3, <3>3, <5>1 DEF Before
      <4> QED BY <3>2, <4>1 DEF Turned
    <3>4. CASE i = tracker'[1]
      <4>1. tracker' \in InTier(i) /\ InTier(i) \subseteq Nat \X Nat
        BY <1>2, <1>3, <3>4 DEF InTier
      <4>2. /\ First(InTier(i)) \in InTier(i)
            /\ \A y \in InTier(i) : First(InTier(i)) = y \/ Before(First(InTier(i)), y)
        BY <4>1, FirstExists
      <4> DEFINE f == First(InTier(i))
      <4>3. f \in Nat \X Nat /\ (f = tracker' \/ Before(f, tracker'))
        BY <4>1, <4>2
      <4>4. tracker' = f \/ Before(tracker', f)
        BY <1>3, <3>1, <4>2
      <4> HIDE DEF f
      <4>5. f = tracker'
        BY <1>3, <4>3, <4>4 DEF Before
      <4>6. First(InTier(i)) \in Range(asked')
        BY <1>4, <4>5 DEF f
      <4> QED BY <3>2, <4>6 DEF Turned
    <3> QED BY <1>3, <1>5, <3>3, <3>4
  <2> QED BY <2>1, <2>2, <2>3
<1>6. ASSUME NEW i \in Nat, NEW x \in Range(asked'), x[1] > i PROVE Turned(i)'
  <2>1. CASE x = tracker'
    BY <1>3, <1>5, <1>6, <2>1
  <2>2. CASE x \in Range(asked)
    <3>1. Turned(i)
      BY <1>6, <2>2 DEF TInv, TurnsOK
    <3> QED BY <1>1, <1>4, <3>1, StaysTurned
  <2> QED BY <1>4, <2>1, <2>2
<1> QED BY <1>1, <1>5, <1>6 DEF TurnsOK

(* The client gives up only when it has passed all tiers.                  *)
LEMMA NoTrackerTurns ==
  ASSUME TInv, NoTracker, list # <<>>
  PROVE  TurnsOK'
<1>1. /\ Candidates = {} /\ phase = "find" /\ phase' = "exited"
      /\ UNCHANGED <<list, tier, tierPos, tracker, asked>>
  BY DEF NoTracker, NoneLeft
<1>2. tier \in Nat
  BY DEF TInv, IInv, WalkOK
<1>3. ASSUME NEW i \in Nat PROVE Turned(i)
  <2>1. CASE i < tier \/ (i = tier /\ tierPos # -1)
    BY <1>1, <2>1 DEF TInv, TurnsOK
  <2>2. CASE i >= tier /\ (i = tier => tierPos = -1)
    <3>1. InTier(i) = {}
      BY <1>1, <2>2, Untouched DEF TInv
    <3> QED BY <3>1 DEF Turned
  <2> QED BY <1>2, <2>1, <2>2
<1>4. \A i \in Nat : Turned(i)'
  BY <1>1, <1>3, StaysTurned
<1> QED BY <1>1, <1>4 DEF TurnsOK

LEMMA StepTInv == TInv /\ [Next]_vars => TInv'
<1> SUFFICES ASSUME TInv, [Next]_vars, list' # <<>> PROVE TurnsOK'
  BY StepIInv DEF TInv
<1>1. UNCHANGED list /\ list # <<>>
  BY DEF Next, Walk, FindTracker, NoTracker, GotPeers, GetPeersFails, UpdateFails, vars
<1>2. TurnsOK
  BY <1>1 DEF TInv
<1>3. ASSUME UNCHANGED asked, NEW i, Turned(i) PROVE Turned(i)'
  BY <1>1, <1>3, StaysTurned
<1>4. ASSUME UNCHANGED asked
      PROVE  \A i \in Nat : (\E x \in Range(asked') : x[1] > i) => Turned(i)'
  BY <1>2, <1>3, <1>4 DEF TurnsOK
<1>5. CASE FindTracker
  BY <1>1, <1>5, FindTrackerTurns
<1>6. CASE NoTracker
  BY <1>1, <1>6, NoTrackerTurns
<1>7. CASE GotPeers
  <2>1. phase' = "running" /\ UNCHANGED asked
    BY <1>7 DEF GotPeers
  <2> QED BY <1>4, <2>1 DEF TurnsOK
<1>8. CASE GetPeersFails
  <2>1. phase = "ask" /\ phase' = "find" /\ tier' = tracker[1] /\ UNCHANGED asked
    BY <1>8 DEF GetPeersFails
  <2>2. tracker[1] \in Nat
    BY <1>1, <2>1 DEF TInv, IInv, WalkOK
  <2>3. \A i \in Nat : i <= tier' => Turned(i)'
    BY <1>2, <1>3, <2>1 DEF TurnsOK
  <2> QED BY <1>4, <2>1, <2>2, <2>3 DEF TurnsOK
<1>9. CASE UpdateFails
  <2>1. phase' = "find" /\ tier' = 0 /\ tierPos' = -1 /\ Range(asked') = {}
    BY <1>9 DEF UpdateFails, WalkAnew, Range
  <2> QED BY <2>1 DEF TurnsOK
<1>10. CASE UNCHANGED vars
  <2>1. UNCHANGED <<phase, tier, tierPos, tracker, asked>>
    BY <1>10 DEF vars
  <2> QED BY <1>2, <1>3, <1>4, <2>1 DEF TurnsOK
<1> QED BY <1>5, <1>6, <1>7, <1>8, <1>9, <1>10 DEF Next, Walk

(* Whatever the positions of a walk jump over, they jump over no tier: the *)
(* first tracker of every tier gets its chance before a later tier does,   *)
(* and before the client gives up.                                         *)
THEOREM NoTierPassedOver == Spec => []TiersInTurn
<1>1. TInv => TiersInTurn
  <2> SUFFICES ASSUME TInv, NEW i \in 0..(Len(list) - 1), InTier(i) # {},
                      phase = "exited" \/ \E x \in Range(asked) : x[1] > i
               PROVE  First(InTier(i)) \in Range(asked)
    BY DEF TiersInTurn
  <2>1. list # <<>>
    BY DEF InTier, Supported
  <2>2. i \in Nat
    <3>1. Supported \subseteq Nat \X Nat
      BY SupportedPlaces DEF TInv, IInv
    <3> QED BY <3>1 DEF InTier
  <2>3. Turned(i)
    BY <2>1, <2>2 DEF TInv, TurnsOK
  <2> QED BY <2>3 DEF Turned
<1> QED BY <1>1, InitTInv, StepTInv, PTL DEF Spec
=============================================================================
