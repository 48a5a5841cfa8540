------------------------ MODULE ConnectionPoolProofs ------------------------
(***************************************************************************)
(* What always holds of the pool, for any number of hosts and connections  *)
(* and any limit.  A connection passes through four places: the hands of   *)
(* the thread that adds it, a running goroutine, the channel of ended      *)
(* connections, and the list that main removes from; it has a slot from    *)
(* the end of its Add to its removal.  The dialler's limit survives the    *)
(* unlocked reads since only main dials and only main makes room.          *)
(***************************************************************************)
EXTENDS ConnectionPool, TLAPS, FiniteSetTheorems, SequenceTheorems

Adding == {"check", "append", "spawn"}
AtHost == {"dial"} \cup Adding
Launching == {"consider"} \cup AtHost

(* The connections that have a goroutine, or had one and wait for main.    *)
Live == running \cup Range(ended) \cup Range(toRemove)

(* The connections in the slice.                                           *)
Occupied == {memory[cap][i] : i \in 1..len}
Spawned == {conn[t] : t \in {u \in Threads : pc[u] = "spawn"}}

Typed ==
  /\ cap \in Capacities /\ len \in 0..cap
  /\ DOMAIN memory = Capacities
  /\ \A k \in Capacities : memory[k] \in [1..k -> Ids \cup {NoId}]
  /\ pc \in [Threads -> {"select", "drain", "remove", "count", "accept", "panicked"} \cup Launching]
  /\ conn \in [Threads -> Ids \cup {NoId}]
  /\ DOMAIN pointer = Threads
  /\ \A t \in Threads : pc[t] = "spawn" =>
       pointer[t][1] \in Capacities /\ pointer[t][2] \in 1..pointer[t][1]
  /\ blacklist \subseteq IPs /\ outgoing \subseteq Ids /\ running \subseteq Ids
  /\ channel \in [Ids -> Ids \cup {NoId}]
  /\ ended \in Seq(Ids) /\ toRemove \in Seq(Ids)

(* Every connection is in one place, and has one slot or is being added.   *)
SlotsOK ==
  /\ \A i, j \in 1..len : memory[cap][i] = memory[cap][j] => i = j
  /\ Occupied = Live \cup Spawned
ThreadOK(t) ==
  IF pc[t] \in Adding THEN conn[t] \in Ids \ Live ELSE conn[t] = NoId
PlacesOK ==
  /\ IsInjective(ended) /\ IsInjective(toRemove)
  /\ running \cap Range(ended) = {} /\ running \cap Range(toRemove) = {}
  /\ Range(ended) \cap Range(toRemove) = {}
  /\ \A t \in Threads : ThreadOK(t)
  /\ conn["main"] = conn["listener"] => conn["main"] = NoId

(* What main may still dial fits the limit, whatever happened to the       *)
(* length of the slice since it was read.                                  *)
LimitOK ==
  LET dialled == Cardinality(outgoing) IN
  /\ outgoing \subseteq Live
  /\ dialled <= MaximumDownloaders
  /\ pc["main"] \in Launching \cup {"count"} =>
       /\ dialled < MaximumDownloaders
       /\ dialled + launch.requested - launch.launched <= MaximumDownloaders
       /\ launch.launched = 0 \/ launch.launched < launch.requested

LaunchOK ==
  /\ launch \in [requested : (-Cardinality(Ids))..MaximumDownloaders,
                 launched : 0..MaximumDownloaders, at : 1..(Len(Tracker) + 1)]
  /\ pc["main"] \in AtHost => launch.at <= Len(Tracker)
  /\ pc["main"] = "count" => launch.launched = 0

IInv == Typed /\ SlotsOK /\ PlacesOK /\ LimitOK /\ LaunchOK

-----------------------------------------------------------------------------
(* Sequences without repetition.                                           *)

LEMMA AppendNew ==
  ASSUME NEW S, NEW s \in Seq(S), NEW e \in S
  PROVE  /\ Append(s, e) \in Seq(S)
         /\ Len(Append(s, e)) = Len(s) + 1
         /\ Range(Append(s, e)) = Range(s) \cup {e}
         /\ IsInjective(s) /\ e \notin Range(s) => IsInjective(Append(s, e))
<1>1. /\ Append(s, e) \in Seq(S) /\ Len(Append(s, e)) = Len(s) + 1
      /\ Len(s) \in Nat /\ DOMAIN s = 1..Len(s)
      /\ DOMAIN Append(s, e) = 1..(Len(s) + 1)
      /\ \A i \in 1..Len(s) : Append(s, e)[i] = s[i]
      /\ Append(s, e)[Len(s) + 1] = e
  BY LenProperties
<1>2. Range(Append(s, e)) = Range(s) \cup {e}
  <2>1. \A x \in Range(s) \cup {e} : x \in Range(Append(s, e))
    BY <1>1 DEF Range
  <2>2. \A x \in Range(Append(s, e)) : x \in Range(s) \cup {e}
    BY <1>1 DEF Range
  <2> QED BY <2>1, <2>2
<1>3. ASSUME IsInjective(s), e \notin Range(s)
      PROVE  IsInjective(Append(s, e))
  BY <1>1, <1>3 DEF IsInjective, Range
<1> QED BY <1>1, <1>2, <1>3

LEMMA TailDistinct ==
  ASSUME NEW S, NEW s \in Seq(S), s # <<>>, IsInjective(s)
  PROVE  /\ Head(s) \in Range(s) /\ Head(s) \in S
         /\ Tail(s) \in Seq(S)
         /\ Len(Tail(s)) = Len(s) - 1
         /\ Range(Tail(s)) = Range(s) \ {Head(s)}
         /\ IsInjective(Tail(s))
<1>1. /\ Tail(s) \in Seq(S) /\ Len(Tail(s)) = Len(s) - 1
      /\ Len(s) \in Nat \ {0} /\ DOMAIN s = 1..Len(s)
      /\ DOMAIN Tail(s) = 1..(Len(s) - 1)
      /\ \A i \in 1..(Len(s) - 1) : Tail(s)[i] = s[i + 1]
      /\ Head(s) = s[1] /\ Head(s) \in S
  BY HeadTailProperties, LenProperties, EmptySeq
<1>2. Head(s) \in Range(s)
  BY <1>1 DEF Range
<1>3. \A x \in Range(Tail(s)) : x \in Range(s) \ {Head(s)}
  BY <1>1 DEF Range, IsInjective
<1>4. ASSUME NEW x \in Range(s) \ {Head(s)} PROVE x \in Range(Tail(s))
  <2>1. PICK i \in 1..Len(s) : x = s[i] /\ i # 1
    BY <1>1, <1>4 DEF Range
  <2>2. i - 1 \in 1..(Len(s) - 1) /\ Tail(s)[i - 1] = x
    BY <1>1, <2>1
  <2> QED BY <1>1, <2>2 DEF Range
<1>5. IsInjective(Tail(s))
  BY <1>1 DEF IsInjective
<1> QED BY <1>1, <1>2, <1>3, <1>4, <1>5

LEMMA DistinctLength ==
  ASSUME NEW S, NEW s \in Seq(S), IsInjective(s)
  PROVE  IsFiniteSet(Range(s)) /\ Cardinality(Range(s)) = Len(s)
<1>1. Len(s) \in Nat /\ DOMAIN s = 1..Len(s) /\ s \in [1..Len(s) -> Range(s)]
  BY LenProperties DEF Range
<1>2. s \in Bijection(1..Len(s), Range(s))
  BY <1>1 DEF Bijection, Injection, Surjection, Range, IsInjective
<1>3. ExistsBijection(1..Len(s), Range(s))
  BY <1>2 DEF ExistsBijection
<1>4. IsFiniteSet(1..Len(s)) /\ Cardinality(1..Len(s)) = Len(s)
  BY <1>1, FS_Interval
<1> QED BY <1>3, <1>4, FS_Bijection

-----------------------------------------------------------------------------
(* The slice.                                                              *)

LEMMA ThreadFacts ==
  /\ Threads = {"main", "listener"} /\ "main" # "listener"
  /\ IsFiniteSet(Ids) /\ Cardinality(Ids) \in Nat \ {0}
  /\ MaximumDownloaders \in Nat \ {0}
<1>1. Cardinality(Ids) \in Nat /\ Cardinality(Ids) # 0
  BY NamesAssumption, FS_CardinalityType, FS_EmptySet
<1> QED BY <1>1, NamesAssumption, NumbersAssumption DEF Threads

(* The slice as a sequence, as the operations on it see it.                *)
LEMMA SliceFacts ==
  ASSUME Typed
  PROVE  /\ cap \in Nat \ {0} /\ len \in Nat /\ len <= cap /\ 1..len \subseteq 1..cap
         /\ peers \in Seq(Ids \cup {NoId}) /\ Len(peers) = len /\ DOMAIN peers = 1..len
         /\ \A i \in 1..len : peers[i] = memory[cap][i]
         /\ Pool = Occupied
<1>1. cap \in Nat \ {0} /\ len \in Nat /\ len <= cap /\ 1..len \subseteq 1..cap
  BY ThreadFacts DEF Typed, Capacities
<1>2. \A i \in 1..len : memory[cap][i] \in Ids \cup {NoId}
  BY <1>1 DEF Typed
<1>3. /\ peers \in Seq(Ids \cup {NoId}) /\ Len(peers) = len
      /\ \A i \in 1..len : peers[i] = memory[cap][i]
  BY <1>1, <1>2, SubSeqProperties DEF peers
<1>4. DOMAIN peers = 1..len
  BY <1>3, LenProperties
<1>5. Pool = Occupied
  BY <1>3, <1>4 DEF Pool, Range, Occupied
<1> QED BY <1>1, <1>3, <1>4, <1>5

(* The slice holds each connection once, so it is no longer than there are *)
(* connections.                                                            *)
LEMMA SliceLength ==
  ASSUME Typed, SlotsOK
  PROVE  /\ IsInjective(peers)
         /\ IsFiniteSet(Occupied) /\ Cardinality(Occupied) = len
<1>1. IsInjective(peers)
  BY SliceFacts DEF IsInjective, SlotsOK
<1>2. Range(peers) = Occupied
  BY SliceFacts DEF Pool
<1> QED BY <1>1, <1>2, SliceFacts, DistinctLength

(* A connection is in one place only, and NoId in none.                    *)
LEMMA LiveFacts ==
  ASSUME IInv
  PROVE  /\ Live \subseteq Ids /\ NoId \notin Live
         /\ Spawned \subseteq Ids /\ Spawned \cap Live = {}
         /\ Occupied \subseteq Ids
         /\ len <= Cardinality(Ids)
         /\ \A t \in Threads : pc[t] \in {"check", "append"} => conn[t] \notin Occupied
         /\ \A t \in Threads : pc[t] \in Adding => conn[t] \in Ids /\ conn[t] \notin Live
         /\ \A t, u \in Threads : pc[t] \in Adding /\ t # u => conn[t] # conn[u]
<1> USE DEF IInv
<1>1. Range(ended) \subseteq Ids /\ Range(toRemove) \subseteq Ids
  BY LenProperties DEF Typed, Range
<1>2. Live \subseteq Ids /\ NoId \notin Live
  BY <1>1, NamesAssumption DEF Live, Typed
<1>3. \A t \in Threads : pc[t] \in Adding => conn[t] \in Ids /\ conn[t] \notin Live
  BY DEF PlacesOK, ThreadOK
<1>4. \A t, u \in Threads : pc[t] \in Adding /\ t # u => conn[t] # conn[u]
  BY <1>3, NamesAssumption DEF PlacesOK, Threads
<1>5. Spawned \subseteq Ids /\ Spawned \cap Live = {}
  BY <1>3 DEF Spawned, Adding
<1>6. Occupied \subseteq Ids
  BY <1>2, <1>5 DEF SlotsOK
<1>7. len <= Cardinality(Ids)
  BY <1>6, SliceLength, NamesAssumption, FS_Subset
<1>8. ASSUME NEW t \in Threads, pc[t] \in {"check", "append"}
      PROVE  conn[t] \notin Occupied
  <2>1. pc[t] \in Adding /\ pc[t] # "spawn"
    BY <1>8 DEF Adding
  <2>2. conn[t] \notin Spawned
    BY <1>4, <2>1 DEF Spawned
  <2> QED BY <1>3, <2>1, <2>2 DEF SlotsOK
<1> QED BY <1>2, <1>3, <1>4, <1>5, <1>6, <1>7, <1>8

-----------------------------------------------------------------------------
(* The parts of the invariant, step by step.                               *)

LEMMA InitIInv == Init => IInv
<1> SUFFICES ASSUME Init PROVE IInv
  OBVIOUS
<1> USE ThreadFacts
<1>1. /\ \A t \in Threads : pc[t] \notin Adding /\ conn[t] = NoId
      /\ pc["main"] \notin AtHost /\ pc["main"] # "count"
  BY DEF Init, Adding, AtHost, Threads
<1>2. Typed
  <2>1. cap \in Capacities /\ len \in 0..cap
    BY DEF Init, Capacities
  <2>2. \A k \in Capacities : memory[k] \in [1..k -> Ids \cup {NoId}]
    BY DEF Init
  <2>3. pc \in [Threads -> {"select", "drain", "remove", "count", "accept", "panicked"} \cup Launching]
    BY DEF Init, Launching
  <2>4. pc["main"] # "spawn" /\ pc["listener"] # "spawn"
    BY <1>1 DEF Adding
  <2> QED BY <2>1, <2>2, <2>3, <2>4 DEF Init, Typed
<1>3. Live = {} /\ Spawned = {} /\ Occupied = {}
  BY <1>1 DEF Init, Live, Spawned, Occupied, Range, Adding
<1>4. SlotsOK /\ PlacesOK
  BY <1>1, <1>3 DEF Init, SlotsOK, PlacesOK, ThreadOK, IsInjective, Range
<1>5. LimitOK
  BY <1>3, FS_EmptySet DEF Init, LimitOK, NoLaunch, Launching, AtHost, Adding
<1>6. LaunchOK
  <2>1. Len(Tracker) \in Nat
    BY NamesAssumption, LenProperties
  <2> QED BY <1>1, <2>1 DEF Init, LaunchOK, NoLaunch
<1> QED BY <1>2, <1>4, <1>5, <1>6 DEF IInv

(* Main goes from one place to another where it adds no connection.        *)
LEMMA MainMoves ==
  ASSUME IInv,
         UNCHANGED <<slice, connVars, conn, pointer, toRemove>>,
         blacklist' \subseteq IPs,
         pc["main"] \notin Adding,
         NEW l \in {"select", "drain", "remove", "count", "panicked", "consider", "dial"},
         pc' = [pc EXCEPT !["main"] = l]
  PROVE  Typed' /\ SlotsOK' /\ PlacesOK' /\ pc'["main"] = l
<1> USE DEF IInv
<1>1. UNCHANGED <<memory, cap, len, outgoing, running, channel, ended, conn, pointer, toRemove>>
  BY DEF slice, connVars
<1>2. /\ pc'["main"] = l /\ pc'["listener"] = pc["listener"] /\ l \notin Adding
      /\ pc' \in [Threads -> {"select", "drain", "remove", "count", "accept", "panicked"} \cup Launching]
  BY ThreadFacts DEF Typed, Adding, Launching, AtHost
<1>3. \A t \in Threads : pc'[t] \in Adding => pc'[t] = pc[t]
  BY <1>2, ThreadFacts
<1>4. \A t \in Threads : pc[t] \in Adding => pc'[t] = pc[t]
  BY <1>2, ThreadFacts
<1>5. Live' = Live /\ Occupied' = Occupied
  BY <1>1 DEF Live, Occupied
<1>6. Spawned' = Spawned
  BY <1>1, <1>3, <1>4 DEF Spawned, Adding
<1>7. Typed'
  BY <1>1, <1>2, <1>3 DEF Typed, Adding
<1>8. SlotsOK'
  BY <1>1, <1>5, <1>6 DEF SlotsOK
<1>9. PlacesOK'
  BY <1>1, <1>3, <1>4, <1>5 DEF PlacesOK, ThreadOK
<1> QED BY <1>2, <1>7, <1>8, <1>9

(* What main has dialled is in the slice.                                  *)
LEMMA DialledFacts ==
  ASSUME IInv
  PROVE  /\ IsFiniteSet(outgoing) /\ Cardinality(outgoing) \in Nat
         /\ Cardinality(outgoing) <= len
         /\ len \in Nat /\ len <= Cardinality(Ids)
         /\ launch.requested \in (-Cardinality(Ids))..MaximumDownloaders
         /\ launch.launched \in 0..MaximumDownloaders
         /\ launch.at \in 1..(Len(Tracker) + 1) /\ Len(Tracker) \in Nat
<1>1. outgoing \subseteq Occupied
  BY DEF IInv, LimitOK, SlotsOK
<1>2. IsFiniteSet(Occupied) /\ Cardinality(Occupied) = len
  BY SliceLength DEF IInv
<1>3. IsFiniteSet(outgoing) /\ Cardinality(outgoing) \in Nat /\ Cardinality(outgoing) <= len
  BY <1>1, <1>2, FS_Subset, FS_CardinalityType
<1>4. Len(Tracker) \in Nat
  BY NamesAssumption, LenProperties
<1> QED BY <1>3, <1>4, SliceFacts, LiveFacts DEF IInv, LaunchOK

(* Main does not launch, or it goes on with what it had.                   *)
LEMMA LimitKept ==
  ASSUME IInv, UNCHANGED <<outgoing, launch>>, outgoing \subseteq Live',
         pc'["main"] \in AtHost => pc["main"] \in AtHost,
         pc'["main"] \in Launching \cup {"count"} => pc["main"] \in Launching \cup {"count"},
         pc'["main"] = "count" => pc["main"] = "count"
  PROVE  LimitOK' /\ LaunchOK'
BY DEF IInv, LimitOK, LaunchOK

LEMMA LimitIdle ==
  ASSUME IInv, UNCHANGED outgoing, outgoing \subseteq Live',
         launch' \in {launch, NoLaunch}, pc'["main"] \notin Launching \cup {"count"}
  PROVE  LimitOK' /\ LaunchOK'
<1>1. NoLaunch \in [requested : (-Cardinality(Ids))..MaximumDownloaders,
                    launched : 0..MaximumDownloaders, at : 1..(Len(Tracker) + 1)]
  BY ThreadFacts, DialledFacts DEF NoLaunch
<1>2. LaunchOK'
  BY <1>1 DEF IInv, LaunchOK, Launching
<1> QED BY <1>2 DEF IInv, LimitOK

(* A host has been tried in vain.                                          *)
LEMMA AttemptFailed ==
  ASSUME IInv, pc["main"] \in AtHost, UNCHANGED outgoing, outgoing \subseteq Live',
         AfterAttempt(launch.launched)
  PROVE  /\ \E l \in {"select", "panicked", "consider"} : pc' = [pc EXCEPT !["main"] = l]
         /\ LimitOK' /\ LaunchOK'
<1> USE DEF IInv
<1>1. /\ Cardinality(outgoing) \in Nat
      /\ launch.requested \in (-Cardinality(Ids))..MaximumDownloaders
      /\ launch.launched \in 0..MaximumDownloaders
      /\ launch.at \in 1..Len(Tracker) /\ Len(Tracker) \in Nat
  BY DialledFacts DEF LaunchOK
<1>2. CASE launch.launched = launch.requested
  <2>1. pc' = [pc EXCEPT !["main"] = "select"] /\ launch' = NoLaunch
    BY <1>2 DEF AfterAttempt, Goto
  <2>2. pc'["main"] = "select"
    BY <2>1, ThreadFacts DEF Typed
  <2> QED BY <2>1, <2>2, LimitIdle DEF Launching, AtHost, Adding
<1>3. CASE launch.launched # launch.requested
  <2> DEFINE l == IF launch.launched > launch.requested THEN "panicked" ELSE "consider"
  <2>1. /\ pc' = [pc EXCEPT !["main"] = l]
        /\ launch' = [launch EXCEPT !.launched = launch.launched, !.at = @ + 1]
    BY <1>3 DEF AfterAttempt, CountAttempt, Goto
  <2>2. pc'["main"] = l /\ l \in {"panicked", "consider"}
    BY <2>1, ThreadFacts DEF Typed
  <2>3. /\ launch' \in [requested : (-Cardinality(Ids))..MaximumDownloaders,
                        launched : 0..MaximumDownloaders, at : 1..(Len(Tracker) + 1)]
        /\ launch'.requested = launch.requested /\ launch'.launched = launch.launched
    <3>1. launch.at + 1 \in 1..(Len(Tracker) + 1)
      BY <1>1
    <3>2. launch \in [requested : (-Cardinality(Ids))..MaximumDownloaders,
                      launched : 0..MaximumDownloaders, at : 1..(Len(Tracker) + 1)]
      BY DEF LaunchOK
    <3> QED BY <1>1, <2>1, <3>1, <3>2
  <2>4. LaunchOK'
    BY <2>2, <2>3 DEF LaunchOK, AtHost, Adding
  <2>5. LimitOK'
    BY <2>2, <2>3 DEF LimitOK, Launching
  <2> QED BY <2>1, <2>2, <2>4, <2>5
<1> QED BY <1>2, <1>3

(* A connection has been dialled: one more counts against the limit, and   *)
(* one less is left to dial.                                               *)
LEMMA AttemptDone ==
  ASSUME IInv, pc["main"] \in AtHost,
         NEW c \in Ids, outgoing' = outgoing \cup {c}, outgoing' \subseteq Live',
         AfterAttempt(launch.launched + 1)
  PROVE  /\ \E l \in {"select", "panicked", "consider"} : pc' = [pc EXCEPT !["main"] = l]
         /\ LimitOK' /\ LaunchOK'
<1> USE DEF IInv
<1> DEFINE d == Cardinality(outgoing)
           n == launch.launched + 1
<1>1. /\ d \in Nat
      /\ launch.requested \in (-Cardinality(Ids))..MaximumDownloaders
      /\ launch.launched \in 0..MaximumDownloaders
      /\ launch.at \in 1..Len(Tracker) /\ Len(Tracker) \in Nat
  BY DialledFacts DEF LaunchOK
<1>2. /\ Cardinality(outgoing') \in Nat /\ Cardinality(outgoing') <= d + 1
  <2>1. IsFiniteSet(outgoing)
    BY DialledFacts
  <2>2. Cardinality(outgoing \cup {c}) = IF c \in outgoing THEN d ELSE d + 1
    BY <2>1, FS_AddElement
  <2> QED BY <1>1, <2>2
<1>3. /\ d < MaximumDownloaders
      /\ d + launch.requested - launch.launched <= MaximumDownloaders
      /\ launch.launched = 0 \/ launch.launched < launch.requested
  BY DEF LimitOK, Launching
<1>4. Cardinality(outgoing') <= MaximumDownloaders /\ n \in 0..MaximumDownloaders
  BY <1>1, <1>2, <1>3, ThreadFacts
<1>5. CASE n = launch.requested
  <2>1. pc' = [pc EXCEPT !["main"] = "select"] /\ launch' = NoLaunch
    BY <1>5 DEF AfterAttempt, Goto
  <2>2. pc'["main"] = "select"
    BY <2>1, ThreadFacts DEF Typed
  <2>3. LaunchOK'
    BY <2>1, <2>2, <1>1, ThreadFacts DEF LaunchOK, NoLaunch, AtHost, Adding
  <2>4. LimitOK'
    BY <2>2, <1>4 DEF LimitOK, Launching, AtHost, Adding
  <2> QED BY <2>1, <2>3, <2>4
<1>6. CASE n # launch.requested
  <2> DEFINE l == IF n > launch.requested THEN "panicked" ELSE "consider"
  <2>1. /\ pc' = [pc EXCEPT !["main"] = l]
        /\ launch' = [launch EXCEPT !.launched = n, !.at = @ + 1]
    BY <1>6 DEF AfterAttempt, CountAttempt, Goto
  <2>2. pc'["main"] = l /\ l \in {"panicked", "consider"}
    BY <2>1, ThreadFacts DEF Typed
  <2>3. /\ launch' \in [requested : (-Cardinality(Ids))..MaximumDownloaders,
                        launched : 0..MaximumDownloaders, at : 1..(Len(Tracker) + 1)]
        /\ launch'.requested = launch.requested /\ launch'.launched = n
    <3>1. launch.at + 1 \in 1..(Len(Tracker) + 1)
      BY <1>1
    <3>2. launch \in [requested : (-Cardinality(Ids))..MaximumDownloaders,
                      launched : 0..MaximumDownloaders, at : 1..(Len(Tracker) + 1)]
      BY DEF LaunchOK
    <3> HIDE DEF n
    <3> QED BY <1>1, <1>4, <2>1, <3>1, <3>2
  <2>4. LaunchOK'
    BY <2>2, <2>3 DEF LaunchOK, AtHost, Adding
  <2>5. ASSUME l = "consider"
        PROVE  /\ Cardinality(outgoing') < MaximumDownloaders
               /\ Cardinality(outgoing') + launch.requested - n <= MaximumDownloaders
               /\ n < launch.requested
    BY <1>1, <1>2, <1>3, <1>6, <2>5, ThreadFacts
  <2>6. LimitOK'
    <3> HIDE DEF l, n
    <3> QED BY <2>2, <2>3, <2>5, <1>4 DEF LimitOK, Launching, AtHost, Adding
  <2> QED BY <2>1, <2>2, <2>4, <2>6
<1> QED BY <1>5, <1>6

-----------------------------------------------------------------------------
(* The invariant: actions that leave the slice alone.                      *)

LEMMA SameLive ==
  ASSUME IInv, UNCHANGED <<connVars, toRemove>>
  PROVE  UNCHANGED outgoing /\ Live' = Live /\ outgoing \subseteq Live'
BY DEF connVars, Live, IInv, LimitOK

LEMMA SelectIInv == IInv /\ Select => IInv'
<1> SUFFICES ASSUME IInv, Select PROVE IInv'
  OBVIOUS
<1>1. /\ pc["main"] = "select" /\ pc' = [pc EXCEPT !["main"] = "drain"]
      /\ UNCHANGED <<slice, blacklist, connVars, conn, pointer, toRemove, launch>>
  BY DEF Select, Goto
<1>2. blacklist' \subseteq IPs
  BY <1>1 DEF IInv, Typed
<1>3. Typed' /\ SlotsOK' /\ PlacesOK' /\ pc'["main"] = "drain"
  BY <1>1, <1>2, MainMoves DEF Adding
<1>4. UNCHANGED outgoing /\ outgoing \subseteq Live'
  BY <1>1, SameLive
<1>5. LimitOK' /\ LaunchOK'
  BY <1>1, <1>3, <1>4, LimitIdle DEF Launching, AtHost, Adding
<1> QED BY <1>3, <1>5 DEF IInv

(* The length that main reads, now or in Count, has all it dialled in it.  *)
LEMMA CompareIInv == IInv /\ Compare => IInv'
<1> SUFFICES ASSUME IInv, Compare PROVE IInv'
  OBVIOUS
<1>1. /\ pc["main"] = "remove"
      /\ UNCHANGED <<slice, blacklist, connVars, conn, pointer, toRemove>>
  BY DEF Compare
<1>2. blacklist' \subseteq IPs
  BY <1>1 DEF IInv, Typed
<1>3. UNCHANGED outgoing /\ outgoing \subseteq Live'
  BY <1>1, SameLive
<1>4. CASE ~complete /\ len < MaximumDownloaders
  <2>1. /\ pc' = [pc EXCEPT !["main"] = "count"]
        /\ launch' = [NoLaunch EXCEPT !.requested = MissingDownloaders]
    BY <1>4 DEF Compare, Goto
  <2>2. Typed' /\ SlotsOK' /\ PlacesOK' /\ pc'["main"] = "count"
    BY <1>1, <1>2, <2>1, MainMoves DEF Adding
  <2>3. launch' = [requested |-> MaximumDownloaders - len, launched |-> 0, at |-> 1]
    BY <2>1 DEF NoLaunch, MissingDownloaders
  <2>4. LaunchOK'
    BY <2>2, <2>3, DialledFacts, ThreadFacts DEF LaunchOK, AtHost, Adding
  <2>5. LimitOK'
    BY <1>3, <1>4, <2>3, DialledFacts, ThreadFacts DEF LimitOK
  <2> QED BY <2>2, <2>4, <2>5 DEF IInv
<1>5. CASE ~(~complete /\ len < MaximumDownloaders)
  <2>1. pc' = [pc EXCEPT !["main"] = "select"] /\ UNCHANGED launch
    BY <1>5 DEF Compare, Goto
  <2>2. Typed' /\ SlotsOK' /\ PlacesOK' /\ pc'["main"] = "select"
    BY <1>1, <1>2, <2>1, MainMoves DEF Adding
  <2>3. LimitOK' /\ LaunchOK'
    BY <1>3, <2>1, <2>2, LimitIdle DEF Launching, AtHost, Adding
  <2> QED BY <2>2, <2>3 DEF IInv
<1> QED BY <1>4, <1>5

LEMMA CountIInv == IInv /\ Count => IInv'
<1> SUFFICES ASSUME IInv, Count PROVE IInv'
  OBVIOUS
<1>1. /\ pc["main"] = "count" /\ pc' = [pc EXCEPT !["main"] = "consider"]
      /\ UNCHANGED <<slice, blacklist, connVars, conn, pointer, toRemove>>
      /\ launch' = [launch EXCEPT !.requested = MaximumDownloaders - len] \/ UNCHANGED launch
  BY DEF Count, Goto, MissingDownloaders
<1>2. blacklist' \subseteq IPs
  BY <1>1 DEF IInv, Typed
<1>3. Typed' /\ SlotsOK' /\ PlacesOK' /\ pc'["main"] = "consider"
  BY <1>1, <1>2, MainMoves DEF Adding
<1>4. UNCHANGED outgoing /\ outgoing \subseteq Live'
  BY <1>1, SameLive
<1>5. /\ launch \in [requested : (-Cardinality(Ids))..MaximumDownloaders,
                     launched : 0..MaximumDownloaders, at : 1..(Len(Tracker) + 1)]
      /\ launch.launched = 0
  BY <1>1 DEF IInv, LaunchOK
<1>6. CASE UNCHANGED launch
  BY <1>1, <1>3, <1>4, <1>6, LimitKept DEF IInv, Launching, AtHost, Adding
<1>7. CASE launch' = [launch EXCEPT !.requested = MaximumDownloaders - len]
  <2>1. MaximumDownloaders - len \in (-Cardinality(Ids))..MaximumDownloaders
    BY DialledFacts, ThreadFacts
  <2>2. /\ launch' \in [requested : (-Cardinality(Ids))..MaximumDownloaders,
                        launched : 0..MaximumDownloaders, at : 1..(Len(Tracker) + 1)]
        /\ launch'.requested = MaximumDownloaders - len /\ launch'.launched = 0
    BY <1>5, <1>7, <2>1
  <2>3. LaunchOK'
    BY <1>3, <2>2 DEF LaunchOK, AtHost, Adding
  <2>4. Cardinality(outgoing) < MaximumDownloaders
    BY <1>1 DEF IInv, LimitOK
  <2>5. LimitOK'
    BY <1>4, <2>2, <2>4, DialledFacts, ThreadFacts DEF LimitOK
  <2> QED BY <1>3, <2>3, <2>5 DEF IInv
<1> QED BY <1>1, <1>6, <1>7

LEMMA ConsiderIInv == IInv /\ Consider => IInv'
<1> SUFFICES ASSUME IInv, Consider PROVE IInv'
  OBVIOUS
<1>1. /\ pc["main"] = "consider"
      /\ UNCHANGED <<slice, blacklist, connVars, conn, pointer, toRemove>>
  BY DEF Consider
<1>2. blacklist' \subseteq IPs /\ pc["main"] \notin Adding
  BY <1>1 DEF IInv, Typed, Adding
<1>3. UNCHANGED outgoing /\ outgoing \subseteq Live'
  BY <1>1, SameLive
<1>4. launch \in [requested : (-Cardinality(Ids))..MaximumDownloaders,
                  launched : 0..MaximumDownloaders, at : 1..(Len(Tracker) + 1)]
  BY DEF IInv, LaunchOK
<1>5. CASE launch.at > Len(Tracker)
  <2>1. pc' = [pc EXCEPT !["main"] = "select"] /\ launch' = NoLaunch
    BY <1>5 DEF Consider, GiveUp, Goto
  <2>2. Typed' /\ SlotsOK' /\ PlacesOK' /\ pc'["main"] = "select"
    BY <1>1, <1>2, <2>1, MainMoves
  <2>3. LimitOK' /\ LaunchOK'
    BY <1>3, <2>1, <2>2, LimitIdle DEF Launching, AtHost, Adding
  <2> QED BY <2>2, <2>3 DEF IInv
<1>6. CASE launch.at <= Len(Tracker) /\ UNCHANGED pc
  <2>1. launch' = [launch EXCEPT !.at = @ + 1]
    <3>1. ~(launch.at > Len(Tracker))
      BY <1>4, <1>6, DialledFacts
    <3>2. pc["main"] # "dial" /\ pc'["main"] = pc["main"]
      BY <1>1, <1>6
    <3> QED BY <3>1, <3>2, ThreadFacts DEF Consider, SkipHost, Goto, IInv, Typed
  <2>2. pc' = [pc EXCEPT !["main"] = "consider"]
    BY <1>1, <1>6, ThreadFacts DEF IInv, Typed
  <2>3. Typed' /\ SlotsOK' /\ PlacesOK' /\ pc'["main"] = "consider"
    BY <1>1, <1>2, <2>2, MainMoves
  <2>4. launch.at + 1 \in 1..(Len(Tracker) + 1)
    BY <1>6, DialledFacts
  <2>5. /\ launch' \in [requested : (-Cardinality(Ids))..MaximumDownloaders,
                        launched : 0..MaximumDownloaders, at : 1..(Len(Tracker) + 1)]
        /\ launch'.requested = launch.requested /\ launch'.launched = launch.launched
    BY <1>4, <2>1, <2>4
  <2>6. LaunchOK'
    BY <2>3, <2>5 DEF LaunchOK, AtHost, Adding
  <2>7. LimitOK'
    BY <1>1, <1>3, <2>5 DEF IInv, LimitOK, Launching
  <2> QED BY <2>3, <2>6, <2>7 DEF IInv
<1>7. CASE launch.at <= Len(Tracker) /\ pc' = [pc EXCEPT !["main"] = "dial"] /\ UNCHANGED launch
  <2>1. Typed' /\ SlotsOK' /\ PlacesOK' /\ pc'["main"] = "dial"
    BY <1>1, <1>2, <1>7, MainMoves
  <2>2. LaunchOK'
    BY <1>7, <2>1 DEF IInv, LaunchOK
  <2>3. LimitOK'
    BY <1>1, <1>3, <1>7 DEF IInv, LimitOK, Launching
  <2> QED BY <2>1, <2>2, <2>3 DEF IInv
<1>8. launch.at > Len(Tracker) \/ launch.at <= Len(Tracker)
  BY DialledFacts
<1> QED BY <1>5, <1>6, <1>7, <1>8 DEF Consider, SkipHost, Goto

LEMMA DialIsOverIInv == IInv /\ (AlreadyConnected \/ DialFails) => IInv'
<1> SUFFICES ASSUME IInv, AlreadyConnected \/ DialFails PROVE IInv'
  OBVIOUS
<1>1. /\ pc["main"] = "dial"
      /\ UNCHANGED <<slice, connVars, conn, pointer, toRemove>>
      /\ AfterAttempt(launch.launched)
      /\ blacklist' \in {blacklist, blacklist \cup {Tracker[launch.at]}}
  BY DEF AlreadyConnected, DialFails
<1>2. pc["main"] \in AtHost /\ pc["main"] \notin Adding
  BY <1>1 DEF AtHost, Adding
<1>3. blacklist' \subseteq IPs
  <2>1. launch.at \in 1..Len(Tracker)
    BY <1>2, DialledFacts DEF IInv, LaunchOK
  <2>2. Tracker[launch.at] \in IPs
    BY <2>1, NamesAssumption, ElementOfSeq
  <2> QED BY <1>1, <2>2 DEF IInv, Typed
<1>4. UNCHANGED outgoing /\ outgoing \subseteq Live'
  BY <1>1, SameLive
<1>5. PICK l \in {"select", "panicked", "consider"} : pc' = [pc EXCEPT !["main"] = l]
  BY <1>1, <1>2, <1>4, AttemptFailed
<1>6. LimitOK' /\ LaunchOK'
  BY <1>1, <1>2, <1>4, AttemptFailed
<1>7. Typed' /\ SlotsOK' /\ PlacesOK'
  BY <1>1, <1>2, <1>3, <1>5, MainMoves
<1> QED BY <1>6, <1>7 DEF IInv

LEMMA QuietIInv ==
  ASSUME IInv, UNCHANGED <<slice, connVars, pc, conn, pointer, toRemove, launch>>,
         blacklist' \subseteq IPs
  PROVE  IInv'
<1>1. UNCHANGED <<memory, cap, len, outgoing, running, channel, ended, pc, conn, pointer,
                  toRemove, launch>>
  BY DEF slice, connVars
<1>2. Live' = Live /\ Occupied' = Occupied /\ Spawned' = Spawned
  BY <1>1 DEF Live, Occupied, Spawned
<1>3. Typed'
  BY <1>1 DEF IInv, Typed
<1>4. SlotsOK' /\ PlacesOK'
  BY <1>1, <1>2 DEF IInv, SlotsOK, PlacesOK, ThreadOK
<1>5. LimitOK' /\ LaunchOK'
  BY <1>1, <1>2 DEF IInv, LimitOK, LaunchOK
<1> QED BY <1>3, <1>4, <1>5 DEF IInv

LEMMA ExpireIInv ==
  ASSUME IInv, NEW h \in IPs, Expire(h)
  PROVE  IInv'
<1>1. blacklist' \subseteq IPs
  BY DEF IInv, Typed, Expire
<1> QED BY <1>1, QuietIInv DEF Expire

-----------------------------------------------------------------------------
(* The invariant: Add and its callers.                                     *)

(* A thread goes on while the places of the other connections stay.        *)
LEMMA OpenIInv ==
  ASSUME IInv, NEW t \in Threads, NEW c \in Ids, Open(t, c),
         pc[t] \in {"accept", "dial"}, t = "main" => pc[t] = "dial",
         UNCHANGED <<slice, blacklist, connVars, pointer, toRemove, launch>>
  PROVE  IInv'
<1>1. UNCHANGED <<memory, cap, len, blacklist, outgoing, running, channel, ended, pointer,
                  toRemove, launch>>
  BY DEF slice, connVars
<1>2. conn' = [conn EXCEPT ![t] = c] /\ pc' = [pc EXCEPT ![t] = "check"] /\ Fresh(c)
  BY DEF Open, Goto
<1>3. /\ conn'[t] = c /\ pc'[t] = "check"
      /\ \A u \in Threads : u # t => conn'[u] = conn[u] /\ pc'[u] = pc[u]
      /\ conn' \in [Threads -> Ids \cup {NoId}]
      /\ pc' \in [Threads -> {"select", "drain", "remove", "count", "accept", "panicked"} \cup Launching]
  BY <1>2 DEF IInv, Typed, Launching, AtHost, Adding
<1>4. c \notin Live /\ c # conn["main"] /\ c # conn["listener"]
  BY <1>2, ThreadFacts DEF Fresh, Live
<1>5. Live' = Live /\ Occupied' = Occupied
  BY <1>1 DEF Live, Occupied
<1>6. Spawned' = Spawned
  BY <1>3 DEF Spawned
<1>7. Typed'
  BY <1>1, <1>3 DEF IInv, Typed
<1>8. SlotsOK'
  BY <1>1, <1>5, <1>6 DEF IInv, SlotsOK
<1>9. \A u \in Threads : ThreadOK(u)'
  <2>1. ThreadOK(t)'
    BY <1>3, <1>4, <1>5 DEF ThreadOK, Adding
  <2>2. ASSUME NEW u \in Threads, u # t PROVE ThreadOK(u)'
    BY <1>3, <1>5, <2>2 DEF ThreadOK, IInv, PlacesOK
  <2> QED BY <2>1, <2>2
<1>10. PlacesOK'
  BY <1>1, <1>3, <1>4, <1>9, ThreadFacts DEF IInv, PlacesOK
<1>11. LimitOK' /\ LaunchOK'
  <2>1. outgoing \subseteq Live'
    BY <1>5 DEF IInv, LimitOK
  <2>2. CASE t = "main"
    BY <1>1, <1>3, <2>1, <2>2, LimitKept DEF Launching, AtHost, Adding
  <2>3. CASE t # "main"
    BY <1>1, <1>3, <2>1, <2>3, ThreadFacts, LimitKept
  <2> QED BY <2>2, <2>3
<1> QED BY <1>7, <1>8, <1>10, <1>11 DEF IInv

LEMMA CheckOpenIInv ==
  ASSUME IInv, NEW t \in Threads, CheckOpen(t)
  PROVE  IInv'
<1>1. /\ pc[t] = "check"
      /\ UNCHANGED <<memory, cap, len, blacklist, outgoing, running, channel, ended, pointer,
                     toRemove>>
  BY DEF CheckOpen, slice, connVars
<1>2. Live' = Live /\ Occupied' = Occupied /\ outgoing \subseteq Live'
  BY <1>1 DEF Live, Occupied, IInv, LimitOK
<1>3. CASE ~IsOpen(host[conn[t]])
  <2>1. UNCHANGED <<conn, launch>> /\ pc' = [pc EXCEPT ![t] = "append"]
    BY <1>3 DEF CheckOpen, Goto
  <2>2. /\ pc'[t] = "append" /\ \A u \in Threads : u # t => pc'[u] = pc[u]
        /\ pc' \in [Threads -> {"select", "drain", "remove", "count", "accept", "panicked"} \cup Launching]
    BY <2>1 DEF IInv, Typed, Launching, AtHost, Adding
  <2>3. \A u \in Threads : /\ pc'[u] \in Adding <=> pc[u] \in Adding
                           /\ pc'[u] = "spawn" <=> pc[u] = "spawn"
    BY <1>1, <2>2 DEF Adding
  <2>4. Spawned' = Spawned
    BY <2>1, <2>3 DEF Spawned
  <2>5. Typed'
    BY <1>1, <2>1, <2>2, <2>3 DEF IInv, Typed
  <2>6. SlotsOK' /\ PlacesOK'
    BY <1>1, <1>2, <2>1, <2>3, <2>4 DEF IInv, SlotsOK, PlacesOK, ThreadOK
  <2>7. LimitOK' /\ LaunchOK'
    BY <1>1, <1>2, <2>1, <2>2, LimitKept, ThreadFacts DEF Launching, AtHost, Adding
  <2> QED BY <2>5, <2>6, <2>7 DEF IInv
<1>4. CASE IsOpen(host[conn[t]])
  <2>1. conn' = [conn EXCEPT ![t] = NoId]
    BY <1>4 DEF CheckOpen
  <2>2. /\ \E l \in {"select", "panicked", "consider", "accept"} : pc' = [pc EXCEPT ![t] = l]
        /\ LimitOK' /\ LaunchOK'
    <3>1. CASE t = "main"
      <4>1. AfterAttempt(launch.launched) /\ pc["main"] \in AtHost
        BY <1>1, <1>4, <3>1 DEF CheckOpen, AtHost, Adding
      <4> QED BY <1>1, <1>2, <3>1, <4>1, AttemptFailed
    <3>2. CASE t # "main"
      <4>1. pc' = [pc EXCEPT ![t] = "accept"] /\ UNCHANGED launch
        BY <1>4, <3>2 DEF CheckOpen, Goto
      <4>2. pc'["main"] = pc["main"]
        BY <3>2, <4>1, ThreadFacts DEF IInv, Typed
      <4> QED BY <1>1, <1>2, <4>1, <4>2, LimitKept
    <3> QED BY <3>1, <3>2
  <2>3. PICK l \in {"select", "panicked", "consider", "accept"} : pc' = [pc EXCEPT ![t] = l]
    BY <2>2
  <2>4. /\ pc'[t] \notin Adding /\ \A u \in Threads : u # t => pc'[u] = pc[u]
        /\ pc' \in [Threads -> {"select", "drain", "remove", "count", "accept", "panicked"} \cup Launching]
        /\ conn'[t] = NoId /\ \A u \in Threads : u # t => conn'[u] = conn[u]
        /\ conn' \in [Threads -> Ids \cup {NoId}]
    BY <2>1, <2>3 DEF IInv, Typed, Launching, AtHost, Adding
  <2>5. \A u \in Threads : /\ pc'[u] \in Adding => pc[u] \in Adding /\ u # t
                           /\ pc'[u] = "spawn" <=> pc[u] = "spawn"
    BY <1>1, <2>4 DEF Adding
  <2>6. Spawned' = Spawned
    BY <1>1, <2>4, <2>5 DEF Spawned
  <2>7. Typed'
    BY <1>1, <2>4, <2>5 DEF IInv, Typed
  <2>8. SlotsOK'
    BY <1>1, <1>2, <2>6 DEF IInv, SlotsOK
  <2>9. PlacesOK'
    <3>1. \A u \in Threads : ThreadOK(u)'
      BY <1>2, <2>4 DEF IInv, PlacesOK, ThreadOK
    <3> QED BY <1>1, <2>4, <3>1, ThreadFacts DEF IInv, PlacesOK
  <2> QED BY <2>2, <2>7, <2>8, <2>9 DEF IInv
<1> QED BY <1>3, <1>4

(* There is a connection that is not in the slice: the slice can grow, in  *)
(* place or into an array that exists.                                     *)
LEMMA GrowFacts ==
  ASSUME IInv, NEW t \in Threads, AppendSlot(t)
  PROVE  /\ cap' \in Capacities /\ len' = len + 1 /\ len' \in 1..cap'
         /\ \A i \in 1..len : i # len' /\ memory'[cap'][i] = memory[cap][i]
         /\ memory'[cap'][len'] = conn[t]
         /\ DOMAIN memory' = Capacities
         /\ \A k \in Capacities : memory'[k] \in [1..k -> Ids \cup {NoId}]
         /\ pointer' = [pointer EXCEPT ![t] = <<cap', len'>>]
<1> DEFINE k == IF len < cap THEN cap ELSE 2 * cap
           free == {cap} \ {k, pointer["main"][1], pointer["listener"][1]}
<1>1. /\ pc[t] = "append" /\ cap' = k /\ len' = len + 1
      /\ memory' = [a \in Capacities |->
              IF a = k
              THEN [i \in 1..k |-> IF i <= len THEN memory[cap][i]
                                   ELSE IF i = len + 1 THEN conn[t] ELSE memory[k][i]]
              ELSE IF a \in free THEN [i \in 1..a |-> NoId] ELSE memory[a]]
      /\ pointer' = [pointer EXCEPT ![t] = <<k, len + 1>>]
  BY DEF AppendSlot
<1>2. cap \in Nat \ {0} /\ len \in Nat /\ len <= cap
  BY SliceFacts DEF IInv
<1>3. conn[t] \in Ids \ Occupied
  BY <1>1, LiveFacts DEF Adding
<1>4. len < Cardinality(Ids)
  <2>1. Occupied \in SUBSET Ids /\ Occupied # Ids /\ Cardinality(Occupied) = len
    BY <1>3, LiveFacts, SliceLength DEF IInv
  <2> QED BY <1>2, <2>1, FS_Subset, ThreadFacts
<1>5. k \in Capacities /\ k \in Nat /\ len + 1 \in 1..k
  BY <1>2, <1>4, ThreadFacts DEF Capacities, IInv, Typed
<1>6. \A a \in Capacities : memory[a] \in [1..a -> Ids \cup {NoId}]
  BY DEF IInv, Typed
<1>7. cap \in Capacities
  BY DEF IInv, Typed
<1> HIDE DEF k, free
<1>8. memory'[k] = [i \in 1..k |-> IF i <= len THEN memory[cap][i]
                                   ELSE IF i = len + 1 THEN conn[t] ELSE memory[k][i]]
  BY <1>1, <1>5
<1>9. \A i \in 1..len : i \in 1..k /\ i # len + 1 /\ i <= len
  BY <1>2, <1>5
<1>10. \A i \in 1..len : memory'[k][i] = memory[cap][i]
  BY <1>8, <1>9
<1>11. memory'[k][len + 1] = conn[t]
  <2>1. ~(len + 1 <= len)
    BY <1>2
  <2> QED BY <1>5, <1>8, <2>1
<1>12. \A i \in 1..k : i <= len => memory[cap][i] \in Ids \cup {NoId}
  <2>1. \A i \in 1..k : i <= len => i \in 1..cap
    BY <1>2, <1>5
  <2> QED BY <1>6, <1>7, <2>1
<1>13. memory'[k] \in [1..k -> Ids \cup {NoId}]
  BY <1>3, <1>5, <1>6, <1>8, <1>12
<1>14. \A a \in Capacities : memory'[a] \in [1..a -> Ids \cup {NoId}]
  <2> SUFFICES ASSUME NEW a \in Capacities PROVE memory'[a] \in [1..a -> Ids \cup {NoId}]
    OBVIOUS
  <2>1. CASE a = k
    BY <1>13, <2>1
  <2>2. CASE a # k
    <3>1. memory'[a] = IF a \in free THEN [i \in 1..a |-> NoId] ELSE memory[a]
      BY <1>1, <2>2
    <3> QED BY <1>6, <3>1
  <2> QED BY <2>1, <2>2
<1> QED BY <1>1, <1>2, <1>5, <1>9, <1>10, <1>11, <1>14

LEMMA AppendSlotIInv ==
  ASSUME IInv, NEW t \in Threads, AppendSlot(t)
  PROVE  IInv'
<1>1. /\ pc[t] = "append" /\ pc' = [pc EXCEPT ![t] = "spawn"]
      /\ UNCHANGED <<blacklist, outgoing, running, channel, ended, conn, toRemove, launch>>
  BY DEF AppendSlot, Goto, connVars
<1>2. /\ pc'[t] = "spawn" /\ \A u \in Threads : u # t => pc'[u] = pc[u]
      /\ pc' \in [Threads -> {"select", "drain", "remove", "count", "accept", "panicked"} \cup Launching]
      /\ \A u \in Threads : pc'[u] \in Adding <=> pc[u] \in Adding
  BY <1>1 DEF IInv, Typed, Launching, AtHost, Adding
<1>3. Live' = Live /\ outgoing \subseteq Live'
  BY <1>1 DEF Live, IInv, LimitOK
<1>4. Spawned' = Spawned \cup {conn[t]}
  BY <1>1, <1>2 DEF Spawned
<1>5. conn[t] \in Ids \ Occupied
  BY <1>1, LiveFacts DEF Adding
<1>6. len \in Nat /\ 1..len' = 1..len \cup {len'} /\ len' \notin 1..len
  <2>1. len \in Nat /\ len' = len + 1
    BY GrowFacts, SliceFacts DEF IInv
  <2> QED BY <2>1
<1>7. Occupied' = Occupied \cup {conn[t]}
  BY <1>6, GrowFacts DEF Occupied
<1>8. Typed'
  <2>1. pointer'[t] = <<cap', len'>> /\ \A u \in Threads : u # t => pointer'[u] = pointer[u]
    BY GrowFacts DEF IInv, Typed
  <2>2. DOMAIN pointer' = Threads
    BY GrowFacts DEF IInv, Typed
  <2>3. \A u \in Threads : pc'[u] = "spawn" =>
          pointer'[u][1] \in Capacities /\ pointer'[u][2] \in 1..pointer'[u][1]
    BY <1>2, <2>1, GrowFacts DEF IInv, Typed
  <2>4. cap' \in Capacities /\ len' \in 0..cap'
    BY <1>6, GrowFacts
  <2> QED BY <1>1, <1>2, <2>2, <2>3, <2>4, GrowFacts DEF IInv, Typed
<1>9. SlotsOK'
  <2>1. \A i \in 1..len : memory[cap][i] # conn[t]
    BY <1>5 DEF Occupied
  <2>2. \A i, j \in 1..len' : memory'[cap'][i] = memory'[cap'][j] => i = j
    BY <1>6, <2>1, GrowFacts DEF IInv, SlotsOK
  <2> QED BY <1>3, <1>4, <1>7, <2>2 DEF IInv, SlotsOK
<1>10. PlacesOK'
  BY <1>1, <1>2, <1>3 DEF IInv, PlacesOK, ThreadOK
<1>11. LimitOK' /\ LaunchOK'
  BY <1>1, <1>2, <1>3, LimitKept, ThreadFacts DEF Launching, AtHost, Adding
<1> QED BY <1>8, <1>9, <1>10, <1>11 DEF IInv

(* The goroutine takes its connection over from the thread that added it.  *)
LEMMA StartedKeepsPlaces ==
  ASSUME IInv, NEW t \in Threads, StartGoroutine(t),
         NEW l \in {"accept", "select", "panicked", "consider"},
         pc' = [pc EXCEPT ![t] = l], outgoing' \subseteq Ids
  PROVE  Typed' /\ SlotsOK' /\ PlacesOK'
<1> DEFINE c == conn[t]
<1>1. /\ pc[t] = "spawn" /\ running' = running \cup {c}
      /\ channel' = [channel EXCEPT ![c] = Slot(t)]
      /\ conn' = [conn EXCEPT ![t] = NoId]
      /\ pointer' = [pointer EXCEPT ![t] = NoPointer]
      /\ UNCHANGED <<memory, cap, len, blacklist, ended, toRemove>>
  BY DEF StartGoroutine, slice
<1>2. /\ pc'[t] = l /\ l \notin Adding /\ \A u \in Threads : u # t => pc'[u] = pc[u]
      /\ pc' \in [Threads -> {"select", "drain", "remove", "count", "accept", "panicked"} \cup Launching]
      /\ conn'[t] = NoId /\ \A u \in Threads : u # t => conn'[u] = conn[u]
      /\ conn' \in [Threads -> Ids \cup {NoId}]
      /\ DOMAIN pointer' = Threads /\ \A u \in Threads : u # t => pointer'[u] = pointer[u]
  BY <1>1 DEF IInv, Typed, Launching, AtHost, Adding
<1>3. /\ c \in Ids \ Live /\ \A u \in Threads : u # t => conn[u] # c
  BY <1>1, LiveFacts DEF Adding
<1> HIDE DEF c
<1>4. Live' = Live \cup {c} /\ Occupied' = Occupied
  BY <1>1 DEF Live, Occupied
<1>5. Spawned = Spawned' \cup {c}
  <2>1. c \in Spawned
    BY <1>1 DEF Spawned, c
  <2>2. Spawned' \subseteq Spawned
    BY <1>2 DEF Spawned, Adding
  <2>3. Spawned \subseteq Spawned' \cup {c}
    BY <1>2 DEF Spawned, Adding, c
  <2> QED BY <2>1, <2>2, <2>3
<1>6. Slot(t) \in Ids \cup {NoId}
  BY <1>1 DEF Slot, IInv, Typed
<1>7. Typed'
  <2>1. channel' \in [Ids -> Ids \cup {NoId}] /\ running' \subseteq Ids
    BY <1>1, <1>3, <1>6 DEF IInv, Typed
  <2>2. \A u \in Threads : pc'[u] = "spawn" => pc[u] = "spawn" /\ pointer'[u] = pointer[u]
    BY <1>2 DEF Adding
  <2> QED BY <1>1, <1>2, <2>1, <2>2 DEF IInv, Typed
<1>8. SlotsOK'
  BY <1>1, <1>4, <1>5 DEF IInv, SlotsOK
<1>9. PlacesOK'
  <2>1. \A u \in Threads : ThreadOK(u)'
    BY <1>2, <1>3, <1>4 DEF IInv, PlacesOK, ThreadOK
  <2>2. c \notin Range(ended) /\ c \notin Range(toRemove)
    BY <1>3 DEF Live
  <2> QED BY <1>1, <1>2, <2>1, <2>2, ThreadFacts DEF IInv, PlacesOK
<1> QED BY <1>7, <1>8, <1>9

LEMMA SeedIInv == IInv /\ Seed => IInv'
<1> SUFFICES ASSUME IInv, Seed PROVE IInv'
  OBVIOUS
<1>1. /\ StartGoroutine("listener") /\ pc' = [pc EXCEPT !["listener"] = "accept"]
      /\ UNCHANGED <<outgoing, launch>>
  BY DEF Seed, Goto
<1>2. Typed' /\ SlotsOK' /\ PlacesOK'
  BY <1>1, StartedKeepsPlaces, ThreadFacts DEF IInv, Typed
<1>3. outgoing \subseteq Live'
  BY <1>1 DEF StartGoroutine, Live, IInv, LimitOK
<1>4. pc'["main"] = pc["main"]
  BY <1>1, ThreadFacts DEF IInv, Typed
<1>5. LimitOK' /\ LaunchOK'
  BY <1>1, <1>3, <1>4, LimitKept
<1> QED BY <1>2, <1>5 DEF IInv

LEMMA LeechIInv == IInv /\ Leech => IInv'
<1> SUFFICES ASSUME IInv, Leech PROVE IInv'
  OBVIOUS
<1>1. /\ StartGoroutine("main") /\ outgoing' = outgoing \cup {conn["main"]}
      /\ AfterAttempt(launch.launched + 1)
  BY DEF Leech
<1>2. pc["main"] = "spawn" /\ running' = running \cup {conn["main"]} /\ UNCHANGED <<ended, toRemove>>
  BY <1>1 DEF StartGoroutine
<1>3. conn["main"] \in Ids /\ pc["main"] \in AtHost
  BY <1>2, LiveFacts, ThreadFacts DEF Adding, AtHost
<1>4. outgoing' \subseteq Live'
  BY <1>1, <1>2 DEF Live, IInv, LimitOK
<1>5. LimitOK' /\ LaunchOK' /\ \E l \in {"select", "panicked", "consider"} : pc' = [pc EXCEPT !["main"] = l]
  BY <1>1, <1>3, <1>4, AttemptDone
<1>6. outgoing' \subseteq Ids
  BY <1>1, <1>3 DEF IInv, Typed
<1>7. Typed' /\ SlotsOK' /\ PlacesOK'
  BY <1>1, <1>5, <1>6, StartedKeepsPlaces, ThreadFacts
<1> QED BY <1>5, <1>7 DEF IInv

-----------------------------------------------------------------------------
(* The invariant: how a connection leaves.                                 *)

LEMMA EndConnectionIInv ==
  ASSUME IInv, NEW c \in Ids, EndConnection(c)
  PROVE  IInv'
<1>1. /\ c \in running /\ running' = running \ {c}
      /\ channel' = [channel EXCEPT ![c] = NoId] /\ ended' = Append(ended, c)
      /\ UNCHANGED <<memory, cap, len, blacklist, outgoing, pc, conn, pointer, toRemove, launch>>
  BY DEF EndConnection, slice
<1>2. c \notin Range(ended) /\ c \notin Range(toRemove)
  BY <1>1 DEF IInv, PlacesOK
<1>3. ended' \in Seq(Ids) /\ Range(ended') = Range(ended) \cup {c} /\ IsInjective(ended')
  BY <1>1, <1>2, AppendNew DEF IInv, Typed, PlacesOK
<1>4. Live' = Live
  BY <1>1, <1>3 DEF Live
<1>5. Occupied' = Occupied /\ Spawned' = Spawned
  BY <1>1 DEF Occupied, Spawned
<1>6. Typed'
  BY <1>1, <1>3 DEF IInv, Typed
<1>7. SlotsOK'
  BY <1>1, <1>4, <1>5 DEF IInv, SlotsOK
<1>8. PlacesOK'
  BY <1>1, <1>2, <1>3, <1>4 DEF IInv, PlacesOK, ThreadOK
<1>9. LimitOK' /\ LaunchOK'
  BY <1>1, <1>4 DEF IInv, LimitOK, LaunchOK
<1> QED BY <1>6, <1>7, <1>8, <1>9 DEF IInv

LEMMA DrainIInv == IInv /\ Drain => IInv'
<1> SUFFICES ASSUME IInv, Drain PROVE IInv'
  OBVIOUS
<1>1. /\ pc["main"] = "drain"
      /\ UNCHANGED <<memory, cap, len, outgoing, running, channel, conn, pointer, launch>>
  BY DEF Drain, slice
<1>2. CASE ended = <<>>
  <2>1. pc' = [pc EXCEPT !["main"] = "remove"] /\ UNCHANGED <<ended, toRemove, blacklist>>
    BY <1>2 DEF Drain, Goto
  <2>2. blacklist' \subseteq IPs /\ UNCHANGED <<slice, connVars, conn, pointer, toRemove>>
    BY <1>1, <2>1 DEF IInv, Typed, slice, connVars
  <2>3. Typed' /\ SlotsOK' /\ PlacesOK' /\ pc'["main"] = "remove"
    BY <1>1, <2>1, <2>2, MainMoves DEF Adding
  <2>4. UNCHANGED outgoing /\ outgoing \subseteq Live'
    BY <2>2, SameLive
  <2>5. LimitOK' /\ LaunchOK'
    BY <1>1, <2>3, <2>4, LimitIdle DEF Launching, AtHost, Adding
  <2> QED BY <2>3, <2>5 DEF IInv
<1>3. CASE ended # <<>>
  <2> DEFINE c == Head(ended)
  <2>1. /\ ended' = Tail(ended) /\ toRemove' = Append(toRemove, c)
        /\ blacklist' = blacklist \cup {host[c]} /\ UNCHANGED pc
    BY <1>3 DEF Drain
  <2>2. /\ c \in Range(ended) /\ c \in Ids /\ ended' \in Seq(Ids)
        /\ Range(ended') = Range(ended) \ {c} /\ IsInjective(ended')
    BY <1>3, <2>1, TailDistinct DEF IInv, Typed, PlacesOK
  <2> HIDE DEF c
  <2>3. c \notin Range(toRemove) /\ c \notin running
    BY <2>2 DEF IInv, PlacesOK
  <2>4. /\ toRemove' \in Seq(Ids) /\ Range(toRemove') = Range(toRemove) \cup {c}
        /\ IsInjective(toRemove')
    BY <2>1, <2>2, <2>3, AppendNew DEF IInv, Typed, PlacesOK
  <2>5. Live' = Live
    BY <1>1, <2>2, <2>4 DEF Live
  <2>6. Occupied' = Occupied /\ Spawned' = Spawned
    BY <1>1, <2>1 DEF Occupied, Spawned
  <2>7. blacklist' \subseteq IPs
    BY <2>1, <2>2, NamesAssumption DEF IInv, Typed
  <2>8. Typed'
    BY <1>1, <2>1, <2>2, <2>4, <2>7 DEF IInv, Typed
  <2>9. SlotsOK'
    BY <1>1, <2>5, <2>6 DEF IInv, SlotsOK
  <2>10. PlacesOK'
    BY <1>1, <2>1, <2>2, <2>3, <2>4, <2>5 DEF IInv, PlacesOK, ThreadOK
  <2>11. LimitOK' /\ LaunchOK'
    BY <1>1, <2>1, <2>5 DEF IInv, LimitOK, LaunchOK
  <2> QED BY <2>8, <2>9, <2>10, <2>11 DEF IInv
<1> QED BY <1>2, <1>3

(* The last slot takes the place of the one that goes.                     *)
LEMMA RemoveEndedIInv == IInv /\ RemoveEnded => IInv'
<1> SUFFICES ASSUME IInv, RemoveEnded PROVE IInv'
  OBVIOUS
<1> DEFINE c == Head(toRemove)
<1>1. /\ pc["main"] = "remove" /\ toRemove # <<>> /\ Remove(c) /\ toRemove' = Tail(toRemove)
      /\ outgoing' = outgoing \ {c}
      /\ UNCHANGED <<blacklist, running, channel, ended, pc, conn, pointer, launch>>
  BY DEF RemoveEnded
<1>2. /\ c \in Range(toRemove) /\ c \in Ids /\ toRemove' \in Seq(Ids)
      /\ Range(toRemove') = Range(toRemove) \ {c} /\ IsInjective(toRemove')
  BY <1>1, TailDistinct DEF IInv, Typed, PlacesOK
<1> HIDE DEF c
<1>3. c \in Live /\ c \notin running /\ c \notin Range(ended) /\ c \notin Spawned
  BY <1>2, LiveFacts DEF Live, IInv, PlacesOK
<1>4. Live' = Live \ {c} /\ Spawned' = Spawned
  BY <1>1, <1>2, <1>3 DEF Live, Spawned
<1>5. PICK i \in 1..len : /\ memory[cap][i] = c
                          /\ memory' = [memory EXCEPT ![cap][i] = memory[cap][len]]
  BY <1>1 DEF Remove
<1>6. len' = len - 1 /\ UNCHANGED cap
  BY <1>1 DEF Remove
<1>7. cap \in Nat \ {0} /\ len \in Nat \ {0} /\ len <= cap /\ cap \in Capacities /\ DOMAIN memory = Capacities
  BY <1>5, SliceFacts DEF IInv, Typed
<1>8. memory[cap] \in [1..cap -> Ids \cup {NoId}] /\ i \in 1..cap /\ len \in 1..cap
  BY <1>5, <1>7 DEF IInv, Typed
<1>9. /\ memory'[cap] = [memory[cap] EXCEPT ![i] = memory[cap][len]]
      /\ \A k \in Capacities : k # cap => memory'[k] = memory[k]
      /\ DOMAIN memory' = Capacities
  BY <1>5, <1>7
<1>10. \A j \in 1..len' : j \in 1..len /\ j # len /\ j \in 1..cap
  BY <1>6, <1>7
<1>11. \A j \in 1..len' : memory'[cap][j] = IF j = i THEN memory[cap][len] ELSE memory[cap][j]
  BY <1>8, <1>9, <1>10
<1>12. \A j, k \in 1..len : memory[cap][j] = memory[cap][k] => j = k
  BY DEF IInv, SlotsOK
<1>13. Occupied' = Occupied \ {c}
  <2>1. ASSUME NEW j \in 1..len' PROVE memory'[cap][j] \in Occupied \ {c}
    <3>1. memory[cap][len] \in Occupied /\ memory[cap][j] \in Occupied
      BY <1>7, <1>10 DEF Occupied
    <3>2. j = i => memory[cap][len] # c
      BY <1>5, <1>7, <1>10, <1>12
    <3>3. j # i => memory[cap][j] # c
      BY <1>5, <1>10, <1>12
    <3> QED BY <1>11, <3>1, <3>2, <3>3
  <2>2. ASSUME NEW j \in 1..len, memory[cap][j] # c
        PROVE  \E k \in 1..len' : memory'[cap][k] = memory[cap][j]
    <3>1. CASE j = len
      <4>1. i # len /\ i \in 1..len'
        BY <1>5, <1>6, <1>7, <2>2, <3>1
      <4> QED BY <1>11, <3>1, <4>1
    <3>2. CASE j # len
      <4>1. j \in 1..len' /\ j # i
        BY <1>5, <1>6, <1>7, <2>2, <3>2
      <4> QED BY <1>11, <4>1
    <3> QED BY <3>1, <3>2
  <2> QED BY <1>6, <2>1, <2>2 DEF Occupied
<1>14. Typed'
  <2>1. len' \in 0..cap
    BY <1>6, <1>7
  <2>2. \A k \in Capacities : memory'[k] \in [1..k -> Ids \cup {NoId}]
    BY <1>8, <1>9 DEF IInv, Typed
  <2> QED BY <1>1, <1>2, <1>6, <1>9, <2>1, <2>2 DEF IInv, Typed
<1>15. SlotsOK'
  <2>1. \A j, k \in 1..len' : memory'[cap][j] = memory'[cap][k] => j = k
    BY <1>7, <1>10, <1>11, <1>12
  <2> QED BY <1>3, <1>4, <1>6, <1>13, <2>1 DEF IInv, SlotsOK
<1>16. PlacesOK'
  BY <1>1, <1>2, <1>4 DEF IInv, PlacesOK, ThreadOK
<1>17. LaunchOK'
  BY <1>1 DEF IInv, LaunchOK
<1>18. LimitOK'
  <2>1. outgoing' \subseteq Live' /\ pc'["main"] \notin Launching \cup {"count"}
    BY <1>1, <1>4 DEF IInv, LimitOK, Launching, AtHost, Adding
  <2>2. Cardinality(outgoing') <= Cardinality(outgoing)
    BY <1>1, DialledFacts, FS_Subset
  <2>3. Cardinality(outgoing') \in Nat /\ Cardinality(outgoing) \in Nat
    BY <1>1, DialledFacts, FS_Subset, FS_CardinalityType
  <2>4. Cardinality(outgoing) <= MaximumDownloaders
    BY DEF IInv, LimitOK
  <2> QED BY <2>1, <2>2, <2>3, <2>4, ThreadFacts DEF LimitOK
<1> QED BY <1>14, <1>15, <1>16, <1>17, <1>18 DEF IInv

-----------------------------------------------------------------------------
LEMMA StepIInv == IInv /\ [Next]_vars => IInv'
<1> SUFFICES ASSUME IInv, [Next]_vars PROVE IInv'
  OBVIOUS
<1> USE ThreadFacts
<1>1. CASE MainStep
  <2>1. ASSUME NEW c \in Ids, Dial(c) PROVE IInv'
    BY <2>1, OpenIInv DEF Dial
  <2> QED BY <1>1, <2>1, SelectIInv, DrainIInv, RemoveEndedIInv, CompareIInv, CountIInv,
             ConsiderIInv, DialIsOverIInv, CheckOpenIInv, AppendSlotIInv, LeechIInv DEF MainStep
<1>2. CASE ListenerStep
  BY <1>2, CheckOpenIInv, AppendSlotIInv, SeedIInv DEF ListenerStep
<1>3. ASSUME NEW c \in Ids, Accept(c) PROVE IInv'
  BY <1>3, OpenIInv DEF Accept
<1>4. ASSUME NEW c \in Ids, EndConnection(c) PROVE IInv'
  BY <1>4, EndConnectionIInv
<1>5. ASSUME NEW h \in IPs, Expire(h) PROVE IInv'
  BY <1>5, ExpireIInv
<1>6. CASE UNCHANGED vars
  BY <1>6, QuietIInv DEF vars, IInv, Typed
<1> QED BY <1>1, <1>2, <1>3, <1>4, <1>5, <1>6 DEF Next

LEMMA Invariance == Spec => []IInv
BY InitIInv, StepIInv, PTL DEF Spec

-----------------------------------------------------------------------------
(* Every variable keeps its type, the slice has room for all connections,  *)
(* and a pointer into it leads into an array.                              *)
THEOREM TypeCorrect == Spec => []TypeOK
<1>1. IInv => TypeOK
  <2> SUFFICES ASSUME IInv PROVE TypeOK
    OBVIOUS
  <2>1. Range(ended) \subseteq Ids /\ Range(toRemove) \subseteq Ids
    BY LiveFacts DEF Live
  <2> QED BY <2>1, DialledFacts DEF IInv, Typed, TypeOK
<1> QED BY <1>1, Invariance, PTL

(* A connection has one slot from the end of its Add until main learns of  *)
(* its end, however main and the listener interleave inside Add.           *)
THEOREM SlotsAreExact == Spec => []SlotsMatchConnections
<1>1. IInv => SlotsMatchConnections
  <2> SUFFICES ASSUME IInv PROVE SlotsMatchConnections
    OBVIOUS
  <2>1. IsInjective(peers) /\ Pool = Occupied
    BY SliceFacts, SliceLength DEF IInv
  <2> QED BY <2>1 DEF SlotsMatchConnections, IInv, SlotsOK, Live, Spawned
<1> QED BY <1>1, Invariance, PTL

(* Main keeps to its limit although it reads the length of the slice twice *)
(* without the lock, and the listener may append in between.               *)
THEOREM DialsWithinLimit == Spec => []OutgoingLimited
<1>1. IInv => OutgoingLimited
  <2> SUFFICES ASSUME IInv PROVE OutgoingLimited
    OBVIOUS
  <2>1. IsFiniteSet(outgoing) /\ Cardinality(outgoing) \in Nat
    BY DialledFacts
  <2>2. CASE pc["main"] \in Adding
    <3>1. outgoing \cup ({conn["main"]} \ {NoId}) \in SUBSET (outgoing \cup {conn["main"]})
      OBVIOUS
    <3>2. /\ IsFiniteSet(outgoing \cup {conn["main"]})
          /\ Cardinality(outgoing \cup {conn["main"]}) \in Nat
          /\ Cardinality(outgoing \cup {conn["main"]})
               = IF conn["main"] \in outgoing THEN Cardinality(outgoing) ELSE Cardinality(outgoing) + 1
      BY <2>1, FS_AddElement, FS_CardinalityType
    <3>3. Cardinality(outgoing) < MaximumDownloaders
      BY <2>2 DEF IInv, LimitOK, Launching, AtHost
    <3>4. /\ Cardinality(outgoing \cup ({conn["main"]} \ {NoId}))
               <= Cardinality(outgoing \cup {conn["main"]})
          /\ Cardinality(outgoing \cup ({conn["main"]} \ {NoId})) \in Nat
      BY <3>1, <3>2, FS_Subset, FS_CardinalityType
    <3> QED BY <2>1, <3>2, <3>3, <3>4, ThreadFacts DEF OutgoingLimited
  <2>3. CASE pc["main"] \notin Adding
    <3>1. conn["main"] = NoId
      BY <2>3, ThreadFacts DEF IInv, PlacesOK, ThreadOK
    <3>2. outgoing \cup ({conn["main"]} \ {NoId}) = outgoing
      BY <3>1
    <3> QED BY <3>2 DEF IInv, LimitOK, OutgoingLimited
  <2> QED BY <2>2, <2>3
<1> QED BY <1>1, Invariance, PTL
=============================================================================
