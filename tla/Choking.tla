------------------------------- MODULE Choking ------------------------------
(***************************************************************************)
(* Who may download from this client.  Main keeps two maps by peer id: how *)
(* many pieces a peer delivered, and whether it is interested.  Every ten  *)
(* seconds it picks peers from them and offers the list to each connection *)
(* through a channel that holds one list.  What goroutines tell main comes *)
(* through other channels, one for each kind, which it reads in any order. *)
(*                                                                         *)
(* Main and the listener add connections, each in two critical sections,   *)
(* so that a peer may get two.  The maps do not tell them apart: what one  *)
(* says stands for both, and the end of one clears the peer's entries.     *)
(*                                                                         *)
(* A peer is a host here.  Each goroutine reads the channel of its own     *)
(* slot (ConnectionPool shows when it does not), and its step for one      *)
(* message is taken at once.                                               *)
(***************************************************************************)
EXTENDS Integers, Sequences, FiniteSets, Functions

CONSTANTS
  Peers,        \* peer ids
  Conns,        \* connections
  Id,           \* the peer of each connection
  Slots,        \* peers to pick, 5 in the code
  Capacity,     \* of PeerInterested
  MaxGiven,     \* bound: pieces that main counts for one peer
  NoConn,       \* no connection is being added
  Empty         \* a channel with no list in it

ASSUME PeersAssumption == IsFiniteSet(Peers)
ASSUME ConnsAssumption == Id \in [Conns -> Peers] /\ NoConn \notin Conns
ASSUME NumbersAssumption == {Slots, Capacity, MaxGiven} \subseteq Nat \ {0}
ASSUME EmptyAssumption == Empty \notin BOOLEAN

Adders == {"main", "listener"}

VARIABLES
  conn,         \* of each connection: "none"; in connections.peers and "added",
                \* "open" after the handshake, "failed" without it or "ended"
                \* after it (the last two with a report in ConnectionEnded)
  adding,       \* the connection that is between the two halves of its Add
  interested,   \* peer.Interested
  choking,      \* peer.Choking
  list,         \* peersToUnchokeCh: empty, or whether the list in it has the peer
  interestCh,   \* PeerInterested
  interest,     \* interestedPeers: the ids that are true in it
  generosity,   \* generosityMap, 0 for an id that is not in it
  asked,        \* history: peers that said interested since they last had no slot
  late,         \* history: peers that a message from before made interested
  lastWord,     \* history: the connections that spoke last for their peer
  crossed,      \* history: connections whose Add crossed another for the peer
  missed        \* history: connections whose channel was full at the last tick

pool == <<conn, adding, crossed>>
goroutines == <<interested, choking, asked>>
maps == <<interest, generosity, late>>
vars == <<pool, goroutines, list, interestCh, maps, lastWord, missed>>

Opened == {c \in Conns : conn[c] = "open"}
Running == {c \in Conns : conn[c] \in {"added", "open"}}
Twins(c) == {d \in Conns : d # c /\ Id[d] = Id[c]}

Init ==
  /\ conn = [c \in Conns |-> "none"]
  /\ adding = [a \in Adders |-> NoConn]
  /\ interested = [c \in Conns |-> FALSE]
  /\ choking = [c \in Conns |-> TRUE]
  /\ list = [c \in Conns |-> Empty]
  /\ interestCh = <<>>
  /\ interest = {}
  /\ generosity = [p \in Peers |-> 0]
  /\ asked = {} /\ late = {} /\ lastWord = {} /\ crossed = {} /\ missed = {}

-----------------------------------------------------------------------------
(* Adding a connection: main's dial, or the listener.                      *)

(* Add refuses a host that still has its slot.  Variant: it only refuses   *)
(* one whose goroutine runs.                                               *)
NotRunning(c) == Twins(c) \cap Running = {}
Absent(c) == \A d \in Twins(c) : conn[d] = "none"

(* Under the first lock: is the host there?                                *)
Check(a, c) ==
  /\ adding[a] = NoConn
  /\ conn[c] = "none" /\ c \notin Range(adding) /\ Absent(c)
  /\ adding' = [adding EXCEPT ![a] = c]
  /\ crossed' = crossed \ {c}
  /\ UNCHANGED <<conn, goroutines, list, interestCh, maps, lastWord, missed>>

(* Under the second, it gets a slot and a channel, whoever came meanwhile. *)
AddSlot(a) ==
  LET c == adding[a]
      others == Twins(c) \cap Range(adding)
  IN  /\ c # NoConn
      /\ adding' = [adding EXCEPT ![a] = NoConn]
      /\ conn' = [conn EXCEPT ![c] = "added"]
      /\ crossed' = IF others = {} THEN crossed ELSE crossed \cup others \cup {c}
      /\ UNCHANGED <<goroutines, list, interestCh, maps, lastWord, missed>>

-----------------------------------------------------------------------------
(* The goroutine of a connection.                                          *)

Shake(c) ==
  /\ conn[c] = "added"
  /\ conn' = [conn EXCEPT ![c] = "open"]
  /\ UNCHANGED <<adding, crossed, goroutines, list, interestCh, maps, lastWord, missed>>

(* A full channel makes the goroutine wait.                                *)
Room == Len(interestCh) < Capacity

(* MsgInterested and MsgNotInterested.                                     *)
SayInterest(c, value) ==
  /\ conn[c] = "open" /\ Room
  /\ interested' = [interested EXCEPT ![c] = value]
  /\ asked' = IF value THEN asked \cup {Id[c]} ELSE asked
  /\ lastWord' = (lastWord \ Twins(c)) \cup {c}
  /\ interestCh' = Append(interestCh, <<Id[c], value>>)
  /\ UNCHANGED <<pool, choking, list, maps, missed>>

ReadList(c) ==
  /\ conn[c] = "open" /\ list[c] # Empty
  /\ choking' = [choking EXCEPT ![c] = ~list[c]]
  /\ list' = [list EXCEPT ![c] = Empty]
  /\ UNCHANGED <<pool, interested, asked, interestCh, maps, lastWord, missed>>

(* The goroutine reports its end and is gone, with all it knew; nobody     *)
(* will read its channel, and what main still sends there is not kept.     *)
(* Before the handshake is complete, it reports an unknown id.             *)
End(c) ==
  /\ conn[c] \in {"added", "open"}
  /\ conn' = [conn EXCEPT ![c] = IF @ = "added" THEN "failed" ELSE "ended"]
  /\ interested' = [interested EXCEPT ![c] = FALSE]
  /\ choking' = [choking EXCEPT ![c] = TRUE]
  /\ list' = [list EXCEPT ![c] = Empty]
  /\ lastWord' = lastWord \ {c}
  /\ missed' = missed \ {c}
  /\ UNCHANGED <<adding, crossed, asked, interestCh, maps>>

-----------------------------------------------------------------------------
(* chokeAlgorithm.                                                         *)

(* Variant: one slot stays free when there are peers for all.              *)
FewerThanMost == Cardinality(interest) < Slots - 1
FewerThanSlots == Cardinality(interest) < Slots

(* The lists it can return, as sets; a slot that stays empty holds "",     *)
(* which is no peer's id.  The most generous take all slots but one, and   *)
(* one of the other givers, drawn at random, takes the last.               *)
Givers == {p \in interest : generosity[p] > 0}
MostGenerous(S) ==
  /\ Cardinality(S) = Slots - 1
  /\ \A p \in S, q \in Givers \ S : generosity[p] >= generosity[q]
Picks ==
  CASE FewerThanSlots -> {interest}
    [] ~FewerThanSlots /\ Cardinality(Givers) < Slots -> {Givers}
    [] OTHER -> {S \in SUBSET Givers : \E p \in S : MostGenerous(S \ {p})}

-----------------------------------------------------------------------------
(* Main's loop.                                                            *)

(* updateOnlineConnections, at the end of every iteration: the ends that   *)
(* were reported free their slots and clear both maps, whatever the        *)
(* iteration has just put there and whoever else has the id.               *)
EndIteration(newInterest, newGenerosity, newLate) ==
  LET ended == {c \in Conns : conn[c] = "ended"}
      gone == {Id[c] : c \in ended}
      left == gone \ {Id[c] : c \in Running}
  IN  /\ adding["main"] = NoConn
      /\ conn' = [c \in Conns |-> IF conn[c] \in {"failed", "ended"} THEN "none" ELSE conn[c]]
      /\ interest' = newInterest \ gone
      /\ generosity' = [p \in Peers |-> IF p \in gone THEN 0 ELSE newGenerosity[p]]
      /\ asked' = asked \ left /\ late' = newLate \ left
      /\ lastWord' = lastWord \ {c \in crossed : Twins(c) \cap ended # {}}
      /\ UNCHANGED <<adding, crossed, interested, choking>>

(* Variant: every message counts as interest.                              *)
AnyMessage(m) == interest \cup {m[1]}
NewInterest(m) == IF m[2] THEN interest \cup {m[1]} ELSE interest \ {m[1]}

RecordInterest ==
  /\ interestCh # <<>>
  /\ interestCh' = Tail(interestCh)
  /\ LET m == Head(interestCh)
         isLate == m[2] /\ m[1] \notin asked
     IN  EndIteration(NewInterest(m), generosity, IF isLate THEN late \cup {m[1]} ELSE late)
  /\ UNCHANGED <<list, missed>>

(* Results may hold pieces of any peer, however long ago its connection    *)
(* ended; an id that has no entry gets one.                                *)
RecordPiece(p) ==
  /\ generosity[p] < MaxGiven
  /\ EndIteration(interest, [generosity EXCEPT ![p] = @ + 1], late)
  /\ UNCHANGED <<list, missed, interestCh>>

(* A list that finds the channel full is lost.  Variant: only the picked   *)
(* peers hear of it.                                                       *)
ThePicked(S) == {c \in Running : Id[c] \in S}
Hearers(S) == Running

Tick ==
  /\ \E S \in Picks :
       list' = [c \in Conns |-> IF c \in Hearers(S) /\ list[c] = Empty THEN Id[c] \in S ELSE list[c]]
  /\ missed' = {c \in Conns : list[c] # Empty}
  /\ EndIteration(interest, generosity, late)
  /\ UNCHANGED interestCh

(* The other timers, and Uploaded.                                         *)
Wake == EndIteration(interest, generosity, late) /\ UNCHANGED <<list, missed, interestCh>>

-----------------------------------------------------------------------------
Main == RecordInterest \/ Tick \/ Wake \/ (\E p \in Peers : RecordPiece(p))

Next ==
  \/ Main
  \/ \E a \in Adders : AddSlot(a) \/ \E c \in Conns : Check(a, c)
  \/ \E c \in Conns :
       \/ Shake(c)
       \/ \E value \in BOOLEAN : SayInterest(c, value)
       \/ ReadList(c)
       \/ End(c)

Spec == Init /\ [][Next]_vars

(* Main is not in GetTrackerFromFile for ever, its select does not pass    *)
(* over a channel that is ready again and again, and goroutines read.      *)
FairSpec ==
  /\ Spec
  /\ WF_vars(Main) /\ WF_vars(AddSlot("main"))
  /\ SF_vars(Tick) /\ SF_vars(RecordInterest)
  /\ \A c \in Conns : WF_vars(ReadList(c))

-----------------------------------------------------------------------------
(* Properties.                                                             *)

Pending(p) == \E value \in BOOLEAN : <<p, value>> \in Range(interestCh)

(* The map agrees with the connection that spoke last for its peer, once   *)
(* main has read what it was sent: although the end of a connection comes  *)
(* through another channel and may overtake messages, or be overtaken,     *)
(* neither a message nor the end of an earlier connection undoes what the  *)
(* peer says on the present one.  Only a connection whose Add crossed that *)
(* of another for the same peer can lose its word, by the other's end.     *)
InterestNotForgotten ==
  \A c \in Opened \cap lastWord :
    ~Pending(Id[c]) => (Id[c] \in interest <=> interested[c])

(* Nobody is unchoked who has not asked, on this connection or on one that *)
(* had a slot at the same time, but for a peer whose interest main heard   *)
(* of when the connection before was gone.                                 *)
UnchokedHasAsked ==
  \A c \in Opened : ~choking[c] => Id[c] \in asked \cup late

(* The connections that have read the last list leave no more than Slots   *)
(* peers unchoked, whoever came, went or was passed over since.            *)
SlotsRespected ==
  Cardinality({Id[c] : c \in {d \in Opened \ missed : ~choking[d] /\ list[d] = Empty}}) <= Slots

(* A connection that stays, stays interested and has the last word for its *)
(* peer is unchoked in the end, unless there are as many interested peers  *)
(* as slots again and again.                                               *)
ServedWhenFew ==
  \A c \in Conns :
    <>[](c \in Opened \cap lastWord /\ interested[c] /\ Cardinality(interest) < Slots)
      => <>[](~choking[c])
=============================================================================
