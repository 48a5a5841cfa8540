--------------------------- MODULE HandshakeProofs --------------------------
(***************************************************************************)
(* Proofs about Handshake, for any set of torrents and any number of       *)
(* messages.                                                               *)
(***************************************************************************)
EXTENDS Handshake, TLAPS, SequenceTheorems

(* What is left of a short list when its first step is done.               *)
LEMMA TailOf4 == \A a, b, c, d : Tail(<<a, b, c, d>>) = <<b, c, d>>
OBVIOUS
LEMMA TailOf3 == \A a, b, c : Tail(<<a, b, c>>) = <<b, c>>
OBVIOUS
LEMMA TailOf2 == \A a, b : Tail(<<a, b>>) = <<b>>
OBVIOUS
LEMMA TailOf1 == \A a : Tail(<<a>>) = <<>>
OBVIOUS

LEMMA NotEmpty ==
  /\ \A a : <<a>> # <<>>
  /\ \A a, b : <<a, b>> # <<>>
  /\ \A a, b, c : <<a, b, c>> # <<>>
  /\ \A a, b, c, d : <<a, b, c, d>> # <<>>
OBVIOUS

LEMMA ListTails ==
  /\ Tail(Speak) = <<"accept handshake", "send bitfield", "loop">>
  /\ Tail(Listen) = <<"send handshake", "send bitfield", "loop">>
  /\ Tail(<<"accept handshake", "send bitfield", "loop">>) = <<"send bitfield", "loop">>
  /\ Tail(<<"send handshake", "send bitfield", "loop">>) = <<"send bitfield", "loop">>
  /\ Tail(<<"send bitfield", "loop">>) = <<"loop">>
  /\ Tail(Leaving) = <<"close">>
  /\ Tail(<<"close">>) = <<>>
<1>1. /\ Tail(Speak) = <<"accept handshake", "send bitfield", "loop">>
      /\ Tail(Listen) = <<"send handshake", "send bitfield", "loop">>
  BY TailOf4 DEF Speak, Listen
<1>2. /\ Tail(<<"accept handshake", "send bitfield", "loop">>) = <<"send bitfield", "loop">>
      /\ Tail(<<"send handshake", "send bitfield", "loop">>) = <<"send bitfield", "loop">>
  BY TailOf3
<1>3. /\ Tail(<<"send bitfield", "loop">>) = <<"loop">> /\ Tail(Leaving) = <<"close">>
  BY TailOf2 DEF Leaving
<1>4. Tail(<<"close">>) = <<>>
  BY TailOf1
<1> QED BY <1>1, <1>2, <1>3, <1>4

LEMMA ListHeads ==
  /\ Head(Speak) = "send handshake"
  /\ Head(Listen) = "accept handshake"
  /\ Head(<<"accept handshake", "send bitfield", "loop">>) = "accept handshake"
  /\ Head(<<"send handshake", "send bitfield", "loop">>) = "send handshake"
  /\ Head(<<"send bitfield", "loop">>) = "send bitfield"
  /\ Head(<<"loop">>) = "loop"
  /\ Head(Leaving) = "report"
  /\ Head(<<"close">>) = "close"
  /\ Head(Forgotten) = "be collected"
BY DEF Speak, Listen, Leaving, Forgotten

LEMMA OtherEnd ==
  \A e \in Ends : Other(e) \in Ends /\ Other(e) # e /\ Other(Other(e)) = e
BY DEF Ends, Other

-----------------------------------------------------------------------------
(* The lists of an end, before the handshake that it accepts, behind it,   *)
(* and when it has reported.                                               *)

Early == {Speak, <<"accept handshake", "send bitfield", "loop">>, Listen}
Agreed == {<<"send handshake", "send bitfield", "loop">>, <<"send bitfield", "loop">>, <<"loop">>}
Over == {<<"close">>, <<>>}
Lists == Early \cup Agreed \cup Over \cup {Leaving, Forgotten}

LEMMA EarlyLists ==
  \A l \in Early :
    /\ l # <<>> /\ l \notin Over
    /\ Head(l) \in {"send handshake", "accept handshake"}
    /\ Head(l) = "send handshake" => Tail(l) \in Early /\ Head(Tail(l)) = "accept handshake"
    /\ Head(l) = "accept handshake" => Tail(l) \in Agreed
<1>1. \A l \in Early : l # <<>>
  BY NotEmpty, Zenon DEF Early, Speak, Listen
<1>2. \A l \in Early : Head(l) \in {"send handshake", "accept handshake"}
  BY ListHeads DEF Early
<1>3. \A l \in Early : l \notin Over
  BY <1>1, <1>2, ListHeads DEF Over
<1> QED BY <1>1, <1>2, <1>3, ListHeads, ListTails DEF Early, Agreed

LEMMA AgreedLists ==
  \A l \in Agreed :
    /\ l # <<>> /\ l \notin Over
    /\ Head(l) \in {"send handshake", "send bitfield", "loop"}
    /\ Head(l) # "loop" => Tail(l) \in Agreed
<1>1. \A l \in Agreed : l # <<>>
  BY NotEmpty, Zenon DEF Agreed
<1>2. \A l \in Agreed : Head(l) \in {"send handshake", "send bitfield", "loop"}
  BY ListHeads DEF Agreed
<1>3. \A l \in Agreed : l \notin Over
  BY <1>1, <1>2, ListHeads DEF Over
<1> QED BY <1>1, <1>2, <1>3, ListHeads, ListTails DEF Agreed

LEMMA LastLists ==
  /\ \A l \in {Leaving, Forgotten} :
       l # <<>> /\ l \notin Over /\ l \notin Agreed /\ Head(l) \in {"report", "be collected"}
  /\ Tail(Leaving) = <<"close">>
  /\ \A l \in Over : l # <<>> => Head(l) = "close" /\ Tail(l) \in Over
  /\ \A l \in Over : l \notin Agreed
<1>1. \A l \in {Leaving, Forgotten} : l # <<>>
  BY NotEmpty, Zenon DEF Leaving, Forgotten
<1>2. \A l \in {Leaving, Forgotten} : l \notin Over /\ l \notin Agreed
  BY <1>1, AgreedLists, ListHeads DEF Over
<1>3. \A l \in Over : l # <<>> => Head(l) = "close" /\ Tail(l) \in Over
  BY ListHeads, ListTails DEF Over
<1> QED BY <1>1, <1>2, <1>3, ListHeads, ListTails, AgreedLists

-----------------------------------------------------------------------------
(* The inductive invariant.  Behind the handshake it accepted, an end has  *)
(* met one of its own torrent, since every handshake on a wire tells the   *)
(* truth about its sender; and an end is over when it has reported once.   *)

Truths(e) == {Handshake(torrent[Other(e)]), Field(TRUE), Field(FALSE), Message}
WireOK ==
  /\ DOMAIN wire = Ends
  /\ \A e \in Ends : wire[e] \in Seq(Truths(e))

TodoOK ==
  /\ todo \in [Ends -> Lists]
  /\ \A e \in Ends : todo[e] \in Agreed => torrent[e] = torrent[Other(e)]

CountOK ==
  /\ reported \in [Ends -> {0, 1}]
  /\ \A e \in Ends : reported[e] = 1 <=> todo[e] \in Over

IInv ==
  /\ valid \in [Ends -> BOOLEAN]
  /\ WireOK /\ TodoOK /\ CountOK

LEMMA InitIInv == Init => IInv
<1> SUFFICES ASSUME Init PROVE IInv
  OBVIOUS
<1>1. todo \in [Ends -> {Speak, Listen}]
  BY DEF Init, Script
<1>2. Speak \in Early /\ Listen \in Early /\ Speak \notin Agreed /\ Listen \notin Agreed
  <2>1. Speak \in Early /\ Listen \in Early
    BY DEF Early
  <2>2. Listen \notin Agreed
    BY AgreedLists, ListHeads
  <2>3. Speak \notin Agreed
    BY DEF Speak, Agreed
  <2> QED BY <2>1, <2>2, <2>3
<1>3. TodoOK
  BY <1>1, <1>2 DEF TodoOK, Lists
<1>4. CountOK
  <2>1. \A e \in Ends : todo[e] \notin Over
    BY <1>1, <1>2, EarlyLists
  <2>2. reported \in [Ends -> {0, 1}] /\ \A e \in Ends : reported[e] = 0
    BY DEF Init
  <2> QED BY <2>1, <2>2 DEF CountOK
<1>5. WireOK /\ valid \in [Ends -> BOOLEAN]
  BY DEF Init, WireOK
<1> QED BY <1>3, <1>4, <1>5 DEF IInv

(* What an end writes is true.                                             *)
LEMMA WriteTruth ==
  ASSUME IInv, NEW e \in Ends, NEW m \in Truths(Other(e)), Write(e, m), UNCHANGED about
  PROVE  WireOK'
<1>1. Other(e) \in Ends /\ \A x \in Ends : Truths(x)' = Truths(x)
  BY OtherEnd DEF Truths, about
<1>2. CASE Reached(e)
  <2>1. wire' = [wire EXCEPT ![Other(e)] = Append(@, m)]
    BY <1>2 DEF Write
  <2>2. \A x \in Ends : wire'[x] \in Seq(Truths(x))
    BY <1>1, <2>1 DEF IInv, WireOK
  <2> QED BY <1>1, <2>1, <2>2 DEF IInv, WireOK
<1>3. CASE ~Reached(e)
  BY <1>1, <1>3 DEF Write, IInv, WireOK
<1> QED BY <1>2, <1>3

LEMMA CloseTruth ==
  ASSUME IInv, NEW e \in Ends, CloseSocket(e), UNCHANGED about
  PROVE  WireOK'
<1>1. \A x \in Ends : Truths(x)' = Truths(x)
  BY DEF Truths, about
<1>2. PICK rest \in {wire[Other(e)], <<>>} :
        wire' = [x \in Ends |-> IF x = e THEN <<>> ELSE rest]
  BY DEF CloseSocket
<1>3. \A x \in Ends : x # e => x = Other(e)
  BY DEF Ends, Other
<1>4. \A x \in Ends : wire'[x] \in Seq(Truths(x))
  <2> SUFFICES ASSUME NEW x \in Ends PROVE wire'[x] \in Seq(Truths(x))
    OBVIOUS
  <2>1. wire'[x] \in {<<>>, wire[x]}
    BY <1>2, <1>3
  <2>2. wire[x] \in Seq(Truths(x))
    BY DEF IInv, WireOK
  <2>3. <<>> \in Seq(Truths(x))
    OBVIOUS
  <2> QED BY <2>1, <2>2, <2>3
<1> QED BY <1>1, <1>2, <1>4 DEF WireOK

(* What is read was written.                                               *)
LEMMA ReadTruth ==
  ASSUME IInv, NEW e \in Ends, wire[e] # <<>>, wire' = [wire EXCEPT ![e] = Tail(@)],
         UNCHANGED about
  PROVE  Head(wire[e]) \in Truths(e) /\ WireOK'
<1>1. DOMAIN wire = Ends /\ \A x \in Ends : wire[x] \in Seq(Truths(x))
  BY DEF IInv, WireOK
<1>2. Head(wire[e]) \in Truths(e) /\ Tail(wire[e]) \in Seq(Truths(e))
  BY <1>1, HeadTailProperties
<1>3. \A x \in Ends : Truths(x)' = Truths(x)
  BY DEF Truths, about
<1>4. \A x \in Ends : wire'[x] \in Seq(Truths(x))
  BY <1>1, <1>2
<1> QED BY <1>1, <1>2, <1>3, <1>4 DEF WireOK

(* A step that leaves the lists alone.                                     *)
LEMMA WireStep ==
  ASSUME IInv, UNCHANGED <<about, todo, reported>>, WireOK'
  PROVE  IInv'
BY DEF IInv, TodoOK, CountOK, about

(* An end goes on to a list of which it may not have reported.             *)
LEMMA TodoStep ==
  ASSUME IInv, NEW e \in Ends, NEW l \in Lists, todo' = [todo EXCEPT ![e] = l],
         todo[e] \notin Over, l \notin Over,
         l \in Agreed => torrent[e] = torrent[Other(e)],
         UNCHANGED <<about, reported>>, WireOK'
  PROVE  IInv'
<1>1. TodoOK'
  BY DEF IInv, TodoOK, about
<1>2. CountOK'
  BY DEF IInv, TodoOK, CountOK
<1> QED BY <1>1, <1>2 DEF IInv, about

LEMMA LeaveStep ==
  ASSUME IInv, NEW e \in Ends, Leave(e), todo[e] \notin Over,
         UNCHANGED <<about, reported>>, WireOK'
  PROVE  IInv'
<1>1. Leaving \in Lists
  BY DEF Lists
<1> QED BY <1>1, LastLists, TodoStep DEF Leave

(* Behind the accepted handshake, lists are followed to the loop.          *)
LEMMA DoingFacts ==
  ASSUME IInv, NEW e \in Ends
  PROVE  /\ Doing(e, "send handshake") =>
              /\ todo[e] \in Early \cup Agreed /\ todo[e] \notin Over
              /\ Tail(todo[e]) \in Lists /\ Tail(todo[e]) \notin Over
              /\ Tail(todo[e]) \in Agreed => todo[e] \in Agreed
         /\ Doing(e, "accept handshake") =>
              todo[e] \in Early /\ todo[e] \notin Over /\ Tail(todo[e]) \in Agreed
         /\ Doing(e, "send bitfield") =>
              todo[e] \in Agreed /\ todo[e] \notin Over /\ Tail(todo[e]) \in Agreed
         /\ Doing(e, "loop") => todo[e] \in Agreed /\ todo[e] \notin Over
         /\ Doing(e, "report") => todo[e] = Leaving /\ todo[e] \notin Over
         /\ Doing(e, "close") => todo[e] \in Over /\ Tail(todo[e]) \in Over
<1>1. todo[e] \in Lists
  BY DEF IInv, TodoOK
<1>2. CASE todo[e] \in Early
  <2>1. Doing(e, "send handshake") =>
          Tail(todo[e]) \in Early /\ Tail(todo[e]) \notin Agreed /\ Tail(todo[e]) \notin Over
    BY <1>2, EarlyLists, AgreedLists DEF Doing
  <2> QED BY <1>2, <2>1, EarlyLists DEF Doing, Lists
<1>3. CASE todo[e] \in Agreed
  BY <1>3, AgreedLists DEF Doing, Lists
<1>4. CASE todo[e] \in Over
  BY <1>4, LastLists DEF Doing
<1>5. CASE todo[e] \in {Leaving, Forgotten}
  BY <1>5, LastLists, ListHeads DEF Doing
<1> QED BY <1>1, <1>2, <1>3, <1>4, <1>5 DEF Lists

-----------------------------------------------------------------------------
(* The invariant, action by action.                                        *)

(* A handshake is accepted that the other end has sent: they agree.        *)
LEMMA AcceptHandshakeIInv ==
  ASSUME IInv, NEW e \in Ends, AcceptHandshake(e)
  PROVE  IInv'
<1>1. /\ Doing(e, "accept handshake") /\ wire[e] # <<>>
      /\ wire' = [wire EXCEPT ![e] = Tail(@)]
      /\ UNCHANGED <<about, reported>>
  BY DEF AcceptHandshake
<1>2. \A t, u : /\ Handshake(t) = Handshake(u) => t = u
               /\ Handshake(t) # Field(u) /\ Handshake(t) # Message
  <2>1. \A t, u : /\ Handshake(t).kind = "handshake" /\ Handshake(t).torrent = t
                 /\ Field(u).kind = "bitfield" /\ Message.kind = "message"
    BY DEF Handshake, Field, Message
  <2> QED BY <2>1
<1>3. WireOK' /\ Head(wire[e]) \in Truths(e)
  BY <1>1, ReadTruth
<1>4. CASE RightHandshake(e, Head(wire[e]))
  <2>1. Handshake(torrent[e]) \in Truths(e)
    BY <1>3, <1>4 DEF RightHandshake
  <2>2. torrent[e] = torrent[Other(e)]
    BY <1>2, <2>1 DEF Truths
  <2>3. todo' = [todo EXCEPT ![e] = Tail(todo[e])]
    BY <1>4 DEF AcceptHandshake, Step
  <2>4. Tail(todo[e]) \in Agreed /\ todo[e] \notin Over
    BY <1>1, DoingFacts
  <2>5. Tail(todo[e]) \in Lists /\ Tail(todo[e]) \notin Over
    BY <2>4, AgreedLists DEF Lists
  <2> QED BY <1>1, <1>3, <2>2, <2>3, <2>4, <2>5, TodoStep
<1>5. CASE ~RightHandshake(e, Head(wire[e]))
  <2>1. Leave(e)
    BY <1>5 DEF AcceptHandshake
  <2>2. todo[e] \notin Over
    BY <1>1, DoingFacts
  <2> QED BY <1>1, <1>3, <2>1, <2>2, LeaveStep
<1> QED BY <1>4, <1>5

LEMMA SendIInv ==
  ASSUME IInv, NEW e \in Ends, SendHandshake(e) \/ SendBitfield(e) \/ SendMessage(e)
  PROVE  IInv'
<1>1. /\ Handshake(torrent[e]) \in Truths(Other(e))
      /\ Field(valid[e]) \in Truths(Other(e)) /\ Message \in Truths(Other(e))
  BY OtherEnd DEF Truths, IInv
<1>2. UNCHANGED <<about, reported>>
  BY DEF SendHandshake, SendBitfield, SendMessage
<1>3. WireOK'
  BY <1>1, <1>2, WriteTruth DEF SendHandshake, SendBitfield, SendMessage
<1>4. CASE SendHandshake(e)
  <2>1. Doing(e, "send handshake") /\ todo' = [todo EXCEPT ![e] = Tail(todo[e])]
    BY <1>4 DEF SendHandshake, Step
  <2>2. todo[e] \in Agreed => torrent[e] = torrent[Other(e)]
    BY DEF IInv, TodoOK
  <2> QED BY <1>2, <1>3, <2>1, <2>2, DoingFacts, TodoStep
<1>5. CASE SendBitfield(e)
  <2>1. Doing(e, "send bitfield") /\ todo' = [todo EXCEPT ![e] = Tail(todo[e])]
    BY <1>5 DEF SendBitfield, Step
  <2>2. /\ todo[e] \in Agreed /\ todo[e] \notin Over
        /\ Tail(todo[e]) \in Lists /\ Tail(todo[e]) \notin Over
    BY <2>1, DoingFacts, AgreedLists DEF Lists
  <2>3. torrent[e] = torrent[Other(e)]
    BY <2>2 DEF IInv, TodoOK
  <2> QED BY <1>2, <1>3, <2>1, <2>2, <2>3, TodoStep
<1>6. CASE SendMessage(e)
  BY <1>2, <1>3, <1>6, WireStep DEF SendMessage
<1> QED BY <1>4, <1>5, <1>6

LEMMA LeaveIInv ==
  ASSUME IInv, NEW e \in Ends,
         SendFails(e) \/ NoHandshake(e) \/ ConnectionLost(e) \/ ContextDone(e)
  PROVE  IInv'
<1>1. /\ Leave(e) /\ UNCHANGED <<about, reported, wire>>
      /\ Doing(e, "send handshake") \/ Doing(e, "send bitfield")
         \/ Doing(e, "accept handshake") \/ Doing(e, "loop")
  BY DEF SendFails, NoHandshake, ConnectionLost, ContextDone, LeaveLoop
<1>2. WireOK'
  BY <1>1 DEF IInv, WireOK, Truths, about
<1>3. todo[e] \notin Over
  BY <1>1, DoingFacts
<1> QED BY <1>1, <1>2, <1>3, LeaveStep

LEMMA HandleMessageIInv ==
  ASSUME IInv, NEW e \in Ends, HandleMessage(e)
  PROVE  IInv'
<1>1. Doing(e, "loop") /\ UNCHANGED <<about, reported>>
  BY DEF HandleMessage
<1>2. todo[e] \notin Over
  BY <1>1, DoingFacts
<1>3. CASE Rejected(Head(held[e]))
  <2>1. CloseSocket(e) /\ Leave(e)
    BY <1>3 DEF HandleMessage
  <2> QED BY <1>1, <1>2, <2>1, CloseTruth, LeaveStep
<1>4. CASE ~Rejected(Head(held[e]))
  <2>1. UNCHANGED <<todo, wire>>
    BY <1>4 DEF HandleMessage
  <2>2. WireOK'
    BY <1>1, <2>1 DEF IInv, WireOK, Truths, about
  <2> QED BY <1>1, <2>1, <2>2, WireStep
<1> QED BY <1>3, <1>4

(* The report is the step from a list without it to one behind it.         *)
LEMMA ReportIInv ==
  ASSUME IInv, NEW e \in Ends, Report(e)
  PROVE  IInv'
<1>1. /\ Doing(e, "report") /\ todo' = [todo EXCEPT ![e] = Tail(todo[e])]
      /\ reported' = [reported EXCEPT ![e] = @ + 1]
      /\ UNCHANGED <<about, wire>>
  BY DEF Report, Step
<1>2. todo[e] \notin Over /\ Tail(todo[e]) \in Over
  BY <1>1, DoingFacts, LastLists DEF Over
<1>3. reported[e] = 0
  BY <1>2 DEF IInv, CountOK
<1>4. WireOK'
  BY <1>1 DEF IInv, WireOK, Truths, about
<1>5. TodoOK'
  BY <1>1, <1>2, LastLists DEF IInv, TodoOK, Lists, about
<1>6. CountOK'
  BY <1>1, <1>2, <1>3 DEF IInv, TodoOK, CountOK
<1> QED BY <1>1, <1>4, <1>5, <1>6 DEF IInv, about

LEMMA CloseIInv ==
  ASSUME IInv, NEW e \in Ends, Close(e)
  PROVE  IInv'
<1>1. /\ Doing(e, "close") /\ todo' = [todo EXCEPT ![e] = Tail(todo[e])]
      /\ UNCHANGED <<about, reported>>
  BY DEF Close, Step
<1>2. todo[e] \in Over /\ Tail(todo[e]) \in Over
  BY <1>1, DoingFacts
<1>3. WireOK'
  <2>1. CASE open[e]
    BY <1>1, <2>1, CloseTruth DEF Close
  <2>2. CASE ~open[e]
    BY <1>1, <2>2 DEF Close, IInv, WireOK, Truths, about
  <2> QED BY <2>1, <2>2
<1>4. TodoOK'
  BY <1>1, <1>2, LastLists DEF IInv, TodoOK, Lists, about
<1>5. CountOK'
  BY <1>1, <1>2 DEF IInv, TodoOK, CountOK
<1> QED BY <1>1, <1>3, <1>4, <1>5 DEF IInv, about

(* A host that the pool refuses is forgotten, not reported.                *)
LEMMA RefuseIInv ==
  ASSUME IInv, NEW e \in Ends, Refuse(e)
  PROVE  IInv'
<1>1. /\ todo[e] \in {Speak, Listen}
      /\ todo' = [todo EXCEPT ![e] = Forgotten]
      /\ UNCHANGED <<about, wire, reported>>
  BY DEF Refuse, Script
<1>2. todo[e] \notin Over
  BY <1>1, EarlyLists DEF Early
<1>3. Forgotten \in Lists /\ Forgotten \notin Over /\ Forgotten \notin Agreed
  BY LastLists DEF Lists
<1>4. WireOK'
  BY <1>1 DEF IInv, WireOK, Truths, about
<1> QED BY <1>1, <1>2, <1>3, <1>4, TodoStep

LEMMA NetworkIInv ==
  ASSUME IInv, Cut \/ (\E e \in Ends : Reader(e) \/ Collect(e))
  PROVE  IInv'
<1>1. UNCHANGED <<about, todo, reported>>
  BY DEF Collect, Cut, Reader, Read, ReadFails
<1>2. \A x \in Ends : Truths(x)' = Truths(x)
  BY <1>1 DEF Truths, about
<1>3. ASSUME NEW e \in Ends, Collect(e) PROVE IInv'
  <2>1. CloseSocket(e)
    BY <1>3 DEF Collect
  <2> QED BY <1>1, <2>1, CloseTruth, WireStep
<1>4. CASE Cut
  <2>1. wire' = [e \in Ends |-> <<>>]
    BY <1>4 DEF Cut
  <2>2. WireOK'
    BY <2>1 DEF WireOK
  <2> QED BY <1>1, <2>2, WireStep
<1>5. ASSUME NEW e \in Ends, Read(e) PROVE WireOK'
  BY <1>1, <1>5, ReadTruth DEF Read
<1>6. ASSUME NEW e \in Ends, ReadFails(e) PROVE WireOK'
  BY <1>2, <1>6 DEF ReadFails, IInv, WireOK
<1> QED BY <1>1, <1>3, <1>4, <1>5, <1>6, WireStep DEF Reader

LEMMA StepIInv == IInv /\ [Next]_vars => IInv'
<1> SUFFICES ASSUME IInv, [Next]_vars PROVE IInv'
  OBVIOUS
<1>1. ASSUME NEW e \in Ends, Goroutines(e) PROVE IInv'
  BY <1>1, SendIInv, LeaveIInv, AcceptHandshakeIInv, HandleMessageIInv, ReportIInv, CloseIInv
     DEF Goroutines
<1>2. ASSUME NEW e \in Ends, Reader(e) \/ SendMessage(e) \/ ContextDone(e) PROVE IInv'
  BY <1>2, NetworkIInv, SendIInv, LeaveIInv
<1>3. CASE Cut \/ (\E e \in Ends : Refuse(e) \/ Collect(e))
  BY <1>3, RefuseIInv, NetworkIInv
<1>4. CASE UNCHANGED vars
  <2>1. UNCHANGED <<about, todo, reported, wire>>
    BY <1>4 DEF vars
  <2>2. WireOK'
    BY <2>1 DEF IInv, WireOK, Truths, about
  <2> QED BY <2>1, <2>2, WireStep
<1> QED BY <1>1, <1>2, <1>3, <1>4 DEF Next

LEMMA Invariance == Spec => []IInv
BY InitIInv, StepIInv, PTL DEF Spec

(* Whatever is lost, cut, closed or refused on the way, an end that is in  *)
(* its loop talks to an end of its own torrent.                            *)
THEOREM OneTorrent == Spec => []SameTorrent
<1>1. IInv => SameTorrent
  <2> SUFFICES ASSUME IInv, NEW e \in Ends, Doing(e, "loop")
               PROVE  torrent[e] = torrent[Other(e)]
    BY DEF SameTorrent
  <2>1. todo[e] \in Agreed
    BY DoingFacts
  <2> QED BY <2>1 DEF IInv, TodoOK
<1> QED BY <1>1, Invariance, PTL

(* On every path out of a connection, main hears of its end exactly once.  *)
THEOREM HeardOnce == Spec => []ReportedOnce
<1>1. IInv => ReportedOnce
  BY DEF IInv, CountOK, ReportedOnce, Over
<1> QED BY <1>1, Invariance, PTL

-----------------------------------------------------------------------------
(* The order on a wire.  An end that has not accepted a handshake gets one *)
(* next, if it gets anything, and then a bitfield; an end whose loop has   *)
(* no bitfield gets one next.  A wire may be emptied by a close or a cut,  *)
(* but then the end that writes to it writes nothing more that arrives.    *)

ToSpeak == {Speak, Listen, <<"send handshake", "send bitfield", "loop">>}
ToField == {<<"accept handshake", "send bitfield", "loop">>, <<"send bitfield", "loop">>}
Mute(l) == l \notin ToSpeak \cup ToField \cup {<<"loop">>}

(* What an end has to do, as far as the other end may notice.              *)
Audible(o) == IF Reached(o) THEN todo[o] ELSE <<>>

FieldNext(w, l) ==
  IF w = <<>> THEN l \in ToField \/ Mute(l) ELSE Head(w).kind = "bitfield"
HandshakeNext(w, l) ==
  IF w = <<>> THEN l \in ToSpeak \/ Mute(l)
  ELSE Head(w).kind = "handshake" /\ FieldNext(Tail(w), l)

(* The lists of an end that has accepted a handshake and has no reader.    *)
Greeted == {<<"send handshake", "send bitfield", "loop">>, <<"send bitfield", "loop">>}
WantsField(e) == todo[e] \in Greeted \/ (reader[e] = "reads" /\ ~known[e])

InOrder(e) ==
  open[e] =>
    /\ todo[e] \in Early => HandshakeNext(wire[e], Audible(Other(e)))
    /\ WantsField(e) => FieldNext(wire[e], Audible(Other(e)))

ReaderOK ==
  /\ open \in [Ends -> BOOLEAN]
  /\ reader \in [Ends -> {"none", "reads", "holds", "gone"}]
  /\ known \in [Ends -> BOOLEAN]
  /\ DOMAIN held = Ends
  /\ \A e \in Ends : reader[e] # "none" => todo[e] \notin Early \cup Greeted

OrderOK == ReaderOK /\ FieldFirst /\ \A e \in Ends : InOrder(e)

OInv == IInv /\ OrderOK

(* The lists, as the end that reads and the end that writes see them.      *)
LEMMA ListOrder ==
  /\ \A l \in ToSpeak :
       /\ l \notin ToField /\ l # <<"loop">> /\ ~Mute(l)
       /\ Head(l) \in {"send handshake", "accept handshake"}
       /\ Head(l) = "send handshake" => Tail(l) \in ToField
       /\ Head(l) = "accept handshake" => Tail(l) \in ToSpeak
  /\ \A l \in ToField :
       /\ l # <<"loop">> /\ ~Mute(l)
       /\ Head(l) \in {"send bitfield", "accept handshake"}
       /\ Head(l) = "send bitfield" => Tail(l) = <<"loop">>
       /\ Head(l) = "accept handshake" => Tail(l) \in ToField
  /\ ~Mute(<<"loop">>)
  /\ \A l \in {Leaving, Forgotten} \cup Over : Mute(l)
  /\ Early \cup Agreed = ToSpeak \cup ToField \cup {<<"loop">>}
  /\ Agreed = Greeted \cup {<<"loop">>}
<1>1. /\ \A l \in ToSpeak : Head(l) \in {"send handshake", "accept handshake"}
      /\ \A l \in ToField : Head(l) \in {"send bitfield", "accept handshake"}
  BY ListHeads DEF ToSpeak, ToField
<1>2. \A l \in ToSpeak : l \notin ToField
  <2>1. Listen \notin ToField
    BY ListTails, ListHeads DEF ToField
  <2>2. Speak \notin ToField /\ <<"send handshake", "send bitfield", "loop">> \notin ToField
    BY <1>1, ListHeads
  <2> QED BY <2>1, <2>2 DEF ToSpeak
<1>3. \A l \in ToSpeak \cup ToField : l # <<"loop">>
  BY <1>1, ListHeads
<1>4. \A l \in ToSpeak :
        /\ Head(l) = "send handshake" => Tail(l) \in ToField
        /\ Head(l) = "accept handshake" => Tail(l) \in ToSpeak
  BY ListHeads, ListTails DEF ToSpeak, ToField
<1>5. \A l \in ToField :
        /\ Head(l) = "send bitfield" => Tail(l) = <<"loop">>
        /\ Head(l) = "accept handshake" => Tail(l) \in ToField
  BY ListHeads, ListTails DEF ToField
<1>6. \A l \in {Leaving, Forgotten} \cup Over : Mute(l)
  <2>1. \A l \in ToSpeak \cup ToField \cup {<<"loop">>} :
          l # <<>> /\ Head(l) \notin {"report", "be collected", "close"}
    <3>1. \A l \in ToSpeak \cup ToField \cup {<<"loop">>} : l # <<>>
      BY NotEmpty, Zenon DEF ToSpeak, ToField, Speak, Listen
    <3> QED BY <1>1, <3>1, ListHeads
  <2> QED BY <2>1, ListHeads DEF Mute, Over
<1>7. Early \cup Agreed = ToSpeak \cup ToField \cup {<<"loop">>}
  BY DEF Early, Agreed, ToSpeak, ToField
<1>8. Agreed = Greeted \cup {<<"loop">>}
  BY DEF Agreed, Greeted
<1>9. ~Mute(<<"loop">>) /\ \A l \in ToSpeak \cup ToField : ~Mute(l)
  BY DEF Mute
<1> QED BY <1>1, <1>2, <1>3, <1>4, <1>5, <1>6, <1>7, <1>8, <1>9

LEMMA ReaderLists ==
  /\ \A l \in Early :
       /\ Head(l) = "send handshake" => Tail(l) \in Early \ Greeted
       /\ Head(l) = "accept handshake" => Tail(l) \in Greeted \ Early
  /\ \A l \in Greeted :
       /\ Head(l) = "send handshake" => Tail(l) \in Greeted \ Early
       /\ Head(l) = "send bitfield" => Tail(l) = <<"loop">>
       /\ Head(l) \in {"send handshake", "send bitfield"}
  /\ \A l \in {<<"loop">>, Leaving, Forgotten} \cup Over : l \notin Early \cup Greeted
<1>1. \A l \in Early : Head(l) = "send handshake" => Tail(l) \in Early \ Greeted
  <2>1. <<"accept handshake", "send bitfield", "loop">> \notin Greeted
    BY ListHeads DEF Greeted
  <2> QED BY <2>1, ListHeads, ListTails DEF Early
<1>2. <<"send bitfield", "loop">> \notin Early
  BY ListHeads DEF Early
<1>3. <<"send handshake", "send bitfield", "loop">> \notin Early
  BY ListHeads, ListTails DEF Early
<1>4. \A l \in Early : Head(l) = "accept handshake" => Tail(l) \in Greeted \ Early
  BY <1>2, <1>3, ListHeads, ListTails DEF Early, Greeted
<1>5. \A l \in Greeted :
        /\ Head(l) = "send handshake" => Tail(l) \in Greeted \ Early
        /\ Head(l) = "send bitfield" => Tail(l) = <<"loop">>
        /\ Head(l) \in {"send handshake", "send bitfield"}
  BY <1>2, ListHeads, ListTails DEF Greeted
<1>6. \A l \in {<<"loop">>, Leaving, Forgotten} \cup Over : l \notin Early \cup Greeted
  <2>1. Early \cup Greeted \subseteq ToSpeak \cup ToField
    BY DEF Early, Greeted, ToSpeak, ToField
  <2> QED BY <2>1, ListOrder DEF Mute
<1> QED BY <1>1, <1>4, <1>5, <1>6

(* A writer that goes on without writing, or that writes what comes next.  *)
Follows(l, k) ==
  /\ l \in ToSpeak => k \in ToSpeak \/ Mute(k)
  /\ l \in ToField => k \in ToField \/ Mute(k)
  /\ Mute(l) => Mute(k)

Writes(l, m, k) ==
  \/ l \in ToSpeak /\ m.kind = "handshake" /\ k \in ToField
  \/ l \in ToField /\ m.kind = "bitfield"
  \/ l = <<"loop">> /\ k = <<"loop">>

LEMMA FollowsKeeps ==
  ASSUME NEW w, NEW l, NEW k, Follows(l, k)
  PROVE  /\ FieldNext(w, l) => FieldNext(w, k)
         /\ HandshakeNext(w, l) => HandshakeNext(w, k)
BY DEF Follows, FieldNext, HandshakeNext

LEMMA WritesKeeps ==
  ASSUME NEW S, NEW w \in Seq(S), NEW m \in S, NEW l, NEW k, Writes(l, m, k)
  PROVE  /\ FieldNext(w, l) => FieldNext(Append(w, m), k)
         /\ HandshakeNext(w, l) => HandshakeNext(Append(w, m), k)
<1>1. /\ Append(w, m) # <<>>
      /\ w = <<>> => Head(Append(w, m)) = m /\ Tail(Append(w, m)) = <<>>
      /\ w # <<>> => /\ Head(Append(w, m)) = Head(w)
                     /\ Tail(Append(w, m)) = Append(Tail(w), m)
                     /\ Tail(w) \in Seq(S)
  OBVIOUS
<1>2. ASSUME NEW v \in Seq(S), FieldNext(v, l) PROVE FieldNext(Append(v, m), k)
  <2>1. CASE v = <<>>
    <3>1. l \in ToField \/ Mute(l)
      BY <1>2, <2>1 DEF FieldNext
    <3>2. m.kind = "bitfield"
      BY <3>1, ListOrder DEF Writes
    <3>3. Append(v, m) # <<>> /\ Head(Append(v, m)) = m
      BY <2>1
    <3> QED BY <3>2, <3>3 DEF FieldNext
  <2>2. CASE v # <<>>
    <3>1. Append(v, m) # <<>> /\ Head(Append(v, m)) = Head(v)
      BY <2>2
    <3> QED BY <1>2, <2>2, <3>1 DEF FieldNext
  <2> QED BY <2>1, <2>2
<1>3. ASSUME HandshakeNext(w, l), w = <<>> PROVE HandshakeNext(Append(w, m), k)
  <2>1. l \in ToSpeak \/ Mute(l)
    BY <1>3 DEF HandshakeNext
  <2>2. m.kind = "handshake" /\ k \in ToField
    BY <2>1, ListOrder DEF Writes
  <2>3. FieldNext(<<>>, k)
    BY <2>2 DEF FieldNext
  <2> QED BY <1>1, <1>3, <2>2, <2>3 DEF HandshakeNext
<1>4. ASSUME HandshakeNext(w, l), w # <<>> PROVE HandshakeNext(Append(w, m), k)
  <2>1. Head(w).kind = "handshake" /\ FieldNext(Tail(w), l)
    BY <1>4 DEF HandshakeNext
  <2>2. FieldNext(Append(Tail(w), m), k)
    BY <1>1, <1>2, <1>4, <2>1
  <2> QED BY <1>1, <1>4, <2>1, <2>2 DEF HandshakeNext
<1> QED BY <1>2, <1>3, <1>4

(* What becomes of one direction: nothing is written, or one message is,   *)
(* or the wire is emptied and the writer is heard no more.                 *)
ExpectsNoMore(e) ==
  /\ open'[e] => open[e]
  /\ todo'[e] \in Early => todo[e] \in Early
  /\ WantsField(e)' => WantsField(e)

LEMMA Unwritten ==
  ASSUME NEW e \in Ends, InOrder(e), ExpectsNoMore(e), wire'[e] = wire[e],
         Follows(Audible(Other(e)), Audible(Other(e))')
  PROVE  InOrder(e)'
BY FollowsKeeps DEF InOrder, ExpectsNoMore

LEMMA Written ==
  ASSUME NEW e \in Ends, InOrder(e), ExpectsNoMore(e), IInv,
         NEW m \in Truths(e), wire'[e] = Append(wire[e], m),
         Writes(Audible(Other(e)), m, Audible(Other(e))')
  PROVE  InOrder(e)'
<1>1. wire[e] \in Seq(Truths(e))
  BY DEF IInv, WireOK
<1> QED BY <1>1, WritesKeeps DEF InOrder, ExpectsNoMore

LEMMA Emptied ==
  ASSUME NEW e \in Ends, wire'[e] = <<>>, Mute(Audible(Other(e))')
  PROVE  InOrder(e)'
BY DEF InOrder, FieldNext, HandshakeNext

LEMMA AudibleFacts ==
  /\ Mute(<<>>)
  /\ \A l : Follows(l, l)
  /\ \A l, k : Mute(k) => Follows(l, k)
  /\ \A o : todo[o] \in {Leaving, Forgotten} \cup Over => Mute(Audible(o))
  /\ \A o : ~Reached(o) => Mute(Audible(o))
<1>1. Mute(<<>>)
  BY ListOrder DEF Over
<1> QED BY <1>1, ListOrder DEF Follows, Audible

(* A step of an end that writes nothing, if sockets and network stay.      *)
LEMMA Moves ==
  ASSUME OInv, NEW e \in Ends, NEW l, todo' = [todo EXCEPT ![e] = l],
         UNCHANGED <<open, cut, readers, known>>,
         l \in Early => todo[e] \in Early, l \in Greeted => todo[e] \in Greeted,
         InOrder(e)', InOrder(Other(e))'
  PROVE  OrderOK'
<1>1. todo \in [Ends -> Lists]
  BY DEF OInv, IInv, TodoOK
<1>2. UNCHANGED <<reader, held>>
  BY DEF readers
<1>3. ReaderOK'
  BY <1>1, <1>2 DEF OInv, OrderOK, ReaderOK
<1>4. FieldFirst'
  BY <1>2 DEF OInv, OrderOK, FieldFirst
<1>5. \A x \in Ends : x = e \/ x = Other(e)
  BY DEF Ends, Other
<1> QED BY <1>3, <1>4, <1>5 DEF OrderOK

(* What is written arrives, or nothing more does.                          *)
LEMMA Delivered ==
  ASSUME OInv, NEW e \in Ends, NEW m \in Truths(Other(e)), Write(e, m),
         UNCHANGED <<open, cut>>, todo'[Other(e)] = todo[Other(e)],
         Writes(todo[e], m, todo'[e]), ExpectsNoMore(e), ExpectsNoMore(Other(e))
  PROVE  InOrder(e)' /\ InOrder(Other(e))'
<1> DEFINE r == Other(e)
<1>1. r \in Ends /\ r # e /\ Other(r) = e
  BY OtherEnd
<1>2. \A x : Reached(x)' <=> Reached(x)
  BY DEF Reached
<1>3. InOrder(e) /\ InOrder(r) /\ IInv
  BY <1>1 DEF OInv, OrderOK
<1>4. CASE Reached(e)
  <2>1. wire' = [wire EXCEPT ![r] = Append(@, m)]
    BY <1>4 DEF Write
  <2>2. wire'[e] = wire[e] /\ wire'[r] = Append(wire[r], m)
    BY <1>1, <1>3, <2>1 DEF IInv, WireOK
  <2>3. Audible(e) = todo[e] /\ Audible(e)' = todo'[e] /\ Audible(r)' = Audible(r)
    BY <1>2, <1>4 DEF Audible
  <2>4. InOrder(e)'
    BY <1>3, <2>2, <2>3, AudibleFacts, Unwritten
  <2>5. InOrder(r)'
    BY <1>1, <1>3, <2>2, <2>3, Written
  <2> QED BY <2>4, <2>5
<1>5. CASE ~Reached(e)
  <2>1. wire' = wire
    BY <1>5 DEF Write
  <2>2. Audible(e)' = <<>> /\ Audible(r)' = Audible(r)
    BY <1>2, <1>5 DEF Audible
  <2>3. InOrder(e)'
    BY <1>3, <2>1, <2>2, AudibleFacts, Unwritten
  <2>4. InOrder(r)'
    BY <1>1, <1>3, <2>1, <2>2, AudibleFacts, Unwritten
  <2> QED BY <2>3, <2>4
<1> QED BY <1>4, <1>5

(* An end that closes its socket has nothing left to write.                *)
LEMMA Closed ==
  ASSUME OInv, NEW e \in Ends, CloseSocket(e), Mute(Audible(e)'), ExpectsNoMore(Other(e))
  PROVE  InOrder(e)' /\ InOrder(Other(e))' /\ open' \in [Ends -> BOOLEAN]
<1> DEFINE r == Other(e)
<1>1. r \in Ends /\ r # e /\ Other(r) = e
  BY OtherEnd
<1>2. open' = [open EXCEPT ![e] = FALSE] /\ open \in [Ends -> BOOLEAN]
  BY DEF CloseSocket, OInv, OrderOK, ReaderOK
<1>3. InOrder(e)'
  BY <1>2 DEF InOrder
<1>4. wire'[r] \in {wire[r], <<>>}
  BY <1>1 DEF CloseSocket
<1>5. InOrder(r)'
  <2>1. CASE wire'[r] = wire[r]
    BY <1>1, <2>1, AudibleFacts, Unwritten DEF OInv, OrderOK
  <2>2. CASE wire'[r] = <<>>
    BY <1>1, <2>2, Emptied
  <2> QED BY <1>4, <2>1, <2>2
<1> QED BY <1>2, <1>3, <1>5

-----------------------------------------------------------------------------
(* The order, action by action.                                            *)

LEMMA ListOf ==
  ASSUME OInv, NEW e \in Ends
  PROVE  /\ todo[e] \in Lists /\ DOMAIN todo = Ends
         /\ Doing(e, "send handshake") =>
              /\ todo[e] \in ToSpeak /\ Tail(todo[e]) \in ToField
              /\ Tail(todo[e]) \in Early => todo[e] \in Early
              /\ Tail(todo[e]) \in Greeted => todo[e] \in Greeted
         /\ Doing(e, "accept handshake") =>
              /\ todo[e] \in Early /\ Tail(todo[e]) \in Greeted \ Early
              /\ Follows(todo[e], Tail(todo[e]))
         /\ Doing(e, "send bitfield") =>
              todo[e] \in ToField \cap Greeted /\ Tail(todo[e]) = <<"loop">>
         /\ Doing(e, "loop") => todo[e] = <<"loop">>
<1>1. todo[e] \in Lists /\ DOMAIN todo = Ends
  BY DEF OInv, IInv, TodoOK
<1>2. todo[e] # <<>> /\ Head(todo[e]) \notin {"report", "close", "be collected"} =>
        todo[e] \in Early \cup Agreed
  BY <1>1, ListHeads, LastLists DEF Lists
<1>3. todo[e] \in Early \cup Agreed <=> todo[e] \in ToSpeak \cup ToField \cup {<<"loop">>}
  BY ListOrder
<1>4. ASSUME Doing(e, "send handshake")
      PROVE  /\ todo[e] \in ToSpeak /\ Tail(todo[e]) \in ToField
             /\ Tail(todo[e]) \in Early => todo[e] \in Early
             /\ Tail(todo[e]) \in Greeted => todo[e] \in Greeted
  <2>1. Head(todo[e]) = "send handshake" /\ todo[e] \in Early \cup Agreed
    BY <1>2, <1>4 DEF Doing
  <2>2. todo[e] \in ToSpeak
    BY <1>3, <2>1, ListOrder, ListHeads
  <2>3. todo[e] \in Early \cup Greeted
    BY <2>1, ListOrder, ListHeads
  <2> QED BY <2>1, <2>2, <2>3, ListOrder, ReaderLists
<1>5. ASSUME Doing(e, "accept handshake")
      PROVE  /\ todo[e] \in Early /\ Tail(todo[e]) \in Greeted \ Early
             /\ Follows(todo[e], Tail(todo[e]))
  <2>1. Head(todo[e]) = "accept handshake" /\ todo[e] \in Early
    BY <1>5, DoingFacts DEF OInv, Doing
  <2>2. Follows(todo[e], Tail(todo[e]))
    BY <1>3, <2>1, ListOrder, ListHeads DEF Follows
  <2> QED BY <2>1, <2>2, ReaderLists
<1>6. ASSUME Doing(e, "send bitfield")
      PROVE  todo[e] \in ToField \cap Greeted /\ Tail(todo[e]) = <<"loop">>
  <2>1. Head(todo[e]) = "send bitfield" /\ todo[e] \in Agreed
    BY <1>6, DoingFacts DEF OInv, Doing
  <2> QED BY <1>3, <2>1, ListOrder, ListHeads
<1>7. ASSUME Doing(e, "loop") PROVE todo[e] = <<"loop">>
  <2>1. Head(todo[e]) = "loop" /\ todo[e] \in Agreed
    BY <1>7, DoingFacts DEF OInv, Doing
  <2> QED BY <2>1, ListOrder, ReaderLists
<1> QED BY <1>1, <1>4, <1>5, <1>6, <1>7

(* The end that does not move expects what it did.                         *)
LEMMA OthersWait ==
  ASSUME OInv, NEW e \in Ends, NEW l, todo' = [todo EXCEPT ![e] = l] \/ todo' = todo,
         \A x \in Ends \ {e} : reader'[x] = reader[x] /\ known'[x] = known[x] /\ open'[x] = open[x]
  PROVE  /\ todo'[Other(e)] = todo[Other(e)]
         /\ ExpectsNoMore(Other(e))
<1>1. Other(e) \in Ends \ {e} /\ DOMAIN todo = Ends
  BY OtherEnd, ListOf
<1>2. todo'[Other(e)] = todo[Other(e)]
  BY <1>1
<1> QED BY <1>1, <1>2 DEF ExpectsNoMore, WantsField

LEMMA SendHandshakeOrder ==
  ASSUME OInv, NEW e \in Ends, SendHandshake(e)
  PROVE  OrderOK'
<1>1. /\ Doing(e, "send handshake") /\ Write(e, Handshake(torrent[e]))
      /\ todo' = [todo EXCEPT ![e] = Tail(todo[e])]
      /\ UNCHANGED <<open, cut, readers, known>> /\ UNCHANGED <<reader, known>>
  BY DEF SendHandshake, Step, readers
<1>2. /\ todo[e] \in ToSpeak /\ Tail(todo[e]) \in ToField /\ todo'[e] = Tail(todo[e])
      /\ Tail(todo[e]) \in Early => todo[e] \in Early
      /\ Tail(todo[e]) \in Greeted => todo[e] \in Greeted
  BY <1>1, ListOf
<1>3. Handshake(torrent[e]) \in Truths(Other(e)) /\ Handshake(torrent[e]).kind = "handshake"
  BY OtherEnd DEF Truths, Handshake
<1>4. Writes(todo[e], Handshake(torrent[e]), todo'[e])
  BY <1>2, <1>3 DEF Writes
<1>5. ExpectsNoMore(e)
  BY <1>1, <1>2 DEF ExpectsNoMore, WantsField
<1>6. todo'[Other(e)] = todo[Other(e)] /\ ExpectsNoMore(Other(e))
  BY <1>1, OthersWait
<1>7. InOrder(e)' /\ InOrder(Other(e))'
  BY <1>1, <1>3, <1>4, <1>5, <1>6, Delivered
<1> QED BY <1>1, <1>2, <1>7, Moves

(* The loop begins with an end that has no bitfield, and expects one.      *)
LEMMA SendBitfieldOrder ==
  ASSUME OInv, NEW e \in Ends, SendBitfield(e)
  PROVE  OrderOK'
<1>1. /\ Doing(e, "send bitfield") /\ Write(e, Field(valid[e]))
      /\ todo' = [todo EXCEPT ![e] = Tail(todo[e])]
      /\ reader' = [reader EXCEPT ![e] = "reads"]
      /\ UNCHANGED <<open, cut, held, known>>
  BY DEF SendBitfield, Step
<1>2. todo[e] \in ToField \cap Greeted /\ todo'[e] = <<"loop">> /\ todo \in [Ends -> Lists]
  BY <1>1, ListOf DEF OInv, IInv, TodoOK
<1>3. Field(valid[e]) \in Truths(Other(e)) /\ Field(valid[e]).kind = "bitfield"
  BY OtherEnd DEF Truths, Field, OInv, IInv
<1>4. Writes(todo[e], Field(valid[e]), todo'[e])
  BY <1>2, <1>3 DEF Writes
<1>5. <<"loop">> \notin Early \cup Greeted
  BY ReaderLists
<1>6. ExpectsNoMore(e)
  BY <1>1, <1>2, <1>5 DEF ExpectsNoMore, WantsField
<1>7. ReaderOK
  BY DEF OInv, OrderOK
<1>8. todo'[Other(e)] = todo[Other(e)] /\ ExpectsNoMore(Other(e))
  BY <1>1, <1>7, OthersWait DEF ReaderOK
<1>9. InOrder(e)' /\ InOrder(Other(e))'
  BY <1>1, <1>3, <1>4, <1>6, <1>8, Delivered
<1>10. ReaderOK'
  BY <1>1, <1>2, <1>5, <1>7 DEF ReaderOK
<1>11. FieldFirst'
  BY <1>1, <1>7 DEF ReaderOK, FieldFirst, OInv, OrderOK
<1>12. \A x \in Ends : x = e \/ x = Other(e)
  BY DEF Ends, Other
<1> QED BY <1>9, <1>10, <1>11, <1>12 DEF OrderOK

LEMMA SendMessageOrder ==
  ASSUME OInv, NEW e \in Ends, SendMessage(e)
  PROVE  OrderOK'
<1>1. /\ Doing(e, "loop") /\ Write(e, Message) /\ UNCHANGED todo
      /\ UNCHANGED <<open, cut, readers, known>> /\ UNCHANGED <<reader, known>>
  BY DEF SendMessage, readers
<1>2. todo[e] = <<"loop">> /\ DOMAIN todo = Ends
  BY <1>1, ListOf
<1>3. Message \in Truths(Other(e)) /\ Writes(todo[e], Message, todo'[e])
  BY <1>1, <1>2 DEF Truths, Writes
<1>4. ExpectsNoMore(e) /\ ExpectsNoMore(Other(e))
  BY <1>1 DEF ExpectsNoMore, WantsField
<1>5. InOrder(e)' /\ InOrder(Other(e))'
  BY <1>1, <1>3, <1>4, Delivered
<1>6. todo' = [todo EXCEPT ![e] = todo[e]]
  BY <1>1 DEF OInv, IInv, TodoOK
<1> QED BY <1>1, <1>5, <1>6, Moves

LEMMA LeaveOrder ==
  ASSUME OInv, NEW e \in Ends,
         SendFails(e) \/ NoHandshake(e) \/ ConnectionLost(e) \/ ContextDone(e)
  PROVE  OrderOK'
<1>1. /\ todo' = [todo EXCEPT ![e] = Leaving] /\ UNCHANGED wire
      /\ UNCHANGED <<open, cut, readers, known>> /\ UNCHANGED <<reader, known>>
  BY DEF SendFails, NoHandshake, ConnectionLost, ContextDone, LeaveLoop, Leave, readers
<1>2. Leaving \notin Early \cup Greeted /\ todo'[e] = Leaving
  BY <1>1, ReaderLists, ListOf
<1>3. ExpectsNoMore(e) /\ ExpectsNoMore(Other(e)) /\ todo'[Other(e)] = todo[Other(e)]
  BY <1>1, <1>2, OthersWait DEF ExpectsNoMore, WantsField
<1>4. Mute(Audible(e)')
  BY <1>2, AudibleFacts, ListOrder DEF Audible
<1>5. Audible(Other(e))' = Audible(Other(e))
  BY <1>1, <1>3 DEF Audible, Reached
<1>6. InOrder(e)' /\ InOrder(Other(e))'
  <2>1. Other(e) \in Ends /\ Other(Other(e)) = e /\ InOrder(e) /\ InOrder(Other(e))
    BY OtherEnd DEF OInv, OrderOK
  <2> QED BY <1>1, <1>3, <1>4, <1>5, <2>1, AudibleFacts, Unwritten
<1> QED BY <1>1, <1>2, <1>6, Moves

(* Behind the handshake that it accepts, an end gets a bitfield next.      *)
LEMMA AcceptHandshakeOrder ==
  ASSUME OInv, NEW e \in Ends, AcceptHandshake(e)
  PROVE  OrderOK'
<1>1. /\ Doing(e, "accept handshake") /\ wire[e] # <<>>
      /\ wire' = [wire EXCEPT ![e] = Tail(@)]
      /\ UNCHANGED <<open, cut, readers, known>> /\ UNCHANGED <<reader, known>>
  BY DEF AcceptHandshake, readers
<1>2. /\ Other(e) \in Ends /\ Other(e) # e /\ Other(Other(e)) = e
      /\ InOrder(e) /\ InOrder(Other(e))
  BY OtherEnd DEF OInv, OrderOK
<1>3. /\ todo[e] \in Early /\ Tail(todo[e]) \in Greeted \ Early
      /\ Follows(todo[e], Tail(todo[e])) /\ DOMAIN todo = Ends
  BY <1>1, ListOf
<1>4. wire'[e] = Tail(wire[e]) /\ wire'[Other(e)] = wire[Other(e)]
  BY <1>1, <1>2 DEF OInv, IInv, WireOK
<1>5. \A x : Reached(x)' <=> Reached(x)
  BY <1>1 DEF Reached
<1>6. reader[e] = "none"
  BY <1>3 DEF OInv, OrderOK, ReaderOK
<1>7. CASE RightHandshake(e, Head(wire[e]))
  <2>1. todo' = [todo EXCEPT ![e] = Tail(todo[e])] /\ todo'[e] = Tail(todo[e])
    BY <1>3, <1>7 DEF AcceptHandshake, Step
  <2>2. todo'[Other(e)] = todo[Other(e)] /\ ExpectsNoMore(Other(e))
    BY <1>1, <2>1, OthersWait
  <2>3. Follows(Audible(e), Audible(e)') /\ Audible(Other(e))' = Audible(Other(e))
    BY <1>3, <1>5, <2>1, <2>2, AudibleFacts DEF Audible
  <2>4. InOrder(Other(e))'
    BY <1>2, <1>4, <2>2, <2>3, Unwritten
  <2>5. open[e] => FieldNext(Tail(wire[e]), Audible(Other(e)))
    BY <1>1, <1>2, <1>3 DEF InOrder, HandshakeNext
  <2>6. InOrder(e)'
    BY <1>1, <1>3, <1>4, <2>1, <2>3, <2>5 DEF InOrder
  <2>7. ReaderOK'
    <3>1. UNCHANGED <<reader, held>>
      BY <1>1 DEF readers
    <3>2. \A x \in Ends : x # e => todo'[x] = todo[x]
      BY <2>1
    <3> QED BY <1>1, <1>6, <3>1, <3>2 DEF OInv, OrderOK, ReaderOK
  <2>8. FieldFirst'
    BY <1>1 DEF readers, FieldFirst, OInv, OrderOK
  <2>9. \A x \in Ends : x = e \/ x = Other(e)
    BY DEF Ends, Other
  <2> QED BY <2>4, <2>6, <2>7, <2>8, <2>9 DEF OrderOK
<1>8. CASE ~RightHandshake(e, Head(wire[e]))
  <2>1. todo' = [todo EXCEPT ![e] = Leaving] /\ todo'[e] = Leaving
    BY <1>3, <1>8 DEF AcceptHandshake, Leave
  <2>2. Leaving \notin Early \cup Greeted
    BY ReaderLists
  <2>3. todo'[Other(e)] = todo[Other(e)] /\ ExpectsNoMore(Other(e))
    BY <1>1, <2>1, OthersWait
  <2>4. Mute(Audible(e)')
    BY <2>1, AudibleFacts, ListOrder DEF Audible
  <2>5. InOrder(Other(e))'
    BY <1>2, <1>4, <2>3, <2>4, AudibleFacts, Unwritten
  <2>6. InOrder(e)'
    BY <1>1, <1>6, <2>1, <2>2 DEF InOrder, WantsField
  <2> QED BY <1>1, <2>1, <2>2, <2>5, <2>6, Moves
<1> QED BY <1>7, <1>8

-----------------------------------------------------------------------------
(* The reader and the loop.                                                *)

LEMMA ReadOrder ==
  ASSUME OInv, NEW e \in Ends, Read(e)
  PROVE  OrderOK'
<1>1. /\ reader[e] = "reads" /\ open[e] /\ wire[e] # <<>>
      /\ reader' = [reader EXCEPT ![e] = "holds"]
      /\ held' = [held EXCEPT ![e] = <<Head(wire[e])>>]
      /\ wire' = [wire EXCEPT ![e] = Tail(@)]
      /\ UNCHANGED <<todo, open, cut, known>>
  BY DEF Read
<1>2. ReaderOK /\ InOrder(e) /\ InOrder(Other(e)) /\ FieldFirst
  BY OtherEnd DEF OInv, OrderOK
<1>3. todo[e] \notin Early \cup Greeted
  BY <1>1, <1>2 DEF ReaderOK
<1>4. ReaderOK'
  BY <1>1, <1>2, <1>3 DEF ReaderOK
<1>5. FieldFirst'
  <2>1. ~known[e] => Head(wire[e]).kind = "bitfield"
    BY <1>1, <1>2 DEF InOrder, WantsField, FieldNext
  <2>2. reader'[e] = "holds" /\ Head(held'[e]) = Head(wire[e])
    BY <1>1, <1>2 DEF ReaderOK
  <2>3. \A x \in Ends : x # e => reader'[x] = reader[x] /\ held'[x] = held[x]
    BY <1>1
  <2> QED BY <1>1, <1>2, <2>1, <2>2, <2>3 DEF FieldFirst
<1>6. InOrder(e)'
  BY <1>1, <1>3, <1>4 DEF InOrder, WantsField, ReaderOK
<1>7. InOrder(Other(e))'
  <2>1. Other(e) \in Ends /\ Other(e) # e /\ wire'[Other(e)] = wire[Other(e)]
        /\ reader'[Other(e)] = reader[Other(e)]
    BY <1>1, <1>2, OtherEnd DEF OInv, IInv, WireOK, ReaderOK
  <2>2. Audible(Other(Other(e)))' = Audible(Other(Other(e)))
    BY <1>1 DEF Audible, Reached
  <2>3. ExpectsNoMore(Other(e))
    BY <1>1, <2>1 DEF ExpectsNoMore, WantsField
  <2> QED BY <1>2, <2>1, <2>2, <2>3, AudibleFacts, Unwritten
<1>8. \A x \in Ends : x = e \/ x = Other(e)
  BY DEF Ends, Other
<1> QED BY <1>4, <1>5, <1>6, <1>7, <1>8 DEF OrderOK

LEMMA ReadFailsOrder ==
  ASSUME OInv, NEW e \in Ends, ReadFails(e)
  PROVE  OrderOK'
<1>1. /\ reader[e] = "reads" /\ reader' = [reader EXCEPT ![e] = "gone"]
      /\ UNCHANGED <<todo, open, cut, held, wire, known>>
  BY DEF ReadFails
<1>2. ReaderOK /\ FieldFirst
  BY DEF OInv, OrderOK
<1>3. todo[e] \notin Early \cup Greeted
  BY <1>1, <1>2 DEF ReaderOK
<1>4. ReaderOK'
  BY <1>1, <1>2, <1>3 DEF ReaderOK
<1>5. FieldFirst'
  BY <1>1, <1>2 DEF ReaderOK, FieldFirst
<1>6. ASSUME NEW x \in Ends PROVE InOrder(x)'
  <2>1. ExpectsNoMore(x)
    BY <1>1, <1>2 DEF ExpectsNoMore, WantsField, ReaderOK
  <2>2. Audible(Other(x))' = Audible(Other(x)) /\ wire'[x] = wire[x]
    BY <1>1 DEF Audible, Reached
  <2> QED BY <2>1, <2>2, AudibleFacts, Unwritten DEF OInv, OrderOK
<1> QED BY <1>4, <1>5, <1>6 DEF OrderOK

(* A first message that is taken is the bitfield, which is known then; one *)
(* that is rejected is the last that is read, since the socket is closed.  *)
LEMMA HandleMessageOrder ==
  ASSUME OInv, NEW e \in Ends, HandleMessage(e)
  PROVE  OrderOK'
<1>1. /\ Doing(e, "loop") /\ reader[e] = "holds" /\ UNCHANGED cut
      /\ reader' = [reader EXCEPT ![e] = "reads"]
      /\ held' = [held EXCEPT ![e] = <<>>]
  BY DEF HandleMessage
<1>2. ReaderOK /\ FieldFirst /\ InOrder(e) /\ InOrder(Other(e))
  BY OtherEnd DEF OInv, OrderOK
<1>3. todo[e] = <<"loop">> /\ DOMAIN todo = Ends
  BY <1>1, ListOf
<1>4. <<"loop">> \notin Early \cup Greeted /\ Leaving \notin Early \cup Greeted
  BY ReaderLists
<1>5. Other(e) \in Ends /\ Other(e) # e /\ Other(Other(e)) = e
      /\ \A x \in Ends : x = e \/ x = Other(e)
  BY OtherEnd DEF Ends, Other
<1>6. reader'[e] = "reads" /\ \A x \in Ends : x # e => reader'[x] = reader[x] /\ held'[x] = held[x]
  BY <1>1, <1>2 DEF ReaderOK
<1>7. CASE Rejected(Head(held[e]))
  <2>1. CloseSocket(e) /\ todo' = [todo EXCEPT ![e] = Leaving] /\ UNCHANGED known
        /\ open' = [open EXCEPT ![e] = FALSE] /\ todo'[e] = Leaving
    BY <1>3, <1>7 DEF HandleMessage, Leave, CloseSocket
  <2>2. Mute(Audible(e)')
    BY <2>1, AudibleFacts, ListOrder DEF Audible
  <2>3. ExpectsNoMore(Other(e))
    BY <1>2, <1>6, <2>1, OthersWait DEF ReaderOK
  <2>4. InOrder(e)' /\ InOrder(Other(e))' /\ open' \in [Ends -> BOOLEAN]
    BY <2>1, <2>2, <2>3, Closed
  <2>5. ReaderOK'
    BY <1>1, <1>2, <1>4, <2>1, <2>4 DEF ReaderOK
  <2>6. FieldFirst'
    BY <1>2, <1>6, <2>1 DEF FieldFirst
  <2> QED BY <1>5, <2>4, <2>5, <2>6 DEF OrderOK
<1>8. CASE ~Rejected(Head(held[e]))
  <2>1. /\ known' = [known EXCEPT ![e] = @ \/ Head(held[e]).kind = "bitfield"]
        /\ UNCHANGED <<todo, open, wire>>
    BY <1>8 DEF HandleMessage
  <2>2. known'[e] /\ known' \in [Ends -> BOOLEAN]
    BY <1>1, <1>2, <2>1 DEF ReaderOK, FieldFirst
  <2>3. \A x \in Ends : x # e => known'[x] = known[x]
    BY <2>1
  <2>4. \A x \in Ends : Audible(x)' = Audible(x)
    BY <1>1, <2>1 DEF Audible, Reached
  <2>5. \A x \in Ends : ExpectsNoMore(x)
    BY <1>5, <1>6, <2>1, <2>2, <2>3 DEF ExpectsNoMore, WantsField
  <2>6. InOrder(e)' /\ InOrder(Other(e))'
    BY <1>2, <1>5, <2>1, <2>4, <2>5, AudibleFacts, Unwritten
  <2>7. ReaderOK'
    BY <1>1, <1>2, <1>3, <1>4, <2>1, <2>2 DEF ReaderOK
  <2>8. FieldFirst'
    BY <1>2, <1>6, <2>3 DEF FieldFirst
  <2> QED BY <1>5, <2>6, <2>7, <2>8 DEF OrderOK
<1> QED BY <1>7, <1>8

-----------------------------------------------------------------------------
(* The end of a connection.                                                *)

LEMMA OverOrder ==
  ASSUME OInv, NEW e \in Ends, Report(e) \/ Close(e)
  PROVE  OrderOK'
<1>1. /\ todo' = [todo EXCEPT ![e] = Tail(todo[e])]
      /\ Doing(e, "report") \/ Doing(e, "close")
      /\ UNCHANGED <<cut, readers, known>> /\ UNCHANGED <<reader, held, known>>
  BY DEF Report, Close, Step, readers
<1>2. Tail(todo[e]) \in Over
  BY <1>1, DoingFacts, LastLists DEF OInv, Over
<1>3. todo'[e] = Tail(todo[e]) /\ Tail(todo[e]) \notin Early \cup Greeted
  BY <1>1, <1>2, ListOf, ReaderLists
<1>4. Mute(Audible(e)')
  BY <1>2, <1>3, AudibleFacts, ListOrder DEF Audible
<1>5. /\ Other(e) \in Ends /\ Other(e) # e /\ Other(Other(e)) = e
      /\ InOrder(e) /\ InOrder(Other(e)) /\ ReaderOK /\ FieldFirst
      /\ \A x \in Ends : x = e \/ x = Other(e)
  BY OtherEnd DEF OInv, OrderOK, Ends, Other
<1>6. CASE UNCHANGED <<open, wire>>
  <2>1. ExpectsNoMore(e) /\ ExpectsNoMore(Other(e)) /\ todo'[Other(e)] = todo[Other(e)]
    BY <1>1, <1>3, <1>6, OthersWait DEF ExpectsNoMore, WantsField
  <2>2. Audible(Other(e))' = Audible(Other(e))
    BY <1>1, <1>6, <2>1 DEF Audible, Reached
  <2>3. InOrder(e)' /\ InOrder(Other(e))'
    BY <1>4, <1>5, <1>6, <2>1, <2>2, AudibleFacts, Unwritten
  <2> QED BY <1>1, <1>3, <1>6, <2>3, Moves
<1>7. CASE CloseSocket(e)
  <2>1. open' = [open EXCEPT ![e] = FALSE]
    BY <1>7 DEF CloseSocket
  <2>2. ExpectsNoMore(Other(e))
    BY <1>1, <1>5, <2>1, OthersWait DEF ReaderOK
  <2>3. InOrder(e)' /\ InOrder(Other(e))' /\ open' \in [Ends -> BOOLEAN]
    BY <1>4, <1>7, <2>2, Closed
  <2>4. ReaderOK'
    <3>1. \A x \in Ends : x # e => todo'[x] = todo[x]
      BY <1>1
    <3> QED BY <1>1, <1>3, <1>5, <2>3, <3>1 DEF ReaderOK
  <2>5. FieldFirst'
    BY <1>1, <1>5 DEF FieldFirst
  <2> QED BY <1>5, <2>3, <2>4, <2>5 DEF OrderOK
<1> QED BY <1>6, <1>7 DEF Report, Close

LEMMA RefuseOrder ==
  ASSUME OInv, NEW e \in Ends, Refuse(e)
  PROVE  OrderOK'
<1>1. /\ todo' = [todo EXCEPT ![e] = Forgotten]
      /\ UNCHANGED wire
      /\ UNCHANGED <<open, cut, readers, known>> /\ UNCHANGED <<reader, known>>
  BY DEF Refuse, readers
<1>2. Forgotten \notin Early \cup Greeted /\ todo'[e] = Forgotten
  BY <1>1, ReaderLists, ListOf
<1>3. ExpectsNoMore(e) /\ ExpectsNoMore(Other(e)) /\ todo'[Other(e)] = todo[Other(e)]
  BY <1>1, <1>2, OthersWait DEF ExpectsNoMore, WantsField
<1>4. Mute(Audible(e)')
  BY <1>2, AudibleFacts, ListOrder DEF Audible
<1>5. Audible(Other(e))' = Audible(Other(e))
  BY <1>1, <1>3 DEF Audible, Reached
<1>6. InOrder(e)' /\ InOrder(Other(e))'
  <2>1. Other(e) \in Ends /\ Other(Other(e)) = e /\ InOrder(e) /\ InOrder(Other(e))
    BY <1>1, OtherEnd DEF OInv, OrderOK
  <2> QED BY <1>1, <1>3, <1>4, <1>5, <2>1, AudibleFacts, Unwritten
<1> QED BY <1>1, <1>2, <1>6, Moves

LEMMA CollectOrder ==
  ASSUME OInv, NEW e \in Ends, Collect(e)
  PROVE  OrderOK'
<1>1. /\ todo[e] = Forgotten /\ CloseSocket(e)
      /\ UNCHANGED <<todo, cut, known>> /\ UNCHANGED <<reader, held>>
      /\ open' = [open EXCEPT ![e] = FALSE]
  BY DEF Collect, readers, CloseSocket
<1>2. Mute(Audible(e)')
  BY <1>1, AudibleFacts, ListOrder DEF Audible
<1>3. ReaderOK /\ FieldFirst /\ \A x \in Ends : x = e \/ x = Other(e)
  BY <1>1 DEF OInv, OrderOK, Ends, Other
<1>4. ExpectsNoMore(Other(e))
  BY <1>1, <1>3, OthersWait DEF ReaderOK
<1>5. InOrder(e)' /\ InOrder(Other(e))' /\ open' \in [Ends -> BOOLEAN]
  BY <1>1, <1>2, <1>4, Closed
<1>6. ReaderOK' /\ FieldFirst'
  BY <1>1, <1>3, <1>5 DEF ReaderOK, FieldFirst
<1> QED BY <1>3, <1>5, <1>6 DEF OrderOK

(* A network that has failed delivers nothing more.                        *)
LEMMA CutOrder ==
  ASSUME OInv, Cut
  PROVE  OrderOK'
<1>1. /\ cut' = TRUE /\ wire' = [e \in Ends |-> <<>>]
      /\ UNCHANGED <<todo, open, reader, held, known>>
  BY DEF Cut, readers
<1>2. \A x \in Ends : InOrder(x)'
  <2> SUFFICES ASSUME NEW x \in Ends PROVE InOrder(x)'
    OBVIOUS
  <2>1. Audible(Other(x))' = <<>> /\ wire'[x] = <<>>
    BY <1>1 DEF Audible, Reached
  <2> QED BY <2>1, AudibleFacts, Emptied
<1>3. ReaderOK' /\ FieldFirst'
  BY <1>1 DEF ReaderOK, FieldFirst, OInv, OrderOK
<1> QED BY <1>2, <1>3 DEF OrderOK

LEMMA InitOInv == Init => OInv
<1> SUFFICES ASSUME Init PROVE OrderOK
  BY InitIInv DEF OInv
<1>1. /\ todo \in [Ends -> {Speak, Listen}] /\ reader = [e \in Ends |-> "none"]
      /\ open = [e \in Ends |-> TRUE] /\ known = [e \in Ends |-> FALSE]
      /\ held = [e \in Ends |-> <<>>] /\ wire = [e \in Ends |-> <<>>]
  BY DEF Init, Script
<1>2. ReaderOK /\ FieldFirst
  BY <1>1 DEF ReaderOK, FieldFirst
<1>3. ASSUME NEW e \in Ends PROVE InOrder(e)
  <2>1. wire[e] = <<>> /\ reader[e] = "none" /\ todo[e] \in {Speak, Listen}
    BY <1>1
  <2>2. todo[e] \notin Greeted
    <3>1. Speak \in Early /\ Listen \in Early /\ Head(Listen) = "accept handshake"
      BY ListHeads DEF Early
    <3>2. Speak \notin Greeted
      BY DEF Speak, Greeted
    <3> QED BY <2>1, <3>1, <3>2, ReaderLists
  <2>3. Audible(Other(e)) \in ToSpeak \cup {<<>>}
    BY <1>1, OtherEnd DEF Audible, ToSpeak
  <2>4. HandshakeNext(<<>>, Audible(Other(e)))
    BY <2>3, AudibleFacts DEF HandshakeNext
  <2> QED BY <2>1, <2>2, <2>4 DEF InOrder, WantsField
<1> QED BY <1>2, <1>3 DEF OrderOK

LEMMA StepOInv == OInv /\ [Next]_vars => OInv'
<1> SUFFICES ASSUME OInv, [Next]_vars PROVE OrderOK'
  BY StepIInv DEF OInv
<1>1. ASSUME NEW e \in Ends, Goroutines(e) PROVE OrderOK'
  BY <1>1, SendHandshakeOrder, SendBitfieldOrder, LeaveOrder, AcceptHandshakeOrder,
     HandleMessageOrder, OverOrder DEF Goroutines
<1>2. ASSUME NEW e \in Ends, Reader(e) \/ SendMessage(e) \/ ContextDone(e) PROVE OrderOK'
  BY <1>2, ReadOrder, ReadFailsOrder, SendMessageOrder, LeaveOrder DEF Reader
<1>3. CASE Cut \/ (\E e \in Ends : Refuse(e) \/ Collect(e))
  BY <1>3, RefuseOrder, CollectOrder, CutOrder
<1>4. CASE UNCHANGED vars
  <2>1. UNCHANGED <<todo, open, wire, cut, reader, held, known>>
    BY <1>4 DEF vars, readers
  <2>2. \A e \in Ends : InOrder(e)' <=> InOrder(e)
    BY <2>1 DEF InOrder, WantsField, Audible, Reached
  <2>3. ReaderOK' /\ FieldFirst'
    BY <2>1 DEF ReaderOK, FieldFirst, OInv, OrderOK
  <2> QED BY <2>2, <2>3 DEF OInv, OrderOK
<1> QED BY <1>1, <1>2, <1>3, <1>4 DEF Next

(* Whatever the other end has written by then, and whatever a cut or a     *)
(* close has swallowed, the loop gets the bitfield before anything else.   *)
THEOREM BitfieldFirst == Spec => []FieldFirst
<1>1. OInv => FieldFirst
  BY DEF OInv, OrderOK
<1> QED BY <1>1, InitOInv, StepOInv, PTL DEF Spec
=============================================================================
