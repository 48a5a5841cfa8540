------------------------------ MODULE Handshake -----------------------------
(***************************************************************************)
(* How a connection between two clients begins and ends.  The end that     *)
(* dialled and the end that listened exchange handshakes and bitfields     *)
(* straight on the socket; then each has a goroutine that reads messages   *)
(* and passes them, one at a time, to the loop that handles them.  The     *)
(* network may be cut, and either client may stop.  Whatever happens, each *)
(* end tells its main, whose pool holds a slot for it.                     *)
(*                                                                         *)
(* A wire carries whole messages: readers wait for all bytes of one.       *)
(***************************************************************************)
EXTENDS Naturals, Sequences

CONSTANTS
  Torrents,      \* info-hashes
  MaxMessages    \* bound: messages an end sends after the bitfield

ASSUME MaxMessagesAssumption == MaxMessages \in Nat

Ends == {"dialler", "listener"}
Other(e) == CHOOSE o \in Ends : o # e

VARIABLES
  torrent,    \* the torrent an end is about
  valid,      \* whether the other end will accept its bitfield
  todo,       \* what an end still has to do
  open,       \* its socket
  wire,       \* what is on its way to an end
  cut,        \* the network has failed
  reader,     \* the reading goroutine: "none", "reads", "holds" or "gone"
  held,       \* the message it holds, if any
  known,      \* peer.Bitfield
  reported,   \* ConnectionEnded: how often an end has told its main
  sent        \* messages after the bitfield

about == <<torrent, valid>>
readers == <<reader, held>>
vars == <<about, todo, open, wire, cut, readers, known, reported, sent>>

Handshake(t) == [kind |-> "handshake", torrent |-> t]
Field(ok) == [kind |-> "bitfield", valid |-> ok]
Message == [kind |-> "message"]

(* InitiateConnection and AcceptConnection.  Variants: both listen first;  *)
(* the listener keeps its bitfield to itself.                              *)
Listen == <<"accept handshake", "send handshake", "send bitfield", "loop">>
Speak == <<"send handshake", "accept handshake", "send bitfield", "loop">>
Politely(e) == Listen
Secretly(e) == IF e = "dialler" THEN Speak ELSE SelectSeq(Listen, LAMBDA x : x # "send bitfield")
Script(e) == IF e = "dialler" THEN Speak ELSE Listen

(* Variant: the end of a connection is not reported.                       *)
Silently == <<"close">>
Leaving == <<"report", "close">>

Forgotten == <<"be collected">>

Doing(e, what) == todo[e] # <<>> /\ Head(todo[e]) = what
Step(e) == todo' = [todo EXCEPT ![e] = Tail(@)]
Leave(e) == todo' = [todo EXCEPT ![e] = Leaving]

Init ==
  /\ torrent \in [Ends -> Torrents]
  /\ valid \in [Ends -> BOOLEAN]
  /\ todo = [e \in Ends |-> Script(e)]
  /\ open = [e \in Ends |-> TRUE]
  /\ wire = [e \in Ends |-> <<>>]
  /\ cut = FALSE
  /\ reader = [e \in Ends |-> "none"] /\ held = [e \in Ends |-> <<>>]
  /\ known = [e \in Ends |-> FALSE]
  /\ reported = [e \in Ends |-> 0]
  /\ sent = [e \in Ends |-> 0]

-----------------------------------------------------------------------------
(* The socket.                                                             *)

(* What is written may be lost without an error when nobody reads it.      *)
Reached(e) == open[Other(e)] /\ ~cut
Write(e, m) ==
  wire' = IF Reached(e) THEN [wire EXCEPT ![Other(e)] = Append(@, m)] ELSE wire

(* A close lets what was written before arrive, or not.                    *)
CloseSocket(e) ==
  /\ open' = [open EXCEPT ![e] = FALSE]
  /\ \E rest \in {wire[Other(e)], <<>>} :
       wire' = [x \in Ends |-> IF x = e THEN <<>> ELSE rest]

(* What was written before is read first.  Variant: that the other end has *)
(* closed is no error.                                                     *)
NetworkFails(e) == ~open[e] \/ (wire[e] = <<>> /\ cut)
AtEOF(e) == ~open[e] \/ (wire[e] = <<>> /\ ~Reached(e))

-----------------------------------------------------------------------------
(* seed and leech: the handshake.                                          *)

SendHandshake(e) ==
  /\ Doing(e, "send handshake")
  /\ Write(e, Handshake(torrent[e])) /\ Step(e)
  /\ UNCHANGED <<about, open, cut, readers, known, reported, sent>>

(* The loop starts with its reader.                                        *)
SendBitfield(e) ==
  /\ Doing(e, "send bitfield")
  /\ Write(e, Field(valid[e])) /\ Step(e)
  /\ reader' = [reader EXCEPT ![e] = "reads"]
  /\ UNCHANGED <<about, open, cut, held, known, reported, sent>>

SendFails(e) ==
  /\ Doing(e, "send handshake") \/ Doing(e, "send bitfield")
  /\ ~Reached(e)
  /\ Leave(e)
  /\ UNCHANGED <<about, open, wire, cut, readers, known, reported, sent>>

(* acceptHandshake.  Variant: any torrent is taken.                        *)
AnyHandshake(e, m) == m.kind = "handshake"
RightHandshake(e, m) == m = Handshake(torrent[e])

AcceptHandshake(e) ==
  /\ Doing(e, "accept handshake") /\ wire[e] # <<>>
  /\ wire' = [wire EXCEPT ![e] = Tail(@)]
  /\ IF RightHandshake(e, Head(wire[e])) THEN Step(e) ELSE Leave(e)
  /\ UNCHANGED <<about, open, cut, readers, known, reported, sent>>

NoHandshake(e) ==
  /\ Doing(e, "accept handshake") /\ AtEOF(e)
  /\ Leave(e)
  /\ UNCHANGED <<about, open, wire, cut, readers, known, reported, sent>>

(* The pool refuses the host, to the listener or to the dialler: nobody    *)
(* keeps the socket, or closes it, until the garbage collector does.       *)
Refuse(e) ==
  /\ todo[e] = Script(e)
  /\ todo' = [todo EXCEPT ![e] = Forgotten]
  /\ UNCHANGED <<about, open, wire, cut, readers, known, reported, sent>>

Collect(e) ==
  /\ todo[e] = Forgotten /\ open[e]
  /\ CloseSocket(e)
  /\ UNCHANGED <<about, todo, cut, readers, known, reported, sent>>

-----------------------------------------------------------------------------
(* communicationLoop and its reader.                                       *)

Read(e) ==
  /\ reader[e] = "reads" /\ open[e] /\ wire[e] # <<>>
  /\ reader' = [reader EXCEPT ![e] = "holds"]
  /\ held' = [held EXCEPT ![e] = <<Head(wire[e])>>]
  /\ wire' = [wire EXCEPT ![e] = Tail(@)]
  /\ UNCHANGED <<about, todo, open, cut, known, reported, sent>>

ReadFails(e) ==
  /\ reader[e] = "reads" /\ AtEOF(e)
  /\ reader' = [reader EXCEPT ![e] = "gone"]
  /\ UNCHANGED <<about, todo, open, wire, cut, held, known, reported, sent>>

(* The length of a bitfield is checked.                                    *)
Rejected(m) == m = Field(FALSE)

(* A message that is rejected closes the connection before the report.     *)
HandleMessage(e) ==
  /\ Doing(e, "loop") /\ reader[e] = "holds"
  /\ reader' = [reader EXCEPT ![e] = "reads"]
  /\ held' = [held EXCEPT ![e] = <<>>]
  /\ IF Rejected(Head(held[e]))
     THEN CloseSocket(e) /\ Leave(e) /\ UNCHANGED known
     ELSE /\ known' = [known EXCEPT ![e] = @ \/ Head(held[e]).kind = "bitfield"]
          /\ UNCHANGED <<todo, open, wire>>
  /\ UNCHANGED <<about, cut, reported, sent>>

SendMessage(e) ==
  /\ Doing(e, "loop") /\ sent[e] < MaxMessages
  /\ Write(e, Message)
  /\ sent' = [sent EXCEPT ![e] = @ + 1]
  /\ UNCHANGED <<about, todo, open, cut, readers, known, reported>>

LeaveLoop(e) ==
  /\ Doing(e, "loop") /\ Leave(e)
  /\ UNCHANGED <<about, open, wire, cut, readers, known, reported, sent>>

(* The reader closes msgChannel when it ends.                              *)
ConnectionLost(e) == reader[e] = "gone" /\ LeaveLoop(e)
ContextDone(e) == LeaveLoop(e)

Report(e) ==
  /\ Doing(e, "report") /\ Step(e)
  /\ reported' = [reported EXCEPT ![e] = @ + 1]
  /\ UNCHANGED <<about, open, wire, cut, readers, known, sent>>

(* defer conn.Close().                                                     *)
Close(e) ==
  /\ Doing(e, "close") /\ Step(e)
  /\ IF open[e] THEN CloseSocket(e) ELSE UNCHANGED <<open, wire>>
  /\ UNCHANGED <<about, cut, readers, known, reported, sent>>

Cut ==
  /\ ~cut /\ cut' = TRUE
  /\ wire' = [e \in Ends |-> <<>>]
  /\ UNCHANGED <<about, todo, open, readers, known, reported, sent>>

-----------------------------------------------------------------------------
Goroutines(e) ==
  \/ SendHandshake(e) \/ SendBitfield(e) \/ SendFails(e)
  \/ AcceptHandshake(e) \/ NoHandshake(e)
  \/ HandleMessage(e) \/ ConnectionLost(e)
  \/ Report(e) \/ Close(e)
Reader(e) == Read(e) \/ ReadFails(e)

Next ==
  \/ \E e \in Ends :
       \/ Goroutines(e) \/ Reader(e) \/ SendMessage(e) \/ ContextDone(e)
       \/ Refuse(e) \/ Collect(e)
  \/ Cut

Spec == Init /\ [][Next]_vars

FairSpec ==
  /\ Spec
  /\ \A e \in Ends :
       WF_vars(Goroutines(e)) /\ WF_vars(Reader(e)) /\ WF_vars(Collect(e))

-----------------------------------------------------------------------------
(* Properties.                                                             *)

(* Only ends of one torrent get as far as bitfields and pieces.            *)
SameTorrent ==
  \A e \in Ends : Doing(e, "loop") => torrent[e] = torrent[Other(e)]

(* The first thing the loop gets is the bitfield, without which it would   *)
(* take no order, and no handshake ever reaches it.                        *)
FieldFirst ==
  \A e \in Ends : reader[e] = "holds" /\ ~known[e] => Head(held[e]).kind = "bitfield"

(* Main hears once of every connection that is over, and never of one that *)
(* still uses its slot.                                                    *)
ReportedOnce ==
  \A e \in Ends :
    reported[e] = IF todo[e] \in {<<"close">>, <<>>} THEN 1 ELSE 0

InHandshake(e) ==
  \E what \in {"send handshake", "accept handshake", "send bitfield"} : Doing(e, what)

(* Two clients never wait for each other in a handshake.                   *)
Settles ==
  \A e \in Ends : InHandshake(e) ~> ~InHandshake(e)

(* When one end closes its socket, for whatever reason, the other end      *)
(* notices, gives its slot up and closes as well.                          *)
EndsTogether ==
  \A e \in Ends : ~open[e] ~> ~open[Other(e)] /\ todo[Other(e)] \in {<<>>, Forgotten}
=============================================================================
