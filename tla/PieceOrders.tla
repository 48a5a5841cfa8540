---------------------------- MODULE PieceOrders -----------------------------
(***************************************************************************)
(* The work queue of the client: how a piece order travels from main's     *)
(* Orders channel to one of the peer goroutines, through the Results       *)
(* channel back to main, and what happens to it when a connection ends, a  *)
(* hash does not match or the client is interrupted.                       *)
(*                                                                         *)
(* Each connection is one goroutine running communicationLoop.  A step is  *)
(* one channel operation with the local work around it, so the steps of    *)
(* different goroutines interleave exactly where Go lets them.  How the    *)
(* chunks of one piece are requested is Transfer's subject; here a buffer  *)
(* is partial until its last chunk arrives.                                *)
(***************************************************************************)
EXTENDS Naturals, Sequences, SequencesExt, FiniteSets, Functions

CONSTANTS
  Pieces,      \* indexes of the torrent's pieces
  Conns,       \* connection slots, each with at most one goroutine at a time
  Bitfields,   \* the sets of pieces a remote peer may announce
  NoOrder,     \* progress.order = nil
  NoBitfield   \* the peer's bitfield has not arrived (its Length is 0)

ASSUME PiecesAssumption == IsFiniteSet(Pieces) /\ NoOrder \notin Pieces
ASSUME BitfieldsAssumption ==
  /\ \A b \in Bitfields : b \subseteq Pieces
  /\ NoBitfield \notin Bitfields

VARIABLES
  orders,      \* channel main -> goroutines of pieces to download
  results,     \* channel goroutines -> main of verified pieces
  pieces,      \* indexes i with results.Pieces[i] # nil (and bit i set)
  piecesDone,  \* results.PiecesDone
  disk,        \* pieces held by the partial files or by the result file
  saved,       \* alreadySavedFinalFile
  main,        \* main: in its "loop", asking a "tracker", cancelled and
               \* asleep ("exiting"), returned ("exited"), or "crashed"
  pc,          \* control state of each connection's goroutine
  order,       \* the piece of progress.order, or popped by getPiece
  buf,         \* progress.buf: partial, or full with a good or a bad hash
  bf,          \* peer.Bitfield
  dropped      \* history: pieces whose order a rejected message discarded

mainVars == <<pieces, piecesDone, disk, saved, main>>
connVars == <<pc, order, buf, bf>>
vars == <<orders, results, mainVars, connVars, dropped>>

N == Cardinality(Pieces)    \* len(torrent.PieceHashes), every channel's capacity

(***************************************************************************)
(* Start: pieces already on disk are loaded, the others are ordered in a   *)
(* random permutation before any goroutine starts.                         *)
(***************************************************************************)
Init ==
  /\ pieces \in SUBSET Pieces
  /\ piecesDone = Cardinality(pieces)
  /\ disk = pieces
  /\ saved \in {s \in BOOLEAN : s => pieces = Pieces}
  /\ main = "loop"
  /\ orders \in SetToSeqs(Pieces \ pieces)
  /\ results = <<>>
  /\ pc = [c \in Conns |-> "off"]
  /\ order = [c \in Conns |-> NoOrder]
  /\ buf = [c \in Conns |-> "partial"]
  /\ bf = [c \in Conns |-> NoBitfield]
  /\ dropped = {}

-----------------------------------------------------------------------------
(* Steps of a goroutine.                                                   *)

Goto(c, l) == pc' = [pc EXCEPT ![c] = l]

(* Variant: the buffer alone is reset.                                     *)
ResetBuffer(c) ==
  /\ buf' = [buf EXCEPT ![c] = "partial"]
  /\ UNCHANGED order

(* progress = pieceProgress{}, or the locals die with the goroutine.       *)
ResetProgress(c) ==
  /\ order' = [order EXCEPT ![c] = NoOrder]
  /\ buf' = [buf EXCEPT ![c] = "partial"]

(* Variant: the order is not sent.                                         *)
ForgetOrder(c) == UNCHANGED orders

(* comms.Orders <- progress.order, which waits while the channel is full.  *)
ReturnOrder(c) ==
  /\ Len(orders) < N
  /\ orders' = Append(orders, order[c])

(* The handshake is over, for an accepted or a dialled connection.         *)
OpenConnection(c) ==
  /\ pc[c] = "off"
  /\ Goto(c, "top")
  /\ UNCHANGED <<orders, results, mainVars, order, buf, bf, dropped>>

(* The buffer is full and its hash is wrong: the order goes back.          *)
HashMismatch(c) ==
  /\ pc[c] = "top" /\ buf[c] = "bad"
  /\ ReturnOrder(c)
  /\ ResetProgress(c)
  /\ UNCHANGED <<results, mainVars, pc, bf, dropped>>

(* The hash is right, 'have' goes out and the piece goes to main.          *)
DeliverPiece(c) ==
  /\ pc[c] = "top" /\ buf[c] = "good"
  /\ Len(results) < N
  /\ results' = Append(results, order[c])
  /\ ResetProgress(c)
  /\ UNCHANGED <<orders, mainVars, pc, bf, dropped>>

(* The hash is right but 'have' cannot be written: progress is kept, and   *)
(* every later iteration tries again.                                      *)
HaveNotSent(c) ==
  /\ pc[c] = "top" /\ buf[c] = "good"
  /\ Goto(c, "select")
  /\ UNCHANGED <<orders, results, mainVars, order, buf, bf, dropped>>

(* Variant: the order is looked at and left in the channel.                *)
PeekOrder == UNCHANGED orders
PopOrder == orders' = Tail(orders)

(* getPiece pops an order: one the peer has becomes the goroutine's, any   *)
(* other is held until PutBack.                                            *)
TakeOrder(c) ==
  /\ pc[c] = "top" /\ order[c] = NoOrder
  /\ bf[c] # NoBitfield /\ orders # <<>>
  /\ order' = [order EXCEPT ![c] = Head(orders)]
  /\ PopOrder
  /\ Goto(c, IF Head(orders) \in bf[c] THEN "select" ELSE "putback")
  /\ UNCHANGED <<results, mainVars, buf, bf, dropped>>

PutBack(c) ==
  /\ pc[c] = "putback"
  /\ ReturnOrder(c)
  /\ ResetProgress(c)
  /\ Goto(c, "select")
  /\ UNCHANGED <<results, mainVars, bf, dropped>>

(* Nothing to complete and nothing to take: on to the select.              *)
Proceed(c) ==
  /\ pc[c] = "top" /\ buf[c] = "partial"
  /\ order[c] = NoOrder => bf[c] = NoBitfield \/ orders = <<>>
  /\ Goto(c, "select")
  /\ UNCHANGED <<orders, results, mainVars, order, buf, bf, dropped>>

(* The chunk that completes the piece arrives.                             *)
ReceiveLastChunk(c, hash) ==
  /\ pc[c] = "select" /\ order[c] # NoOrder /\ buf[c] = "partial"
  /\ buf' = [buf EXCEPT ![c] = hash]
  /\ Goto(c, "top")
  /\ UNCHANGED <<orders, results, mainVars, order, bf, dropped>>

ReceiveBitfield(c, b) ==
  /\ pc[c] = "select"
  /\ bf' = [bf EXCEPT ![c] = b]
  /\ Goto(c, "top")
  /\ UNCHANGED <<orders, results, mainVars, order, buf, dropped>>

(* Any other message, a keep-alive, or a list of peers to unchoke.         *)
Wake(c) ==
  /\ pc[c] = "select"
  /\ Goto(c, "top")
  /\ UNCHANGED <<orders, results, mainVars, order, buf, bf, dropped>>

(* handleMessage returns an error: the goroutine closes the connection and *)
(* returns, and the order it held goes nowhere.                            *)
RejectMessage(c) ==
  /\ pc[c] = "select"
  /\ dropped' = dropped \cup ({order[c]} \ {NoOrder})
  /\ ResetProgress(c)
  /\ bf' = [bf EXCEPT ![c] = NoBitfield]
  /\ Goto(c, "off")
  /\ UNCHANGED <<orders, results, mainVars>>

(* A chunk while progress.order is nil: the process panics, and with it go *)
(* all its goroutines and what main has not written.                       *)
Panic(c) ==
  /\ pc[c] = "select" /\ order[c] = NoOrder
  /\ main' = "crashed"
  /\ UNCHANGED <<orders, results, pieces, piecesDone, disk, saved, connVars, dropped>>

(* Both other ways out of the select first give the order back.            *)
LeaveSelect(c) ==
  /\ pc[c] = "select"
  /\ Goto(c, IF order[c] = NoOrder THEN "off" ELSE "giveback")
  /\ bf' = [bf EXCEPT ![c] = NoBitfield]
  /\ UNCHANGED <<orders, results, mainVars, order, buf, dropped>>

(* Variant: the order dies with the goroutine, unrecorded.                 *)
LeaveWithOrder(c) ==
  /\ pc[c] = "select"
  /\ ResetProgress(c)
  /\ bf' = [bf EXCEPT ![c] = NoBitfield]
  /\ Goto(c, "off")
  /\ UNCHANGED <<orders, results, mainVars, dropped>>

LoseConnection(c) == LeaveSelect(c)

ContextDone(c) == main = "exiting" /\ LeaveSelect(c)

GiveBack(c) ==
  /\ pc[c] = "giveback"
  /\ ReturnOrder(c)
  /\ ResetProgress(c)
  /\ Goto(c, "off")
  /\ UNCHANGED <<results, mainVars, bf, dropped>>

-----------------------------------------------------------------------------
(* Steps of main.                                                          *)

(* The counter main goes by.  Variant: one piece too early.                *)
AllButOneDone == piecesDone' >= N - 1
AllDone == piecesDone' = N

(* The end of every iteration of main's loop: once the counter says that   *)
(* all pieces are there, they are written to the result file.              *)
SaveIfComplete ==
  IF AllDone /\ ~saved
  THEN saved' = TRUE /\ disk' = pieces'
  ELSE UNCHANGED <<saved, disk>>

(* Variant: main stops listening to Results when no order is left.         *)
ResultReadyAmongOrders == main = "loop" /\ results # <<>> /\ orders # <<>>
ResultReady == main = "loop" /\ results # <<>>

(* A piece arrives from the Results channel.                               *)
RecordPiece ==
  /\ ResultReady
  /\ results' = Tail(results)
  /\ pieces' = pieces \cup {Head(results)}
  /\ piecesDone' = piecesDone + 1
  /\ SaveIfComplete
  /\ UNCHANGED <<orders, main, connVars, dropped>>

(* A timer, an interest or an upload message: the iteration only saves.    *)
MainTick ==
  /\ main = "loop"
  /\ piecesDone = N /\ ~saved
  /\ UNCHANGED <<pieces, piecesDone>>
  /\ SaveIfComplete
  /\ UNCHANGED <<orders, results, main, connVars, dropped>>

(* From time to time main asks its tracker, and others if it fails, and    *)
(* does nothing else until one answers, which may be never (see Tracker).  *)
AskTracker ==
  /\ main = "loop"
  /\ main' = "tracker"
  /\ UNCHANGED <<orders, results, pieces, piecesDone, disk, saved, connVars, dropped>>

TrackerAnswers ==
  /\ main = "tracker"
  /\ main' = "loop"
  /\ UNCHANGED <<pieces, piecesDone>>
  /\ SaveIfComplete
  /\ UNCHANGED <<orders, results, connVars, dropped>>

(* SIGINT, or there is no tracker left: the context is cancelled and main  *)
(* sleeps a second; it receives nothing any more.                          *)
Interrupt ==
  /\ main \in {"loop", "tracker"}
  /\ main' = "exiting"
  /\ UNCHANGED <<orders, results, pieces, piecesDone, disk, saved, connVars, dropped>>

(* The pieces that the start did not find on disk are appended to the      *)
(* partial files, and the process ends with all its goroutines.            *)
Exit ==
  /\ main = "exiting"
  /\ main' = "exited"
  /\ disk' = IF ~saved /\ Cardinality(disk) < N THEN disk \cup pieces ELSE disk
  /\ UNCHANGED <<orders, results, pieces, piecesDone, saved, connVars, dropped>>

-----------------------------------------------------------------------------
(* What a goroutine does without waiting for a message.                    *)
RunLoop(c) ==
  \/ HashMismatch(c)
  \/ DeliverPiece(c)
  \/ HaveNotSent(c)
  \/ TakeOrder(c)
  \/ PutBack(c)
  \/ Proceed(c)
  \/ GiveBack(c)

(* What its select reacts to.                                              *)
Select(c) ==
  \/ \E hash \in {"good", "bad"} : ReceiveLastChunk(c, hash)
  \/ \E b \in Bitfields : ReceiveBitfield(c, b)
  \/ Wake(c)
  \/ RejectMessage(c)
  \/ Panic(c)
  \/ LoseConnection(c)
  \/ ContextDone(c)

ConnStep(c) == OpenConnection(c) \/ RunLoop(c) \/ Select(c)

Over == main \in {"exited", "crashed"}
Terminated == Over /\ UNCHANGED vars

Next ==
  \/ ~Over /\ \E c \in Conns : ConnStep(c)
  \/ RecordPiece
  \/ MainTick
  \/ AskTracker
  \/ TrackerAnswers
  \/ Interrupt
  \/ Exit
  \/ Terminated

Spec == Init /\ [][Next]_vars

-----------------------------------------------------------------------------
(* Fairness.  A goroutine that can run does.  Go's select chooses at       *)
(* random among the ready cases, so main, as often as it gets there, takes *)
(* a piece in the end: strong fairness.  That it gets there again, instead *)
(* of asking trackers for ever, is a premise of what main promises.        *)

Fairness ==
  /\ SF_vars(RecordPiece)
  /\ WF_vars(MainTick)
  /\ \A c \in Conns : WF_vars(~Over /\ RunLoop(c))

FairSpec == Spec /\ Fairness

AskingEnds == []<>(main # "tracker")

(* The environment of a connection: its slot is used again, its peer sends *)
(* its bitfield and a chunk that is offered again and again is taken; an   *)
(* idle goroutine is woken, by the next list of peers to unchoke if by     *)
(* nothing else.                                                           *)
FairPeer(c) ==
  /\ WF_vars(OpenConnection(c))
  /\ SF_vars(bf[c] = NoBitfield /\ \E b \in Bitfields : ReceiveBitfield(c, b))
  /\ SF_vars(ReceiveLastChunk(c, "good"))
  /\ WF_vars(Wake(c))

(* What FairPeer does not exclude: any of these may happen at any time.    *)
Fault(c) ==
  \/ HaveNotSent(c)
  \/ ReceiveLastChunk(c, "bad")
  \/ RejectMessage(c)
  \/ LoseConnection(c)

(* From some time on the peer is complete, answers, and nothing goes wrong.*)
GoodPeer(c) ==
  /\ FairPeer(c)
  /\ <>[][~Fault(c)]_vars
  /\ <>[](bf[c] \in {NoBitfield, Pieces})

-----------------------------------------------------------------------------
(* Properties.                                                             *)

(* Every variable keeps its type, and no channel overflows its capacity.   *)
TypeOK ==
  /\ orders \in Seq(Pieces) /\ Len(orders) <= N
  /\ results \in Seq(Pieces) /\ Len(results) <= N
  /\ pieces \in SUBSET Pieces
  /\ piecesDone \in 0..N
  /\ disk \in SUBSET Pieces
  /\ saved \in BOOLEAN
  /\ main \in {"loop", "tracker", "exiting", "exited", "crashed"}
  /\ pc \in [Conns -> {"off", "top", "select", "putback", "giveback"}]
  /\ order \in [Conns -> Pieces \cup {NoOrder}]
  /\ buf \in [Conns -> {"partial", "good", "bad"}]
  /\ bf \in [Conns -> Bitfields \cup {NoBitfield}]
  /\ dropped \in SUBSET Pieces

Ordered == Range(orders)
Held == {order[c] : c \in Conns} \ {NoOrder}
Verified == Range(results)
HeldOnce ==
  \A c, d \in Conns : c # d /\ order[c] = order[d] => order[c] = NoOrder

(* A piece is never in two hands: main counts Results with PiecesDone += 1 *)
(* and stops the download on the count alone, so one order delivered by    *)
(* two goroutines would end the download with a piece missing.             *)
NoPieceTwice ==
  /\ IsInjective(orders) /\ IsInjective(results)
  /\ HeldOnce
  /\ Ordered \cap (Held \cup Verified \cup pieces \cup dropped) = {}
  /\ Held \cap (Verified \cup pieces \cup dropped) = {}
  /\ Verified \cap (pieces \cup dropped) = {}
  /\ pieces \cap dropped = {}

(* Whatever connections come and go, every piece is ordered, held by a     *)
(* goroutine, verified or stored; only a rejected message makes one        *)
(* disappear (communicationLoop's error return does not give it back).     *)
NoPieceLost == Pieces = Ordered \cup Held \cup Verified \cup pieces \cup dropped

(* No goroutine ever waits for room in a channel: the two channels hold    *)
(* one slot per piece, and an order about to be sent is in neither.        *)
SendsNeverBlock ==
  \A c \in Conns :
    /\ \/ pc[c] \in {"putback", "giveback"}
       \/ pc[c] = "top" /\ buf[c] = "bad"
       => Len(orders) < N
    /\ pc[c] = "top" /\ buf[c] = "good" => Len(results) < N

(* When PiecesDone reaches the number of pieces, main saves the file: by   *)
(* then no piece is missing, travelling or still wanted by anybody.        *)
CompleteMeansIdle ==
  piecesDone = N =>
    /\ pieces = Pieces
    /\ orders = <<>> /\ results = <<>>
    /\ \A c \in Conns : order[c] = NoOrder

(* The whole machinery implements what the client promises.                *)
State ==
  CASE main = "exited" -> "stopped"
    [] main = "crashed" -> "crashed"
    [] OTHER -> "running"
D == INSTANCE Download WITH have <- pieces, state <- State
ImplementsDownload == D!Spec

(* What ends the download otherwise: main ends, or an order was dropped.   *)
Interrupted == main \notin {"loop", "tracker"}
Downloaded == saved \/ Interrupted \/ dropped # {}

(* Main stores every verified piece, whatever peers do and however often   *)
(* it asks for trackers, unless it ends or never comes back from asking.   *)
VerifiedIsStored ==
  AskingEnds => \A p \in Pieces : p \in Verified ~> p \in pieces \/ Interrupted

(* Good peers bring the download to its end, all working at once: none of  *)
(* them keeps an order that another one would need.                        *)
Completion ==
  AskingEnds /\ (\A c \in Conns : GoodPeer(c)) => <>Downloaded

(* One good peer is enough, whatever the others did before they had no     *)
(* order any more: those they took went back, and the good peer's          *)
(* goroutine finds them.                                                   *)
OnePeerSuffices ==
  \A c \in Conns :
    /\ AskingEnds
    /\ GoodPeer(c)
    /\ \A d \in Conns \ {c} : <>[](order[d] = NoOrder)
    => <>Downloaded
=============================================================================
