------------------------------ MODULE Transfer ------------------------------
(***************************************************************************)
(* One connection between two instances of the client, after the           *)
(* handshake: each end runs communicationLoop, downloads what it lacks     *)
(* from the other and uploads what the other asks for.                     *)
(*                                                                         *)
(* A step is one message, or one list of peers to unchoke, taken by the    *)
(* select, with all the work of the loop up to the next select.  The two   *)
(* directions of the TCP connection are first-in first-out and each has    *)
(* one writer, so nothing can be observed in the middle of such a step.    *)
(* Lengths and offsets count chunks of chunkSize bytes; both ends hold     *)
(* intact data, so hashes match; and the number of pieces is no multiple   *)
(* of eight, for which a bitfield made by New is refused as too long.      *)
(***************************************************************************)
EXTENDS Naturals, Sequences, SequencesExt, FiniteSets, Functions

CONSTANTS
  Nodes,           \* the two ends
  Pieces,          \* indexes of the torrent's pieces
  Initial,         \* the pieces each end has when the connection opens
  Chunks,          \* chunks in a piece: order.Length / chunkSize
  PipelineLength,  \* requests an end may have outstanding
  MaxChanges,      \* bound: choke changes in flight, or being answered
  NoPiece,         \* progress.order = nil
  NoBitfield       \* the bitfield has not arrived

ASSUME NodesAssumption == \E m, n \in Nodes : m # n /\ Nodes = {m, n}
ASSUME PiecesAssumption == NoPiece \notin Pieces /\ IsFiniteSet(Pieces)
ASSUME InitialAssumption == Initial \in [Nodes -> SUBSET Pieces]
ASSUME LengthsAssumption ==
  /\ Chunks \in Nat \ {0}
  /\ PipelineLength \in Nat \ {0}
  /\ MaxChanges \in Nat \ {0}

VARIABLES
  node,  \* the state of communicationLoop at each end
  wire   \* wire[n]: the messages on their way to n

vars == <<node, wire>>

Other(n) == CHOOSE m \in Nodes : m # n

Message(type, body) == [type |-> type, body |-> body]
Bare(type) == Message(type, NoPiece)

(* The handshake leaves each end choking and choked, with nothing asked,   *)
(* and the other's bitfield on the wire.  Orders holds the missing pieces. *)
Init ==
  /\ node \in [Nodes -> [
       has : SUBSET Pieces,              \* results.Pieces
       orders : UNION {SetToSeqs(Pieces \ Initial[n]) : n \in Nodes},
       bf : {NoBitfield},                \* peer.Bitfield
       order : {NoPiece},                \* progress.order
       received : {{}},                  \* chunks in progress.buf
       numDone : {0},                    \* progress.numDone
       requests : {<<>>},                \* progress.requests
       next : {1},                       \* progress.nextToRequest
       chokedBy : {TRUE}, choking : {TRUE},
       interested : {FALSE}, interestedSent : {FALSE},
       requested : {<<>>},               \* seedState.requested
       failed : {FALSE},                 \* the loop has ended in an error
       out : {<<>>}]]                    \* what this iteration has written
  /\ \A n \in Nodes :
       /\ node[n].has = Initial[n]
       /\ node[n].orders \in SetToSeqs(Pieces \ Initial[n])
  /\ wire = [n \in Nodes |-> <<Message("bitfield", Initial[Other(n)])>>]

-----------------------------------------------------------------------------
(* The top of the loop: five things an iteration does to the state s of    *)
(* one end before it blocks in the select.                                 *)

(* Deleting from a slice: the last element takes the place of the i-th.    *)
(* Variant: the slice is only cut.                                         *)
DropLast(q, i) == SubSeq(q, 1, Len(q) - 1)
SwapDelete(q, i) == SubSeq([q EXCEPT ![i] = q[Len(q)]], 1, Len(q) - 1)

(* One requested chunk goes out, if the peer is interested and unchoked.   *)
(* A request for a piece that is not there crashes the client.             *)
UploadChunk(s) ==
  IF s.choking \/ ~s.interested \/ s.requested = <<>> THEN s
  ELSE IF Head(s.requested)[1] \notin s.has THEN [s EXCEPT !.failed = TRUE]
  ELSE [s EXCEPT !.out = Append(@, Message("piece", Head(s.requested))),
                 !.requested = SwapDelete(@, 1)]

(* A complete piece is announced and handed over, and progress is reset.   *)
CompletePiece(s) ==
  IF s.order = NoPiece \/ s.numDone # Chunks THEN s
  ELSE [s EXCEPT !.out = Append(@, Bare("have")), !.has = @ \cup {s.order},
                 !.order = NoPiece, !.received = {}, !.numDone = 0,
                 !.requests = <<>>, !.next = 1]

(* The next order becomes this end's, or goes to the back of the queue     *)
(* when the peer does not have the piece.  Variant: it goes there anyway.  *)
TakeAndPutBack(s) ==
  IF s.order # NoPiece \/ s.bf = NoBitfield \/ s.orders = <<>> THEN s
  ELSE [s EXCEPT !.orders = Append(Tail(@), Head(@)),
                 !.order = IF Head(s.orders) \in s.bf THEN Head(s.orders) ELSE @]

TakePiece(s) ==
  IF s.order # NoPiece \/ s.bf = NoBitfield \/ s.orders = <<>> THEN s
  ELSE IF Head(s.orders) \in s.bf
  THEN [s EXCEPT !.order = Head(s.orders), !.orders = Tail(@)]
  ELSE [s EXCEPT !.orders = Append(Tail(@), Head(@))]

(* Variant: the flag is set although the message was not written.          *)
MarkInterested(s) ==
  IF s.order = NoPiece \/ ~s.chokedBy THEN s
  ELSE [s EXCEPT !.interestedSent = TRUE]

SayInterested(s) ==
  IF s.order = NoPiece \/ ~s.chokedBy \/ s.interestedSent THEN s
  ELSE [s EXCEPT !.out = Append(@, Bare("interested")),
                 !.interestedSent = TRUE]

(* How many more requests may be sent: the pipeline's room, or what is     *)
(* left of the piece.  Variants: whatever is outstanding already; without  *)
(* the last chunk.                                                         *)
PipelineToSend(s) ==
  LET left == Chunks + 1 - s.next
  IN  IF PipelineLength < left THEN PipelineLength ELSE left

NotTheLast(s) ==
  LET room == PipelineLength - Len(s.requests)
      left == Chunks - s.next
  IN  IF room < left THEN room ELSE left

NumberToSend(s) ==
  LET room == PipelineLength - Len(s.requests)
      left == Chunks + 1 - s.next
  IN  IF room < left THEN room ELSE left

FillRequests(s) ==
  IF s.order = NoPiece \/ s.chokedBy \/ Len(s.requests) >= PipelineLength THEN s
  ELSE LET new == [i \in 1..NumberToSend(s) |-> s.next + i - 1]
       IN  [s EXCEPT
             !.out = @ \o [i \in DOMAIN new |-> Message("request", <<s.order, new[i]>>)],
             !.requests = @ \o new,
             !.next = @ + Len(new)]

Iterate(s) ==
  FillRequests(SayInterested(TakePiece(CompletePiece(UploadChunk(s)))))

(* From a select that left the state s and the messages rest to the next.  *)
Loop(n, s, rest) ==
  LET t == Iterate(s)
  IN  /\ node' = [node EXCEPT ![n] = [t EXCEPT !.out = <<>>]]
      /\ wire' = [wire EXCEPT ![n] = rest, ![Other(n)] = @ \o t.out]

-----------------------------------------------------------------------------
(* What the select receives.                                               *)

Receives(n, type) ==
  /\ ~node[n].failed
  /\ wire[n] # <<>> /\ Head(wire[n]).type = type

Body(n) == Head(wire[n]).body

(* handleMessage has changed n's state to s.                               *)
Handled(n, s) == Loop(n, s, Tail(wire[n]))

(* handleMessage returns an error, or panics.                              *)
Fail(n) ==
  /\ node' = [node EXCEPT ![n].failed = TRUE]
  /\ wire' = [wire EXCEPT ![n] = Tail(@)]

(* Variant: outstanding requests are forgotten.                            *)
ChokedForgets(s) ==
  [s EXCEPT !.chokedBy = TRUE, !.interestedSent = FALSE, !.requests = <<>>]
Choked(s) == [s EXCEPT !.chokedBy = TRUE, !.interestedSent = FALSE]

HandleChoke(n) ==
  /\ Receives(n, "choke")
  /\ Handled(n, Choked(node[n]))

HandleUnchoke(n) ==
  /\ Receives(n, "unchoke")
  /\ Handled(n, [node[n] EXCEPT !.chokedBy = FALSE])

HandleInterested(n) ==
  /\ Receives(n, "interested")
  /\ Handled(n, [node[n] EXCEPT !.interested = TRUE])

(* 'have' only counts an upload; the peer's bitfield stays as it is.       *)
HandleHave(n) ==
  /\ Receives(n, "have")
  /\ Handled(n, node[n])

HandleBitfield(n) ==
  /\ Receives(n, "bitfield")
  /\ Handled(n, [node[n] EXCEPT !.bf = Body(n)])

HandleRequest(n) ==
  /\ Receives(n, "request")
  /\ Handled(n, [node[n] EXCEPT !.requested = Append(@, Body(n))])

(* A chunk must be of the piece in progress and answer a request.          *)
HandlePiece(n) ==
  /\ Receives(n, "piece")
  /\ LET s == node[n]
         k == Body(n)[2]
     IN  IF Body(n)[1] = s.order /\ k \in Range(s.requests)
         THEN \E i \in DOMAIN s.requests :
                /\ s.requests[i] = k
                /\ \A j \in 1..(i - 1) : s.requests[j] # k
                /\ Handled(n, [s EXCEPT !.requests = SwapDelete(@, i),
                                        !.numDone = @ + 1,
                                        !.received = @ \cup {k}])
         ELSE Fail(n)

Receive(n) ==
  \/ HandleChoke(n)
  \/ HandleUnchoke(n)
  \/ HandleInterested(n)
  \/ HandleHave(n)
  \/ HandleBitfield(n)
  \/ HandleRequest(n)
  \/ HandlePiece(n)

(* Where messages of some types are among those on their way to n.         *)
Places(n, types) == {i \in DOMAIN wire[n] : wire[n][i].type \in types}
Changes(n) == Places(n, {"choke", "unchoke"})
Interests(n) == Places(n, {"interested"})

(* The peer is in main's list of peers to unchoke, or it is not: it hears  *)
(* of it when that is news.  Variant: a choke is kept secret.              *)
RechokeSecretly(s, included) ==
  [s EXCEPT !.choking = ~included,
            !.out = IF included /\ s.choking THEN Append(@, Bare("unchoke")) ELSE @]

Rechoke(s, included) ==
  IF included # s.choking THEN s
  ELSE [s EXCEPT !.choking = ~included,
                 !.out = Append(@, Bare(IF included THEN "unchoke" ELSE "choke"))]

(* Main's list arrives.  It names whom it likes: main may have heard of    *)
(* the peer's interest on another connection, and the loop does not ask    *)
(* whether the peer is interested on this one.                             *)
ChokeTick(n, included) ==
  /\ ~node[n].failed
  /\ included = node[n].choking =>
       Cardinality(Changes(Other(n))) + Cardinality(Interests(n)) < MaxChanges
  /\ Loop(n, Rechoke(node[n], included), wire[n])

Next ==
  \E n \in Nodes :
    \/ Receive(n)
    \/ \E included \in BOOLEAN : ChokeTick(n, included)

Spec == Init /\ [][Next]_vars

(* Messages are read.  Lists come every ten seconds, so an iteration that  *)
(* would do something happens, though the list says what it said before.   *)
(* Main's choke algorithm picks a peer that said it is interested again    *)
(* and again, if not every time.                                           *)
SameTick(n) == ChokeTick(n, ~node[n].choking)
AnyTick(n) == \E included \in BOOLEAN : ChokeTick(n, included)
TimelyTick(n) == (ENABLED <<SameTick(n)>>_vars) /\ AnyTick(n)
PickInterested(n) == node[n].interested /\ ChokeTick(n, TRUE)

FairSpec ==
  /\ Spec
  /\ \A n \in Nodes :
       WF_vars(Receive(n)) /\ WF_vars(TimelyTick(n)) /\ SF_vars(PickInterested(n))

-----------------------------------------------------------------------------
(* Properties.                                                             *)

Request == Pieces \X (1..Chunks)

TypeOK ==
  \A n \in Nodes :
    LET s == node[n] IN
    /\ s.has \subseteq Pieces /\ Range(s.orders) \subseteq Pieces
    /\ s.bf = NoBitfield \/ s.bf \subseteq Pieces
    /\ s.order \in Pieces \cup {NoPiece}
    /\ s.received \subseteq 1..Chunks /\ s.numDone \in 0..Chunks
    /\ Range(s.requests) \subseteq 1..Chunks
    /\ Len(s.requests) <= PipelineLength
    /\ s.next \in 1..(Chunks + 1)
    /\ {s.chokedBy, s.choking, s.interested, s.interestedSent, s.failed} \subseteq BOOLEAN
    /\ Range(s.requested) \subseteq Request
    /\ s.out = <<>>

(* Neither end ever gives up on the other: no chunk comes unasked, for     *)
(* another piece or with no order, and no request names a missing piece.   *)
NothingRejected == \A n \in Nodes : ~node[n].failed

Bodies(n, type) == [i \in Places(n, {type}) |-> wire[n][i].body]

(* The requests of n that have left and not been answered yet, wherever    *)
(* they are: on the way, in the other end's list, or on the way back.      *)
UnderWay(n) ==
  <<Bodies(Other(n), "request"), node[Other(n)].requested, Bodies(n, "piece")>>

(* The downloader's list of outstanding requests is exactly what is under  *)
(* way, each once, however chokes and unchokes fall; what is neither       *)
(* outstanding nor still to be requested has been received once.           *)
RequestsAccounted ==
  \A n \in Nodes :
    LET s == node[n]
        asked == Range(s.requests)
        under == UnderWay(n)
    IN  /\ IsInjective(s.requests)
        /\ \A w \in 1..3 : IsInjective(under[w])
        /\ \A v, w \in 1..3 : v # w => Range(under[v]) \cap Range(under[w]) = {}
        /\ UNION {Range(under[w]) : w \in 1..3} = {s.order} \X asked
        /\ asked \cap s.received = {}
        /\ asked \cup s.received = 1..(s.next - 1)
        /\ s.numDone = Cardinality(s.received)

(* What the last choke or unchoke says is what the other end means: the    *)
(* view of the choked end is behind by the messages in flight, never wrong.*)
ChokeViewsAgree ==
  \A n \in Nodes :
    /\ Changes(n) = {} => node[Other(n)].choking = node[n].chokedBy
    /\ \A i \in Changes(n) :
         (\A j \in Changes(n) : j <= i) =>
           node[Other(n)].choking = (wire[n][i].type = "choke")

(* An end that is choked and has an order does not wait for a peer that    *)
(* does not know: the peer has been told of its interest, or the message   *)
(* is on its way, however often and early it was unchoked and choked.      *)
InterestKnown ==
  \A n \in Nodes :
    node[n].order # NoPiece /\ node[n].chokedBy =>
      \/ node[Other(n)].interested
      \/ Interests(Other(n)) # {}

(* Between the messages, each end gathers whole pieces that the other has, *)
(* one after the other and none twice, as Trade promises.                  *)
T == INSTANCE Trade WITH
       has <- [n \in Nodes |-> node[n].has],
       order <- [n \in Nodes |-> node[n].order],
       received <- [n \in Nodes |-> node[n].received]
ImplementsTrade == T!Spec

(* Each end gets all that the other had to offer, unless main goes on      *)
(* listing a peer that has an order and has not said on this connection    *)
(* that it is interested: unchoked, such a peer never says so, and gets    *)
(* nothing.                                                                *)
UnchokedAreKnown ==
  \A n \in Nodes :
    node[n].choking \/ node[n].interested \/ node[Other(n)].order = NoPiece
Exchange ==
  <>[]UnchokedAreKnown => <>(\A n \in Nodes : Initial[Other(n)] \subseteq node[n].has)
=============================================================================
