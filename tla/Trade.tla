-------------------------------- MODULE Trade -------------------------------
(***************************************************************************)
(* What a connection between two clients promises about pieces, with       *)
(* nothing said about messages, chokes or pipelines: each end gathers, one *)
(* at a time, pieces that it lacks and the other has; it keeps to a piece  *)
(* until all of its chunks have come, each once; and then it has the piece *)
(* for good.  Transfer implements this specification.                      *)
(***************************************************************************)
EXTENDS Naturals

CONSTANTS
  Nodes,     \* the two ends
  Initial,   \* the pieces of each end when the connection opens
  Chunks,    \* chunks in a piece
  NoPiece    \* nothing is being gathered

VARIABLES
  has,       \* the pieces of each end
  order,     \* the piece that it gathers
  received   \* the chunks of that piece that it has

vars == <<has, order, received>>

Init ==
  /\ has = Initial
  /\ order = [n \in Nodes |-> NoPiece]
  /\ received = [n \in Nodes |-> {}]

(* What n may gather when the pieces mine are its own.                     *)
OnOffer(n, mine) == (UNION {has[m] : m \in Nodes \ {n}}) \ mine

Choose(n) ==
  /\ order[n] = NoPiece
  /\ \E p \in OnOffer(n, has[n]) : order' = [order EXCEPT ![n] = p]
  /\ UNCHANGED <<has, received>>

GetChunk(n) ==
  /\ order[n] # NoPiece
  /\ \E k \in (1..Chunks) \ received[n] :
       /\ received[n] \cup {k} # 1..Chunks
       /\ received' = [received EXCEPT ![n] = @ \cup {k}]
  /\ UNCHANGED <<has, order>>

(* The last chunk completes the piece, and another may be chosen at once.  *)
GetLastChunk(n) ==
  /\ order[n] # NoPiece
  /\ \E k \in (1..Chunks) \ received[n] : received[n] \cup {k} = 1..Chunks
  /\ has' = [has EXCEPT ![n] = @ \cup {order[n]}]
  /\ received' = [received EXCEPT ![n] = {}]
  /\ \E p \in OnOffer(n, has'[n]) \cup {NoPiece} : order' = [order EXCEPT ![n] = p]

Next == \E n \in Nodes : Choose(n) \/ GetChunk(n) \/ GetLastChunk(n)

Spec == Init /\ [][Next]_vars
=============================================================================
