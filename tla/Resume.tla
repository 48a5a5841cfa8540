------------------------------- MODULE Resume -------------------------------
(***************************************************************************)
(* What the client promises about a torrent over all of its runs: a run    *)
(* starts with every piece that earlier runs stored, nothing stored is     *)
(* ever lost, a run that ends by itself has stored all it has, and only    *)
(* after a run that was killed may the next one refuse to start.  A write  *)
(* that fails ends the promise.                                            *)
(* Persistence implements this specification.                              *)
(***************************************************************************)
CONSTANT Pieces    \* indexes of the torrent's pieces

VARIABLES
  have,   \* the pieces of the run in progress
  store,  \* the pieces on disk
  run     \* "running", how the last run came to its end, or "broken"

vars == <<have, store, run>>

Init ==
  /\ have = {}
  /\ store = {}
  /\ run = "ended"

Start ==
  /\ run \in {"ended", "killed"}
  /\ run' = "running"
  /\ have' = store
  /\ UNCHANGED store

Gather ==
  /\ run = "running"
  /\ \E p \in Pieces \ have : have' = have \cup {p}
  /\ UNCHANGED <<store, run>>

Store ==
  /\ run = "running"
  /\ \E p \in have \ store : store' = store \cup {p}
  /\ UNCHANGED <<have, run>>

End ==
  /\ run = "running"
  /\ store = have
  /\ run' = "ended"
  /\ have' = {}
  /\ UNCHANGED store

Kill ==
  /\ run = "running"
  /\ run' = "killed"
  /\ have' = {}
  /\ UNCHANGED store

(* What a killed run left behind needs the user's attention.               *)
Refuse ==
  /\ run = "killed"
  /\ run' = "refused"
  /\ UNCHANGED <<have, store>>

Break ==
  /\ run = "running"
  /\ run' = "broken"
  /\ have' = {} /\ store' = {}

Next == Start \/ Gather \/ Store \/ End \/ Kill \/ Refuse \/ Break

Spec == Init /\ [][Next]_vars
=============================================================================
