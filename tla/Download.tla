------------------------------ MODULE Download ------------------------------
(***************************************************************************)
(* What a run of the client promises about one torrent, with nothing said  *)
(* about peers, connections or goroutines: verified pieces are gathered    *)
(* one at a time and never twice, the result file is written only when     *)
(* none is missing, and a run that stops has everything it gathered on     *)
(* disk, while one that crashes keeps what was there.  PieceOrders         *)
(* implements this specification.                                          *)
(***************************************************************************)
CONSTANT Pieces    \* indexes of the torrent's pieces

VARIABLES
  have,      \* the pieces gathered so far
  disk,      \* the pieces a later run would find on disk
  saved,     \* TRUE once the result file holds the torrent
  state      \* the run is "running", has "stopped" or has "crashed"

vars == <<have, disk, saved, state>>

(* A run starts from what an earlier one left on disk: the result file, or *)
(* some pieces in partial files.                                           *)
Init ==
  /\ have \in SUBSET Pieces
  /\ disk = have
  /\ saved \in {s \in BOOLEAN : s => have = Pieces}
  /\ state = "running"

(* The result file is written, from a complete set of pieces only.         *)
Write ==
  /\ have' = Pieces
  /\ saved' = TRUE
  /\ disk' = Pieces

(* One missing piece arrives; the last one may bring the file with it.     *)
Gather ==
  /\ state = "running"
  /\ \E p \in Pieces \ have : have' = have \cup {p}
  /\ Write \/ UNCHANGED <<disk, saved>>
  /\ UNCHANGED state

(* The file is written some time after the last piece arrived.             *)
Save ==
  /\ state = "running"
  /\ ~saved
  /\ Write
  /\ UNCHANGED <<have, state>>

(* The run ends, and nothing gathered is lost.                             *)
Stop ==
  /\ state = "running"
  /\ state' = "stopped"
  /\ disk' = have
  /\ UNCHANGED <<have, saved>>

(* The run crashes, and what it gathered is lost unless it was on disk.    *)
Crash ==
  /\ state = "running"
  /\ state' = "crashed"
  /\ UNCHANGED <<have, disk, saved>>

Next == Gather \/ Save \/ Stop \/ Crash

Spec == Init /\ [][Next]_vars
=============================================================================
