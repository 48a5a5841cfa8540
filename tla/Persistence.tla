----------------------------- MODULE Persistence ----------------------------
(***************************************************************************)
(* The files the client keeps and the runs that use them.  A result file   *)
(* holds the pieces one after the other; partial files hold records of an  *)
(* index, a length and the data, PerFile indexes to a file, and are only   *)
(* appended to or removed.  The process may be killed between two writes   *)
(* or in the middle of one.                                                *)
(*                                                                         *)
(* Loading changes no file and is one step.  Where pieces come from is     *)
(* PieceOrders' subject; here they arrive.                                 *)
(***************************************************************************)
EXTENDS Naturals, Sequences, FiniteSets, Functions

CONSTANTS
  N,          \* len(torrent.PieceHashes)
  PerFile,    \* pieces per partial file, 1000 in the code
  NoFile      \* there is no result file

ASSUME NumbersAssumption == N \in Nat \ {0} /\ PerFile \in Nat \ {0}
ASSUME NoFileAssumption == NoFile \notin Nat

Pieces == 0..(N - 1)
Files == 0..(N \div PerFile)

VARIABLES
  result,      \* pieces in the result file: a prefix of all of them
  parts,       \* records in each partial file, one that is empty or missing has none
  phase,       \* what the process is doing, or how it ended
  pieces,      \* indexes i with results.Pieces[i] # nil (and bit i set)
  piecesDone,  \* results.PiecesDone
  loaded,      \* alreadySavedPieces
  loadedDone,  \* alreadySavedNumber
  saved,       \* alreadySavedFinalFile
  at,          \* where the loop over files or pieces stands
  report,      \* pieces that cmd/verify_parts found at its last run
  failed       \* history: a file could not be opened or written

disk == <<result, parts>>
progress == <<pieces, piecesDone>>
start == <<loaded, loadedDone>>
history == <<report, failed>>
vars == <<disk, phase, progress, start, saved, at, history>>

Down == phase \in {"ended", "killed", "refused"}

Init ==
  /\ result = NoFile
  /\ parts = [f \in Files |-> <<>>]
  /\ phase = "ended"
  /\ pieces = {} /\ piecesDone = 0
  /\ loaded = {} /\ loadedDone = 0
  /\ saved = FALSE
  /\ at = 0
  /\ report = {} /\ failed = FALSE

-----------------------------------------------------------------------------
(* The files.                                                              *)

Records == [piece : Pieces, whole : BOOLEAN]
Record(p, whole) == [piece |-> p, whole |-> whole]
FileOf(p) == p \div PerFile

(* The partial files as ReadPartialFile sees them.  A record that was cut  *)
(* short is an error, in its header at once and in its data because the    *)
(* hash is wrong.  Variant: what is missing goes unnoticed.                *)
NeverTorn == FALSE
Torn == \E f \in Files : \E p \in Pieces : Record(p, FALSE) \in Range(parts[f])
InParts == {p \in Pieces : \E f \in Files : \E w \in BOOLEAN : Record(p, w) \in Range(parts[f])}
CountParts == Cardinality(UNION {{f} \X DOMAIN parts[f] : f \in Files})

(* Every hash and the total length agree.  Variant: they are not checked.  *)
AnyResult == result # NoFile
WholeResult == result = N

-----------------------------------------------------------------------------
(* The start of a run: loadFromFile.                                       *)

Load(ps, count, final, next) ==
  /\ pieces' = ps /\ loaded' = ps
  /\ piecesDone' = count /\ loadedDone' = count
  /\ saved' = final
  /\ at' = 0
  /\ phase' = next
  /\ UNCHANGED <<disk, history>>

(* The partial files of a finished download are deleted.                   *)
LoadComplete ==
  /\ Down /\ WholeResult
  /\ Load(Pieces, N, TRUE, "deleting")

LoadPartial ==
  /\ Down /\ result = NoFile /\ ~Torn
  /\ Load(InParts, CountParts, FALSE, "loop")

(* A result file that does not check, or a partial file that cannot be     *)
(* read, is never replaced: the client exits.                              *)
RefuseStart ==
  /\ Down
  /\ \/ result # NoFile /\ ~WholeResult
     \/ result = NoFile /\ Torn
  /\ phase' = "refused"
  /\ UNCHANGED <<disk, progress, start, saved, at, history>>

-----------------------------------------------------------------------------
(* Main's loop.                                                            *)

(* The process is gone, and all it had in memory.                          *)
Stop(how) ==
  /\ phase' = how
  /\ pieces' = {} /\ piecesDone' = 0
  /\ loaded' = {} /\ loadedDone' = 0
  /\ saved' = FALSE
  /\ at' = 0

(* The save follows the last piece in the same iteration, so that partial  *)
(* files never hold all the pieces and no run starts with a save.          *)
AfterIteration ==
  phase' = IF piecesDone' = N /\ ~saved THEN "creating" ELSE "loop"

Gather(p) ==
  /\ phase = "loop" /\ p \notin pieces
  /\ pieces' = pieces \cup {p}
  /\ piecesDone' = piecesDone + 1
  /\ AfterIteration
  /\ UNCHANGED <<disk, start, saved, at, history>>

CreateResult ==
  /\ phase = "creating"
  /\ result' = 0
  /\ phase' = "saving"
  /\ UNCHANGED <<parts, progress, start, saved, at, history>>

(* os.Create's error is logged, and then its nil file is asked for a name. *)
CreateFails ==
  /\ phase = "creating"
  /\ Stop("killed")
  /\ failed' = TRUE
  /\ UNCHANGED <<disk, report>>

(* file.Save, one piece; it dereferences nil if the piece is not there.    *)
WriteResult ==
  /\ phase = "saving" /\ result < N
  /\ IF result \in pieces
     THEN result' = result + 1 /\ UNCHANGED <<phase, progress, start, saved, at>>
     ELSE Stop("killed") /\ UNCHANGED result
  /\ UNCHANGED <<parts, history>>

(* Save returns, early if a write failed: nobody looks at its error.       *)
FinishResult ==
  /\ phase = "saving"
  /\ failed' = (failed \/ result < N)
  /\ saved' = TRUE
  /\ at' = 0
  /\ phase' = "deleting"
  /\ UNCHANGED <<disk, progress, start, report>>

(* deletePartialFiles, one file; an error ends it.                         *)
DeletePart ==
  /\ phase = "deleting" /\ at \in Files
  /\ parts' = [parts EXCEPT ![at] = <<>>]
  /\ at' = at + 1
  /\ UNCHANGED <<result, phase, progress, start, saved, history>>

FinishDeleting ==
  /\ phase = "deleting"
  /\ phase' = "loop"
  /\ at' = 0
  /\ UNCHANGED <<disk, progress, start, saved, history>>

-----------------------------------------------------------------------------
(* The end of a run.                                                       *)

(* Variant: only a run that started with nothing saves what it has.        *)
StartedEmpty == ~saved /\ loadedDone = 0
ShouldSave == ~saved /\ loadedDone < N

Interrupt ==
  /\ phase = "loop"
  /\ IF ShouldSave
     THEN phase' = "appending" /\ at' = 0 /\ UNCHANGED <<progress, start, saved>>
     ELSE Stop("ended")
  /\ UNCHANGED <<disk, history>>

(* Pieces that the start found on disk are in the partial files already.   *)
(* Variant: they are written again.                                        *)
Everything == pieces
Unsaved == pieces \ loaded

AppendRecord(whole) ==
  parts' = [parts EXCEPT ![FileOf(at)] = Append(@, Record(at, whole))]

(* savePartialFiles, one index of results.Pieces.                          *)
AppendPart ==
  /\ phase = "appending" /\ at < N
  /\ IF at \in Unsaved THEN AppendRecord(TRUE) ELSE UNCHANGED parts
  /\ at' = at + 1
  /\ UNCHANGED <<result, phase, progress, start, saved, history>>

FinishAppending ==
  /\ phase = "appending" /\ at = N
  /\ Stop("ended")
  /\ UNCHANGED <<disk, history>>

(* Opening or writing fails: main logs it and returns all the same.        *)
AppendFails ==
  /\ phase = "appending" /\ at < N
  /\ \/ UNCHANGED parts
     \/ at \in Unsaved /\ AppendRecord(FALSE)
  /\ Stop("ended")
  /\ failed' = TRUE
  /\ UNCHANGED <<result, report>>

(* Between two writes, or in the middle of one.                            *)
Kill ==
  /\ ~Down
  /\ \/ UNCHANGED parts
     \/ phase = "appending" /\ at < N /\ at \in Unsaved /\ AppendRecord(FALSE)
  /\ Stop("killed")
  /\ UNCHANGED <<result, history>>

(* cmd/verify_parts reads the partial files, whatever the client does.     *)
VerifyParts ==
  /\ ~Torn
  /\ report' = InParts
  /\ UNCHANGED <<disk, phase, progress, start, saved, at, failed>>

-----------------------------------------------------------------------------
Run ==
  \/ LoadComplete \/ LoadPartial \/ RefuseStart
  \/ CreateResult \/ CreateFails \/ WriteResult \/ FinishResult
  \/ DeletePart \/ FinishDeleting
  \/ AppendPart \/ AppendFails \/ FinishAppending

Next ==
  \/ Run
  \/ \E p \in Pieces : Gather(p)
  \/ Interrupt
  \/ Kill
  \/ VerifyParts

Spec == Init /\ [][Next]_vars

(* A run that is not killed gets on, the user starts the next one, and     *)
(* runs last long enough, again and again, for a piece to arrive.          *)
FairSpec ==
  /\ Spec
  /\ WF_vars(Run)
  /\ SF_vars(\E p \in Pieces : Gather(p))

-----------------------------------------------------------------------------
(* Properties.                                                             *)

TypeOK ==
  /\ result \in 0..N \cup {NoFile}
  /\ parts \in [Files -> Seq(Records)]
  /\ phase \in {"loop", "creating", "saving", "deleting", "appending",
                "ended", "killed", "refused"}
  /\ pieces \subseteq Pieces /\ loaded \subseteq Pieces /\ report \subseteq Pieces
  /\ piecesDone \in 0..N /\ loadedDone \in 0..N
  /\ saved \in BOOLEAN /\ failed \in BOOLEAN
  /\ at \in 0..(N + 1)

(* What a later run, or the user, finds on disk intact.                    *)
OnDisk ==
  {p \in Pieces :
     \/ \E f \in Files : Record(p, TRUE) \in Range(parts[f])
     \/ result # NoFile /\ p < result}

(* A run knows exactly how many pieces it has, after any number of runs    *)
(* that appended to the partial files, and has all that the disk has: no   *)
(* record is counted twice, which would end the download too early.        *)
Recovered ==
  ~Down => piecesDone = Cardinality(pieces) /\ OnDisk \subseteq pieces

(* What cmd/verify_parts reported stays true until a write fails: partial  *)
(* files are removed only when the result file holds everything.           *)
ReportStaysTrue == failed \/ report \subseteq OnDisk

(* However often the client is killed, the files and the runs together     *)
(* keep the promise of Resume.                                             *)
R == INSTANCE Resume WITH
       have <- IF failed THEN {} ELSE pieces,
       store <- IF failed THEN {} ELSE OnDisk,
       run <- IF failed THEN "broken" ELSE IF Down THEN phase ELSE "running"
ImplementsResume == R!Spec

(* Interrupted runs add up: when kills stop, the download is finished in   *)
(* the end, unless the client has refused to start or a write has failed.  *)
Finishes ==
  <>[][~Kill]_vars => <>(result = N \/ phase = "refused" \/ failed)
=============================================================================
