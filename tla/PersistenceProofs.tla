-------------------------- MODULE PersistenceProofs -------------------------
(***************************************************************************)
(* Proofs about Persistence, for any number of pieces and any number of    *)
(* them to a partial file.  The inductive invariant says what is on disk   *)
(* in each phase of a run: no piece has two records, in any two files; a   *)
(* run that has not saved finds no result file; partial files are removed  *)
(* only behind a save.                                                     *)
(***************************************************************************)
EXTENDS Persistence, TLAPS, FiniteSetTheorems, SequenceTheorems

(* No piece has two records, whole or torn.                                *)
OneRecord ==
  \A f, g \in Files : \A i \in DOMAIN parts[f], j \in DOMAIN parts[g] :
    parts[f][i].piece = parts[g][j].piece => f = g /\ i = j

(* A run that has not saved: it has what it loaded, and the partial files  *)
(* have that and what this run has appended so far.                        *)
Appended == IF phase = "appending" THEN {p \in pieces : p < at} ELSE {}
Unfinished ==
  phase \in {"loop", "appending"} /\ ~saved =>
    /\ result = NoFile /\ ~Torn
    /\ InParts = loaded \cup Appended

(* A run that saves, or has saved, has all pieces; partial files are       *)
(* removed when the result file has them too, unless a write has failed.   *)
Finishing ==
  /\ phase \in {"creating", "saving"} => ~saved /\ pieces = Pieces
  /\ phase = "creating" => result = NoFile
  /\ phase = "saving" => result # NoFile
  /\ phase = "deleting" => saved
  /\ phase = "appending" => ~saved
  /\ saved => pieces = Pieces /\ result # NoFile /\ (failed \/ result = N)

Counted ==
  IF Down
  THEN pieces = {} /\ ~saved
  ELSE /\ piecesDone = Cardinality(pieces) /\ loadedDone = Cardinality(loaded)
       /\ loaded \subseteq pieces

(* How a run leaves the disk to the next one.                              *)
LeftBehind ==
  /\ phase = "ended" /\ ~failed => (result = NoFile /\ ~Torn) \/ result = N
  /\ phase = "refused" => result # N /\ (result = NoFile => Torn)

IInv ==
  /\ TypeOK
  /\ OneRecord
  /\ Unfinished /\ Finishing /\ Counted /\ LeftBehind
  /\ ReportStaysTrue

-----------------------------------------------------------------------------
(* The files as functions and sequences.                                   *)

LEMMA FilesFacts ==
  /\ Files \subseteq Nat
  /\ \A f \in Files : f <= N
  /\ \A p \in Pieces : FileOf(p) \in Files
<1>1. N \in Nat \ {0} /\ PerFile \in Nat \ {0}
  BY NumbersAssumption
<1>2. N \div PerFile \in Nat /\ N \div PerFile <= N
  BY <1>1
<1>3. \A p \in Pieces : p \div PerFile \in Nat /\ p \div PerFile <= N \div PerFile
  BY <1>1 DEF Pieces
<1>4. Files \subseteq Nat /\ \A f \in Files : f <= N
  BY <1>1, <1>2 DEF Files
<1>5. \A p \in Pieces : p \div PerFile \in 0..(N \div PerFile)
  BY <1>2, <1>3
<1> QED BY <1>4, <1>5 DEF Files, FileOf

LEMMA Bounds ==
  N \in Nat /\ 0 \in 0..N /\ N \in 0..N /\ 0 \in 0..(N + 1)
BY NumbersAssumption

LEMMA PiecesFinite ==
  /\ IsFiniteSet(Pieces) /\ Cardinality(Pieces) = N /\ Pieces \subseteq Nat
  /\ \A S \in SUBSET Pieces :
       /\ IsFiniteSet(S) /\ Cardinality(S) \in 0..N
       /\ Cardinality(S) = N => S = Pieces
<1>1. N \in Nat \ {0}
  BY NumbersAssumption
<1>2. IsFiniteSet(Pieces) /\ Cardinality(Pieces) = N /\ Pieces \subseteq Nat
  BY <1>1, FS_Interval DEF Pieces
<1>3. ASSUME NEW S \in SUBSET Pieces
      PROVE  /\ IsFiniteSet(S) /\ Cardinality(S) \in 0..N
             /\ Cardinality(S) = N => S = Pieces
  <2>1. IsFiniteSet(S) /\ Cardinality(S) <= N /\ (Cardinality(S) = N => S = Pieces)
    BY <1>2, FS_Subset
  <2> QED BY <1>1, <2>1, FS_CardinalityType
<1> QED BY <1>2, <1>3

(* A run counts as many records as there are pieces with one.              *)
LEMMA CountOfParts ==
  ASSUME TypeOK, OneRecord
  PROVE  CountParts = Cardinality(InParts)
<1> DEFINE Places == UNION {{f} \X DOMAIN parts[f] : f \in Files}
           pieceAt == [x \in Places |-> parts[x[1]][x[2]].piece]
<1>1. \A x \in Places : x[1] \in Files /\ x[2] \in DOMAIN parts[x[1]] /\ x = <<x[1], x[2]>>
  <2> SUFFICES ASSUME NEW x \in Places
               PROVE  x[1] \in Files /\ x[2] \in DOMAIN parts[x[1]] /\ x = <<x[1], x[2]>>
    OBVIOUS
  <2>1. PICK f \in Files : x \in {f} \X DOMAIN parts[f]
    OBVIOUS
  <2> QED BY <2>1
<1>2. \A f \in Files : \A i \in DOMAIN parts[f] : parts[f][i] \in Records
  <2>1. parts \in [Files -> Seq(Records)]
    BY DEF TypeOK
  <2> QED BY <2>1
<1>3. \A x \in Places : parts[x[1]][x[2]].piece \in InParts
  <2> SUFFICES ASSUME NEW x \in Places PROVE parts[x[1]][x[2]].piece \in InParts
    OBVIOUS
  <2> DEFINE r == parts[x[1]][x[2]]
  <2>1. r \in Records /\ r = Record(r.piece, r.whole) /\ r \in Range(parts[x[1]])
    BY <1>1, <1>2 DEF Records, Record, Range
  <2> QED BY <1>1, <2>1 DEF InParts, Records
<1>4. \A p \in InParts : \E x \in Places : parts[x[1]][x[2]].piece = p
  <2> SUFFICES ASSUME NEW p \in InParts
               PROVE  \E x \in Places : parts[x[1]][x[2]].piece = p
    OBVIOUS
  <2>1. PICK f \in Files, w \in BOOLEAN : Record(p, w) \in Range(parts[f])
    BY DEF InParts
  <2>2. PICK i \in DOMAIN parts[f] : parts[f][i] = Record(p, w)
    BY <2>1 DEF Range
  <2>3. <<f, i>> \in Places
    BY <2>2
  <2> QED BY <2>2, <2>3 DEF Record
<1>5. \A x, y \in Places : parts[x[1]][x[2]].piece = parts[y[1]][y[2]].piece => x = y
  BY <1>1 DEF OneRecord
<1> HIDE DEF Places
<1>6. pieceAt \in Bijection(Places, InParts)
  BY <1>3, <1>4, <1>5 DEF Bijection, Injection, Surjection, IsInjective
<1>7. IsFiniteSet(InParts)
  BY PiecesFinite DEF InParts
<1>8. IsFiniteSet(Places) /\ Cardinality(Places) = Cardinality(InParts)
  BY <1>6, <1>7, FS_Injection DEF Bijection
<1> QED BY <1>8 DEF CountParts, Places

(* Appending a record of a piece that has none.                            *)
LEMMA AppendFacts ==
  ASSUME TypeOK, OneRecord, at \in Pieces, at \notin InParts,
         NEW w \in BOOLEAN, AppendRecord(w)
  PROVE  /\ parts' \in [Files -> Seq(Records)]
         /\ OneRecord'
         /\ InParts' = InParts \cup {at}
         /\ UNCHANGED result => OnDisk' = OnDisk \cup (IF w THEN {at} ELSE {})
         /\ w => (Torn' <=> Torn)
<1> DEFINE f0 == FileOf(at)
           r == Record(at, w)
           n == Len(parts[f0]) + 1
<1>1. f0 \in Files
  BY FilesFacts
<1>2. parts \in [Files -> Seq(Records)] /\ r \in Records
  BY DEF TypeOK, Records, Record
<1>3. /\ parts' \in [Files -> Seq(Records)]
      /\ parts'[f0] = Append(parts[f0], r)
      /\ \A f \in Files \ {f0} : parts'[f] = parts[f]
  BY <1>1, <1>2 DEF AppendRecord
<1>4. /\ n \in Nat /\ DOMAIN parts[f0] = 1..(n - 1) /\ DOMAIN parts'[f0] = 1..n
      /\ parts'[f0][n] = r /\ \A i \in 1..(n - 1) : parts'[f0][i] = parts[f0][i]
  BY <1>1, <1>2, <1>3
<1>5. ASSUME NEW f \in Files, NEW i \in DOMAIN parts'[f]
      PROVE  \/ f = f0 /\ i = n /\ parts'[f][i] = r
             \/ i \in DOMAIN parts[f] /\ parts'[f][i] = parts[f][i]
  BY <1>3, <1>4
<1>6. ASSUME NEW f \in Files
      PROVE  Range(parts'[f]) = Range(parts[f]) \cup (IF f = f0 THEN {r} ELSE {})
  <2>1. CASE f = f0
    BY <1>4, <2>1 DEF Range
  <2>2. CASE f # f0
    BY <1>3, <2>2
  <2> QED BY <2>1, <2>2
<1>7. InParts' = InParts \cup {at}
  <2>1. \A p \in Pieces, v \in BOOLEAN : Record(p, v) = r => p = at
    BY DEF Record
  <2>2. \A p \in InParts' : p \in InParts \cup {at}
    BY <1>6, <2>1 DEF InParts
  <2>3. \A p \in InParts : p \in InParts'
    BY <1>6 DEF InParts
  <2>4. at \in InParts'
    BY <1>1, <1>6 DEF InParts
  <2> QED BY <2>2, <2>3, <2>4
<1>8. \A f \in Files : \A i \in DOMAIN parts[f] : parts[f][i].piece # at
  <2> SUFFICES ASSUME NEW f \in Files, NEW i \in DOMAIN parts[f], parts[f][i].piece = at
               PROVE  FALSE
    OBVIOUS
  <2>1. parts[f][i] \in Records
    BY <1>2
  <2>2. parts[f][i] = Record(at, parts[f][i].whole) /\ parts[f][i].whole \in BOOLEAN
    BY <2>1 DEF Records, Record
  <2>3. parts[f][i] \in Range(parts[f])
    BY DEF Range
  <2> QED BY <2>2, <2>3 DEF InParts
<1>9. OneRecord'
  <2> SUFFICES ASSUME NEW f \in Files, NEW g \in Files,
                      NEW i \in DOMAIN parts'[f], NEW j \in DOMAIN parts'[g],
                      parts'[f][i].piece = parts'[g][j].piece
               PROVE  f = g /\ i = j
    BY DEF OneRecord
  <2>1. r.piece = at
    BY DEF Record
  <2> QED BY <1>5, <1>8, <2>1 DEF OneRecord
<1>10. ASSUME w PROVE Torn' <=> Torn
  <2>1. w = TRUE
    BY <1>10
  <2>2. \A p \in Pieces : Record(p, FALSE) # r
    BY <2>1 DEF Record
  <2> QED BY <1>6, <2>2 DEF Torn
<1>11. ASSUME UNCHANGED result PROVE OnDisk' = OnDisk \cup (IF w THEN {at} ELSE {})
  <2>1. \A p \in Pieces : Record(p, TRUE) = r <=> w /\ p = at
    BY DEF Record
  <2>2. ASSUME NEW p \in Pieces
        PROVE  p \in OnDisk' <=> p \in OnDisk \/ (w /\ p = at)
    BY <1>1, <1>6, <1>11, <2>1 DEF OnDisk
  <2> QED BY <2>2 DEF OnDisk
<1> QED BY <1>3, <1>6, <1>7, <1>9, <1>10, <1>11

-----------------------------------------------------------------------------
(* The invariant, action by action.                                        *)

LEMMA InitIInv == Init => IInv
<1> SUFFICES ASSUME Init PROVE IInv
  OBVIOUS
<1>1. \A f \in Files : parts[f] = <<>>
  BY DEF Init
<1>2. ~Torn /\ OneRecord
  <2>1. \A f \in Files : DOMAIN parts[f] = {} /\ Range(parts[f]) = {}
    BY <1>1 DEF Range
  <2> QED BY <2>1 DEF Torn, OneRecord
<1>3. TypeOK
  <2>1. parts \in [Files -> Seq(Records)]
    BY DEF Init
  <2> QED BY <2>1, Bounds DEF Init, TypeOK
<1>4. Unfinished /\ Finishing /\ Counted /\ LeftBehind /\ ReportStaysTrue
  BY <1>2 DEF Init, Unfinished, Finishing, Counted, LeftBehind, ReportStaysTrue, Down
<1> QED BY <1>2, <1>3, <1>4 DEF IInv

LEMMA DiskKept ==
  ASSUME UNCHANGED disk
  PROVE  /\ Torn' <=> Torn
         /\ InParts' = InParts
         /\ OnDisk' = OnDisk
         /\ OneRecord' <=> OneRecord
BY DEF disk, Torn, InParts, OnDisk, OneRecord

(* A run comes to its end.                                                 *)
LEMMA StopIInv ==
  ASSUME IInv, NEW how \in {"ended", "killed"}, Stop(how),
         parts' \in [Files -> Seq(Records)], OneRecord',
         UNCHANGED <<result, report>>, failed' \in BOOLEAN,
         how = "ended" /\ ~failed' => (result = NoFile /\ ~Torn') \/ result = N,
         failed' \/ report \subseteq OnDisk'
  PROVE  IInv'
<1>1. TypeOK'
  <2>1. result' \in 0..N \cup {NoFile} /\ report' \subseteq Pieces
    BY DEF IInv, TypeOK
  <2> QED BY <2>1, Bounds DEF TypeOK, Stop
<1>2. Unfinished' /\ Finishing' /\ Counted' /\ LeftBehind'
  BY DEF Stop, Unfinished, Finishing, Counted, LeftBehind, Down
<1> QED BY <1>1, <1>2 DEF IInv, ReportStaysTrue

LEMMA LoadCompleteIInv == IInv /\ LoadComplete => IInv'
<1> SUFFICES ASSUME IInv, LoadComplete PROVE IInv'
  OBVIOUS
<1>1. /\ pieces' = Pieces /\ loaded' = Pieces /\ piecesDone' = N /\ loadedDone' = N
      /\ saved' = TRUE /\ at' = 0 /\ phase' = "deleting" /\ result = N
      /\ UNCHANGED disk /\ UNCHANGED history
  BY DEF LoadComplete, Load, WholeResult
<1>2. TypeOK'
  <2>1. /\ result' \in 0..N \cup {NoFile} /\ parts' \in [Files -> Seq(Records)]
        /\ report' \subseteq Pieces /\ failed' \in BOOLEAN
    BY <1>1 DEF IInv, TypeOK, disk, history
  <2> QED BY <1>1, <2>1, Bounds DEF TypeOK
<1>3. Unfinished' /\ Finishing' /\ Counted' /\ LeftBehind'
  BY <1>1, PiecesFinite, NumbersAssumption, NoFileAssumption
     DEF Unfinished, Finishing, Counted, LeftBehind, Down, disk
<1>4. OneRecord' /\ ReportStaysTrue'
  BY <1>1, DiskKept DEF IInv, ReportStaysTrue, history
<1> QED BY <1>2, <1>3, <1>4 DEF IInv

LEMMA LoadPartialIInv == IInv /\ LoadPartial => IInv'
<1> SUFFICES ASSUME IInv, LoadPartial PROVE IInv'
  OBVIOUS
<1>1. /\ pieces' = InParts /\ loaded' = InParts
      /\ piecesDone' = CountParts /\ loadedDone' = CountParts
      /\ saved' = FALSE /\ at' = 0 /\ phase' = "loop" /\ result = NoFile /\ ~Torn
      /\ UNCHANGED disk /\ UNCHANGED history
  BY DEF LoadPartial, Load
<1>2. CountParts = Cardinality(InParts)
  BY CountOfParts DEF IInv
<1>3. InParts \subseteq Pieces /\ Cardinality(InParts) \in 0..N
  BY PiecesFinite DEF InParts
<1>4. TypeOK'
  <2>1. /\ result' \in 0..N \cup {NoFile} /\ parts' \in [Files -> Seq(Records)]
        /\ report' \subseteq Pieces /\ failed' \in BOOLEAN
    BY <1>1 DEF IInv, TypeOK, disk, history
  <2> QED BY <1>1, <1>2, <1>3, <2>1, Bounds DEF TypeOK
<1>5. Unfinished' /\ Finishing' /\ Counted' /\ LeftBehind'
  BY <1>1, <1>2, DiskKept
     DEF Unfinished, Appended, Finishing, Counted, LeftBehind, Down, disk
<1>6. OneRecord' /\ ReportStaysTrue'
  BY <1>1, DiskKept DEF IInv, ReportStaysTrue, history
<1> QED BY <1>4, <1>5, <1>6 DEF IInv

LEMMA RefuseStartIInv == IInv /\ RefuseStart => IInv'
<1> SUFFICES ASSUME IInv, RefuseStart PROVE IInv'
  OBVIOUS
<1>1. /\ Down /\ phase' = "refused"
      /\ UNCHANGED <<disk, progress, start, saved, at, history>>
      /\ result # N /\ (result = NoFile => Torn)
  BY NumbersAssumption, NoFileAssumption DEF RefuseStart, WholeResult
<1>2. TypeOK'
  BY <1>1 DEF IInv, TypeOK, disk, progress, start, history
<1>3. Unfinished' /\ Finishing' /\ Counted' /\ LeftBehind'
  BY <1>1, DiskKept DEF IInv, Unfinished, Finishing, Counted, LeftBehind, Down, disk, progress
<1>4. OneRecord' /\ ReportStaysTrue'
  BY <1>1, DiskKept DEF IInv, ReportStaysTrue, history
<1> QED BY <1>2, <1>3, <1>4 DEF IInv

LEMMA GatherIInv == IInv /\ (\E p \in Pieces : Gather(p)) => IInv'
<1> SUFFICES ASSUME IInv, NEW p \in Pieces, Gather(p) PROVE IInv'
  OBVIOUS
<1>1. /\ phase = "loop" /\ p \notin pieces /\ pieces' = pieces \cup {p}
      /\ piecesDone' = piecesDone + 1
      /\ UNCHANGED <<disk, start, saved, at, history>>
      /\ phase' = IF piecesDone' = N /\ ~saved THEN "creating" ELSE "loop"
  BY DEF Gather, AfterIteration
<1>2. pieces' \subseteq Pieces /\ piecesDone = Cardinality(pieces) /\ pieces \subseteq Pieces
  BY <1>1 DEF IInv, TypeOK, Counted, Down
<1>3. piecesDone' = Cardinality(pieces') /\ piecesDone' \in 0..N /\ (piecesDone' = N => pieces' = Pieces)
  BY <1>1, <1>2, PiecesFinite, FS_AddElement
<1>4. ~saved
  BY <1>1 DEF IInv, Finishing
<1>5. TypeOK'
  BY <1>1, <1>2, <1>3 DEF IInv, TypeOK, disk, start, history
<1>6. Unfinished'
  BY <1>1, <1>4, DiskKept DEF IInv, Unfinished, Appended, disk, start
<1>7. Finishing' /\ Counted' /\ LeftBehind'
  BY <1>1, <1>3, <1>4 DEF IInv, Unfinished, Finishing, Counted, LeftBehind, Down, disk, start
<1>8. OneRecord' /\ ReportStaysTrue'
  BY <1>1, DiskKept DEF IInv, ReportStaysTrue, history
<1> QED BY <1>5, <1>6, <1>7, <1>8 DEF IInv

(* Saving: there was no result file, and there are all pieces to write.    *)
LEMMA SavingIInv ==
  ASSUME IInv, CreateResult \/ CreateFails \/ WriteResult \/ FinishResult
  PROVE  IInv'
<1>1. CASE CreateResult
  <2>1. /\ phase = "creating" /\ phase' = "saving" /\ result' = 0 /\ result = NoFile
        /\ UNCHANGED <<parts, progress, start, saved, at, history>>
    BY <1>1 DEF CreateResult, IInv, Finishing
  <2>2. TypeOK'
    BY <2>1, Bounds DEF IInv, TypeOK, progress, start, history
  <2>3. Unfinished' /\ Finishing' /\ Counted' /\ LeftBehind'
    BY <2>1, Bounds, NoFileAssumption
       DEF IInv, Unfinished, Finishing, Counted, LeftBehind, Down, progress, start
  <2>4. OneRecord' /\ OnDisk \subseteq OnDisk'
    <3>1. OneRecord'
      BY <2>1 DEF IInv, OneRecord
    <3>2. OnDisk \subseteq OnDisk'
      BY <2>1 DEF OnDisk
    <3> QED BY <3>1, <3>2
  <2> QED BY <2>1, <2>2, <2>3, <2>4 DEF IInv, ReportStaysTrue, history
<1>2. CASE CreateFails
  <2>1. Stop("killed") /\ failed' = TRUE /\ UNCHANGED disk /\ UNCHANGED report
    BY <1>2 DEF CreateFails
  <2>2. OneRecord' /\ parts' \in [Files -> Seq(Records)] /\ UNCHANGED result
    BY <2>1, DiskKept DEF IInv, TypeOK, disk
  <2> QED BY <2>1, <2>2, StopIInv
<1>3. CASE WriteResult
  <2>1. /\ phase = "saving" /\ result < N /\ pieces = Pieces /\ result \in 0..N
        /\ UNCHANGED <<parts, history>> /\ ~saved
    BY <1>3, NoFileAssumption DEF WriteResult, IInv, Finishing, TypeOK
  <2>2. result' = result + 1 /\ UNCHANGED <<phase, progress, start, saved, at>>
    BY <1>3, <2>1, Bounds DEF WriteResult, Pieces
  <2>3. result' \in 0..N
    BY <2>1, <2>2, Bounds
  <2>4. TypeOK'
    BY <2>1, <2>2, <2>3 DEF IInv, TypeOK, progress, start, history
  <2>5. Unfinished' /\ Finishing' /\ Counted' /\ LeftBehind'
    BY <2>1, <2>2, <2>3, NoFileAssumption
       DEF IInv, Unfinished, Finishing, Counted, LeftBehind, Down, progress, start
  <2>6. OneRecord' /\ OnDisk \subseteq OnDisk'
    <3>1. OnDisk \subseteq OnDisk'
      <4> SUFFICES ASSUME NEW p \in OnDisk PROVE p \in OnDisk'
        OBVIOUS
      <4>1. p \in Pieces /\ p \in Nat
        BY PiecesFinite DEF OnDisk
      <4>2. result' # NoFile /\ (p < result => p < result')
        BY <2>1, <2>2, <2>3, <4>1, NoFileAssumption
      <4> QED BY <2>1, <4>1, <4>2 DEF OnDisk
    <3> QED BY <2>1, <3>1 DEF IInv, OneRecord
  <2> QED BY <2>1, <2>4, <2>5, <2>6 DEF IInv, ReportStaysTrue, history
<1>4. CASE FinishResult
  <2>1. /\ phase = "saving" /\ phase' = "deleting" /\ saved' = TRUE /\ at' = 0
        /\ failed' = (failed \/ result < N) /\ pieces = Pieces
        /\ result # NoFile /\ result \in 0..N /\ failed \in BOOLEAN
        /\ UNCHANGED <<disk, progress, start, report>>
    BY <1>4 DEF FinishResult, IInv, Finishing, TypeOK
  <2>2. failed' \/ result = N
    <3>1. result < N \/ result = N
      BY <2>1, Bounds
    <3> QED BY <2>1, <3>1
  <2>3. failed' \in BOOLEAN /\ (failed => failed')
    BY <2>1 DEF IInv, TypeOK
  <2>4. TypeOK'
    BY <2>1, <2>3, Bounds DEF IInv, TypeOK, disk, progress, start
  <2>5. Unfinished' /\ Finishing' /\ Counted' /\ LeftBehind'
    BY <2>1, <2>2
       DEF IInv, Unfinished, Finishing, Counted, LeftBehind, Down, disk, progress, start
  <2> QED BY <2>1, <2>3, <2>4, <2>5, DiskKept DEF IInv, ReportStaysTrue
<1> QED BY <1>1, <1>2, <1>3, <1>4

(* Removing partial files: the result file has everything.                 *)
LEMMA DeletingIInv ==
  ASSUME IInv, DeletePart \/ FinishDeleting
  PROVE  IInv'
<1>1. CASE DeletePart
  <2>1. /\ phase = "deleting" /\ at \in Files /\ parts' = [parts EXCEPT ![at] = <<>>]
        /\ at' = at + 1 /\ saved
        /\ UNCHANGED <<result, phase, progress, start, saved, history>>
    BY <1>1 DEF DeletePart, IInv, Finishing
  <2>2. parts' \in [Files -> Seq(Records)] /\ at' \in 0..(N + 1)
    <3>1. at \in Nat /\ at <= N
      BY <2>1, FilesFacts
    <3> QED BY <2>1, <3>1, Bounds DEF IInv, TypeOK
  <2>3. TypeOK'
    BY <2>1, <2>2 DEF IInv, TypeOK, progress, start, history
  <2>4. Unfinished' /\ Finishing' /\ Counted' /\ LeftBehind'
    BY <2>1 DEF IInv, Unfinished, Finishing, Counted, LeftBehind, Down, progress, start, history
  <2>5. OneRecord'
    <3>1. \A f \in Files : parts'[f] = parts[f] \/ parts'[f] = <<>>
      BY <2>1 DEF IInv, TypeOK
    <3>2. \A f \in Files : \A i \in DOMAIN parts'[f] :
            i \in DOMAIN parts[f] /\ parts'[f][i] = parts[f][i]
      BY <3>1
    <3> QED BY <3>2 DEF IInv, OneRecord
  <2>6. ReportStaysTrue'
    <3>1. CASE failed
      BY <2>1, <3>1 DEF ReportStaysTrue, history
    <3>2. CASE ~failed
      <4>1. result' = N /\ N # NoFile
        BY <2>1, <3>2, Bounds, NoFileAssumption DEF IInv, Finishing
      <4>2. OnDisk' = Pieces
        <5>1. \A p \in Pieces : p < N
          BY Bounds DEF Pieces
        <5> QED BY <4>1, <5>1 DEF OnDisk
      <4> QED BY <2>1, <4>2 DEF IInv, TypeOK, ReportStaysTrue, history
    <3> QED BY <3>1, <3>2
  <2> QED BY <2>3, <2>4, <2>5, <2>6 DEF IInv
<1>2. CASE FinishDeleting
  <2>1. /\ phase = "deleting" /\ phase' = "loop" /\ at' = 0 /\ saved
        /\ UNCHANGED <<disk, progress, start, saved, history>>
    BY <1>2 DEF FinishDeleting, IInv, Finishing
  <2>2. TypeOK'
    BY <2>1, Bounds DEF IInv, TypeOK, disk, progress, start, history
  <2>3. Unfinished' /\ Finishing' /\ Counted' /\ LeftBehind'
    BY <2>1
       DEF IInv, Unfinished, Finishing, Counted, LeftBehind, Down, disk, progress, start, history
  <2> QED BY <2>1, <2>2, <2>3, DiskKept DEF IInv, ReportStaysTrue, history
<1> QED BY <1>1, <1>2

LEMMA InterruptIInv == IInv /\ Interrupt => IInv'
<1> SUFFICES ASSUME IInv, Interrupt PROVE IInv'
  OBVIOUS
<1>1. phase = "loop" /\ UNCHANGED disk /\ UNCHANGED history
  BY DEF Interrupt
<1>2. OneRecord' /\ ReportStaysTrue'
  BY <1>1, DiskKept DEF IInv, ReportStaysTrue, history
<1>3. CASE ShouldSave
  <2>1. phase' = "appending" /\ at' = 0 /\ ~saved /\ UNCHANGED <<progress, start, saved>>
    BY <1>3 DEF Interrupt, ShouldSave
  <2>2. TypeOK'
    BY <1>1, <2>1, Bounds DEF IInv, TypeOK, disk, progress, start, history
  <2>3. Appended = {} /\ Appended' = {}
    <3>1. \A p \in Pieces : ~(p < 0)
      BY PiecesFinite
    <3> QED BY <1>1, <2>1, <3>1 DEF Appended, IInv, TypeOK, progress
  <2>4. Unfinished'
    BY <1>1, <2>1, <2>3, DiskKept DEF IInv, Unfinished, disk, start
  <2>5. Finishing' /\ Counted' /\ LeftBehind'
    BY <1>1, <2>1 DEF IInv, Finishing, Counted, LeftBehind, Down, disk, progress, start
  <2> QED BY <1>2, <2>2, <2>4, <2>5 DEF IInv
<1>4. CASE ~ShouldSave
  <2>1. Stop("ended")
    BY <1>4 DEF Interrupt
  <2>2. ~failed => (result = NoFile /\ ~Torn) \/ result = N
    BY <1>1 DEF IInv, Unfinished, Finishing
  <2>3. /\ parts' \in [Files -> Seq(Records)] /\ failed' \in BOOLEAN /\ (failed' <=> failed)
        /\ UNCHANGED <<result, report>>
    BY <1>1 DEF IInv, TypeOK, disk, history
  <2>4. failed' \/ report \subseteq OnDisk'
    BY <1>1, <1>2 DEF ReportStaysTrue, history
  <2> QED BY <1>1, <1>2, <2>1, <2>2, <2>3, <2>4, DiskKept, StopIInv
<1> QED BY <1>3, <1>4

(* While a run appends, a piece it has not loaded has no record up to now. *)
LEMMA FreshRecord ==
  ASSUME IInv, phase = "appending", at < N, at \in Unsaved,
         NEW w \in BOOLEAN, AppendRecord(w)
  PROVE  /\ at \in Pieces /\ at \in pieces /\ ~saved
         /\ parts' \in [Files -> Seq(Records)]
         /\ OneRecord'
         /\ InParts' = InParts \cup {at}
         /\ UNCHANGED result => OnDisk' = OnDisk \cup (IF w THEN {at} ELSE {})
         /\ w => (Torn' <=> Torn)
<1>1. at \in Pieces /\ at \in pieces /\ at \notin loaded /\ at \in Nat
  BY PiecesFinite DEF IInv, TypeOK, Unsaved
<1>2. ~saved /\ InParts = loaded \cup {p \in pieces : p < at}
  BY DEF IInv, Finishing, Unfinished, Appended
<1>3. at \notin InParts
  BY <1>1, <1>2
<1> QED BY <1>1, <1>2, <1>3, AppendFacts DEF IInv

LEMMA AppendPartIInv == IInv /\ AppendPart => IInv'
<1> SUFFICES ASSUME IInv, AppendPart PROVE IInv'
  OBVIOUS
<1>1. /\ phase = "appending" /\ at < N /\ at' = at + 1
      /\ UNCHANGED <<result, phase, progress, start, saved, history>>
      /\ IF at \in Unsaved THEN AppendRecord(TRUE) ELSE UNCHANGED parts
  BY DEF AppendPart
<1>2. at \in Pieces /\ at \in Nat /\ at' \in 0..(N + 1) /\ pieces \subseteq Nat
  <2>1. at \in Nat
    BY <1>1, Bounds DEF IInv, TypeOK
  <2> QED BY <1>1, <2>1, Bounds, PiecesFinite DEF IInv, TypeOK, Pieces
<1>3. /\ parts' \in [Files -> Seq(Records)] /\ OneRecord' /\ (Torn' <=> Torn)
      /\ InParts' = InParts \cup (IF at \in Unsaved THEN {at} ELSE {})
      /\ OnDisk' = OnDisk \cup (IF at \in Unsaved THEN {at} ELSE {})
  <2>1. CASE at \in Unsaved
    BY <1>1, <2>1, FreshRecord
  <2>2. CASE at \notin Unsaved
    BY <1>1, <2>2, DiskKept DEF IInv, TypeOK, disk
  <2> QED BY <2>1, <2>2
<1>4. Unfinished'
  <2>1. ~saved /\ result = NoFile /\ ~Torn /\ InParts = loaded \cup {p \in pieces : p < at}
    BY <1>1 DEF IInv, Finishing, Unfinished, Appended
  <2>2. \A p \in pieces : p < at' <=> p < at \/ p = at
    BY <1>1, <1>2
  <2>3. loaded \cup {p \in pieces : p < at'} = InParts'
    <3>1. at \in Unsaved <=> at \in pieces /\ at \notin loaded
      BY DEF Unsaved
    <3> QED BY <1>3, <2>1, <2>2, <3>1
  <2>4. Appended' = {p \in pieces : p < at'}
    BY <1>1 DEF Appended, progress
  <2> QED BY <1>1, <1>3, <2>1, <2>3, <2>4 DEF Unfinished, start
<1>5. TypeOK'
  BY <1>1, <1>2, <1>3 DEF IInv, TypeOK, progress, start, history
<1>6. Finishing' /\ Counted' /\ LeftBehind'
  BY <1>1 DEF IInv, Finishing, Counted, LeftBehind, Down, progress, start, history
<1> QED BY <1>1, <1>3, <1>4, <1>5, <1>6 DEF IInv, ReportStaysTrue, history

(* The ways out of a run other than an interrupt that saves nothing.       *)
LEMMA FinishAppendingIInv == IInv /\ FinishAppending => IInv'
<1> SUFFICES ASSUME IInv, FinishAppending PROVE IInv'
  OBVIOUS
<1>1. /\ phase = "appending" /\ Stop("ended") /\ UNCHANGED disk /\ UNCHANGED history
  BY DEF FinishAppending
<1>2. result = NoFile /\ ~Torn
  BY <1>1 DEF IInv, Finishing, Unfinished
<1>3. /\ parts' \in [Files -> Seq(Records)] /\ failed' \in BOOLEAN
      /\ UNCHANGED <<result, report>>
  BY <1>1 DEF IInv, TypeOK, disk, history
<1>4. OneRecord' /\ ~Torn' /\ (failed' \/ report \subseteq OnDisk')
  BY <1>1, <1>2, DiskKept DEF IInv, ReportStaysTrue, history
<1> QED BY <1>1, <1>2, <1>3, <1>4, StopIInv

(* The record being written may be torn.                                   *)
LEMMA BreakOff ==
  ASSUME IInv,
         \/ UNCHANGED parts
         \/ phase = "appending" /\ at < N /\ at \in Unsaved /\ AppendRecord(FALSE),
         UNCHANGED result
  PROVE  /\ parts' \in [Files -> Seq(Records)] /\ OneRecord'
         /\ UNCHANGED OnDisk
<1>1. CASE UNCHANGED parts
  BY <1>1, DiskKept DEF IInv, TypeOK, disk
<1>2. CASE phase = "appending" /\ at < N /\ at \in Unsaved /\ AppendRecord(FALSE)
  BY <1>2, FreshRecord
<1> QED BY <1>1, <1>2

LEMMA AppendFailsIInv == IInv /\ AppendFails => IInv'
<1> SUFFICES ASSUME IInv, AppendFails PROVE IInv'
  OBVIOUS
<1>1. /\ Stop("ended") /\ failed' = TRUE /\ UNCHANGED <<result, report>>
      /\ \/ UNCHANGED parts
         \/ phase = "appending" /\ at < N /\ at \in Unsaved /\ AppendRecord(FALSE)
  BY DEF AppendFails
<1>2. parts' \in [Files -> Seq(Records)] /\ OneRecord'
  BY <1>1, BreakOff
<1> QED BY <1>1, <1>2, StopIInv

LEMMA KillIInv == IInv /\ Kill => IInv'
<1> SUFFICES ASSUME IInv, Kill PROVE IInv'
  OBVIOUS
<1>1. /\ Stop("killed") /\ UNCHANGED result /\ UNCHANGED history
      /\ \/ UNCHANGED parts
         \/ phase = "appending" /\ at < N /\ at \in Unsaved /\ AppendRecord(FALSE)
  BY DEF Kill
<1>2. /\ parts' \in [Files -> Seq(Records)] /\ OneRecord'
      /\ UNCHANGED OnDisk
  BY <1>1, BreakOff
<1>3. failed' \in BOOLEAN /\ UNCHANGED report /\ (failed' \/ report \subseteq OnDisk')
  BY <1>1, <1>2 DEF IInv, TypeOK, ReportStaysTrue, history
<1> QED BY <1>1, <1>2, <1>3, StopIInv

(* What verify_parts finds is on disk: it refuses torn records.            *)
LEMMA VerifyPartsIInv == IInv /\ VerifyParts => IInv'
<1> SUFFICES ASSUME IInv, VerifyParts PROVE IInv'
  OBVIOUS
<1>1. /\ ~Torn /\ report' = InParts
      /\ UNCHANGED <<disk, phase, progress, start, saved, at, failed>>
  BY DEF VerifyParts
<1>2. InParts \subseteq OnDisk /\ InParts \subseteq Pieces
  <2> SUFFICES ASSUME NEW p \in InParts PROVE p \in OnDisk /\ p \in Pieces
    OBVIOUS
  <2>1. PICK f \in Files, v \in BOOLEAN : Record(p, v) \in Range(parts[f])
    BY DEF InParts
  <2>2. v = TRUE /\ p \in Pieces
    BY <1>1, <2>1 DEF Torn, InParts
  <2> QED BY <2>1, <2>2 DEF OnDisk
<1>3. TypeOK'
  BY <1>1, <1>2 DEF IInv, TypeOK, disk, progress, start
<1>4. Unfinished'
  BY <1>1, DiskKept DEF IInv, Unfinished, Appended, disk, progress, start
<1>5. Finishing' /\ Counted' /\ LeftBehind'
  BY <1>1, DiskKept DEF IInv, Finishing, Counted, LeftBehind, Down, disk, progress, start
<1> QED BY <1>1, <1>2, <1>3, <1>4, <1>5, DiskKept DEF IInv, ReportStaysTrue

LEMMA StutterIInv == IInv /\ UNCHANGED vars => IInv'
<1> SUFFICES ASSUME IInv, UNCHANGED vars PROVE IInv'
  OBVIOUS
<1>1. UNCHANGED <<disk, phase, progress, start, saved, at, history>>
  BY DEF vars
<1>2. TypeOK'
  BY <1>1 DEF IInv, TypeOK, disk, progress, start, history
<1>3. Unfinished'
  BY <1>1, DiskKept DEF IInv, Unfinished, Appended, disk, progress, start
<1>4. Finishing' /\ Counted' /\ LeftBehind'
  BY <1>1, DiskKept DEF IInv, Finishing, Counted, LeftBehind, Down, disk, progress, start, history
<1> QED BY <1>1, <1>2, <1>3, <1>4, DiskKept DEF IInv, ReportStaysTrue, history

LEMMA StepIInv == IInv /\ [Next]_vars => IInv'
<1> SUFFICES ASSUME IInv, [Next]_vars PROVE IInv'
  OBVIOUS
<1>1. CASE Run
  BY <1>1, LoadCompleteIInv, LoadPartialIInv, RefuseStartIInv, SavingIInv, DeletingIInv,
     AppendPartIInv, AppendFailsIInv, FinishAppendingIInv DEF Run
<1>2. CASE \E p \in Pieces : Gather(p)
  BY <1>2, GatherIInv
<1>3. CASE Interrupt \/ Kill \/ VerifyParts
  BY <1>3, InterruptIInv, KillIInv, VerifyPartsIInv
<1>4. CASE UNCHANGED vars
  BY <1>4, StutterIInv
<1> QED BY <1>1, <1>2, <1>3, <1>4 DEF Next

LEMMA Invariance == Spec => []IInv
BY InitIInv, StepIInv, PTL DEF Spec

(* Every variable keeps its type.                                          *)
THEOREM TypeCorrect == Spec => []TypeOK
<1>1. IInv => TypeOK
  BY DEF IInv
<1> QED BY <1>1, Invariance, PTL

(* What verify_parts has once found stays on disk, whatever runs, kills    *)
(* and interrupts follow, as long as writes succeed.                       *)
THEOREM NothingFoundIsLost == Spec => []ReportStaysTrue
<1>1. IInv => ReportStaysTrue
  BY DEF IInv
<1> QED BY <1>1, Invariance, PTL

(* A run counts each of its pieces once and has all that the disk has,     *)
(* whatever earlier runs left behind and wherever they were cut off.       *)
THEOREM RunsRecover == Spec => []Recovered
<1>1. IInv => Recovered
  <2> SUFFICES ASSUME IInv, ~Down
               PROVE  piecesDone = Cardinality(pieces) /\ OnDisk \subseteq pieces
    BY DEF Recovered
  <2>1. piecesDone = Cardinality(pieces) /\ loaded \subseteq pieces
    BY DEF IInv, Counted
  <2>2. CASE phase \in {"loop", "appending"} /\ ~saved
    <3>1. result = NoFile /\ InParts = loaded \cup Appended /\ Appended \subseteq pieces
      BY <2>2 DEF IInv, Unfinished, Appended
    <3>2. OnDisk \subseteq InParts
      BY <3>1 DEF OnDisk, InParts
    <3> QED BY <2>1, <3>1, <3>2
  <2>3. CASE ~(phase \in {"loop", "appending"} /\ ~saved)
    <3>1. pieces = Pieces
      BY <2>3 DEF IInv, TypeOK, Finishing, Down
    <3> QED BY <2>1, <3>1 DEF OnDisk
  <2> QED BY <2>2, <2>3
<1> QED BY <1>1, Invariance, PTL

-----------------------------------------------------------------------------
(* The refinement.                                                         *)

(* With every write done, the disk has what the partial files have, or     *)
(* everything.                                                             *)
LEMMA OnDiskTidy ==
  /\ TypeOK /\ result = NoFile /\ ~Torn => OnDisk = InParts
  /\ result = N => OnDisk = Pieces
<1>1. ASSUME TypeOK, result = NoFile, ~Torn PROVE OnDisk = InParts
  <2>1. \A p \in Pieces, f \in Files, w \in BOOLEAN :
          Record(p, w) \in Range(parts[f]) => w = TRUE
    BY <1>1 DEF Torn
  <2> QED BY <1>1, <2>1 DEF OnDisk, InParts
<1>2. ASSUME result = N PROVE OnDisk = Pieces
  <2>1. \A p \in Pieces : p < N
    BY Bounds DEF Pieces
  <2> QED BY <1>2, <2>1, Bounds, NoFileAssumption DEF OnDisk
<1> QED BY <1>1, <1>2

LEMMA InitImplements == Init => R!Init
<1> SUFFICES ASSUME Init PROVE R!Init
  OBVIOUS
<1>1. \A f \in Files : Range(parts[f]) = {}
  BY DEF Init, Range
<1>2. OnDisk = {}
  BY <1>1 DEF OnDisk, Init
<1> QED BY <1>2 DEF Init, R!Init, Down

(* A failed write is never forgotten, and the promise has ended with it.   *)
LEMMA FailedImplements ==
  ASSUME IInv, [Next]_vars, failed
  PROVE  UNCHANGED R!vars
<1>1. failed'
  BY DEF IInv, TypeOK, Next, vars, history, Run, LoadComplete, LoadPartial, Load, RefuseStart,
     CreateResult, CreateFails, WriteResult, FinishResult, DeletePart, FinishDeleting,
     AppendPart, AppendFails, FinishAppending, Gather, Interrupt, Kill, VerifyParts
<1> QED BY <1>1 DEF R!vars

LEMMA StartImplements ==
  ASSUME IInv, ~failed, LoadComplete \/ LoadPartial
  PROVE  R!Start
<1>1. /\ Down /\ phase' \in {"loop", "deleting"} /\ UNCHANGED OnDisk /\ ~failed'
  BY DiskKept DEF LoadComplete, LoadPartial, Load, history
<1>2. phase # "refused"
  BY DEF IInv, LeftBehind, LoadComplete, LoadPartial, WholeResult
<1>3. pieces' = OnDisk
  BY OnDiskTidy DEF IInv, LoadComplete, LoadPartial, Load, WholeResult
<1> QED BY <1>1, <1>2, <1>3 DEF R!Start, Down

LEMMA RefuseImplements ==
  ASSUME IInv, ~failed, RefuseStart
  PROVE  R!Refuse \/ UNCHANGED R!vars
<1>1. /\ phase \in {"killed", "refused"} /\ phase' = "refused"
      /\ UNCHANGED <<OnDisk, pieces>> /\ ~failed'
  BY DiskKept, NoFileAssumption, Bounds
     DEF RefuseStart, Down, WholeResult, IInv, LeftBehind, history, progress
<1> QED BY <1>1 DEF R!Refuse, R!vars, Down

LEMMA GatherImplements ==
  ASSUME IInv, ~failed, NEW p \in Pieces, Gather(p)
  PROVE  R!Gather
<1>1. /\ phase = "loop" /\ phase' \in {"loop", "creating"} /\ UNCHANGED OnDisk /\ ~failed'
      /\ p \notin pieces /\ pieces' = pieces \cup {p}
  BY DiskKept DEF Gather, AfterIteration, history
<1> QED BY <1>1 DEF R!Gather, Down

(* A piece reaches the result file.                                        *)
LEMMA SavingImplements ==
  ASSUME IInv, ~failed, CreateResult \/ CreateFails \/ WriteResult \/ FinishResult
  PROVE  R!Store \/ R!Break \/ UNCHANGED R!vars
<1>1. CASE CreateResult
  <2>1. /\ phase = "creating" /\ phase' = "saving" /\ result = NoFile /\ result' = 0
        /\ UNCHANGED <<pieces, parts>> /\ ~failed'
    BY <1>1 DEF CreateResult, progress, history, IInv, Finishing
  <2>2. \A p \in Pieces : ~(p < 0)
    BY PiecesFinite
  <2>3. UNCHANGED OnDisk
    BY <2>1, <2>2 DEF OnDisk
  <2> QED BY <2>1, <2>3 DEF R!vars, Down
<1>2. CASE CreateFails
  BY <1>2 DEF CreateFails, Stop, R!Break, Down
<1>3. CASE WriteResult
  <2>1. /\ phase = "saving" /\ result < N /\ result \in Nat /\ pieces = Pieces
        /\ UNCHANGED parts /\ ~failed'
    BY <1>3, Bounds, NoFileAssumption DEF WriteResult, history, IInv, TypeOK, Finishing
  <2>2. result \in Pieces
    BY <2>1, Bounds DEF Pieces
  <2>3. result' = result + 1 /\ UNCHANGED <<phase, pieces>>
    BY <1>3, <2>1, <2>2 DEF WriteResult, progress
  <2>4. OnDisk' = OnDisk \cup {result}
    <3>1. \A p \in Pieces : p < result' <=> p < result \/ p = result
      BY <2>1, <2>3, PiecesFinite
    <3>2. result # NoFile /\ result' # NoFile
      BY <2>1, <2>3, NoFileAssumption
    <3>3. ASSUME NEW p \in Pieces
          PROVE  p \in OnDisk' <=> p \in OnDisk \/ p = result
      BY <2>1, <3>1, <3>2 DEF OnDisk
    <3> QED BY <2>2, <3>3 DEF OnDisk
  <2> QED BY <2>1, <2>2, <2>3, <2>4 DEF R!Store, R!vars, Down
<1>4. CASE FinishResult
  <2>1. phase = "saving" /\ phase' = "deleting" /\ UNCHANGED <<OnDisk, pieces>>
    BY <1>4, DiskKept DEF FinishResult, progress
  <2> QED BY <2>1 DEF R!Break, R!vars, Down
<1> QED BY <1>1, <1>2, <1>3, <1>4

LEMMA DeletingImplements ==
  ASSUME IInv, IInv', ~failed, DeletePart \/ FinishDeleting
  PROVE  UNCHANGED R!vars
<1>1. /\ phase = "deleting" /\ phase' \in {"deleting", "loop"} /\ saved
      /\ UNCHANGED <<result, pieces>> /\ ~failed'
  BY DEF DeletePart, FinishDeleting, disk, progress, history, IInv, Finishing
<1>2. result = N
  BY <1>1 DEF IInv, Finishing
<1>3. OnDisk = Pieces /\ OnDisk' = Pieces
  <2>1. \A p \in Pieces : p < N
    BY Bounds DEF Pieces
  <2> QED BY <1>1, <1>2, <2>1, Bounds, NoFileAssumption DEF OnDisk
<1> QED BY <1>1, <1>3 DEF R!vars, Down

(* A run that ends by itself has everything on disk.                       *)
LEMMA EndImplements ==
  ASSUME IInv, ~failed, Interrupt \/ FinishAppending
  PROVE  R!End \/ UNCHANGED R!vars
<1>1. UNCHANGED OnDisk /\ ~failed' /\ phase \in {"loop", "appending"}
  BY DiskKept DEF Interrupt, FinishAppending, history
<1>2. CASE Interrupt /\ ShouldSave
  <2>1. phase' = "appending" /\ UNCHANGED pieces
    BY <1>2 DEF Interrupt, progress
  <2> QED BY <1>1, <2>1 DEF R!vars, Down
<1>3. CASE (Interrupt /\ ~ShouldSave) \/ FinishAppending
  <2>1. Stop("ended")
    BY <1>3 DEF Interrupt, FinishAppending
  <2>2. OnDisk = pieces
    <3>1. CASE saved
      BY <3>1, OnDiskTidy DEF IInv, Finishing
    <3>2. CASE ~saved
      <4>1. OnDisk = loaded \cup Appended /\ loaded \subseteq pieces /\ Appended \subseteq pieces
        BY <1>1, <3>2, OnDiskTidy DEF IInv, Unfinished, Counted, Down, Appended
      <4>2. CASE Interrupt
        <5>1. ~(loadedDone < N) /\ loadedDone \in 0..N
          BY <1>3, <3>2, <4>2 DEF ShouldSave, Interrupt, FinishAppending, IInv, TypeOK
        <5>2. loaded = Pieces
          <6>1. loadedDone = N /\ loadedDone = Cardinality(loaded)
            BY <1>1, <5>1, Bounds DEF IInv, Counted, Down
          <6> QED BY <6>1, PiecesFinite DEF IInv, TypeOK
        <5> QED BY <4>1, <5>2 DEF IInv, TypeOK
      <4>3. CASE FinishAppending
        <5>1. phase = "appending" /\ at = N
          BY <4>3 DEF FinishAppending
        <5>2. \A p \in Pieces : p < N
          BY Bounds DEF Pieces
        <5> QED BY <4>1, <5>1, <5>2 DEF Appended, IInv, TypeOK
      <4> QED BY <1>3, <4>2, <4>3
    <3> QED BY <3>1, <3>2 DEF IInv, TypeOK
  <2> QED BY <1>1, <2>1, <2>2 DEF R!End, Stop, Down
<1> QED BY <1>2, <1>3

(* A piece reaches a partial file.                                         *)
LEMMA AppendImplements ==
  ASSUME IInv, ~failed, AppendPart
  PROVE  R!Store \/ UNCHANGED R!vars
<1>1. /\ phase = "appending" /\ UNCHANGED <<phase, pieces, result>> /\ ~failed' /\ at < N
      /\ IF at \in Unsaved THEN AppendRecord(TRUE) ELSE UNCHANGED parts
  BY DEF AppendPart, progress, history
<1>2. CASE at \in Unsaved
  <2>1. at \in Pieces /\ at \in pieces /\ OnDisk' = OnDisk \cup {at}
    BY <1>1, <1>2, FreshRecord
  <2> QED BY <1>1, <2>1 DEF R!Store, R!vars, Down
<1>3. CASE at \notin Unsaved
  <2>1. UNCHANGED OnDisk
    BY <1>1, <1>3, DiskKept DEF disk
  <2> QED BY <1>1, <2>1 DEF R!vars, Down
<1> QED BY <1>2, <1>3

LEMMA KillImplements ==
  ASSUME IInv, ~failed, Kill
  PROVE  R!Kill
<1>1. Stop("killed") /\ ~Down /\ ~failed'
  BY DEF Kill, history
<1>2. UNCHANGED OnDisk
  BY BreakOff DEF Kill
<1> QED BY <1>1, <1>2 DEF R!Kill, Stop, Down

LEMMA StepImplements == IInv /\ IInv' /\ [Next]_vars => [R!Next]_R!vars
<1> SUFFICES ASSUME IInv, IInv', [Next]_vars PROVE [R!Next]_R!vars
  OBVIOUS
<1>1. CASE failed
  BY <1>1, FailedImplements
<1>2. CASE ~failed
  <2>1. CASE LoadComplete \/ LoadPartial
    BY <1>2, <2>1, StartImplements DEF R!Next
  <2>2. CASE RefuseStart
    BY <1>2, <2>2, RefuseImplements DEF R!Next
  <2>3. ASSUME NEW p \in Pieces, Gather(p) PROVE R!Next
    BY <1>2, <2>3, GatherImplements DEF R!Next
  <2>4. CASE CreateResult \/ CreateFails \/ WriteResult \/ FinishResult
    BY <1>2, <2>4, SavingImplements DEF R!Next
  <2>5. CASE DeletePart \/ FinishDeleting
    BY <1>2, <2>5, DeletingImplements
  <2>6. CASE Interrupt \/ FinishAppending
    BY <1>2, <2>6, EndImplements DEF R!Next
  <2>7. CASE AppendPart
    BY <1>2, <2>7, AppendImplements DEF R!Next
  <2>8. CASE AppendFails
    BY <1>2, <2>8 DEF AppendFails, Stop, R!Next, R!Break, Down
  <2>9. CASE Kill
    BY <1>2, <2>9, KillImplements DEF R!Next
  <2>10. CASE VerifyParts \/ UNCHANGED vars
    <3>1. UNCHANGED <<disk, phase, pieces, failed>>
      BY <2>10 DEF VerifyParts, vars, progress, history
    <3>2. UNCHANGED OnDisk
      BY <3>1, DiskKept
    <3> QED BY <3>1, <3>2 DEF R!vars, Down
  <2> QED BY <2>1, <2>2, <2>3, <2>4, <2>5, <2>6, <2>7, <2>8, <2>9, <2>10 DEF Next, Run
<1> QED BY <1>1, <1>2

(* Files and runs together keep the promise of Resume, for any number of   *)
(* pieces, runs and kills: nothing stored is lost, a run starts with what  *)
(* is stored, and only a killed one can keep the next from starting.       *)
THEOREM Implementation == Spec => ImplementsResume
<1>1. Spec => R!Spec
  BY InitImplements, StepImplements, Invariance, PTL DEF Spec, R!Spec
<1> QED BY <1>1 DEF ImplementsResume
=============================================================================
