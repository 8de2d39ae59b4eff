-------------------------- MODULE HistoryLogProofs --------------------------
(***************************************************************************)
(* Proofs about HistoryLog, for any number of records, segments and          *)
(* removals, any capacity, and any ids given out again.  The inductive           *)
(* invariant adds to the safety properties what the writer knows at each place    *)
(* of its own work, that nothing speaks of a segment that was never begun, and     *)
(* that a segment still open behind a later one was marked when the later one       *)
(* was begun.                                                                *)
(***************************************************************************)
EXTENDS HistoryLog, FiniteSetTheorems, WellFoundedInduction, TLAPS

\* Nothing is known of segments that were never begun.
Numbered ==
    /\ \A i \in Segments : Indexed(i) => i <= created
    /\ \A x \in Removers : \A i \in removal[x].left \cup removal[x].gone : i <= created
    /\ writer.id <= created

\* The file is whole, and as long as the writer thinks, or was found spoilt.
Scanned(i) ==
    Exists(i) /\ file[i].tail # "spoilt" =>
        file[i].tail = "whole" /\ writer.size = Cardinality(file[i].records)

\* The segment is on record as the writer read it, unless its account is astray or its row was
\* told of another's records.
Read(i) ==
    /\ ~writer.astray => Scanned(i)
    /\ Indexed(i) /\ i \notin mistold => row[i].count + Cardinality(writer.pending) <= writer.size

\* What the writer holds, by what it is doing.
Held ==
    LET i == writer.id IN
    /\ writer.at = "parked" => writer = Parked
    /\ writer.at = "ready" /\ i = 0 => writer = Empty
    /\ writer.at \notin {"parked", "ready"} => i # 0
    /\ \A n \in writer.pending : n < next
    /\ writer.at = "opened" /\ Indexed(i) /\ i \notin mistold => row[i].count = writer.counted
    /\ writer.at = "counting" =>
          /\ writer.size > writer.counted
          /\ Indexed(i) /\ i \notin mistold => row[i].count = writer.counted
          /\ Scanned(i)
    /\ writer.at = "adopting" => Read(i)
    /\ writer.at = "ready" /\ i # 0 => Read(i) /\ (Exists(i) => writer.pending \subseteq file[i].records)
    /\ writer.at = "creating" =>
          /\ i = created /\ ~Exists(i) /\ writer.size = 0
          /\ Indexed(i) /\ i \notin mistold => row[i].count = 0

\* What a removal has unlinked is no longer there.
Unlinked == \A x \in Removers : \A i \in removal[x].gone : Exists(i) => i \in raced

\* Only what was open when a later segment was begun is open, or held, behind one.
LeftBehind ==
    /\ \A i \in Segments : Open(i) /\ Exists(i) /\ i < created => i \in unsealed
    /\ \A i \in Segments : writer.id = i /\ i < created /\ Indexed(i) /\ Exists(i) => i \in unsealed

IInv ==
    /\ TypeOK /\ Numbered /\ Held /\ Unlinked /\ LeftBehind
    /\ RowsCatchUp /\ NoFileLeaks /\ SegmentsInOrder

-----------------------------------------------------------------------------
(* Numbers, and sets of records.                                              *)

(* A set of numbers that is not empty has a least one.                         *)
LEMMA LeastExists ==
  ASSUME NEW S \in SUBSET Nat, S # {}
  PROVE  \E m \in S : \A n \in S : m <= n
<1>1. PICK m \in S : \A n \in S : ~(<<n, m>> \in OpToRel(<, Nat))
  BY WFMin, NatLessThanWellFounded
<1>2. ASSUME NEW n \in S PROVE m <= n
  <2>1. m \in Nat /\ n \in Nat /\ <<n, m>> \in Nat \X Nat
    OBVIOUS
  <2>2. ~(n < m)
    BY <1>1, <2>1 DEF OpToRel
  <2> QED
    BY <2>1, <2>2
<1> QED
  BY <1>2

(* The oldest of a removal's segments is one of them.                          *)
LEMMA MinIsOne ==
  ASSUME NEW S \in SUBSET Segments, S # {}
  PROVE  Min(S) \in S /\ Min(S) \in Segments
<1>1. S \in SUBSET Nat
  BY HistoryConstants DEF Segments
<1> QED
  BY <1>1, LeastExists DEF Min

(* The last of some records is one of them, and none is later.                  *)
LEMMA MaxIsLast ==
  ASSUME NEW S \in SUBSET Records, S # {}
  PROVE  Max(S) \in S /\ \A n \in S : n <= Max(S)
<1> DEFINE T == {MaxRecord - n : n \in S}
<1>1. \A n \in S : n \in Int /\ MaxRecord - n \in Nat
  BY HistoryConstants DEF Records
<1>2. PICK m \in T : \A n \in T : m <= n
  <2>1. T \in SUBSET Nat /\ T # {}
    BY <1>1
  <2> QED
    BY <2>1, LeastExists
<1>3. PICK l \in S : m = MaxRecord - l
  OBVIOUS
<1>4. ASSUME NEW n \in S PROVE l >= n
  <2>1. m <= MaxRecord - n
    BY <1>2
  <2> QED
    BY <1>1, <1>3, <2>1, HistoryConstants DEF Records
<1> QED
  BY <1>1, <1>3, <1>4 DEF Max

(* There are finitely many records.                                            *)
LEMMA RecordsCount ==
  ASSUME NEW S \in SUBSET Records
  PROVE  IsFiniteSet(S) /\ Cardinality(S) \in Nat
<1>1. IsFiniteSet(Records)
  BY HistoryConstants, FS_Interval DEF Records
<1> QED
  BY <1>1, FS_Subset, FS_CardinalityType

(* One more record is one more.                                                 *)
LEMMA OneMore ==
  ASSUME NEW S \in SUBSET Records, NEW n \in Records, n \notin S
  PROVE  Cardinality(S \cup {n}) = Cardinality(S) + 1
  BY RecordsCount, FS_AddElement

(* What is pending and what is not add up.                                       *)
LEMMA ToldAndPending ==
  ASSUME NEW S \in SUBSET Records, NEW P \in SUBSET S
  PROVE  Cardinality(S) = Cardinality(S \ P) + Cardinality(P)
<1>1. S \cap P = P /\ P \in SUBSET Records /\ S \ P \in SUBSET Records
  OBVIOUS
<1>2. Cardinality(S \ P) = Cardinality(S) - Cardinality(S \cap P)
  BY RecordsCount, FS_Difference
<1>3. Cardinality(S) \in Nat /\ Cardinality(P) \in Nat /\ Cardinality(S \ P) \in Nat
  BY <1>1, RecordsCount
<1>4. Cardinality(S \cap P) = Cardinality(P)
  BY <1>1
<1> QED
  BY <1>2, <1>3, <1>4

-----------------------------------------------------------------------------
(* Steps of the writer's.                                                     *)

\* What a segment's row was told of.
Told(i) == file[i].records \ (IF writer.id = i THEN writer.pending ELSE {})

\* The segment's row is to say what is in it.
Answers(i) ==
    i \notin lagging \cup mistold /\ Indexed(i) /\ Exists(i) /\ file[i].tail # "spoilt"

(* A row that was told nothing, of a segment to which nothing was done, still says what  *)
(* is in it.                                                                          *)
LEMMA TellingKept ==
  ASSUME RowsCatchUp,
         \A i \in Segments : Answers(i)' =>
             /\ Answers(i) /\ Told(i)' = Told(i)
             /\ row'[i].count = row[i].count /\ row'[i].last = row[i].last
  PROVE  RowsCatchUp'
<1>1. ASSUME NEW i \in Segments, Answers(i)'
      PROVE  row'[i].count = Cardinality(Told(i)') /\ \A n \in Told(i)' : n <= row'[i].last
  BY <1>1 DEF RowsCatchUp, Told, Answers
<1> QED
  BY <1>1 DEF RowsCatchUp, Told, Answers

(* What a row or a file is, where there is one.                                  *)
LEMMA Kinds ==
  ASSUME TypeOK, NEW i \in Segments
  PROVE  /\ Indexed(i) => /\ row[i] \in Row /\ row[i].count \in Nat
                          /\ row[i].first \in Records /\ row[i].last \in Records
         /\ Exists(i) => /\ file[i] \in File /\ file[i].records \in SUBSET Records
                         /\ file[i].tail \in {"whole", "torn", "spoilt"}
  BY DEF TypeOK, Indexed, Exists, Row, File

(* What the writer is, and of which segment.                                     *)
LEMMA WriterKinds ==
  ASSUME TypeOK
  PROVE  /\ writer \in Writer /\ writer.size \in Nat /\ writer.counted \in Nat
         /\ writer.pending \in SUBSET Records /\ writer.astray \in BOOLEAN
         /\ writer.id = 0 \/ writer.id \in Segments
         /\ Parked \in Writer /\ Parked.at = "parked" /\ Parked.id = 0 /\ Parked.pending = {}
         /\ Empty \in Writer /\ Empty.at = "ready" /\ Empty.id = 0 /\ Empty.pending = {}
<1>1. /\ writer \in Writer /\ writer.size \in Nat /\ writer.counted \in Nat
      /\ writer.pending \in SUBSET Records /\ writer.astray \in BOOLEAN
      /\ writer.id = 0 \/ writer.id \in Segments
  BY HistoryConstants DEF TypeOK, Writer, Segments
<1>2. /\ Parked \in Writer /\ Parked.at = "parked" /\ Parked.id = 0 /\ Parked.pending = {}
  BY HistoryConstants DEF Writer, Parked
<1>3. Empty \in Writer /\ Empty.at = "ready" /\ Empty.id = 0 /\ Empty.pending = {}
  BY <1>2 DEF Writer, Empty
<1> QED
  BY <1>1, <1>2, <1>3

(* The writer that lets go of its segment, or never had one, disturbs nothing.      *)
LEMMA LetGo ==
  ASSUME IInv, writer.pending = {}, writer' = Empty \/ writer' = Parked,
         UNCHANGED <<storage, next, removal, history>>
  PROVE  IInv'
<1> USE DEF IInv, Exists, Indexed, storage, history
<1>1. writer' \in Writer /\ writer'.pending = {} /\ writer'.id = 0
  BY WriterKinds
<1>2. TypeOK'
  BY <1>1 DEF TypeOK
<1>3. Numbered' /\ LeftBehind'
  BY <1>1, HistoryConstants DEF TypeOK, Numbered, LeftBehind, Open, Segments
<1>4. Held'
  BY <1>1, WriterKinds DEF TypeOK, Held
<1>5. RowsCatchUp'
  BY <1>1, TellingKept DEF Told, Answers
<1>6. Unlinked' /\ NoFileLeaks' /\ SegmentsInOrder'
  BY DEF Unlinked, NoFileLeaks, SegmentsInOrder
<1> QED
  BY <1>2, <1>3, <1>4, <1>5, <1>6

(* The segment that is opened is open.                                           *)
LEMMA OpenLogInv == IInv /\ OpenLog => IInv'
<1> SUFFICES ASSUME IInv, OpenLog PROVE IInv'
  OBVIOUS
<1> USE DEF IInv, Exists, Indexed, storage, history
<1>1. writer = Parked /\ writer.pending = {} /\ UNCHANGED <<storage, next, removal, history>>
  <2>1. writer = Parked
    BY DEF OpenLog, Held
  <2> QED
    BY <2>1 DEF OpenLog, Parked
<1>2. CASE writer' = Empty
  BY <1>1, <1>2, LetGo
<1>3. ASSUME NEW i \in Segments, Open(i), writer' = [Parked EXCEPT !.at = "opened", !.id = i, !.counted = row[i].count]
      PROVE  IInv'
  <2>1. writer'.at = "opened" /\ writer'.id = i /\ writer'.pending = {} /\ writer'.counted = row[i].count
    BY <1>3 DEF Parked
  <2>2. writer' \in Writer
    <3>1. row[i].count \in Nat /\ i \in 0..MaxSegment
      BY <1>3, Kinds, HistoryConstants DEF Open, Segments
    <3>2. writer' = [at |-> "opened", id |-> i, size |-> 0, counted |-> row[i].count, pending |-> {},
                     astray |-> FALSE]
      BY <1>3 DEF Parked
    <3> QED
      BY <3>1, <3>2 DEF Writer
  <2>3. TypeOK'
    BY <1>1, <2>1, <2>2 DEF TypeOK
  <2>4. Numbered' /\ LeftBehind'
    BY <1>1, <1>3, <2>1 DEF TypeOK, Numbered, LeftBehind, Open
  <2>5. Held'
    BY <1>1, <2>1, HistoryConstants DEF TypeOK, Held, Segments
  <2>6. RowsCatchUp'
    BY <1>1, <2>1, TellingKept DEF Told, Answers
  <2>7. Unlinked' /\ NoFileLeaks' /\ SegmentsInOrder'
    BY <1>1 DEF Unlinked, NoFileLeaks, SegmentsInOrder
  <2> QED
    BY <2>3, <2>4, <2>5, <2>6, <2>7
<1> QED
  BY <1>2, <1>3 DEF OpenLog, OpenSegments

(* A scan cuts the file back and leaves its records as they are, but in a spoilt one.    *)
LEMMA ScanInv == IInv /\ Scan => IInv'
<1> SUFFICES ASSUME IInv, Scan PROVE IInv'
  OBVIOUS
<1> USE DEF IInv, Indexed, storage, history
<1> DEFINE i == writer.id
<1>1. /\ writer.at = "opened" /\ i \in Segments /\ writer.pending = {}
      /\ UNCHANGED <<row, created, next, removal, history>>
  BY WriterKinds DEF Scan, TypeOK, Held
<1>2. /\ \A j \in Segments : Exists(j) =>
            /\ file'[j] \in File /\ file'[j].records \subseteq file[j].records
            /\ file[j].tail # "spoilt" => file'[j].records = file[j].records
      /\ \A j \in Segments : Exists(j) /\ file'[j].tail # "spoilt" =>
            file[j].tail # "spoilt" /\ (j = i => file'[j].tail = "whole")
      /\ \A j \in Segments : ~Exists(j) => file'[j] = NoFile
      /\ file' \in [Segments -> File \cup {NoFile}]
  <2>1. CASE Exists(i) /\ file[i].tail # "spoilt"
    <3>1. file' = [file EXCEPT ![i].tail = "whole"] /\ file[i] \in File
      BY <1>1, <2>1, Kinds DEF Scan
    <3> QED
      BY <3>1, <1>1, <2>1, Kinds DEF TypeOK, File, Exists
  <2>2. CASE Exists(i) /\ file[i].tail = "spoilt"
    <3>1. PICK cut \in 0..MaxRecord : file' = [file EXCEPT ![i].records = {m \in @ : m <= cut}]
      BY <1>1, <2>2 DEF Scan
    <3> QED
      BY <3>1, <1>1, <2>2, Kinds DEF TypeOK, File, Exists
  <2>3. CASE ~Exists(i)
    <3>1. UNCHANGED file
      BY <1>1, <2>3 DEF Scan
    <3> QED
      BY <3>1, <2>3, Kinds DEF Exists, TypeOK
  <2> QED
    BY <2>1, <2>2, <2>3
<1>3. \A j \in Segments : Exists(j)' <=> Exists(j)
  BY <1>2, NotAFile DEF Exists
<1>4. /\ writer'.id = i /\ writer'.pending = {} /\ writer' \in Writer /\ writer'.astray = writer.astray
      /\ writer'.at \in {"closing", "counting", "adopting"}
      /\ writer'.at # "closing" => writer'.size >= writer.counted
      /\ writer'.at = "counting" => writer'.size > writer'.counted /\ writer'.counted = writer.counted
      /\ Exists(i) /\ file[i].tail # "spoilt" => writer'.size = Cardinality(file[i].records)
  <2>1. ASSUME NEW n \in Nat, Find(n)
        PROVE  /\ writer'.id = i /\ writer'.pending = {} /\ writer' \in Writer /\ writer'.size = n
               /\ writer'.astray = writer.astray
               /\ writer'.at \in {"closing", "counting", "adopting"}
               /\ writer'.at # "closing" => n >= writer.counted
               /\ writer'.at = "counting" => n > writer.counted /\ writer'.counted = writer.counted
    <3>1. PICK at \in {Recovery(n, writer.counted)} :
             writer' = [writer EXCEPT !.at = at, !.size = n,
                                      !.counted = IF at = "counting" THEN @ ELSE 0]
      BY <2>1 DEF Find
    <3>2. writer \in Writer /\ writer.counted \in Nat
      BY WriterKinds
    <3>3. /\ at \in {"closing", "counting", "adopting"}
          /\ at # "closing" => n >= writer.counted
          /\ at = "counting" => n > writer.counted
      BY <3>1, <3>2 DEF Recovery
    <3>4. writer' \in Writer
      BY <3>1, <3>2, <3>3 DEF Writer
    <3>5. /\ writer'.at = at /\ writer'.id = i /\ writer'.size = n /\ writer'.pending = writer.pending
          /\ writer'.astray = writer.astray
          /\ at = "counting" => writer'.counted = writer.counted
      BY <3>1, <3>2 DEF Writer
    <3> QED
      BY <1>1, <3>3, <3>4, <3>5
  <2>2. CASE Exists(i) /\ file[i].tail # "spoilt"
    <3>1. Find(Cardinality(file[i].records)) /\ Cardinality(file[i].records) \in Nat
      BY <1>1, <2>2, Kinds, RecordsCount DEF Scan
    <3> QED
      BY <3>1, <2>1
  <2>3. CASE Exists(i) /\ file[i].tail = "spoilt"
    <3>1. PICK n \in 0..MaxRecord : Find(n)
      BY <1>1, <2>3 DEF Scan
    <3> QED
      BY <3>1, <2>1, <2>3
  <2>4. CASE ~Exists(i)
    <3>1. writer' = [writer EXCEPT !.at = "closing", !.counted = 0] /\ writer \in Writer
      BY <1>1, <2>4, WriterKinds DEF Scan
    <3>2. writer' \in Writer
      BY <3>1 DEF Writer
    <3>3. /\ writer'.at = "closing" /\ writer'.id = i /\ writer'.pending = writer.pending
          /\ writer'.astray = writer.astray
      BY <3>1 DEF Writer
    <3> QED
      BY <1>1, <2>4, <3>2, <3>3
  <2> QED
    BY <2>2, <2>3, <2>4
<1>5. TypeOK'
  BY <1>1, <1>2, <1>3, <1>4 DEF TypeOK
<1>6. Numbered' /\ LeftBehind'
  BY <1>1, <1>3, <1>4 DEF TypeOK, Numbered, LeftBehind, Open
<1>7. RowsCatchUp'
  BY <1>1, <1>2, <1>3, <1>4, TellingKept DEF Told, Answers
<1>8. Unlinked' /\ NoFileLeaks' /\ SegmentsInOrder'
  BY <1>1, <1>2, <1>3 DEF Unlinked, NoFileLeaks, SegmentsInOrder, TypeOK, Removal
<1>9. Held'
  <2>1. Indexed(i) /\ i \notin mistold => row[i].count = writer.counted
    BY <1>1 DEF Held
  <2>2. Scanned(i)'
    BY <1>1, <1>2, <1>3, <1>4 DEF Scanned
  <2>3. Cardinality(writer'.pending) = 0
    BY <1>4, FS_EmptySet
  <2>4. Read(i)' \/ writer'.at # "adopting"
    BY <1>1, <1>4, <2>1, <2>2, <2>3, WriterKinds DEF Read
  <2> QED
    BY <1>1, <1>4, <2>1, <2>2, <2>4 DEF Held
<1> QED
  BY <1>5, <1>6, <1>7, <1>8, <1>9

(* A writer that goes by the file's length takes what the row says for its account.       *)
LEMMA TrustInv == IInv /\ Trust => IInv'
<1> SUFFICES ASSUME IInv, Trust PROVE IInv'
  OBVIOUS
<1> USE DEF IInv, Exists, Indexed, storage, history
<1> DEFINE i == writer.id
<1>1. /\ writer.at = "opened" /\ i # 0 /\ writer.pending = {}
      /\ UNCHANGED <<storage, next, removal, history>>
  BY DEF Trust, TypeOK, Held
<1>2. /\ writer' \in Writer /\ writer'.at \in {"closing", "adopting"} /\ writer'.astray
      /\ writer'.id = i /\ writer'.pending = {} /\ writer'.size = writer.counted
  <2>1. PICK at \in {"closing", "adopting"} :
           writer' = [writer EXCEPT !.at = at, !.size = writer.counted, !.counted = 0, !.astray = TRUE]
    BY DEF Trust
  <2>2. writer \in Writer /\ writer.counted \in Nat
    BY WriterKinds
  <2> QED
    BY <1>1, <2>1, <2>2 DEF Writer
<1>3. TypeOK'
  BY <1>1, <1>2 DEF TypeOK
<1>4. Numbered' /\ LeftBehind'
  BY <1>1, <1>2 DEF Numbered, LeftBehind, Open
<1>5. RowsCatchUp'
  BY <1>1, <1>2, TellingKept DEF Told, Answers
<1>6. Unlinked' /\ NoFileLeaks' /\ SegmentsInOrder'
  BY <1>1 DEF Unlinked, NoFileLeaks, SegmentsInOrder
<1>7. Held'
  <2>1. Indexed(i) /\ i \notin mistold => row[i].count = writer.counted
    BY <1>1 DEF Held
  <2>2. Cardinality(writer'.pending) = 0
    BY <1>2, FS_EmptySet
  <2>3. Read(i)'
    BY <1>1, <1>2, <2>1, <2>2, WriterKinds DEF Read
  <2> QED
    BY <1>1, <1>2, <2>3 DEF Held
<1> QED
  BY <1>3, <1>4, <1>5, <1>6, <1>7

\* The rows are the same but for being closed.
SameButSealed ==
    /\ row' \in [Segments -> Row \cup {NoRow}]
    /\ \A j \in Segments :
          /\ Indexed(j)' <=> Indexed(j)
          /\ Open(j)' => Open(j)
          /\ Indexed(j) => row'[j].count = row[j].count /\ row'[j].last = row[j].last

(* Closing some rows is no more than that.                                       *)
LEMMA SealedRows ==
  ASSUME TypeOK, NEW S \in SUBSET Segments,
         row' = [i \in Segments |-> IF i \in S /\ Indexed(i) THEN [row[i] EXCEPT !.sealed = TRUE]
                                    ELSE row[i]]
  PROVE  SameButSealed
<1>1. \A j \in Segments : Indexed(j) => row[j] \in Row /\ [row[j] EXCEPT !.sealed = TRUE] \in Row
  BY Kinds DEF Row
<1>2. row' \in [Segments -> Row \cup {NoRow}]
  BY <1>1 DEF TypeOK
<1>3. ASSUME NEW j \in Segments
      PROVE  /\ Indexed(j)' <=> Indexed(j)
             /\ Open(j)' => Open(j)
             /\ Indexed(j) => row'[j].count = row[j].count /\ row'[j].last = row[j].last
  <2>1. CASE j \in S /\ Indexed(j)
    <3>1. row'[j] = [row[j] EXCEPT !.sealed = TRUE] /\ row[j] \in Row /\ row'[j] \in Row
      BY <1>1, <2>1
    <3> QED
      BY <2>1, <3>1, NotARow DEF Indexed, Open, Row
  <2>2. CASE ~(j \in S /\ Indexed(j))
    BY <2>2 DEF Indexed, Open
  <2> QED
    BY <2>1, <2>2
<1> QED
  BY <1>2, <1>3 DEF SameButSealed

(* Closing rows disturbs nothing, whether the writer lets go or knows nothing of it.   *)
LEMMA SealingInv ==
  ASSUME IInv, SameButSealed, UNCHANGED <<file, created, next, removal, history>>,
         \/ writer' = writer
         \/ writer.pending = {} /\ (writer' = Empty \/ writer' = Parked)
  PROVE  IInv'
<1> USE DEF IInv, Exists, SameButSealed, history
<1>1. writer' \in Writer /\ writer'.pending = writer.pending /\ (writer' # writer => writer'.id = 0)
  BY WriterKinds
<1>2. TypeOK'
  BY <1>1, WriterKinds DEF TypeOK
<1>3. Numbered' /\ LeftBehind'
  <2>1. writer'.id = writer.id \/ writer'.id = 0
    BY <1>1
  <2>2. created \in Nat /\ \A j \in Segments : j # 0
    BY HistoryConstants DEF TypeOK, Segments
  <2>3. Numbered'
    BY <2>1, <2>2 DEF Numbered
  <2> QED
    BY <2>1, <2>2, <2>3 DEF LeftBehind
<1>4. Held'
  <2>1. CASE writer' = writer
    BY <2>1, WriterKinds DEF Held, Read, Scanned
  <2>2. CASE writer' # writer
    BY <1>1, <2>2, WriterKinds DEF TypeOK, Held
  <2> QED
    BY <2>1, <2>2
<1>5. RowsCatchUp'
  BY <1>1, TellingKept DEF Told, Answers
<1>6. Unlinked' /\ NoFileLeaks' /\ SegmentsInOrder'
  BY DEF Unlinked, NoFileLeaks, SegmentsInOrder
<1> QED
  BY <1>2, <1>3, <1>4, <1>5, <1>6

(* So for one row.                                                              *)
LEMMA SealedRow ==
  ASSUME TypeOK, NEW i \in Segments, row' = Sealed(i)
  PROVE  SameButSealed
<1>1. row' = [j \in Segments |-> IF j \in {i} /\ Indexed(j) THEN [row[j] EXCEPT !.sealed = TRUE]
                                 ELSE row[j]]
  BY DEF Sealed, TypeOK
<1> QED
  BY <1>1, SealedRows

(* A segment found short, full or without its file is closed.                     *)
LEMMA CloseFoundInv == IInv /\ CloseFound => IInv'
<1> SUFFICES ASSUME IInv, CloseFound PROVE IInv'
  OBVIOUS
<1>1. writer.pending = {} /\ writer.id \in Segments
  BY HistoryConstants DEF IInv, TypeOK, Held, Writer, Segments, CloseFound
<1> QED
  BY <1>1, SealedRow, SealingInv DEF IInv, CloseFound

(* A full segment is closed before the next is begun, and the last when the writer      *)
(* stops.                                                                          *)
LEMMA SealInv == IInv /\ Seal => IInv'
<1> SUFFICES ASSUME IInv, Seal PROVE IInv'
  OBVIOUS
<1>1. writer.pending = {} /\ writer.id \in Segments /\ (writer' = Empty \/ writer' = Parked)
  BY HistoryConstants DEF IInv, TypeOK, Writer, Segments, Seal, Leave
<1> QED
  BY <1>1, SealedRow, SealingInv DEF IInv, Seal

(* The idle are closed.                                                          *)
LEMMA CloseIdleInv ==
  ASSUME IInv, NEW t \in Records, CloseIdle(t)
  PROVE  IInv'
<1> DEFINE S == {i \in Segments : Open(i) /\ row[i].last <= t}
<1>1. row' = [i \in Segments |-> IF i \in S /\ Indexed(i) THEN [row[i] EXCEPT !.sealed = TRUE] ELSE row[i]]
  BY DEF CloseIdle, Open
<1>2. SameButSealed
  BY <1>1, SealedRows DEF IInv
<1> QED
  BY <1>2, SealingInv DEF CloseIdle

(* A log that is not opened, or parked, or whose segment could not be closed.           *)
LEMMA OpenFailsInv == IInv /\ (OpenFails \/ Park \/ SealFails) => IInv'
<1> SUFFICES ASSUME IInv, OpenFails \/ Park \/ SealFails PROVE IInv'
  OBVIOUS
<1>1. writer.pending = {}
  BY DEF IInv, TypeOK, OpenFails, Park, SealFails, Leave
<1> QED
  BY <1>1, LetGo DEF OpenFails, Park, SealFails, Leave

(* The segment that is adopted is as it was read.                                   *)
LEMMA AdoptInv == IInv /\ Adopt => IInv'
<1> SUFFICES ASSUME IInv, Adopt PROVE IInv'
  OBVIOUS
<1> USE DEF IInv, Exists, Indexed, storage, history
<1>1. writer.at = "adopting" /\ writer.pending = {} /\ UNCHANGED <<storage, next, removal, history>>
  BY DEF Adopt, TypeOK
<1>2. CASE writer' = Parked
  BY <1>1, <1>2, LetGo
<1>3. CASE writer' = [writer EXCEPT !.at = "ready"]
  <2>1. /\ writer' \in Writer /\ writer'.at = "ready" /\ writer'.id = writer.id
        /\ writer'.size = writer.size /\ writer'.pending = {} /\ writer'.astray = writer.astray
    BY <1>1, <1>3 DEF TypeOK, Writer
  <2>2. TypeOK'
    BY <1>1, <2>1 DEF TypeOK
  <2>3. Numbered' /\ LeftBehind'
    BY <1>1, <2>1 DEF Numbered, LeftBehind, Open
  <2>4. Held'
    BY <1>1, <2>1 DEF Held, Read, Scanned
  <2>5. RowsCatchUp'
    BY <1>1, <2>1, TellingKept DEF Told, Answers
  <2>6. Unlinked' /\ NoFileLeaks' /\ SegmentsInOrder'
    BY <1>1 DEF Unlinked, NoFileLeaks, SegmentsInOrder
  <2> QED
    BY <2>2, <2>3, <2>4, <2>5, <2>6
<1> QED
  BY <1>2, <1>3 DEF Adopt

(* A row that is told something is otherwise the same, and so are all others.          *)
LEMMA ToldRow ==
  ASSUME TypeOK, NEW i \in Segments, Indexed(i), NEW c \in Nat, NEW l \in Records,
         row' = [row EXCEPT ![i] = [row[i] EXCEPT !.count = c, !.last = l]]
  PROVE  /\ row' \in [Segments -> Row \cup {NoRow}]
         /\ \A j \in Segments : (Indexed(j)' <=> Indexed(j)) /\ (Open(j)' <=> Open(j))
         /\ \A j \in Segments : j # i => row'[j] = row[j]
         /\ row'[i].count = c /\ row'[i].last = l
<1>1. row[i] \in Row /\ [row[i] EXCEPT !.count = c, !.last = l] \in Row
  BY Kinds DEF Row
<1>2. row'[i] = [row[i] EXCEPT !.count = c, !.last = l] /\ row'[i] \in Row
  BY <1>1 DEF TypeOK
<1>3. row'[i].count = c /\ row'[i].last = l /\ row'[i].sealed = row[i].sealed
  BY <1>1, <1>2 DEF Row
<1>4. row' \in [Segments -> Row \cup {NoRow}] /\ \A j \in Segments : j # i => row'[j] = row[j]
  BY <1>1 DEF TypeOK
<1>5. ASSUME NEW j \in Segments PROVE (Indexed(j)' <=> Indexed(j)) /\ (Open(j)' <=> Open(j))
  BY <1>2, <1>3, <1>4, NotARow DEF Indexed, Open
<1> QED
  BY <1>3, <1>4, <1>5

(* A row that lagged behind its file is told how much.                              *)
LEMMA CountInv == IInv /\ Count => IInv'
<1> SUFFICES ASSUME IInv, Count PROVE IInv'
  OBVIOUS
<1> USE DEF IInv, history
<1> DEFINE i == writer.id  more == writer.size - writer.counted
<1>1. /\ i \in Segments /\ writer.pending = {} /\ writer.at = "counting"
      /\ writer.size > writer.counted /\ writer.size \in Nat /\ writer.counted \in Nat /\ more \in Nat
      /\ UNCHANGED <<file, created, next, removal, history>>
  BY WriterKinds DEF TypeOK, Held, Count
<1>2. /\ writer' \in Writer /\ writer'.at \in {"closing", "adopting"} /\ writer'.id = i
      /\ writer'.size = writer.size /\ writer'.pending = {}
  <2>1. PICK at \in {"closing", "adopting"} : writer' = [writer EXCEPT !.at = at, !.counted = 0]
    BY DEF Count
  <2>2. writer \in Writer
    BY WriterKinds
  <2>3. writer' \in Writer
    BY <2>1, <2>2 DEF Writer
  <2>4. writer'.at = at /\ writer'.id = i /\ writer'.size = writer.size /\ writer'.pending = writer.pending
    BY <2>1, <2>2 DEF Writer
  <2> QED
    BY <1>1, <2>3, <2>4
<1>3. Indexed(i) /\ i \notin mistold => row[i].count = writer.counted
  BY <1>1 DEF Held
<1>4. Scanned(i)
  BY <1>1 DEF Held
<1>5. /\ row' \in [Segments -> Row \cup {NoRow}]
      /\ \A j \in Segments : (Indexed(j)' <=> Indexed(j)) /\ (Open(j)' <=> Open(j))
      /\ \A j \in Segments : j # i => row'[j] = row[j]
      /\ Indexed(i) /\ i \notin mistold => row'[i].count <= writer.size
  <2>1. CASE Open(i)
    <3>1. Indexed(i) /\ row[i] \in Row /\ row[i].count \in Nat /\ row[i].last \in Records
      BY <1>1, <2>1, Kinds DEF Open
    <3>2. row' = [row EXCEPT ![i] = [row[i] EXCEPT !.count = row[i].count + more, !.last = row[i].last]]
      <4>1. row' = [row EXCEPT ![i].count = row[i].count + more]
        BY <1>1, <2>1 DEF Count, Counted, TypeOK
      <4>2. [row[i] EXCEPT !.count = row[i].count + more, !.last = row[i].last]
               = [row[i] EXCEPT !.count = row[i].count + more]
        BY <3>1 DEF Row
      <4> QED
        BY <3>1, <4>1, <4>2
    <3>3. row[i].count + more \in Nat
      BY <1>1, <3>1
    <3>4. /\ row' \in [Segments -> Row \cup {NoRow}]
          /\ \A j \in Segments : (Indexed(j)' <=> Indexed(j)) /\ (Open(j)' <=> Open(j))
          /\ \A j \in Segments : j # i => row'[j] = row[j]
          /\ row'[i].count = row[i].count + more
      <4> HIDE DEF i, more
      <4> QED
        BY <1>1, <3>1, <3>2, <3>3, ToldRow
    <3> QED
      BY <1>1, <1>3, <3>4
  <2>2. CASE ~Open(i)
    BY <1>1, <1>3, <2>2 DEF Count, Counted, TypeOK, Indexed, Open
  <2> QED
    BY <2>1, <2>2
<1>6. ~Answers(i)
  <2>1. SUFFICES ASSUME Answers(i) PROVE FALSE
    OBVIOUS
  <2>2. row[i].count = Cardinality(file[i].records \ {})
    BY <1>1, <2>1 DEF RowsCatchUp, Answers
  <2> QED
    BY <1>1, <1>3, <1>4, <2>1, <2>2 DEF Answers, Scanned
<1>7. TypeOK'
  BY <1>1, <1>2, <1>5 DEF TypeOK, Exists
<1>8. Numbered' /\ LeftBehind'
  BY <1>1, <1>2, <1>5 DEF Numbered, LeftBehind, Exists
<1>9. Held'
  <2>1. Cardinality(writer'.pending) = 0
    BY <1>2, FS_EmptySet
  <2>2. Indexed(i) => row'[i].count \in Nat
    BY <1>1, <1>5, NotARow DEF Row, Indexed
  <2>3. Scanned(i)'
    BY <1>1, <1>2, <1>4 DEF Scanned, Exists
  <2>4. Read(i)'
    BY <1>1, <1>2, <1>5, <2>1, <2>2, <2>3 DEF Read
  <2> QED
    BY <1>1, <1>2, <2>4 DEF Held
<1>10. RowsCatchUp'
  <2>1. ASSUME NEW j \in Segments, Answers(j)'
        PROVE  /\ Answers(j) /\ Told(j)' = Told(j)
               /\ row'[j].count = row[j].count /\ row'[j].last = row[j].last
    <3>1. Answers(j) /\ Told(j)' = Told(j)
      BY <1>1, <1>2, <1>5, <2>1 DEF Told, Answers, Exists
    <3> QED
      BY <1>5, <1>6, <3>1
  <2> QED
    BY <2>1, TellingKept
<1>11. Unlinked' /\ NoFileLeaks' /\ SegmentsInOrder'
  BY <1>1, <1>5 DEF Unlinked, NoFileLeaks, SegmentsInOrder, Exists
<1> QED
  BY <1>7, <1>8, <1>9, <1>10, <1>11

(* What was pending is lost, and the row behind if there is one.                       *)
LEMMA LosePending ==
  ASSUME IInv, Missed({writer.id}), writer.at = "ready", writer.id # 0,
         UNCHANGED <<storage, next, removal, unsealed, raced, mistold>>,
         \/ writer' = Empty
         \/ writer' = [writer EXCEPT !.pending = {}]
  PROVE  IInv'
<1> USE DEF IInv, Exists, Indexed, storage
<1> DEFINE i == writer.id
<1>1. i \in Segments /\ writer \in Writer /\ writer.pending \in SUBSET Records /\ writer.size \in Nat
  BY WriterKinds
<1>2. /\ writer' \in Writer /\ writer'.pending = {} /\ writer'.at = "ready"
      /\ \/ writer' = Empty /\ writer'.id = 0
         \/ writer'.id = i /\ writer'.size = writer.size /\ writer'.astray = writer.astray
  <2>1. CASE writer' = Empty
    BY <2>1, WriterKinds
  <2>2. CASE writer' = [writer EXCEPT !.pending = {}]
    BY <1>1, <2>2 DEF Writer
  <2> QED
    BY <2>1, <2>2
<1>3. lagging' = lagging \cup {j \in {i} : Indexed(j) /\ Exists(j)}
  BY DEF Missed
<1>4. TypeOK'
  BY <1>1, <1>2, <1>3 DEF TypeOK
<1>5. Numbered' /\ LeftBehind'
  BY <1>1, <1>2, HistoryConstants DEF TypeOK, Numbered, LeftBehind, Open, Segments
<1>6. Held'
  <2>1. CASE writer' = Empty /\ writer'.id = 0
    BY <1>2, <2>1 DEF Held
  <2>2. CASE writer'.id = i /\ writer'.size = writer.size /\ writer'.astray = writer.astray
    <3>1. Cardinality(writer'.pending) = 0 /\ Cardinality(writer.pending) \in Nat
      BY <1>1, <1>2, FS_EmptySet, RecordsCount
    <3>2. Indexed(i) => row[i].count \in Nat
      BY <1>1, Kinds
    <3>3. Read(i)
      BY <1>1 DEF Held
    <3>4. Read(i)'
      BY <1>1, <2>2, <3>1, <3>2, <3>3 DEF Read, Scanned
    <3> QED
      BY <1>1, <1>2, <2>2, <3>4 DEF Held
  <2> QED
    BY <1>2, <2>1, <2>2
<1>7. RowsCatchUp'
  BY <1>1, <1>2, <1>3, TellingKept DEF Told, Answers
<1>8. Unlinked' /\ NoFileLeaks' /\ SegmentsInOrder'
  BY DEF Unlinked, NoFileLeaks, SegmentsInOrder
<1> QED
  BY <1>4, <1>5, <1>6, <1>7, <1>8

(* A report that fails.                                                          *)
LEMMA FlushFailsInv == IInv /\ FlushFails => IInv'
<1> SUFFICES ASSUME IInv, FlushFails PROVE IInv'
  OBVIOUS
<1>1. writer.id # 0
  BY DEF IInv, TypeOK, FlushFails
<1> QED
  BY <1>1, LosePending DEF FlushFails

(* A report to a row that is open, or to one that is not, or gone.                     *)
LEMMA FlushInv == IInv /\ Flush => IInv'
<1> SUFFICES ASSUME IInv, Flush PROVE IInv'
  OBVIOUS
<1> USE DEF IInv
<1> DEFINE i == writer.id  P == writer.pending
<1>1. i \in Segments /\ i # 0 /\ writer \in Writer /\ P \in SUBSET Records /\ P # {} /\ writer.at = "ready"
  BY HistoryConstants DEF TypeOK, Writer, Segments, Flush
<1>2. CASE ~Open(i)
  BY <1>1, <1>2, LosePending DEF Flush, storage
<1>3. CASE Open(i)
  <2> DEFINE c == row[i].count + Cardinality(P)  l == Max(P \cup {row[i].last})
  <2>1. Indexed(i) /\ row[i] \in Row /\ row[i].count \in Nat /\ row[i].last \in Records
    BY <1>1, <1>3, Kinds DEF Open
  <2>2. c \in Nat /\ (i \notin mistold => c <= writer.size) /\ (~writer.astray => Scanned(i))
    <3>1. Read(i) /\ Cardinality(P) \in Nat
      BY <1>1, RecordsCount DEF Held
    <3> QED
      BY <2>1, <3>1 DEF Read
  <2>3. l \in Records /\ \A n \in P \cup {row[i].last} : n <= l
    <3>1. P \cup {row[i].last} \in SUBSET Records
      BY <1>1, <2>1
    <3> QED
      BY <3>1, MaxIsLast
  <2>4. /\ row' = [row EXCEPT ![i] = [row[i] EXCEPT !.count = c, !.last = l]]
        /\ writer' = [writer EXCEPT !.pending = {}]
        /\ UNCHANGED <<file, created, next, removal, history>>
    BY <1>1, <1>3, <2>1 DEF Flush, history, TypeOK, Row
  <2>5. /\ row' \in [Segments -> Row \cup {NoRow}]
        /\ \A j \in Segments : (Indexed(j)' <=> Indexed(j)) /\ (Open(j)' <=> Open(j))
        /\ \A j \in Segments : j # i => row'[j] = row[j]
        /\ row'[i].count = c /\ row'[i].last = l
    <3> HIDE DEF c, l, i
    <3> QED
      BY <1>1, <2>1, <2>2, <2>3, <2>4, ToldRow
  <2>6. /\ writer' \in Writer /\ writer'.at = "ready" /\ writer'.id = i
        /\ writer'.size = writer.size /\ writer'.pending = {} /\ writer'.astray = writer.astray
    BY <1>1, <2>4 DEF Writer
  <2>7. TypeOK'
    BY <2>4, <2>5, <2>6 DEF TypeOK, Exists, history
  <2>8. Numbered' /\ LeftBehind'
    BY <2>4, <2>5, <2>6 DEF Numbered, LeftBehind, Exists, history
  <2>9. Held'
    <3>1. Cardinality(writer'.pending) = 0
      BY <2>6, FS_EmptySet
    <3>2. Scanned(i)' <=> Scanned(i)
      BY <2>4, <2>6 DEF Scanned, Exists
    <3>3. Read(i)'
      BY <2>1, <2>2, <2>4, <2>5, <2>6, <3>1, <3>2 DEF Read, history
    <3> QED
      BY <1>1, <2>4, <2>6, <3>3 DEF Held
  <2>10. RowsCatchUp'
    <3>1. ASSUME NEW j \in Segments, Answers(j)'
          PROVE  Answers(j) /\ (j # i => Told(j)' = Told(j))
      BY <2>4, <2>5, <2>6, <3>1 DEF Answers, Told, Exists, history
    <3>2. ASSUME Answers(i)
          PROVE  /\ row'[i].count = Cardinality(Told(i)')
                 /\ \A n \in Told(i)' : n <= row'[i].last
      <4>1. Exists(i) /\ Told(i)' = file[i].records /\ Told(i) = file[i].records \ P
        BY <2>4, <2>6, <3>2 DEF Told, Answers
      <4>2. row[i].count = Cardinality(Told(i)) /\ \A n \in Told(i) : n <= row[i].last
        BY <1>1, <3>2 DEF RowsCatchUp, Told, Answers
      <4>3. file[i].records \in SUBSET Records /\ P \in SUBSET file[i].records
        BY <1>1, <4>1, Kinds DEF Held
      <4>4. Cardinality(file[i].records) = Cardinality(Told(i)) + Cardinality(P)
        BY <4>1, <4>3, ToldAndPending
      <4>5. ASSUME NEW n \in file[i].records PROVE n <= l
        <5>1. n \in Int /\ l \in Int /\ row[i].last \in Int
          BY <2>1, <2>3, <4>3 DEF Records
        <5>2. CASE n \in P
          BY <2>3, <5>2
        <5>3. CASE n \in Told(i)
          BY <2>3, <4>2, <5>1, <5>3
        <5> QED
          BY <4>1, <5>2, <5>3
      <4> QED
        BY <2>5, <4>1, <4>2, <4>4, <4>5
    <3>3. ASSUME NEW j \in Segments, Answers(j)'
          PROVE  /\ row'[j].count = Cardinality(Told(j)')
                 /\ \A n \in Told(j)' : n <= row'[j].last
      <4>1. CASE j = i
        <5>1. Answers(i)
          BY <3>1, <3>3, <4>1
        <5>2. Told(j)' = Told(i)'
          BY <2>6, <4>1 DEF Told
        <5> QED
          BY <3>2, <4>1, <5>1, <5>2
      <4>2. CASE j # i
        <5>1. Answers(j) /\ Told(j)' = Told(j) /\ row'[j] = row[j]
          BY <2>5, <3>1, <3>3, <4>2
        <5> QED
          BY <5>1 DEF RowsCatchUp, Told, Answers
      <4> QED
        BY <4>1, <4>2
    <3> QED
      BY <3>3 DEF RowsCatchUp, Told, Answers
  <2>11. Unlinked' /\ NoFileLeaks' /\ SegmentsInOrder'
    BY <2>4, <2>5 DEF Unlinked, NoFileLeaks, SegmentsInOrder, Exists, history
  <2> QED
    BY <2>7, <2>8, <2>9, <2>10, <2>11
<1> QED
  BY <1>2, <1>3

(* A new segment's row; what is still open is behind it from now on.                 *)
LEMMA CreateRowInv == IInv /\ CreateRow => IInv'
<1> SUFFICES ASSUME IInv, CreateRow PROVE IInv'
  OBVIOUS
<1> USE DEF IInv
<1> DEFINE i == created + 1
<1>1. /\ i \in Segments /\ next \in Records /\ created' = i
      /\ writer = Empty /\ writer.pending = {} /\ writer.id = 0
      /\ unsealed' = unsealed \cup OpenSegments
      /\ UNCHANGED <<file, next, removal, lagging, raced, mistold>>
  <2>1. writer = Empty
    BY DEF CreateRow, Held
  <2> QED
    BY <2>1 DEF CreateRow, Empty, Parked
<1>2. ~Exists(i) /\ ~Indexed(i) /\ created \in Nat /\ created < i /\ created \in 0..MaxSegment
  BY <1>1, HistoryConstants DEF TypeOK, Numbered
<1>3. /\ writer' \in Writer /\ writer'.at = "creating" /\ writer'.id = i
      /\ writer'.size = 0 /\ writer'.pending = {}
  <2>1. writer' = [at |-> "creating", id |-> i, size |-> 0, counted |-> 0, pending |-> {},
                   astray |-> FALSE]
    BY DEF CreateRow, Parked
  <2>2. i \in 0..MaxSegment
    BY <1>1, <1>2, HistoryConstants DEF Segments
  <2> QED
    BY <2>1, <2>2 DEF Writer
<1>4. /\ row' \in [Segments -> Row \cup {NoRow}]
      /\ \A j \in Segments : j # i => row'[j] = row[j]
      /\ row'[i].count = 0
  <2> DEFINE new == [first |-> next, last |-> next, count |-> 0, sealed |-> FALSE]
  <2>1. new \in Row /\ row' = [row EXCEPT ![i] = new]
    BY <1>1, HistoryConstants DEF Row, CreateRow
  <2>2. new.count = 0
    OBVIOUS
  <2> HIDE DEF new, i
  <2> QED
    BY <1>1, <2>1, <2>2 DEF TypeOK
<1>5. TypeOK'
  <2>1. unsealed' \subseteq Segments /\ created' \in 0..MaxSegment
    <3>1. OpenSegments \subseteq Segments /\ unsealed \subseteq Segments
      BY DEF TypeOK, OpenSegments
    <3>2. created' \in 0..MaxSegment
      BY <1>1, <1>2, HistoryConstants DEF Segments
    <3> QED
      BY <1>1, <3>1, <3>2
  <2>2. \A j \in Segments : Exists(j)' => j <= created' /\ \A n \in file'[j].records : n < next'
    BY <1>1, <1>2, HistoryConstants DEF TypeOK, Exists, Segments
  <2> QED
    BY <1>1, <1>3, <1>4, <2>1, <2>2 DEF TypeOK
<1>6. Numbered'
  <2>1. \A x \in Removers : removal[x].left \cup removal[x].gone \in SUBSET Segments
    BY DEF TypeOK, Removal
  <2> QED
    BY <1>1, <1>2, <1>3, <1>4, <2>1, HistoryConstants DEF Numbered, Indexed, Segments
<1>7. LeftBehind'
  BY <1>1, <1>2, <1>3, <1>4, HistoryConstants DEF LeftBehind, Open, Indexed, Exists, OpenSegments, Segments
<1>8. Held'
  BY <1>1, <1>2, <1>3, <1>4, HistoryConstants DEF Held, Exists, TypeOK, Records, Segments
<1>9. RowsCatchUp'
  <2>1. ASSUME NEW j \in Segments, Answers(j)'
        PROVE  /\ j # i /\ Answers(j) /\ Told(j)' = Told(j)
               /\ row'[j].count = row[j].count /\ row'[j].last = row[j].last
    BY <1>1, <1>2, <1>3, <1>4, <2>1 DEF Told, Answers, Exists, Indexed
  <2> QED
    BY <2>1, TellingKept
<1>10. Unlinked' /\ NoFileLeaks' /\ SegmentsInOrder'
  BY <1>1, <1>2, <1>4 DEF Unlinked, NoFileLeaks, SegmentsInOrder, Exists, Indexed
<1> QED
  BY <1>5, <1>6, <1>7, <1>8, <1>9, <1>10

(* Its file, which is empty.                                                     *)
LEMMA CreateFileInv == IInv /\ CreateFile => IInv'
<1> SUFFICES ASSUME IInv, CreateFile PROVE IInv'
  OBVIOUS
<1> USE DEF IInv
<1> DEFINE i == writer.id
<1>1. /\ i \in Segments /\ i # 0 /\ writer.at = "creating" /\ writer.pending = {} /\ i = created
      /\ writer.size = 0 /\ ~Exists(i) /\ (Indexed(i) /\ i \notin mistold => row[i].count = 0)
      /\ UNCHANGED <<row, created, next, removal, lagging, unsealed, mistold>>
  BY HistoryConstants DEF TypeOK, Held, Writer, Segments, CreateFile
<1>2. /\ writer' \in Writer /\ writer'.at = "ready" /\ writer'.id = i
      /\ writer'.size = 0 /\ writer'.pending = {}
  BY <1>1 DEF CreateFile, TypeOK, Writer
<1>3. /\ file' \in [Segments -> File \cup {NoFile}]
      /\ file'[i].records = {} /\ file'[i].tail = "whole"
      /\ \A j \in Segments : j # i => file'[j] = file[j]
  <2>1. [records |-> {}, tail |-> "whole"] \in File
    BY DEF File
  <2> QED
    BY <1>1, <2>1 DEF CreateFile, TypeOK
<1>4. /\ raced \subseteq raced' /\ raced' \subseteq Segments
      /\ (~Indexed(i) \/ \E x \in Removers : i \in removal[x].gone) => i \in raced'
  BY <1>1 DEF CreateFile, TypeOK
<1>5. TypeOK'
  <2>1. \A j \in Segments : Exists(j)' => j <= created' /\ \A n \in file'[j].records : n < next'
    BY <1>1, <1>3, HistoryConstants DEF TypeOK, Exists, Segments
  <2> QED
    BY <1>1, <1>2, <1>3, <1>4, <2>1 DEF TypeOK
<1>6. Numbered' /\ LeftBehind'
  BY <1>1, <1>2, <1>3, HistoryConstants DEF Numbered, LeftBehind, Indexed, Open, Exists, TypeOK, Segments
<1>7. Held'
  <2>1. Cardinality({}) = 0
    BY FS_EmptySet
  <2>2. Scanned(i)'
    BY <1>2, <1>3, <2>1 DEF Scanned
  <2>3. Read(i)' /\ writer'.pending \subseteq file'[i].records
    BY <1>1, <1>2, <1>3, <2>1, <2>2 DEF Read, Indexed
  <2> QED
    BY <1>1, <1>2, <2>3 DEF Held
<1>8. RowsCatchUp'
  <2>1. ASSUME NEW j \in Segments, Answers(j)'
        PROVE  row'[j].count = Cardinality(Told(j)') /\ \A n \in Told(j)' : n <= row'[j].last
    <3>1. CASE j = i
      <4>1. Told(j)' = {} /\ Cardinality({}) = 0
        BY <1>2, <1>3, <3>1, FS_EmptySet DEF Told
      <4> QED
        BY <1>1, <2>1, <3>1, <4>1 DEF Answers, Indexed
    <3>2. CASE j # i
      <4>1. Answers(j) /\ Told(j)' = Told(j) /\ row'[j] = row[j]
        BY <1>1, <1>2, <1>3, <2>1, <3>2 DEF Answers, Told, Exists, Indexed
      <4> QED
        BY <4>1 DEF RowsCatchUp, Told, Answers
    <3> QED
      BY <3>1, <3>2
  <2> QED
    BY <2>1 DEF RowsCatchUp, Told, Answers
<1>9. Unlinked' /\ NoFileLeaks'
  BY <1>1, <1>3, <1>4 DEF Unlinked, NoFileLeaks, Exists, Indexed, TypeOK, Removal
<1>10. SegmentsInOrder'
  BY <1>1, <1>3 DEF SegmentsInOrder, Exists, Indexed
<1> QED
  BY <1>5, <1>6, <1>7, <1>8, <1>9, <1>10

(* A segment without its file: its row is taken back, or left.                       *)
LEMMA CreateFileFailsInv == IInv /\ CreateFileFails => IInv'
<1> SUFFICES ASSUME IInv, CreateFileFails PROVE IInv'
  OBVIOUS
<1> USE DEF IInv
<1> DEFINE i == writer.id
<1>1. /\ i \in Segments /\ writer.pending = {} /\ ~Exists(i) /\ writer' = Empty
      /\ UNCHANGED <<file, created, next, removal, history>>
  BY HistoryConstants DEF TypeOK, Held, Writer, Segments, CreateFileFails
<1>2. CASE row' = row
  BY <1>1, <1>2, LetGo DEF storage
<1>3. CASE row' = [row EXCEPT ![i] = NoRow]
  <2>1. writer' \in Writer /\ writer'.pending = {} /\ writer'.id = 0
    BY <1>1, WriterKinds
  <2>2. /\ row' \in [Segments -> Row \cup {NoRow}] /\ row'[i] = NoRow
        /\ \A j \in Segments : j # i => row'[j] = row[j]
    BY <1>1, <1>3 DEF TypeOK, Indexed
  <2>3. TypeOK'
    BY <1>1, <2>1, <2>2 DEF TypeOK, Exists, history
  <2>4. Numbered' /\ LeftBehind'
    <3>1. \A j \in Segments : (Indexed(j)' => Indexed(j)) /\ (Open(j)' => Open(j)) /\ j # 0
      BY <2>2, HistoryConstants DEF Indexed, Open, Segments
    <3>2. created \in Nat
      BY HistoryConstants DEF TypeOK
    <3> QED
      BY <1>1, <2>1, <3>1, <3>2 DEF Numbered, LeftBehind, Exists, history
  <2>5. Held'
    BY <1>1, <2>1, WriterKinds DEF TypeOK, Held
  <2>6. RowsCatchUp'
    BY <1>1, <2>1, <2>2, TellingKept DEF Told, Answers, Exists, Indexed, history
  <2>7. Unlinked' /\ NoFileLeaks' /\ SegmentsInOrder'
    BY <1>1, <2>2 DEF Unlinked, NoFileLeaks, SegmentsInOrder, Exists, Indexed, history
  <2> QED
    BY <2>3, <2>4, <2>5, <2>6, <2>7
<1> QED
  BY <1>2, <1>3 DEF CreateFileFails

(* A record goes behind all there are, into the newest segment that holds any, unless     *)
(* the segment was left open behind it.                                            *)
LEMMA OrderKept ==
  ASSUME IInv, NEW i \in Segments, writer.id = i, next \in Records,
         UNCHANGED <<row, unsealed>>,
         \A j \in Segments : Exists(j)' <=> Exists(j),
         \A j \in Segments : j # i => file'[j] = file[j],
         Exists(i) => file'[i].records \subseteq file[i].records \cup {next}
  PROVE  SegmentsInOrder'
<1> USE DEF IInv
<1>1. \A j \in Segments : Exists(j) => \A n \in file[j].records : n < next /\ n \in Int
  BY Kinds, HistoryConstants DEF TypeOK, Records
<1>2. ASSUME NEW j \in Segments, NEW k \in Segments,
             Indexed(j), Exists(j), Indexed(k), Exists(k), j < k, j \notin unsealed,
             NEW m \in file'[j].records, NEW n \in file'[k].records
      PROVE  m < n
  <2>1. j # i
    BY <1>2, HistoryConstants DEF Numbered, LeftBehind, TypeOK, Segments
  <2>2. m \in file[j].records /\ m < next
    BY <1>1, <1>2, <2>1
  <2>3. CASE n \in file[k].records
    BY <1>2, <2>2, <2>3 DEF SegmentsInOrder
  <2>4. CASE n \notin file[k].records
    BY <1>2, <2>2, <2>4
  <2> QED
    BY <2>3, <2>4
<1> QED
  BY <1>2 DEF SegmentsInOrder, Indexed

(* What is written to a file, whole or in part, is at its end, and spoils a torn one.     *)
LEMMA AppendedFile ==
  ASSUME TypeOK, NEW i \in Segments, Exists(i), NEW R \in SUBSET Records,
         NEW tail \in {"whole", "torn"}, file' = Appended(i, R, tail)
  PROVE  /\ file' \in [Segments -> File \cup {NoFile}]
         /\ \A j \in Segments : Exists(j)' <=> Exists(j)
         /\ \A j \in Segments : j # i => file'[j] = file[j]
         /\ file'[i].records = file[i].records \cup R
         /\ file[i].tail = "whole" => file'[i].tail = tail
         /\ file[i].tail # "whole" => file'[i].tail = "spoilt"
<1> DEFINE f == [records |-> file[i].records \cup R,
                 tail |-> IF file[i].tail = "whole" THEN tail ELSE "spoilt"]
<1>1. f \in File /\ f.records = file[i].records \cup R
      /\ f.tail = IF file[i].tail = "whole" THEN tail ELSE "spoilt"
  BY Kinds DEF File
<1>2. file' = [file EXCEPT ![i] = f]
  BY DEF Appended, TypeOK
<1> HIDE DEF f
<1> QED
  BY <1>1, <1>2, NotAFile DEF TypeOK, Exists

(* What is written is pending until the row is told.                                *)
LEMMA WriteInv == IInv /\ Write => IInv'
<1> SUFFICES ASSUME IInv, Write PROVE IInv'
  OBVIOUS
<1> USE DEF IInv
<1> DEFINE i == writer.id  P == writer.pending
<1>1. /\ i \in Segments /\ i # 0 /\ writer.at = "ready" /\ next \in Records /\ next' = next + 1
      /\ P \in SUBSET Records /\ writer.size \in Nat
      /\ UNCHANGED <<row, created, removal, history>>
  BY WriterKinds DEF Write
<1>2. /\ writer' \in Writer /\ writer'.at = "ready" /\ writer'.id = i
      /\ writer'.size = writer.size + 1 /\ writer'.pending = P \cup {next}
      /\ writer'.astray = writer.astray
  <2>1. writer' = [writer EXCEPT !.size = writer.size + 1, !.pending = P \cup {next}] /\ writer \in Writer
    BY WriterKinds DEF Write, Writer
  <2>2. writer.size + 1 \in Nat /\ P \cup {next} \in SUBSET Records
    BY <1>1
  <2> QED
    BY <1>1, <2>1, <2>2 DEF Writer
<1>3. /\ file' \in [Segments -> File \cup {NoFile}]
      /\ \A j \in Segments : Exists(j)' <=> Exists(j)
      /\ \A j \in Segments : j # i => file'[j] = file[j]
      /\ Exists(i) => /\ file'[i].records = file[i].records \cup {next}
                      /\ file[i].tail = "whole" => file'[i].tail = "whole"
                      /\ file[i].tail # "whole" => file'[i].tail = "spoilt"
  <2>1. CASE Exists(i)
    BY <1>1, <2>1, AppendedFile DEF Write
  <2>2. CASE ~Exists(i)
    BY <2>2 DEF Write, TypeOK, Exists
  <2> QED
    BY <2>1, <2>2
<1>4. \A j \in Segments : Exists(j) => \A n \in file[j].records : n < next /\ n \in Int
  BY Kinds, HistoryConstants DEF TypeOK, Records
<1>5. TypeOK'
  <2>1. \A j \in Segments : Exists(j)' => j <= created' /\ \A n \in file'[j].records : n < next'
    BY <1>1, <1>3, <1>4, HistoryConstants DEF TypeOK, Records, Exists, history
  <2>2. next' \in 1..(MaxRecord + 1)
    BY <1>1, HistoryConstants DEF Records
  <2> QED
    BY <1>1, <1>2, <1>3, <2>1, <2>2 DEF TypeOK, history
<1>6. Numbered' /\ LeftBehind'
  BY <1>1, <1>2, <1>3 DEF Numbered, LeftBehind, Indexed, Open, history
<1>7. Held'
  <2>1. Cardinality(P \cup {next}) = Cardinality(P) + 1 /\ Cardinality(P) \in Nat
    <3>1. next \notin P
      BY <1>1, HistoryConstants DEF Held, Records
    <3> QED
      BY <1>1, <3>1, OneMore, RecordsCount
  <2>2. Exists(i) => Cardinality(file[i].records \cup {next}) = Cardinality(file[i].records) + 1
    BY <1>1, <1>4, Kinds, OneMore, HistoryConstants DEF Records
  <2>3. Read(i) /\ (Exists(i) => P \subseteq file[i].records)
    BY <1>1 DEF Held
  <2>4. Indexed(i) => row[i].count \in Nat
    BY <1>1, Kinds
  <2>5. Scanned(i) => Scanned(i)'
    <3>1. SUFFICES ASSUME Scanned(i), Exists(i), file'[i].tail # "spoilt"
                   PROVE  file'[i].tail = "whole" /\ writer'.size = Cardinality(file'[i].records)
      BY <1>1, <1>2, <1>3 DEF Scanned
    <3>2. file[i].tail = "whole" /\ writer.size = Cardinality(file[i].records)
      BY <1>1, <1>3, <3>1, Kinds DEF Scanned
    <3> QED
      BY <1>1, <1>2, <1>3, <2>2, <3>1, <3>2
  <2>6. Read(i)'
    <3>1. Indexed(i) /\ i \notin mistold => row[i].count + Cardinality(P \cup {next}) <= writer.size + 1
      BY <1>1, <2>1, <2>3, <2>4 DEF Read
    <3>2. row' = row /\ mistold' = mistold
      BY <1>1 DEF history
    <3> QED
      BY <1>2, <2>3, <2>5, <3>1, <3>2 DEF Read, Indexed
  <2>7. Exists(i)' => writer'.pending \subseteq file'[i].records
    BY <1>1, <1>2, <1>3, <2>3
  <2>8. \A n \in writer'.pending : n < next'
    BY <1>1, <1>2, HistoryConstants DEF Held, Records
  <2> QED
    BY <1>1, <1>2, <2>6, <2>7, <2>8 DEF Held
<1>8. RowsCatchUp'
  <2>1. ASSUME NEW j \in Segments, Answers(j)'
        PROVE  /\ Answers(j) /\ Told(j)' = Told(j)
               /\ row'[j].count = row[j].count /\ row'[j].last = row[j].last
    <3>1. Answers(j) /\ row' = row
      <4>1. CASE j = i
        BY <1>1, <1>3, <2>1, <4>1, Kinds DEF Answers, Indexed, history
      <4>2. CASE j # i
        BY <1>1, <1>3, <2>1, <4>2 DEF Answers, Indexed, history
      <4> QED
        BY <4>1, <4>2
    <3>2. Told(j)' = Told(j)
      BY <1>1, <1>2, <1>3, <1>4, <3>1, HistoryConstants DEF Told, Answers, Records
    <3> QED
      BY <3>1, <3>2
  <2> QED
    BY <2>1, TellingKept
<1>9. SegmentsInOrder'
  BY <1>1, <1>3, OrderKept DEF history
<1>10. Unlinked' /\ NoFileLeaks'
  BY <1>1, <1>3 DEF Unlinked, NoFileLeaks, Indexed, history, TypeOK, Removal
<1> QED
  BY <1>5, <1>6, <1>7, <1>8, <1>9, <1>10

(* What a write that failed left in the file is behind all the writer knows of.          *)
LEMMA WriteFailsInv == IInv /\ WriteFails => IInv'
<1> SUFFICES ASSUME IInv, WriteFails PROVE IInv'
  OBVIOUS
<1> USE DEF IInv
<1> DEFINE i == writer.id
<1>1. /\ i \in Segments /\ i # 0 /\ writer.at = "ready" /\ next \in Records /\ Exists(i)
      /\ writer.pending \in SUBSET Records /\ writer.size \in Nat
      /\ UNCHANGED <<row, created, removal, unsealed, raced, mistold>>
  BY WriterKinds DEF WriteFails
<1>2. /\ writer' \in Writer /\ writer'.at = "ready" /\ writer'.id = i /\ writer'.astray
      /\ writer'.size = writer.size /\ writer'.pending = writer.pending
  BY <1>1, WriterKinds DEF WriteFails, Writer
<1>3. PICK R \in SUBSET Records : \E tail \in {"whole", "torn"} :
         /\ file' = Appended(i, R, tail) /\ R \subseteq {next}
         /\ next' = (IF R = {} THEN next ELSE next + 1)
         /\ IF R = {} THEN lagging' = lagging ELSE Missed({i})
  <2>1. CASE file' = Appended(i, {}, "torn") /\ UNCHANGED <<next, lagging>>
    BY <2>1
  <2>2. CASE file' = Appended(i, {next}, "whole") /\ next' = next + 1 /\ Missed({i})
    BY <1>1, <2>2
  <2> QED
    BY <2>1, <2>2 DEF WriteFails
<1>4. /\ file' \in [Segments -> File \cup {NoFile}]
      /\ \A j \in Segments : Exists(j)' <=> Exists(j)
      /\ \A j \in Segments : j # i => file'[j] = file[j]
      /\ file'[i].records = file[i].records \cup R
      /\ file[i].tail # "whole" => file'[i].tail = "spoilt"
  BY <1>1, <1>3, AppendedFile
<1>5. \A j \in Segments : Exists(j) => \A n \in file[j].records : n < next /\ n \in Int
  BY Kinds, HistoryConstants DEF TypeOK, Records
<1>6. /\ lagging \subseteq lagging' /\ lagging' \subseteq lagging \cup {i}
      /\ R # {} /\ Indexed(i) => i \in lagging'
  BY <1>1, <1>3 DEF Missed
<1>7. next' \in 1..(MaxRecord + 1) /\ next <= next' /\ \A n \in R : n < next'
  BY <1>1, <1>3, HistoryConstants DEF Records, TypeOK
<1>8. TypeOK'
  <2>1. \A j \in Segments : Exists(j)' => j <= created' /\ \A n \in file'[j].records : n < next'
    <3>1. \A j \in Segments : Exists(j)' => j <= created'
      BY <1>1, <1>4 DEF TypeOK
    <3>2. next \in Int /\ next' \in Int
      BY <1>1, <1>7, HistoryConstants DEF Records
    <3> QED
      BY <1>1, <1>4, <1>5, <1>7, <3>1, <3>2
  <2> QED
    BY <1>1, <1>2, <1>4, <1>6, <1>7, <2>1 DEF TypeOK
<1>9. Numbered' /\ LeftBehind'
  BY <1>1, <1>2, <1>4 DEF Numbered, LeftBehind, Indexed, Open
<1>10. Held'
  <2>1. Read(i) /\ writer.pending \subseteq file[i].records
    BY <1>1 DEF Held
  <2>2. Read(i)'
    BY <1>1, <1>2, <2>1 DEF Read, Indexed
  <2>3. \A n \in writer'.pending : n < next'
    <3>1. \A n \in writer.pending : n < next /\ n \in Int
      BY <1>1, HistoryConstants DEF Held, Records
    <3>2. next \in Int /\ next' \in Int
      BY <1>1, <1>7, HistoryConstants DEF Records
    <3> QED
      BY <1>2, <1>7, <3>1, <3>2
  <2> QED
    BY <1>1, <1>2, <1>4, <2>1, <2>2, <2>3 DEF Held
<1>11. RowsCatchUp'
  <2>1. ASSUME NEW j \in Segments, Answers(j)'
        PROVE  /\ Answers(j) /\ Told(j)' = Told(j)
               /\ row'[j].count = row[j].count /\ row'[j].last = row[j].last
    <3>1. CASE j = i
      <4>1. R = {} /\ Answers(i)
        BY <1>1, <1>4, <1>6, <2>1, <3>1 DEF Answers, Indexed
      <4> QED
        BY <1>1, <1>2, <1>4, <3>1, <4>1 DEF Told
    <3>2. CASE j # i
      BY <1>1, <1>2, <1>4, <1>6, <2>1, <3>2 DEF Answers, Told, Indexed
    <3> QED
      BY <3>1, <3>2
  <2> QED
    BY <2>1, TellingKept
<1>12. SegmentsInOrder'
  BY <1>1, <1>3, <1>4, OrderKept
<1>13. Unlinked' /\ NoFileLeaks'
  BY <1>1, <1>4 DEF Unlinked, NoFileLeaks, Indexed, TypeOK, Removal
<1> QED
  BY <1>8, <1>9, <1>10, <1>11, <1>12, <1>13

-----------------------------------------------------------------------------
(* Steps of removals, and stops.                                              *)

(* A removal that has looked, or given up, has changed nothing.                     *)
LEMMA RemovalOnly ==
  ASSUME IInv, UNCHANGED <<storage, writer, next, history>>, removal' \in [Removers -> Removal],
         \A x \in Removers : removal'[x].gone \subseteq removal[x].gone,
         \A x \in Removers : \A i \in removal'[x].left : i <= created
  PROVE  IInv'
<1> USE DEF IInv, Exists, Indexed, storage, history
<1>1. TypeOK'
  BY DEF TypeOK
<1>2. Numbered' /\ LeftBehind'
  BY DEF Numbered, LeftBehind, Open
<1>3. Held'
  BY DEF Held, Read, Scanned
<1>4. RowsCatchUp'
  BY DEF RowsCatchUp
<1>5. Unlinked' /\ NoFileLeaks' /\ SegmentsInOrder'
  BY DEF Unlinked, NoFileLeaks, SegmentsInOrder
<1> QED
  BY <1>1, <1>2, <1>3, <1>4, <1>5

(* What a removal sets out to remove is on record.                                 *)
LEMMA FindInv ==
  ASSUME IInv, NEW x \in Removers, FindAll(x) \/ \E t \in Records : FindSurplus(x, t)
  PROVE  IInv'
<1>1. PICK S \in SUBSET {i \in Segments : Indexed(i)} : removal' = [removal EXCEPT ![x].left = S]
  BY DEF FindAll, FindSurplus
<1>2. UNCHANGED <<storage, writer, next, history>>
  BY DEF FindAll, FindSurplus
<1>3. /\ removal' \in [Removers -> Removal] /\ removal'[x].left = S
      /\ \A y \in Removers : removal'[y].gone = removal[y].gone
      /\ \A y \in Removers : y # x => removal'[y] = removal[y]
  BY <1>1 DEF IInv, TypeOK, Removal
<1> QED
  BY <1>1, <1>2, <1>3, RemovalOnly DEF IInv, Numbered

(* What a removal lets go of is no more than it had.                                *)
LEMMA GiveUpInv ==
  ASSUME IInv, NEW x \in Removers, UnlinkFails(x) \/ RemovalFails(x)
  PROVE  IInv'
<1>1. CASE UnlinkFails(x)
  <2>1. /\ removal' \in [Removers -> Removal]
        /\ \A y \in Removers : removal'[y].gone = removal[y].gone
        /\ \A y \in Removers : removal'[y].left \subseteq removal[y].left
    BY <1>1 DEF IInv, TypeOK, Removal, UnlinkFails
  <2> QED
    BY <1>1, <2>1, RemovalOnly DEF IInv, Numbered, UnlinkFails
<1>2. CASE RemovalFails(x)
  <2>1. /\ removal' \in [Removers -> Removal]
        /\ \A y \in Removers : removal'[y].gone \subseteq removal[y].gone
        /\ \A y \in Removers : removal'[y].left \subseteq removal[y].left
    BY <1>2 DEF IInv, TypeOK, Removal, RemovalFails, NotRemoving
  <2> QED
    BY <1>2, <2>1, RemovalOnly DEF IInv, Numbered, RemovalFails
<1> QED
  BY <1>1, <1>2

(* A file goes, and its row is to follow.                                           *)
LEMMA UnlinkInv ==
  ASSUME IInv, NEW x \in Removers, Unlink(x)
  PROVE  IInv'
<1> USE DEF IInv
<1> DEFINE i == Min(removal[x].left)
<1>1. i \in removal[x].left /\ i \in Segments
  BY MinIsOne DEF Unlink, TypeOK, Removal
<1> HIDE DEF i
<1>2. /\ file' = [file EXCEPT ![i] = NoFile]
      /\ removal' = [removal EXCEPT ![x].left = @ \ {i}, ![x].gone = @ \cup {i}]
      /\ lagging' = lagging \ {i} /\ unsealed' = unsealed \ {i} /\ raced' = raced \ {i}
      /\ UNCHANGED <<row, created, writer, next, mistold>>
  BY DEF Unlink, i
<1>3. /\ file' \in [Segments -> File \cup {NoFile}]
      /\ \A j \in Segments : Exists(j)' => j # i /\ Exists(j) /\ file'[j] = file[j]
  BY <1>1, <1>2 DEF TypeOK, Exists
<1>4. /\ removal' \in [Removers -> Removal]
      /\ \A y \in Removers : removal'[y].left \subseteq removal[y].left
      /\ \A y \in Removers : removal'[y].gone \subseteq removal[y].gone \cup {i}
  BY <1>1, <1>2 DEF TypeOK, Removal
<1>5. TypeOK'
  BY <1>2, <1>3, <1>4 DEF TypeOK
<1>6. Numbered' /\ LeftBehind'
  BY <1>1, <1>2, <1>3, <1>4 DEF Numbered, LeftBehind, Indexed, Open
<1>7. Held'
  <2>1. writer.id = 0 \/ writer.id \in Segments
    BY WriterKinds
  <2>2. writer.id # 0 /\ Scanned(writer.id) => Scanned(writer.id)'
    BY <1>2, <1>3, <2>1 DEF Scanned
  <2>3. writer.id # 0 /\ Read(writer.id) => Read(writer.id)'
    BY <1>2, <2>2 DEF Read, Indexed
  <2> QED
    BY <1>2, <1>3, <2>1, <2>2, <2>3 DEF Held, Indexed
<1>8. RowsCatchUp'
  BY <1>2, <1>3, TellingKept DEF Told, Answers, Indexed
<1>9. Unlinked' /\ NoFileLeaks' /\ SegmentsInOrder'
  <2>1. \A y \in Removers : removal[y].gone \subseteq Segments
    BY DEF TypeOK, Removal
  <2> QED
    BY <1>2, <1>3, <1>4, <2>1 DEF Unlinked, NoFileLeaks, SegmentsInOrder, Indexed
<1> QED
  BY <1>5, <1>6, <1>7, <1>8, <1>9

(* The rows of files that have gone go.                                             *)
LEMMA DeleteRowsInv ==
  ASSUME IInv, NEW x \in Removers, DeleteRows(x)
  PROVE  IInv'
<1> USE DEF IInv
<1> DEFINE gone == removal[x].gone
<1>1. /\ gone \subseteq Segments
      /\ row' = [i \in Segments |-> IF i \in gone THEN NoRow ELSE row[i]]
      /\ removal' = [removal EXCEPT ![x].gone = {}]
      /\ lagging' = lagging \ gone /\ unsealed' = unsealed \ gone /\ mistold' = mistold \ gone
      /\ UNCHANGED <<file, created, writer, next, raced>>
  BY DEF DeleteRows, TypeOK, Removal
<1>2. /\ row' \in [Segments -> Row \cup {NoRow}]
      /\ \A j \in Segments : Indexed(j)' => j \notin gone /\ Indexed(j) /\ row'[j] = row[j]
      /\ \A j \in Segments : Indexed(j) => Indexed(j)' \/ j \in gone
      /\ \A j \in Segments : Open(j)' => Open(j) /\ j \notin gone
  BY <1>1 DEF TypeOK, Indexed, Open
<1>3. /\ removal' \in [Removers -> Removal]
      /\ \A y \in Removers : removal'[y].left = removal[y].left /\ removal'[y].gone \subseteq removal[y].gone
  BY <1>1 DEF TypeOK, Removal
<1> HIDE DEF gone
<1>4. TypeOK'
  BY <1>1, <1>2, <1>3 DEF TypeOK, Exists
<1>5. Numbered' /\ LeftBehind'
  BY <1>1, <1>2, <1>3 DEF Numbered, LeftBehind, Exists
<1>6. Held'
  <2>1. writer.id = 0 \/ writer.id \in Segments
    BY WriterKinds
  <2>2. Scanned(writer.id)' <=> Scanned(writer.id)
    BY <1>1 DEF Scanned, Exists
  <2>3. writer.id # 0 /\ Indexed(writer.id)' =>
            /\ Indexed(writer.id) /\ row'[writer.id] = row[writer.id]
            /\ writer.id \notin mistold' => writer.id \notin mistold
    BY <1>1, <1>2, <2>1
  <2>4. writer.id # 0 /\ Read(writer.id) => Read(writer.id)'
    BY <1>1, <2>2, <2>3 DEF Read
  <2> QED
    BY <1>1, <2>1, <2>2, <2>3, <2>4 DEF Held, Exists
<1>7. RowsCatchUp'
  BY <1>1, <1>2, TellingKept DEF Told, Answers, Exists
<1>8. Unlinked'
  BY <1>1, <1>3 DEF Unlinked, Exists
<1>9. NoFileLeaks'
  BY <1>1, <1>2 DEF NoFileLeaks, Unlinked, Exists, gone
<1>10. SegmentsInOrder'
  BY <1>1, <1>2 DEF SegmentsInOrder, Exists
<1> QED
  BY <1>4, <1>5, <1>6, <1>7, <1>8, <1>9, <1>10

(* A stop forgets what was under way, and what was cut off is missed.                   *)
LEMMA StopInv ==
  ASSUME IInv, NEW cut \in SUBSET Segments, Stop(cut),
         file' \in [Segments -> File \cup {NoFile}],
         \A j \in Segments :
             /\ Exists(j)' <=> Exists(j)
             /\ Exists(j) => file'[j].records \subseteq file[j].records
             /\ Exists(j) /\ j \notin cut =>
                   /\ file'[j].records = file[j].records
                   /\ file'[j].tail # "spoilt" => file[j].tail # "spoilt"
  PROVE  IInv'
<1> USE DEF IInv
<1>1. /\ writer' = Parked /\ Parked \in Writer
      /\ writer'.at = "parked" /\ writer'.id = 0 /\ writer'.pending = {}
  BY WriterKinds DEF Stop
<1>2. /\ removal' \in [Removers -> Removal]
      /\ \A x \in Removers : removal'[x].left = {} /\ removal'[x].gone = {}
  BY DEF Stop, NotRemoving, Removal
<1>3. /\ lagging' = lagging \cup
             {j \in cut \cup (IF writer.pending = {} THEN {} ELSE {writer.id}) :
                    Indexed(j) /\ Exists(j)}
      /\ UNCHANGED <<row, created, next, unsealed, raced, mistold>>
  BY DEF Stop, Missed
<1>4. writer.pending # {} => writer.id \in Segments
  BY WriterKinds DEF TypeOK
<1>5. TypeOK'
  <2>1. lagging' \subseteq Segments
    BY <1>3, <1>4 DEF TypeOK
  <2>2. \A j \in Segments : Exists(j)' => j <= created' /\ \A n \in file'[j].records : n < next'
    BY <1>3 DEF TypeOK
  <2> QED
    BY <1>1, <1>2, <1>3, <2>1, <2>2 DEF TypeOK
<1>6. Numbered' /\ LeftBehind'
  BY <1>1, <1>2, <1>3, HistoryConstants DEF TypeOK, Numbered, LeftBehind, Indexed, Open, Segments
<1>7. Held'
  BY <1>1, <1>3, HistoryConstants DEF TypeOK, Held
<1>8. RowsCatchUp'
  <2>1. ASSUME NEW j \in Segments, Answers(j)'
        PROVE  /\ Answers(j) /\ Told(j)' = Told(j)
               /\ row'[j].count = row[j].count /\ row'[j].last = row[j].last
    <3>1. /\ Indexed(j) /\ Exists(j) /\ j \notin lagging \cup mistold /\ row' = row
          /\ j \notin cut /\ (writer.id = j => writer.pending = {})
      BY <1>3, <2>1 DEF Answers, Indexed
    <3> QED
      BY <1>1, <2>1, <3>1 DEF Told, Answers
  <2> QED
    BY <2>1, TellingKept
<1>9. Unlinked' /\ NoFileLeaks'
  BY <1>2, <1>3 DEF Unlinked, NoFileLeaks, Indexed
<1>10. SegmentsInOrder'
  BY <1>3 DEF SegmentsInOrder, Indexed
<1> QED
  BY <1>5, <1>6, <1>7, <1>8, <1>9, <1>10

(* The process stops, perhaps within a record.                                      *)
LEMMA CrashInv == IInv /\ Crash => IInv'
<1> SUFFICES ASSUME IInv, Crash PROVE IInv'
  OBVIOUS
<1>1. Stop({})
  BY DEF Crash
<1>2. CASE UNCHANGED file
  BY <1>1, <1>2, StopInv DEF IInv, TypeOK, Exists
<1>3. CASE Exists(writer.id) /\ writer.id # 0 /\ file' = Appended(writer.id, {}, "torn")
  <2> DEFINE i == writer.id
  <2>1. i \in Segments
    BY <1>3, WriterKinds DEF IInv
  <2>2. /\ file' \in [Segments -> File \cup {NoFile}]
        /\ \A j \in Segments : Exists(j)' <=> Exists(j)
        /\ \A j \in Segments : j # i => file'[j] = file[j]
        /\ file'[i].records = file[i].records
        /\ file'[i].tail # "spoilt" => file[i].tail # "spoilt"
    <3> HIDE DEF i
    <3>1. file' = Appended(i, {}, "torn") /\ Exists(i)
      BY <1>3 DEF i
    <3>2. /\ file' \in [Segments -> File \cup {NoFile}]
          /\ \A j \in Segments : Exists(j)' <=> Exists(j)
          /\ \A j \in Segments : j # i => file'[j] = file[j]
          /\ file'[i].records = file[i].records \cup {}
          /\ file[i].tail # "whole" => file'[i].tail = "spoilt"
      BY <2>1, <3>1, AppendedFile DEF IInv
    <3> QED
      BY <3>2
  <2> QED
    BY <1>1, <2>2, StopInv
<1> QED
  BY <1>2, <1>3 DEF Crash

(* The machine stops, and a segment loses what was not on disk.                       *)
LEMMA PowerLossInv ==
  ASSUME IInv, NEW i \in Segments, NEW n \in 0..MaxRecord, PowerLoss(i, n)
  PROVE  IInv'
<1>1. Stop({i}) /\ Exists(i) /\ file[i] \in File
  BY Kinds DEF PowerLoss, IInv
<1>2. PICK tail \in {"whole", "torn", "spoilt"} :
         file' = [file EXCEPT ![i] = [records |-> {r \in file[i].records : r <= n}, tail |-> tail]]
  BY <1>1 DEF PowerLoss, IInv, TypeOK, File
<1>3. [records |-> {r \in file[i].records : r <= n}, tail |-> tail] \in File
  BY <1>1 DEF File
<1>4. /\ file' \in [Segments -> File \cup {NoFile}]
      /\ \A j \in Segments :
             /\ Exists(j)' <=> Exists(j)
             /\ Exists(j) => file'[j].records \subseteq file[j].records
             /\ Exists(j) /\ j \notin {i} => file'[j] = file[j]
  BY <1>1, <1>2, <1>3, NotAFile DEF IInv, TypeOK, Exists
<1> QED
  BY <1>1, <1>4, StopInv

-----------------------------------------------------------------------------
(* A row that is taken for another.                                              *)

(* A row that is told of another's records is said to be; one that is removed leaves its *)
(* file to be found by nobody.                                                      *)
LEMMA MistakeInv ==
  ASSUME IInv, NEW i \in Segments, Mistake(i)
  PROVE  IInv'
<1> USE DEF IInv
<1>1. UNCHANGED <<file, created, writer, next, removal>>
  BY DEF Mistake
<1>2. writer.id = 0 \/ writer.id \in Segments
  BY WriterKinds
<1>3. ASSUME Open(i), NEW t \in Records,
             row' = [row EXCEPT ![i].count = @ + 1, ![i].last = Max({t, @})],
             mistold' = mistold \cup {i}, UNCHANGED <<lagging, unsealed, raced>>
      PROVE  IInv'
  <2> DEFINE c == row[i].count + 1  l == Max({t, row[i].last})
  <2>1. Indexed(i) /\ row[i] \in Row /\ c \in Nat /\ row[i].last \in Records
    BY <1>3, Kinds DEF Open
  <2>2. l \in Records
    BY <2>1, MaxIsLast
  <2>3. row' = [row EXCEPT ![i] = [row[i] EXCEPT !.count = c, !.last = l]]
    BY <1>3, <2>1 DEF TypeOK, Row
  <2>4. /\ row' \in [Segments -> Row \cup {NoRow}]
        /\ \A j \in Segments : (Indexed(j)' <=> Indexed(j)) /\ (Open(j)' <=> Open(j))
        /\ \A j \in Segments : j # i => row'[j] = row[j]
    <3> HIDE DEF c, l
    <3> QED
      BY <2>1, <2>2, <2>3, ToldRow
  <2>5. TypeOK'
    BY <1>1, <1>3, <2>4 DEF TypeOK, Exists
  <2>6. Numbered' /\ LeftBehind'
    BY <1>1, <1>3, <2>4 DEF Numbered, LeftBehind, Exists
  <2>7. Held'
    <3>1. Scanned(writer.id)' <=> Scanned(writer.id)
      BY <1>1 DEF Scanned, Exists
    <3>2. writer.id # 0 /\ Indexed(writer.id)' /\ writer.id \notin mistold' =>
              Indexed(writer.id) /\ writer.id \notin mistold /\ row'[writer.id] = row[writer.id]
      BY <1>1, <1>2, <1>3, <2>4 DEF Indexed
    <3>3. writer.id # 0 /\ Read(writer.id) => Read(writer.id)'
      BY <1>1, <3>1, <3>2 DEF Read
    <3> QED
      BY <1>1, <3>1, <3>2, <3>3 DEF Held, Exists
  <2>8. RowsCatchUp'
    BY <1>1, <1>3, <2>4, TellingKept DEF Told, Answers, Exists
  <2>9. Unlinked' /\ NoFileLeaks' /\ SegmentsInOrder'
    BY <1>1, <1>3, <2>4 DEF Unlinked, NoFileLeaks, SegmentsInOrder, Exists
  <2> QED
    BY <2>5, <2>6, <2>7, <2>8, <2>9
<1>4. CASE row' = Sealed(i) /\ UNCHANGED history
  BY <1>1, <1>4, SealedRow, SealingInv
<1>5. ASSUME Indexed(i), row' = [row EXCEPT ![i] = NoRow],
             raced' = raced \cup {j \in {i} : Exists(j)},
             lagging' = lagging \ {i}, unsealed' = unsealed \ {i}, mistold' = mistold \ {i}
      PROVE  IInv'
  <2>1. /\ row' \in [Segments -> Row \cup {NoRow}]
        /\ \A j \in Segments : Indexed(j)' => j # i /\ Indexed(j) /\ row'[j] = row[j]
        /\ \A j \in Segments : Indexed(j) => Indexed(j)' \/ j = i
        /\ \A j \in Segments : Open(j)' => Open(j) /\ j # i
    BY <1>5 DEF TypeOK, Indexed, Open
  <2>2. TypeOK'
    BY <1>1, <1>5, <2>1 DEF TypeOK, Exists
  <2>3. Numbered' /\ LeftBehind'
    BY <1>1, <1>5, <2>1 DEF Numbered, LeftBehind, Exists
  <2>4. Held'
    <3>1. Scanned(writer.id)' <=> Scanned(writer.id)
      BY <1>1 DEF Scanned, Exists
    <3>2. writer.id # 0 /\ Indexed(writer.id)' =>
              /\ Indexed(writer.id) /\ row'[writer.id] = row[writer.id]
              /\ writer.id \notin mistold' => writer.id \notin mistold
      BY <1>1, <1>2, <1>5, <2>1 DEF Indexed
    <3>3. writer.id # 0 /\ Read(writer.id) => Read(writer.id)'
      BY <1>1, <3>1, <3>2 DEF Read
    <3> QED
      BY <1>1, <3>1, <3>2, <3>3 DEF Held, Exists
  <2>5. RowsCatchUp'
    BY <1>1, <1>5, <2>1, TellingKept DEF Told, Answers, Exists
  <2>6. Unlinked' /\ NoFileLeaks'
    BY <1>1, <1>5, <2>1 DEF Unlinked, NoFileLeaks, Exists
  <2>7. SegmentsInOrder'
    BY <1>1, <1>5, <2>1 DEF SegmentsInOrder, Exists
  <2> QED
    BY <2>2, <2>3, <2>4, <2>5, <2>6, <2>7
<1> QED
  BY <1>3, <1>4, <1>5 DEF Mistake

-----------------------------------------------------------------------------
(* The invariant holds of every reachable state.                                 *)

(* An empty log.                                                                *)
LEMMA InitInv == Init => IInv
<1> SUFFICES ASSUME Init PROVE IInv
  OBVIOUS
<1>1. /\ writer \in Writer /\ writer.at = "parked" /\ writer.id = 0 /\ writer.pending = {}
      /\ removal \in [Removers -> Removal] /\ \A x \in Removers : removal[x].left = {} /\ removal[x].gone = {}
  BY HistoryConstants DEF Init, Writer, Parked, Removal, NotRemoving
<1>2. \A i \in Segments : ~Exists(i) /\ ~Indexed(i)
  BY DEF Init, Exists, Indexed
<1>3. TypeOK
  BY <1>1, <1>2, HistoryConstants DEF Init, TypeOK
<1>4. Numbered /\ LeftBehind /\ RowsCatchUp /\ NoFileLeaks /\ SegmentsInOrder /\ Unlinked
  BY <1>1, <1>2 DEF Init, Numbered, LeftBehind, RowsCatchUp, NoFileLeaks, SegmentsInOrder, Unlinked, Open
<1>5. Held
  BY <1>1 DEF Init, Held
<1> QED
  BY <1>3, <1>4, <1>5 DEF IInv

(* And every step after it.                                                      *)
LEMMA NextInv == IInv /\ [Next]_vars => IInv'
<1> SUFFICES ASSUME IInv, [Next]_vars PROVE IInv'
  OBVIOUS
<1>1. CASE WriterStep
  BY <1>1, OpenLogInv, ScanInv, TrustInv, CountInv, CloseFoundInv, AdoptInv, OpenFailsInv, FlushInv,
     FlushFailsInv, SealInv, CreateRowInv, CreateFileInv, CreateFileFailsInv, WriteInv, WriteFailsInv
  DEF WriterStep
<1>2. CASE Crash
  BY <1>2, CrashInv
<1>3. ASSUME NEW x \in Removers, RemovalStep(x) PROVE IInv'
  BY <1>3, FindInv, UnlinkInv, GiveUpInv, DeleteRowsInv DEF RemovalStep
<1>4. ASSUME NEW t \in Records, CloseIdle(t) PROVE IInv'
  BY <1>4, CloseIdleInv
<1>5. ASSUME NEW i \in Segments, NEW n \in 0..MaxRecord, PowerLoss(i, n) PROVE IInv'
  BY <1>5, PowerLossInv
<1>6. ASSUME NEW i \in Reissued, Mistake(i) PROVE IInv'
  BY <1>6, MistakeInv, SegmentsReissued
<1>7. CASE UNCHANGED vars
  <2> USE <1>7 DEF vars, storage, history, IInv, Exists, Indexed, Open
  <2>1. TypeOK' /\ Numbered' /\ Unlinked' /\ LeftBehind'
    BY DEF TypeOK, Numbered, Unlinked, LeftBehind
  <2>2. Held'
    BY DEF Held, Read, Scanned
  <2>3. RowsCatchUp' /\ NoFileLeaks' /\ SegmentsInOrder'
    BY DEF RowsCatchUp, NoFileLeaks, SegmentsInOrder
  <2> QED
    BY <2>1, <2>2, <2>3
<1> QED
  BY <1>1, <1>2, <1>3, <1>4, <1>5, <1>6, <1>7 DEF Next

(* So it always holds.                                                           *)
LEMMA Invariant == Spec => []IInv
  BY InitInv, NextInv, PTL DEF Spec

(* The files, the index, the writer and the removals are well typed, for any number of   *)
(* records and segments (append_log.rs, segment.rs, stream_segments.rs).                *)
THEOREM Typed == Spec => []TypeOK
<1>1. IInv => TypeOK
  BY DEF IInv
<1> QED
  BY Invariant, <1>1, PTL

(* The writer's account of the segment it appends to is true of the file, and nothing is  *)
(* appended behind part of a record (append_log.rs recover), whatever was removed, closed,   *)
(* cut short or left half done before; but after a write to it failed, until the log is       *)
(* opened anew, where a wrong row's length was by chance the file's, and in a file that was      *)
(* found spoilt (segment.rs write). In these too all   *)
(* that is pending is in the file, and the row counts no record the writer does not, unless      *)
(* it was told of another's.                                                               *)
THEOREM WriterKnows == Spec => []WriterKnowsItsSegment
<1>1. IInv => WriterKnowsItsSegment
  BY WriterKinds DEF IInv, Held, Read, Scanned, WriterKnowsItsSegment
<1> QED
  BY Invariant, <1>1, PTL

(* Rows say what is in their segments, but for what the writer is about to say, where       *)
(* telling them failed or was cut off, a write failed with the whole record in the file, a    *)
(* file has something behind part of a record (append_log.rs flush), or the row was told of     *)
(* the records of another whose id it was given (stream_segments.rs record_append).             *)
THEOREM RowsAreTold == Spec => []RowsCatchUp
<1>1. IInv => RowsCatchUp
  BY DEF IInv
<1> QED
  BY Invariant, <1>1, PTL

(* No file is left where nothing would find it, but one that was created while its row     *)
(* was being removed, or whose row was removed for another's (segment.rs create, prune.rs).   *)
THEOREM FilesAreFound == Spec => []NoFileLeaks
<1>1. IInv => NoFileLeaks
  BY DEF IInv
<1> QED
  BY Invariant, <1>1, PTL

(* Later segments hold later records, but after a segment that was left open when a later  *)
(* one was begun (append_log.rs open, stream_segments.rs open_segment).                   *)
THEOREM OrderIsKept == Spec => []SegmentsInOrder
<1>1. IInv => SegmentsInOrder
  BY DEF IInv
<1> QED
  BY Invariant, <1>1, PTL
=============================================================================
