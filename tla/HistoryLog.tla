----------------------------- MODULE HistoryLog -----------------------------
(***************************************************************************)
(* The history of one device (rustak-server/src: store/append_log.rs,          *)
(* store/segment.rs, store/prune.rs, cot_store/history.rs, retention.rs and     *)
(* query.rs, db/repos/stream_segments.rs). Records are appended to segment       *)
(* files by one writer; a row per segment says how many records it holds and     *)
(* of what time, and is told of them after they were written. A sweep closes     *)
(* idle segments and removes old ones, and an operator's request removes them     *)
(* all, both without a word to the writer.                                     *)
(*                                                                         *)
(* A write that fails may leave part of a record in the file, and the segment goes   *)
(* on being appended to. The index is one table for all devices, and gives the id     *)
(* of its newest row out again once that row was removed: who still holds the id      *)
(* takes the new row for the old. Segments are numbered here as their files are,       *)
(* afresh; what such a mistake does, to this device's log or by it, is modelled.       *)
(*                                                                         *)
(* A record is its number, which is also its time. Lengths are counted in        *)
(* records; a record cut short by a stop is shorter than one.                   *)
(***************************************************************************)
EXTENDS Integers, FiniteSetsExt

CONSTANTS
    MaxRecord,    \* bound: records appended
    MaxSegment,   \* bound: segments created
    Capacity,     \* records in a segment before the next is begun
    Removers,     \* removals that may be under way at once
    Reissued,     \* segments whose row has an id that was given out before
    Failing,      \* bound: segments with the records whose write to them may fail
    Coinciding,   \* bound: segments whose length may be by chance what a wrong row says
    Volatile,     \* bound: segments whose file the machine's stop may cut back
    MaxTold,      \* bound: what a row may count and be told of another's records yet
    NoFile, NoRow

ASSUME HistoryConstants ==
    MaxRecord \in Nat /\ MaxSegment \in Nat /\ Capacity \in Nat \ {0}

VARIABLES
    file,      \* the segment files
    row,       \* stream_segments
    created,   \* how many segments there have been
    writer,    \* the log as the writer holds it
    next,      \* the number of the next record
    removal,   \* what each sweep, or request to forget the device, is doing
    lagging,   \* history: segments whose row missed something
    unsealed,  \* history: segments that were open when a later one was begun
    raced,     \* history: segments whose file was created while their row was being
               \* removed, or whose row was removed for another's
    mistold    \* history: segments whose row was told of another's records

storage == <<file, row, created>>
history == <<lagging, unsealed, raced, mistold>>
vars == <<storage, writer, next, removal, history>>

Records == 1..MaxRecord
Segments == 1..MaxSegment
ASSUME SegmentsReissued == Reissued \subseteq Segments

\* A torn file ends in part of a record. In one that is spoilt something stands behind part
\* of a record, and what is read from there on may be anything.
File == [records: SUBSET Records, tail: {"whole", "torn", "spoilt"}]
Row == [first: Records, last: Records, count: Nat, sealed: BOOLEAN]
ASSUME NotAFile == NoFile \notin File
ASSUME NotARow == NoRow \notin Row
Removal == [left: SUBSET Segments, gone: SUBSET Segments]

\* size is the segment's length by the writer's own account, counted what its row said
\* when it was opened, pending the records its row was not told of; astray, which the
\* program does not keep, that this account may be wrong: a write failed since, or the length
\* of the file was by chance what its row said.
Writer == [at: {"parked", "opened", "counting", "closing", "adopting", "ready", "creating"},
           id: 0..MaxSegment, size: Nat, counted: Nat,
           pending: SUBSET Records, astray: BOOLEAN]

Parked == [at |-> "parked", id |-> 0, size |-> 0, counted |-> 0, pending |-> {},
           astray |-> FALSE]
Empty == [Parked EXCEPT !.at = "ready"]
NotRemoving == [left |-> {}, gone |-> {}]

Exists(i) == file[i] # NoFile
Indexed(i) == row[i] # NoRow
Open(i) == Indexed(i) /\ ~row[i].sealed
OpenSegments == {i \in Segments : Open(i)}

TypeOK ==
    /\ file \in [Segments -> File \cup {NoFile}] /\ row \in [Segments -> Row \cup {NoRow}]
    /\ created \in 0..MaxSegment
    /\ writer \in Writer /\ next \in 1..(MaxRecord + 1)
    /\ writer.pending # {} => writer.at = "ready" /\ writer.id # 0
    /\ \A i \in Segments : Exists(i) =>
          i <= created /\ (\A n \in file[i].records : n < next)
    /\ removal \in [Removers -> Removal]
    /\ lagging \subseteq Segments /\ unsealed \subseteq Segments /\ raced \subseteq Segments
    /\ mistold \subseteq Segments

Init ==
    /\ file = [i \in Segments |-> NoFile] /\ row = [i \in Segments |-> NoRow]
    /\ created = 0 /\ writer = Parked /\ next = 1
    /\ removal = [x \in Removers |-> NotRemoving]
    /\ lagging = {} /\ unsealed = {} /\ raced = {} /\ mistold = {}

-----------------------------------------------------------------------------
(* Opening a log that was parked or left behind.                              *)

\* Mutant: a segment that was closed is appended to again.
OpenClosed ==
    /\ writer.at = "parked"
    /\ \/ writer' = Empty
       \/ \E i \in Segments : Indexed(i) /\
             writer' = [Parked EXCEPT !.at = "opened", !.id = i, !.counted = row[i].count]
    /\ UNCHANGED <<storage, next, removal, history>>

OpenLog ==
    /\ writer.at = "parked"
    /\ \/ OpenSegments = {} /\ writer' = Empty
       \/ \E i \in OpenSegments :
             /\ \A j \in OpenSegments : row[j].first <= row[i].first
             /\ writer' = [Parked EXCEPT !.at = "opened", !.id = i, !.counted = row[i].count]
    /\ UNCHANGED <<storage, next, removal, history>>

\* Mutant: a segment shorter than its row says is appended to.
RecoveryAny(n, counted) ==
    IF n > counted THEN "counting" ELSE IF n >= Capacity THEN "closing" ELSE "adopting"

\* What is to be done about a segment of n records, of which its row counts some.
Recovery(n, counted) ==
    IF n < counted THEN "closing"
    ELSE IF n > counted THEN "counting"
    ELSE IF n >= Capacity THEN "closing" ELSE "adopting"

\* The file is read, and cut back to the end of the last record that was found.
Find(n) ==
    \E at \in {Recovery(n, writer.counted)} :
        writer' = [writer EXCEPT !.at = at, !.size = n, !.counted = IF at = "counting" THEN @ ELSE 0]

Scan ==
    LET i == writer.id IN
    /\ writer.at = "opened"
    /\ \/ /\ Exists(i) /\ file[i].tail # "spoilt" /\ Find(Cardinality(file[i].records))
          /\ file' = [file EXCEPT ![i].tail = "whole"]
       \/ /\ Exists(i) /\ file[i].tail = "spoilt"
          /\ \E n, cut \in 0..MaxRecord :
                /\ Find(n)
                /\ file' = [file EXCEPT ![i].records = {r \in @ : r <= cut}]
       \/ /\ ~Exists(i) /\ writer' = [writer EXCEPT !.at = "closing", !.counted = 0]
          /\ UNCHANGED file
    /\ UNCHANGED <<row, created, next, removal, lagging, unsealed, raced, mistold>>

\* A row that missed something, or was told of another's records, may say what is by chance
\* the length of the file: then the file is not read.
Trust ==
    LET i == writer.id IN
    /\ writer.at = "opened" /\ Exists(i) /\ writer.counted > 0
    /\ i \in Coinciding \cap (lagging \cup mistold)
    /\ file[i].tail = "whole" => Cardinality(file[i].records) # writer.counted
    /\ writer' = [writer EXCEPT !.at = IF writer.counted >= Capacity THEN "closing" ELSE "adopting",
                               !.size = writer.counted, !.counted = 0, !.astray = TRUE]
    /\ UNCHANGED <<storage, next, removal, history>>

\* What the row is told is added to what it says.
Counted(i, n) == IF Open(i) THEN [row EXCEPT ![i].count = @ + n] ELSE row

\* The records' times are not in the file: the row keeps the last it was told of.
Count ==
    /\ writer.at = "counting"
    /\ row' = Counted(writer.id, writer.size - writer.counted)
    /\ writer' = [writer EXCEPT !.at = IF writer.size >= Capacity THEN "closing" ELSE "adopting",
                              !.counted = 0]
    /\ UNCHANGED <<file, created, next, removal, history>>

Sealed(i) == IF Indexed(i) THEN [row EXCEPT ![i].sealed = TRUE] ELSE row

CloseFound ==
    /\ writer.at = "closing"
    /\ row' = Sealed(writer.id)
    /\ writer' = Empty
    /\ UNCHANGED <<file, created, next, removal, history>>

\* A file that has gone meanwhile cannot be opened.
Adopt ==
    /\ writer.at = "adopting"
    /\ writer' = IF Exists(writer.id) THEN [writer EXCEPT !.at = "ready"] ELSE Parked
    /\ UNCHANGED <<storage, next, removal, history>>

\* A read, a repair or a write of the index fails: the log is not opened.
OpenFails ==
    /\ writer.at \in {"opened", "counting", "closing", "adopting"}
    /\ writer' = Parked
    /\ UNCHANGED <<storage, next, removal, history>>

-----------------------------------------------------------------------------
(* Appending.                                                                *)

\* The rows of these segments do not say what is in the file.
Missed(S) == lagging' = lagging \cup {i \in S : Indexed(i) /\ Exists(i)}

\* Mutant: what was reported is reported again the next time.
FlushAgain ==
    /\ writer.at = "ready" /\ writer.pending # {} /\ Open(writer.id)
    /\ row' = [row EXCEPT ![writer.id].count = @ + Cardinality(writer.pending),
                          ![writer.id].last = Max(writer.pending \cup {@})]
    /\ UNCHANGED <<file, created, writer, next, removal, history>>

\* Told that the row is closed or gone, the writer lets go of the segment; told of another
\* row that has its id by now, it goes on.
Flush ==
    LET i == writer.id IN
    /\ writer.at = "ready" /\ writer.pending # {}
    /\ IF Open(i)
       THEN /\ row' = [row EXCEPT ![i].count = @ + Cardinality(writer.pending),
                                  ![i].last = Max(writer.pending \cup {@})]
            /\ writer' = [writer EXCEPT !.pending = {}]
            /\ UNCHANGED lagging
       ELSE /\ \/ writer' = Empty
               \/ ~Indexed(i) /\ writer' = [writer EXCEPT !.pending = {}]
            /\ Missed({i})
            /\ UNCHANGED row
    /\ UNCHANGED <<file, created, next, removal, unsealed, raced, mistold>>

\* What was pending was taken before the write that failed.
FlushFails ==
    /\ writer.at = "ready" /\ writer.pending # {}
    /\ writer' = [writer EXCEPT !.pending = {}]
    /\ Missed({writer.id})
    /\ UNCHANGED <<storage, next, removal, unsealed, raced, mistold>>

\* The next record does not fit, or the writer stops; all that was pending was reported.
Leave ==
    /\ writer.at = "ready" /\ writer.id # 0 /\ writer.pending = {}
    /\ \/ writer.size > 0 /\ writer' = Empty
       \/ writer' = Parked

Seal ==
    /\ Leave
    /\ row' = Sealed(writer.id)
    /\ UNCHANGED <<file, created, next, removal, history>>

SealFails ==
    /\ Leave
    /\ UNCHANGED <<storage, next, removal, history>>

\* The cache of logs is full: this one is let go of and its segment left open.
Park ==
    /\ writer.at = "ready" /\ writer.pending = {}
    /\ writer' = Parked
    /\ UNCHANGED <<storage, next, removal, history>>

CreateRow ==
    LET i == created + 1 IN
    /\ writer.at = "ready" /\ writer.id = 0 /\ next \in Records /\ i \in Segments
    /\ row' = [row EXCEPT ![i] = [first |-> next, last |-> next, count |-> 0, sealed |-> FALSE]]
    /\ writer' = [Parked EXCEPT !.at = "creating", !.id = i]
    /\ created' = i
    /\ unsealed' = unsealed \cup OpenSegments
    /\ UNCHANGED <<file, next, removal, lagging, raced, mistold>>

CreateFile ==
    /\ writer.at = "creating"
    /\ file' = [file EXCEPT ![writer.id] = [records |-> {}, tail |-> "whole"]]
    /\ writer' = [writer EXCEPT !.at = "ready"]
    /\ raced' = IF Indexed(writer.id) /\ \A x \in Removers : writer.id \notin removal[x].gone
                THEN raced ELSE raced \cup {writer.id}
    /\ UNCHANGED <<row, created, next, removal, lagging, unsealed, mistold>>

\* The row is taken back, if that succeeds.
CreateFileFails ==
    /\ writer.at = "creating"
    /\ row' \in {row, [row EXCEPT ![writer.id] = NoRow]}
    /\ writer' = Empty
    /\ UNCHANGED <<file, created, next, removal, history>>

\* The end of the file once it has some records more, or part of one.
Appended(i, records, tail) ==
    [file EXCEPT ![i] = [records |-> @.records \cup records,
                         tail |-> IF @.tail = "whole" THEN tail ELSE "spoilt"]]

\* What is written to a file that was unlinked is read by nobody.
Write ==
    LET i == writer.id IN
    /\ writer.at = "ready" /\ i # 0 /\ writer.size < Capacity /\ next \in Records
    /\ file' = IF Exists(i) THEN Appended(i, {next}, "whole") ELSE file
    /\ writer' = [writer EXCEPT !.size = @ + 1, !.pending = @ \cup {next}]
    /\ next' = next + 1
    /\ UNCHANGED <<row, created, removal, history>>

\* Part of the record is in the file all the same, or all of it, and the writer's account is
\* as before.
WriteFails ==
    LET i == writer.id IN
    /\ writer.at = "ready" /\ i # 0 /\ writer.size < Capacity /\ next \in Records
    /\ Exists(i) /\ <<i, next>> \in Failing
    /\ \/ file' = Appended(i, {}, "torn") /\ UNCHANGED <<next, lagging>>
       \/ file' = Appended(i, {next}, "whole") /\ next' = next + 1 /\ Missed({i})
    /\ writer' = [writer EXCEPT !.astray = TRUE]
    /\ UNCHANGED <<row, created, removal, unsealed, raced, mistold>>

-----------------------------------------------------------------------------
(* Retention, and forgetting: the file goes before the row.                    *)

\* Mutant: only what has records is closed.
CloseWritten(t) ==
    /\ row' = [i \in Segments |->
           IF Open(i) /\ row[i].last <= t /\ row[i].count > 0
           THEN [row[i] EXCEPT !.sealed = TRUE] ELSE row[i]]
    /\ UNCHANGED <<file, created, writer, next, removal, history>>

\* Rows not told of anything since t are idle: the writer may hold them all the same.
CloseIdle(t) ==
    /\ row' = [i \in Segments |->
           IF Open(i) /\ row[i].last <= t THEN [row[i] EXCEPT !.sealed = TRUE] ELSE row[i]]
    /\ UNCHANGED <<file, created, writer, next, removal, history>>

\* By age, or to hold no more than so many records or bytes: the oldest first.
FindSurplus(x, t) ==
    /\ removal[x] = NotRemoving
    /\ removal' = [removal EXCEPT ![x].left =
           {i \in Segments : Indexed(i) /\ row[i].sealed /\ row[i].last <= t}]
    /\ UNCHANGED <<storage, writer, next, history>>

FindAll(x) ==
    /\ removal[x] = NotRemoving
    /\ removal' = [removal EXCEPT ![x].left = {i \in Segments : Indexed(i)}]
    /\ UNCHANGED <<storage, writer, next, history>>

\* Mutant: the row goes although the file would not.
UnlinkOrNot(x) ==
    LET i == Min(removal[x].left) IN
    /\ removal[x].left # {}
    /\ removal' = [removal EXCEPT ![x].left = @ \ {i}, ![x].gone = @ \cup {i}]
    /\ file' \in {file, [file EXCEPT ![i] = NoFile]}
    /\ UNCHANGED <<row, created, writer, next, history>>

Unlink(x) ==
    LET i == Min(removal[x].left) IN
    /\ removal[x].left # {}
    /\ removal' = [removal EXCEPT ![x].left = @ \ {i}, ![x].gone = @ \cup {i}]
    /\ file' = [file EXCEPT ![i] = NoFile]
    /\ lagging' = lagging \ {i} /\ unsealed' = unsealed \ {i} /\ raced' = raced \ {i}
    /\ UNCHANGED <<row, created, writer, next, mistold>>

\* A file that will not go is left for another time, its row with it.
UnlinkFails(x) ==
    /\ removal[x].left # {} /\ Exists(Min(removal[x].left))
    /\ removal' = [removal EXCEPT ![x].left = @ \ {Min(@)}]
    /\ UNCHANGED <<storage, writer, next, history>>

\* A sweep deletes the rows of a batch it unlinked together, a request each at once.
DeleteRows(x) ==
    LET gone == removal[x].gone IN
    /\ gone # {}
    /\ row' = [i \in Segments |-> IF i \in gone THEN NoRow ELSE row[i]]
    /\ removal' = [removal EXCEPT ![x].gone = {}]
    /\ lagging' = lagging \ gone /\ unsealed' = unsealed \ gone /\ mistold' = mistold \ gone
    /\ UNCHANGED <<file, created, writer, next, raced>>

\* Another device's writer reports to a row, or closes it, or somebody removes it, that means
\* the removed row whose id this one was given.
Mistake(i) ==
    /\ \/ /\ Open(i) /\ row[i].count < MaxTold
          /\ \E t \in Records : row' = [row EXCEPT ![i].count = @ + 1, ![i].last = Max({t, @})]
          /\ mistold' = mistold \cup {i} /\ UNCHANGED <<lagging, unsealed, raced>>
       \/ row' = Sealed(i) /\ UNCHANGED history
       \/ /\ Indexed(i) /\ row' = [row EXCEPT ![i] = NoRow]
          /\ raced' = raced \cup {j \in {i} : Exists(j)}
          /\ lagging' = lagging \ {i} /\ unsealed' = unsealed \ {i} /\ mistold' = mistold \ {i}
    /\ UNCHANGED <<file, created, writer, next, removal>>

\* A read or a write of the index fails.
RemovalFails(x) ==
    /\ removal[x] # NotRemoving
    /\ removal' = [removal EXCEPT ![x] = NotRemoving]
    /\ UNCHANGED <<storage, writer, next, history>>

-----------------------------------------------------------------------------
(* The process stops, perhaps within a write; or the machine does, and the tail of a  *)
(* segment was not on disk.                                                    *)

Stop(cut) ==
    /\ writer' = Parked /\ removal' = [x \in Removers |-> NotRemoving]
    /\ Missed(cut \cup (IF writer.pending = {} THEN {} ELSE {writer.id}))
    /\ UNCHANGED <<row, created, next, unsealed, raced, mistold>>

Crash ==
    /\ \/ UNCHANGED file
       \/ /\ writer.at = "ready" /\ writer.id # 0 /\ Exists(writer.id)
          /\ file' = Appended(writer.id, {}, "torn")
    /\ Stop({})

PowerLoss(i, n) ==
    /\ Exists(i) /\ i \in Volatile
    /\ \E tail \in {"whole", "torn", file[i].tail} :
          file' = [file EXCEPT ![i] = [records |-> {r \in @.records : r <= n}, tail |-> tail]]
    /\ Stop({i})

-----------------------------------------------------------------------------
WriterStep ==
    \/ OpenLog \/ Scan \/ Trust \/ Count \/ CloseFound \/ Adopt \/ OpenFails
    \/ Flush \/ FlushFails \/ Seal \/ SealFails \/ Park
    \/ CreateRow \/ CreateFile \/ CreateFileFails \/ Write \/ WriteFails

RemovalStep(x) ==
    \/ FindAll(x) \/ Unlink(x) \/ UnlinkFails(x) \/ DeleteRows(x) \/ RemovalFails(x)
    \/ \E t \in Records : FindSurplus(x, t)

Next ==
    \/ WriterStep \/ Crash
    \/ \E x \in Removers : RemovalStep(x)
    \/ \E t \in Records : CloseIdle(t)
    \/ \E i \in Segments, n \in 0..MaxRecord : PowerLoss(i, n)
    \/ \E i \in Reissued : Mistake(i)

Spec == Init /\ [][Next]_vars

\* The sweep runs again and again, time passes for every segment, and neither a file
\* nor the index refuses for ever.
FairSpec ==
    /\ Spec
    /\ SF_vars(CloseIdle(MaxRecord))
    /\ \A x \in Removers :
          SF_vars(FindSurplus(x, MaxRecord)) /\ SF_vars(Unlink(x)) /\ SF_vars(DeleteRows(x))

-----------------------------------------------------------------------------
(* The writer's own account of the segment it appends to agrees with the file, which   *)
(* has no record cut short before what is appended (append_log.rs recover), whatever     *)
(* stopped the last writer: unless a write to it failed, which is noticed only when the    *)
(* log is next opened, or its length alone was looked at and was by chance what a wrong     *)
(* row said, or it was found spoilt. Even then all that is pending is in the      *)
(* file; and the row counts no record that the writer does not, unless it was told of       *)
(* another's.                                                                        *)
WriterKnowsItsSegment ==
    LET i == writer.id IN
    writer.at = "ready" /\ i # 0 /\ Exists(i) =>
        /\ writer.pending \subseteq file[i].records
        /\ ~writer.astray /\ file[i].tail # "spoilt" =>
              file[i].tail = "whole" /\ writer.size = Cardinality(file[i].records)
        /\ Indexed(i) /\ i \notin mistold =>
              row[i].count + Cardinality(writer.pending) <= writer.size

(* A row says how many records its segment holds and of what time up to, but for what   *)
(* the writer is about to tell it, unless the index could not be written, the row was    *)
(* closed or removed under the writer, a stop or a failed write came between               *)
(* (append_log.rs flush), the row was told of another's records, or the file has           *)
(* something behind part of a record.                                                *)
RowsCatchUp ==
    \A i \in Segments \ (lagging \cup mistold) :
        Indexed(i) /\ Exists(i) /\ file[i].tail # "spoilt" =>
            LET told == file[i].records \ (IF writer.id = i THEN writer.pending ELSE {}) IN
            /\ row[i].count = Cardinality(told)
            /\ \A n \in told : n <= row[i].last

(* No file is without its row, where nothing would ever find it (segment.rs create,       *)
(* prune.rs), but one that was created while its row was being removed, or whose row      *)
(* was removed for another's.                                                        *)
NoFileLeaks ==
    \A i \in Segments : Exists(i) /\ ~Indexed(i) => i \in raced

(* Segments hold the records in the order of their time, one after the other, which a   *)
(* reader of the newest records relies on: it stops at the newest segments that hold      *)
(* enough (query.rs history_where). But a segment left open when a later one was begun      *)
(* may be appended to again: it could not be sealed, or had the same first time as          *)
(* another that was taken for the newest.                                              *)
SegmentsInOrder ==
    \A i, j \in {k \in Segments : Indexed(k) /\ Exists(k)} : i < j /\ i \notin unsealed =>
        \A m \in file[i].records, n \in file[j].records : m < n

(* The history of a device that is heard of no more goes in the end, its last segment      *)
(* too, whatever left it open or shorter than its row says (stream_segments.rs           *)
(* seal_idle, retention.rs).                                                         *)
QuietHistoryGoes ==
    <>[](\A i \in Segments : ~Indexed(i) /\ (Exists(i) => i \in raced))
=============================================================================
