---------------------------- MODULE ContentStore ----------------------------
(***************************************************************************)
(* Stored files and the rows that refer to them (rustak-server/src: store/    *)
(* content.rs, store/orphans.rs, files/store.rs, db/repos/resources,          *)
(* marti/sync.rs, marti/sync_read.rs, web/api/packages.rs, profile_files.rs). *)
(* A blob is filed under the hash of its bytes before the row that refers to   *)
(* it; several rows may share it; a delete removes rows by their ids and then  *)
(* asks whether the blob is still in use; a sweep collects old blobs nothing   *)
(* refers to.                                                                *)
(*                                                                         *)
(* A sweep's horizon is longer than any upload takes (orphans.rs): a blob does  *)
(* not become old while the upload that put it there is under way.            *)
(***************************************************************************)
EXTENDS Naturals, FiniteSets

CONSTANTS
    Hashes, Uids,
    Uploads, Deletes,   \* requests, each one at a time
    MaxId,              \* bound: row ids in use at once
    NoRow, NoHash

ASSUME ContentConstants == MaxId \in Nat /\ NoHash \notin Hashes

VARIABLES
    blobs,         \* the hashes under which a file is stored
    old,           \* those last written before the horizon of a sweep
    rows,          \* the resources table, by primary key
    filed,         \* the hashes profile files refer to
    mentioned,     \* the hashes missions' change logs and log entries refer to
    upload,        \* what each upload is doing
    delete,        \* what each delete is doing
    sweep,         \* what the sweep is doing
    late,          \* history: rows written when their blob was doomed or gone
    lateFiled      \* history: profile files written so

tables == <<rows, filed, mentioned>>
history == <<late, lateFiled>>
vars == <<blobs, old, tables, upload, delete, sweep, history>>

Ids == 1..MaxId
Row == [uid: Uids, hash: Hashes]
ASSUME NoRowIsNoRow == NoRow \notin Row
Upload == [at: {"idle", "writing", "looked", "stored"}, hash: Hashes \cup {NoHash},
           placed: {"no", "yes", "late"}]
Delete == [at: {"idle", "listed", "asking", "removing"}, hash: Hashes \cup {NoHash},
           ids: SUBSET Ids]
Sweep == [at: {"idle", "listed", "sweeping"}, left: SUBSET Hashes,
          unlinking: Hashes \cup {NoHash}]

Uploading == [at |-> "idle", hash |-> NoHash, placed |-> "no"]
Deleting == [at |-> "idle", hash |-> NoHash, ids |-> {}]
Sweeping == [at |-> "idle", left |-> {}, unlinking |-> NoHash]

TypeOK ==
    /\ blobs \subseteq Hashes /\ old \subseteq blobs
    /\ rows \in [Ids -> Row \cup {NoRow}]
    /\ \A i, j \in Ids : rows[i] # NoRow /\ rows[j] # NoRow /\ rows[i].uid = rows[j].uid
                        => i = j
    /\ filed \subseteq Hashes /\ mentioned \subseteq Hashes
    /\ upload \in [Uploads -> Upload] /\ delete \in [Deletes -> Delete]
    /\ sweep \in Sweep
    /\ late \subseteq {i \in Ids : rows[i] # NoRow} /\ lateFiled \subseteq filed

Init ==
    /\ blobs = {} /\ old = {}
    /\ rows = [i \in Ids |-> NoRow] /\ filed = {} /\ mentioned = {}
    /\ upload = [p \in Uploads |-> Uploading]
    /\ delete = [d \in Deletes |-> Deleting]
    /\ sweep = Sweeping /\ late = {} /\ lateFiled = {}

Stored(i) == rows[i] # NoRow
IdsFor(h) == {i \in Ids : Stored(i) /\ rows[i].hash = h}

\* What a delete asks, and what the sweep reads: not the same tables.
InUse(h) == IdsFor(h) # {} \/ h \in filed
Referenced == {h \in Hashes : InUse(h) \/ h \in mentioned}

\* The removal of h is decided, whatever is written from now on.
Doomed(h) ==
    \/ \E d \in Deletes : delete[d].at = "removing" /\ delete[d].hash = h
    \/ sweep.at = "sweeping" /\ h \in sweep.left \cap old
    \/ sweep.unlinking = h

TooLate(h) == h \notin blobs \/ Doomed(h)

-----------------------------------------------------------------------------
(* An upload: the blob, then the row.                                        *)

Begin(p, h) ==
    /\ upload[p].at = "idle"
    /\ upload' = [upload EXCEPT ![p] = [at |-> "writing", hash |-> h, placed |-> "no"]]
    /\ UNCHANGED <<blobs, old, tables, delete, sweep, history>>

\* The whole body is in a temporary file: is there such a blob already?
Look(p) ==
    /\ upload[p].at = "writing"
    /\ upload' = [upload EXCEPT
           ![p].at = IF upload[p].hash \in blobs THEN "stored" ELSE "looked"]
    /\ UNCHANGED <<blobs, old, tables, delete, sweep, history>>

\* The temporary file is renamed into place, over whatever is there by now.
Rename(p) ==
    /\ upload[p].at = "looked"
    /\ blobs' = blobs \cup {upload[p].hash} /\ old' = old \ {upload[p].hash}
    /\ upload' = [upload EXCEPT ![p].at = "stored", 
                          ![p].placed = IF Doomed(upload[p].hash) THEN "late" ELSE "yes"]
    /\ UNCHANGED <<tables, delete, sweep, history>>

\* A new row's id follows the highest there is.
NextId(i) == \A j \in Ids : Stored(j) => j < i /\ (i = 1 \/ Stored(i - 1))

HasUid(i, u) == Stored(i) /\ rows[i].uid = u

\* The row of that uid is replaced and keeps its id, or one is inserted.
StoreRow(p, u) ==
    /\ upload[p].at = "stored"
    /\ \E i \in Ids :
          /\ HasUid(i, u) \/ (NextId(i) /\ \A j \in Ids : ~HasUid(j, u))
          /\ rows' = [rows EXCEPT ![i] = [uid |-> u, hash |-> upload[p].hash]]
          /\ late' = IF TooLate(upload[p].hash) THEN late \cup {i} ELSE late \ {i}
    /\ upload' = [upload EXCEPT ![p] = Uploading]
    /\ UNCHANGED <<blobs, old, filed, mentioned, delete, sweep, lateFiled>>

StoreFile(p) ==
    /\ upload[p].at = "stored"
    /\ filed' = filed \cup {upload[p].hash}
    /\ lateFiled' = IF TooLate(upload[p].hash) THEN lateFiled \cup {upload[p].hash}
                                               ELSE lateFiled \ {upload[p].hash}
    /\ upload' = [upload EXCEPT ![p] = Uploading]
    /\ UNCHANGED <<blobs, old, rows, mentioned, delete, sweep, late>>

\* The body is refused or breaks off, a write fails, the client goes away.
UploadEnds(p) ==
    /\ upload[p].at # "idle"
    /\ upload' = [upload EXCEPT ![p] = Uploading]
    /\ UNCHANGED <<blobs, old, tables, delete, sweep, history>>

-----------------------------------------------------------------------------
(* The other writers of the tables.                                          *)

\* A profile's file is removed, and its blob is left to the sweep.
Unfile(h) ==
    /\ h \in filed /\ filed' = filed \ {h} /\ lateFiled' = lateFiled \ {h}
    /\ UNCHANGED <<blobs, old, rows, mentioned, upload, delete, sweep, late>>

\* A mission's change or log entry names a file, whatever became of it by then;
\* the entry is deleted or rewritten.
Mention(h) ==
    /\ h \notin mentioned /\ mentioned' = mentioned \cup {h}
    /\ UNCHANGED <<blobs, old, rows, filed, upload, delete, sweep, history>>

Unmention(h) ==
    /\ h \in mentioned /\ mentioned' = mentioned \ {h}
    /\ UNCHANGED <<blobs, old, rows, filed, upload, delete, sweep, history>>

-----------------------------------------------------------------------------
(* A delete: the rows that carried a hash, then the blob if nothing else does. *)

\* By the hash, all the rows that carry it, or by the rows' own ids, any; rows that carry
\* several hashes are as many deletes.
ListRows(d, h) ==
    /\ delete[d].at = "idle"
    /\ \E listed \in SUBSET IdsFor(h) \ {{}} :
          delete' = [delete EXCEPT ![d] = [at |-> "listed", hash |-> h, ids |-> listed]]
    /\ UNCHANGED <<blobs, old, tables, upload, sweep, history>>

\* By id, whatever the rows carry by now.
DeleteRows(d) ==
    /\ delete[d].at = "listed"
    /\ rows' = [i \in Ids |-> IF i \in delete[d].ids THEN NoRow ELSE rows[i]]
    /\ late' = late \ delete[d].ids
    /\ delete' = [delete EXCEPT ![d].at = "asking", ![d].ids = {}]
    /\ UNCHANGED <<blobs, old, filed, mentioned, upload, sweep, lateFiled>>

\* A deep delete of a mission unfiles its contents, and asks as well.
DeepDelete(d, h) ==
    /\ delete[d].at = "idle" /\ IdsFor(h) # {}
    /\ delete' = [delete EXCEPT ![d] = [at |-> "asking", hash |-> h, ids |-> {}]]
    /\ UNCHANGED <<blobs, old, tables, upload, sweep, history>>

\* Mutant: the rows of the hash that was deleted are all that is asked about.
AskRows(d) ==
    /\ delete[d].at = "asking"
    /\ delete' = [delete EXCEPT ![d] =
           IF IdsFor(delete[d].hash) # {} THEN Deleting ELSE [@ EXCEPT !.at = "removing"]]
    /\ UNCHANGED <<blobs, old, tables, upload, sweep, history>>

Ask(d) ==
    /\ delete[d].at = "asking"
    /\ delete' = [delete EXCEPT ![d] =
           IF InUse(delete[d].hash) THEN Deleting ELSE [@ EXCEPT !.at = "removing"]]
    /\ UNCHANGED <<blobs, old, tables, upload, sweep, history>>

RemoveBlob(d) ==
    /\ delete[d].at = "removing"
    /\ blobs' = blobs \ {delete[d].hash} /\ old' = old \ {delete[d].hash}
    /\ delete' = [delete EXCEPT ![d] = Deleting]
    /\ UNCHANGED <<tables, upload, sweep, history>>

DeleteEnds(d) ==
    /\ delete[d].at # "idle"
    /\ delete' = [delete EXCEPT ![d] = Deleting]
    /\ UNCHANGED <<blobs, old, tables, upload, sweep, history>>

-----------------------------------------------------------------------------
(* The sweep: the blobs first, the references second, then one by one.       *)

\* Time passes.
Age(h) ==
    /\ sweep.at = "idle" /\ h \in blobs \ old
    /\ \A p \in Uploads : upload[p].hash = h => upload[p].placed = "no"
    /\ old' = old \cup {h}
    /\ UNCHANGED <<blobs, tables, upload, delete, sweep, history>>

ListBlobs ==
    /\ sweep.at = "idle" /\ blobs # {}
    /\ sweep' = [at |-> "listed", left |-> blobs, unlinking |-> NoHash]
    /\ UNCHANGED <<blobs, old, tables, upload, delete, history>>

ReadReferences ==
    /\ sweep.at = "listed"
    /\ sweep' = [sweep EXCEPT !.at = "sweeping", !.left = sweep.left \ Referenced]
    /\ UNCHANGED <<blobs, old, tables, upload, delete, history>>

\* Mutant: how old a file is does not count.
CheckAnyAge(h) ==
    /\ sweep.at = "sweeping" /\ sweep.unlinking = NoHash /\ h \in sweep.left
    /\ sweep' = [sweep EXCEPT !.left = sweep.left \ {h}, !.unlinking = h]
    /\ UNCHANGED <<blobs, old, tables, upload, delete, history>>

\* Mutant: the horizon is compared the wrong way round.
CheckYouth(h) ==
    /\ sweep.at = "sweeping" /\ sweep.unlinking = NoHash /\ h \in sweep.left
    /\ sweep' = [sweep EXCEPT !.left = sweep.left \ {h},
                              !.unlinking = IF h \in old THEN NoHash ELSE h]
    /\ UNCHANGED <<blobs, old, tables, upload, delete, history>>

CheckAge(h) ==
    /\ sweep.at = "sweeping" /\ sweep.unlinking = NoHash /\ h \in sweep.left
    /\ sweep' = [sweep EXCEPT !.left = sweep.left \ {h},
                              !.unlinking = IF h \in old THEN h ELSE NoHash]
    /\ UNCHANGED <<blobs, old, tables, upload, delete, history>>

Unlink ==
    /\ sweep.unlinking # NoHash
    /\ blobs' = blobs \ {sweep.unlinking} /\ old' = old \ {sweep.unlinking}
    /\ sweep' = [sweep EXCEPT !.unlinking = NoHash]
    /\ UNCHANGED <<tables, upload, delete, history>>

\* A file that will not go is left for the next sweep.
UnlinkFails ==
    /\ sweep.unlinking # NoHash
    /\ sweep' = [sweep EXCEPT !.unlinking = NoHash]
    /\ UNCHANGED <<blobs, old, tables, upload, delete, history>>

\* All candidates are done, a read fails, or the process stops.
SweepEnds ==
    /\ sweep.at # "idle"
    /\ sweep' = Sweeping
    /\ UNCHANGED <<blobs, old, tables, upload, delete, history>>

SweepDone == sweep.left = {} /\ sweep.unlinking = NoHash /\ SweepEnds

-----------------------------------------------------------------------------
UploadStep(p) ==
    \/ \E h \in Hashes : Begin(p, h)
    \/ Look(p) \/ Rename(p) \/ StoreFile(p) \/ UploadEnds(p)
    \/ \E u \in Uids : StoreRow(p, u)

DeleteStep(d) ==
    \/ \E h \in Hashes : ListRows(d, h) \/ DeepDelete(d, h)
    \/ DeleteRows(d) \/ Ask(d) \/ RemoveBlob(d) \/ DeleteEnds(d)

SweepStep ==
    \/ ListBlobs \/ ReadReferences \/ Unlink \/ UnlinkFails \/ SweepEnds
    \/ \E h \in Hashes : CheckAge(h) \/ Age(h)

Next ==
    \/ \E p \in Uploads : UploadStep(p)
    \/ \E d \in Deletes : DeleteStep(d)
    \/ \E h \in Hashes : Unfile(h) \/ Mention(h) \/ Unmention(h)
    \/ SweepStep

Spec == Init /\ [][Next]_vars

\* The sweep is run again and again (content_orphans.rs); neither its reads fail
\* for ever nor does a file refuse to go for ever; time passes for every file.
FairSpec ==
    /\ Spec
    /\ WF_vars(ListBlobs) /\ SF_vars(ReadReferences) /\ WF_vars(SweepDone)
    /\ \A h \in Hashes :
          SF_vars(Age(h)) /\ SF_vars(CheckAge(h)) /\ SF_vars(Unlink /\ sweep.unlinking = h)

-----------------------------------------------------------------------------
(* A row's bytes are there for as long as the row is, also where several rows   *)
(* share them (files/store.rs forget, orphans.rs sweep), if the removal of the    *)
(* blob was not already decided when the row was written: by a delete that had    *)
(* found it unused, or by a sweep that had found it old and unreferenced.       *)
RowsKeepTheirBytes ==
    /\ \A i \in Ids : Stored(i) /\ i \notin late =>
          rows[i].hash \in blobs /\ ~Doomed(rows[i].hash)
    /\ \A h \in filed \ lateFiled : h \in blobs /\ ~Doomed(h)

(* A sweep never takes the blob an upload has just put there (orphans.rs: "the     *)
(* grace period"), though no row refers to it yet: only a delete of the same      *)
(* bytes does, where no sweep had the file it replaces in hand.                *)
UploadsKeepTheirBlob ==
    [][\A p \in Uploads :
          LET h == upload[p].hash IN
          upload[p].placed = "yes" /\ h \in blobs \ blobs' =>
              \E d \in Deletes : delete[d].at = "removing" /\ delete[d].hash = h]_vars

Orphaned(h) ==
    h \notin Referenced /\ \A p \in Uploads : upload[p].hash # h

(* What nothing refers to any more goes in the end (content_orphans.rs), whatever  *)
(* left it there: a failed upload, a delete that was cut short, a deep delete.   *)
OrphansGo ==
    \A h \in Hashes : <>[]Orphaned(h) => <>[](h \notin blobs)
=============================================================================
