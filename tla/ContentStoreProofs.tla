------------------------- MODULE ContentStoreProofs -------------------------
(***************************************************************************)
(* That rows keep their bytes, and that a sweep leaves alone what an upload has *)
(* just put there, for any number of blobs, uploads and deletes.             *)
(***************************************************************************)
EXTENDS ContentStore, TLAPS

\* Rows, requests and the sweep without the histories: what the types say of each.
Shaped ==
    /\ \A p \in Uploads : /\ upload[p].at # "idle" => upload[p].hash \in Hashes
                          /\ upload[p].placed # "no" => upload[p].at = "stored"
    /\ \A d \in Deletes : delete[d].at # "idle" => delete[d].hash \in Hashes
    /\ sweep.at = "idle" => sweep.unlinking = NoHash

\* What an upload has just put there is young and in no sweep's hand.
Fresh ==
    \A p \in Uploads : upload[p].placed = "yes" =>
        upload[p].hash \notin old /\ sweep.unlinking # upload[p].hash

IInv == TypeOK /\ Shaped /\ RowsKeepTheirBytes /\ Fresh

-----------------------------------------------------------------------------
(* The types are kept, and the uid of a row is its own (resources.rs upsert). *)
LEMMA TypeStep ==
    ASSUME TypeOK, Shaped, [Next]_vars
    PROVE  TypeOK'
<1> USE ContentConstants, NoRowIsNoRow
    DEF TypeOK, Upload, Delete, Sweep, Uploading, Deleting, Sweeping,
        Shaped, Row, Ids,
        tables, history
<1>1. ASSUME NEW p \in Uploads, NEW h \in Hashes, Begin(p, h) PROVE TypeOK'
  BY <1>1 DEF Begin
<1>2. ASSUME NEW p \in Uploads, Look(p) PROVE TypeOK'
  BY <1>2 DEF Look
<1>3. ASSUME NEW p \in Uploads, Rename(p) PROVE TypeOK'
  BY <1>3 DEF Rename
<1>4. ASSUME NEW p \in Uploads, StoreFile(p) PROVE TypeOK'
  <2>1. /\ upload[p].hash \in Hashes
        /\ Uploading \in Upload
    BY <1>4 DEF StoreFile
  <2>2. /\ filed' \subseteq Hashes /\ lateFiled' \subseteq filed'
        /\ upload' \in [Uploads -> Upload]
    BY <1>4, <2>1 DEF StoreFile
  <2> QED BY <1>4, <2>2 DEF StoreFile
<1>5. ASSUME NEW p \in Uploads, UploadEnds(p) PROVE TypeOK'
  BY <1>5 DEF UploadEnds
<1>6. ASSUME NEW p \in Uploads, NEW u \in Uids, StoreRow(p, u) PROVE TypeOK'
  <2> DEFINE new == [uid |-> u, hash |-> upload[p].hash]
  <2>1. new \in Row /\ new # NoRow /\ new.uid = u /\ Uploading \in Upload
    BY <1>6 DEF StoreRow
  <2>2. PICK i \in Ids :
            /\ HasUid(i, u) \/ \A j \in Ids : ~HasUid(j, u)
            /\ rows' = [rows EXCEPT ![i] = new]
            /\ late' = IF TooLate(upload[p].hash) THEN late \cup {i} ELSE late \ {i}
    BY <1>6 DEF StoreRow
  <2> HIDE DEF new
  <2>3. /\ rows' \in [Ids -> Row \cup {NoRow}] /\ rows'[i] = new
        /\ \A j \in Ids \ {i} : rows'[j] = rows[j]
    BY <2>1, <2>2
  <2>4. \A j, k \in Ids : rows'[j] # NoRow /\ rows'[k] # NoRow
                             /\ rows'[j].uid = rows'[k].uid => j = k
    BY <2>1, <2>2, <2>3 DEF HasUid, Stored
  <2>5. late' \subseteq {j \in Ids : rows'[j] # NoRow}
    <3>1. late' \subseteq late \cup {i}
      BY <2>2
    <3> QED BY <2>1, <2>3, <3>1
  <2>6. upload' \in [Uploads -> Upload]
    BY <1>6, <2>1 DEF StoreRow
  <2> QED
    BY <1>6, <2>3, <2>4, <2>5, <2>6 DEF StoreRow
<1>7. ASSUME NEW d \in Deletes, NEW h \in Hashes, ListRows(d, h) PROVE TypeOK'
  BY <1>7 DEF ListRows, IdsFor
<1>8. ASSUME NEW d \in Deletes, NEW h \in Hashes, DeepDelete(d, h) PROVE TypeOK'
  BY <1>8 DEF DeepDelete
<1>9. ASSUME NEW d \in Deletes, DeleteRows(d) PROVE TypeOK'
  <2>1. /\ rows' \in [Ids -> Row \cup {NoRow}]
        /\ \A i \in Ids : rows'[i] # NoRow => rows'[i] = rows[i]
        /\ \A i \in Ids \ delete[d].ids : rows'[i] = rows[i]
    BY <1>9 DEF DeleteRows
  <2>2. late' \subseteq {i \in Ids : rows'[i] # NoRow}
    BY <1>9, <2>1 DEF DeleteRows
  <2>3. \A i, j \in Ids : rows'[i] # NoRow /\ rows'[j] # NoRow
                             /\ rows'[i].uid = rows'[j].uid => i = j
    BY <2>1
  <2>4. delete' \in [Deletes -> Delete]
    <3>1. delete[d] \in Delete /\ {} \in SUBSET Ids
      OBVIOUS
    <3>2. [delete[d] EXCEPT !.at = "asking", !.ids = {}] \in Delete
      BY <3>1
    <3>3. delete' = [delete EXCEPT ![d] = [delete[d] EXCEPT !.at = "asking", !.ids = {}]]
      BY <1>9 DEF DeleteRows
    <3> QED BY <3>2, <3>3
  <2> QED
    BY <1>9, <2>1, <2>2, <2>3, <2>4 DEF DeleteRows
<1>10. ASSUME NEW d \in Deletes, Ask(d) PROVE TypeOK'
  <2>1. Deleting \in Delete /\ [delete[d] EXCEPT !.at = "removing"] \in Delete
    <3>1. delete[d] \in Delete
      OBVIOUS
    <3> QED BY <3>1
  <2>2. delete' = [delete EXCEPT ![d] =
            IF InUse(delete[d].hash) THEN Deleting
            ELSE [delete[d] EXCEPT !.at = "removing"]]
    BY <1>10 DEF Ask
  <2>3. delete' \in [Deletes -> Delete]
    BY <2>1, <2>2
  <2> QED BY <1>10, <2>3 DEF Ask
<1>11. ASSUME NEW d \in Deletes, RemoveBlob(d) PROVE TypeOK'
  BY <1>11 DEF RemoveBlob
<1>12. ASSUME NEW d \in Deletes, DeleteEnds(d) PROVE TypeOK'
  BY <1>12 DEF DeleteEnds
<1>13. ASSUME NEW h \in Hashes, Unfile(h) PROVE TypeOK'
  BY <1>13 DEF Unfile
<1>14. ASSUME NEW h \in Hashes, Mention(h) PROVE TypeOK'
  BY <1>14 DEF Mention
<1>15. ASSUME NEW h \in Hashes, Unmention(h) PROVE TypeOK'
  BY <1>15 DEF Unmention
<1>16. ASSUME NEW h \in Hashes, CheckAge(h) PROVE TypeOK'
  BY <1>16 DEF CheckAge
<1>17. ASSUME NEW h \in Hashes, Age(h) PROVE TypeOK'
  BY <1>17 DEF Age
<1>18. ASSUME ListBlobs PROVE TypeOK'
  BY <1>18 DEF ListBlobs
<1>19. ASSUME ReadReferences PROVE TypeOK'
  BY <1>19 DEF ReadReferences
<1>20. ASSUME Unlink PROVE TypeOK'
  BY <1>20 DEF Unlink
<1>21. ASSUME UnlinkFails PROVE TypeOK'
  BY <1>21 DEF UnlinkFails
<1>22. ASSUME SweepEnds PROVE TypeOK'
  BY <1>22 DEF SweepEnds
<1>23. CASE UNCHANGED vars
  BY <1>23 DEF vars
<1> QED
  BY <1>1, <1>2, <1>3, <1>4, <1>5, <1>6, <1>7, <1>8, <1>9,
     <1>10, <1>11, <1>12, <1>13, <1>14, <1>15, <1>16, <1>17, <1>18,
     <1>19, <1>20, <1>21, <1>22, <1>23
     DEF Next, UploadStep, DeleteStep, SweepStep

(* A request that is under way has a hash. *)
LEMMA ShapedStep ==
    ASSUME TypeOK, Shaped, [Next]_vars
    PROVE  Shaped'
<1> USE ContentConstants, NoRowIsNoRow
    DEF TypeOK, Upload, Delete, Sweep, Uploading, Deleting, Sweeping, Shaped,
        tables, history
<1>1. ASSUME NEW p \in Uploads, NEW h \in Hashes, Begin(p, h) PROVE Shaped'
  BY <1>1 DEF Begin
<1>2. ASSUME NEW p \in Uploads, Look(p) PROVE Shaped'
  BY <1>2 DEF Look
<1>3. ASSUME NEW p \in Uploads, Rename(p) PROVE Shaped'
  BY <1>3 DEF Rename
<1>4. ASSUME NEW p \in Uploads, StoreFile(p) PROVE Shaped'
  BY <1>4 DEF StoreFile
<1>5. ASSUME NEW p \in Uploads, UploadEnds(p) PROVE Shaped'
  BY <1>5 DEF UploadEnds
<1>6. ASSUME NEW p \in Uploads, NEW u \in Uids, StoreRow(p, u) PROVE Shaped'
  BY <1>6 DEF StoreRow
<1>7. ASSUME NEW d \in Deletes, NEW h \in Hashes, ListRows(d, h) PROVE Shaped'
  BY <1>7 DEF ListRows
<1>8. ASSUME NEW d \in Deletes, NEW h \in Hashes, DeepDelete(d, h) PROVE Shaped'
  BY <1>8 DEF DeepDelete
<1>9. ASSUME NEW d \in Deletes, DeleteRows(d) PROVE Shaped'
  BY <1>9 DEF DeleteRows
<1>10. ASSUME NEW d \in Deletes, Ask(d) PROVE Shaped'
  BY <1>10 DEF Ask
<1>11. ASSUME NEW d \in Deletes, RemoveBlob(d) PROVE Shaped'
  BY <1>11 DEF RemoveBlob
<1>12. ASSUME NEW d \in Deletes, DeleteEnds(d) PROVE Shaped'
  BY <1>12 DEF DeleteEnds
<1>13. ASSUME NEW h \in Hashes, Unfile(h) PROVE Shaped'
  BY <1>13 DEF Unfile
<1>14. ASSUME NEW h \in Hashes, Mention(h) PROVE Shaped'
  BY <1>14 DEF Mention
<1>15. ASSUME NEW h \in Hashes, Unmention(h) PROVE Shaped'
  BY <1>15 DEF Unmention
<1>16. ASSUME NEW h \in Hashes, CheckAge(h) PROVE Shaped'
  BY <1>16 DEF CheckAge
<1>17. ASSUME NEW h \in Hashes, Age(h) PROVE Shaped'
  BY <1>17 DEF Age
<1>18. ASSUME ListBlobs PROVE Shaped'
  BY <1>18 DEF ListBlobs
<1>19. ASSUME ReadReferences PROVE Shaped'
  BY <1>19 DEF ReadReferences
<1>20. ASSUME Unlink PROVE Shaped'
  BY <1>20 DEF Unlink
<1>21. ASSUME UnlinkFails PROVE Shaped'
  BY <1>21 DEF UnlinkFails
<1>22. ASSUME SweepEnds PROVE Shaped'
  BY <1>22 DEF SweepEnds
<1>23. CASE UNCHANGED vars
  BY <1>23 DEF vars
<1> QED
  BY <1>1, <1>2, <1>3, <1>4, <1>5, <1>6, <1>7, <1>8, <1>9,
     <1>10, <1>11, <1>12, <1>13, <1>14, <1>15, <1>16, <1>17, <1>18,
     <1>19, <1>20, <1>21, <1>22, <1>23
     DEF Next, UploadStep, DeleteStep, SweepStep

(* No file becomes old under an upload, and no young file is unlinked. *)
LEMMA FreshStep ==
    ASSUME TypeOK, Shaped, Fresh, [Next]_vars
    PROVE  Fresh'
<1> USE ContentConstants, NoRowIsNoRow
    DEF TypeOK, Upload, Delete, Sweep, Uploading, Deleting, Sweeping, Shaped, Fresh,
        tables, history
<1>1. ASSUME NEW p \in Uploads, NEW h \in Hashes, Begin(p, h) PROVE Fresh'
  BY <1>1 DEF Begin
<1>2. ASSUME NEW p \in Uploads, Look(p) PROVE Fresh'
  BY <1>2 DEF Look
<1>3. ASSUME NEW p \in Uploads, Rename(p) PROVE Fresh'
  BY <1>3 DEF Rename, Doomed
<1>4. ASSUME NEW p \in Uploads, StoreFile(p) PROVE Fresh'
  BY <1>4 DEF StoreFile
<1>5. ASSUME NEW p \in Uploads, UploadEnds(p) PROVE Fresh'
  BY <1>5 DEF UploadEnds
<1>6. ASSUME NEW p \in Uploads, NEW u \in Uids, StoreRow(p, u) PROVE Fresh'
  BY <1>6 DEF StoreRow
<1>7. ASSUME NEW d \in Deletes, NEW h \in Hashes, ListRows(d, h) PROVE Fresh'
  BY <1>7 DEF ListRows
<1>8. ASSUME NEW d \in Deletes, NEW h \in Hashes, DeepDelete(d, h) PROVE Fresh'
  BY <1>8 DEF DeepDelete
<1>9. ASSUME NEW d \in Deletes, DeleteRows(d) PROVE Fresh'
  BY <1>9 DEF DeleteRows
<1>10. ASSUME NEW d \in Deletes, Ask(d) PROVE Fresh'
  BY <1>10 DEF Ask
<1>11. ASSUME NEW d \in Deletes, RemoveBlob(d) PROVE Fresh'
  BY <1>11 DEF RemoveBlob
<1>12. ASSUME NEW d \in Deletes, DeleteEnds(d) PROVE Fresh'
  BY <1>12 DEF DeleteEnds
<1>13. ASSUME NEW h \in Hashes, Unfile(h) PROVE Fresh'
  BY <1>13 DEF Unfile
<1>14. ASSUME NEW h \in Hashes, Mention(h) PROVE Fresh'
  BY <1>14 DEF Mention
<1>15. ASSUME NEW h \in Hashes, Unmention(h) PROVE Fresh'
  BY <1>15 DEF Unmention
<1>16. ASSUME NEW h \in Hashes, CheckAge(h) PROVE Fresh'
  BY <1>16 DEF CheckAge
<1>17. ASSUME NEW h \in Hashes, Age(h) PROVE Fresh'
  BY <1>17 DEF Age
<1>18. ASSUME ListBlobs PROVE Fresh'
  BY <1>18 DEF ListBlobs
<1>19. ASSUME ReadReferences PROVE Fresh'
  BY <1>19 DEF ReadReferences
<1>20. ASSUME Unlink PROVE Fresh'
  BY <1>20 DEF Unlink
<1>21. ASSUME UnlinkFails PROVE Fresh'
  BY <1>21 DEF UnlinkFails
<1>22. ASSUME SweepEnds PROVE Fresh'
  BY <1>22 DEF SweepEnds
<1>23. CASE UNCHANGED vars
  BY <1>23 DEF vars
<1> QED
  BY <1>1, <1>2, <1>3, <1>4, <1>5, <1>6, <1>7, <1>8, <1>9,
     <1>10, <1>11, <1>12, <1>13, <1>14, <1>15, <1>16, <1>17, <1>18,
     <1>19, <1>20, <1>21, <1>22, <1>23
     DEF Next, UploadStep, DeleteStep, SweepStep

(* A blob is doomed only when nothing refers to it, and who refers to it later is
   marked. *)
LEMMA RowsStep ==
    ASSUME TypeOK, Shaped, RowsKeepTheirBytes, [Next]_vars
    PROVE  RowsKeepTheirBytes'
<1> USE ContentConstants, NoRowIsNoRow
    DEF TypeOK, Upload, Delete, Sweep, Uploading, Deleting, Sweeping,
        Shaped, RowsKeepTheirBytes, Stored, Doomed,
        tables, history
<1>1. ASSUME NEW p \in Uploads, NEW h \in Hashes, Begin(p, h) PROVE RowsKeepTheirBytes'
  BY <1>1 DEF Begin
<1>2. ASSUME NEW p \in Uploads, Look(p) PROVE RowsKeepTheirBytes'
  BY <1>2 DEF Look
<1>3. ASSUME NEW p \in Uploads, Rename(p) PROVE RowsKeepTheirBytes'
  BY <1>3 DEF Rename
<1>4. ASSUME NEW p \in Uploads, StoreFile(p) PROVE RowsKeepTheirBytes'
  BY <1>4 DEF StoreFile, TooLate
<1>5. ASSUME NEW p \in Uploads, UploadEnds(p) PROVE RowsKeepTheirBytes'
  BY <1>5 DEF UploadEnds
<1>6. ASSUME NEW p \in Uploads, NEW u \in Uids, StoreRow(p, u) PROVE RowsKeepTheirBytes'
  BY <1>6 DEF StoreRow, TooLate, Row
<1>7. ASSUME NEW d \in Deletes, NEW h \in Hashes, ListRows(d, h)
      PROVE  RowsKeepTheirBytes'
  BY <1>7 DEF ListRows
<1>8. ASSUME NEW d \in Deletes, NEW h \in Hashes, DeepDelete(d, h)
      PROVE  RowsKeepTheirBytes'
  BY <1>8 DEF DeepDelete
<1>9. ASSUME NEW d \in Deletes, DeleteRows(d) PROVE RowsKeepTheirBytes'
  BY <1>9 DEF DeleteRows
<1>10. ASSUME NEW d \in Deletes, Ask(d) PROVE RowsKeepTheirBytes'
  BY <1>10 DEF Ask, InUse, IdsFor
<1>11. ASSUME NEW d \in Deletes, RemoveBlob(d) PROVE RowsKeepTheirBytes'
  BY <1>11 DEF RemoveBlob
<1>12. ASSUME NEW d \in Deletes, DeleteEnds(d) PROVE RowsKeepTheirBytes'
  BY <1>12 DEF DeleteEnds
<1>13. ASSUME NEW h \in Hashes, Unfile(h) PROVE RowsKeepTheirBytes'
  BY <1>13 DEF Unfile
<1>14. ASSUME NEW h \in Hashes, Mention(h) PROVE RowsKeepTheirBytes'
  BY <1>14 DEF Mention
<1>15. ASSUME NEW h \in Hashes, Unmention(h) PROVE RowsKeepTheirBytes'
  BY <1>15 DEF Unmention
<1>16. ASSUME NEW h \in Hashes, CheckAge(h) PROVE RowsKeepTheirBytes'
  BY <1>16 DEF CheckAge
<1>17. ASSUME NEW h \in Hashes, Age(h) PROVE RowsKeepTheirBytes'
  BY <1>17 DEF Age
<1>18. ASSUME ListBlobs PROVE RowsKeepTheirBytes'
  BY <1>18 DEF ListBlobs
<1>19. ASSUME ReadReferences PROVE RowsKeepTheirBytes'
  BY <1>19 DEF ReadReferences, Referenced, InUse, IdsFor, Row
<1>20. ASSUME Unlink PROVE RowsKeepTheirBytes'
  BY <1>20 DEF Unlink
<1>21. ASSUME UnlinkFails PROVE RowsKeepTheirBytes'
  BY <1>21 DEF UnlinkFails
<1>22. ASSUME SweepEnds PROVE RowsKeepTheirBytes'
  BY <1>22 DEF SweepEnds
<1>23. CASE UNCHANGED vars
  BY <1>23 DEF vars
<1> QED
  BY <1>1, <1>2, <1>3, <1>4, <1>5, <1>6, <1>7, <1>8, <1>9,
     <1>10, <1>11, <1>12, <1>13, <1>14, <1>15, <1>16, <1>17, <1>18,
     <1>19, <1>20, <1>21, <1>22, <1>23
     DEF Next, UploadStep, DeleteStep, SweepStep

\* What UploadsKeepTheirBlob says of a step.
Spared ==
    \A p \in Uploads :
        LET h == upload[p].hash IN
        upload[p].placed = "yes" /\ h \in blobs \ blobs' =>
            \E d \in Deletes : delete[d].at = "removing" /\ delete[d].hash = h

(* A sweep unlinks what is in its hand, and that is not what an upload put there. *)
LEMMA SparedStep ==
    ASSUME TypeOK, Shaped, Fresh, [Next]_vars
    PROVE  Spared
<1> USE ContentConstants, NoRowIsNoRow
    DEF Spared, TypeOK, Fresh,
        tables, history
<1>1. ASSUME NEW p \in Uploads, NEW h \in Hashes, Begin(p, h) PROVE Spared
  BY <1>1 DEF Begin
<1>2. ASSUME NEW p \in Uploads, Look(p) PROVE Spared
  BY <1>2 DEF Look
<1>3. ASSUME NEW p \in Uploads, Rename(p) PROVE Spared
  BY <1>3 DEF Rename
<1>4. ASSUME NEW p \in Uploads, StoreFile(p) PROVE Spared
  BY <1>4 DEF StoreFile
<1>5. ASSUME NEW p \in Uploads, UploadEnds(p) PROVE Spared
  BY <1>5 DEF UploadEnds
<1>6. ASSUME NEW p \in Uploads, NEW u \in Uids, StoreRow(p, u) PROVE Spared
  BY <1>6 DEF StoreRow
<1>7. ASSUME NEW d \in Deletes, NEW h \in Hashes, ListRows(d, h) PROVE Spared
  BY <1>7 DEF ListRows
<1>8. ASSUME NEW d \in Deletes, NEW h \in Hashes, DeepDelete(d, h) PROVE Spared
  BY <1>8 DEF DeepDelete
<1>9. ASSUME NEW d \in Deletes, DeleteRows(d) PROVE Spared
  BY <1>9 DEF DeleteRows
<1>10. ASSUME NEW d \in Deletes, Ask(d) PROVE Spared
  BY <1>10 DEF Ask
<1>11. ASSUME NEW d \in Deletes, RemoveBlob(d) PROVE Spared
  BY <1>11 DEF RemoveBlob
<1>12. ASSUME NEW d \in Deletes, DeleteEnds(d) PROVE Spared
  BY <1>12 DEF DeleteEnds
<1>13. ASSUME NEW h \in Hashes, Unfile(h) PROVE Spared
  BY <1>13 DEF Unfile
<1>14. ASSUME NEW h \in Hashes, Mention(h) PROVE Spared
  BY <1>14 DEF Mention
<1>15. ASSUME NEW h \in Hashes, Unmention(h) PROVE Spared
  BY <1>15 DEF Unmention
<1>16. ASSUME NEW h \in Hashes, CheckAge(h) PROVE Spared
  BY <1>16 DEF CheckAge
<1>17. ASSUME NEW h \in Hashes, Age(h) PROVE Spared
  BY <1>17 DEF Age
<1>18. ASSUME ListBlobs PROVE Spared
  BY <1>18 DEF ListBlobs
<1>19. ASSUME ReadReferences PROVE Spared
  BY <1>19 DEF ReadReferences
<1>20. ASSUME Unlink PROVE Spared
  BY <1>20 DEF Unlink
<1>21. ASSUME UnlinkFails PROVE Spared
  BY <1>21 DEF UnlinkFails
<1>22. ASSUME SweepEnds PROVE Spared
  BY <1>22 DEF SweepEnds
<1>23. CASE UNCHANGED vars
  BY <1>23 DEF vars
<1> QED
  BY <1>1, <1>2, <1>3, <1>4, <1>5, <1>6, <1>7, <1>8, <1>9,
     <1>10, <1>11, <1>12, <1>13, <1>14, <1>15, <1>16, <1>17, <1>18,
     <1>19, <1>20, <1>21, <1>22, <1>23
     DEF Next, UploadStep, DeleteStep, SweepStep

-----------------------------------------------------------------------------
(* The invariant holds where the server starts.                              *)
LEMMA Initially == Init => IInv
BY ContentConstants
   DEF Init, IInv, TypeOK, Upload, Delete, Sweep, Uploading, Deleting, Sweeping, Shaped,
       RowsKeepTheirBytes, Fresh, Stored, Doomed

(* Every step keeps the invariant: one case per action.                      *)
LEMMA Kept == IInv /\ [Next]_vars => IInv'
BY TypeStep, ShapedStep, FreshStep, RowsStep DEF IInv

(* The invariant holds in every reachable state.                             *)
LEMMA Always == Spec => []IInv
BY Initially, Kept, PTL DEF Spec

(* The types of every table and of every request (ContentStore.TypeOK).          *)
THEOREM Typed == Spec => []TypeOK
<1>1. IInv => TypeOK
  BY DEF IInv
<1> QED
  BY <1>1, Always, PTL

(* However many uploads, deletes and sweeps there are, the bytes of a row that was  *)
(* written in time are there as long as it is (files/store.rs, store/orphans.rs). *)
THEOREM BytesStay == Spec => []RowsKeepTheirBytes
<1>1. IInv => RowsKeepTheirBytes
  BY DEF IInv
<1> QED
  BY <1>1, Always, PTL

(* However many sweeps there are, none takes the blob an upload has just put there  *)
(* (store/orphans.rs, the grace period).                                       *)
THEOREM UploadsAreSpared == Spec => UploadsKeepTheirBlob
<1>1. IInv /\ [Next]_vars => Spared
  BY SparedStep DEF IInv
<1>2. UploadsKeepTheirBlob <=> [][Spared]_vars
  BY DEF UploadsKeepTheirBlob, Spared
<1> QED
  BY <1>1, <1>2, Always, PTL DEF Spec
=============================================================================
