----------------------------- MODULE SnapshotProofs ----------------------------
(***************************************************************************)
(* What a finished backup and a passed verification are worth, for any     *)
(* datasets, contents and number of epochs.  The epochs are the argument:  *)
(* rows are only added while the application runs and replaced only by a   *)
(* pg_restore, so a manifest taken after a dump names every row of it.     *)
(***************************************************************************)
EXTENDS Snapshot, TLAPS

\* A manifest of this epoch names these rows, and none is written while the
\* application runs; a dump since the last pg_restore has been added to only.
EpochInv ==
  /\ base <= epoch /\ dump.epoch <= epoch /\ manifest.epoch <= epoch
  /\ manifest.epoch = epoch => ~app /\ manifest.items = rows
  /\ base <= dump.epoch => \A d \in Items(dump.rows) : rows[d] = dump.rows[d]
  /\ DumpFirst => \A d \in Items(dump.rows) : manifest.items[d] = dump.rows[d]

\* What the backup's loop has behind it is in the directory.
BackupInv ==
  /\ command = "backup" => dirty /\ \A d \in Items(rows) \ todo : files[d] = rows[d]
  /\ saved /\ ~dirty => \A d \in Items(manifest.items) : files[d] = manifest.items[d]

\* What the restore's loop has behind it is in the bucket.
RestoreInv ==
  /\ command = "restore" =>
       /\ todo \subseteq Items(manifest.items)
       /\ \A d \in Items(manifest.items) \ todo : objects[d] = manifest.items[d]
  /\ command = "recheck" =>
       \A d \in Items(manifest.items) : objects[d] = manifest.items[d]

\* What the verification's loop has behind it is intact.
VerifyInv ==
  /\ command \in {"recheck", "verify"} => \A d \in Datasets \ todo : Intact(d)
  /\ verdict => ~app /\ \A d \in Datasets : Intact(d)

\* Between commands no loop is left over; only a backup has a file open, and
\* one at a time.
ScriptInv ==
  /\ command = "none" => todo = {}
  /\ writing # {} => command = "backup"
  /\ \A d, e \in writing : d = e

IInv == TypeOK /\ ScriptInv /\ EpochInv /\ BackupInv /\ RestoreInv /\ VerifyInv

-----------------------------------------------------------------------------
LEMMA Initially == Init => IInv
<1> SUFFICES ASSUME Init PROVE IInv
  OBVIOUS
<1>1. NoRows \in Rows /\ NoRows \in Bytes /\ 0 \in 0..MaxEpoch
  BY SnapshotAssumption DEF NoRows, Rows, Bytes
<1>2. TypeOK
  BY <1>1 DEF Init, TypeOK
<1>3. EpochInv
  BY DEF Init, EpochInv
<1>4. ScriptInv /\ BackupInv /\ RestoreInv /\ VerifyInv
  BY DEF Init, ScriptInv, BackupInv, RestoreInv, VerifyInv
<1> QED BY <1>2, <1>3, <1>4 DEF IInv

-----------------------------------------------------------------------------
\* One step per action, and under it one per part of the invariant.
LEMMA Inductively == IInv /\ [Next]_vars => IInv'
<1> SUFFICES ASSUME IInv, [Next]_vars PROVE IInv'
  OBVIOUS
<1>0. TypeOK /\ ScriptInv /\ EpochInv /\ BackupInv /\ RestoreInv /\ VerifyInv
  BY DEF IInv
<1> USE DEF era, live, backed, script
<1>1. CASE StartApp
  <2>1. TypeOK'
    <3>1. epoch \in 0..MaxEpoch /\ epoch < MaxEpoch /\ epoch' = epoch + 1
      BY <1>0, <1>1 DEF StartApp, NewEpoch, TypeOK
    <3>2. epoch' \in 0..MaxEpoch
      BY <3>1, SnapshotAssumption
    <3>3. /\ app' = TRUE /\ verdict' = FALSE /\ command = "none" /\ todo = {}
          /\ UNCHANGED <<base, live, backed, script>>
      BY <1>0, <1>1 DEF StartApp, Quiet, ScriptInv
    <3> QED BY <1>0, <3>2, <3>3 DEF TypeOK
  <2>2. EpochInv'
    BY <1>0, <1>1, SnapshotAssumption DEF StartApp, Quiet, NewEpoch, EpochInv, DumpFirst, Items, TypeOK, Rows, Bytes
  <2>3. (ScriptInv /\ BackupInv)'
    <3>1. command = "none" /\ UNCHANGED <<command, todo, writing, files, manifest, saved, dirty>>
      BY <1>1 DEF StartApp, Quiet
    <3>2. ScriptInv'
      BY <1>0, <3>1 DEF ScriptInv
    <3>3. BackupInv'
      BY <1>0, <3>1 DEF BackupInv, Items
    <3> QED BY <3>2, <3>3
  <2>4. RestoreInv'
    BY <1>0, <1>1, SnapshotAssumption DEF StartApp, Quiet, NewEpoch, RestoreInv, BackupInv, TypeOK, Rows, Bytes, Items
  <2>5. VerifyInv'
    BY <1>0, <1>1, SnapshotAssumption DEF StartApp, Quiet, NewEpoch, VerifyInv, ScriptInv, TypeOK, Rows, Bytes, Items, Intact
  <2> QED BY <2>1, <2>2, <2>3, <2>4, <2>5 DEF IInv
<1>2. CASE StopApp
  <2>1. TypeOK'
    BY <1>0, <1>2, SnapshotAssumption DEF StopApp, ScriptInv, TypeOK, Rows, Bytes, Items
  <2>2. EpochInv'
    BY <1>0, <1>2, SnapshotAssumption DEF StopApp, EpochInv, DumpFirst, Items, TypeOK, Rows, Bytes
  <2>3. (ScriptInv /\ BackupInv)'
    BY <1>0, <1>2, SnapshotAssumption DEF StopApp, ScriptInv, BackupInv, EpochInv, TypeOK, Rows, Bytes, Items
  <2>4. RestoreInv'
    BY <1>0, <1>2, SnapshotAssumption DEF StopApp, RestoreInv, BackupInv, TypeOK, Rows, Bytes, Items
  <2>5. VerifyInv'
    BY <1>0, <1>2, SnapshotAssumption DEF StopApp, VerifyInv, ScriptInv, TypeOK, Rows, Bytes, Items, Intact
  <2> QED BY <2>1, <2>2, <2>3, <2>4, <2>5 DEF IInv
<1>3. ASSUME NEW d \in Datasets, NEW c \in Contents, IngestDataset(d, c) PROVE IInv'
  <2>1. TypeOK'
    BY <1>0, <1>3, SnapshotAssumption DEF IngestDataset, ScriptInv, TypeOK, Rows, Bytes, Items
  <2>2. EpochInv'
    BY <1>0, <1>3, SnapshotAssumption DEF IngestDataset, EpochInv, DumpFirst, Items, TypeOK, Rows, Bytes
  <2>3. (ScriptInv /\ BackupInv)'
    BY <1>0, <1>3, SnapshotAssumption DEF IngestDataset, ScriptInv, BackupInv, EpochInv, TypeOK, Rows, Bytes, Items
  <2>4. RestoreInv'
    BY <1>0, <1>3, SnapshotAssumption DEF IngestDataset, RestoreInv, BackupInv, TypeOK, Rows, Bytes, Items
  <2>5. VerifyInv'
    BY <1>0, <1>3, SnapshotAssumption DEF IngestDataset, VerifyInv, ScriptInv, TypeOK, Rows, Bytes, Items, Intact
  <2> QED BY <2>1, <2>2, <2>3, <2>4, <2>5 DEF IInv
<1>4. ASSUME NEW r \in Results, CommitResult(r) PROVE IInv'
  <2>1. TypeOK'
    BY <1>0, <1>4, SnapshotAssumption DEF CommitResult, ScriptInv, TypeOK, Rows, Bytes, Items
  <2>2. EpochInv'
    BY <1>0, <1>4, SnapshotAssumption DEF CommitResult, EpochInv, DumpFirst, Items, TypeOK, Rows, Bytes
  <2>3. (ScriptInv /\ BackupInv)'
    BY <1>0, <1>4, SnapshotAssumption DEF CommitResult, ScriptInv, BackupInv, EpochInv, TypeOK, Rows, Bytes, Items
  <2>4. RestoreInv'
    BY <1>0, <1>4, SnapshotAssumption DEF CommitResult, RestoreInv, BackupInv, TypeOK, Rows, Bytes, Items
  <2>5. VerifyInv'
    BY <1>0, <1>4, SnapshotAssumption DEF CommitResult, VerifyInv, ScriptInv, TypeOK, Rows, Bytes, Items, Intact
  <2> QED BY <2>1, <2>2, <2>3, <2>4, <2>5 DEF IInv
<1>5. CASE LoseVolume
  <2>1. TypeOK'
    BY <1>0, <1>5, SnapshotAssumption DEF LoseVolume, Quiet, NoRows, ScriptInv, TypeOK, Rows, Bytes, Items
  <2>2. EpochInv'
    BY <1>0, <1>5, SnapshotAssumption DEF LoseVolume, Quiet, NoRows, EpochInv, DumpFirst, Items, TypeOK, Rows, Bytes
  <2>3. (ScriptInv /\ BackupInv)'
    BY <1>0, <1>5, SnapshotAssumption DEF LoseVolume, Quiet, NoRows, ScriptInv, BackupInv, EpochInv, TypeOK, Rows, Bytes, Items
  <2>4. RestoreInv'
    BY <1>0, <1>5, SnapshotAssumption DEF LoseVolume, Quiet, NoRows, RestoreInv, BackupInv, TypeOK, Rows, Bytes, Items
  <2>5. VerifyInv'
    BY <1>0, <1>5, SnapshotAssumption DEF LoseVolume, Quiet, NoRows, VerifyInv, ScriptInv, TypeOK, Rows, Bytes, Items, Intact
  <2> QED BY <2>1, <2>2, <2>3, <2>4, <2>5 DEF IInv
<1>6. ASSUME NEW d \in Datasets, Damage(d) PROVE IInv'
  <2>1. TypeOK'
    BY <1>0, <1>6, SnapshotAssumption DEF Damage, Quiet, ScriptInv, TypeOK, Rows, Bytes, Items
  <2>2. EpochInv'
    BY <1>0, <1>6, SnapshotAssumption DEF Damage, Quiet, EpochInv, DumpFirst, Items, TypeOK, Rows, Bytes
  <2>3. (ScriptInv /\ BackupInv)'
    BY <1>0, <1>6, SnapshotAssumption DEF Damage, Quiet, ScriptInv, BackupInv, EpochInv, TypeOK, Rows, Bytes, Items
  <2>4. RestoreInv'
    BY <1>0, <1>6, SnapshotAssumption DEF Damage, Quiet, RestoreInv, BackupInv, TypeOK, Rows, Bytes, Items
  <2>5. VerifyInv'
    BY <1>0, <1>6, SnapshotAssumption DEF Damage, Quiet, VerifyInv, ScriptInv, TypeOK, Rows, Bytes, Items, Intact
  <2> QED BY <2>1, <2>2, <2>3, <2>4, <2>5 DEF IInv
<1>7. CASE DumpDatabase
  <2>1. TypeOK'
    BY <1>0, <1>7, SnapshotAssumption DEF DumpDatabase, Quiet, ScriptInv, TypeOK, Rows, Bytes, Items
  <2>2. EpochInv'
    BY <1>0, <1>7, SnapshotAssumption DEF DumpDatabase, Quiet, EpochInv, DumpFirst, Items, TypeOK, Rows, Bytes
  <2>3. (ScriptInv /\ BackupInv)'
    BY <1>0, <1>7, SnapshotAssumption DEF DumpDatabase, Quiet, ScriptInv, BackupInv, EpochInv, TypeOK, Rows, Bytes, Items
  <2>4. RestoreInv'
    BY <1>0, <1>7, SnapshotAssumption DEF DumpDatabase, Quiet, RestoreInv, BackupInv, TypeOK, Rows, Bytes, Items
  <2>5. VerifyInv'
    BY <1>0, <1>7, SnapshotAssumption DEF DumpDatabase, Quiet, VerifyInv, ScriptInv, TypeOK, Rows, Bytes, Items, Intact
  <2> QED BY <2>1, <2>2, <2>3, <2>4, <2>5 DEF IInv
<1>8. CASE BeginBackup
  <2>1. TypeOK'
    BY <1>0, <1>8, SnapshotAssumption DEF BeginBackup, Quiet, ScriptInv, TypeOK, Rows, Bytes, Items
  <2>2. EpochInv'
    BY <1>0, <1>8, SnapshotAssumption DEF BeginBackup, Quiet, EpochInv, DumpFirst, Items, TypeOK, Rows, Bytes
  <2>3. (ScriptInv /\ BackupInv)'
    BY <1>0, <1>8, SnapshotAssumption DEF BeginBackup, Quiet, ScriptInv, BackupInv, EpochInv, TypeOK, Rows, Bytes, Items
  <2>4. RestoreInv'
    BY <1>0, <1>8, SnapshotAssumption DEF BeginBackup, Quiet, RestoreInv, BackupInv, TypeOK, Rows, Bytes, Items
  <2>5. VerifyInv'
    BY <1>0, <1>8, SnapshotAssumption DEF BeginBackup, Quiet, VerifyInv, ScriptInv, TypeOK, Rows, Bytes, Items, Intact
  <2> QED BY <2>1, <2>2, <2>3, <2>4, <2>5 DEF IInv
<1>9. ASSUME NEW d \in Datasets, OpenFile(d) PROVE IInv'
  <2>1. TypeOK'
    BY <1>0, <1>9, SnapshotAssumption DEF OpenFile, ScriptInv, TypeOK, Rows, Bytes, Items
  <2>2. EpochInv'
    BY <1>0, <1>9, SnapshotAssumption DEF OpenFile, EpochInv, DumpFirst, Items, TypeOK, Rows, Bytes
  <2>3. (ScriptInv /\ BackupInv)'
    BY <1>0, <1>9, SnapshotAssumption DEF OpenFile, ScriptInv, BackupInv, EpochInv, TypeOK, Rows, Bytes, Items
  <2>4. RestoreInv'
    BY <1>0, <1>9, SnapshotAssumption DEF OpenFile, RestoreInv, BackupInv, TypeOK, Rows, Bytes, Items
  <2>5. VerifyInv'
    BY <1>0, <1>9, SnapshotAssumption DEF OpenFile, VerifyInv, ScriptInv, TypeOK, Rows, Bytes, Items, Intact
  <2> QED BY <2>1, <2>2, <2>3, <2>4, <2>5 DEF IInv
<1>10. ASSUME NEW d \in Datasets, WriteFile(d) PROVE IInv'
  <2>1. TypeOK'
    BY <1>0, <1>10, SnapshotAssumption DEF WriteFile, ScriptInv, TypeOK, Rows, Bytes, Items
  <2>2. EpochInv'
    BY <1>0, <1>10, SnapshotAssumption DEF WriteFile, ScriptInv, EpochInv, DumpFirst, Items, TypeOK, Rows, Bytes
  <2>3. (ScriptInv /\ BackupInv)'
    BY <1>0, <1>10, SnapshotAssumption DEF WriteFile, ScriptInv, BackupInv, EpochInv, TypeOK, Rows, Bytes, Items
  <2>4. RestoreInv'
    BY <1>0, <1>10, SnapshotAssumption DEF WriteFile, ScriptInv, RestoreInv, BackupInv, TypeOK, Rows, Bytes, Items
  <2>5. VerifyInv'
    BY <1>0, <1>10, SnapshotAssumption DEF WriteFile, VerifyInv, ScriptInv, TypeOK, Rows, Bytes, Items, Intact
  <2> QED BY <2>1, <2>2, <2>3, <2>4, <2>5 DEF IInv
<1>11. CASE OpenManifest
  <2>1. TypeOK'
    BY <1>0, <1>11, SnapshotAssumption DEF OpenManifest, ScriptInv, TypeOK, Rows, Bytes, Items
  <2>2. EpochInv'
    BY <1>0, <1>11, SnapshotAssumption DEF OpenManifest, EpochInv, DumpFirst, Items, TypeOK, Rows, Bytes
  <2>3. (ScriptInv /\ BackupInv)'
    BY <1>0, <1>11, SnapshotAssumption DEF OpenManifest, ScriptInv, BackupInv, EpochInv, TypeOK, Rows, Bytes, Items
  <2>4. RestoreInv'
    BY <1>0, <1>11, SnapshotAssumption DEF OpenManifest, RestoreInv, BackupInv, TypeOK, Rows, Bytes, Items
  <2>5. VerifyInv'
    BY <1>0, <1>11, SnapshotAssumption DEF OpenManifest, VerifyInv, ScriptInv, TypeOK, Rows, Bytes, Items, Intact
  <2> QED BY <2>1, <2>2, <2>3, <2>4, <2>5 DEF IInv
<1>12. CASE EndBackup
  <2>1. TypeOK'
    BY <1>0, <1>12, SnapshotAssumption DEF EndBackup, ScriptInv, TypeOK, Rows, Bytes, Items
  <2>2. EpochInv'
    BY <1>0, <1>12, SnapshotAssumption DEF EndBackup, ScriptInv, EpochInv, DumpFirst, Items, TypeOK, Rows, Bytes
  <2>3. (ScriptInv /\ BackupInv)'
    BY <1>0, <1>12, SnapshotAssumption DEF EndBackup, ScriptInv, BackupInv, EpochInv, TypeOK, Rows, Bytes, Items
  <2>4. RestoreInv'
    BY <1>0, <1>12, SnapshotAssumption DEF EndBackup, ScriptInv, RestoreInv, BackupInv, TypeOK, Rows, Bytes, Items
  <2>5. VerifyInv'
    BY <1>0, <1>12, SnapshotAssumption DEF EndBackup, VerifyInv, ScriptInv, TypeOK, Rows, Bytes, Items, Intact
  <2> QED BY <2>1, <2>2, <2>3, <2>4, <2>5 DEF IInv
<1>13. CASE RestoreDatabase
  <2>1. TypeOK'
    <3>1. epoch \in 0..MaxEpoch /\ epoch < MaxEpoch /\ epoch' = epoch + 1
      BY <1>0, <1>13 DEF RestoreDatabase, NewEpoch, TypeOK
    <3>2. epoch' \in 0..MaxEpoch
      BY <3>1, SnapshotAssumption
    <3>3. NoRows \in Rows /\ dump.rows \in Rows /\ dump.runs \subseteq Results
      BY <1>0 DEF NoRows, Rows, TypeOK
    <3>4. rows' \in Rows /\ runs' \subseteq Results /\ verdict' = FALSE /\ base' = epoch'
      BY <1>13, <3>3 DEF RestoreDatabase
    <3>5. UNCHANGED <<app, objects, results, backed, script>>
      BY <1>13 DEF RestoreDatabase
    <3> QED BY <1>0, <3>2, <3>4, <3>5 DEF TypeOK
  <2>2. EpochInv'
    BY <1>0, <1>13, SnapshotAssumption DEF RestoreDatabase, Quiet, NewEpoch, NoRows, EpochInv, DumpFirst, Items, TypeOK, Rows, Bytes
  <2>3. (ScriptInv /\ BackupInv)'
    <3>1. command = "none" /\ UNCHANGED <<command, todo, writing, files, manifest, saved, dirty>>
      BY <1>13 DEF RestoreDatabase, Quiet
    <3>2. ScriptInv'
      BY <1>0, <3>1 DEF ScriptInv
    <3>3. BackupInv'
      BY <1>0, <3>1 DEF BackupInv, Items
    <3> QED BY <3>2, <3>3
  <2>4. RestoreInv'
    BY <1>0, <1>13, SnapshotAssumption DEF RestoreDatabase, Quiet, NewEpoch, NoRows, RestoreInv, BackupInv, TypeOK, Rows, Bytes, Items
  <2>5. VerifyInv'
    BY <1>0, <1>13, SnapshotAssumption DEF RestoreDatabase, Quiet, NewEpoch, NoRows, VerifyInv, ScriptInv, TypeOK, Rows, Bytes, Items, Intact
  <2> QED BY <2>1, <2>2, <2>3, <2>4, <2>5 DEF IInv
<1>14. CASE BeginRestore
  <2>1. TypeOK'
    BY <1>0, <1>14, SnapshotAssumption DEF BeginRestore, Quiet, ScriptInv, TypeOK, Rows, Bytes, Items
  <2>2. EpochInv'
    BY <1>0, <1>14, SnapshotAssumption DEF BeginRestore, Quiet, EpochInv, DumpFirst, Items, TypeOK, Rows, Bytes
  <2>3. (ScriptInv /\ BackupInv)'
    BY <1>0, <1>14, SnapshotAssumption DEF BeginRestore, Quiet, ScriptInv, BackupInv, EpochInv, TypeOK, Rows, Bytes, Items
  <2>4. RestoreInv'
    BY <1>0, <1>14, SnapshotAssumption DEF BeginRestore, Quiet, RestoreInv, BackupInv, TypeOK, Rows, Bytes, Items
  <2>5. VerifyInv'
    BY <1>0, <1>14, SnapshotAssumption DEF BeginRestore, Quiet, VerifyInv, ScriptInv, TypeOK, Rows, Bytes, Items, Intact
  <2> QED BY <2>1, <2>2, <2>3, <2>4, <2>5 DEF IInv
<1>15. ASSUME NEW d \in Datasets, Upload(d) PROVE IInv'
  <2>1. TypeOK'
    BY <1>0, <1>15, SnapshotAssumption DEF Upload, ScriptInv, TypeOK, Rows, Bytes, Items
  <2>2. EpochInv'
    BY <1>0, <1>15, SnapshotAssumption DEF Upload, EpochInv, DumpFirst, Items, TypeOK, Rows, Bytes
  <2>3. (ScriptInv /\ BackupInv)'
    BY <1>0, <1>15, SnapshotAssumption DEF Upload, ScriptInv, BackupInv, EpochInv, TypeOK, Rows, Bytes, Items
  <2>4. RestoreInv'
    BY <1>0, <1>15, SnapshotAssumption DEF Upload, RestoreInv, BackupInv, TypeOK, Rows, Bytes, Items
  <2>5. VerifyInv'
    BY <1>0, <1>15, SnapshotAssumption DEF Upload, VerifyInv, ScriptInv, TypeOK, Rows, Bytes, Items, Intact
  <2> QED BY <2>1, <2>2, <2>3, <2>4, <2>5 DEF IInv
<1>16. CASE EndRestore
  <2>1. TypeOK'
    BY <1>0, <1>16, SnapshotAssumption DEF EndRestore, ScriptInv, TypeOK, Rows, Bytes, Items
  <2>2. EpochInv'
    BY <1>0, <1>16, SnapshotAssumption DEF EndRestore, EpochInv, DumpFirst, Items, TypeOK, Rows, Bytes
  <2>3. (ScriptInv /\ BackupInv)'
    BY <1>0, <1>16, SnapshotAssumption DEF EndRestore, ScriptInv, BackupInv, EpochInv, TypeOK, Rows, Bytes, Items
  <2>4. RestoreInv'
    BY <1>0, <1>16, SnapshotAssumption DEF EndRestore, RestoreInv, BackupInv, TypeOK, Rows, Bytes, Items
  <2>5. VerifyInv'
    BY <1>0, <1>16, SnapshotAssumption DEF EndRestore, VerifyInv, ScriptInv, TypeOK, Rows, Bytes, Items, Intact
  <2> QED BY <2>1, <2>2, <2>3, <2>4, <2>5 DEF IInv
<1>17. CASE BeginVerify
  <2>1. TypeOK'
    BY <1>0, <1>17, SnapshotAssumption DEF BeginVerify, Quiet, ScriptInv, TypeOK, Rows, Bytes, Items
  <2>2. EpochInv'
    BY <1>0, <1>17, SnapshotAssumption DEF BeginVerify, Quiet, EpochInv, DumpFirst, Items, TypeOK, Rows, Bytes
  <2>3. (ScriptInv /\ BackupInv)'
    BY <1>0, <1>17, SnapshotAssumption DEF BeginVerify, Quiet, ScriptInv, BackupInv, EpochInv, TypeOK, Rows, Bytes, Items
  <2>4. RestoreInv'
    BY <1>0, <1>17, SnapshotAssumption DEF BeginVerify, Quiet, RestoreInv, BackupInv, TypeOK, Rows, Bytes, Items
  <2>5. VerifyInv'
    BY <1>0, <1>17, SnapshotAssumption DEF BeginVerify, Quiet, VerifyInv, ScriptInv, TypeOK, Rows, Bytes, Items, Intact
  <2> QED BY <2>1, <2>2, <2>3, <2>4, <2>5 DEF IInv
<1>18. ASSUME NEW d \in Datasets, CheckObject(d) PROVE IInv'
  <2>1. TypeOK'
    BY <1>0, <1>18, SnapshotAssumption DEF CheckObject, ScriptInv, TypeOK, Rows, Bytes, Items
  <2>2. EpochInv'
    BY <1>0, <1>18, SnapshotAssumption DEF CheckObject, EpochInv, DumpFirst, Items, TypeOK, Rows, Bytes
  <2>3. (ScriptInv /\ BackupInv)'
    BY <1>0, <1>18, SnapshotAssumption DEF CheckObject, ScriptInv, BackupInv, EpochInv, TypeOK, Rows, Bytes, Items
  <2>4. RestoreInv'
    BY <1>0, <1>18, SnapshotAssumption DEF CheckObject, RestoreInv, BackupInv, TypeOK, Rows, Bytes, Items
  <2>5. VerifyInv'
    BY <1>0, <1>18, SnapshotAssumption DEF CheckObject, VerifyInv, ScriptInv, TypeOK, Rows, Bytes, Items, Intact
  <2> QED BY <2>1, <2>2, <2>3, <2>4, <2>5 DEF IInv
<1>19. CASE EndVerify
  <2>1. TypeOK'
    BY <1>0, <1>19, SnapshotAssumption DEF EndVerify, ScriptInv, TypeOK, Rows, Bytes, Items
  <2>2. EpochInv'
    BY <1>0, <1>19, SnapshotAssumption DEF EndVerify, EpochInv, DumpFirst, Items, TypeOK, Rows, Bytes
  <2>3. (ScriptInv /\ BackupInv)'
    BY <1>0, <1>19, SnapshotAssumption DEF EndVerify, ScriptInv, BackupInv, EpochInv, TypeOK, Rows, Bytes, Items
  <2>4. RestoreInv'
    BY <1>0, <1>19, SnapshotAssumption DEF EndVerify, RestoreInv, BackupInv, TypeOK, Rows, Bytes, Items
  <2>5. VerifyInv'
    BY <1>0, <1>19, SnapshotAssumption DEF EndVerify, VerifyInv, ScriptInv, TypeOK, Rows, Bytes, Items, Intact
  <2> QED BY <2>1, <2>2, <2>3, <2>4, <2>5 DEF IInv
<1>20. CASE Interrupt
  <2>1. TypeOK'
    BY <1>0, <1>20, SnapshotAssumption DEF Interrupt, ScriptInv, TypeOK, Rows, Bytes, Items
  <2>2. EpochInv'
    BY <1>0, <1>20, SnapshotAssumption DEF Interrupt, EpochInv, DumpFirst, Items, TypeOK, Rows, Bytes
  <2>3. (ScriptInv /\ BackupInv)'
    BY <1>0, <1>20, SnapshotAssumption DEF Interrupt, ScriptInv, BackupInv, EpochInv, TypeOK, Rows, Bytes, Items
  <2>4. RestoreInv'
    BY <1>0, <1>20, SnapshotAssumption DEF Interrupt, RestoreInv, BackupInv, TypeOK, Rows, Bytes, Items
  <2>5. VerifyInv'
    BY <1>0, <1>20, SnapshotAssumption DEF Interrupt, VerifyInv, ScriptInv, TypeOK, Rows, Bytes, Items, Intact
  <2> QED BY <2>1, <2>2, <2>3, <2>4, <2>5 DEF IInv
<1>21. CASE UNCHANGED vars
  <2>1. TypeOK'
    BY <1>0, <1>21, SnapshotAssumption DEF vars, ScriptInv, TypeOK, Rows, Bytes, Items
  <2>2. EpochInv'
    BY <1>0, <1>21, SnapshotAssumption DEF vars, EpochInv, DumpFirst, Items, TypeOK, Rows, Bytes
  <2>3. (ScriptInv /\ BackupInv)'
    BY <1>0, <1>21, SnapshotAssumption DEF vars, ScriptInv, BackupInv, EpochInv, TypeOK, Rows, Bytes, Items
  <2>4. RestoreInv'
    BY <1>0, <1>21, SnapshotAssumption DEF vars, RestoreInv, BackupInv, TypeOK, Rows, Bytes, Items
  <2>5. VerifyInv'
    BY <1>0, <1>21, SnapshotAssumption DEF vars, VerifyInv, ScriptInv, TypeOK, Rows, Bytes, Items, Intact
  <2> QED BY <2>1, <2>2, <2>3, <2>4, <2>5 DEF IInv
<1> QED
  BY <1>1, <1>2, <1>3, <1>4, <1>5, <1>6, <1>7, <1>8, <1>9, <1>10, <1>11, <1>12, <1>13, <1>14, <1>15, <1>16, <1>17, <1>18, <1>19, <1>20, <1>21
     DEF Next, Application, Accident, Backup, Restore, Verify

LEMMA Always == Spec => []IInv
BY Initially, Inductively, PTL DEF Spec

-----------------------------------------------------------------------------
\* The stores, the backup directory and the script keep their types.
THEOREM TypeCorrect == Spec => []TypeOK
<1>1. IInv => TypeOK
  BY DEF IInv
<1> QED BY <1>1, Always, PTL

\* verify: storage_integrity=ok is true until something changes.
THEOREM VerdictsAreSound == Spec => []VerdictSound
<1>1. IInv => VerdictSound
  BY DEF IInv, VerifyInv, VerdictSound
<1> QED BY <1>1, Always, PTL

\* backup: a dump and a finished backup taken after it, with no pg_restore
\* between, are a recovery point.
THEOREM BackupsRecover == Spec => []RecoveryPoint
<1>1. IInv => RecoveryPoint
  BY DEF IInv, EpochInv, BackupInv, RecoveryStands, DumpFirst, RecoveryPoint, Items
<1> QED BY <1>1, Always, PTL

\* restore: a restore of a recovery point never stops at a bad file; one that
\* comes to its verification is complete.
THEOREM RestoresComplete == Spec => []RestoreComplete
<1>1. IInv => RestoreComplete
  BY DEF IInv, EpochInv, BackupInv, RestoreInv, RecoveryStands, RestoreComplete, Items, Intact
<1> QED BY <1>1, Always, PTL

=============================================================================
