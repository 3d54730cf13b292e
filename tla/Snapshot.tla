------------------------------- MODULE Snapshot -------------------------------
(***************************************************************************)
(* Backup, restore and verification of the two stores                      *)
(* (scripts/storage_snapshot.py, with the pg_dump and pg_restore commands  *)
(* of the operator).  The operator stops the application first, but may    *)
(* take the commands in any order, on the same backup directory again and  *)
(* again, and every command may end between any two of its steps.  A row   *)
(* stands for its checksum: the content its object must have.              *)
(***************************************************************************)
EXTENDS Naturals

CONSTANTS Datasets, Contents, Results,
          Absent, Torn,   \* no row, object or file; bytes of no known content
          MaxEpoch        \* bound on starts of the application and pg_restores

ASSUME SnapshotAssumption ==
  MaxEpoch \in Nat /\ Absent # Torn /\ {Absent, Torn} \cap Contents = {}

VARIABLES
  app,        \* the application runs
  epoch,      \* raised by what may change the rows: a start, a pg_restore (history)
  base,       \* the epoch of the last pg_restore (history)
  rows,       \* the datasets table
  runs,       \* results named by committed benchmark runs
  objects,    \* the raw bucket
  results,    \* the results bucket
  dump,       \* the last pg_dump
  files,      \* the backup directory
  manifest,   \* its manifest.json
  saved,      \* manifest.json is there and whole
  dirty,      \* a backup has begun since the manifest was written (history)
  command,    \* the command that runs; "recheck" is the verify of a restore
  todo,       \* items its loop has still to handle
  writing,    \* items whose file is open for writing
  verdict     \* the last verification passed and nothing changed since

era    == <<epoch, base>>
live   == <<rows, runs, objects, results>>
backed == <<dump, files, manifest, saved, dirty>>
script == <<command, todo, writing>>
vars   == <<app, era, live, backed, script, verdict>>

Rows == [Datasets -> Contents \cup {Absent}]
Bytes == [Datasets -> Contents \cup {Absent, Torn}]

TypeOK ==
  /\ app \in BOOLEAN
  /\ epoch \in 0..MaxEpoch /\ base \in 0..MaxEpoch
  /\ rows \in Rows
  /\ runs \subseteq Results
  /\ objects \in Bytes
  /\ results \subseteq Results
  /\ dump \in [rows : Rows, runs : SUBSET Results, epoch : 0..MaxEpoch]
  /\ files \in Bytes
  /\ manifest \in [items : Rows, epoch : 0..MaxEpoch, base : 0..MaxEpoch]
  /\ saved \in BOOLEAN /\ dirty \in BOOLEAN /\ verdict \in BOOLEAN
  /\ command \in {"none", "backup", "restore", "recheck", "verify"}
  /\ todo \subseteq Datasets
  /\ writing \subseteq todo
  /\ app => command = "none" /\ todo = {}

NoRows == [d \in Datasets |-> Absent]
Items(table) == {d \in Datasets : table[d] # Absent}

Init ==
  /\ app = FALSE /\ epoch = 0 /\ base = 0
  /\ rows = NoRows /\ runs = {}
  /\ objects = NoRows /\ results = {}
  /\ dump = [rows |-> NoRows, runs |-> {}, epoch |-> 0]
  /\ files = NoRows
  /\ manifest = [items |-> NoRows, epoch |-> 0, base |-> 0]
  /\ saved = FALSE /\ dirty = FALSE
  /\ command = "none" /\ todo = {} /\ writing = {}
  /\ verdict = FALSE

Quiet == ~app /\ command = "none"

NewEpoch == epoch < MaxEpoch /\ epoch' = epoch + 1

-----------------------------------------------------------------------------
(* The application, as far as a backup sees it, and accidents. *)

StartApp ==
  /\ Quiet
  /\ app' = TRUE
  /\ NewEpoch /\ verdict' = FALSE
  /\ UNCHANGED <<base, live, backed, script>>

StopApp ==
  /\ app /\ app' = FALSE
  /\ UNCHANGED <<era, live, backed, script, verdict>>

\* A new row is committed with its object; one that is there already under its
\* key must have the same content.
IngestDataset(d, c) ==
  /\ app
  /\ rows[d] = Absent /\ objects[d] \in {Absent, c}
  /\ rows' = [rows EXCEPT ![d] = c]
  /\ objects' = [objects EXCEPT ![d] = c]
  /\ UNCHANGED <<app, era, runs, results, backed, script, verdict>>

CommitResult(r) ==
  /\ app
  /\ Items(rows) # {}
  /\ runs' = runs \cup {r} /\ results' = results \cup {r}
  /\ UNCHANGED <<app, era, rows, objects, backed, script, verdict>>

\* An object is deleted or damaged from outside.
Damage(d) ==
  /\ Quiet
  /\ \E b \in {Absent, Torn} : objects' = [objects EXCEPT ![d] = b]
  /\ verdict' = FALSE
  /\ UNCHANGED <<app, era, rows, runs, results, backed, script>>

LoseVolume ==
  /\ Quiet
  /\ objects' = NoRows /\ results' = {}
  /\ verdict' = FALSE
  /\ UNCHANGED <<app, era, rows, runs, backed, script>>

-----------------------------------------------------------------------------
(* pg_dump and backup. *)

DumpDatabase ==
  /\ Quiet
  /\ dump' = [rows |-> rows, runs |-> runs, epoch |-> epoch]
  /\ UNCHANGED <<app, era, live, files, manifest, saved, dirty, script, verdict>>

BeginBackup ==
  /\ Quiet
  /\ command' = "backup" /\ todo' = Items(rows)
  /\ dirty' = TRUE
  /\ UNCHANGED <<app, era, live, dump, files, manifest, saved, writing, verdict>>

\* The object has been downloaded and matches its row; opening its file for
\* writing empties it.
OpenFile(d) ==
  /\ command = "backup" /\ writing = {}
  /\ d \in todo /\ objects[d] = rows[d]
  /\ writing' = {d}
  /\ files' = [files EXCEPT ![d] = Torn]
  /\ UNCHANGED <<app, era, live, dump, manifest, saved, dirty, command, todo, verdict>>

\* Variant: an object that cannot be read is skipped.
WriteFileOrSkip(d) ==
  /\ command = "backup" /\ d \in todo
  /\ files' = [files EXCEPT ![d] = IF d \in writing THEN rows[d] ELSE @]
  /\ writing' = writing \ {d} /\ todo' = todo \ {d}
  /\ UNCHANGED <<app, era, live, dump, manifest, saved, dirty, command, verdict>>

WriteFile(d) ==
  /\ d \in writing
  /\ files' = [files EXCEPT ![d] = rows[d]]
  /\ writing' = {} /\ todo' = todo \ {d}
  /\ UNCHANGED <<app, era, live, dump, manifest, saved, dirty, command, verdict>>

\* The manifest is written when every item has been copied; until it is, its file
\* is no JSON, which a restore refuses.
OpenManifest ==
  /\ command = "backup" /\ todo = {} /\ saved
  /\ saved' = FALSE
  /\ UNCHANGED <<app, era, live, dump, files, manifest, dirty, script, verdict>>

\* The items are those of the rows, which do not change while the application is
\* stopped.
EndBackup ==
  /\ command = "backup" /\ todo = {} /\ ~saved
  /\ manifest' = [items |-> rows, epoch |-> epoch, base |-> base]
  /\ saved' = TRUE /\ dirty' = FALSE
  /\ command' = "none"
  /\ UNCHANGED <<app, era, live, dump, files, todo, writing, verdict>>

-----------------------------------------------------------------------------
(* pg_restore, restore and verify. *)

\* pg_restore --clean empties a table before it is filled, and may fail between.
RestoreDatabase ==
  /\ Quiet
  /\ rows' \in {dump.rows, NoRows} /\ runs' \in {dump.runs, {}}
  /\ NewEpoch /\ base' = epoch' /\ verdict' = FALSE
  /\ UNCHANGED <<app, objects, results, backed, script>>

BeginRestore ==
  /\ Quiet /\ saved
  /\ command' = "restore" /\ todo' = Items(manifest.items)
  /\ UNCHANGED <<app, era, live, backed, writing, verdict>>

\* Variant: an object that is in the bucket is not uploaded again.
UploadMissing(d) ==
  /\ command = "restore"
  /\ d \in todo /\ files[d] = manifest.items[d]
  /\ objects' = [objects EXCEPT ![d] = IF @ = Absent THEN files[d] ELSE @]
  /\ todo' = todo \ {d}
  /\ verdict' = FALSE
  /\ UNCHANGED <<app, era, rows, runs, results, backed, command, writing>>

\* A file is uploaded if it has the size and checksum of its item; what it
\* replaces is not looked at.
Upload(d) ==
  /\ command = "restore"
  /\ d \in todo /\ files[d] = manifest.items[d]
  /\ objects' = [objects EXCEPT ![d] = files[d]]
  /\ todo' = todo \ {d}
  /\ verdict' = FALSE
  /\ UNCHANGED <<app, era, rows, runs, results, backed, command, writing>>

\* Variant: what has been uploaded is verified, not what the rows name.
EndRestoreOfItems ==
  /\ command = "restore" /\ todo = {}
  /\ command' = "recheck" /\ todo' = Items(manifest.items)
  /\ UNCHANGED <<app, era, live, backed, writing, verdict>>

\* A restore ends with verify, which starts from the rows.
EndRestore ==
  /\ command = "restore" /\ todo = {}
  /\ command' = "recheck" /\ todo' = Items(rows)
  /\ UNCHANGED <<app, era, live, backed, writing, verdict>>

BeginVerify ==
  /\ Quiet
  /\ command' = "verify" /\ todo' = Items(rows)
  /\ UNCHANGED <<app, era, live, backed, writing, verdict>>

CheckObject(d) ==
  /\ command \in {"recheck", "verify"}
  /\ d \in todo /\ objects[d] = rows[d]
  /\ todo' = todo \ {d}
  /\ UNCHANGED <<app, era, live, backed, command, writing, verdict>>

EndVerify ==
  /\ command \in {"recheck", "verify"} /\ todo = {}
  /\ command' = "none"
  /\ verdict' = TRUE
  /\ UNCHANGED <<app, era, live, backed, todo, writing>>

\* Variant: an interrupted command leaves its loop where it was.
Abandon ==
  /\ command # "none"
  /\ command' = "none" /\ writing' = {}
  /\ UNCHANGED <<app, era, live, backed, todo, verdict>>

\* A command ends early: a file or object that is missing or does not match, a
\* call that failed, the operator's interrupt, a crash.
Interrupt ==
  /\ command # "none"
  /\ command' = "none" /\ todo' = {} /\ writing' = {}
  /\ UNCHANGED <<app, era, live, backed, verdict>>

-----------------------------------------------------------------------------
Application ==
  \/ StartApp \/ StopApp
  \/ \E d \in Datasets, c \in Contents : IngestDataset(d, c)
  \/ \E r \in Results : CommitResult(r)
Accident == LoseVolume \/ \E d \in Datasets : Damage(d)
Backup ==
  \/ DumpDatabase \/ BeginBackup \/ OpenManifest \/ EndBackup
  \/ \E d \in Datasets : OpenFile(d) \/ WriteFile(d)
Restore ==
  \/ RestoreDatabase \/ BeginRestore \/ EndRestore
  \/ \E d \in Datasets : Upload(d)
Verify == BeginVerify \/ EndVerify \/ \E d \in Datasets : CheckObject(d)

Next == Application \/ Accident \/ Backup \/ Restore \/ Verify \/ Interrupt

Spec == Init /\ [][Next]_vars

-----------------------------------------------------------------------------
(* Properties. *)

Intact(d) == rows[d] # Absent => objects[d] = rows[d]

\* storage_integrity=ok (verify), until something changes: every row has its
\* object, whatever dump and backup were combined and interrupted before it.
VerdictSound == verdict => \A d \in Datasets : Intact(d)

\* The dump is not younger than the manifest, and no pg_restore came between:
\* the application may have run between the two and committed further rows.
DumpFirst == manifest.base <= dump.epoch /\ dump.epoch <= manifest.epoch

\* Such a dump and a finished backup, with no later backup begun into the same
\* directory.
RecoveryStands == saved /\ ~dirty /\ DumpFirst

\* backup: such a pair is a recovery point.  Every row of the dump has an item
\* with its checksum and a file with its bytes, whatever has become of the live
\* stores, whatever was committed between the dump and the backup, and whatever
\* earlier backups into the directory left behind.
RecoveryPoint ==
  RecoveryStands =>
    \A d \in Items(dump.rows) : /\ manifest.items[d] = dump.rows[d]
                                /\ files[d] = dump.rows[d]

\* restore: with the rows of the dump restored, it never stops at a bad file of
\* a recovery point; and when its uploads are done the verification passes,
\* whatever was in the bucket before, even if a later backup into the directory
\* was interrupted.
RestoreComplete ==
  (DumpFirst /\ rows = dump.rows) =>
    /\ (saved /\ ~dirty /\ command = "restore")
         => \A d \in todo : files[d] = manifest.items[d]
    /\ command = "recheck" => \A d \in Datasets : Intact(d)

\* "PostgreSQL and checksum-verified MinIO objects as one recovery point", with
\* "cross-store verification" (the repository's README): when verification has
\* passed on a restored recovery point, every committed benchmark run has its
\* result object.  Only the raw bucket is backed up and verified.
ResultsRecovered ==
  (/\ RecoveryStands /\ dump.epoch = manifest.epoch
   /\ rows = dump.rows /\ Items(rows) # {} /\ verdict)
    => runs \subseteq results

=============================================================================
