---------------------------- MODULE StateBackup ----------------------------
(***************************************************************************)
(* Backup and restore of the state directory (shared/diagnostics_backup.py)*)
(* beside the workers that write it.  The content of a file is its version.*)
(* The catalog is an SQLite database in WAL mode (shared/catalog_schema.py)*)
(* so a commit goes to the -wal file first, which the backup leaves out,   *)
(* and reaches the catalog's own file when SQLite moves it there.          *)
(***************************************************************************)
EXTENDS Integers, FiniteSets

CONSTANTS StateFiles,   \* catalog.sqlite3, settings.json and the checkpoint files
          Catalog,      \* the one of them that is the catalog
          MaxVersion,   \* bound: versions of a file
          MaxBackups,   \* bound: backups and restores started
          NoVersion     \* the file is not there

ASSUME BackupAssumption == Catalog \in StateFiles /\ NoVersion \notin Nat

VARIABLES state,        \* what the files in the state directory hold
          wal,          \* the catalog as committed, its -wal file included
          paused,       \* what workers_paused answers
          backup,       \* create_state_backup, between its steps
          archive,      \* the archive on disk, and the backup it is of
          restore,      \* restore_state_backup, between its steps
          restored,     \* what the restore directory holds
          backupCalls   \* backups and restores started

backupVars == <<state, wal, paused, backup, archive, restore, restored, backupCalls>>

NotRunning == [phase |-> "none"]
NoFiles == [f \in StateFiles |-> NoVersion]
RestoreFailed(r) == IF r.phase = "run" THEN [r EXCEPT !.phase = "failed"] ELSE r
NoArchive == [whole |-> FALSE, manifest |-> NoFiles, members |-> NoFiles, of |-> NotRunning]

-----------------------------------------------------------------------------
\* A worker commits to the catalog or replaces another file.
WorkerWrites(f) ==
    /\ ~paused
    /\ IF f = Catalog
       THEN wal < MaxVersion /\ wal' = wal + 1 /\ UNCHANGED state
       ELSE state[f] < MaxVersion /\ state' = [state EXCEPT ![f] = @ + 1] /\ UNCHANGED wal
    /\ backup' = IF backup = NotRunning THEN backup ELSE [backup EXCEPT !.quiet = FALSE]
    /\ UNCHANGED <<paused, archive, restore, restored, backupCalls>>

\* SQLite moves the -wal file into the catalog, when it grows or when the last
\* connection closes.
CheckpointWal ==
    /\ state[Catalog] # wal
    /\ state' = [state EXCEPT ![Catalog] = wal]
    /\ UNCHANGED <<wal, paused, backup, archive, restore, restored, backupCalls>>

PauseOrResume ==
    /\ paused' = ~paused
    /\ UNCHANGED <<state, wal, backup, archive, restore, restored, backupCalls>>

\* workers_paused is asked once, at the start.
BackupAllowed == paused

\* create_state_backup: the workers must be paused; the entries are listed.
BeginBackup ==
    /\ backup.phase = "none" /\ backupCalls < MaxBackups /\ BackupAllowed
    /\ backup' = [phase |-> "hash", hashed |-> NoFiles, committed |-> wal, start |-> state,
                  quiet |-> TRUE]
    /\ backupCalls' = backupCalls + 1
    /\ UNCHANGED <<state, wal, paused, archive, restore, restored>>

\* _manifest: the hash and the size of one file.
HashFile(f) ==
    /\ backup.phase = "hash" /\ backup.hashed[f] = NoVersion
    /\ backup' = [backup EXCEPT !.hashed[f] = state[f]]
    /\ UNCHANGED <<state, wal, paused, archive, restore, restored, backupCalls>>

\* tarfile.open with "w:gz" empties an earlier archive, under a restore that reads
\* it; the manifest goes first.
OpenArchive ==
    /\ backup.phase = "hash" /\ \A f \in StateFiles : backup.hashed[f] # NoVersion
    /\ backup' = [backup EXCEPT !.phase = "add"]
    /\ archive' = [NoArchive EXCEPT !.manifest = backup.hashed]
    /\ restore' = RestoreFailed(restore)
    /\ UNCHANGED <<state, wal, paused, restored, backupCalls>>

AddFile(f) ==
    /\ backup.phase = "add" /\ archive.members[f] = NoVersion
    /\ archive' = [archive EXCEPT !.members[f] = state[f]]
    /\ UNCHANGED <<state, wal, paused, backup, restore, restored, backupCalls>>

\* The archive is closed and can be read from now on.
EndBackup ==
    /\ backup.phase = "add" /\ \A f \in StateFiles : archive.members[f] # NoVersion
    /\ archive' = [archive EXCEPT !.whole = TRUE, !.of = backup]
    /\ backup' = NotRunning
    /\ UNCHANGED <<state, wal, paused, restore, restored, backupCalls>>

-----------------------------------------------------------------------------
\* restore_state_backup: the directory must be empty; the manifest of an archive
\* that was not closed cannot be read.
BeginRestore ==
    /\ restore.phase # "run" /\ backupCalls < MaxBackups
    /\ restored = NoFiles /\ archive.whole
    /\ restore' = [phase |-> "run", archive |-> archive]
    /\ backupCalls' = backupCalls + 1
    /\ UNCHANGED <<state, wal, paused, backup, archive, restored>>

(* Mutant: the hash is not compared. *)
IntegrityIgnored(f) == TRUE

IntegrityKept(f) == restore.archive.members[f] = restore.archive.manifest[f]

\* One member: checked against the manifest, then written.
RestoreFile(f) ==
    /\ restore.phase = "run" /\ restored[f] = NoVersion
    /\ IF IntegrityKept(f)
       THEN restored' = [restored EXCEPT ![f] = restore.archive.members[f]] /\ UNCHANGED restore
       ELSE restore' = [restore EXCEPT !.phase = "failed"] /\ UNCHANGED restored
    /\ UNCHANGED <<state, wal, paused, backup, archive, backupCalls>>

EndRestore ==
    /\ restore.phase = "run" /\ \A f \in StateFiles : restored[f] # NoVersion
    /\ restore' = [restore EXCEPT !.phase = "done"]
    /\ UNCHANGED <<state, wal, paused, backup, archive, restored, backupCalls>>

\* The process dies: a half written archive or a half filled directory stays.
BackupDies ==
    /\ backup.phase # "none" \/ restore.phase = "run"
    /\ backup' = NotRunning
    /\ restore' = RestoreFailed(restore)
    /\ UNCHANGED <<state, wal, paused, archive, restored, backupCalls>>

BackupInit ==
    /\ state = [f \in StateFiles |-> 0] /\ wal = 0 /\ paused = FALSE
    /\ backup = NotRunning /\ restore = NotRunning /\ archive = NoArchive
    /\ restored = NoFiles /\ backupCalls = 0

BackupNext ==
    \/ \E f \in StateFiles : WorkerWrites(f) \/ HashFile(f) \/ AddFile(f) \/ RestoreFile(f)
    \/ CheckpointWal \/ PauseOrResume \/ BackupDies
    \/ BeginBackup \/ OpenArchive \/ EndBackup \/ BeginRestore \/ EndRestore

BackupSpec == BackupInit /\ [][BackupNext]_backupVars

-----------------------------------------------------------------------------
\* What a restore hands back as good is what the manifest of one backup recorded,
\* never files of two different backups or of a backup that did not finish; and when
\* no worker wrote while the backup ran, every file but the catalog is as it was when
\* the backup began (the catalog's file may have grown by commits made before).
RestoredIsOneBackup ==
    restore.phase = "done" =>
        /\ restored = restore.archive.manifest
        /\ restore.archive.of.quiet =>
               /\ \A f \in StateFiles \ {Catalog} : restored[f] = restore.archive.of.start[f]
               /\ restored[Catalog] <= restore.archive.of.committed

\* What create_state_backup says of itself: a consistent backup while the workers are
\* paused.  Every commit made before it began is in what is restored from it.
BackupIsConsistent ==
    restore.phase = "done" /\ restore.archive.of.quiet =>
        restored[Catalog] >= restore.archive.of.committed

-----------------------------------------------------------------------------
(* What an induction over the steps needs beside the property. *)

FileVersions == [StateFiles -> Nat \cup {NoVersion}]
BackupType ==
    [phase : {"hash", "add"}, hashed : FileVersions, committed : Nat,
     start : [StateFiles -> Nat], quiet : BOOLEAN]
ArchiveType ==
    [whole : BOOLEAN, manifest : FileVersions, members : FileVersions,
     of : BackupType \cup {NotRunning}]
RestoreType == [phase : {"run", "failed", "done"}, archive : ArchiveType]

BackupTypeOK ==
    /\ state \in [StateFiles -> Nat] /\ wal \in Nat
    /\ backup \in BackupType \cup {NotRunning}
    /\ archive \in ArchiveType
    /\ restore \in RestoreType \cup {NotRunning}
    /\ restored \in FileVersions

\* The files recorded are those there were when backup b began, if it was quiet.
IsOf(files, b) ==
    b.quiet => \A f \in StateFiles : files[f] # NoVersion =>
                   IF f = Catalog THEN files[f] <= b.committed ELSE files[f] = b.start[f]

\* A quiet backup has seen nothing move but the -wal file into the catalog.
QuietIsStill ==
    /\ state[Catalog] <= wal
    /\ backup.phase # "none" =>
          /\ backup.quiet => wal = backup.committed /\ IsOf(state, backup)
          /\ IsOf(backup.hashed, backup)

\* The manifest of the archive being written is what this backup hashed.
ManifestIsHashed ==
    backup.phase = "add" =>
        /\ ~archive.whole /\ archive.manifest = backup.hashed
        /\ \A f \in StateFiles : backup.hashed[f] # NoVersion

\* A closed archive is a complete and true record of its backup.
ArchiveIsSound(a) ==
    /\ a.of.phase # "none"
    /\ \A f \in StateFiles : a.manifest[f] # NoVersion
    /\ IsOf(a.manifest, a.of)

RestoreFollows ==
    restore.phase # "none" =>
        /\ ArchiveIsSound(restore.archive)
        /\ restore.phase # "failed" =>
              \A f \in StateFiles : restored[f] \in {NoVersion, restore.archive.manifest[f]}
        /\ restore.phase = "done" => \A f \in StateFiles : restored[f] # NoVersion

BackupInv ==
    /\ BackupTypeOK
    /\ QuietIsStill /\ ManifestIsHashed
    /\ archive.whole => ArchiveIsSound(archive)
    /\ RestoreFollows

=============================================================================
