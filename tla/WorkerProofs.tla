---------------------------- MODULE WorkerProofs ----------------------------
(***************************************************************************)
(* Proofs about the workers and the state they keep: what the vault stored *)
(* and did not delete stays readable (Vault); a restore hands back one     *)
(* backup (StateBackup); what leaves the host was to leave it, and nothing *)
(* is lost where it is cut up (Enrichment); notifications keep their pace  *)
(* (Notifications); and an upgrade leaves a backup of what there was       *)
(* (Migrations).  None depends on how many files, processes, profiles,     *)
(* items, rules or migrations there are.                                   *)
(***************************************************************************)
EXTENDS Vault, StateBackup, Enrichment, Notifications, Migrations, FiniteSetTheorems,
        SequenceTheorems, TLAPS

(* The store begins without a key and without secrets (secret_store.py).    *)
LEMMA InitInv == VaultInit => VaultInv
<1> SUFFICES ASSUME VaultInit PROVE VaultInv
  OBVIOUS
<1> USE VaultAssumption DEF VaultInit, NoKey, NoFile
<1>1. VaultTypeOK
  <2>1. 0 \in 0 .. MaxKeys /\ 0 \in 0 .. MaxKeys + 1
    OBVIOUS
  <2>2. disturbed \in BOOLEAN
    BY Zenon
  <2> QED
    BY <2>1, <2>2, Zenon DEF VaultTypeOK
<1>2. SecretsSurvive
  BY DEF SecretsSurvive, Readable, Keys
<1>3. KeysHeld
  BY DEF KeysHeld, Filed, At
<1> QED
  BY <1>1, <1>2, <1>3 DEF VaultInv

-----------------------------------------------------------------------------
(* Every action keeps the types (secret_store.py:40-200).                   *)
LEMMA TypeStep == ASSUME VaultTypeOK, VaultNext PROVE VaultTypeOK'
<1> USE VaultAssumption DEF VaultTypeOK, At, Goto, NoKey, NoFile, Short, Torn
<1>1. ASSUME NEW p \in Holders, LoadKey(p) PROVE VaultTypeOK'
  BY <1>1 DEF LoadKey, KeyIsThere
<1>2. ASSUME NEW p \in Holders, CreateKey(p) PROVE VaultTypeOK'
  BY <1>2 DEF CreateKey, TruncateKey
<1>3. ASSUME NEW p \in Holders, Rotate(p) PROVE VaultTypeOK'
  BY <1>3 DEF Rotate, TruncateKey
<1>4. ASSUME NEW p \in Holders, WriteKey(p) PROVE VaultTypeOK'
  BY <1>4 DEF WriteKey
<1>5. ASSUME NEW p \in Holders, Die(p) PROVE VaultTypeOK'
  BY <1>5 DEF Die
<1>6. ASSUME NEW p \in Holders, NEW r \in Refs, Put(p, r) PROVE VaultTypeOK'
  BY <1>6 DEF Put, keyVars
<1>7. ASSUME NEW p \in Holders, NEW r \in Refs, Delete(p, r) PROVE VaultTypeOK'
  BY <1>7 DEF Delete, keyVars
<1>8. ASSUME NEW p \in Holders, NEW r \in Refs, Rewrite(p, r) PROVE VaultTypeOK'
  <2>1. held[p] \in 0 .. MaxKeys + 1 /\ MaxKeys + 1 \in 0 .. MaxKeys + 1
    OBVIOUS
  <2>2. records' \in [Refs -> 0 .. MaxKeys + 1]
    BY <1>8, <2>1 DEF Rewrite, EncryptAgain
  <2>3. rewriting' \in [Holders -> SUBSET Refs] /\ disturbed' \in BOOLEAN
    BY <1>8 DEF Rewrite
  <2> QED
    BY <1>8, <2>2, <2>3 DEF Rewrite
<1> QED
  BY <1>1, <1>2, <1>3, <1>4, <1>5, <1>6, <1>7, <1>8 DEF VaultNext

-----------------------------------------------------------------------------
(* What holds of an undisturbed store between two steps.                    *)
Undisturbed ==
    /\ KeysHeld
    /\ (\A p \in Holders : vpc[p] \notin {"keying", "rewriting"})
        => \A r \in Refs : Readable(r, keyFile) <=> r \in kept

(* A store that is undisturbed after a step was undisturbed before it: no   *)
(* step repairs what an interrupted key change broke.                       *)
LEMMA StaysDisturbed ==
    ASSUME VaultInv, VaultNext, ~disturbed'
    PROVE  ~disturbed /\ Undisturbed
<1>1. ~disturbed
  BY Zenon DEF VaultNext, LoadKey, CreateKey, Rotate, TruncateKey, WriteKey, Die, Put, Delete,
               Rewrite, keyVars
<1> QED
  BY <1>1, Zenon DEF VaultInv, SecretsSurvive, Undisturbed

(* The constructor opens the store with the key on disk, or finds it empty  *)
(* and goes on to create one (secret_store.py).                             *)
LEMMA LoadKeyKeeps ==
    ASSUME VaultTypeOK, Undisturbed, NEW p \in Holders, LoadKey(p), ~disturbed'
    PROVE  Undisturbed'
<1> USE VaultAssumption DEF VaultTypeOK, Undisturbed, At, NoKey, NoFile, Short, Keys
<1>1. Alone(p) \/ \A q \in Others(p) : vpc[q] \in {"closed", "open"}
  BY Zenon DEF LoadKey
<1>2. KeysHeld'
  BY <1>1 DEF KeysHeld, LoadKey, Goto, KeyIsThere, Alone, Others, Filed
<1> QED
  BY <1>2 DEF LoadKey, Goto, Readable

(* A first key is written over nothing, by a process alone with the store.  *)
LEMMA CreateKeyKeeps ==
    ASSUME VaultTypeOK, Undisturbed, NEW p \in Holders, CreateKey(p), ~disturbed'
    PROVE  Undisturbed'
<1> USE VaultAssumption DEF VaultTypeOK, Undisturbed, At, NoKey, NoFile, Short, Keys
<1>1. Alone(p)
  BY Zenon DEF CreateKey, TruncateKey
<1>2. kept = {} /\ Filed = {} /\ rewriting[p] = {}
  BY DEF KeysHeld, CreateKey
<1>3. Filed' = Filed /\ vpc' = [vpc EXCEPT ![p] = "keying"]
  BY DEF CreateKey, Goto, Filed
<1>4. held'[p] \in 1 .. MaxKeys /\ keyFile' # 0
  BY DEF CreateKey, TruncateKey
<1>5. KeysHeld'
  BY <1>1, <1>2, <1>3, <1>4 DEF KeysHeld, CreateKey, Alone, Others
<1> QED
  BY <1>3, <1>5

(* A rotation starts when every file can be read, so what it is to rewrite  *)
(* is exactly what is stored.                                               *)
LEMMA RotateKeeps ==
    ASSUME VaultTypeOK, Undisturbed, NEW p \in Holders, Rotate(p), ~disturbed'
    PROVE  Undisturbed'
<1> USE VaultAssumption DEF VaultTypeOK, Undisturbed, At, NoKey, NoFile, Short, Keys
<1>1. Alone(p)
  BY Zenon DEF Rotate, TruncateKey
<1>2. held[p] = keyFile /\ \A q \in Holders : vpc[q] \in {"open", "closed"}
  BY <1>1 DEF KeysHeld, Rotate, Alone, Others
<1>3. kept = Filed
  BY <1>2 DEF Rotate, Readable, Filed
<1>4. Filed' = Filed /\ vpc' = [vpc EXCEPT ![p] = "keying"] /\ rewriting'[p] = Filed
  BY DEF Rotate, Goto, Filed
<1>5. held'[p] \in 1 .. MaxKeys /\ keyFile' # 0
  BY DEF Rotate, TruncateKey
<1>6. KeysHeld'
  BY <1>1, <1>3, <1>4, <1>5 DEF KeysHeld, Rotate, Alone, Others
<1> QED
  BY <1>4, <1>6

(* The new key is on disk, and every file is still to be rewritten.         *)
LEMMA WriteKeyKeeps ==
    ASSUME VaultTypeOK, Undisturbed, NEW p \in Holders, WriteKey(p)
    PROVE  Undisturbed'
<1> USE VaultAssumption DEF VaultTypeOK, Undisturbed, At, NoKey, NoFile, Short, Keys
<1>1. Alone(p) /\ held[p] \in 1 .. MaxKeys /\ kept = Filed /\ rewriting[p] = Filed
  BY DEF KeysHeld, WriteKey
<1>2. Filed' = Filed /\ keyFile' = held[p] /\ keyFile' # 0 /\ UNCHANGED <<held, rewriting, kept>>
  BY <1>1 DEF WriteKey, Filed
<1>3. vpc' = [vpc EXCEPT ![p] = IF rewriting[p] = {} THEN "open" ELSE "rewriting"]
  BY DEF WriteKey, Goto
<1>4. KeysHeld'
  BY <1>1, <1>2, <1>3 DEF KeysHeld, Alone, Others
<1>5. CASE rewriting[p] = {}
  BY <1>1, <1>2, <1>4, <1>5 DEF Readable, WriteKey, Filed
<1>6. CASE rewriting[p] # {}
  BY <1>3, <1>4, <1>6
<1> QED
  BY <1>5, <1>6

(* A process that holds no half-done key change can die at any point.       *)
LEMMA DieKeeps ==
    ASSUME VaultTypeOK, Undisturbed, NEW p \in Holders, Die(p), ~disturbed'
    PROVE  Undisturbed'
<1> USE VaultAssumption DEF VaultTypeOK, Undisturbed, At, NoKey, NoFile, Short, Keys
<1>1. vpc[p] \notin {"keying", "rewriting"}
  BY Zenon DEF Die
<1>2. Filed' = Filed /\ vpc' = [vpc EXCEPT ![p] = "closed"]
  BY DEF Die, Goto, Filed
<1>3. KeysHeld'
  BY <1>1, <1>2 DEF KeysHeld, Die, Alone, Others
<1>4. ASSUME \A q \in Holders : vpc'[q] \notin {"keying", "rewriting"}
      PROVE  \A q \in Holders : vpc[q] \notin {"keying", "rewriting"}
  BY <1>1, <1>2, <1>4
<1> QED
  BY <1>3, <1>4 DEF Die, Readable

(* A put adds a readable record, or dies leaving one that nobody counts.    *)
LEMMA PutKeeps ==
    ASSUME VaultTypeOK, Undisturbed, NEW p \in Holders, NEW r \in Refs, Put(p, r)
    PROVE  Undisturbed'
<1> USE VaultAssumption DEF VaultTypeOK, Undisturbed, At, NoKey, NoFile, Short, Torn, Keys
<1>1. held[p] = keyFile /\ keyFile \in 1 .. MaxKeys /\ UNCHANGED <<keyVars, rewriting>>
  BY DEF KeysHeld, Put
<1>2. \A q \in Holders : vpc[q] \notin {"creating", "keying", "rewriting"}
  BY DEF KeysHeld, Put, Alone, Others
<1>3. \A q \in Holders : vpc'[q] \notin {"creating", "keying", "rewriting"}
                        /\ (vpc'[q] = "open" => vpc[q] = "open")
  BY <1>2 DEF Put, Goto
<1>4. KeysHeld'
  BY <1>1, <1>2, <1>3 DEF KeysHeld, keyVars
<1>5. \A s \in Refs : (records'[s] = keyFile) <=> s \in kept'
  BY <1>1, <1>2 DEF Put, Readable
<1> QED
  BY <1>1, <1>4, <1>5 DEF Readable, keyVars

(* A deletion takes away the file and the reference together.               *)
LEMMA DeleteKeeps ==
    ASSUME VaultTypeOK, Undisturbed, NEW p \in Holders, NEW r \in Refs, Delete(p, r)
    PROVE  Undisturbed'
<1> USE VaultAssumption DEF VaultTypeOK, Undisturbed, At, NoKey, NoFile, Short, Torn, Keys
<1>1. keyFile \in 1 .. MaxKeys /\ UNCHANGED <<keyVars, vpc, rewriting>>
  BY DEF KeysHeld, Delete
<1>2. \A q \in Holders : vpc[q] \notin {"creating", "keying", "rewriting"}
  BY DEF KeysHeld, Delete, Alone, Others
<1>3. KeysHeld'
  BY <1>1, <1>2 DEF KeysHeld, keyVars
<1>4. \A s \in Refs : (records'[s] = keyFile) <=> s \in kept'
  BY <1>1, <1>2 DEF Delete, Readable
<1> QED
  BY <1>1, <1>3, <1>4 DEF Readable, keyVars

(* A secret rewritten under the new key is readable; the others wait their  *)
(* turn, and the rotation ends with none left.                              *)
LEMMA RewriteKeeps ==
    ASSUME VaultTypeOK, Undisturbed, NEW p \in Holders, NEW r \in Refs, Rewrite(p, r), ~disturbed'
    PROVE  Undisturbed'
<1> USE VaultAssumption DEF VaultTypeOK, Undisturbed, At, NoKey, NoFile, Short, Torn, Keys
<1>1. /\ records' = [records EXCEPT ![r] = held[p]]
      /\ rewriting' = [rewriting EXCEPT ![p] = @ \ {r}]
      /\ vpc' = [vpc EXCEPT ![p] = IF rewriting[p] = {r} THEN "open" ELSE "rewriting"]
      /\ UNCHANGED <<keyFile, held, drawn, kept>> /\ r \in rewriting[p] /\ vpc[p] = "rewriting"
  BY Zenon DEF Rewrite, EncryptAgain, Goto
<1>2. /\ Alone(p) /\ held[p] = keyFile /\ keyFile \in 1 .. MaxKeys
      /\ kept = Filed /\ rewriting[p] \subseteq Filed
      /\ \A s \in Filed \ rewriting[p] : records[s] = keyFile
  BY <1>1 DEF KeysHeld
<1>3. Filed' = Filed
  BY <1>1, <1>2 DEF Filed
<1>4. \A s \in Filed \ rewriting'[p] : records'[s] = keyFile
  BY <1>1, <1>2
<1>5. KeysHeld'
  BY <1>1, <1>2, <1>3, <1>4 DEF KeysHeld, Alone, Others
<1>6. CASE rewriting[p] = {r}
  <2>1. \A s \in Refs : (records'[s] = keyFile) <=> s \in Filed'
    BY <1>1, <1>2, <1>3, <1>4, <1>6 DEF Filed
  <2> QED
    BY <1>1, <1>2, <1>3, <1>5, <2>1 DEF Readable
<1>7. CASE rewriting[p] # {r}
  BY <1>1, <1>5, <1>7
<1> QED
  BY <1>6, <1>7

-----------------------------------------------------------------------------
(* The invariant is inductive.                                              *)
LEMMA NextInv == VaultInv /\ [VaultNext]_vaultVars => VaultInv'
<1> SUFFICES ASSUME VaultInv, [VaultNext]_vaultVars PROVE VaultInv'
  OBVIOUS
<1>1. CASE VaultNext
  <2>1. VaultTypeOK'
    BY <1>1, TypeStep DEF VaultInv
  <2>2. ASSUME ~disturbed' PROVE Undisturbed'
    <3>1. VaultTypeOK /\ Undisturbed
      BY <1>1, <2>2, StaysDisturbed DEF VaultInv
    <3> QED
      BY <1>1, <2>2, <3>1, LoadKeyKeeps, CreateKeyKeeps, RotateKeeps, WriteKeyKeeps, DieKeeps,
         PutKeeps, DeleteKeeps, RewriteKeeps, Zenon DEF VaultNext
  <2> QED
    BY <2>1, <2>2, Zenon DEF VaultInv, SecretsSurvive, Undisturbed
<1>2. CASE UNCHANGED vaultVars
  BY <1>2, Zenon DEF VaultInv, VaultTypeOK, SecretsSurvive, KeysHeld, Filed, Readable, At, Alone,
              Others, vaultVars
<1> QED
  BY <1>1, <1>2

(* While keys are changed by processes that are alone and live, the store   *)
(* (secret_store.py) loses no secret over any number of restarts, deaths    *)
(* and rotations, and returns none that was deleted.                        *)
THEOREM SecretsAlwaysSurvive == VaultSpec => []SecretsSurvive
<1>1. VaultInv => SecretsSurvive
  BY DEF VaultInv
<1> QED
  BY <1>1, InitInv, NextInv, PTL DEF VaultSpec


-----------------------------------------------------------------------------
(* The state backup (shared/diagnostics_backup.py).                          *)

\* What restore and archive can be, by their phase.
LEMMA BackupShapes ==
  ASSUME BackupTypeOK
  PROVE  /\ backup.phase # "none" => backup \in BackupType
         /\ backup.phase = "none" => backup = NotRunning
         /\ restore.phase # "none" => restore \in RestoreType
         /\ restore.phase = "none" => restore = NotRunning
  BY DEF BackupTypeOK, BackupType, RestoreType, NotRunning

\* Nothing is backed up and nothing restored at first.
LEMMA BackupInitInv == BackupInit => BackupInv
<1> SUFFICES ASSUME BackupInit PROVE BackupInv
  OBVIOUS
<1> USE BackupAssumption DEF BackupInit
<1>1. NoFiles \in FileVersions
  BY DEF NoFiles, FileVersions
<1>2. NoArchive \in ArchiveType
  BY <1>1 DEF NoArchive, ArchiveType
<1>3. BackupTypeOK
  BY <1>1, <1>2 DEF BackupTypeOK
<1>4. QuietIsStill /\ ManifestIsHashed /\ RestoreFollows /\ ~archive.whole
  BY DEF QuietIsStill, ManifestIsHashed, RestoreFollows, NotRunning, NoArchive
<1> QED
  BY <1>3, <1>4 DEF BackupInv

\* Every action keeps the types.
LEMMA BackupTypeStep == ASSUME BackupTypeOK, BackupNext PROVE BackupTypeOK'
<1> USE BackupAssumption DEF BackupTypeOK
<1>0. NoFiles \in FileVersions
  BY DEF NoFiles, FileVersions
<1>1. ASSUME NEW f \in StateFiles, WorkerWrites(f) PROVE BackupTypeOK'
  <2>1. wal' \in Nat /\ state' \in [StateFiles -> Nat]
    BY <1>1 DEF WorkerWrites
  <2>2. backup' \in BackupType \cup {NotRunning}
    BY <1>1 DEF WorkerWrites, BackupType
  <2> QED
    BY <1>1, <2>1, <2>2 DEF WorkerWrites
<1>2. ASSUME NEW f \in StateFiles, HashFile(f) PROVE BackupTypeOK'
  <2>1. backup \in BackupType
    BY <1>2, BackupShapes DEF HashFile
  <2>2. backup' \in BackupType
    BY <1>2, <2>1 DEF HashFile, BackupType, FileVersions
  <2> QED
    BY <1>2, <2>2 DEF HashFile
<1>3. ASSUME NEW f \in StateFiles, AddFile(f) PROVE BackupTypeOK'
  <2>1. archive' \in ArchiveType
    BY <1>3 DEF AddFile, ArchiveType, FileVersions
  <2> QED
    BY <1>3, <2>1 DEF AddFile
<1>4. ASSUME NEW f \in StateFiles, RestoreFile(f) PROVE BackupTypeOK'
  <2>1. restore \in RestoreType
    BY <1>4, BackupShapes DEF RestoreFile
  <2>2. restore' \in RestoreType
    BY <1>4, <2>1 DEF RestoreFile, RestoreType
  <2>3. restore.archive.members[f] \in Nat \cup {NoVersion}
    BY <2>1 DEF RestoreType, ArchiveType, FileVersions
  <2>4. restored' \in FileVersions
    BY <1>4, <2>3 DEF RestoreFile, FileVersions
  <2> QED
    BY <1>4, <2>2, <2>4 DEF RestoreFile
<1>5. CASE CheckpointWal
  BY <1>5 DEF CheckpointWal
<1>6. CASE PauseOrResume
  BY <1>6 DEF PauseOrResume
<1>f. RestoreFailed(restore) \in RestoreType \cup {NotRunning}
  <2>1. CASE restore.phase = "run"
    <3>1. restore \in RestoreType
      BY <2>1, BackupShapes
    <3> QED
      BY <2>1, <3>1 DEF RestoreFailed, RestoreType
  <2>2. CASE restore.phase # "run"
    BY <2>2 DEF RestoreFailed
  <2> QED
    BY <2>1, <2>2
<1>7. CASE BackupDies
  BY <1>7, <1>f DEF BackupDies
<1>8. CASE BeginBackup
  BY <1>8, <1>0 DEF BeginBackup, BackupType
<1>9. CASE OpenArchive
  <2>1. backup \in BackupType
    BY <1>9, BackupShapes DEF OpenArchive
  <2>2. backup' \in BackupType /\ backup.hashed \in FileVersions
    BY <1>9, <2>1 DEF OpenArchive, BackupType
  <2>3. archive' \in ArchiveType
    BY <1>9, <2>2, <1>0 DEF OpenArchive, ArchiveType, NoArchive
  <2> QED
    BY <1>9, <2>2, <2>3, <1>f DEF OpenArchive
<1>10. CASE EndBackup
  <2>1. archive' \in ArchiveType
    BY <1>10 DEF EndBackup, ArchiveType
  <2> QED
    BY <1>10, <2>1 DEF EndBackup
<1>11. CASE BeginRestore
  <2>1. restore' \in RestoreType
    BY <1>11 DEF BeginRestore, RestoreType
  <2> QED
    BY <1>11, <2>1 DEF BeginRestore
<1>12. CASE EndRestore
  <2>1. restore \in RestoreType
    BY <1>12, BackupShapes DEF EndRestore
  <2>2. restore' \in RestoreType
    BY <1>12, <2>1 DEF EndRestore, RestoreType
  <2> QED
    BY <1>12, <2>2 DEF EndRestore
<1> QED
  BY <1>1, <1>2, <1>3, <1>4, <1>5, <1>6, <1>7, <1>8, <1>9, <1>10, <1>11, <1>12 DEF BackupNext

-----------------------------------------------------------------------------
\* What a backup has seen: QuietIsStill and ManifestIsHashed.
LEMMA BackupSeesStep ==
  ASSUME BackupInv, BackupTypeOK', BackupNext
  PROVE  QuietIsStill' /\ ManifestIsHashed'
<1> USE BackupAssumption
<1>t. BackupTypeOK /\ QuietIsStill /\ ManifestIsHashed
  BY DEF BackupInv
<1>s. state \in [StateFiles -> Nat] /\ wal \in Nat
  BY <1>t DEF BackupTypeOK
<1>b. /\ backup.phase # "none" => backup \in BackupType
      /\ backup.phase = "none" => backup = NotRunning
  BY <1>t, BackupShapes
<1>1. ASSUME NEW f \in StateFiles, WorkerWrites(f) PROVE QuietIsStill' /\ ManifestIsHashed'
  <2>1. state'[Catalog] <= wal'
    BY <1>1, <1>t, <1>s DEF WorkerWrites, QuietIsStill
  <2>2. CASE backup = NotRunning
    BY <1>1, <2>1, <2>2 DEF WorkerWrites, QuietIsStill, ManifestIsHashed, NotRunning
  <2>3. CASE backup # NotRunning
    <3>1. backup \in BackupType /\ backup' = [backup EXCEPT !.quiet = FALSE]
      BY <1>1, <1>b, <2>3 DEF WorkerWrites
    <3>2. /\ backup'.quiet = FALSE /\ backup'.phase = backup.phase
          /\ backup'.hashed = backup.hashed
      BY <3>1 DEF BackupType
    <3>3. IsOf(backup.hashed, backup)'
      BY <3>2 DEF IsOf
    <3> QED
      BY <1>1, <2>1, <3>2, <3>3, <1>t DEF WorkerWrites, QuietIsStill, ManifestIsHashed
  <2> QED
    BY <2>2, <2>3
<1>2. ASSUME NEW f \in StateFiles, HashFile(f) PROVE QuietIsStill' /\ ManifestIsHashed'
  <2>1. backup \in BackupType /\ backup.phase = "hash"
    BY <1>2, <1>b DEF HashFile
  <2>2. /\ backup'.phase = "hash" /\ backup'.quiet = backup.quiet
        /\ backup'.committed = backup.committed /\ backup'.start = backup.start
        /\ backup'.hashed = [backup.hashed EXCEPT ![f] = state[f]]
    BY <1>2, <2>1 DEF HashFile, BackupType
  <2>3. backup.hashed \in [StateFiles -> Nat \cup {NoVersion}]
    BY <2>1 DEF BackupType, FileVersions
  <2>4. /\ backup.quiet => wal = backup.committed /\ IsOf(state, backup)
        /\ IsOf(backup.hashed, backup) /\ state[Catalog] <= wal
    BY <2>1, <1>t DEF QuietIsStill
  <2>5. state[f] # NoVersion
    BY <1>s
  <2>6. IsOf(backup'.hashed, backup')
    BY <2>2, <2>3, <2>4, <2>5 DEF IsOf
  <2>7. UNCHANGED <<state, wal>>
    BY <1>2 DEF HashFile
  <2>8. backup.quiet => IsOf(state', backup')
    BY <2>2, <2>4, <2>7 DEF IsOf
  <2> QED
    BY <2>2, <2>4, <2>6, <2>7, <2>8 DEF QuietIsStill, ManifestIsHashed
<1>3. ASSUME NEW f \in StateFiles, AddFile(f) PROVE QuietIsStill' /\ ManifestIsHashed'
  <2>1. archive \in ArchiveType
    BY <1>t DEF BackupTypeOK
  <2>2. archive'.whole = archive.whole /\ archive'.manifest = archive.manifest
    BY <1>3, <2>1 DEF AddFile, ArchiveType
  <2> QED
    BY <1>3, <2>2, <1>t DEF AddFile, QuietIsStill, ManifestIsHashed, IsOf
<1>4. ASSUME UNCHANGED <<state, wal, backup, archive>>
      PROVE  QuietIsStill' /\ ManifestIsHashed'
  BY <1>4, <1>t DEF QuietIsStill, ManifestIsHashed, IsOf
<1>5. CASE CheckpointWal
  <2>1. state' = [state EXCEPT ![Catalog] = wal] /\ UNCHANGED <<wal, backup, archive>>
    BY <1>5 DEF CheckpointWal
  <2>2. state'[Catalog] <= wal' /\ ManifestIsHashed'
    BY <2>1, <1>s, <1>t DEF ManifestIsHashed
  <2>3. ASSUME backup.phase # "none"
        PROVE  /\ backup.quiet => wal' = backup.committed /\ IsOf(state', backup)
               /\ IsOf(backup.hashed, backup)
    <3>1. /\ backup.quiet => wal = backup.committed /\ IsOf(state, backup)
          /\ IsOf(backup.hashed, backup)
      BY <2>3, <1>t DEF QuietIsStill
    <3>2. backup.quiet => IsOf(state', backup)
      BY <3>1, <2>1, <1>s DEF IsOf
    <3> QED
      BY <3>1, <3>2, <2>1
  <2> QED
    BY <2>1, <2>2, <2>3 DEF QuietIsStill
<1>6. CASE BackupDies
  BY <1>6, <1>t DEF BackupDies, QuietIsStill, ManifestIsHashed, NotRunning
<1>7. CASE BeginBackup
  <2>1. /\ backup'.phase = "hash" /\ backup'.hashed = NoFiles /\ backup'.committed = wal
        /\ backup'.start = state /\ UNCHANGED <<state, wal>>
    BY <1>7 DEF BeginBackup
  <2>2. IsOf(backup'.hashed, backup')
    BY <2>1 DEF IsOf, NoFiles
  <2>3. state[Catalog] <= wal
    BY <1>t DEF QuietIsStill
  <2>4. IsOf(state', backup')
    BY <2>1, <2>3 DEF IsOf
  <2> QED
    BY <2>1, <2>2, <2>3, <2>4 DEF QuietIsStill, ManifestIsHashed
<1>8. CASE OpenArchive
  <2>1. backup \in BackupType /\ backup.phase = "hash"
    BY <1>8, <1>b DEF OpenArchive
  <2>2. /\ backup'.phase = "add" /\ backup'.quiet = backup.quiet
        /\ backup'.committed = backup.committed /\ backup'.start = backup.start
        /\ backup'.hashed = backup.hashed /\ UNCHANGED <<state, wal>>
    BY <1>8, <2>1 DEF OpenArchive, BackupType
  <2>3. ~archive'.whole /\ archive'.manifest = backup.hashed
    BY <1>8 DEF OpenArchive, NoArchive
  <2>4. ManifestIsHashed'
    BY <1>8, <2>2, <2>3 DEF OpenArchive, ManifestIsHashed
  <2>5. QuietIsStill'
    BY <2>1, <2>2, <1>t DEF QuietIsStill, IsOf
  <2> QED
    BY <2>4, <2>5
<1>9. CASE EndBackup
  BY <1>9, <1>t DEF EndBackup, QuietIsStill, ManifestIsHashed, NotRunning
<1> QED
  <2>1. ASSUME NEW f \in StateFiles, RestoreFile(f) PROVE QuietIsStill' /\ ManifestIsHashed'
    BY <2>1, <1>4 DEF RestoreFile
  <2>2. CASE PauseOrResume \/ BeginRestore \/ EndRestore
    BY <2>2, <1>4 DEF PauseOrResume, BeginRestore, EndRestore
  <2> QED
    BY <2>1, <2>2, <1>1, <1>2, <1>3, <1>5, <1>6, <1>7, <1>8, <1>9 DEF BackupNext

\* A closed archive stays a true record of its backup.
LEMMA ArchiveStep ==
  ASSUME BackupInv, BackupTypeOK', BackupNext, archive'.whole
  PROVE  ArchiveIsSound(archive')
<1> USE BackupAssumption
<1>t. BackupTypeOK /\ QuietIsStill /\ ManifestIsHashed
  BY DEF BackupInv
<1>1. CASE UNCHANGED archive
  <2>1. ArchiveIsSound(archive)
    BY <1>1 DEF BackupInv
  <2> QED
    BY <1>1, <2>1
<1>2. ASSUME NEW f \in StateFiles, AddFile(f) PROVE FALSE
  <2>1. archive \in ArchiveType /\ ~archive.whole
    BY <1>2, <1>t DEF AddFile, BackupTypeOK, ManifestIsHashed
  <2> QED
    BY <1>2, <2>1 DEF AddFile, ArchiveType
<1>3. CASE OpenArchive
  BY <1>3 DEF OpenArchive, NoArchive
<1>4. CASE EndBackup
  <2>1. archive \in ArchiveType /\ backup.phase = "add"
    BY <1>4, <1>t DEF EndBackup, BackupTypeOK
  <2>2. archive'.of = backup /\ archive'.manifest = backup.hashed
    BY <1>4, <2>1, <1>t DEF EndBackup, ArchiveType, ManifestIsHashed
  <2>3. IsOf(backup.hashed, backup) /\ \A f \in StateFiles : backup.hashed[f] # NoVersion
    BY <2>1, <1>t DEF QuietIsStill, ManifestIsHashed
  <2> QED
    BY <2>1, <2>2, <2>3 DEF ArchiveIsSound
<1> QED
  <2>1. \A f \in StateFiles :
           WorkerWrites(f) \/ HashFile(f) \/ RestoreFile(f) => UNCHANGED archive
    BY DEF WorkerWrites, HashFile, RestoreFile
  <2>2. CheckpointWal \/ PauseOrResume \/ BackupDies \/ BeginBackup \/ BeginRestore
           \/ EndRestore => UNCHANGED archive
    BY DEF CheckpointWal, PauseOrResume, BackupDies, BeginBackup, BeginRestore, EndRestore
  <2> QED
    BY <2>1, <2>2, <1>1, <1>2, <1>3, <1>4 DEF BackupNext

\* A restore holds what the manifest of its archive says, file by file.
LEMMA RestoreStep == ASSUME BackupInv, BackupTypeOK', BackupNext PROVE RestoreFollows'
<1> USE BackupAssumption
<1>t. BackupTypeOK /\ RestoreFollows /\ (archive.whole => ArchiveIsSound(archive))
  BY DEF BackupInv
<1>r. /\ restore.phase # "none" => restore \in RestoreType
      /\ restore.phase = "none" => restore = NotRunning
  BY <1>t, BackupShapes
<1>1. CASE UNCHANGED <<restore, restored>>
  BY <1>1, <1>t DEF RestoreFollows
<1>2. ASSUME restore' = RestoreFailed(restore), UNCHANGED restored PROVE RestoreFollows'
  <2>1. CASE restore.phase = "run"
    <3>1. restore'.phase = "failed" /\ restore'.archive = restore.archive
      BY <1>2, <1>r, <2>1 DEF RestoreFailed, RestoreType
    <3> QED
      BY <3>1, <2>1, <1>t DEF RestoreFollows
  <2>2. CASE restore.phase # "run"
    BY <1>2, <2>2, <1>1 DEF RestoreFailed
  <2> QED
    BY <2>1, <2>2
<1>3. ASSUME NEW f \in StateFiles, RestoreFile(f) PROVE RestoreFollows'
  <2>1. restore \in RestoreType /\ restore.phase = "run"
    BY <1>3, <1>r DEF RestoreFile
  <2>2. /\ ArchiveIsSound(restore.archive)
        /\ \A g \in StateFiles : restored[g] \in {NoVersion, restore.archive.manifest[g]}
    BY <2>1, <1>t DEF RestoreFollows
  <2>3. CASE IntegrityKept(f)
    <3>1. /\ restore' = restore
          /\ restored' = [restored EXCEPT ![f] = restore.archive.manifest[f]]
      BY <1>3, <2>3 DEF RestoreFile, IntegrityKept
    <3>2. restored \in [StateFiles -> Nat \cup {NoVersion}]
      BY <1>t DEF BackupTypeOK, FileVersions
    <3>3. \A g \in StateFiles : restored'[g] \in {NoVersion, restore.archive.manifest[g]}
      BY <2>2, <3>1, <3>2
    <3> QED
      BY <2>1, <2>2, <3>1, <3>3 DEF RestoreFollows
  <2>4. CASE ~IntegrityKept(f)
    <3>1. restore'.phase = "failed" /\ restore'.archive = restore.archive
      BY <1>3, <2>1, <2>4 DEF RestoreFile, RestoreType
    <3> QED
      BY <3>1, <2>2 DEF RestoreFollows
  <2> QED
    BY <2>3, <2>4
<1>4. CASE BeginRestore
  <2>1. /\ restore'.phase = "run" /\ restore'.archive = archive /\ archive.whole
        /\ restored' = NoFiles
    BY <1>4 DEF BeginRestore
  <2> QED
    BY <2>1, <1>t DEF RestoreFollows, NoFiles
<1>5. CASE EndRestore
  <2>1. restore \in RestoreType /\ restore.phase = "run" /\ UNCHANGED restored
    BY <1>5, <1>r DEF EndRestore
  <2>2. restore'.phase = "done" /\ restore'.archive = restore.archive
    BY <1>5, <2>1 DEF EndRestore, RestoreType
  <2> QED
    BY <1>5, <2>1, <2>2, <1>t DEF EndRestore, RestoreFollows
<1> QED
  <2>1. \A f \in StateFiles :
           WorkerWrites(f) \/ HashFile(f) \/ AddFile(f) => UNCHANGED <<restore, restored>>
    BY DEF WorkerWrites, HashFile, AddFile
  <2>2. CheckpointWal \/ PauseOrResume \/ BeginBackup \/ EndBackup
           => UNCHANGED <<restore, restored>>
    BY DEF CheckpointWal, PauseOrResume, BeginBackup, EndBackup
  <2>3. BackupDies \/ OpenArchive => restore' = RestoreFailed(restore) /\ UNCHANGED restored
    BY DEF BackupDies, OpenArchive
  <2> QED
    BY <2>1, <2>2, <2>3, <1>1, <1>2, <1>3, <1>4, <1>5 DEF BackupNext

\* BackupInv is inductive.
LEMMA BackupNextInv == BackupInv /\ [BackupNext]_backupVars => BackupInv'
<1> SUFFICES ASSUME BackupInv, [BackupNext]_backupVars PROVE BackupInv'
  OBVIOUS
<1>1. CASE BackupNext
  <2>1. BackupTypeOK'
    BY <1>1, BackupTypeStep DEF BackupInv
  <2>2. QuietIsStill' /\ ManifestIsHashed' /\ RestoreFollows'
    BY <1>1, <2>1, BackupSeesStep, RestoreStep
  <2>3. archive'.whole => ArchiveIsSound(archive')
    BY <1>1, <2>1, ArchiveStep
  <2> QED
    BY <2>1, <2>2, <2>3 DEF BackupInv
<1>2. CASE UNCHANGED backupVars
  BY <1>2 DEF backupVars, BackupInv, BackupTypeOK, QuietIsStill, ManifestIsHashed,
     RestoreFollows, IsOf, ArchiveIsSound
<1> QED
  BY <1>1, <1>2

(* A restore that ends well has put back exactly one finished backup, and a *)
(* backup that no worker disturbed is of the state it began with, whatever  *)
(* dies or is overwritten on the way (diagnostics_backup.py:52-137).        *)
THEOREM RestoredIsAlwaysOneBackup == BackupSpec => []RestoredIsOneBackup
<1>1. BackupInv => RestoredIsOneBackup
  <2> SUFFICES ASSUME BackupInv, restore.phase = "done" PROVE RestoredIsOneBackup
    BY DEF RestoredIsOneBackup
  <2>1. restore \in RestoreType
    BY BackupShapes DEF BackupInv
  <2>2. /\ ArchiveIsSound(restore.archive)
        /\ \A f \in StateFiles : restored[f] = restore.archive.manifest[f]
        /\ \A f \in StateFiles : restored[f] # NoVersion
    BY DEF BackupInv, RestoreFollows
  <2>3. restored \in FileVersions /\ restore.archive.manifest \in FileVersions
    BY <2>1 DEF BackupInv, BackupTypeOK, RestoreType, ArchiveType
  <2>4. restored = restore.archive.manifest
    BY <2>2, <2>3 DEF FileVersions
  <2>5. IsOf(restored, restore.archive.of)
    BY <2>2, <2>4 DEF ArchiveIsSound
  <2> QED
    BY <2>2, <2>4, <2>5, BackupAssumption DEF RestoredIsOneBackup, IsOf
<1> QED
  BY BackupInitInv, BackupNextInv, <1>1, PTL DEF BackupSpec

-----------------------------------------------------------------------------
(* Calls to AI providers (worker/privacy_gate.py, worker/ai_budget.py).      *)

\* A connection that would go to a public network is one the gate calls remote.
LEMMA PublicIsRemote ==
  ASSUME NEW h PROVE Network(h) = "public" => ClassifyEndpoint(h) = "remote"
  BY Zenon DEF ClassifyEndpoint

\* Where a connection may go.
LEMMA NetworkType ==
  ASSUME EnrichTypeOK, NEW h \in Hosts
  PROVE  Network(h) \in {"loopback", "private", "public", "none"}
<1> USE EndpointsAssumption
<1>1. CASE HostKind[h] \in {"lan", "name"}
  <2>1. resolves[h] \in {"private", "public", "none"}
    BY <1>1 DEF EnrichTypeOK, Names
  <2> QED
    BY <1>1, <2>1 DEF Network
<1>2. CASE HostKind[h] \notin {"lan", "name"}
  BY <1>2 DEF Network
<1> QED
  BY <1>1, <1>2

\* No call is in hand and no answer is known at first.
LEMMA EnrichInitInv == EnrichInit => EnrichInv
<1> SUFFICES ASSUME EnrichInit PROVE EnrichInv
  OBVIOUS
<1> USE DEF EnrichInit
<1>1. EnrichTypeOK
  BY DEF EnrichTypeOK
<1>2. EgressHolds
  BY DEF EgressHolds, NothingLeavesUnseen, StoredIsNotResent
<1>3. CallIsCleared /\ StoredIsKnown
  BY DEF CallIsCleared, StoredIsKnown, NoCall
<1> QED
  BY <1>1, <1>2, <1>3 DEF EnrichInv

\* A change of names, settings or acknowledgments leaves calls and answers alone.
LEMMA ChangeKeeps ==
  ASSUME EnrichInv, UNCHANGED <<call, cache, persisted, sent>>,
         resolves' \in [Names -> {"private", "public", "none"}]
  PROVE  EnrichInv'
  BY DEF EnrichInv, EnrichTypeOK, EgressHolds, NothingLeavesUnseen, StoredIsNotResent,
     CallIsCleared, StoredIsKnown

\* So does giving up the call in hand.
LEMMA EndCallKeeps ==
  ASSUME EnrichInv, call' = NoCall, UNCHANGED <<cache, persisted, sent, resolves>>
  PROVE  EnrichInv'
  BY DEF EnrichInv, EnrichTypeOK, EgressHolds, NothingLeavesUnseen, StoredIsNotResent,
     CallIsCleared, StoredIsKnown, NoCall

\* A call that is in hand has the fields of one.
LEMMA CallInHand == ASSUME EnrichTypeOK, call.at # "idle" PROVE call \in CallType
  BY DEF EnrichTypeOK, NoCall

\* The gate clears what it lets through (privacy_gate.py gate_decision).
LEMMA DecideKeeps ==
  ASSUME EnrichInv, NEW item \in Items, NEW p \in Profiles, Decide(item, p)
  PROVE  EnrichInv'
<1> USE EndpointsAssumption
<1>t. EnrichTypeOK
  BY DEF EnrichInv
<1>u. UNCHANGED <<cache, persisted, sent, resolves>>
  BY DEF Decide, others
<1>1. /\ call'.at = "ready" /\ call'.item = item /\ call'.profile = p /\ call'.attempt = 1
      /\ call'.network = Network(HostOf[p]) /\ call'.acked = Acknowledged(p)
      /\ call' = [at |-> "ready", item |-> item, profile |-> p, attempt |-> 1,
                  network |-> Network(HostOf[p]), acked |-> Acknowledged(p)]
  BY DEF Decide
<1>2. Network(HostOf[p]) \in {"loopback", "private", "public", "none"}
  BY <1>t, NetworkType
<1>3. Acknowledged(p) \in BOOLEAN
  BY DEF Acknowledged
<1>4. call' \in CallType
  BY <1>1, <1>2, <1>3 DEF CallType
<1>5. item \notin DeniedItems /\ cache[<<item, p>>] = Unset
  BY DEF Decide, GateDecision
<1>6. Network(HostOf[p]) = "public" => Acknowledged(p)
  BY PublicIsRemote DEF Decide, GateDecision
<1>7. CallIsCleared'
  BY <1>1, <1>5, <1>6, <1>u DEF CallIsCleared
<1>8. EnrichTypeOK'
  BY <1>4, <1>t, <1>u DEF EnrichTypeOK
<1> QED
  BY <1>7, <1>8, <1>u DEF EnrichInv, EgressHolds, NothingLeavesUnseen, StoredIsNotResent,
     StoredIsKnown

\* What a cleared call sends is allowed, and new (privacy_gate.py, ai_budget.py).
LEMMA TransportKeeps == ASSUME EnrichInv, Transport PROVE EnrichInv'
<1> USE EndpointsAssumption
<1>t. EnrichTypeOK /\ call \in CallType /\ call.at = "ready"
  BY CallInHand DEF EnrichInv, Transport
<1>u. UNCHANGED <<cache, persisted, resolves>>
  BY DEF Transport, others
<1>1. CASE token \/ ~AdapterAccepts(HostOf[call.profile])
  BY <1>1, <1>u, EndCallKeeps DEF Transport
<1>2. CASE ~(token \/ ~AdapterAccepts(HostOf[call.profile]))
  <2>1. call' = [call EXCEPT !.at = "waiting"]
    BY <1>2 DEF Transport
  <2>2. /\ call' \in CallType /\ call'.item = call.item /\ call'.profile = call.profile
        /\ call'.network = call.network /\ call'.acked = call.acked
    BY <2>1, <1>t DEF CallType
  <2>3. CallIsCleared' /\ EnrichTypeOK' /\ StoredIsKnown'
    <3>1. CallIsCleared'
      BY <2>2, <1>t, <1>u DEF EnrichInv, CallIsCleared
    <3>2. EnrichTypeOK'
      BY <2>2, <1>t, <1>u DEF EnrichTypeOK
    <3> QED
      BY <3>1, <3>2, <1>u DEF EnrichInv, StoredIsKnown
  <2>4. PICK s : /\ sent' = sent \cup {s}
                 /\ s.item = call.item /\ s.acked = call.acked
                 /\ s.moved = (s.to # call.network)
                 /\ s.again = (persisted[<<call.item, call.profile>>] # Unset)
    <3> DEFINE r == [item |-> call.item, profile |-> call.profile, acked |-> call.acked,
                     moved |-> Network(HostOf[call.profile]) # call.network,
                     to |-> Network(HostOf[call.profile]),
                     again |-> persisted[<<call.item, call.profile>>] # Unset]
    <3>1. sent' = sent \cup {r}
      BY <1>2 DEF Transport
    <3>2. /\ r.item = call.item /\ r.acked = call.acked
          /\ r.moved = (r.to # call.network)
          /\ r.again = (persisted[<<call.item, call.profile>>] # Unset)
      BY Zenon
    <3> HIDE DEF r
    <3> QED
      BY <3>1, <3>2, Zenon
  <2>5. /\ call.item \notin DeniedItems
        /\ call.network = "public" => call.acked
        /\ cache[<<call.item, call.profile>>] = Unset
    BY <1>t DEF EnrichInv, CallIsCleared
  <2>6. <<call.item, call.profile>> \in CacheKeys
    BY <1>t DEF CallType, CacheKeys
  <2>7. ~s.again
    BY <2>4, <2>5, <2>6 DEF EnrichInv, StoredIsKnown
  <2>8. s.item \notin DeniedItems /\ (s.to = "public" => s.acked \/ s.moved)
    BY <2>4, <2>5
  <2>9. EgressHolds'
    BY <2>4, <2>7, <2>8, <1>u DEF EnrichInv, EgressHolds, NothingLeavesUnseen, StoredIsNotResent
  <2> QED
    BY <2>3, <2>9 DEF EnrichInv
<1> QED
  BY <1>1, <1>2

\* A retry is the same call (provider_contract.py should_retry).
LEMMA FailedKeeps == ASSUME EnrichInv, NEW code, Failed(code) PROVE EnrichInv'
<1>u. UNCHANGED <<cache, persisted, sent, resolves>>
  BY DEF Failed, others
<1>1. CASE ~token /\ ShouldRetry(code)
  <2>1. call \in CallType /\ call.at = "waiting"
    BY CallInHand DEF EnrichInv, Failed
  <2>2. call' = [call EXCEPT !.at = "ready", !.attempt = @ + 1]
    BY <1>1 DEF Failed
  <2>3. /\ call' \in CallType /\ call'.item = call.item /\ call'.profile = call.profile
        /\ call'.network = call.network /\ call'.acked = call.acked
    <3>1. call.attempt + 1 \in Nat
      BY <2>1 DEF CallType
    <3>2. PICK n \in Nat : n = call.attempt + 1
      BY <3>1
    <3>3. call' = [call EXCEPT !.at = "ready", !.attempt = n]
      BY <2>2, <3>2
    <3> QED
      BY <2>1, <3>3 DEF CallType
  <2>4. CallIsCleared'
    BY <2>1, <2>3, <1>u DEF EnrichInv, CallIsCleared
  <2>5. EnrichTypeOK'
    BY <2>3, <1>u DEF EnrichInv, EnrichTypeOK
  <2> QED
    BY <2>4, <2>5, <1>u DEF EnrichInv, EgressHolds, NothingLeavesUnseen, StoredIsNotResent,
       StoredIsKnown
<1>2. CASE ~(~token /\ ShouldRetry(code))
  BY <1>2, <1>u, EndCallKeeps DEF Failed
<1> QED
  BY <1>1, <1>2

\* An answer is filed under its own profile, where there was none
\* (ai_budget.py cache_put, provider_contract.py).
LEMMA AnsweredKeeps == ASSUME EnrichInv, NEW from \in Profiles, Answered(from) PROVE EnrichInv'
<1>u. call' = NoCall /\ UNCHANGED <<persisted, sent, resolves>>
  BY DEF Answered, others
<1>1. CASE ~token /\ from = call.profile
  <2>1. call \in CallType
    BY CallInHand DEF EnrichInv, Answered
  <2> DEFINE k == <<call.item, call.profile>>
  <2>2. k \in CacheKeys /\ k[2] = call.profile /\ call.profile \in Profiles
    BY <2>1 DEF CallType, CacheKeys
  <2>3. cache' = [cache EXCEPT ![k] = call.profile] /\ cache[k] = Unset
    BY <1>1 DEF Answered, EnrichInv, CallIsCleared
  <2> HIDE DEF k
  <2>4. /\ cache \in [CacheKeys -> Profiles \cup {Unset}]
        /\ cache' \in [CacheKeys -> Profiles \cup {Unset}]
    BY <2>2, <2>3 DEF EnrichInv, EnrichTypeOK
  <2>5. EnrichTypeOK'
    BY <2>4, <1>u DEF EnrichInv, EnrichTypeOK
  <2>6. \A j \in CacheKeys : cache'[j] \in {Unset, j[2]}
    BY <2>2, <2>3, <2>4 DEF EnrichInv, EgressHolds, StoredIsNotResent
  <2>7. StoredIsKnown'
    BY <2>2, <2>3, <2>4, <1>u DEF EnrichInv, StoredIsKnown
  <2> QED
    BY <2>5, <2>6, <2>7, <1>u DEF EnrichInv, EgressHolds, NothingLeavesUnseen,
       StoredIsNotResent, CallIsCleared, NoCall
<1>2. CASE ~(~token /\ from = call.profile)
  BY <1>2, <1>u, EndCallKeeps DEF Answered
<1> QED
  BY <1>1, <1>2

\* EnrichInv is inductive.
LEMMA EnrichNextInv == EnrichInv /\ [EnrichNext]_enrichVars => EnrichInv'
<1> SUFFICES ASSUME EnrichInv, [EnrichNext]_enrichVars PROVE EnrichInv'
  OBVIOUS
<1>r. resolves \in [Names -> {"private", "public", "none"}]
  BY DEF EnrichInv, EnrichTypeOK
<1>1. ASSUME NEW h \in Names, NEW to \in {"private", "public", "none"}, Resolve(h, to)
      PROVE  EnrichInv'
  <2>1. resolves' \in [Names -> {"private", "public", "none"}]
    BY <1>1, <1>r DEF Resolve
  <2> QED
    BY <1>1, <2>1, ChangeKeeps DEF Resolve, Change
<1>2. ASSUME NEW p \in Profiles, SetEnabled(p) \/ Acknowledge(p) PROVE EnrichInv'
  BY <1>2, <1>r, ChangeKeeps DEF SetEnabled, Acknowledge, Change
<1>3. ASSUME NEW order \in SetToSeqs(Profiles), ReorderProfiles(order) PROVE EnrichInv'
  BY <1>3, <1>r, ChangeKeeps DEF ReorderProfiles, Change
<1>4. CASE AcknowledgeRemote \/ Revoke \/ Cancel
  BY <1>4, <1>r, ChangeKeeps DEF AcknowledgeRemote, Revoke, Cancel, Change
<1>5. ASSUME NEW h \in Hosts, Redirected(h) PROVE EnrichInv'
  BY <1>5, EndCallKeeps DEF Redirected, others
<1>6. CASE Persist
  <2>1. persisted' = cache /\ UNCHANGED <<call, cache, sent, resolves>>
    BY <1>6 DEF Persist, others
  <2> QED
    BY <2>1 DEF EnrichInv, EnrichTypeOK, EgressHolds, NothingLeavesUnseen, StoredIsNotResent,
       CallIsCleared, StoredIsKnown
<1>7. CASE RestartDriver
  <2>1. cache' = persisted /\ call' = NoCall /\ UNCHANGED <<persisted, sent, resolves>>
    BY <1>7 DEF RestartDriver, Restored
  <2>2. \A k \in CacheKeys : persisted[k] \in {Unset, k[2]}
    BY DEF EnrichInv, EgressHolds, StoredIsNotResent, StoredIsKnown
  <2> QED
    BY <2>1, <2>2 DEF EnrichInv, EnrichTypeOK, EgressHolds, NothingLeavesUnseen,
       StoredIsNotResent, CallIsCleared, StoredIsKnown, NoCall
<1>8. CASE UNCHANGED enrichVars
  BY <1>8, <1>r, ChangeKeeps DEF enrichVars
<1> QED
  BY <1>1, <1>2, <1>3, <1>4, <1>5, <1>6, <1>7, <1>8, DecideKeeps, TransportKeeps,
     FailedKeeps, AnsweredKeeps DEF EnrichNext

(* Content that is denied goes to no provider, and none goes to a public    *)
(* network unacknowledged unless its name moved after the privacy gate had  *)
(* looked; and what a stored answer covers is never sent again, restarts    *)
(* included (privacy_gate.py:60-180, ai_budget.py:136-205), for any set of  *)
(* profiles, hosts and items.                                               *)
THEOREM EgressAlwaysHolds == EnrichSpec => []EgressHolds
<1>1. EnrichInv => EgressHolds
  BY DEF EnrichInv
<1> QED
  BY EnrichInitInv, EnrichNextInv, <1>1, PTL DEF EnrichSpec

-----------------------------------------------------------------------------
(* Notifications (shared/notification_rules.py, worker/apprise_adapter.py).  *)

\* A notification delivered.
Delivery == [type : EventTypes, at : Nat, lost : BOOLEAN]

\* Nothing is sent at first.
LEMMA NotifyInitInv == NotifyInit => NotifyInv
<1> SUFFICES ASSUME NotifyInit PROVE NotifyInv
  OBVIOUS
<1> USE RulesAssumption DEF NotifyInit
<1>1. <<>> \in Seq(Delivery)
  OBVIOUS
<1>2. FALSE \in BOOLEAN
  OBVIOUS
<1>3. crossed \in [EventTypes -> BOOLEAN]
  BY <1>2, Zenon
<1>4. rules \in [EventTypes -> RuleType]
  BY Zenon
<1>5. NotifyTypeOK
  BY <1>1, <1>3, <1>4 DEF NotifyTypeOK, Delivery
<1>6. NotificationsPaced /\ DeliveredInTime /\ InflightIsLast /\ DeliveredIsRecorded
  BY DEF NotificationsPaced, DeliveredInTime, InflightIsLast, DeliveredIsRecorded
<1> QED
  BY <1>5, <1>6 DEF NotifyInv

\* What the operator has received of one moment was not due in quiet hours.
LoudAt(rule, at) ==
    ~ \E m \in {at % Day} :
        /\ rule.quiet # <<>>
        /\ m \in IF rule.quiet[1] <= rule.quiet[2]
                 THEN rule.quiet[1] .. rule.quiet[2] - 1
                 ELSE (rule.quiet[1] .. Day - 1) \cup (0 .. rule.quiet[2] - 1)

\* Two deliveries of a type are this far apart.
Apart(rule, type, first, second) ==
    /\ second - first >= rule.throttle
    /\ ~(type \in CountTypes /\ rule.once /\ rule.threshold # -1)

\* The property, delivery by delivery.
LEMMA PacedUnfolds ==
  NotificationsPaced <=>
      \A j \in DOMAIN delivered :
          /\ LoudAt(rules[delivered[j].type], delivered[j].at)
          /\ \A i \in 1 .. j - 1 :
                delivered[i].type = delivered[j].type /\ ~delivered[i].lost =>
                    Apart(rules[delivered[j].type], delivered[j].type,
                          delivered[i].at, delivered[j].at)
  BY Zenon DEF NotificationsPaced, LoudAt, Apart

\* The check for quiet hours covers every minute of them (_in_quiet_hours).
LEMMA QuietHoursCovered ==
  ASSUME NEW rule \in RuleType, NEW now \in Nat, ~InQuietHours(rule, now)
  PROVE  LoudAt(rule, now)
<1> USE RulesAssumption
<1>1. PICK m \in 0 .. Day - 1 : m = now % Day
  OBVIOUS
<1>2. CASE rule.quiet = <<>>
  BY <1>2 DEF LoudAt
<1>3. CASE rule.quiet # <<>>
  <2>1. rule.quiet[1] \in Int /\ rule.quiet[2] \in Int
    BY <1>3 DEF RuleType
  <2>2. ~(IF rule.quiet[1] <= rule.quiet[2]
          THEN rule.quiet[1] <= m /\ m < rule.quiet[2]
          ELSE m >= rule.quiet[1] \/ m < rule.quiet[2])
    BY <1>1, <1>3 DEF InQuietHours
  <2>3. m \notin IF rule.quiet[1] <= rule.quiet[2]
                 THEN rule.quiet[1] .. rule.quiet[2] - 1
                 ELSE (rule.quiet[1] .. Day - 1) \cup (0 .. rule.quiet[2] - 1)
    BY <1>1, <2>1, <2>2
  <2> QED
    BY <1>1, <2>3, Zenon DEF LoudAt
<1> QED
  BY <1>2, <1>3

\* A step that sends and records nothing: time passes, an event comes or goes.
LEMMA NothingSentKeeps ==
  ASSUME NotifyInv, UNCHANGED <<rules, lastSent, crossed, inflight, delivered>>,
         clock' \in Nat, clock <= clock',
         event' \in [type : EventTypes, count : Nat] \cup {Nothing}
  PROVE  NotifyInv'
<1>1. NotifyTypeOK'
  BY DEF NotifyInv, NotifyTypeOK
<1>2. NotificationsPaced' /\ InflightIsLast' /\ DeliveredIsRecorded'
  BY DEF NotifyInv, NotificationsPaced, InflightIsLast, DeliveredIsRecorded, Counted
<1>3. DeliveredInTime'
  <2>1. \A i \in DOMAIN delivered : delivered[i].at \in Nat
    <3>1. delivered \in Seq(Delivery)
      BY DEF NotifyInv, NotifyTypeOK, Delivery
    <3>2. \A i \in DOMAIN delivered : delivered[i] \in Delivery
      BY <3>1
    <3> QED
      BY <3>2 DEF Delivery
  <2>2. clock \in Nat
    BY DEF NotifyInv, NotifyTypeOK
  <2> QED
    BY <2>1, <2>2 DEF NotifyInv, DeliveredInTime
<1> QED
  BY <1>1, <1>2, <1>3 DEF NotifyInv

\* What the service accepts respects the rule of its type (evaluate_notification).
LEMMA SendKeeps == ASSUME NotifyInv, Send PROVE NotifyInv'
<1> USE RulesAssumption
<1> DEFINE n == Len(delivered)
           t == event.type
           d == [type |-> t, at |-> clock, lost |-> FALSE]
<1>t. /\ delivered \in Seq(Delivery) /\ n \in Nat /\ clock \in Nat
      /\ rules \in [EventTypes -> RuleType] /\ lastSent \in [EventTypes -> Int]
      /\ crossed \in [EventTypes -> BOOLEAN]
  BY DEF NotifyInv, NotifyTypeOK, Delivery
<1>e. t \in EventTypes
  BY DEF Send, NotifyInv, NotifyTypeOK
<1>u. inflight = Nothing /\ UNCHANGED <<rules, clock, event, lastSent, crossed>>
  BY DEF Send
<1>m. Matches(t, event.count)
  BY DEF Send
<1>r. rules[t] \in RuleType
  BY <1>t, <1>e
<1>1. delivered' = Append(delivered, d)
  BY DEF Send
<1>d. d \in Delivery
  <2>1. FALSE \in BOOLEAN
    OBVIOUS
  <2> QED
    BY <1>t, <1>e, <2>1 DEF Delivery
<1>2. /\ delivered' \in Seq(Delivery) /\ Len(delivered') = n + 1
      /\ \A i \in 1 .. n : delivered'[i] = delivered[i]
      /\ delivered'[n + 1] = d
  <2> HIDE DEF d
  <2> QED
    BY <1>1, <1>t, <1>d
<1>3. DOMAIN delivered = 1 .. n /\ DOMAIN delivered' = 1 .. n + 1
  BY <1>2, <1>t
<1>4. \A i \in 1 .. n : delivered[i] \in Delivery
  BY <1>t, <1>3
<1>f. d.type = t /\ d.at = clock /\ ~d.lost
  OBVIOUS
<1>c. NextCrossed(t) \in BOOLEAN
  BY <1>t, <1>e DEF NextCrossed
<1>i. /\ inflight'.type = t /\ inflight'.at = clock /\ inflight'.crossed = NextCrossed(t)
      /\ inflight' \in [type : EventTypes, at : Nat, crossed : BOOLEAN]
  BY <1>c, <1>e, <1>t DEF Send
<1> HIDE DEF t, d, n
<1>5. NotifyTypeOK'
  BY <1>2, <1>u, <1>i DEF NotifyInv, NotifyTypeOK, Delivery
<1>6. InflightIsLast'
  <2>1. t \in CountTypes /\ rules'[t].threshold # -1 => NextCrossed(t)
    BY <1>u DEF NextCrossed
  <2>2. delivered' # <<>>
    BY <1>2, <1>t
  <2>3. Counted(inflight.type)' => inflight'.crossed
    BY <2>1, <1>i DEF Counted
  <2> QED
    BY <1>i, <1>2, <1>f, <2>2, <2>3 DEF InflightIsLast
<1>7. DeliveredInTime'
  <2>1. \A i \in 1 .. n : delivered[i].at <= clock /\ delivered[i].at \in Nat
    BY <1>3, <1>4 DEF NotifyInv, DeliveredInTime, Delivery
  <2>2. \A i, j \in 1 .. n : i < j => delivered[i].at <= delivered[j].at
    BY <1>3 DEF NotifyInv, DeliveredInTime
  <2>3. \A i \in 1 .. n + 1 : i \in 1 .. n \/ i = n + 1
    BY <1>t
  <2>4. \A i \in 1 .. n + 1 : delivered'[i].at <= clock'
    BY <2>1, <2>3, <1>2, <1>f, <1>u, <1>t
  <2>5. \A i, j \in 1 .. n + 1 : i < j => delivered'[i].at <= delivered'[j].at
    <3> SUFFICES ASSUME NEW i \in 1 .. n + 1, NEW j \in 1 .. n + 1, i < j
                 PROVE  delivered'[i].at <= delivered'[j].at
      OBVIOUS
    <3>1. i \in 1 .. n
      BY <1>t
    <3>2. CASE j \in 1 .. n
      BY <3>1, <3>2, <2>2, <1>2
    <3>3. CASE j = n + 1
      BY <3>1, <3>3, <2>1, <1>2, <1>f
    <3> QED
      BY <3>2, <3>3, <2>3
  <2> QED
    BY <2>4, <2>5, <1>3 DEF DeliveredInTime
<1>8. DeliveredIsRecorded'
  <2>1. inflight' # Nothing
    BY <1>i
  <2>2. ASSUME NEW i \in 1 .. n, ~delivered[i].lost
        PROVE  /\ delivered[i].at <= lastSent[delivered[i].type]
               /\ Counted(delivered[i].type) => crossed[delivered[i].type]
    BY <2>2, <1>3, <1>u DEF NotifyInv, DeliveredIsRecorded
  <2>3. \A i \in 1 .. n + 1 : i # n + 1 => i \in 1 .. n
    BY <1>t
  <2>4. \A x : Counted(x)' = Counted(x)
    BY <1>u DEF Counted
  <2> QED
    BY <2>1, <2>2, <2>3, <2>4, <1>2, <1>3, <1>u, Zenon DEF DeliveredIsRecorded
<1>9. NotificationsPaced'
  <2>1. ASSUME NEW i \in 1 .. n, delivered[i].type = t, ~delivered[i].lost
        PROVE  Apart(rules[t], t, delivered[i].at, clock)
    <3>1. /\ delivered[i].at <= lastSent[t]
          /\ Counted(t) => crossed[t]
      BY <2>1, <1>3, <1>u DEF NotifyInv, DeliveredIsRecorded
    <3>2. delivered[i].at \in Nat /\ lastSent[t] \in Int /\ rules[t].throttle \in Int
      BY <1>4, <1>t, <1>e, <1>r DEF Delivery, RuleType, t
    <3>3. delivered[i].at <= clock
      BY <1>3 DEF NotifyInv, DeliveredInTime
    <3>4. ~Throttled(rules[t], t) /\ ~(t \in CountTypes /\ rules[t].once /\ crossed[t])
      BY <1>m DEF Matches
    <3>5. clock - delivered[i].at >= rules[t].throttle
      BY <3>1, <3>2, <3>3, <3>4, <1>t DEF Throttled
    <3>6. ~(t \in CountTypes /\ rules[t].once /\ rules[t].threshold # -1)
      BY <3>1, <3>4 DEF Counted
    <3> QED
      BY <3>5, <3>6 DEF Apart
  <2>2. LoudAt(rules[t], clock)
    BY <1>m, <1>r, <1>t, QuietHoursCovered DEF Matches
  <2>3. ASSUME NEW j \in 1 .. n
        PROVE  /\ LoudAt(rules[delivered[j].type], delivered[j].at)
               /\ \A i \in 1 .. j - 1 :
                     delivered[i].type = delivered[j].type /\ ~delivered[i].lost =>
                         Apart(rules[delivered[j].type], delivered[j].type,
                               delivered[i].at, delivered[j].at)
    BY <1>3, PacedUnfolds DEF NotifyInv
  <2>4. ASSUME NEW j \in 1 .. n + 1
        PROVE  /\ LoudAt(rules'[delivered'[j].type], delivered'[j].at)
               /\ \A i \in 1 .. j - 1 :
                     delivered'[i].type = delivered'[j].type /\ ~delivered'[i].lost =>
                         Apart(rules'[delivered'[j].type], delivered'[j].type,
                               delivered'[i].at, delivered'[j].at)
    <3>1. \A i \in 1 .. j - 1 : i \in 1 .. n
      BY <1>t
    <3>2. CASE j \in 1 .. n
      BY <3>1, <3>2, <2>3, <1>2, <1>u
    <3>3. CASE j = n + 1
      <4>1. delivered'[j].type = t /\ delivered'[j].at = clock /\ rules' = rules
        BY <3>3, <1>2, <1>f, <1>u
      <4> QED
        BY <4>1, <3>1, <2>1, <2>2, <1>2
    <3> QED
      BY <3>2, <3>3, <1>t
  <2>5. NotificationsPaced' <=>
           \A j \in DOMAIN delivered' :
               /\ LoudAt(rules'[delivered'[j].type], delivered'[j].at)
               /\ \A i \in 1 .. j - 1 :
                     delivered'[i].type = delivered'[j].type /\ ~delivered'[i].lost =>
                         Apart(rules'[delivered'[j].type], delivered'[j].type,
                               delivered'[i].at, delivered'[j].at)
    BY Zenon DEF NotificationsPaced, LoudAt, Apart
  <2> QED
    BY <2>4, <2>5, <1>3
<1> QED
  BY <1>5, <1>6, <1>7, <1>8, <1>9 DEF NotifyInv

\* The record covers the delivery just made, which is the latest of its type.
LEMMA RecordKeeps == ASSUME NotifyInv, Record PROVE NotifyInv'
<1> USE RulesAssumption
<1> DEFINE n == Len(delivered)
           t == inflight.type
<1>t. /\ delivered \in Seq(Delivery) /\ n \in Nat
      /\ lastSent \in [EventTypes -> Int] /\ crossed \in [EventTypes -> BOOLEAN]
      /\ inflight # Nothing
      /\ inflight \in [type : EventTypes, at : Nat, crossed : BOOLEAN]
  BY DEF Record, NotifyInv, NotifyTypeOK, Delivery
<1>u. inflight' = Nothing /\ event' = Nothing /\ UNCHANGED <<rules, clock, delivered>>
  BY DEF Record
<1>1. /\ lastSent' = [lastSent EXCEPT ![t] = inflight.at]
      /\ crossed' = [crossed EXCEPT ![t] = inflight.crossed]
  BY DEF Record
<1>2. /\ n \in 1 .. n /\ t = delivered[n].type /\ inflight.at = delivered[n].at
      /\ Counted(t) => inflight.crossed
  BY <1>t DEF NotifyInv, InflightIsLast
<1>3. DOMAIN delivered = 1 .. n /\ \A i \in 1 .. n : delivered[i] \in Delivery
  BY <1>t
<1>4. t \in EventTypes /\ inflight.at \in Nat /\ inflight.crossed \in BOOLEAN
  BY <1>t
<1> HIDE DEF t, n
<1>5. NotifyTypeOK'
  <2>1. lastSent' \in [EventTypes -> Int]
    BY <1>1, <1>4, <1>t
  <2>2. crossed' \in [EventTypes -> BOOLEAN]
    BY <1>1, <1>4, <1>t, Zenon
  <2> QED
    BY <2>1, <2>2, <1>u DEF NotifyInv, NotifyTypeOK
<1>6. NotificationsPaced' /\ DeliveredInTime' /\ InflightIsLast'
  BY <1>u, ZenonT(30) DEF NotifyInv, NotificationsPaced, DeliveredInTime, InflightIsLast
<1>7. ASSUME NEW i \in 1 .. n, ~delivered[i].lost
      PROVE  /\ delivered[i].at <= lastSent'[delivered[i].type]
             /\ Counted(delivered[i].type) => crossed'[delivered[i].type]
  <2>1. delivered[i].type \in EventTypes /\ delivered[i].at \in Nat
    BY <1>3 DEF Delivery
  <2>2. CASE delivered[i].type = t
    <3>1. delivered[i].at <= inflight.at
      <4>1. CASE i = n
        BY <4>1, <1>2, <1>4
      <4>2. CASE i # n
        BY <4>2, <1>2, <1>3, <1>t DEF NotifyInv, DeliveredInTime
      <4> QED
        BY <4>1, <4>2
    <3>2. lastSent'[t] = inflight.at /\ crossed'[t] = inflight.crossed
      BY <1>1, <1>4, <1>t
    <3> QED
      BY <2>2, <3>1, <3>2, <1>2
  <2>3. CASE delivered[i].type # t
    <3>1. i # n
      BY <2>3, <1>2
    <3>2. /\ delivered[i].at <= lastSent[delivered[i].type]
          /\ Counted(delivered[i].type) => crossed[delivered[i].type]
      BY <1>7, <1>3, <3>1 DEF NotifyInv, DeliveredIsRecorded, n
    <3>3. /\ lastSent'[delivered[i].type] = lastSent[delivered[i].type]
          /\ crossed'[delivered[i].type] = crossed[delivered[i].type]
      BY <2>1, <2>3, <1>1, <1>t
    <3> QED
      BY <3>2, <3>3
  <2> QED
    BY <2>2, <2>3
<1>8. DeliveredIsRecorded'
  <2>1. \A x : Counted(x)' = Counted(x)
    BY <1>u DEF Counted
  <2> QED
    BY <1>3, <1>7, <2>1, <1>u DEF DeliveredIsRecorded
<1> QED
  BY <1>5, <1>6, <1>8 DEF NotifyInv

\* A death loses the record of the last delivery, and nothing else.
LEMMA WorkerDiesKeeps == ASSUME NotifyInv, WorkerDies PROVE NotifyInv'
<1> USE RulesAssumption
<1>u. inflight' = Nothing /\ UNCHANGED <<rules, clock, event, lastSent, crossed>>
  BY DEF WorkerDies
<1>1. CASE inflight = Nothing
  <2>1. UNCHANGED <<inflight, delivered>>
    BY <1>1, <1>u DEF WorkerDies
  <2> QED
    BY <1>u, <2>1, NothingSentKeeps DEF NotifyInv, NotifyTypeOK
<1>2. CASE inflight # Nothing
  <2> DEFINE n == Len(delivered)
  <2>t. delivered \in Seq(Delivery) /\ n \in 1 .. n /\ n \in Nat
    BY <1>2 DEF NotifyInv, NotifyTypeOK, Delivery, InflightIsLast
  <2>1. delivered' = [delivered EXCEPT ![n].lost = TRUE]
    BY <1>2 DEF WorkerDies
  <2>3. DOMAIN delivered = 1 .. n /\ \A i \in 1 .. n : delivered[i] \in Delivery
    BY <2>t
  <2> HIDE DEF n
  <2>4. PICK r : r = [delivered[n] EXCEPT !.lost = TRUE]
    OBVIOUS
  <2>5. r \in Delivery /\ r.type = delivered[n].type /\ r.at = delivered[n].at /\ r.lost
    BY <2>3, <2>4, <2>t DEF Delivery
  <2>6. delivered' = [delivered EXCEPT ![n] = r]
    BY <2>1, <2>4
  <2>7. /\ delivered' \in Seq(Delivery) /\ DOMAIN delivered' = 1 .. n
        /\ \A i \in 1 .. n : i # n => delivered'[i] = delivered[i]
        /\ delivered'[n] = r
    BY <2>3, <2>5, <2>6, <2>t
  <2>8. \A i \in 1 .. n : /\ delivered'[i].type = delivered[i].type
                          /\ delivered'[i].at = delivered[i].at
                          /\ delivered[i].lost => delivered'[i].lost
                          /\ delivered'[n].lost
    BY <2>5, <2>7
  <2>9. NotifyTypeOK'
    BY <2>7, <1>u DEF NotifyInv, NotifyTypeOK, Delivery
  <2>10. DeliveredInTime'
    BY <2>3, <2>7, <2>8, <1>u DEF NotifyInv, DeliveredInTime
  <2>11. InflightIsLast'
    BY <1>u DEF InflightIsLast
  <2>12. DeliveredIsRecorded'
    <3>1. ASSUME NEW i \in 1 .. n, ~delivered'[i].lost
          PROVE  /\ delivered[i].at <= lastSent[delivered[i].type]
                 /\ Counted(delivered[i].type) => crossed[delivered[i].type]
      <4>1. i # n /\ ~delivered[i].lost
        BY <3>1, <2>8, <2>t
      <4> QED
        BY <4>1, <2>3 DEF NotifyInv, DeliveredIsRecorded, n
    <3>2. \A x : Counted(x)' = Counted(x)
      BY <1>u DEF Counted
    <3> QED
      BY <3>1, <3>2, <2>7, <2>8, <1>u DEF DeliveredIsRecorded
  <2>13. NotificationsPaced'
    <3>1. ASSUME NEW j \in 1 .. n
          PROVE  /\ LoudAt(rules[delivered[j].type], delivered[j].at)
                 /\ \A i \in 1 .. j - 1 :
                       delivered[i].type = delivered[j].type /\ ~delivered[i].lost =>
                           Apart(rules[delivered[j].type], delivered[j].type,
                                 delivered[i].at, delivered[j].at)
      BY <2>3, PacedUnfolds DEF NotifyInv
    <3>2. ASSUME NEW j \in 1 .. n
          PROVE  /\ LoudAt(rules'[delivered'[j].type], delivered'[j].at)
                 /\ \A i \in 1 .. j - 1 :
                       delivered'[i].type = delivered'[j].type /\ ~delivered'[i].lost =>
                           Apart(rules'[delivered'[j].type], delivered'[j].type,
                                 delivered'[i].at, delivered'[j].at)
      <4>1. \A i \in 1 .. j - 1 : i \in 1 .. n
        BY <2>t
      <4> QED
        BY <3>1, <4>1, <2>8, <1>u
    <3>3. NotificationsPaced' <=>
             \A j \in DOMAIN delivered' :
                 /\ LoudAt(rules'[delivered'[j].type], delivered'[j].at)
                 /\ \A i \in 1 .. j - 1 :
                       delivered'[i].type = delivered'[j].type /\ ~delivered'[i].lost =>
                           Apart(rules'[delivered'[j].type], delivered'[j].type,
                                 delivered'[i].at, delivered'[j].at)
      BY Zenon DEF NotificationsPaced, LoudAt, Apart
    <3> QED
      BY <3>2, <3>3, <2>7
  <2> QED
    BY <2>9, <2>10, <2>11, <2>12, <2>13 DEF NotifyInv
<1> QED
  BY <1>1, <1>2

\* NotifyInv is inductive.
LEMMA NotifyNextInv == NotifyInv /\ [NotifyNext]_notifyVars => NotifyInv'
<1> SUFFICES ASSUME NotifyInv, [NotifyNext]_notifyVars PROVE NotifyInv'
  OBVIOUS
<1>t. clock \in Nat /\ event \in [type : EventTypes, count : Nat] \cup {Nothing}
  BY DEF NotifyInv, NotifyTypeOK
<1>1. CASE Tick
  BY <1>1, <1>t, NothingSentKeeps DEF Tick
<1>2. CASE Skip
  BY <1>2, <1>t, NothingSentKeeps DEF Skip
<1>3. ASSUME NEW raised \in BOOLEAN, SendFails(raised) PROVE NotifyInv'
  BY <1>3, <1>t, NothingSentKeeps DEF SendFails
<1>4. ASSUME NEW type \in EventTypes, NEW count \in 0 .. MaxCount, Emit(type, count)
      PROVE  NotifyInv'
  BY <1>4, <1>t, NothingSentKeeps, RulesAssumption DEF Emit
<1>5. CASE UNCHANGED notifyVars
  BY <1>5, <1>t, NothingSentKeeps DEF notifyVars
<1> QED
  BY <1>1, <1>2, <1>3, <1>4, <1>5, SendKeeps, RecordKeeps, WorkerDiesKeeps DEF NotifyNext

(* Whatever the rules, no notification arrives in quiet hours, those of one *)
(* type keep the throttle apart and a threshold notifies once, except after *)
(* a delivery whose record was lost with the worker                         *)
(* (notification_rules.py evaluate_notification).                           *)
THEOREM NotificationsAlwaysPaced == NotifySpec => []NotificationsPaced
<1>1. NotifyInv => NotificationsPaced
  BY DEF NotifyInv
<1> QED
  BY NotifyInitInv, NotifyNextInv, <1>1, PTL DEF NotifySpec

-----------------------------------------------------------------------------
(* The upgrade of the catalog (migrations/runner.py).                        *)

\* The file of a migrator's backup.
BackupFile == [made : BOOLEAN, whole : BOOLEAN, of : Catalogs, by : SUBSET Migrators]
\* Where a migrator can be.
Places == {"idle", "backup", "copying", "written", "apply"}

\* The newest release is one a process knows.
LEMMA NewestIsKnown ==
  MaxTarget \in Nat /\ \A m \in Migrators : TargetOf[m] \in 0 .. MaxTarget
<1> DEFINE T == {TargetOf[m] : m \in Migrators}
<1>1. \E n \in T : \A k \in T : k <= n
  BY MigratorsAssumption
<1>2. MaxTarget \in T /\ \A k \in T : k <= MaxTarget
  BY <1>1, Zenon DEF MaxTarget, Greatest
<1> QED
  BY <1>2, MigratorsAssumption

\* A catalog is its version.
LEMMA CatalogIsVersion ==
  ASSUME NEW c \in Catalogs
  PROVE  Len(c) \in 0 .. MaxTarget /\ c = UpTo(Len(c))
<1>1. PICK n \in 0 .. MaxTarget : c = UpTo(n)
  BY DEF Catalogs
<1>2. Len(c) = n
  BY <1>1, NewestIsKnown DEF UpTo
<1> QED
  BY <1>1, <1>2

\* The versions recorded are those up to the current one (current_schema_version).
LEMMA VersionIsLength ==
  ASSUME MigrateTypeOK
  PROVE  /\ history = UpTo(Len(history)) /\ Len(history) \in 0 .. MaxTarget
         /\ Versions = 1 .. Len(history) /\ CurrentVersion = Len(history)
<1>1. history = UpTo(Len(history)) /\ Len(history) \in 0 .. MaxTarget
  BY CatalogIsVersion DEF MigrateTypeOK
<1> DEFINE n == Len(history)
<1>n. n \in Nat
  BY <1>1, NewestIsKnown
<1>2. DOMAIN history = 1 .. n /\ \A i \in 1 .. n : history[i] = i
  <2> HIDE DEF n
  <2>1. history = [i \in 1 .. n |-> i]
    BY <1>1 DEF UpTo, n
  <2> QED
    BY <2>1
<1>3. Versions = 1 .. n
  BY <1>2 DEF Versions
<1>4. CurrentVersion = n
  <2>1. CASE n = 0
    <3>1. history = <<>>
      BY <2>1, <1>2, <1>1 DEF UpTo
    <3> QED
      BY <2>1, <3>1 DEF CurrentVersion
  <2>2. CASE n # 0
    <3>1. history # <<>>
      BY <2>2
    <3>2. n \in 1 .. n /\ \A k \in 1 .. n : k <= n
      BY <2>2, <1>n
    <3>3. \A x \in 1 .. n : (\A k \in 1 .. n : k <= x) => x = n
      BY <3>2, <1>n
    <3>4. Greatest(1 .. n) = n
      BY <3>2, <3>3, Zenon DEF Greatest
    <3> QED
      BY <3>1, <3>4, <1>3 DEF CurrentVersion
  <2> QED
    BY <2>1, <2>2
<1> QED
  BY <1>1, <1>3, <1>4

\* Two members of a finite set count as two.
LEMMA TwoAreTwo ==
  ASSUME NEW S, IsFiniteSet(S), NEW a \in S, NEW b \in S, a # b PROVE Cardinality(S) > 1
<1>1. {a, b} \subseteq S
  OBVIOUS
<1>2. IsFiniteSet({a, b}) /\ Cardinality({a, b}) = 2
  <2>1. IsFiniteSet({a}) /\ Cardinality({a}) = 1
    BY FS_Singleton
  <2>2. IsFiniteSet({a} \cup {b}) /\ Cardinality({a} \cup {b}) = Cardinality({a}) + 1
    BY <2>1, FS_AddElement
  <2>3. {a} \cup {b} = {a, b}
    OBVIOUS
  <2> QED
    BY <2>1, <2>2, <2>3
<1>3. Cardinality({a, b}) <= Cardinality(S) /\ Cardinality(S) \in Nat
  BY <1>1, FS_Subset, FS_CardinalityType
<1> QED
  BY <1>2, <1>3

\* A catalog of an earlier release or none, and no process at work.
LEMMA MigrateInitInv == MigrateInit => MigrateInv
<1> SUFFICES ASSUME MigrateInit PROVE MigrateInv
  OBVIOUS
<1> USE DEF MigrateInit
<1>1. PICK v \in 0 .. MaxTarget - 1 : history = UpTo(v)
  BY DEF UpTo
<1>2. v \in 0 .. MaxTarget /\ 0 \in 0 .. MaxTarget
  BY NewestIsKnown
<1>3. history \in Catalogs
  BY <1>1, <1>2 DEF Catalogs
<1>4. <<>> \in Catalogs
  <2>1. UpTo(0) = <<>>
    BY DEF UpTo
  <2> QED
    BY <1>2, <2>1 DEF Catalogs
<1>5. NoBackup \in BackupFile
  BY <1>4 DEF NoBackup, BackupFile
<1>6. backups \in [BackupNames -> BackupFile]
  BY <1>5
<1>7. /\ dbExists \in BOOLEAN /\ existed \in [Migrators -> BOOLEAN]
  BY Zenon
<1>8. MigrateTypeOK
  BY <1>2, <1>3, <1>6, <1>7 DEF MigrateTypeOK, BackupFile
<1>9. UpgradesRecoverable
  BY <1>8, VersionIsLength DEF UpgradesRecoverable, UpTo
<1>10. AtWork /\ BackupsInTime /\ BackupsLeft
  BY DEF AtWork, BackupsInTime, BackupsLeft, NoBackup
<1> QED
  BY <1>8, <1>9, <1>10 DEF MigrateInv

\* The backup a process goes by has a name.
LEMMA BackupIsNamed ==
  ASSUME MigrateTypeOK, NEW m \in Migrators
  PROVE  BackupOf(m) \in BackupNames /\ BackupOf(m)[1] = seen[m] /\ seen[m] \in Nat
  BY NewestIsKnown DEF MigrateTypeOK, BackupOf, BackupNames

\* A process that gives up leaves everything as it is.
LEMMA GiveUpKeeps ==
  ASSUME MigrateInv, NEW m \in Migrators, MGoto(m, "idle"),
         UNCHANGED <<history, dbExists, backups, seen, existed, upgrades>>
  PROVE  MigrateInv'
<1>m. mpc \in [Migrators -> Places] /\ mpc' = [mpc EXCEPT ![m] = "idle"]
  BY DEF MigrateInv, MigrateTypeOK, Places, MGoto
<1>1. mpc' \in [Migrators -> Places]
  BY <1>m DEF Places
<1>2. \A p \in Migrators : mpc'[p] = mpc[p] \/ mpc'[p] = "idle"
  BY <1>m
<1>3. MigrateTypeOK'
  BY <1>1 DEF MigrateInv, MigrateTypeOK, Places
<1>4. UpgradesRecoverable' /\ BackupsInTime'
  BY DEF MigrateInv, UpgradesRecoverable, BackupsInTime
<1>5. AtWork'
  BY <1>2 DEF MigrateInv, AtWork, BackupOf
<1>6. BackupsLeft'
  <2> SUFFICES ASSUME NEW u \in upgrades
               PROVE  /\ u.backup[1] < Len(history)
                      /\ u.kept => \E p \in backups[u.backup].by :
                                      mpc'[p] = "idle" \/ u.backup[1] < seen[p]
    BY DEF BackupsLeft
  <2>1. backups[u.backup].by \subseteq Migrators
    BY DEF MigrateInv, MigrateTypeOK
  <2> QED
    BY <2>1, <1>2 DEF MigrateInv, BackupsLeft
<1> QED
  BY <1>3, <1>4, <1>5, <1>6 DEF MigrateInv

\* A process that looks sees the version there is, so one that made an upgrade sees
\* more than the version it was made from.
LEMMA ExamineKeeps == ASSUME MigrateInv, NEW m \in Migrators, Examine(m) PROVE MigrateInv'
<1>t. MigrateTypeOK
  BY DEF MigrateInv
<1>v. CurrentVersion = Len(history) /\ Len(history) \in 0 .. MaxTarget /\ MaxTarget \in Nat
  BY <1>t, VersionIsLength, NewestIsKnown
<1>u. /\ UNCHANGED <<history, backups, upgrades>> /\ dbExists' = TRUE
      /\ seen' = [seen EXCEPT ![m] = Len(history)]
      /\ existed' = [existed EXCEPT ![m] = dbExists]
  BY <1>v DEF Examine
<1>1. PICK there \in {"idle", "backup", "apply"} :
         /\ mpc' = [mpc EXCEPT ![m] = there]
         /\ there # "idle" => Len(history) < TargetOf[m]
         /\ there = "apply" => ~dbExists
  BY <1>v DEF Examine, MGoto
<1>2. MigrateTypeOK'
  <2>1. mpc' \in [Migrators -> Places]
    BY <1>1, <1>t DEF MigrateTypeOK, Places
  <2>2. seen' \in [Migrators -> 0 .. MaxTarget]
    BY <1>u, <1>v, <1>t DEF MigrateTypeOK
  <2>3. existed' \in [Migrators -> BOOLEAN] /\ dbExists' \in BOOLEAN
    BY <1>u, <1>t, Zenon DEF MigrateTypeOK
  <2> QED
    BY <2>1, <2>2, <2>3, <1>u, <1>t DEF MigrateTypeOK, Places
<1>3. UpgradesRecoverable' /\ BackupsInTime'
  BY <1>u DEF MigrateInv, UpgradesRecoverable, BackupsInTime
<1>4. ASSUME NEW p \in Migrators, p # m
      PROVE  mpc'[p] = mpc[p] /\ seen'[p] = seen[p] /\ existed'[p] = existed[p]
  BY <1>4, <1>1, <1>u, <1>t DEF MigrateTypeOK
<1>5. mpc'[m] = there /\ seen'[m] = Len(history) /\ existed'[m] = dbExists
  BY <1>1, <1>u, <1>t DEF MigrateTypeOK
<1>6. AtWork'
  <2> SUFFICES ASSUME NEW p \in Migrators, mpc'[p] # "idle"
               PROVE  /\ seen'[p] < TargetOf[p] /\ seen'[p] <= Len(history)
                      /\ mpc'[p] = "written" => p \in backups[BackupOf(p)'].by
                      /\ mpc'[p] = "apply" /\ existed'[p] =>
                            p \in backups[BackupOf(p)'].by /\ backups[BackupOf(p)'].whole
    BY <1>u DEF AtWork
  <2>1. CASE p = m
    BY <2>1, <1>1, <1>5, <1>v
  <2>2. CASE p # m
    <3>1. BackupOf(p)' = BackupOf(p)
      BY <2>2, <1>4 DEF BackupOf
    <3> QED
      BY <2>2, <3>1, <1>4 DEF MigrateInv, AtWork
  <2> QED
    BY <2>1, <2>2
<1>7. BackupsLeft'
  <2> SUFFICES ASSUME NEW u \in upgrades
               PROVE  /\ u.backup[1] < Len(history)
                      /\ u.kept => \E p \in backups[u.backup].by :
                                      mpc'[p] = "idle" \/ u.backup[1] < seen'[p]
    BY <1>u DEF BackupsLeft
  <2>1. backups[u.backup].by \subseteq Migrators
    BY <1>t DEF MigrateTypeOK
  <2>2. /\ u.backup[1] < Len(history)
        /\ u.kept => \E p \in backups[u.backup].by : mpc[p] = "idle" \/ u.backup[1] < seen[p]
    BY DEF MigrateInv, BackupsLeft
  <2> QED
    BY <2>1, <2>2, <1>4, <1>5
<1> QED
  BY <1>2, <1>3, <1>6, <1>7 DEF MigrateInv

\* The same process goes on to a place where it has no backup yet.
LEMMA CheckBackupKeeps ==
  ASSUME MigrateInv, NEW m \in Migrators, CheckBackup(m) PROVE MigrateInv'
<1>u. UNCHANGED <<history, dbExists, backups, seen, existed, upgrades>>
  BY DEF CheckBackup
<1>1. CASE backups[BackupOf(m)].made
  BY <1>1, <1>u, GiveUpKeeps DEF CheckBackup
<1>2. CASE ~backups[BackupOf(m)].made
  <2>1. mpc[m] = "backup" /\ mpc' = [mpc EXCEPT ![m] = "copying"]
    BY <1>2 DEF CheckBackup, MGoto
  <2>2. mpc \in [Migrators -> Places]
    BY DEF MigrateInv, MigrateTypeOK, Places
  <2>3. /\ mpc' \in [Migrators -> Places] /\ mpc'[m] = "copying"
        /\ \A p \in Migrators : p # m => mpc'[p] = mpc[p]
    BY <2>1, <2>2 DEF Places
  <2>4. MigrateTypeOK' /\ UpgradesRecoverable' /\ BackupsInTime'
    BY <1>u, <2>3 DEF MigrateInv, MigrateTypeOK, Places, UpgradesRecoverable, BackupsInTime
  <2>5. AtWork'
    BY <1>u, <2>1, <2>3 DEF MigrateInv, AtWork, BackupOf
  <2>6. BackupsLeft'
    <3> SUFFICES ASSUME NEW u \in upgrades
                 PROVE  /\ u.backup[1] < Len(history)
                        /\ u.kept => \E p \in backups[u.backup].by :
                                        mpc'[p] = "idle" \/ u.backup[1] < seen[p]
      BY <1>u DEF BackupsLeft
    <3>1. backups[u.backup].by \subseteq Migrators
      BY DEF MigrateInv, MigrateTypeOK
    <3>2. \A p \in Migrators : mpc[p] = "idle" => mpc'[p] = "idle"
      BY <2>1, <2>3
    <3> QED
      BY <3>1, <3>2 DEF MigrateInv, BackupsLeft
  <2> QED
    BY <2>4, <2>5, <2>6 DEF MigrateInv
<1> QED
  BY <1>1, <1>2

\* A backup that changes hands: what the two steps of a copy have in common.
LEMMA CopyKeeps ==
  ASSUME MigrateInv, NEW m \in Migrators, NEW file \in BackupFile, NEW there \in Places,
         UNCHANGED <<history, dbExists, seen, existed, upgrades>>,
         mpc' = [mpc EXCEPT ![m] = there], mpc[m] \in {"copying", "written"},
         there = "apply" => file.whole,
         backups' = [backups EXCEPT ![BackupOf(m)] = file],
         backups[BackupOf(m)].by \cup {m} = file.by,
         backups[BackupOf(m)].whole => file.whole,
         file.whole => Len(file.of) \in seen[m] .. Len(history),
         \A u \in upgrades : u.backup = BackupOf(m) /\ u.kept =>
             (file.whole /\ file.of = u.before) \/ Cardinality(file.by) > 1
  PROVE  MigrateInv'
<1>t. MigrateTypeOK /\ mpc \in [Migrators -> Places] /\ backups \in [BackupNames -> BackupFile]
  BY DEF MigrateInv, MigrateTypeOK, BackupFile, Places
<1>n. BackupOf(m) \in BackupNames /\ BackupOf(m)[1] = seen[m] /\ seen[m] \in Nat
  BY <1>t, BackupIsNamed
<1>1. /\ backups' \in [BackupNames -> BackupFile] /\ backups'[BackupOf(m)] = file
      /\ \A k \in BackupNames : k # BackupOf(m) => backups'[k] = backups[k]
  BY <1>t, <1>n
<1>2. /\ mpc' \in [Migrators -> Places] /\ mpc'[m] = there
      /\ \A p \in Migrators : p # m => mpc'[p] = mpc[p]
  BY <1>t
<1>3. MigrateTypeOK'
  BY <1>1, <1>2, <1>t DEF MigrateTypeOK, Places, BackupFile
<1>4. \A k \in BackupNames : /\ backups[k].by \subseteq backups'[k].by
                             /\ backups[k].whole => backups'[k].whole
  BY <1>1
<1>5. AtWork'
  <2> SUFFICES ASSUME NEW p \in Migrators, mpc'[p] # "idle"
               PROVE  /\ seen[p] < TargetOf[p] /\ seen[p] <= Len(history)
                      /\ mpc'[p] = "written" => p \in backups'[BackupOf(p)].by
                      /\ mpc'[p] = "apply" /\ existed[p] =>
                            p \in backups'[BackupOf(p)].by /\ backups'[BackupOf(p)].whole
    BY DEF AtWork, BackupOf
  <2>1. CASE p = m
    <3>1. seen[p] < TargetOf[p] /\ seen[p] <= Len(history)
      BY <2>1 DEF MigrateInv, AtWork
    <3> QED
      BY <2>1, <3>1, <1>1, <1>2
  <2>2. CASE p # m
    <3>1. mpc'[p] = mpc[p] /\ BackupOf(p) \in BackupNames
      BY <2>2, <1>2, <1>t, BackupIsNamed
    <3> QED
      BY <3>1, <1>4 DEF MigrateInv, AtWork
  <2> QED
    BY <2>1, <2>2
<1>6. BackupsInTime'
  <2> SUFFICES ASSUME NEW k \in BackupNames, backups'[k].whole
               PROVE  Len(backups'[k].of) \in k[1] .. Len(history)
    BY DEF BackupsInTime
  <2>1. CASE k = BackupOf(m)
    BY <2>1, <1>1, <1>n
  <2>2. CASE k # BackupOf(m)
    BY <2>2, <1>1 DEF MigrateInv, BackupsInTime
  <2> QED
    BY <2>1, <2>2
<1>7. BackupsLeft'
  <2> SUFFICES ASSUME NEW u \in upgrades
               PROVE  /\ u.backup[1] < Len(history)
                      /\ u.kept => \E p \in backups'[u.backup].by :
                                      mpc'[p] = "idle" \/ u.backup[1] < seen[p]
    BY DEF BackupsLeft
  <2>1. backups[u.backup].by \subseteq Migrators /\ u.backup \in BackupNames
    BY <1>t DEF MigrateTypeOK
  <2>2. \A p \in Migrators : mpc[p] = "idle" => mpc'[p] = "idle"
    BY <1>2
  <2> QED
    BY <2>1, <2>2, <1>4 DEF MigrateInv, BackupsLeft
<1>8. UpgradesRecoverable'
  <2>1. history' = [i \in 1 .. Len(history') |-> i]
    BY DEF MigrateInv, UpgradesRecoverable
  <2>2. ASSUME NEW u \in upgrades, u.kept
        PROVE  \/ backups'[u.backup].whole /\ backups'[u.backup].of = u.before
               \/ Cardinality(backups'[u.backup].by) > 1
    <3>1. CASE u.backup = BackupOf(m)
      BY <2>2, <3>1, <1>1
    <3>2. CASE u.backup # BackupOf(m)
      <4>1. u.backup \in BackupNames
        BY <1>t DEF MigrateTypeOK
      <4> QED
        BY <2>2, <3>2, <4>1, <1>1 DEF MigrateInv, UpgradesRecoverable
    <3> QED
      BY <3>1, <3>2
  <2> QED
    BY <2>1, <2>2 DEF UpgradesRecoverable
<1> QED
  BY <1>3, <1>5, <1>6, <1>7, <1>8 DEF MigrateInv

\* A copy that begins adds a writer, and takes nothing from what is there.
LEMMA BeginCopyKeeps ==
  ASSUME MigrateInv, NEW m \in Migrators, BeginCopy(m) PROVE MigrateInv'
<1>t. MigrateTypeOK /\ backups \in [BackupNames -> BackupFile]
  BY DEF MigrateInv, MigrateTypeOK, BackupFile
<1>n. PICK n \in BackupNames : n = BackupOf(m) /\ n[1] = seen[m]
  BY <1>t, BackupIsNamed
<1>o. PICK old \in BackupFile : old = backups[n]
  BY <1>t
<1>1. PICK file : file = [made |-> TRUE, whole |-> old.whole, of |-> old.of,
                          by |-> old.by \cup {m}]
  OBVIOUS
<1>2. /\ file \in BackupFile /\ file.whole = old.whole /\ file.of = old.of
      /\ file.by = old.by \cup {m}
  BY <1>1 DEF BackupFile
<1>3. backups' = [backups EXCEPT ![n] = file]
  <2>1. backups' = [backups EXCEPT ![n].made = TRUE, ![n].by = @ \cup {m}]
    BY <1>n DEF BeginCopy
  <2>2. DOMAIN backups = BackupNames /\ DOMAIN old = {"made", "whole", "of", "by"}
    BY <1>t DEF BackupFile
  <2>3. backups'[n] = [old EXCEPT !.made = TRUE, !.by = @ \cup {m}]
    BY <2>1, <2>2, <1>o
  <2>4. [old EXCEPT !.made = TRUE, !.by = @ \cup {m}] = file
    <3>1. PICK q : q = [old EXCEPT !.made = TRUE, !.by = @ \cup {m}]
      OBVIOUS
    <3>2. /\ q \in BackupFile
          /\ q.made = TRUE /\ q.whole = old.whole /\ q.of = old.of /\ q.by = old.by \cup {m}
      BY <3>1 DEF BackupFile
    <3>3. q = file
      BY <3>2, <1>1, <1>2 DEF BackupFile
    <3> QED
      BY <3>1, <3>3
  <2> QED
    BY <2>1, <2>2, <2>3, <2>4
<1>4. mpc[m] = "copying" /\ mpc' = [mpc EXCEPT ![m] = "written"]
  BY DEF BeginCopy, MGoto
<1>5. ASSUME NEW u \in upgrades, u.backup = n, u.kept
      PROVE  (file.whole /\ file.of = u.before) \/ Cardinality(file.by) > 1
  <2>1. (old.whole /\ old.of = u.before) \/ Cardinality(old.by) > 1
    BY <1>5, <1>o DEF MigrateInv, UpgradesRecoverable
  <2>2. IsFiniteSet(file.by)
    BY <1>2, MigratorsAssumption, FS_Subset DEF BackupFile
  <2>3. /\ IsFiniteSet(old.by) /\ Cardinality(old.by) <= Cardinality(file.by)
        /\ Cardinality(old.by) \in Nat /\ Cardinality(file.by) \in Nat
    BY <1>2, <2>2, FS_Subset, FS_CardinalityType
  <2> QED
    BY <2>1, <2>3, <1>2
<1>6. file.whole => Len(file.of) \in seen[m] .. Len(history)
  BY <1>2, <1>o, <1>n DEF MigrateInv, BackupsInTime
<1>7. "written" \in Places /\ UNCHANGED <<history, dbExists, seen, existed, upgrades>>
  BY DEF BeginCopy, Places
<1> QED
  BY <1>2, <1>3, <1>4, <1>5, <1>6, <1>7, <1>n, <1>o, CopyKeeps

\* A copy that ends replaces a backup that an upgrade goes by only if it is the
\* second one.
LEMMA FinishBackupKeeps ==
  ASSUME MigrateInv, NEW m \in Migrators, FinishBackup(m) PROVE MigrateInv'
<1>t. /\ MigrateTypeOK /\ backups \in [BackupNames -> BackupFile] /\ history \in Catalogs
      /\ seen \in [Migrators -> 0 .. MaxTarget]
  BY DEF MigrateInv, MigrateTypeOK, BackupFile
<1>n. PICK n \in BackupNames : n = BackupOf(m) /\ n[1] = seen[m]
  BY <1>t, BackupIsNamed
<1>o. PICK old \in BackupFile : old = backups[n]
  BY <1>t
<1>1. PICK file : file = [made |-> old.made, whole |-> TRUE, of |-> history, by |-> old.by]
  OBVIOUS
<1>2. file \in BackupFile /\ file.whole /\ file.of = history /\ file.by = old.by
  BY <1>1, <1>t DEF BackupFile
<1>3. backups' = [backups EXCEPT ![n] = file]
  <2>1. backups' = [backups EXCEPT ![n].whole = TRUE, ![n].of = history]
    BY <1>n DEF FinishBackup
  <2>2. DOMAIN backups = BackupNames /\ DOMAIN old = {"made", "whole", "of", "by"}
    BY <1>t DEF BackupFile
  <2>3. backups'[n] = [old EXCEPT !.whole = TRUE, !.of = history]
    BY <2>1, <2>2, <1>o
  <2>4. [old EXCEPT !.whole = TRUE, !.of = history] = file
    <3>1. PICK q : q = [old EXCEPT !.whole = TRUE, !.of = history]
      OBVIOUS
    <3>2. /\ q \in BackupFile
          /\ q.made = old.made /\ q.whole = TRUE /\ q.of = history /\ q.by = old.by
      BY <3>1, <1>t DEF BackupFile
    <3>3. q = file
      BY <3>2, <1>1, <1>2 DEF BackupFile
    <3> QED
      BY <3>1, <3>3
  <2> QED
    BY <2>1, <2>2, <2>3, <2>4
<1>4. mpc[m] = "written" /\ mpc' = [mpc EXCEPT ![m] = "apply"]
  BY DEF FinishBackup, MGoto
<1>w. m \in old.by /\ seen[m] <= Len(history)
  BY <1>4, <1>n, <1>o DEF MigrateInv, AtWork
<1>5. ASSUME NEW u \in upgrades, u.backup = n, u.kept
      PROVE  Cardinality(file.by) > 1
  <2>1. PICK p \in old.by : mpc[p] = "idle" \/ n[1] < seen[p]
    BY <1>5, <1>o DEF MigrateInv, BackupsLeft
  <2>2. seen[m] \in Nat
    BY <1>t, NewestIsKnown
  <2>3. p # m
    BY <2>1, <2>2, <1>4, <1>n
  <2>4. IsFiniteSet(old.by)
    BY <1>o, MigratorsAssumption, FS_Subset DEF BackupFile
  <2> QED
    BY <2>1, <2>3, <2>4, <1>w, <1>2, TwoAreTwo
<1>6. Len(file.of) \in seen[m] .. Len(history)
  <2>1. Len(history) \in Nat /\ seen[m] \in Nat
    BY <1>t, VersionIsLength, NewestIsKnown
  <2> QED
    BY <2>1, <1>w, <1>2
<1>7. "apply" \in Places /\ UNCHANGED <<history, dbExists, seen, existed, upgrades>>
  BY DEF FinishBackup, Places
<1>8. old.by \cup {m} = file.by
  BY <1>2, <1>w
<1> QED
  BY <1>2, <1>3, <1>4, <1>5, <1>6, <1>7, <1>8, <1>n, <1>o, CopyKeeps

\* An upgrade without a conflict starts where the process saw the catalog, so it goes
\* on from there and its backup is of exactly that (_apply_pending_migrations).
LEMMA UpgradeKeeps == ASSUME MigrateInv, NEW m \in Migrators, Upgrade(m) PROVE MigrateInv'
<1>t. /\ MigrateTypeOK /\ backups \in [BackupNames -> BackupFile] /\ history \in Catalogs
      /\ seen \in [Migrators -> 0 .. MaxTarget] /\ mpc \in [Migrators -> Places]
      /\ existed \in [Migrators -> BOOLEAN]
  BY DEF MigrateInv, MigrateTypeOK, BackupFile, Places
<1>u. /\ UNCHANGED <<dbExists, backups, seen, existed>> /\ mpc[m] = "apply"
      /\ mpc' = [mpc EXCEPT ![m] = "idle"]
  BY DEF Upgrade, MGoto
<1>n. PICK n \in BackupNames : n = BackupOf(m) /\ n[1] = seen[m]
  BY <1>t, BackupIsNamed
<1>s. /\ seen[m] \in Nat /\ TargetOf[m] \in 0 .. MaxTarget /\ MaxTarget \in Nat
      /\ Len(history) \in Nat
  BY <1>t, NewestIsKnown, VersionIsLength
<1>w. seen[m] < TargetOf[m] /\ seen[m] <= Len(history)
  BY <1>u DEF MigrateInv, AtWork
<1>1. Len(history) = seen[m]
  <2>1. seen[m] + 1 \notin 1 .. Len(history)
    <3>1. seen[m] + 1 \in seen[m] + 1 .. TargetOf[m]
      BY <1>s, <1>w
    <3> QED
      BY <3>1, <1>t, VersionIsLength DEF Upgrade, Conflict
  <2> QED
    BY <2>1, <1>s, <1>w
<1>2. history' = UpTo(TargetOf[m]) /\ Len(history') = TargetOf[m]
  <2> DEFINE more == [i \in 1 .. TargetOf[m] - seen[m] |-> seen[m] + i]
  <2>1. history = UpTo(seen[m])
    BY <1>1, <1>t, VersionIsLength
  <2>2. history' = history \o more
    BY DEF Upgrade
  <2>3. TargetOf[m] - seen[m] \in Nat
    BY <1>s, <1>w
  <2>4. history \in Seq(Nat) /\ more \in Seq(Nat) /\ Len(more) = TargetOf[m] - seen[m]
    BY <2>1, <2>3, <1>s DEF UpTo
  <2>5. /\ history' \in Seq(Nat) /\ Len(history') = TargetOf[m]
        /\ \A i \in 1 .. TargetOf[m] :
              history'[i] = IF i <= seen[m] THEN history[i] ELSE more[i - seen[m]]
    <3> HIDE DEF more
    <3>1. /\ history' \in Seq(Nat) /\ Len(history') = Len(history) + Len(more)
          /\ \A i \in 1 .. Len(history) + Len(more) :
                history'[i] = IF i <= Len(history) THEN history[i] ELSE more[i - Len(history)]
      BY <2>2, <2>4, ConcatProperties, Zenon
    <3>2. Len(history) + Len(more) = TargetOf[m]
      BY <2>4, <1>1, <1>s
    <3> QED
      BY <3>1, <3>2, <1>1
  <2>6. ASSUME NEW i \in 1 .. TargetOf[m] PROVE history'[i] = i
    <3>1. CASE i <= seen[m]
      <4>1. i \in 1 .. seen[m]
        BY <3>1, <1>s
      <4>2. history[i] = i
        BY <4>1, <2>1 DEF UpTo
      <4> QED
        BY <3>1, <4>2, <2>5
    <3>2. CASE ~(i <= seen[m])
      <4>1. i - seen[m] \in 1 .. TargetOf[m] - seen[m] /\ seen[m] + (i - seen[m]) = i
        BY <3>2, <1>s, <1>w
      <4> QED
        BY <3>2, <4>1, <2>5
    <3> QED
      BY <3>1, <3>2
  <2>7. history' = UpTo(TargetOf[m])
    BY <2>5, <2>6, <1>s DEF UpTo
  <2> QED
    BY <2>5, <2>7
<1>3. PICK r : /\ upgrades' = upgrades \cup {r}
               /\ r.before = history /\ r.backup = n /\ r.kept = existed[m]
               /\ r \in [before : Catalogs, backup : BackupNames, kept : BOOLEAN]
  <2> DEFINE q == [before |-> history, backup |-> n, kept |-> existed[m]]
  <2>1. upgrades' = upgrades \cup {q}
    BY <1>n DEF Upgrade
  <2>2. q.before = history /\ q.backup = n /\ q.kept = existed[m]
    OBVIOUS
  <2>3. q \in [before : Catalogs, backup : BackupNames, kept : BOOLEAN]
    BY <1>t, <1>n
  <2> HIDE DEF q
  <2> QED
    BY <2>1, <2>2, <2>3
<1>4. /\ mpc' \in [Migrators -> Places] /\ mpc'[m] = "idle"
      /\ \A p \in Migrators : p # m => mpc'[p] = mpc[p]
  BY <1>t, <1>u DEF Places
<1>5. MigrateTypeOK'
  <2>1. history' \in Catalogs
    BY <1>2, <1>s DEF Catalogs
  <2>2. upgrades' \subseteq [before : Catalogs, backup : BackupNames, kept : BOOLEAN]
    BY <1>3, <1>t DEF MigrateTypeOK
  <2> QED
    BY <2>1, <2>2, <1>4, <1>u, <1>t DEF MigrateTypeOK, Places
<1>6. AtWork'
  <2> SUFFICES ASSUME NEW p \in Migrators, mpc'[p] # "idle"
               PROVE  /\ seen[p] < TargetOf[p] /\ seen[p] <= Len(history')
                      /\ mpc'[p] = "written" => p \in backups[BackupOf(p)].by
                      /\ mpc'[p] = "apply" /\ existed[p] =>
                            p \in backups[BackupOf(p)].by /\ backups[BackupOf(p)].whole
    BY <1>u DEF AtWork, BackupOf
  <2>1. p # m /\ mpc'[p] = mpc[p]
    BY <1>4
  <2>2. seen[p] \in Nat
    BY <1>t, NewestIsKnown
  <2> QED
    BY <2>1, <2>2, <1>1, <1>2, <1>s, <1>w DEF MigrateInv, AtWork
<1>7. BackupsInTime'
  <2> SUFFICES ASSUME NEW k \in BackupNames, backups[k].whole
               PROVE  Len(backups[k].of) \in k[1] .. Len(history')
    BY <1>u DEF BackupsInTime
  <2>1. Len(backups[k].of) \in k[1] .. Len(history)
    BY DEF MigrateInv, BackupsInTime
  <2>2. k[1] \in Nat
    BY <1>s DEF BackupNames
  <2> QED
    BY <2>1, <2>2, <1>1, <1>2, <1>s, <1>w
<1>8. BackupsLeft'
  <2> SUFFICES ASSUME NEW u \in upgrades'
               PROVE  /\ u.backup[1] < Len(history')
                      /\ u.kept => \E p \in backups[u.backup].by :
                                      mpc'[p] = "idle" \/ u.backup[1] < seen[p]
    BY <1>u DEF BackupsLeft
  <2>1. CASE u = r
    <3>1. existed[m] => m \in backups[n].by
      BY <1>u, <1>n DEF MigrateInv, AtWork
    <3> QED
      BY <2>1, <3>1, <1>2, <1>3, <1>4, <1>n, <1>w
  <2>2. CASE u \in upgrades
    <3>1. /\ backups[u.backup].by \subseteq Migrators /\ u.backup[1] \in Nat
      BY <2>2, <1>t, <1>s DEF MigrateTypeOK, BackupNames
    <3>2. /\ u.backup[1] < Len(history)
          /\ u.kept => \E p \in backups[u.backup].by : mpc[p] = "idle" \/ u.backup[1] < seen[p]
      BY <2>2 DEF MigrateInv, BackupsLeft
    <3>3. \A p \in Migrators : mpc[p] = "idle" => mpc'[p] = "idle"
      BY <1>4
    <3> QED
      BY <3>1, <3>2, <3>3, <1>1, <1>2, <1>s, <1>w
  <2> QED
    BY <2>1, <2>2, <1>3
<1>9. UpgradesRecoverable'
  <2>1. history' = [i \in 1 .. Len(history') |-> i]
    BY <1>2 DEF UpTo
  <2>2. ASSUME NEW u \in upgrades', u.kept
        PROVE  \/ backups[u.backup].whole /\ backups[u.backup].of = u.before
               \/ Cardinality(backups[u.backup].by) > 1
    <3>1. CASE u = r
      <4>1. backups[n].whole
        BY <2>2, <3>1, <1>3, <1>u, <1>n DEF MigrateInv, AtWork
      <4>2. Len(backups[n].of) \in seen[m] .. seen[m]
        BY <4>1, <1>n, <1>1 DEF MigrateInv, BackupsInTime
      <4>3. Len(backups[n].of) = Len(history)
        BY <4>2, <1>1, <1>s
      <4>4. backups[n].of \in Catalogs
        BY <1>t DEF BackupFile
      <4>5. backups[n].of = history
        BY <4>3, <4>4, <1>t, CatalogIsVersion
      <4> QED
        BY <3>1, <4>1, <4>5, <1>3
    <3>2. CASE u \in upgrades
      BY <2>2, <3>2 DEF MigrateInv, UpgradesRecoverable
    <3> QED
      BY <3>1, <3>2, <1>3
  <2> QED
    BY <2>1, <2>2, <1>u DEF UpgradesRecoverable
<1> QED
  BY <1>5, <1>6, <1>7, <1>8, <1>9 DEF MigrateInv

\* MigrateInv is inductive.
LEMMA MigrateNextInv == MigrateInv /\ [MigrateNext]_migrateVars => MigrateInv'
<1> SUFFICES ASSUME MigrateInv, [MigrateNext]_migrateVars PROVE MigrateInv'
  OBVIOUS
<1>1. ASSUME NEW m \in Migrators, RollBack(m) \/ MigratorDies(m) PROVE MigrateInv'
  BY <1>1, GiveUpKeeps DEF RollBack, MigratorDies
<1>2. CASE UNCHANGED migrateVars
  BY <1>2 DEF migrateVars, MigrateInv, MigrateTypeOK, UpgradesRecoverable, AtWork,
     BackupsInTime, BackupsLeft, BackupOf
<1> QED
  BY <1>1, <1>2, ExamineKeeps, CheckBackupKeeps, BeginCopyKeeps, FinishBackupKeeps,
     UpgradeKeeps DEF MigrateNext

(* However many processes of however many releases upgrade at once, each    *)
(* migration is applied once and in order, and an upgrade leaves a backup   *)
(* of exactly what it found, unless two processes wrote that backup         *)
(* (migrations/runner.py migrate_catalog).                                  *)
THEOREM UpgradesAlwaysRecoverable == MigrateSpec => []UpgradesRecoverable
<1>1. MigrateInv => UpgradesRecoverable
  BY DEF MigrateInv
<1> QED
  BY MigrateInitInv, MigrateNextInv, <1>1, PTL DEF MigrateSpec

-----------------------------------------------------------------------------
(* How the work is cut up: worker/ai_budget.py                              *)

Pieces == Seq(Nat \X Nat)

LEMMA JoinedAppend ==
    ASSUME NEW pieces \in Pieces, NEW from \in Nat, NEW overlap \in Nat,
           NEW x \in Nat, NEW y \in Nat, x < y,
           IF pieces = <<>> THEN x = from ELSE Joined(pieces, from, x + overlap, overlap)
    PROVE  Joined(Append(pieces, <<x, y>>), from, y, overlap)
<1> DEFINE n == Len(pieces)
           more == Append(pieces, <<x, y>>)
<1>1. n \in Nat /\ DOMAIN pieces = 1 .. n
  BY LenProperties DEF Pieces
<1>2. <<x, y>> \in Nat \X Nat
  OBVIOUS
<1>3. /\ more \in Seq(Nat \X Nat) /\ more # <<>> /\ Len(more) = n + 1
      /\ \A i \in 1 .. n : more[i] = pieces[i]
      /\ more[n + 1] = <<x, y>>
  BY <1>2, AppendProperties DEF Pieces
<1>4. DOMAIN more = 1 .. n + 1
  BY <1>3, LenProperties
<1>5. pieces = <<>> <=> n = 0
  BY <1>1, EmptySeq DEF Pieces
<1> HIDE DEF more, n
<1>6. ASSUME n # 0
      PROVE  /\ \A i \in 1 .. n : pieces[i][1] < pieces[i][2]
             /\ \A i \in 1 .. n : i > 1 => pieces[i][1] = pieces[i - 1][2] - overlap
             /\ pieces[1][1] = from /\ pieces[n][2] = x + overlap
  BY <1>1, <1>5, <1>6 DEF Joined, n
<1>7. \A i \in 1 .. n + 1 : i \in 1 .. n \/ i = n + 1
  BY <1>1
<1>8. ASSUME NEW i \in 1 .. n + 1 PROVE more[i][1] < more[i][2]
  <2>1. CASE i \in 1 .. n
    BY <1>1, <1>3, <1>6, <2>1
  <2>2. CASE i = n + 1
    BY <1>3, <2>2
  <2> QED
    BY <1>7, <2>1, <2>2
<1>9. ASSUME NEW i \in 1 .. n + 1, i > 1
      PROVE  more[i][1] = more[i - 1][2] - overlap
  <2>1. i - 1 \in 1 .. n /\ n # 0
    BY <1>1, <1>9
  <2>2. more[i - 1] = pieces[i - 1]
    BY <1>3, <2>1
  <2>3. CASE i \in 1 .. n
    <3>1. pieces[i][1] = pieces[i - 1][2] - overlap
      BY <1>6, <1>9, <2>1, <2>3
    <3> QED
      BY <1>3, <2>2, <2>3, <3>1
  <2>4. CASE i = n + 1
    <3>1. i - 1 = n
      BY <1>1, <2>4
    <3>2. more[i - 1][2] = x + overlap
      BY <1>6, <2>1, <2>2, <3>1
    <3>3. more[i][1] = x
      BY <1>3, <2>4
    <3> QED
      BY <3>2, <3>3
  <2> QED
    BY <1>7, <2>3, <2>4
<1>10. more[1][1] = from
  <2>1. CASE n = 0
    BY <1>3, <1>5, <2>1
  <2>2. CASE n # 0
    BY <1>1, <1>3, <1>6, <2>2
  <2> QED
    BY <2>1, <2>2
<1>11. more[Len(more)][2] = y
  BY <1>3
<1>12. Joined(more, from, y, overlap)
  BY <1>3, <1>4, <1>8, <1>9, <1>10, <1>11 DEF Joined
<1> QED
  BY <1>12 DEF more

(* One more item adds its bytes to those of the batch. *)
LEMMA BytesOfNone ==
    ASSUME NEW items, NEW a \in Nat
    PROVE  BytesIn(items, <<a, a>>) = 0
<1>1. a .. a - 1 = {}
  OBVIOUS
<1>2. UNION {{i} \X (1 .. items[i]) : i \in a .. a - 1} = {}
  BY <1>1
<1>3. <<a, a>>[1] = a /\ <<a, a>>[2] = a
  OBVIOUS
<1> QED
  BY <1>2, <1>3, FS_EmptySet DEF BytesIn

LEMMA BytesGrow ==
    ASSUME NEW items \in Seq(Nat), NEW a \in Nat, NEW b \in Nat, 1 <= a, a <= b, b <= Len(items)
    PROVE  /\ BytesIn(items, <<a, b>>) \in Nat
           /\ BytesIn(items, <<a, b + 1>>) = BytesIn(items, <<a, b>>) + items[b]
<1> DEFINE of(i) == {i} \X (1 .. items[i])
           I == a .. b - 1
           F == {of(i) : i \in I}
           old == UNION F
           new == of(b)
           all == UNION {of(i) : i \in a .. b}
<1>1. Len(items) \in Nat /\ DOMAIN items = 1 .. Len(items)
  BY LenProperties
<1>2. \A i \in a .. b : items[i] \in Nat
  <2> SUFFICES ASSUME NEW i \in a .. b PROVE items[i] \in Nat
    OBVIOUS
  <2>1. i \in 1 .. Len(items)
    BY <1>1
  <2> QED
    BY <1>1, <2>1, ElementOfSeq
<1>3. ASSUME NEW i \in a .. b PROVE IsFiniteSet(of(i)) /\ Cardinality(of(i)) = items[i]
  <2>1. items[i] \in Nat
    BY <1>2
  <2>2. IsFiniteSet(1 .. items[i]) /\ Cardinality(1 .. items[i]) = items[i]
    <3> DEFINE k == items[i]
    <3> HIDE DEF k
    <3>1. k \in Int /\ 1 \in Int /\ k \in Nat
      BY <2>1 DEF k
    <3>2. IsFiniteSet(1 .. k) /\ Cardinality(1 .. k) = IF 1 > k THEN 0 ELSE k - 1 + 1
      BY <3>1, FS_Interval
    <3>3. Cardinality(1 .. k) = k
      BY <3>1, <3>2
    <3> QED
      BY <3>2, <3>3 DEF k
  <2>3. IsFiniteSet({i}) /\ Cardinality({i}) = 1
    BY FS_Singleton
  <2>4. IsFiniteSet(of(i)) /\ Cardinality(of(i)) = 1 * items[i]
    BY <2>2, <2>3, FS_Product, ZenonT(30)
  <2> QED
    BY <2>1, <2>4
<1>4. IsFiniteSet(F)
  <2> DEFINE f == [i \in I |-> of(i)]
  <2>1. IsFiniteSet(I)
    <3>1. a \in Int /\ b - 1 \in Int
      OBVIOUS
    <3> QED
      BY <3>1, FS_Interval
  <2> HIDE DEF of
  <2>2. f \in Surjection(I, F)
    BY DEF Surjection
  <2> HIDE DEF f, F, I
  <2> QED
    BY <2>1, <2>2, FS_Surjection
<1>5. IsFiniteSet(old)
  <2>1. \A T \in F : IsFiniteSet(T)
    BY <1>3
  <2> HIDE DEF F
  <2> QED
    BY <1>4, <2>1, FS_UNION
<1>6. IsFiniteSet(new) /\ Cardinality(new) = items[b] /\ items[b] \in Nat
  <2>1. b \in a .. b
    OBVIOUS
  <2> QED
    BY <1>2, <1>3, <2>1
<1>7. old \cap new = {}
  <2> SUFFICES ASSUME NEW i \in I, NEW p, p \in of(i), p \in of(b) PROVE FALSE
    OBVIOUS
  <2>1. p[1] = i /\ p[1] = b
    OBVIOUS
  <2>2. i \in Int /\ b \in Int /\ i <= b - 1
    OBVIOUS
  <2> QED
    BY <2>1, <2>2
<1>8. all = old \cup new
  <2>1. \A i : i \in a .. b <=> i \in I \/ i = b
    OBVIOUS
  <2> HIDE DEF of, I
  <2> QED
    BY <2>1
<1>9. Cardinality(old) \in Nat
  BY <1>5, FS_CardinalityType
<1> HIDE DEF old, new
<1>10. Cardinality(all) = Cardinality(old) + items[b]
  <2>1. Cardinality(old \cup new) = Cardinality(old) + Cardinality(new) - Cardinality(old \cap new)
    BY <1>5, <1>6, FS_Union
  <2>2. Cardinality(old \cap new) = 0
    BY <1>7, FS_EmptySet
  <2> HIDE DEF all
  <2> QED
    BY <1>6, <1>8, <1>9, <2>1, <2>2
<1>11. BytesIn(items, <<a, b>>) = Cardinality(old)
  BY DEF BytesIn, old
<1>12. BytesIn(items, <<a, b + 1>>) = Cardinality(all)
  <2>1. b + 1 - 1 = b
    OBVIOUS
  <2>2. <<a, b + 1>>[1] = a /\ <<a, b + 1>>[2] = b + 1
    OBVIOUS
  <2> QED
    BY <2>1, <2>2 DEF BytesIn
<1> QED
  BY <1>9, <1>10, <1>11, <1>12

LEMMA BatchItemInv ==
    ASSUME BatchesSoFar(work, split), BatchItem
    PROVE  BatchesSoFar(work, split') /\ BatchesKept(work, split')
<1> DEFINE w == work
           s == split
           r == split'
           item == w.items[s.next]
           n == Len(w.items)
<1>1. /\ w.items \in Seq(Nat) /\ w.batch \in Nat \ {0} /\ w.bytes \in Nat
      /\ s.batches \in Pieces /\ s.bytes \in Nat
      /\ s.from \in 1 .. s.next /\ s.next \in 1 .. n + 1
      /\ Joined(s.batches, 1, s.from, 0)
      /\ \A i \in DOMAIN s.batches : BatchFits(w, s.batches[i])
      /\ s.from = s.next => s.next = 1
      /\ s.next - s.from <= w.batch
      /\ s.bytes = BytesIn(w.items, <<s.from, s.next>>) /\ s.bytes <= w.bytes
  BY DEF BatchesSoFar, BatchItem, Going, Pieces
<1>2. n \in Nat /\ DOMAIN w.items = 1 .. n
  BY <1>1, LenProperties
<1>3. s.next <= n
  BY DEF BatchItem
<1>4. s.from \in Nat /\ s.next \in Nat /\ 1 <= s.from /\ s.from <= s.next /\ 1 <= s.next
  BY <1>1, <1>2
<1>5. /\ w.batch \in Nat \ {0} /\ w.bytes \in Nat /\ s.bytes \in Nat
       /\ s.next - s.from <= w.batch /\ s.bytes <= w.bytes
  BY <1>1
<1>6. \A i \in DOMAIN s.batches : BatchFits(w, s.batches[i])
  BY <1>1
<1>7. item \in Nat /\ s.next \in DOMAIN w.items
  <2>1. s.next \in 1 .. n
    BY <1>2, <1>3, <1>4
  <2> QED
    BY <1>1, <1>2, <2>1, ElementOfSeq
<1>8. BytesIn(w.items, <<s.from, s.next + 1>>) = s.bytes + item
  BY <1>1, <1>3, <1>4, BytesGrow, SMTT(30)
<1>9. BytesIn(w.items, <<s.next, s.next + 1>>) = item
  <2>1. BytesIn(w.items, <<s.next, s.next>>) = 0
    BY <1>4, BytesOfNone
  <2>2. s.next <= s.next
    BY <1>4
  <2>3. BytesIn(w.items, <<s.next, s.next + 1>>) = BytesIn(w.items, <<s.next, s.next>>) + item
    BY <1>1, <1>3, <1>4, <2>2, BytesGrow
  <2> QED
    BY <1>7, <2>1, <2>3
<1>10. CASE item > w.bytes
  <2>1. /\ r.status = "refused" /\ r.batches = <<>> /\ r.from = s.from /\ r.next = s.next
        /\ r.bytes = s.bytes
    BY <1>10 DEF BatchItem
  <2>2. <<>> \in Seq(Nat \X Nat)
    OBVIOUS
  <2>3. BatchesSoFar(w, r)
    BY <1>1, <2>1, <2>2 DEF BatchesSoFar
  <2>4. BatchesKept(w, r)
    BY <1>7, <1>10, <2>1 DEF BatchesKept
  <2> QED
    BY <2>3, <2>4
<1>11. CASE item <= w.bytes /\ s.from < s.next /\ BatchFull(item)
  <2> DEFINE piece == <<s.from, s.next>>
             more == Append(s.batches, piece)
  <2>1. ~(item > w.bytes)
    BY <1>1, <1>7, <1>11
  <2>2. /\ r.status = "going" /\ r.batches = more /\ r.from = s.next /\ r.next = s.next + 1
        /\ r.bytes = item
    BY <1>11, <2>1 DEF BatchItem
  <2>3. Joined(more, 1, s.next, 0)
    <3>1. s.from + 0 = s.from /\ 0 \in Nat /\ 1 \in Nat
      BY <1>4
    <3>2. s.batches = <<>> => s.from = 1
      BY <1>1 DEF Joined
    <3>3. IF s.batches = <<>> THEN s.from = 1 ELSE Joined(s.batches, 1, s.from + 0, 0)
      BY <1>1, <3>1, <3>2
    <3> QED
      BY <1>1, <1>4, <1>11, <3>1, <3>3, JoinedAppend
  <2>4. piece \in Nat \X Nat /\ piece[1] = s.from /\ piece[2] = s.next
    BY <1>4
  <2> HIDE DEF piece
  <2>5. LET k == Len(s.batches) IN
        /\ k \in Nat /\ DOMAIN s.batches = 1 .. k
        /\ more \in Seq(Nat \X Nat) /\ DOMAIN more = 1 .. k + 1
        /\ \A i \in 1 .. k : more[i] = s.batches[i]
        /\ more[k + 1] = piece
    <3>1. Len(s.batches) \in Nat /\ DOMAIN s.batches = 1 .. Len(s.batches)
      BY <1>1, LenProperties DEF Pieces
    <3>2. /\ more \in Seq(Nat \X Nat) /\ Len(more) = Len(s.batches) + 1
          /\ \A i \in 1 .. Len(s.batches) : more[i] = s.batches[i]
          /\ more[Len(s.batches) + 1] = piece
      BY <1>1, <2>4, AppendProperties DEF Pieces
    <3>3. DOMAIN more = 1 .. Len(more)
      BY <3>2, LenProperties
    <3> QED
      BY <3>1, <3>2, <3>3
  <2> HIDE DEF more
  <2>6. BatchFits(w, piece)
    <3>1. BytesIn(w.items, piece) = s.bytes
      BY <1>1 DEF piece
    <3>2. s.next - s.from = w.batch \/ s.bytes + item > w.bytes
      <4>1. s.next - s.from >= w.batch \/ s.bytes + item > w.bytes
        BY <1>11 DEF BatchFull
      <4> QED
        BY <1>1, <1>4, <4>1
    <3> QED
      BY <1>1, <2>4, <3>1, <3>2 DEF BatchFits
  <2>7. \A i \in DOMAIN more : BatchFits(w, more[i])
    <3>1. \A i \in 1 .. Len(s.batches) : BatchFits(w, more[i])
      BY <1>6, <2>5
    <3>2. \A i \in DOMAIN more : i \in 1 .. Len(s.batches) \/ i = Len(s.batches) + 1
      BY <2>5
    <3> QED
      BY <2>5, <2>6, <3>1, <3>2
  <2>8. /\ s.next + 1 \in 1 .. n + 1 /\ s.next \in 1 .. s.next + 1
        /\ (s.next + 1) - s.next <= w.batch /\ s.next # s.next + 1
    BY <1>1, <1>2, <1>3, <1>4, SMTT(30)
  <2>9. BatchesSoFar(w, r)
    BY <1>1, <1>7, <1>9, <1>11, <2>2, <2>3, <2>5, <2>7, <2>8 DEF BatchesSoFar
  <2>10. BatchesKept(w, r)
    BY <2>2 DEF BatchesKept
  <2> QED
    BY <2>9, <2>10
<1>12. CASE item <= w.bytes /\ ~(s.from < s.next /\ BatchFull(item))
  <2>1. ~(item > w.bytes)
    BY <1>1, <1>7, <1>12
  <2>2. /\ r.status = "going" /\ r.batches = s.batches /\ r.from = s.from
        /\ r.next = s.next + 1 /\ r.bytes = s.bytes + item
    BY <1>12, <2>1 DEF BatchItem
  <2>3. s.next + 1 - s.from <= w.batch /\ s.bytes + item <= w.bytes
    <3>1. CASE s.from < s.next
      <4>1. ~(s.next - s.from >= w.batch) /\ ~(s.bytes + item > w.bytes)
        BY <1>12, <3>1 DEF BatchFull
      <4> QED
        BY <1>4, <1>7, <1>5, <4>1
    <3>2. CASE ~(s.from < s.next)
      <4>1. s.from = s.next
        BY <1>4, <3>2
      <4>2. s.bytes = 0
        BY <1>1, <1>4, <4>1, BytesOfNone
      <4> QED
        BY <1>1, <1>4, <1>7, <1>12, <4>1, <4>2
    <3> QED
      BY <3>1, <3>2
  <2>4. /\ s.next + 1 \in 1 .. n + 1 /\ s.from \in 1 .. s.next + 1 /\ s.from # s.next + 1
        /\ s.bytes + item \in Nat
    BY <1>2, <1>3, <1>4, <1>7, <1>5, SMTT(30)
  <2>5. BatchesSoFar(w, r)
    BY <1>1, <1>8, <2>2, <2>3, <2>4 DEF BatchesSoFar, Pieces
  <2>6. BatchesKept(w, r)
    BY <2>2 DEF BatchesKept
  <2> QED
    BY <2>5, <2>6
<1> QED
  BY <1>1, <1>7, <1>10, <1>11, <1>12

(* What holds of pieces holds of one more when it holds of that one. *)
LEMMA OneMore ==
    ASSUME NEW S, NEW pieces \in Seq(S), NEW piece \in S
    PROVE  LET n == Len(pieces)
               more == Append(pieces, piece)
           IN /\ n \in Nat /\ DOMAIN pieces = 1 .. n
              /\ more \in Seq(S) /\ more # <<>> /\ Len(more) = n + 1 /\ DOMAIN more = 1 .. n + 1
              /\ \A i \in 1 .. n : more[i] = pieces[i]
              /\ more[n + 1] = piece
              /\ \A i \in DOMAIN more : i \in 1 .. n \/ i = n + 1
<1>1. Len(pieces) \in Nat /\ DOMAIN pieces = 1 .. Len(pieces)
  BY LenProperties
<1>2. /\ Append(pieces, piece) \in Seq(S) /\ Append(pieces, piece) # <<>>
      /\ Len(Append(pieces, piece)) = Len(pieces) + 1
      /\ \A i \in 1 .. Len(pieces) : Append(pieces, piece)[i] = pieces[i]
      /\ Append(pieces, piece)[Len(pieces) + 1] = piece
  BY AppendProperties
<1>3. DOMAIN Append(pieces, piece) = 1 .. Len(Append(pieces, piece))
  BY <1>2, LenProperties
<1>4. \A i \in 1 .. Len(pieces) + 1 : i \in 1 .. Len(pieces) \/ i = Len(pieces) + 1
  BY <1>1
<1> QED
  BY <1>1, <1>2, <1>3, <1>4

LEMMA OnePieceMore ==
    ASSUME NEW pieces \in Pieces, NEW piece \in Nat \X Nat
    PROVE  LET n == Len(pieces)
               more == Append(pieces, piece)
           IN /\ n \in Nat /\ DOMAIN pieces = 1 .. n
              /\ more \in Seq(Nat \X Nat) /\ more # <<>> /\ Len(more) = n + 1
              /\ \A i \in 1 .. n : more[i] = pieces[i]
              /\ more[n + 1] = piece
              /\ \A i \in DOMAIN more : i \in 1 .. n \/ i = n + 1
<1> DEFINE S == Nat \X Nat
<1>1. pieces \in Seq(S) /\ piece \in S
  BY DEF Pieces
<1>2. Seq(S) = Seq(Nat \X Nat)
  OBVIOUS
<1> HIDE DEF S
<1> QED
  BY <1>1, <1>2, OneMore

LEMMA BatchItemsInv ==
    ASSUME BatchesSoFar(work, split), BatchItems
    PROVE  BatchesSoFar(work, split') /\ BatchesKept(work, split')
<1> DEFINE w == work
           s == split
           r == split'
           n == Len(w.items)
           piece == <<s.from, s.next>>
           more == Append(s.batches, piece)
<1>1. /\ w.items \in Seq(Nat) /\ w.batch \in Nat \ {0} /\ w.bytes \in Nat
      /\ s.batches \in Pieces /\ s.bytes \in Nat
      /\ s.from \in 1 .. s.next /\ s.next \in 1 .. n + 1
      /\ Joined(s.batches, 1, s.from, 0)
      /\ s.from = s.next => s.next = 1
  BY DEF BatchesSoFar, BatchItems, Going, Pieces
<1>2. \A i \in DOMAIN s.batches : BatchFits(w, s.batches[i])
  BY DEF BatchesSoFar, BatchItems, Going
<1>3. /\ w.batch \in Nat /\ w.bytes \in Nat /\ s.bytes \in Nat
      /\ s.next - s.from <= w.batch /\ s.bytes <= w.bytes
      /\ s.bytes = BytesIn(w.items, piece)
  BY DEF BatchesSoFar, BatchItems, Going
<1>4. n \in Nat
  BY <1>1, LenProperties
<1>5. /\ s.from \in Nat /\ s.next \in Nat /\ 1 <= s.from /\ s.from <= s.next
      /\ s.next = n + 1
  <2>1. s.next > n
    BY DEF BatchItems
  <2> QED
    BY <1>1, <1>4, <2>1
<1>6. /\ r.status = "done" /\ r.from = s.next /\ r.next = s.next /\ r.bytes = 0
      /\ r.batches = IF s.from < s.next THEN more ELSE s.batches
  BY DEF BatchItems
<1>7. /\ r.batches \in Seq(Nat \X Nat) /\ Joined(r.batches, 1, n + 1, 0)
      /\ \A i \in DOMAIN r.batches : BatchFits(w, r.batches[i])
  <2>1. CASE s.from < s.next
    <3>1. r.batches = more
      BY <1>6, <2>1
    <3>2. Joined(more, 1, s.next, 0)
      <4>1. s.from + 0 = s.from /\ 0 \in Nat /\ 1 \in Nat
        BY <1>5
      <4>2. s.batches = <<>> => s.from = 1
        BY <1>1 DEF Joined
      <4>3. IF s.batches = <<>> THEN s.from = 1 ELSE Joined(s.batches, 1, s.from + 0, 0)
        BY <1>1, <4>1, <4>2
      <4> QED
        BY <1>1, <1>5, <2>1, <4>1, <4>3, JoinedAppend
    <3>3. piece \in Nat \X Nat /\ piece[1] = s.from /\ piece[2] = s.next
      BY <1>5
    <3>4. BatchFits(w, piece)
      <4>1. ~(piece[2] <= n) /\ piece[2] - piece[1] <= w.batch
        BY <1>3, <1>4, <1>5, <3>3
      <4> HIDE DEF piece
      <4> QED
        BY <1>3, <4>1 DEF BatchFits
    <3> HIDE DEF piece
    <3>5. /\ more \in Seq(Nat \X Nat)
          /\ DOMAIN s.batches = 1 .. Len(s.batches)
          /\ \A i \in 1 .. Len(s.batches) : more[i] = s.batches[i]
          /\ more[Len(s.batches) + 1] = piece
          /\ \A i \in DOMAIN more : i \in 1 .. Len(s.batches) \/ i = Len(s.batches) + 1
      BY <1>1, <3>3, OnePieceMore, SMTT(30)
    <3> HIDE DEF more
    <3>6. \A i \in DOMAIN more : BatchFits(w, more[i])
      BY <1>2, <3>4, <3>5
    <3> QED
      BY <1>5, <3>1, <3>2, <3>5, <3>6
  <2>2. CASE ~(s.from < s.next)
    <3>1. r.batches = s.batches /\ s.from = n + 1
      BY <1>5, <1>6, <2>2
    <3> QED
      BY <1>1, <1>2, <3>1 DEF Pieces
  <2> QED
    BY <2>1, <2>2
<1>8. s.next \in 1 .. s.next /\ 0 \in Nat
  BY <1>5
<1>9. BatchesSoFar(w, r)
  BY <1>1, <1>6, <1>7, <1>8 DEF BatchesSoFar
<1>10. BatchesKept(w, r)
  BY <1>6, <1>7 DEF BatchesKept
<1> QED
  BY <1>9, <1>10

LEMMA ChunkTextInv ==
    ASSUME ChunksSoFar(work, split), ChunkText
    PROVE  ChunksSoFar(work, split') /\ ChunksKept(work, split')
<1> DEFINE w == work
           s == split
           r == split'
           end == IF s.start + w.chunk < w.text THEN s.start + w.chunk ELSE w.text
           piece == <<s.start, end>>
           more == Append(s.chunks, piece)
<1>1. /\ w.text \in Nat /\ w.chunk \in Nat \ {0} /\ w.overlap \in 0 .. w.chunk - 1
      /\ s.chunks \in Pieces /\ s.start \in Nat
  BY DEF ChunksSoFar, Pieces
<1>2. IF s.chunks = <<>> THEN s.start = 0
      ELSE /\ Joined(s.chunks, 0, s.start + w.overlap, w.overlap)
           /\ \A i \in DOMAIN s.chunks : s.chunks[i][2] - s.chunks[i][1] = w.chunk
           /\ s.start + w.overlap < w.text
  BY DEF ChunksSoFar, ChunkText, Going
<1>3. w.text \in Nat /\ w.chunk \in Nat /\ w.overlap \in Nat /\ w.overlap < w.chunk
      /\ s.start \in Nat /\ 1 <= w.chunk
  BY <1>1
<1>4. CASE s.start >= w.text
  <2>1. r.status = "done" /\ r.chunks = s.chunks /\ r.start = s.start
    BY <1>4 DEF ChunkText
  <2>2. s.chunks = <<>> /\ w.text = 0
    BY <1>2, <1>3, <1>4
  <2>3. Joined(<<>>, 0, w.text, w.overlap)
    BY <2>2 DEF Joined
  <2>4. ChunksSoFar(w, r)
    BY <1>1, <2>1 DEF ChunksSoFar, Pieces
  <2>5. ChunksKept(w, r)
    <3>1. DOMAIN s.chunks = {}
      BY <2>2
    <3> QED
      BY <2>1, <2>2, <2>3, <3>1 DEF ChunksKept
  <2> QED
    BY <2>4, <2>5
<1>5. CASE s.start < w.text
  <2>1. ~(s.start >= w.text)
    BY <1>3, <1>5
  <2>2. end \in Nat /\ s.start < end /\ end - s.start <= w.chunk /\ end <= w.text
        /\ (end = w.text \/ end - s.start = w.chunk)
    BY <1>3, <1>5
  <2>3. /\ r.status = IF end >= w.text THEN "done" ELSE "going"
        /\ r.chunks = more
        /\ r.start = IF end >= w.text THEN s.start ELSE NextStart(s.start, end)
    BY <2>1 DEF ChunkText
  <2> HIDE DEF end
  <2>4. Joined(more, 0, end, w.overlap)
    <3>1. IF s.chunks = <<>> THEN s.start = 0
          ELSE Joined(s.chunks, 0, s.start + w.overlap, w.overlap)
      BY <1>2
    <3>2. 0 \in Nat
      OBVIOUS
    <3> QED
      BY <1>1, <1>3, <2>2, <3>1, <3>2, JoinedAppend
  <2>5. piece \in Nat \X Nat /\ piece[1] = s.start /\ piece[2] = end
    BY <1>3, <2>2
  <2> HIDE DEF piece
  <2>6. /\ more \in Seq(Nat \X Nat) /\ more # <<>> /\ Len(s.chunks) \in Nat
        /\ DOMAIN s.chunks = 1 .. Len(s.chunks) /\ Len(more) = Len(s.chunks) + 1
        /\ \A i \in 1 .. Len(s.chunks) : more[i] = s.chunks[i]
        /\ more[Len(s.chunks) + 1] = piece
        /\ \A i \in DOMAIN more : i \in 1 .. Len(s.chunks) \/ i = Len(s.chunks) + 1
    BY <1>1, <2>5, OnePieceMore
  <2> HIDE DEF more
  <2>7. ASSUME NEW i \in 1 .. Len(s.chunks) PROVE more[i][2] - more[i][1] = w.chunk
    <3>1. s.chunks # <<>>
      BY <2>6
    <3>2. more[i] = s.chunks[i] /\ i \in DOMAIN s.chunks
      BY <2>6
    <3> QED
      BY <1>2, <3>1, <3>2
  <2>8. CASE end >= w.text
    <3>1. r.status = "done" /\ r.chunks = more /\ r.start = s.start
      BY <2>3, <2>8
    <3>2. end = w.text
      BY <1>3, <2>2, <2>8
    <3>3. ASSUME NEW i \in DOMAIN more
          PROVE  /\ more[i][2] - more[i][1] <= w.chunk
                 /\ more[i][2] - more[i][1] = w.chunk \/ i = Len(more)
      <4>1. CASE i \in 1 .. Len(s.chunks)
        BY <1>3, <2>7, <4>1
      <4>2. CASE i = Len(s.chunks) + 1
        BY <2>2, <2>5, <2>6, <4>2
      <4> QED
        BY <2>6, <4>1, <4>2
    <3>4. ChunksSoFar(w, r)
      BY <1>1, <2>6, <3>1 DEF ChunksSoFar
    <3>5. ChunksKept(w, r)
      BY <2>4, <3>1, <3>2, <3>3 DEF ChunksKept
    <3> QED
      BY <3>4, <3>5
  <2>9. CASE end < w.text
    <3>1. ~(end >= w.text) /\ end - s.start = w.chunk
      BY <1>3, <2>2, <2>9
    <3>2. r.status = "going" /\ r.chunks = more /\ r.start = NextStart(s.start, end)
      BY <2>3, <3>1
    <3>3. NextStart(s.start, end) \in Nat /\ NextStart(s.start, end) + w.overlap = end
      BY <1>3, <2>2, <3>1 DEF NextStart
    <3>4. \A i \in DOMAIN more : more[i][2] - more[i][1] = w.chunk
      BY <2>5, <2>6, <2>7, <3>1
    <3>5. ChunksSoFar(w, r)
      BY <1>1, <2>4, <2>6, <2>9, <3>2, <3>3, <3>4 DEF ChunksSoFar
    <3>6. ChunksKept(w, r)
      BY <3>2 DEF ChunksKept
    <3> QED
      BY <3>5, <3>6
  <2> QED
    BY <1>3, <2>2, <2>8, <2>9
<1> QED
  BY <1>3, <1>4, <1>5

LEMMA RunBatchInv ==
    ASSUME OutcomesSoFar(work, split), RunBatch
    PROVE  OutcomesSoFar(work, split') /\ OutcomesKept(work, split')
<1> DEFINE w == work
           s == split
           r == split'
           attempt == Len(s.outcomes) + 1
           States == {"completed", "failed"}
           outcome == IF attempt < w.budget THEN "completed" ELSE "failed"
           more == Append(s.outcomes, outcome)
<1>1. /\ w.count \in Nat /\ w.budget \in Nat
      /\ s.outcomes \in Seq(States) /\ Len(s.outcomes) <= w.count
      /\ \A i \in DOMAIN s.outcomes : s.outcomes[i] = "failed" <=> i >= w.budget
  BY DEF OutcomesSoFar
<1>2. Len(s.outcomes) \in Nat /\ DOMAIN s.outcomes = 1 .. Len(s.outcomes)
  BY <1>1, LenProperties
<1>3. CASE attempt > w.count
  <2>1. r.status = "done" /\ r.outcomes = s.outcomes
    BY <1>3 DEF RunBatch
  <2>2. Len(s.outcomes) = w.count
    BY <1>1, <1>2, <1>3
  <2>3. ASSUME NEW i \in 1 .. w.count, NEW j \in 1 .. w.count, s.outcomes[i] = "failed", i < j
        PROVE  s.outcomes[j] = "failed"
    <3>1. i >= w.budget
      BY <1>1, <1>2, <2>2, <2>3
    <3>2. j >= w.budget
      BY <1>1, <2>3, <3>1
    <3> QED
      BY <1>1, <1>2, <2>2, <3>2
  <2>4. OutcomesSoFar(w, r)
    BY <1>1, <2>1 DEF OutcomesSoFar
  <2>5. OutcomesKept(w, r)
    BY <2>1, <2>2, <2>3 DEF OutcomesKept
  <2> QED
    BY <2>4, <2>5
<1>4. CASE ~(attempt > w.count) /\ s.token
  <2>1. r.status = "cancelled" /\ r.outcomes = <<>>
    BY <1>4 DEF RunBatch
  <2>2. <<>> \in Seq(States) /\ Len(<<>>) = 0 /\ DOMAIN <<>> = {}
    OBVIOUS
  <2>3. OutcomesSoFar(w, r)
    BY <1>1, <2>1, <2>2 DEF OutcomesSoFar
  <2>4. OutcomesKept(w, r)
    BY <2>1 DEF OutcomesKept
  <2> QED
    BY <2>3, <2>4
<1>5. CASE ~(attempt > w.count) /\ ~s.token
  <2>1. r.status = "going" /\ r.outcomes = more
    BY <1>5 DEF RunBatch
  <2>2. outcome \in States /\ (outcome = "failed" <=> attempt >= w.budget)
    BY <1>1, <1>2
  <2> HIDE DEF outcome, States
  <2>3. /\ more \in Seq(States) /\ Len(more) = Len(s.outcomes) + 1
        /\ \A i \in 1 .. Len(s.outcomes) : more[i] = s.outcomes[i]
        /\ more[Len(s.outcomes) + 1] = outcome
        /\ \A i \in DOMAIN more : i \in 1 .. Len(s.outcomes) \/ i = Len(s.outcomes) + 1
    BY <1>1, <2>2, OneMore
  <2> HIDE DEF more
  <2>4. ASSUME NEW i \in DOMAIN more PROVE more[i] = "failed" <=> i >= w.budget
    <3>1. CASE i \in 1 .. Len(s.outcomes)
      BY <1>1, <1>2, <2>3, <3>1
    <3>2. CASE i = Len(s.outcomes) + 1
      BY <2>2, <2>3, <3>2
    <3> QED
      BY <2>3, <3>1, <3>2
  <2>5. Len(more) <= w.count
    BY <1>1, <1>2, <1>5, <2>3
  <2>6. OutcomesSoFar(w, r)
    BY <1>1, <2>1, <2>3, <2>4, <2>5 DEF OutcomesSoFar, States
  <2>7. OutcomesKept(w, r)
    BY <2>1 DEF OutcomesKept
  <2> QED
    BY <2>6, <2>7
<1> QED
  BY <1>3, <1>4, <1>5

(* Nothing is lost between the pieces of a call (batch_items, chunk_text, run_batch), *)
(* whatever the items, the text and the limits: what is closed so far ends where the  *)
(* piece in hand begins, and its bytes are counted.                                   *)
THEOREM SplitsNeverLose == SplitSpec => []SplitsLoseNothing
<1>1. SplitInit => SplitInv
  <2> SUFFICES ASSUME SplitInit PROVE SplitInv
    OBVIOUS
  <2>1. CASE /\ \E n \in 0 .. MaxItems, batch \in BatchSizes, bytes \in BatchBytes :
                   \E items \in [1 .. n -> 1 .. MaxItemBytes] :
                      work = [call |-> "batch_items", items |-> items, batch |-> batch,
                              bytes |-> bytes]
             /\ split = [status |-> "going", batches |-> <<>>, from |-> 1, next |-> 1,
                         bytes |-> 0]
    <3>1. PICK n \in 0 .. MaxItems, batch \in BatchSizes, bytes \in BatchBytes :
              \E items \in [1 .. n -> 1 .. MaxItemBytes] :
                 work = [call |-> "batch_items", items |-> items, batch |-> batch,
                         bytes |-> bytes]
      BY <2>1
    <3>2. PICK items \in [1 .. n -> 1 .. MaxItemBytes] :
              work = [call |-> "batch_items", items |-> items, batch |-> batch,
                      bytes |-> bytes]
      BY <3>1
    <3>3. n \in Nat /\ items \in [1 .. n -> Nat]
      BY SplitAssumption
    <3>4. items \in Seq(Nat)
      BY <3>3
    <3>5. Len(items) \in Nat
      BY <3>4, LenProperties
    <3>6. /\ work.call = "batch_items" /\ work.items = items /\ work.batch = batch
          /\ work.bytes = bytes
      BY <3>2
    <3>7. /\ split.status = "going" /\ split.batches = <<>> /\ split.from = 1
          /\ split.next = 1 /\ split.bytes = 0
      BY <2>1
    <3>8. batch \in Nat \ {0} /\ bytes \in Nat
      BY SplitAssumption
    <3>9. BytesIn(items, <<1, 1>>) = 0
      BY BytesOfNone
    <3>10. Joined(<<>>, 1, 1, 0)
      BY DEF Joined
    <3>11. <<>> \in Seq(Nat \X Nat) /\ DOMAIN <<>> = {}
      OBVIOUS
    <3>12. 1 \in 1 .. 1 /\ 1 \in 1 .. Len(items) + 1 /\ 1 - 1 <= batch /\ 0 <= bytes
      BY <3>5, <3>8
    <3>13. BatchesSoFar(work, split)
      BY <3>4, <3>6, <3>7, <3>8, <3>9, <3>10, <3>11, <3>12 DEF BatchesSoFar
    <3>14. BatchesKept(work, split)
      BY <3>7 DEF BatchesKept
    <3> QED
      BY <3>6, <3>13, <3>14 DEF SplitInv, SplitsLoseNothing
  <2>2. CASE /\ \E text \in 0 .. MaxText, chunk \in 1 .. MaxText, overlap \in 0 .. MaxText :
                   /\ overlap < chunk
                   /\ work = [call |-> "chunk_text", text |-> text, chunk |-> chunk,
                              overlap |-> overlap]
             /\ split = [status |-> "going", chunks |-> <<>>, start |-> 0]
    <3>1. PICK text \in 0 .. MaxText, chunk \in 1 .. MaxText, overlap \in 0 .. MaxText :
              /\ overlap < chunk
              /\ work = [call |-> "chunk_text", text |-> text, chunk |-> chunk,
                         overlap |-> overlap]
      BY <2>2
    <3>2. /\ work.call = "chunk_text" /\ work.text = text /\ work.chunk = chunk
          /\ work.overlap = overlap
      BY <3>1
    <3>3. text \in Nat /\ chunk \in Nat \ {0} /\ overlap \in 0 .. chunk - 1
      BY <3>1
    <3>4. split.status = "going" /\ split.chunks = <<>> /\ split.start = 0
      BY <2>2
    <3>5. <<>> \in Seq(Nat \X Nat)
      OBVIOUS
    <3>6. ChunksSoFar(work, split)
      BY <3>2, <3>3, <3>4, <3>5 DEF ChunksSoFar
    <3>7. ChunksKept(work, split)
      BY <3>4 DEF ChunksKept
    <3> QED
      BY <3>2, <3>6, <3>7 DEF SplitInv, SplitsLoseNothing
  <2>3. CASE /\ \E count \in 0 .. MaxItems, budget \in 0 .. MaxBudget :
                   work = [call |-> "run_batch", count |-> count, budget |-> budget]
             /\ split = [status |-> "going", outcomes |-> <<>>, token |-> FALSE]
    <3>1. PICK count \in 0 .. MaxItems, budget \in 0 .. MaxBudget :
              work = [call |-> "run_batch", count |-> count, budget |-> budget]
      BY <2>3
    <3>2. work.call = "run_batch" /\ work.count = count /\ work.budget = budget
      BY <3>1
    <3>3. split.status = "going" /\ split.outcomes = <<>>
      BY <2>3
    <3>4. <<>> \in Seq({"completed", "failed"}) /\ Len(<<>>) = 0 /\ DOMAIN <<>> = {}
      OBVIOUS
    <3>5. count \in Nat /\ budget \in Nat
      OBVIOUS
    <3>6. OutcomesSoFar(work, split)
      BY <3>2, <3>3, <3>4, <3>5 DEF OutcomesSoFar
    <3>7. OutcomesKept(work, split)
      BY <3>3 DEF OutcomesKept
    <3> QED
      BY <3>2, <3>6, <3>7 DEF SplitInv, SplitsLoseNothing
  <2> QED
    BY <2>1, <2>2, <2>3 DEF SplitInit
<1>2. SplitInv /\ [SplitNext]_splitVars => SplitInv'
  <2> SUFFICES ASSUME SplitInv, [SplitNext]_splitVars PROVE SplitInv'
    OBVIOUS
  <2>1. CASE BatchItem
    <3>1. work' = work /\ work.call = "batch_items"
      BY <2>1 DEF BatchItem, Going
    <3>2. BatchesSoFar(work, split') /\ BatchesKept(work, split')
      BY <2>1, <3>1, BatchItemInv DEF SplitInv
    <3> QED
      BY <3>1, <3>2 DEF SplitInv, SplitsLoseNothing
  <2>2. CASE BatchItems
    <3>1. work' = work /\ work.call = "batch_items"
      BY <2>2 DEF BatchItems, Going
    <3>2. BatchesSoFar(work, split') /\ BatchesKept(work, split')
      BY <2>2, <3>1, BatchItemsInv DEF SplitInv
    <3> QED
      BY <3>1, <3>2 DEF SplitInv, SplitsLoseNothing
  <2>3. CASE ChunkText
    <3>1. work' = work /\ work.call = "chunk_text"
      BY <2>3 DEF ChunkText, Going
    <3>2. ChunksSoFar(work, split') /\ ChunksKept(work, split')
      BY <2>3, <3>1, ChunkTextInv DEF SplitInv
    <3> QED
      BY <3>1, <3>2 DEF SplitInv, SplitsLoseNothing
  <2>4. CASE RunBatch
    <3>1. work' = work /\ work.call = "run_batch"
      BY <2>4 DEF RunBatch, Going
    <3>2. OutcomesSoFar(work, split') /\ OutcomesKept(work, split')
      BY <2>4, <3>1, RunBatchInv DEF SplitInv
    <3> QED
      BY <3>1, <3>2 DEF SplitInv, SplitsLoseNothing
  <2>5. CASE CancelBatch
    <3>1. work' = work /\ work.call = "run_batch"
      BY <2>5 DEF CancelBatch, Going
    <3>2. split'.outcomes = split.outcomes /\ split'.status = "going"
      BY <2>5 DEF CancelBatch
    <3>3. OutcomesSoFar(work, split)
      BY <3>1 DEF SplitInv
    <3>4. OutcomesSoFar(work, split')
      BY <3>2, <3>3 DEF OutcomesSoFar
    <3>5. OutcomesKept(work, split')
      BY <3>2 DEF OutcomesKept
    <3> QED
      BY <3>1, <3>4, <3>5 DEF SplitInv, SplitsLoseNothing
  <2>6. CASE UNCHANGED splitVars
    BY <2>6 DEF splitVars, SplitInv, SplitsLoseNothing
  <2> QED
    BY <2>1, <2>2, <2>3, <2>4, <2>5, <2>6 DEF SplitNext
<1>3. SplitInv => SplitsLoseNothing
  BY DEF SplitInv
<1> QED
  BY <1>1, <1>2, <1>3, PTL DEF SplitSpec

=============================================================================
