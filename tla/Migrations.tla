----------------------------- MODULE Migrations -----------------------------
(***************************************************************************)
(* The upgrade of the catalog (migrations/runner.py), by several processes *)
(* of the same or of an older release.  The version is read before the     *)
(* transaction that upgrades, and the backup is made in between.           *)
(***************************************************************************)
EXTENDS Naturals, Sequences, FiniteSets

CONSTANTS Migrators,    \* processes that call migrate_catalog
          TargetOf,     \* the last version each one knows
          MaxCalls      \* bound: calls of migrate_catalog

\* One of the processes is of the newest release.
ASSUME MigratorsAssumption ==
    /\ IsFiniteSet(Migrators) /\ TargetOf \in [Migrators -> Nat]
    /\ \E m \in Migrators : \A k \in Migrators : TargetOf[k] <= TargetOf[m]

VARIABLES history,      \* the rows of schema_migrations, as a sequence of versions
          dbExists,     \* the database file exists and is not empty
          backups,      \* <<current, target>> |-> the backup of that name
          mpc,          \* where each process is
          seen,         \* the version each process read
          existed,      \* the database existed when the process began
          upgrades,     \* upgrades committed: what there was before, and the backup made
          calls

migrateVars == <<history, dbExists, backups, mpc, seen, existed, upgrades, calls>>

Greatest(S) == CHOOSE n \in S : \A k \in S : k <= n
MaxTarget == Greatest({TargetOf[m] : m \in Migrators})
BackupNames == (0 .. MaxTarget) \X (0 .. MaxTarget)
NoBackup == [made |-> FALSE, whole |-> FALSE, of |-> <<>>, by |-> {}]

\* A catalog of an earlier release, or none.
MigrateInit ==
    /\ \E v \in 0 .. MaxTarget - 1 : history = [i \in 1 .. v |-> i]
    /\ dbExists = (history # <<>>)
    /\ backups = [n \in BackupNames |-> NoBackup]
    /\ mpc = [m \in Migrators |-> "idle"]
    /\ seen = [m \in Migrators |-> 0]
    /\ existed = [m \in Migrators |-> FALSE]
    /\ upgrades = {}
    /\ calls = 0

Versions == {history[i] : i \in DOMAIN history}

\* current_schema_version: MAX(version), or 0.
CurrentVersion == IF history = <<>> THEN 0 ELSE Greatest(Versions)

\* _ensure_contiguous_history
Contiguous == Versions = 1 .. CurrentVersion

MGoto(m, there) == mpc' = [mpc EXCEPT ![m] = there]
BackupOf(m) == <<seen[m], TargetOf[m]>>

\* Opening the database creates the file.  A newer catalog is refused, and one
\* that is current needs nothing.
Examine(m) ==
    /\ mpc[m] = "idle" /\ calls < MaxCalls
    /\ calls' = calls + 1
    /\ dbExists' = TRUE
    /\ existed' = [existed EXCEPT ![m] = dbExists]
    /\ seen' = [seen EXCEPT ![m] = CurrentVersion]
    /\ MGoto(m, IF CurrentVersion < TargetOf[m] /\ Contiguous
                THEN (IF dbExists THEN "backup" ELSE "apply") ELSE "idle")
    /\ UNCHANGED <<history, backups, upgrades>>

\* _backup_database: a file of that name, whole or not, ends the upgrade; the
\* file that was not there is created only by the copy, ...
CheckBackup(m) ==
    /\ mpc[m] = "backup"
    /\ MGoto(m, IF backups[BackupOf(m)].made THEN "idle" ELSE "copying")
    /\ UNCHANGED <<history, dbExists, backups, seen, existed, upgrades, calls>>

\* ... which is one transaction on it: a death before its end leaves an empty
\* file, or one that another process copied meanwhile as it was.
BeginCopy(m) ==
    /\ mpc[m] = "copying"
    /\ MGoto(m, "written")
    /\ backups' = [backups EXCEPT ![BackupOf(m)].made = TRUE, ![BackupOf(m)].by = @ \cup {m}]
    /\ UNCHANGED <<history, dbExists, seen, existed, upgrades, calls>>

FinishBackup(m) ==
    /\ mpc[m] = "written"
    /\ MGoto(m, "apply")
    /\ backups' = [backups EXCEPT ![BackupOf(m)].whole = TRUE, ![BackupOf(m)].of = history]
    /\ UNCHANGED <<history, dbExists, seen, existed, upgrades, calls>>

(* Mutant: a version recorded meanwhile does not fail the upgrade. *)
ConflictNever(m) == FALSE

\* A version that another process has recorded meanwhile violates the primary key.
Conflict(m) == \E v \in seen[m] + 1 .. TargetOf[m] : v \in Versions

\* _apply_pending_migrations: one transaction, which a migration may fail.
Upgrade(m) ==
    /\ mpc[m] = "apply"
    /\ ~Conflict(m)
    /\ history' = history \o [i \in 1 .. TargetOf[m] - seen[m] |-> seen[m] + i]
    /\ upgrades' = upgrades \cup
          {[before |-> history, backup |-> BackupOf(m), kept |-> existed[m]]}
    /\ MGoto(m, "idle")
    /\ UNCHANGED <<dbExists, backups, seen, existed, calls>>

RollBack(m) ==
    /\ mpc[m] = "apply"
    /\ MGoto(m, "idle")
    /\ UNCHANGED <<history, dbExists, backups, seen, existed, upgrades, calls>>

MigratorDies(m) ==
    /\ mpc[m] # "idle"
    /\ MGoto(m, "idle")
    /\ UNCHANGED <<history, dbExists, backups, seen, existed, upgrades, calls>>

MigrateNext ==
    \E m \in Migrators :
        \/ Examine(m) \/ CheckBackup(m) \/ BeginCopy(m) \/ FinishBackup(m)
        \/ Upgrade(m) \/ RollBack(m) \/ MigratorDies(m)

MigrateSpec == MigrateInit /\ [][MigrateNext]_migrateVars

-----------------------------------------------------------------------------
\* Each migration is applied once and in order, however many processes upgrade at
\* once; and an upgrade of a catalog that existed leaves a whole backup of exactly
\* what there was before it, for good, even though the version is read and the
\* backup made outside the transaction.  The exception is a backup that two
\* processes wrote, each after it had found none: the second can replace it with
\* a copy of the upgraded catalog.
UpgradesRecoverable ==
    /\ history = [i \in 1 .. Len(history) |-> i]
    /\ \A u \in upgrades :
          LET file == backups[u.backup]
          IN u.kept => (file.whole /\ file.of = u.before) \/ Cardinality(file.by) > 1

(* What an induction over the steps needs beside the property.             *)

\* The catalog at version n.
UpTo(n) == [i \in 1 .. n |-> i]
Catalogs == {UpTo(n) : n \in 0 .. MaxTarget}

MigrateTypeOK ==
    /\ history \in Catalogs
    /\ dbExists \in BOOLEAN
    /\ backups \in [BackupNames -> [made : BOOLEAN, whole : BOOLEAN, of : Catalogs,
                                    by : SUBSET Migrators]]
    /\ mpc \in [Migrators -> {"idle", "backup", "copying", "written", "apply"}]
    /\ seen \in [Migrators -> 0 .. MaxTarget]
    /\ existed \in [Migrators -> BOOLEAN]
    /\ upgrades \subseteq [before : Catalogs, backup : BackupNames, kept : BOOLEAN]

\* A process at work has seen a version it is to upgrade, which may be behind, and
\* wrote the backup it goes by.
AtWork ==
    \A m \in Migrators : mpc[m] # "idle" =>
        /\ seen[m] < TargetOf[m] /\ seen[m] <= Len(history)
        /\ mpc[m] = "written" => m \in backups[BackupOf(m)].by
        /\ mpc[m] = "apply" /\ existed[m] =>
              m \in backups[BackupOf(m)].by /\ backups[BackupOf(m)].whole

\* A whole backup is of the version in its name or of a later one.
BackupsInTime ==
    \A n \in BackupNames : backups[n].whole => Len(backups[n].of) \in n[1] .. Len(history)

\* The process that made an upgrade does not write its backup again: it sees the
\* version it made, or a later one.
BackupsLeft ==
    \A u \in upgrades :
        /\ u.backup[1] < Len(history)
        /\ u.kept => \E m \in backups[u.backup].by :
                        mpc[m] = "idle" \/ u.backup[1] < seen[m]

MigrateInv == MigrateTypeOK /\ UpgradesRecoverable /\ AtWork /\ BackupsInTime /\ BackupsLeft

=============================================================================
