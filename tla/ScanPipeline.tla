---------------------------- MODULE ScanPipeline -----------------------------
(***************************************************************************)
(* One deep scan: the stages of scanner/scheduler.py, run as processes     *)
(* that scanner/lifecycle.py pauses, stops and restarts, with checkpoints  *)
(* in the catalog.  The coordinator that calls these functions is not in   *)
(* the repository; it is the environment: it launches what the plan says,  *)
(* may pause, stop, crash and restart at any moment, and keeps the set of  *)
(* completed stages durably.                                               *)
(***************************************************************************)
EXTENDS Checkpoints, Scheduler

CONSTANTS
    Units,          \* per stage, the units of work it has
    Expected,       \* the source the scan was started on
    FirstTool,      \* the tool version it was started with
    Budgets,        \* max_io_cost values
    Saving,         \* bound: the stages that also save between units
    MaxFaults       \* bound: pauses, crashes, swaps, upgrades and stage failures

ASSUME UnitsAssumption == Units \in [STAGES -> Nat \ {0}]
ASSUME SlotsAssumption == Slots = STAGES
ASSUME ExpectedAssumption == Expected \in Sources /\ FirstTool \in Tools
ASSUME BudgetsAssumption == Budgets \subseteq Nat \ {0}
ASSUME CursorsAssumption == \A s \in STAGES : 0..Units[s] \subseteq Cursors

VARIABLES
    config,     \* SchedulerConfig
    statuses,   \* the coordinator's view; lost in a crash
    live,       \* stages whose process is alive
    progress,   \* per stage, units the process has behind it
    acked,      \* per stage, the progress its pause_ack reported, or Null
    source,     \* fingerprint of the source now connected
    tool,       \* scanner tool version now installed
    work,       \* {<<stage, unit, source, tool>>}: work really done
    up,         \* the coordinator is running
    faults

vars == <<rows, committed, config, statuses, live, progress, acked, source, tool,
          work, up, faults>>

Completed == {s \in STAGES : statuses[s] = "completed"}
FreeId == CHOOSE i \in CheckpointIds \ Present : \A k \in CheckpointIds \ Present : i <= k

Fault == faults < MaxFaults /\ faults' = faults + 1

-----------------------------------------------------------------------------
(* A stage process at work. *)

Launch(s) ==
    /\ up /\ statuses[s] = "pending"
    /\ s \in runnable_stages(statuses, config)
    /\ statuses' = [statuses EXCEPT ![s] = "running"]
    /\ live' = live \cup {s}
    /\ UNCHANGED <<rows, committed, config, progress, acked, source, tool, work, up, faults>>

Working(s) == s \in live /\ acked[s] = Null

Advance(s) ==
    /\ Working(s) /\ progress[s] < Units[s]
    /\ progress' = [progress EXCEPT ![s] = @ + 1]
    /\ work' = work \cup {<<s, progress[s] + 1, source, tool>>}
    /\ UNCHANGED <<rows, committed, config, statuses, live, acked, source, tool, up, faults>>

(* A checkpoint between units; created_at is any clock reading. *)
Save(s) ==
    /\ Working(s) /\ s \in Saving /\ Present # CheckpointIds
    /\ \E created \in Times :
          save_checkpoint(FreeId, s, source, tool, progress[s], TRUE, created)
    /\ UNCHANGED <<config, statuses, live, progress, acked, source, tool, work, up, faults>>

Complete(s) ==
    /\ up /\ Working(s) /\ statuses[s] = "running" /\ progress[s] = Units[s]
    /\ statuses' = [statuses EXCEPT ![s] = "completed"]
    /\ live' = live \ {s}
    /\ UNCHANGED <<rows, committed, config, progress, acked, source, tool, work, up, faults>>

Fail(s) ==
    /\ up /\ Working(s) /\ Fault
    /\ statuses' = apply_stage_failure(statuses, s)
    /\ live' = live \ {s}
    /\ UNCHANGED <<rows, committed, config, progress, acked, source, tool, work, up>>

-----------------------------------------------------------------------------
(* Pause and stop. *)

Pause ==
    /\ up /\ Fault
    /\ statuses' = pause_all(statuses)
    /\ statuses' # statuses
    /\ UNCHANGED <<rows, committed, config, live, progress, acked, source, tool, work, up>>

(* Mutant: the acknowledged checkpoint claims the unit in progress. *)
PauseCursorAhead(s) == progress[s] + 1

(* cooperative_pause persists the checkpoint and only then returns the       *)
(* decision that is acknowledged; when persisting fails there is no ack.     *)
PauseCursor(s) == progress[s]

CooperativePause(s) ==
    /\ Working(s) /\ statuses[s] = "paused" /\ Present # CheckpointIds
    /\ \E created \in Times :
          save_checkpoint(FreeId, s, source, tool, PauseCursor(s), TRUE, created)
    /\ acked' = [acked EXCEPT ![s] = progress[s]]
    /\ UNCHANGED <<config, statuses, live, progress, source, tool, work, up, faults>>

(* safe_stop_process: the graceful signal ends the process, or times out,    *)
(* and then the force signal is sent only with a preserved checkpoint.       *)
GracefulStop(s) ==
    /\ s \in live /\ statuses[s] = "paused"
    /\ live' = live \ {s}
    /\ UNCHANGED <<rows, committed, config, statuses, progress, acked, source, tool,
                   work, up, faults>>

CheckpointPreserved(s) == acked[s] # Null

ForceStop(s) ==
    /\ s \in live /\ statuses[s] = "paused" /\ CheckpointPreserved(s)
    /\ live' = live \ {s}
    /\ UNCHANGED <<rows, committed, config, statuses, progress, acked, source, tool,
                   work, up, faults>>

-----------------------------------------------------------------------------
(* Faults while the coordinator is down, and the restart. *)

Crash ==
    /\ up /\ Fault
    /\ up' = FALSE /\ live' = {}
    /\ UNCHANGED <<rows, committed, config, statuses, progress, acked, source, tool, work>>

SwapSource ==
    /\ ~ up /\ Fault
    /\ source' \in Sources \ {source}
    /\ UNCHANGED <<rows, committed, config, statuses, live, progress, acked, tool, work, up>>

UpgradeTool ==
    /\ ~ up /\ Fault
    /\ tool' \in Tools \ {tool}
    /\ UNCHANGED <<rows, committed, config, statuses, live, progress, acked, source,
                   work, up>>

CorruptCheckpoint ==
    /\ ~ up /\ Fault
    /\ \E i \in Present : Corrupt(i)
    /\ UNCHANGED <<config, statuses, live, progress, acked, source, tool, work, up>>

(* Mutant: the cursor of the latest checkpoint, whoever wrote it. *)
RestartCursorUnchecked(s) ==
    LET i == latest_checkpoint_id(s) IN IF i = Null THEN 0 ELSE rows[i].cursor

(* restart_from_checkpoint gives a stage the stored cursor if the checkpoint *)
(* can be trusted ("resume"), else the stage starts over ("restart_stage").  *)
RestartCursor(s) ==
    LET checkpoint == load_latest_checkpoint(s, source, tool)
    IN  IF checkpoint = Null THEN 0 ELSE checkpoint.cursor

(* The scan is started again after a crash, or after a pause once every      *)
(* process has gone, with the stages that were completed; a source that is   *)
(* not the expected one blocks it.                                           *)
Restart ==
    /\ live = {} /\ source = Expected
    /\ ~ up \/ \E s \in STAGES : statuses[s] = "paused"
    /\ RestartAccepted(Completed, config)
    /\ up' = TRUE
    /\ statuses' = restart_statuses(Completed)
    /\ progress' = [s \in STAGES |-> RestartCursor(s)]
    /\ acked' = [s \in STAGES |-> Null]
    /\ UNCHANGED <<rows, committed, config, live, source, tool, work, faults>>

-----------------------------------------------------------------------------
Init ==
    /\ CkptInit
    /\ config \in [max_io_cost: Budgets, enable_enrichment: BOOLEAN,
                   enable_carving: BOOLEAN]
    /\ statuses = initial_statuses
    /\ live = {} /\ work = {} /\ up = TRUE /\ faults = 0
    /\ progress = [s \in STAGES |-> 0]
    /\ acked = [s \in STAGES |-> Null]
    /\ source = Expected
    /\ tool = FirstTool

StageStep(s) ==
    \/ Launch(s) \/ Advance(s) \/ Save(s) \/ Complete(s) \/ Fail(s)
    \/ CooperativePause(s) \/ GracefulStop(s) \/ ForceStop(s)

Next ==
    \/ \E s \in STAGES : StageStep(s)
    \/ Pause \/ Crash \/ SwapSource \/ UpgradeTool \/ CorruptCheckpoint \/ Restart

(* While some process can work or exit, or the coordinator can launch what    *)
(* it planned or come back after a crash or a pause, one of these happens.    *)
Forward ==
    \/ Restart
    \/ \E s \in STAGES : Launch(s) \/ Advance(s) \/ Complete(s) \/ GracefulStop(s)

Fairness == WF_vars(Forward)

Spec == Init /\ [][Next]_vars /\ Fairness

-----------------------------------------------------------------------------

(* A completed stage has really done all of its work on the source the scan  *)
(* was started on, with one tool version: no restart, resume, corrupt        *)
(* checkpoint, upgrade or swapped disk lets it skip a unit.                  *)
CompletedDidAllWork ==
    \A s \in Completed : \E t \in Tools : \A u \in 1..Units[s] :
        <<s, u, Expected, t>> \in work

(* A stage's process is alive only if the stages it builds on are over: its  *)
(* mandatory dependencies succeeded in this or an earlier run of the scan,   *)
(* and finalization runs after every optional stage has ended.               *)
LiveAfterDependencies ==
    \A s \in live : \A d \in Dependencies[s] :
        \/ statuses[d] = "completed"
        \/ s = "finalization" /\ d \notin Mandatory
             /\ (statuses[d] \in {"failed", "skipped"} \/ ~ Enabled(d, config))

(* The processes alive never exceed the I/O budget, across pauses and        *)
(* restarts.                                                                 *)
IoBudgetKept == Cardinality(live) <= config.max_io_cost

(* Until finalization is completed, the stages completed so far are a set    *)
(* restart_plan accepts, so a crash never leaves a scan that cannot restart. *)
RestartablePipeline ==
    "finalization" \notin Completed => RestartAccepted(Completed, config)

(* Stages run in order, within the budget, and can be restarted              *)
(* (scheduler.py:95-205).                                                    *)
ScheduleSound == LiveAfterDependencies /\ IoBudgetKept /\ RestartablePipeline

(* An acknowledged pause loses nothing: until the process is gone, and after *)
(* a force kill, the latest checkpoint holds all the work the stage did, and *)
(* no other save supersedes it.                                              *)
AckedPauseIsDurable ==
    \A s \in STAGES : acked[s] # Null =>
        /\ committed[s] # Null
        /\ rows[committed[s]].cursor = acked[s] /\ progress[s] = acked[s]

(* "Plan a restart without rerunning already completed stages": no step      *)
(* takes a stage out of completed.                                           *)
CompletedNotRerun ==
    [][\A s \in STAGES : statuses[s] = "completed" => statuses'[s] = "completed"]_vars

(* What makes them inductive, with CkptInv. *)
ScanTypeOK ==
    /\ config \in Configs /\ statuses \in [STAGES -> StageStatuses]
    /\ live \subseteq STAGES /\ progress \in [STAGES -> Nat]
    /\ acked = [s \in STAGES |-> acked[s]]
    /\ source \in Sources /\ tool \in Tools /\ up \in BOOLEAN

\* Processes belong to the run of the coordinator, on the expected source.
LiveBelongs ==
    /\ \A s \in live : statuses[s] \in {"running", "paused"}
    /\ ~ up => live = {}
    /\ up => source = Expected

\* A pause leaves no stage that could still be launched.
PauseIsTotal ==
    (\E s \in STAGES : statuses[s] = "paused") =>
        \A s \in STAGES : statuses[s] \notin {"pending", "running"}

\* Only a stage nothing but finalization builds on is ever skipped.
SkippedIsOptional == \A s \in STAGES : statuses[s] = "skipped" => s = "enrichment"

\* The first n units of a stage are done, on one source with one tool.
DoneUpTo(s, n, f, t) == n <= Units[s] /\ \A u \in 1..n : <<s, u, f, t>> \in work

\* No checkpoint, of any source, tool or age, claims work that was not done, and
\* nor does a process.
CursorsBacked ==
    /\ \A i \in Present :
          /\ rows[i].cursor \in Nat
          /\ DoneUpTo(rows[i].slot, rows[i].cursor, rows[i].key, rows[i].tool)
    /\ up => \A s \in STAGES : DoneUpTo(s, progress[s], source, tool)

ScanInv ==
    /\ ScanTypeOK /\ CkptInv /\ LiveBelongs /\ PauseIsTotal /\ SkippedIsOptional
    /\ CursorsBacked /\ CompletedDidAllWork /\ ScheduleSound /\ AckedPauseIsDurable

(* Every scan settles: in the end each enabled stage is over, unless the     *)
(* source was swapped and the restart stays blocked.                         *)
ScanSettles ==
    <>[](\/ source # Expected
         \/ \A s \in STAGES : Enabled(s, config) =>
               statuses[s] \in {"completed", "failed", "skipped"})
=============================================================================
