------------------------------ MODULE Scheduler ------------------------------
(***************************************************************************)
(* The stage graph and the planning functions of scanner/scheduler.py.     *)
(* All of them are pure; ScanPipeline calls them.                          *)
(***************************************************************************)
EXTENDS Naturals, FiniteSets, SequencesExt

Dependencies ==
    [validation   |-> {},
     volumes      |-> {"validation"},
     enumeration  |-> {"volumes"},
     artifacts    |-> {"enumeration"},
     enrichment   |-> {"artifacts"},
     carving      |-> {"validation", "volumes", "enumeration"},
     finalization |-> {"enumeration", "artifacts", "enrichment", "carving"}]

STAGES == DOMAIN Dependencies
Mandatory == {"validation", "volumes", "enumeration", "finalization"}

StageStatuses == {"pending", "running", "paused", "completed", "failed", "skipped"}

(* SchedulerConfig *)
Configs == [max_io_cost: Nat \ {0}, enable_enrichment: BOOLEAN, enable_carving: BOOLEAN]

Enabled(stage, config) ==
    /\ stage = "enrichment" => config.enable_enrichment
    /\ stage = "carving" => config.enable_carving

(* The topological order stage_order computes: by depth, then by name. *)
stage_order ==
    <<"validation", "volumes", "enumeration", "artifacts", "carving", "enrichment",
      "finalization">>

ASSUME StageOrderIsTopological ==
    /\ IsInjective(stage_order) /\ Range(stage_order) = STAGES
    /\ \A i \in DOMAIN stage_order :
          Dependencies[stage_order[i]] \subseteq Range(SubSeq(stage_order, 1, i - 1))

initial_statuses == [s \in STAGES |-> "pending"]

Done(statuses) == {s \in STAGES : statuses[s] \in {"completed", "skipped"}}

(* Mutant: finalization does not wait for its optional dependencies. *)
DependenciesMandatoryOnly(stage, statuses, config) ==
    Dependencies[stage] \cap Mandatory \subseteq Done(statuses)

(* _dependencies_satisfied: finalization waits for its optional dependencies *)
(* to be over one way or another, every other stage for success.             *)
DependenciesSatisfied(stage, statuses, config) ==
    IF stage = "finalization"
      THEN \A d \in Dependencies[stage] :
              \/ d \in Done(statuses)
              \/ d \notin Mandatory /\ (statuses[d] = "failed" \/ ~ Enabled(d, config))
      ELSE Dependencies[stage] \subseteq Done(statuses)

(* Every stage costs one unit of I/O. *)
ActiveIo(statuses) == Cardinality({s \in STAGES : statuses[s] = "running"})

Ready(statuses, config) ==
    {s \in STAGES : /\ statuses[s] = "pending" /\ Enabled(s, config)
                    /\ DependenciesSatisfied(s, statuses, config)}

(* Some place in stage_order has stage s at or before stage r. *)
NotAfter(s, r) ==
    \E i, k \in DOMAIN stage_order : i <= k /\ stage_order[i] = s /\ stage_order[k] = r

(* runnable_stages: the ready stages, in stage order, that fit in the budget. *)
runnable_stages(statuses, config) ==
    LET ready == Ready(statuses, config)
    IN  {s \in ready : ActiveIo(statuses) + Cardinality({r \in ready : NotAfter(r, s)})
                            <= config.max_io_cost}

pause_all(statuses) ==
    [s \in STAGES |-> IF statuses[s] \in {"pending", "running"} THEN "paused"
                      ELSE statuses[s]]

(* Mutant: the dependents of a failed optional stage are left alone. *)
PropagateMandatoryOnly(statuses, stage) ==
    IF statuses[stage] = "pending"
         /\ \E d \in Dependencies[stage] \cap Mandatory : statuses[d] = "failed"
      THEN [statuses EXCEPT ![stage] = "failed"] ELSE statuses

FailedDependencies(statuses, stage) == {d \in Dependencies[stage] : statuses[d] = "failed"}

(* What becomes of a pending stage. *)
Consequence(statuses, stage) ==
    IF FailedDependencies(statuses, stage) \cap Mandatory # {} THEN "failed"
    ELSE IF stage # "finalization" /\ FailedDependencies(statuses, stage) # {} THEN "skipped"
    ELSE "pending"

(* apply_stage_failure: one pass over the pending stages in stage order. *)
Propagate(statuses, stage) ==
    IF statuses[stage] = "pending"
      THEN [statuses EXCEPT ![stage] = Consequence(statuses, stage)] ELSE statuses

apply_stage_failure(statuses, stage) ==
    LET P(k, updated) == Propagate(updated, stage_order[k])
    IN  P(7, P(6, P(5, P(4, P(3, P(2, P(1, [statuses EXCEPT ![stage] = "failed"])))))))

(* The check of restart_plan: a completed stage's dependencies are completed *)
(* or switched off.                                                          *)
RestartAccepted(completed, config) ==
    \A s \in completed : \A d \in Dependencies[s] :
        d \in completed \/ ~ Enabled(d, config)

(* Mutant: a restart forgets which stages were completed. *)
restart_statuses_fresh(completed) == initial_statuses

(* The statuses restart_plan starts from. *)
restart_statuses(completed) ==
    [s \in STAGES |-> IF s \in completed THEN "completed" ELSE "pending"]
=============================================================================
