----------------------------- MODULE ExportQueue -----------------------------
(***************************************************************************)
(* The export queue of worker/export_queue.py over the export engine of    *)
(* LocalExport.  A coordinator (no module of the repository; its calls are *)
(* those the tests make) enqueues items, runs the exporters on ready ones  *)
(* and calls step_queue with snapshots taken earlier.                      *)
(***************************************************************************)
EXTENDS LocalExport

CONSTANT MAX_WAIT_RETRIES

ASSUME RetriesAssumption == MAX_WAIT_RETRIES \in Nat

VARIABLES
    queue,      \* per item, its QueueItem
    dismissed   \* items whose finding has been dismissed

queueVars == <<queue, dismissed>>
vars == <<engineVars, queueVars>>

QueueTerminal == {"exported", "failed", "skipped"}
QUEUE_STATES == {"ready", "waiting"} \union QueueTerminal
QueueItem(state, attempts) == [state |-> state, attempts |-> attempts]
NotQueued == QueueItem("absent", 0)

Ready == {i \in Items : source[i] # NoFile}
Succeeded == {i \in Items : results[i] \in {"completed", "unverified"}}
Unsettled == {i \in Items : queue[i].state \in {"ready", "waiting"}}

classify_readiness(ready, isDismissed) ==
    IF isDismissed THEN "skipped" ELSE IF ready THEN "ready" ELSE "waiting"

(* Readiness and dismissals only grow, so a subset is a snapshot taken earlier. *)
Enqueue(i) ==
    /\ queue[i] = NotQueued
    /\ \E ready \in SUBSET Ready :
          queue' = [queue EXCEPT ![i] =
                      QueueItem(classify_readiness(i \in ready, i \in dismissed), 0)]
    /\ UNCHANGED <<engineVars, dismissed>>

SteppedWaiting(q, ready) ==
    QueueItem(IF ready THEN "ready"
              ELSE IF q.attempts + 1 > MAX_WAIT_RETRIES THEN "failed" ELSE "waiting",
              q.attempts + 1)

(* Mutant: a failed copy does not use up an attempt. *)
SteppedReadyFree(q, copied) == IF copied THEN [q EXCEPT !.state = "exported"] ELSE q

SteppedReady(q, copied) ==
    IF copied THEN [q EXCEPT !.state = "exported"]
    ELSE IF q.attempts >= MAX_WAIT_RETRIES THEN [q EXCEPT !.state = "failed"]
    ELSE [q EXCEPT !.attempts = @ + 1]

Stepped(q, isDismissed, ready, copied) ==
    IF isDismissed THEN [q EXCEPT !.state = "skipped"]
    ELSE IF q.state = "waiting" THEN SteppedWaiting(q, ready) ELSE SteppedReady(q, copied)

(* Items without a result yet count as not copied. *)
step_queue ==
    /\ Unsettled # {}
    /\ \E ready \in SUBSET Ready, gone \in SUBSET dismissed :
          queue' = [i \in Items |->
                      IF i \in Unsettled
                      THEN Stepped(queue[i], i \in gone, i \in ready, i \in Succeeded)
                      ELSE queue[i]]
    /\ UNCHANGED <<engineVars, dismissed>>

Dismiss(i) ==
    /\ i \notin dismissed
    /\ dismissed' = dismissed \union {i}
    /\ UNCHANGED <<engineVars, queue>>

(* The coordinator runs the exporters on the items that are ready. *)
Export(e, i) ==
    /\ queue[i].state = "ready"
    /\ EngineStart(e, i)
    /\ UNCHANGED queueVars

Init ==
    /\ EngineInit
    /\ queue = [i \in Items |-> NotQueued]
    /\ dismissed = {}

Next ==
    \/ \E e \in Exporters : EngineStep(e) /\ UNCHANGED queueVars
    \/ \E e \in Exporters, i \in Items : Export(e, i)
    \/ EngineEnv /\ UNCHANGED queueVars
    \/ \E i \in Items : Enqueue(i) \/ Dismiss(i)
    \/ step_queue

Spec == Init /\ [][Next]_vars /\ WF_vars(step_queue)

-----------------------------------------------------------------------------
(* Properties *)

(* An item reported exported has its copy under the final name for good: the  *)
(* report outlives the exporter, a power loss, a late dismissal and further   *)
(* calls for the same item (export_queue.py:6-9), provided the destination    *)
(* directory can be opened to be synced.                                      *)
ExportedSurvives ==
    dirOpens => \A i \in Items : queue[i].state = "exported" => final[i] # NoFile

(* Every queued item leaves ready and waiting, since each step of the queue   *)
(* that does not settle it uses up an attempt (export_queue.py:123-143).      *)
QueueSettles == \A i \in Items : i \in Unsettled ~> queue[i].state \in QueueTerminal
=============================================================================
