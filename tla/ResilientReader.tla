-------------------------- MODULE ResilientReader --------------------------
(***************************************************************************)
(* scanner/read_errors.py: reads of damaged media with finite retries, a   *)
(* recorded gap when they are used up, and a recommendation to pause.  One *)
(* read is of one sector; a reader is made for every extraction.           *)
(***************************************************************************)
EXTENDS Naturals, Sequences

CONSTANTS MaxAttempts,        \* ReadPolicy.max_attempts
          PauseAfterErrors,   \* ReadPolicy.pause_after_errors
          Faults              \* the ways an attempt may fail

ASSUME ReaderAssumption ==
    /\ MaxAttempts \in Nat \ {0} /\ PauseAfterErrors \in Nat \ {0}
    /\ Faults \subseteq {"timeout", "eio", "invalid_data", "short_read"}

VARIABLES counters,     \* ReadCounters
          errorRanges,  \* the ReadErrorRange list: <<sector, code>>
          attempt       \* failed attempts of the read in hand

readerVars == <<counters, errorRanges, attempt>>

CounterOf == [timeout |-> "timeouts", invalid_data |-> "invalid_reads",
              short_read |-> "short_reads"]
Counters == {"attempted_reads", "successful_reads", "retry_reads", "failed_reads",
             "skipped_bytes", "recovered_after_retry", "short_reads", "timeouts",
             "invalid_reads"}

NoCounts == [n \in Counters |-> 0]
ReaderInit == counters = NoCounts /\ errorRanges = <<>> /\ attempt = 0
NewReader == counters' = NoCounts /\ errorRanges' = <<>> /\ attempt' = 0

\* The counters with one added to each that is named.
Counted(names) == [n \in Counters |-> counters[n] + (IF n \in names THEN 1 ELSE 0)]

ReadOk ==
    /\ counters' = Counted({"attempted_reads", "successful_reads"}
                    \cup (IF attempt > 0 THEN {"recovered_after_retry"} ELSE {}))
    /\ attempt' = 0
    /\ UNCHANGED errorRanges

FaultCounters(fault) ==
    {"attempted_reads"} \cup (IF fault \in DOMAIN CounterOf THEN {CounterOf[fault]} ELSE {})

ReadRetry(fault) ==
    /\ attempt + 1 < MaxAttempts
    /\ counters' = Counted(FaultCounters(fault) \cup {"retry_reads"})
    /\ attempt' = attempt + 1
    /\ UNCHANGED errorRanges

\* The attempts are used up: the range is recorded and reads as zeros.
ReadGap(sector, fault) ==
    /\ attempt + 1 = MaxAttempts
    /\ counters' = Counted(FaultCounters(fault) \cup {"failed_reads", "skipped_bytes"})
    /\ errorRanges' = Append(errorRanges, <<sector, fault>>)
    /\ attempt' = 0

\* _pause_reason, the temperature probe aside, and warnings().
PauseRecommended == Len(errorRanges) >= PauseAfterErrors
ReadWarnings == (IF errorRanges = <<>> THEN {} ELSE {"read_gap"})
                \cup (IF PauseRecommended THEN {"read_pause_recommended"} ELSE {})

(* Every attempt is accounted for, as a success, as a retry or as the last  *)
(* of a failed read, and the skipped bytes are those of the recorded gaps   *)
(* (read_errors.py:121-171).                                                *)
ReadAccounting ==
    /\ counters["attempted_reads"] = counters["successful_reads"]
            + counters["retry_reads"] + counters["failed_reads"]
    /\ counters["skipped_bytes"] = Len(errorRanges)
    /\ counters["recovered_after_retry"] <= counters["retry_reads"]
=============================================================================
