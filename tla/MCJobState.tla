----------------------------- MODULE MCJobState ------------------------------
(* Small instances of JobState for TLC. *)
EXTENDS JobState

(* Three submissions under one key: two with the same input that race for    *)
(* two job ids, and one that reuses the key with a different input.          *)
MCSubmissions ==
    {[job |-> 1, key |-> "k1", input |-> "a", max_attempts |-> 2],
     [job |-> 2, key |-> "k1", input |-> "a", max_attempts |-> 2],
     [job |-> 2, key |-> "k1", input |-> "b", max_attempts |-> 2]}

(* Two jobs with the default max_attempts of 1. *)
MCDefaultSubmissions ==
    {[job |-> 1, key |-> "k1", input |-> "a", max_attempts |-> 1],
     [job |-> 2, key |-> "k2", input |-> "b", max_attempts |-> 1]}
=============================================================================
