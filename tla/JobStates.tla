------------------------------ MODULE JobStates ------------------------------
(***************************************************************************)
(* The vocabulary of shared/job_state.py: the states of a row of the       *)
(* catalog's jobs table and the transitions transition_job accepts.        *)
(***************************************************************************)

TERMINAL_STATES == {"completed", "completed-warning", "failed", "cancelled"}

STATES == {"pending", "leased", "running", "paused", "retrying"} \cup TERMINAL_STATES

ALLOWED_TRANSITIONS ==
    [pending  |-> {"leased", "cancelled"},
     leased   |-> {"running", "pending", "retrying", "failed", "cancelled"},
     running  |-> {"paused", "retrying", "completed", "completed-warning",
                   "failed", "cancelled"},
     paused   |-> {"running", "cancelled"},
     retrying |-> {"pending", "failed", "cancelled"}]

(* _validate_transition: the terminal states have no successor at all. *)
TransitionAllowed(from, to) ==
    from \in DOMAIN ALLOWED_TRANSITIONS /\ to \in ALLOWED_TRANSITIONS[from]
=============================================================================
