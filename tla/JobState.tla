------------------------------ MODULE JobState -------------------------------
(***************************************************************************)
(* The durable job queue of shared/job_state.py, as several processes use  *)
(* it over the connections of shared/catalog_schema.py.  connect_catalog   *)
(* opens SQLite in autocommit mode, so each SQL statement is atomic and    *)
(* commits by itself: an operation that SELECTs and then UPDATEs is two    *)
(* steps, and other processes, or a crash, may come between them.          *)
(***************************************************************************)
EXTENDS Naturals, JobStates

CONSTANTS
    Jobs,           \* job ids; numbers, ordered as ORDER BY job_id orders them
    Clients,        \* processes calling the library, each with its lease_owner name
    Submissions,    \* the create_or_get_job calls clients may make
    Null,           \* SQL NULL
    LeaseSeconds,   \* lease_seconds of claim_next_job and heartbeat_job
    BaseDelay,      \* RetryPolicy.base_delay_seconds
    MaxDelay,       \* RetryPolicy.max_delay_seconds
    MaxTime         \* bound on the clock

ASSUME JobsAssumption == Jobs \subseteq Nat
ASSUME NullAssumption == Null \notin Nat /\ Null \notin Clients
ASSUME SubmissionsAssumption ==
    \A s \in Submissions : s.job \in Jobs /\ s.max_attempts \in Nat \ {0}
ASSUME BoundsAssumption ==
    /\ LeaseSeconds \in Nat \ {0}
    /\ BaseDelay \in Nat \ {0}
    /\ MaxDelay \in Nat /\ MaxDelay >= BaseDelay
    /\ MaxTime \in Nat

VARIABLES
    rows,   \* the jobs table; the row of a job not yet created has state "absent"
    call,   \* what a client remembers between the statements of one operation
    acked,  \* <<submission, job>> for every create_or_get_job that returned
    clock   \* wall-clock seconds

vars == <<rows, call, acked, clock>>

Idle == [op |-> "idle"]
Absent == [state |-> "absent", key |-> Null, input |-> Null, owner |-> Null,
           expires |-> Null, retry |-> Null, attempts |-> 0, max_attempts |-> 1,
           created |-> 0]

Created == {j \in Jobs : rows[j].state # "absent"}

-----------------------------------------------------------------------------
(* Operators the statements are built from. *)

(* "retry_after_at <= now" and "lease_expires_at < now" are NULL, hence not  *)
(* true, on a NULL column.                                                   *)
Due(t, now) == t # Null /\ t <= now
Expired(t, now) == t # Null /\ t < now

(* The WHERE clause that the SELECT and the UPDATE of claim_next_job share. *)
Claimable(row, now) ==
    \/ row.state = "pending"
    \/ row.state = "retrying" /\ Due(row.retry, now)
    \/ row.state \in {"leased", "running"} /\ Expired(row.expires, now)

(* ORDER BY created_at, job_id *)
Before(i, j) ==
    \/ rows[i].created < rows[j].created
    \/ rows[i].created = rows[j].created /\ i <= j

(* The row the SELECT of claim_next_job returns: LIMIT 1 of that order. *)
IsHead(j, now) ==
    /\ j \in Jobs /\ Claimable(rows[j], now)
    /\ \A i \in Jobs : Claimable(rows[i], now) => Before(j, i)

RetryDelay(attempts) ==
    LET uncapped == BaseDelay * 2^(IF attempts > 0 THEN attempts - 1 ELSE 0)
    IN  IF uncapped \in BaseDelay..MaxDelay THEN uncapped ELSE MaxDelay

-----------------------------------------------------------------------------
(* create_or_get_job: the INSERT fails on a known job_id or idempotency_key; *)
(* then the row with that key answers, if its input is the submitted one.    *)

DuplicateKey(s) == \E j \in Created : rows[j].key = s.key

NewRow(s) ==
    [Absent EXCEPT !.state = "pending", !.key = s.key, !.input = s.input,
                   !.max_attempts = s.max_attempts, !.created = clock]

Create(s) ==
    /\ rows[s.job].state = "absent" /\ ~ DuplicateKey(s)
    /\ rows' = [rows EXCEPT ![s.job] = NewRow(s)]
    /\ acked' = acked \cup {<<s, s.job>>}
    /\ UNCHANGED <<call, clock>>

GetExisting(s) ==
    /\ \E j \in Created :
          /\ rows[j].key = s.key /\ rows[j].input = s.input
          /\ acked' = acked \cup {<<s, j>>}
    /\ UNCHANGED <<rows, call, clock>>

-----------------------------------------------------------------------------
(* Single UPDATE statements. *)

claim_pending_job(c, j) ==
    /\ call[c] = Idle
    /\ rows[j].state = "pending" /\ rows[j].attempts < rows[j].max_attempts
    /\ rows' = [rows EXCEPT ![j] = [@ EXCEPT !.state = "leased", !.owner = c,
                                             !.attempts = rows[j].attempts + 1]]
    /\ UNCHANGED <<call, acked, clock>>

heartbeat_job(c, j) ==
    /\ call[c] = Idle
    /\ rows[j].owner = c /\ rows[j].state \in {"leased", "running"}
    /\ rows[j].expires # Null /\ rows[j].expires >= clock
    /\ rows' = [rows EXCEPT ![j] = [@ EXCEPT !.expires = clock + LeaseSeconds]]
    /\ UNCHANGED <<call, acked, clock>>

-----------------------------------------------------------------------------
(* claim_next_job: SELECT the head of the queue, then UPDATE that one row if *)
(* it is still claimable and has attempts left; otherwise return None.       *)

ClaimSelect(c) ==
    /\ call[c] = Idle
    /\ \E j \in Jobs :
          /\ IsHead(j, clock)
          /\ call' = [call EXCEPT ![c] = [op |-> "claim", job |-> j, now |-> clock]]
    /\ UNCHANGED <<rows, acked, clock>>

Lease(row, c, now) ==
    [row EXCEPT !.state = "leased", !.owner = c, !.expires = now + LeaseSeconds,
                !.retry = Null, !.attempts = row.attempts + 1]

(* Mutants: the UPDATE forgets one of its two re-checks. *)
MayLeaseUnlimited(row, now) == Claimable(row, now)
MayLeaseUnchecked(row, now) == row.attempts < row.max_attempts

MayLease(row, now) == row.attempts < row.max_attempts /\ Claimable(row, now)

ClaimUpdate(c) ==
    /\ call[c].op = "claim"
    /\ LET j == call[c].job
           now == call[c].now
       IN rows' = IF MayLease(rows[j], now)
                    THEN [rows EXCEPT ![j] = Lease(rows[j], c, now)]
                    ELSE rows
    /\ call' = [call EXCEPT ![c] = Idle]
    /\ UNCHANGED <<acked, clock>>

-----------------------------------------------------------------------------
(* transition_job: read the row, validate, then compare-and-swap on state.   *)
(* record_process_death reads the row on its own first to choose the target  *)
(* state.  safe_stop_job and release_for_retry are transition_job with the   *)
(* targets "paused" and "pending".                                           *)

record_process_death(c, j) ==
    /\ call[c] = Idle
    /\ rows[j].state \in {"leased", "running"}
    /\ call' = [call EXCEPT ![c] =
                  [op |-> "death", job |-> j,
                   to |-> IF rows[j].attempts < rows[j].max_attempts
                            THEN "retrying" ELSE "failed"]]
    /\ UNCHANGED <<rows, acked, clock>>

TransitionRead(c, j, to) ==
    /\ \/ call[c] = Idle
       \/ call[c].op = "death" /\ call[c].job = j /\ call[c].to = to
    /\ rows[j].state # "absent"
    /\ call' = [call EXCEPT ![c] =
                  IF TransitionAllowed(rows[j].state, to)
                    THEN [op |-> "transition", job |-> j, from |-> rows[j].state,
                          to |-> to, owner |-> rows[j].owner]
                    ELSE Idle]                          \* JobStateError
    /\ UNCHANGED <<rows, acked, clock>>

Transitioned(row, to, owner) ==
    [row EXCEPT !.state = to, !.expires = Null,
                !.owner = IF to = "leased" THEN owner ELSE Null]

StillFrom(row, from) == row.state = from

TransitionUpdate(c) ==
    /\ call[c].op = "transition"
    /\ LET j == call[c].job
       IN rows' = IF StillFrom(rows[j], call[c].from)
                    THEN [rows EXCEPT ![j] =
                            Transitioned(rows[j], call[c].to, call[c].owner)]
                    ELSE rows                           \* JobStateError
    /\ call' = [call EXCEPT ![c] = Idle]
    /\ UNCHANGED <<acked, clock>>

-----------------------------------------------------------------------------
(* finish_attempt: read and decide, then UPDATE ... WHERE job_id only.       *)

FinishRead(c, j, error_class) ==
    /\ call[c] = Idle
    /\ rows[j].state \in {"leased", "running"}
    /\ LET retryable == error_class = "transient"
                          /\ rows[j].attempts < rows[j].max_attempts
       IN call' = [call EXCEPT ![c] =
            [op |-> "finish", job |-> j,
             to |-> IF retryable THEN "retrying" ELSE "failed",
             retry |-> IF retryable THEN clock + RetryDelay(rows[j].attempts)
                                    ELSE Null]]
    /\ UNCHANGED <<rows, acked, clock>>

Finished(row, to, retry) ==
    [row EXCEPT !.state = to, !.owner = Null, !.expires = Null, !.retry = retry]

FinishUpdate(c) ==
    /\ call[c].op = "finish"
    /\ LET j == call[c].job
       IN rows' = [rows EXCEPT ![j] = Finished(rows[j], call[c].to, call[c].retry)]
    /\ call' = [call EXCEPT ![c] = Idle]
    /\ UNCHANGED <<acked, clock>>

-----------------------------------------------------------------------------
(* The environment: time passes, and a client may die between two statements. *)

Tick ==
    /\ clock < MaxTime
    /\ clock' = clock + 1
    /\ UNCHANGED <<rows, call, acked>>

Crash(c) ==
    /\ call[c] # Idle
    /\ call' = [call EXCEPT ![c] = Idle]
    /\ UNCHANGED <<rows, acked, clock>>

-----------------------------------------------------------------------------
Init ==
    /\ rows = [j \in Jobs |-> Absent]
    /\ call = [c \in Clients |-> Idle]
    /\ acked = {}
    /\ clock = 0

Submit == \E s \in Submissions : Create(s) \/ GetExisting(s)

Step(c) ==
    \/ ClaimSelect(c)
    \/ ClaimUpdate(c)
    \/ TransitionUpdate(c)
    \/ FinishUpdate(c)
    \/ Crash(c)
    \/ \E j \in Jobs :
          \/ claim_pending_job(c, j)
          \/ heartbeat_job(c, j)
          \/ record_process_death(c, j)
          \/ \E to \in STATES : TransitionRead(c, j, to)
          \/ \E e \in {"transient", "permanent"} : FinishRead(c, j, e)

Next == Tick \/ Submit \/ \E c \in Clients : Step(c)

Spec == Init /\ [][Next]_vars
-----------------------------------------------------------------------------
(* Correctness. *)

OptionalTime == Nat \cup {Null}

RowType ==
    [state: STATES \cup {"absent"}, key: {s.key : s \in Submissions} \cup {Null},
     input: {s.input : s \in Submissions} \cup {Null}, owner: Clients \cup {Null},
     expires: OptionalTime, retry: OptionalTime, attempts: Nat,
     max_attempts: Nat \ {0}, created: Nat]

CallType ==
    {Idle}
    \cup [op: {"claim"}, job: Jobs, now: Nat]
    \cup [op: {"death"}, job: Jobs, to: STATES]
    \cup [op: {"transition"}, job: Jobs, from: STATES, to: STATES,
          owner: Clients \cup {Null}]
    \cup [op: {"finish"}, job: Jobs, to: {"retrying", "failed"}, retry: OptionalTime]

(* The columns of a row and what a client remembers in mid-operation have    *)
(* the types the schema and the code give them.                              *)
TypeOK ==
    /\ rows \in [Jobs -> RowType]
    /\ call \in [Clients -> CallType]
    /\ acked \subseteq Submissions \X Jobs
    /\ clock \in Nat

(* However claims, retries and deaths of several clients interleave, a job   *)
(* is never leased more often than its max_attempts allows: the UPDATEs of   *)
(* claim_pending_job and claim_next_job re-check attempts themselves.        *)
AttemptsBounded == \A j \in Jobs : rows[j].attempts <= rows[j].max_attempts

(* Ownership and expiry never outlive the leased state, whatever operations  *)
(* race on the row: only a leased row has a lease_owner, and only an owned   *)
(* row has a lease_expires_at.  In particular a running row has neither, so  *)
(* heartbeat_job never extends it and claim_next_job never reclaims it.      *)
LeaseShape ==
    \A j \in Jobs :
        /\ rows[j].owner # Null => rows[j].state = "leased"
        /\ rows[j].expires # Null => rows[j].owner # Null

(* Two workers cannot own one job: a lease that has not expired may be given *)
(* up or extended, but no step hands it to another owner, even when several  *)
(* claim_next_job calls selected the same row before any of them updated it. *)
LiveLeaseNotStolen ==
    [][\A j \in Jobs :
          rows[j].owner # Null /\ ~ Expired(rows[j].expires, clock)
            => rows'[j].owner \in {rows[j].owner, Null}]_vars

(* Every change of a row's state is an edge of ALLOWED_TRANSITIONS, the      *)
(* re-lease of a due retry by claim_next_job, or the second statement of a   *)
(* finish_attempt; no late compare-and-swap of transition_job, and no claim  *)
(* of a row selected earlier, ever applies an edge its current state forbids. *)
LifecycleEdges ==
    [][\A j \in Jobs : rows'[j].state # rows[j].state =>
          \/ rows[j].state = "absent" /\ rows'[j].state = "pending"
          \/ TransitionAllowed(rows[j].state, rows'[j].state)
          \/ rows[j].state = "retrying" /\ rows'[j].state = "leased"
          \/ \E c \in Clients : /\ call[c].op = "finish" /\ call[c].job = j
                                /\ call'[c] = Idle /\ rows'[j].state = call[c].to]_vars

(* Duplicate submissions are answered by one job: create_or_get_job calls    *)
(* with the same idempotency key that returned, returned the same job, had   *)
(* the same input, and that job still carries the input after any history.   *)
SubmissionsIdempotent ==
    \A a, b \in acked :
        a[1].key = b[1].key =>
            /\ a[2] = b[2] /\ a[1].input = b[1].input
            /\ rows[a[2]].input = a[1].input

(* What the queue's users rely on, whichever calls interleave: the three     *)
(* invariants above (job_state.py:83-330).                                   *)
JobsSound == AttemptsBounded /\ LeaseShape /\ SubmissionsIdempotent

(* What no step of any caller does: take a live lease, or move a row along   *)
(* an edge its state forbids (job_state.py:167-279).                         *)
JobStepsLegal == LiveLeaseNotStolen /\ LifecycleEdges

(* What makes the invariants above inductive.  An operation in flight still  *)
(* holds what its first statement established: a validated edge, a time that *)
(* has passed, a row that exists.                                            *)
CallValid(c) ==
    /\ call[c].op = "transition" => TransitionAllowed(call[c].from, call[c].to)
    /\ call[c].op = "claim" => call[c].now <= clock
    /\ call[c].op = "finish" => rows[call[c].job].state # "absent"

CallsValid == \A c \in Clients : CallValid(c)

(* An acknowledged submission stays in the table, and a key stays unique. *)
AcksAnswered ==
    /\ \A a \in acked : /\ rows[a[2]].state # "absent"
                         /\ rows[a[2]].key = a[1].key
                         /\ rows[a[2]].input = a[1].input
    /\ \A i, j \in Created : rows[i].key = rows[j].key => i = j

IInv == TypeOK /\ AttemptsBounded /\ LeaseShape /\ CallsValid /\ AcksAnswered

(* claim_next_job leases "the next runnable pending, retrying, or expired    *)
(* job" (shared/job_state.py:147): workers that keep polling reach every     *)
(* pending job that has attempts left.                                       *)
RunnableJobReached ==
    \A j \in Jobs : (rows[j].state = "pending" /\ rows[j].attempts < rows[j].max_attempts)
                      ~> rows[j].state # "pending"

(* Workers that only poll with claim_next_job and die; each keeps polling,   *)
(* and its polls do not die for ever between the two statements.             *)
PollNext ==
    \/ Tick
    \/ Submit
    \/ \E c \in Clients : ClaimSelect(c) \/ ClaimUpdate(c) \/ Crash(c)

PollingSpec ==
    /\ Init /\ [][PollNext]_vars
    /\ \A c \in Clients : WF_vars(ClaimSelect(c)) /\ SF_vars(ClaimUpdate(c))
=============================================================================
