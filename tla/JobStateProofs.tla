--------------------------- MODULE JobStateProofs ----------------------------
(***************************************************************************)
(* Proofs about JobState, for any sets of jobs, clients and submissions.   *)
(***************************************************************************)
EXTENDS JobState, TLAPS

(* The back-off of _retry_delay_seconds is a whole number of seconds. *)
LEMMA RetryDelayType ==
    ASSUME NEW attempts \in Nat
    PROVE  RetryDelay(attempts) \in Nat
  BY BoundsAssumption DEF RetryDelay

(* What a client remembers names the operation it is in. *)
LEMMA CallCases ==
    ASSUME NEW m \in CallType
    PROVE  /\ m.op = "claim" => m.job \in Jobs /\ m.now \in Nat
           /\ m.op = "death" => m.job \in Jobs /\ m.to \in STATES
           /\ m.op = "transition" => /\ m.job \in Jobs /\ m.from \in STATES
                                     /\ m.to \in STATES
                                     /\ m.owner \in Clients \cup {Null}
           /\ m.op = "finish" => /\ m.job \in Jobs /\ m.to \in {"retrying", "failed"}
                                 /\ m.retry \in OptionalTime
  BY DEF CallType, Idle
(* The rows that the UPDATE statements write. *)
LEMMA LeaseType ==
    ASSUME NEW row \in RowType, NEW c \in Clients, NEW now \in Nat
    PROVE  Lease(row, c, now) \in RowType
<1>1. now + LeaseSeconds \in OptionalTime /\ Null \in OptionalTime
  BY BoundsAssumption DEF OptionalTime
<1>2. row.attempts + 1 \in Nat
  BY DEF RowType
<1>3. "leased" \in STATES
  BY DEF STATES
<1> QED
  BY <1>1, <1>2, <1>3 DEF Lease, RowType

LEMMA ClaimedPendingType ==
    ASSUME NEW row \in RowType, NEW c \in Clients
    PROVE  [row EXCEPT !.state = "leased", !.owner = c, !.attempts = row.attempts + 1]
             \in RowType
<1>1. row.attempts + 1 \in Nat
  BY DEF RowType
<1>2. "leased" \in STATES
  BY DEF STATES
<1> QED
  BY <1>1, <1>2 DEF RowType

LEMMA TransitionedType ==
    ASSUME NEW row \in RowType, NEW to \in STATES, NEW owner \in Clients \cup {Null}
    PROVE  Transitioned(row, to, owner) \in RowType
  BY DEF Transitioned, RowType, OptionalTime

LEMMA FinishedType ==
    ASSUME NEW row \in RowType, NEW to \in STATES, NEW retry \in OptionalTime
    PROVE  Finished(row, to, retry) \in RowType
  BY DEF Finished, RowType, OptionalTime

-----------------------------------------------------------------------------
(* Type correctness. *)

LEMMA TypeInit == Init => TypeOK
  BY SubmissionsAssumption, BoundsAssumption, NullAssumption
     DEF Init, TypeOK, RowType, CallType, Absent, Idle, OptionalTime, STATES

(* Every operation of a client preserves the types. *)
LEMMA TypeStep ==
    ASSUME TypeOK, NEW c \in Clients, Step(c)
    PROVE  TypeOK'
<1> USE DEF TypeOK
<1> call[c] \in CallType
  OBVIOUS
<1>1. CASE ClaimSelect(c)
  BY <1>1 DEF ClaimSelect, CallType
<1>2. CASE ClaimUpdate(c)
  <2>1. call' \in [Clients -> CallType]
    BY <1>2 DEF ClaimUpdate, CallType
  <2>2. call[c].job \in Jobs /\ call[c].now \in Nat
    BY <1>2, CallCases DEF ClaimUpdate
  <2>3. Lease(rows[call[c].job], c, call[c].now) \in RowType
    BY <2>2, LeaseType
  <2>4. rows' \in [Jobs -> RowType]
    BY <1>2, <2>2, <2>3 DEF ClaimUpdate
  <2> QED
    BY <1>2, <2>1, <2>4 DEF ClaimUpdate
<1>3. CASE TransitionUpdate(c)
  <2>1. call' \in [Clients -> CallType]
    BY <1>3 DEF TransitionUpdate, CallType
  <2>2. /\ call[c].job \in Jobs /\ call[c].to \in STATES
        /\ call[c].owner \in Clients \cup {Null}
    BY <1>3, CallCases DEF TransitionUpdate
  <2>3. Transitioned(rows[call[c].job], call[c].to, call[c].owner) \in RowType
    BY <2>2, TransitionedType
  <2>4. rows' \in [Jobs -> RowType]
    BY <1>3, <2>2, <2>3 DEF TransitionUpdate
  <2> QED
    BY <1>3, <2>1, <2>4 DEF TransitionUpdate
<1>4. CASE FinishUpdate(c)
  <2>1. call' \in [Clients -> CallType]
    BY <1>4 DEF FinishUpdate, CallType
  <2>2. /\ call[c].job \in Jobs /\ call[c].to \in STATES
        /\ call[c].retry \in OptionalTime
    BY <1>4, CallCases DEF FinishUpdate, STATES, TERMINAL_STATES
  <2>3. rows' \in [Jobs -> RowType]
    BY <1>4, <2>2, FinishedType DEF FinishUpdate
  <2> QED
    BY <1>4, <2>1, <2>3 DEF FinishUpdate
<1>5. CASE Crash(c)
  BY <1>5 DEF Crash, CallType
<1>6. ASSUME NEW j \in Jobs, claim_pending_job(c, j)
      PROVE  TypeOK'
  <2>1. rows' \in [Jobs -> RowType]
    BY <1>6, ClaimedPendingType DEF claim_pending_job
  <2> QED
    BY <1>6, <2>1 DEF claim_pending_job
<1>7. ASSUME NEW j \in Jobs, heartbeat_job(c, j)
      PROVE  TypeOK'
  <2>1. rows' \in [Jobs -> RowType]
    BY <1>7, BoundsAssumption DEF heartbeat_job, RowType, OptionalTime
  <2> QED
    BY <1>7, <2>1 DEF heartbeat_job
<1>8. ASSUME NEW j \in Jobs, record_process_death(c, j)
      PROVE  TypeOK'
  BY <1>8 DEF record_process_death, CallType, STATES, TERMINAL_STATES
<1>9. ASSUME NEW j \in Jobs, NEW to \in STATES, TransitionRead(c, j, to)
      PROVE  TypeOK'
  <2>1. rows[j].state \in STATES /\ rows[j].owner \in Clients \cup {Null}
    BY <1>9 DEF TransitionRead, RowType
  <2> QED
    BY <1>9, <2>1 DEF TransitionRead, CallType
<1>10. ASSUME NEW j \in Jobs, NEW e \in {"transient", "permanent"}, FinishRead(c, j, e)
       PROVE  TypeOK'
  <2>1. clock + RetryDelay(rows[j].attempts) \in Nat
    BY RetryDelayType DEF RowType
  <2>2. call' \in [Clients -> CallType]
    BY <1>10, <2>1 DEF FinishRead, CallType, OptionalTime
  <2> QED
    BY <1>10, <2>2 DEF FinishRead
<1> QED
  BY <1>1, <1>2, <1>3, <1>4, <1>5, <1>6, <1>7, <1>8, <1>9, <1>10 DEF Step

LEMMA TypeNext ==
    ASSUME TypeOK, [Next]_vars
    PROVE  TypeOK'
<1>1. CASE Tick
  BY <1>1 DEF Tick, TypeOK
<1>2. ASSUME NEW s \in Submissions, Create(s)
      PROVE  TypeOK'
  <2>1. NewRow(s) \in RowType
    BY SubmissionsAssumption DEF NewRow, Absent, RowType, OptionalTime, STATES, TypeOK
  <2> QED
    BY <1>2, <2>1, SubmissionsAssumption DEF Create, TypeOK
<1>3. ASSUME NEW s \in Submissions, GetExisting(s)
      PROVE  TypeOK'
  BY <1>3 DEF GetExisting, Created, TypeOK
<1>4. CASE \E c \in Clients : Step(c)
  BY <1>4, TypeStep
<1>5. CASE UNCHANGED vars
  BY <1>5 DEF vars, TypeOK
<1> QED
  BY <1>1, <1>2, <1>3, <1>4, <1>5 DEF Next, Submit

(* The catalog's rows and every client's in-flight operation keep the types  *)
(* of the schema (catalog_schema.py) in every behaviour.                     *)
THEOREM TypeCorrect == Spec => []TypeOK
  BY TypeInit, TypeNext, PTL DEF Spec
-----------------------------------------------------------------------------
(* What a step may do to one row: the seven statements that write the table. *)

RowCreated(j) ==
    /\ rows[j].state = "absent"
    /\ \E s \in Submissions : ~ DuplicateKey(s) /\ rows'[j] = NewRow(s)
RowClaimedPending(j) ==
    /\ rows[j].state = "pending" /\ rows[j].attempts < rows[j].max_attempts
    /\ \E c \in Clients :
          rows'[j] = [rows[j] EXCEPT !.state = "leased", !.owner = c,
                                     !.attempts = rows[j].attempts + 1]
RowHeartbeat(j) ==
    /\ rows[j].owner \in Clients
    /\ rows'[j] = [rows[j] EXCEPT !.expires = clock + LeaseSeconds]
RowLeased(j) ==
    \E c \in Clients, now \in Nat :
        now <= clock /\ MayLease(rows[j], now) /\ rows'[j] = Lease(rows[j], c, now)
RowTransitioned(j) ==
    \E to \in STATES, owner \in Clients \cup {Null} :
        /\ TransitionAllowed(rows[j].state, to)
        /\ rows'[j] = Transitioned(rows[j], to, owner)
RowFinished(j) ==
    \E c \in Clients :
        /\ call[c].op = "finish" /\ call[c].job = j /\ call'[c] = Idle
        /\ rows'[j] = Finished(rows[j], call[c].to, call[c].retry)

RowStep(j) ==
    \/ rows'[j] = rows[j]
    \/ RowCreated(j)
    \/ RowClaimedPending(j)
    \/ RowHeartbeat(j)
    \/ RowLeased(j)
    \/ RowTransitioned(j)
    \/ RowFinished(j)

(* Every step of the system is one of these on every row: this is where the  *)
(* re-checks of the second statements (MayLease, StillFrom) are used.        *)
LEMMA RowSteps ==
    ASSUME TypeOK, CallsValid, [Next]_vars, NEW j \in Jobs
    PROVE  RowStep(j)
<1> USE DEF TypeOK
<1>1. CASE UNCHANGED rows
  BY <1>1 DEF RowStep
<1>2. ASSUME NEW s \in Submissions, Create(s)
      PROVE  RowStep(j)
  <2>1. CASE s.job = j
    BY <1>2, <2>1 DEF Create, RowStep, RowCreated
  <2>2. CASE s.job # j
    BY <1>2, <2>2 DEF Create, RowStep
  <2> QED
    BY <2>1, <2>2
<1>3. ASSUME NEW c \in Clients, ClaimUpdate(c)
      PROVE  RowStep(j)
  <2>1. call[c].job \in Jobs /\ call[c].now \in Nat /\ call[c].now <= clock
    BY <1>3, CallCases DEF ClaimUpdate, CallsValid, CallValid
  <2>2. CASE call[c].job = j /\ MayLease(rows[j], call[c].now)
    BY <1>3, <2>1, <2>2 DEF ClaimUpdate, RowStep, RowLeased
  <2>3. CASE ~ (call[c].job = j /\ MayLease(rows[j], call[c].now))
    BY <1>3, <2>1, <2>3 DEF ClaimUpdate, RowStep
  <2> QED
    BY <2>2, <2>3
<1>4. ASSUME NEW c \in Clients, TransitionUpdate(c)
      PROVE  RowStep(j)
  <2>1. /\ call[c].job \in Jobs /\ call[c].to \in STATES
        /\ call[c].owner \in Clients \cup {Null}
        /\ TransitionAllowed(call[c].from, call[c].to)
    BY <1>4, CallCases DEF TransitionUpdate, CallsValid, CallValid
  <2>2. CASE call[c].job = j /\ StillFrom(rows[j], call[c].from)
    <3>1. rows'[j] = Transitioned(rows[j], call[c].to, call[c].owner)
      BY <1>4, <2>2 DEF TransitionUpdate
    <3> QED
      BY <2>1, <2>2, <3>1 DEF StillFrom, RowStep, RowTransitioned
  <2>3. CASE ~ (call[c].job = j /\ StillFrom(rows[j], call[c].from))
    BY <1>4, <2>1, <2>3 DEF TransitionUpdate, RowStep
  <2> QED
    BY <2>2, <2>3
<1>5. ASSUME NEW c \in Clients, FinishUpdate(c)
      PROVE  RowStep(j)
  <2>1. CASE call[c].job = j
    BY <1>5, <2>1 DEF FinishUpdate, RowStep, RowFinished
  <2>2. CASE call[c].job # j
    BY <1>5, <2>2 DEF FinishUpdate, RowStep
  <2> QED
    BY <2>1, <2>2
<1>6. ASSUME NEW c \in Clients, NEW i \in Jobs, claim_pending_job(c, i)
      PROVE  RowStep(j)
  <2>1. CASE i = j
    BY <1>6, <2>1 DEF claim_pending_job, RowStep, RowClaimedPending
  <2>2. CASE i # j
    BY <1>6, <2>2 DEF claim_pending_job, RowStep
  <2> QED
    BY <2>1, <2>2
<1>7. ASSUME NEW c \in Clients, NEW i \in Jobs, heartbeat_job(c, i)
      PROVE  RowStep(j)
  <2>1. CASE i = j
    BY <1>7, <2>1 DEF heartbeat_job, RowStep, RowHeartbeat
  <2>2. CASE i # j
    BY <1>7, <2>2 DEF heartbeat_job, RowStep
  <2> QED
    BY <2>1, <2>2
<1> QED
  BY <1>1, <1>2, <1>3, <1>4, <1>5, <1>6, <1>7
     DEF Next, Submit, Step, Tick, GetExisting, ClaimSelect, Crash,
         record_process_death, TransitionRead, FinishRead, vars
-----------------------------------------------------------------------------
(* The inductive invariant. *)

LEMMA InvInit == Init => IInv
<1> SUFFICES ASSUME Init PROVE IInv
  OBVIOUS
<1>1. TypeOK
  BY TypeInit
<1>2. AttemptsBounded /\ LeaseShape /\ AcksAnswered
  BY DEF Init, Absent, AttemptsBounded, LeaseShape, AcksAnswered, Created
<1>3. CallsValid
  BY DEF Init, Idle, CallsValid, CallValid
<1> QED
  BY <1>1, <1>2, <1>3 DEF IInv

LEMMA AttemptsNext ==
    ASSUME TypeOK, AttemptsBounded, CallsValid, [Next]_vars
    PROVE  AttemptsBounded'
<1> SUFFICES ASSUME NEW j \in Jobs
             PROVE  rows'[j].attempts <= rows'[j].max_attempts
  BY DEF AttemptsBounded
<1>1. /\ rows[j] \in RowType /\ rows[j].attempts <= rows[j].max_attempts
      /\ rows[j].attempts \in Nat /\ rows[j].max_attempts \in Nat
  BY DEF TypeOK, AttemptsBounded, RowType
<1>2. CASE RowCreated(j)
  BY <1>2, SubmissionsAssumption DEF RowCreated, NewRow, Absent
<1>3. CASE RowClaimedPending(j)
  BY <1>1, <1>3 DEF RowClaimedPending, RowType
<1>4. CASE RowHeartbeat(j)
  BY <1>1, <1>4 DEF RowHeartbeat, RowType
<1>5. CASE RowLeased(j)
  BY <1>1, <1>5 DEF RowLeased, MayLease, Lease, RowType
<1>6. CASE RowTransitioned(j)
  BY <1>1, <1>6 DEF RowTransitioned, Transitioned, RowType
<1>7. CASE RowFinished(j)
  BY <1>1, <1>7 DEF RowFinished, Finished, RowType
<1> QED
  BY <1>1, <1>2, <1>3, <1>4, <1>5, <1>6, <1>7, RowSteps DEF RowStep

LEMMA LeaseShapeNext ==
    ASSUME TypeOK, LeaseShape, CallsValid, [Next]_vars
    PROVE  LeaseShape'
<1> SUFFICES ASSUME NEW j \in Jobs
             PROVE  /\ rows'[j].owner # Null => rows'[j].state = "leased"
                    /\ rows'[j].expires # Null => rows'[j].owner # Null
  BY DEF LeaseShape
<1>1. /\ rows[j] \in RowType
      /\ rows[j].owner # Null => rows[j].state = "leased"
      /\ rows[j].expires # Null => rows[j].owner # Null
  BY DEF TypeOK, LeaseShape
<1>2. CASE RowCreated(j)
  BY <1>2 DEF RowCreated, NewRow, Absent
<1>3. CASE RowClaimedPending(j)
  BY <1>1, <1>3, NullAssumption DEF RowClaimedPending, RowType
<1>4. CASE RowHeartbeat(j)
  BY <1>1, <1>4, NullAssumption DEF RowHeartbeat, RowType
<1>5. CASE RowLeased(j)
  BY <1>1, <1>5, NullAssumption DEF RowLeased, Lease, RowType
<1>6. CASE RowTransitioned(j)
  BY <1>1, <1>6 DEF RowTransitioned, Transitioned, RowType
<1>7. CASE RowFinished(j)
  BY <1>1, <1>7 DEF RowFinished, Finished, RowType
<1> QED
  BY <1>1, <1>2, <1>3, <1>4, <1>5, <1>6, <1>7, RowSteps DEF RowStep
(* A row, once created, keeps its key and its input. *)
LEMMA RowIdentity ==
    ASSUME TypeOK, CallsValid, [Next]_vars, NEW j \in Jobs, rows[j].state # "absent"
    PROVE  /\ rows'[j].state # "absent"
           /\ rows'[j].key = rows[j].key
           /\ rows'[j].input = rows[j].input
<1>1. rows[j] \in RowType
  BY DEF TypeOK
<1>2. CASE RowClaimedPending(j)
  BY <1>1, <1>2 DEF RowClaimedPending, RowType
<1>3. CASE RowHeartbeat(j)
  BY <1>1, <1>3 DEF RowHeartbeat, RowType
<1>4. CASE RowLeased(j)
  BY <1>1, <1>4 DEF RowLeased, Lease, RowType
<1>5. CASE RowTransitioned(j)
  BY <1>1, <1>5 DEF RowTransitioned, Transitioned, RowType, STATES, TERMINAL_STATES
<1>6. CASE RowFinished(j)
  <2>1. PICK c \in Clients : /\ call[c].op = "finish"
                             /\ rows'[j] = Finished(rows[j], call[c].to, call[c].retry)
    BY <1>6 DEF RowFinished
  <2>2. call[c].to \in {"retrying", "failed"}
    BY <2>1, CallCases DEF TypeOK
  <2> QED
    BY <1>1, <2>1, <2>2 DEF Finished, RowType
<1> QED
  BY <1>2, <1>3, <1>4, <1>5, <1>6, RowSteps DEF RowStep, RowCreated
LEMMA CallsNext ==
    ASSUME TypeOK, CallsValid, [Next]_vars
    PROVE  CallsValid'
<1> SUFFICES ASSUME NEW c \in Clients
             PROVE  CallValid(c)'
  BY DEF CallsValid
<1> USE DEF TypeOK
<1>1. /\ call[c].op = "transition" => TransitionAllowed(call[c].from, call[c].to)
      /\ call[c].op = "claim" => call[c].now <= clock /\ call[c].now \in Nat
      /\ call[c].op = "finish" => /\ call[c].job \in Jobs
                                  /\ rows[call[c].job].state # "absent"
      /\ clock \in Nat
  BY CallCases DEF CallsValid, CallValid
<1>a. CASE call'[c] = call[c] /\ clock' \in {clock, clock + 1}
  BY <1>1, <1>a, RowIdentity DEF CallValid
<1>2. CASE Tick
  BY <1>a, <1>2 DEF Tick
<1>3. CASE Submit \/ UNCHANGED vars
  BY <1>a, <1>3 DEF Submit, Create, GetExisting, vars
<1>4. ASSUME NEW d \in Clients, Step(d)
      PROVE  CallValid(c)'
  <2>0. clock' = clock
    BY <1>4 DEF Step, ClaimSelect, ClaimUpdate, TransitionUpdate, FinishUpdate, Crash,
          claim_pending_job, heartbeat_job, record_process_death, TransitionRead, FinishRead
  <2>1. CASE call'[c] = call[c]
    BY <1>a, <2>0, <2>1
  <2>2. CASE call'[c] = Idle
    BY <2>2 DEF Idle, CallValid
  <2>3. CASE ClaimSelect(d)
    BY <2>0, <2>1, <2>3 DEF ClaimSelect, CallValid
  <2>4. ASSUME NEW j \in Jobs, record_process_death(d, j)
        PROVE  CallValid(c)'
    BY <2>0, <2>1, <2>4 DEF record_process_death, CallValid
  <2>5. ASSUME NEW j \in Jobs, NEW to \in STATES, TransitionRead(d, j, to)
        PROVE  CallValid(c)'
    BY <2>0, <2>1, <2>5 DEF TransitionRead, Idle, CallValid
  <2>6. ASSUME NEW j \in Jobs, NEW e \in {"transient", "permanent"}, FinishRead(d, j, e)
        PROVE  CallValid(c)'
    BY <2>0, <2>1, <2>6 DEF FinishRead, CallValid
  <2>7. CASE ClaimUpdate(d) \/ TransitionUpdate(d) \/ FinishUpdate(d) \/ Crash(d)
    <3>1. call'[c] = call[c] \/ call'[c] = Idle
      BY <2>7 DEF ClaimUpdate, TransitionUpdate, FinishUpdate, Crash
    <3> QED
      BY <2>1, <2>2, <3>1
  <2>8. ASSUME NEW j \in Jobs, claim_pending_job(d, j) \/ heartbeat_job(d, j)
        PROVE  call'[c] = call[c]
    BY <2>8 DEF claim_pending_job, heartbeat_job
  <2> QED
    BY <1>4, <2>1, <2>3, <2>4, <2>5, <2>6, <2>7, <2>8 DEF Step
<1> QED
  BY <1>2, <1>3, <1>4 DEF Next

LEMMA AcksNext ==
    ASSUME TypeOK, CallsValid, AcksAnswered, [Next]_vars
    PROVE  AcksAnswered'
<1> USE DEF TypeOK
<1>1. ASSUME NEW a \in acked
      PROVE  /\ rows'[a[2]].state # "absent"
             /\ rows'[a[2]].key = a[1].key
             /\ rows'[a[2]].input = a[1].input
  BY <1>1, RowIdentity DEF AcksAnswered
<1>2. ASSUME NEW s \in Submissions, Create(s)
      PROVE  AcksAnswered'
  <2>1. s.job \in Jobs /\ rows'[s.job] = NewRow(s) /\ rows[s.job] \in RowType
    BY <1>2, SubmissionsAssumption DEF Create
  <2>2. /\ NewRow(s).state = "pending" /\ NewRow(s).key = s.key
        /\ NewRow(s).input = s.input
    BY DEF NewRow, Absent
  <2>3. \A i \in Jobs : i # s.job => rows'[i] = rows[i]
    BY <1>2 DEF Create
  <2>4. \A i, j \in Created' : rows'[i].key = rows'[j].key => i = j
    <3>1. \A i \in Created' : i # s.job => i \in Created /\ rows[i].key # s.key
      BY <1>2, <2>3 DEF Create, DuplicateKey, Created
    <3> QED
      BY <2>1, <2>2, <2>3, <3>1 DEF AcksAnswered, Created
  <2>5. \A a \in acked' : /\ rows'[a[2]].state # "absent"
                          /\ rows'[a[2]].key = a[1].key
                          /\ rows'[a[2]].input = a[1].input
    BY <1>1, <1>2, <2>1, <2>2 DEF Create
  <2> QED
    BY <2>4, <2>5 DEF AcksAnswered
<1>3. ASSUME ~ \E s \in Submissions : Create(s)
      PROVE  \A i, j \in Created' : rows'[i].key = rows'[j].key => i = j
  <2>1. Created' = Created
    <3>1. \A i \in Jobs : rows[i].state = "absent" => rows'[i] = rows[i]
      <4> SUFFICES ASSUME NEW i \in Jobs, rows[i].state = "absent"
                   PROVE  rows'[i] = rows[i]
        OBVIOUS
      <4>1. CASE UNCHANGED rows
        BY <4>1
      <4>2. ASSUME NEW c \in Clients, ClaimUpdate(c)
            PROVE  rows'[i] = rows[i]
        BY <4>2, CallCases DEF ClaimUpdate, MayLease, Claimable
      <4>3. ASSUME NEW c \in Clients, TransitionUpdate(c)
            PROVE  rows'[i] = rows[i]
        <5>1. call[c].from # "absent"
          BY <4>3, CallCases DEF TransitionUpdate, STATES, TERMINAL_STATES
        <5> QED
          BY <4>3, <5>1 DEF TransitionUpdate, StillFrom
      <4>4. ASSUME NEW c \in Clients, FinishUpdate(c)
            PROVE  rows'[i] = rows[i]
        BY <4>4 DEF FinishUpdate, CallsValid, CallValid
      <4>5. ASSUME NEW c \in Clients, NEW j \in Jobs,
                   claim_pending_job(c, j) \/ heartbeat_job(c, j)
            PROVE  rows'[i] = rows[i]
        BY <4>5 DEF claim_pending_job, heartbeat_job
      <4> QED
        BY <1>3, <4>1, <4>2, <4>3, <4>4, <4>5
           DEF Next, Submit, Step, Tick, GetExisting, ClaimSelect, Crash,
               record_process_death, TransitionRead, FinishRead, vars
    <3> QED
      BY <3>1, RowIdentity DEF Created
  <2> QED
    BY <2>1, RowIdentity DEF AcksAnswered, Created
<1>4. ASSUME NEW s \in Submissions, GetExisting(s)
      PROVE  AcksAnswered'
  BY <1>4 DEF GetExisting, AcksAnswered, Created
<1>5. CASE acked' = acked
  BY <1>1, <1>2, <1>3, <1>5 DEF AcksAnswered
<1> QED
  BY <1>2, <1>4, <1>5, ZenonT(30)
     DEF Next, Submit, Step, Tick, ClaimSelect, Crash, ClaimUpdate, TransitionUpdate,
         FinishUpdate, claim_pending_job, heartbeat_job, record_process_death,
         TransitionRead, FinishRead, vars
LEMMA InvNext ==
    ASSUME IInv, [Next]_vars
    PROVE  IInv'
  BY TypeNext, AttemptsNext, LeaseShapeNext, CallsNext, AcksNext DEF IInv

LEMMA InvAlways == Spec => []IInv
  BY InvInit, InvNext, PTL DEF Spec

-----------------------------------------------------------------------------
(* The properties of the queue. *)

(* No interleaving of claims, retries and worker deaths leases a job more    *)
(* often than its max_attempts.                                              *)
THEOREM AttemptsAreBounded == Spec => []AttemptsBounded
<1>1. IInv => AttemptsBounded
  BY DEF IInv
<1> QED
  BY <1>1, InvAlways, PTL

(* lease_owner and lease_expires_at exist only on a leased row, so a running *)
(* row is out of the reach of heartbeat_job and of claim_next_job's recovery. *)
THEOREM LeasesHaveShape == Spec => []LeaseShape
<1>1. IInv => LeaseShape
  BY DEF IInv
<1> QED
  BY <1>1, InvAlways, PTL

(* Two acknowledged submissions under one idempotency key got one job and    *)
(* had one input.                                                            *)
THEOREM SubmissionsAreIdempotent == Spec => []SubmissionsIdempotent
<1>1. IInv => SubmissionsIdempotent
  <2> SUFFICES ASSUME IInv, NEW a \in acked, NEW b \in acked, a[1].key = b[1].key
               PROVE  /\ a[2] = b[2] /\ a[1].input = b[1].input
                      /\ rows[a[2]].input = a[1].input
    BY DEF SubmissionsIdempotent
  <2>1. a[2] \in Created /\ b[2] \in Created
    BY DEF IInv, TypeOK, AcksAnswered, Created
  <2> QED
    BY <2>1 DEF IInv, AcksAnswered
<1> QED
  BY <1>1, InvAlways, PTL

(* An unexpired lease is never handed to another owner. *)
THEOREM LiveLeasesAreNotStolen == Spec => LiveLeaseNotStolen
<1>1. ASSUME IInv, [Next]_vars, NEW j \in Jobs,
             rows[j].owner # Null, ~ Expired(rows[j].expires, clock)
      PROVE  rows'[j].owner \in {rows[j].owner, Null}
  <2>1. /\ rows[j] \in RowType /\ rows[j].state = "leased" /\ clock \in Nat
        /\ rows[j].expires \in OptionalTime
    BY <1>1 DEF IInv, TypeOK, LeaseShape, RowType
  <2>2. ~ RowLeased(j)
    <3> SUFFICES ASSUME NEW now \in Nat, now <= clock, Claimable(rows[j], now)
                 PROVE  FALSE
      BY DEF RowLeased, MayLease
    <3> QED
      BY <1>1, <2>1 DEF Claimable, Expired, OptionalTime
  <2>3. CASE RowTransitioned(j)
    BY <2>1, <2>3 DEF RowTransitioned, Transitioned, RowType, TransitionAllowed,
                      ALLOWED_TRANSITIONS
  <2>4. CASE RowFinished(j)
    BY <2>1, <2>4 DEF RowFinished, Finished, RowType
  <2>5. CASE RowHeartbeat(j)
    BY <2>1, <2>5 DEF RowHeartbeat, RowType
  <2> QED
    BY <1>1, <2>1, <2>2, <2>3, <2>4, <2>5, RowSteps
       DEF RowStep, RowCreated, RowClaimedPending, IInv
<1>2. IInv /\ [Next]_vars =>
        [\A j \in Jobs : rows[j].owner # Null /\ ~ Expired(rows[j].expires, clock)
                            => rows'[j].owner \in {rows[j].owner, Null}]_vars
  BY <1>1
<1> QED
  BY <1>2, InvAlways, PTL DEF Spec, LiveLeaseNotStolen

(* A row's state only moves along ALLOWED_TRANSITIONS, by the re-lease of a  *)
(* due retry, or by a finish_attempt.                                        *)
THEOREM LifecycleIsFollowed == Spec => LifecycleEdges
<1> DEFINE Edge(j) ==
          \/ rows[j].state = "absent" /\ rows'[j].state = "pending"
          \/ TransitionAllowed(rows[j].state, rows'[j].state)
          \/ rows[j].state = "retrying" /\ rows'[j].state = "leased"
          \/ \E c \in Clients : /\ call[c].op = "finish" /\ call[c].job = j
                                /\ call'[c] = Idle /\ rows'[j].state = call[c].to
<1>1. ASSUME IInv, [Next]_vars, NEW j \in Jobs, rows'[j].state # rows[j].state
      PROVE  Edge(j)
  <2>1. rows[j] \in RowType /\ LeaseShape
    BY <1>1 DEF IInv, TypeOK
  <2>2. CASE RowCreated(j)
    BY <2>2 DEF RowCreated, NewRow, Absent
  <2>3. CASE RowClaimedPending(j)
    BY <2>1, <2>3 DEF RowClaimedPending, RowType, TransitionAllowed, ALLOWED_TRANSITIONS
  <2>4. CASE RowLeased(j)
    <3>1. rows'[j].state = "leased" /\ \E now \in Nat : Claimable(rows[j], now)
      BY <2>1, <2>4 DEF RowLeased, MayLease, Lease, RowType
    <3>2. rows[j].state \in {"pending", "retrying", "leased"}
      BY <2>1, <3>1 DEF Claimable, Expired, LeaseShape
    <3> QED
      BY <1>1, <3>1, <3>2 DEF TransitionAllowed, ALLOWED_TRANSITIONS
  <2>5. CASE RowTransitioned(j)
    BY <2>1, <2>5 DEF RowTransitioned, Transitioned, RowType
  <2>6. CASE RowFinished(j)
    BY <2>1, <2>6 DEF RowFinished, Finished, RowType
  <2>7. CASE RowHeartbeat(j)
    BY <1>1, <2>1, <2>7 DEF RowHeartbeat, RowType
  <2> QED
    BY <1>1, <2>2, <2>3, <2>4, <2>5, <2>6, <2>7, RowSteps DEF RowStep, IInv
<1>2. IInv /\ [Next]_vars =>
        [\A j \in Jobs : rows'[j].state # rows[j].state => Edge(j)]_vars
  BY <1>1
<1> QED
  BY <1>2, InvAlways, PTL DEF Spec, LifecycleEdges

(* The queue is sound (shared/job_state.py): for any clients, jobs, keys and *)
(* clocks, and any interleaving of their transactions with worker deaths, no *)
(* job is leased past its budget, no lease outlives its state, and a key     *)
(* answers every submission alike.                                           *)
THEOREM JobsAreSound == Spec => []JobsSound
BY AttemptsAreBounded, LeasesHaveShape, SubmissionsAreIdempotent, PTL DEF JobsSound

(* No step of the queue (shared/job_state.py) takes a live lease or leaves   *)
(* the lifecycle.                                                            *)
THEOREM JobStepsAreLegal == Spec => JobStepsLegal
BY LiveLeasesAreNotStolen, LifecycleIsFollowed, PTL DEF JobStepsLegal
=============================================================================
