----------------------------- MODULE EventOutbox -----------------------------
(***************************************************************************)
(* The event outbox of one scan case: shared/event_outbox.py, the medium   *)
(* events of shared/media_checkpoints.py and the poll and stream endpoints *)
(* of api/app.py.  The catalog connection is in autocommit mode, where     *)
(* "with connection:" opens no transaction, so the statements of           *)
(* transition_job_and_append_event commit one by one.                      *)
(***************************************************************************)
EXTENDS Naturals, FiniteSets, Sequences, SequencesExt, FiniteSetsExt, JobStates

CONSTANTS
    Jobs,           \* jobs of the case
    Writers,        \* processes that write the catalog
    Readers,        \* clients of the event endpoints
    NoJob,          \* job_id of an event that belongs to no job
    Targets,        \* bound: the states transitions are asked for
    Limit,          \* limit of list_events
    MaxTransitions, \* bound: state changes per job
    MaxEvents       \* bound: events ever appended, medium events included

ASSUME NoJobAssumption == NoJob \notin Jobs
ASSUME TargetsAssumption == Targets \subseteq STATES
ASSUME LimitAssumption == Limit \in Nat \ {0}
ASSUME WritersAssumption == IsFiniteSet(Writers)
ASSUME MaxAssumption == MaxTransitions \in Nat /\ MaxEvents \in Nat

VARIABLES
    history,    \* per job, the states it has had, oldest first; the last is its state
    events,     \* rows of the events table
    appended,   \* events appended so far; numbers them in commit order
    call,       \* what a writer remembers between two statements
    cursor,     \* per reader, the Last-Event-ID / next_after it holds
    batch,      \* per reader, the rows its open stream has still to send
    received,   \* per reader, the ids of the events it was sent, in order
    compacted   \* sequence numbers that compaction has deleted

vars == <<history, events, appended, call, cursor, batch, received, compacted>>
writerVars == <<history, events, appended, call, compacted>>
readerVars == <<cursor, batch, received>>

Idle == [op |-> "idle"]
State(j) == Last(history[j])
Seqs == {e.seq : e \in events}

-----------------------------------------------------------------------------
(* transition_job_and_append_event, statement by statement. *)

(* get_job and _validate_transition of transition_job. *)
TransitionRead(w, j, to) ==
    /\ call[w] = Idle
    /\ Len(history[j]) <= MaxTransitions
    /\ TransitionAllowed(State(j), to)
    /\ call' = [call EXCEPT ![w] = [op |-> "transition", job |-> j, from |-> State(j),
                                    to |-> to]]
    /\ UNCHANGED <<history, events, appended, compacted, readerVars>>

(* What the call goes on to do after the compare-and-swap: append the event,  *)
(* or raise JobStateError.                                                    *)
AfterTransition(m, swapped) ==
    IF swapped THEN [op |-> "append", job |-> m.job, to |-> m.to] ELSE Idle

TransitionUpdate(w) ==
    /\ call[w].op = "transition"
    /\ LET m == call[w]
           swapped == State(m.job) = m.from
       IN /\ history' = IF swapped THEN [history EXCEPT ![m.job] = Append(@, m.to)]
                                   ELSE history
          /\ call' = [call EXCEPT ![w] = AfterTransition(m, swapped)]
    /\ UNCHANGED <<events, appended, compacted, readerVars>>

(* record_medium_event: append_event with no job transition before it. *)
record_medium_event(w) ==
    /\ call[w] = Idle
    /\ call' = [call EXCEPT ![w] = [op |-> "append", job |-> NoJob, to |-> "none"]]
    /\ UNCHANGED <<history, events, appended, compacted, readerVars>>

(* _next_sequence: COALESCE(MAX(sequence), 0) + 1 *)
next_sequence == Max(Seqs \cup {0}) + 1

AppendSelect(w) ==
    /\ call[w].op = "append"
    /\ appended < MaxEvents
    /\ call' = [call EXCEPT ![w] = [op |-> "insert", job |-> @.job, to |-> @.to,
                                    seq |-> next_sequence]]
    /\ UNCHANGED <<history, events, appended, compacted, readerVars>>

(* Mutant: no unique index on the sequence. *)
InsertUnchecked(seq) == TRUE

(* The INSERT, unless the unique index on (case_id, sequence) refuses it. *)
InsertAllowed(seq) == seq \notin Seqs

AppendInsert(w) ==
    /\ call[w].op = "insert"
    /\ LET m == call[w]
       IN IF InsertAllowed(m.seq)
            THEN /\ events' = events \cup
                      {[seq |-> m.seq, id |-> appended + 1, job |-> m.job, state |-> m.to,
                        published |-> FALSE]}
                 /\ appended' = appended + 1
            ELSE UNCHANGED <<events, appended>>              \* IntegrityError
    /\ call' = [call EXCEPT ![w] = Idle]
    /\ UNCHANGED <<history, compacted, readerVars>>

(* The writer dies, or append_event raises (a bad event id, type or payload). *)
Crash(w) ==
    /\ call[w] # Idle
    /\ call' = [call EXCEPT ![w] = Idle]
    /\ UNCHANGED <<history, events, appended, compacted, readerVars>>

-----------------------------------------------------------------------------
(* Retention. *)

mark_published ==
    /\ \E sent \in SUBSET {e \in events : ~ e.published} :
          /\ sent # {}
          /\ events' = (events \ sent) \cup {[e EXCEPT !.published = TRUE] : e \in sent}
    /\ UNCHANGED <<history, appended, call, compacted, readerVars>>

(* DELETE the published rows older than before_created_at, first by           *)
(* created_at, then by event_id, up to a limit.  created_at counts seconds    *)
(* and the event ids are the callers', so within a second the rows that come  *)
(* first are any published ones.                                              *)
compact_published_events ==
    /\ \E old \in SUBSET {e \in events : e.published} :
          /\ old # {}
          /\ events' = events \ old
          /\ compacted' = compacted \cup {e.seq : e \in old}
    /\ UNCHANGED <<history, appended, call, readerVars>>

-----------------------------------------------------------------------------
(* The endpoints. *)

(* list_events: WHERE sequence > after ORDER BY sequence LIMIT limit.  An     *)
(* event stands where as many rows are as have no greater sequence number.    *)
Later(after) == {e \in events : e.seq > after}
Place(e, after) == Cardinality({f \in Later(after) : f.seq <= e.seq})
PageSize(after) == IF Cardinality(Later(after)) < Limit THEN Cardinality(Later(after)) ELSE Limit
list_events(after) ==
    [i \in 1 .. PageSize(after) |-> CHOOSE e \in Later(after) : Place(e, after) = i]

(* Mutant: the cursor jumps to the newest event instead of the last one sent. *)
next_after_newest(page, fallback) == Max(Seqs \cup {fallback})

next_after(page, fallback) == IF page = <<>> THEN fallback ELSE Last(page).seq

Ids(page) == [i \in DOMAIN page |-> page[i].id]

(* poll_case_events answers with one page and its next_after. *)
poll_case_events(r) ==
    /\ batch[r] = <<>>
    /\ LET page == list_events(cursor[r])
       IN /\ page # <<>>
          /\ received' = [received EXCEPT ![r] = @ \o Ids(page)]
          /\ cursor' = [cursor EXCEPT ![r] = next_after(page, @)]
    /\ UNCHANGED <<batch, writerVars>>

(* stream_case_events reads one page and sends it event by event; the reader *)
(* may go away in between, and resumes from the last id it received.         *)
StreamOpen(r) ==
    /\ batch[r] = <<>>
    /\ batch' = [batch EXCEPT ![r] = list_events(cursor[r])]
    /\ UNCHANGED <<cursor, received, writerVars>>

StreamSend(r) ==
    /\ batch[r] # <<>>
    /\ received' = [received EXCEPT ![r] = Append(@, Head(batch[r]).id)]
    /\ cursor' = [cursor EXCEPT ![r] = next_after(<<Head(batch[r])>>, @)]
    /\ batch' = [batch EXCEPT ![r] = Tail(@)]
    /\ UNCHANGED writerVars

Disconnect(r) ==
    /\ batch[r] # <<>>
    /\ batch' = [batch EXCEPT ![r] = <<>>]
    /\ UNCHANGED <<cursor, received, writerVars>>

-----------------------------------------------------------------------------
Init ==
    /\ history = [j \in Jobs |-> <<"leased">>]
    /\ events = {} /\ appended = 0 /\ compacted = {}
    /\ call = [w \in Writers |-> Idle]
    /\ cursor = [r \in Readers |-> 0]
    /\ batch = [r \in Readers |-> <<>>]
    /\ received = [r \in Readers |-> <<>>]

Next ==
    \/ mark_published
    \/ compact_published_events
    \/ \E w \in Writers :
          \/ \E j \in Jobs, to \in Targets : TransitionRead(w, j, to)
          \/ TransitionUpdate(w)
          \/ record_medium_event(w)
          \/ AppendSelect(w)
          \/ AppendInsert(w)
          \/ Crash(w)
    \/ \E r \in Readers :
          poll_case_events(r) \/ StreamOpen(r) \/ StreamSend(r) \/ Disconnect(r)

Spec == Init /\ [][Next]_vars

-----------------------------------------------------------------------------

(* "Ordered per-case sequence": two live events never share a sequence       *)
(* number, and the later commit has the larger number, unless that number    *)
(* was once compacted away and handed out a second time.                     *)
SequenceFollowsCommits ==
    \A e, f \in events :
        e.id < f.id => e.seq < f.seq \/ (f.seq \in compacted /\ e.seq # f.seq)

(* A reader that polls, streams, is cut off in mid-page and resumes by its   *)
(* last id has been sent every live event behind its cursor; the only events *)
(* it can miss carry a sequence number that compaction had freed.            *)
MissesOnlyReusedNumbers ==
    \A r \in Readers : \A e \in events :
        e.seq <= cursor[r] /\ e.id \notin Range(received[r]) => e.seq \in compacted

(* No reader is sent an event twice, across reconnects. *)
SentOnce ==
    \A r \in Readers : IsInjective(received[r])

(* An event never reports a state change that did not commit: a job has at   *)
(* most as many live events for a state as it has entered that state, even   *)
(* when two writers race on the same transition.                             *)
NoPhantomEvents ==
    \A j \in Jobs : \A s \in STATES :
        Cardinality({e \in events : e.job = j /\ e.state = s})
          <= Cardinality({i \in DOMAIN history[j] : history[j][i] = s})

(* The log tells the truth, in order (event_outbox.py:20-80).                *)
LogTruthful == SequenceFollowsCommits /\ NoPhantomEvents

(* Readers get what there is, once (event_outbox.py:96-135, app.py:370-420). *)
ReadersServed == MissesOnlyReusedNumbers /\ SentOnce

(* "Reconnect receives missed events once" (docs/BACKLOG.md:274): no live    *)
(* event lies behind a reader's cursor without having been sent to it.       *)
ReconnectReceivesMissed ==
    \A r \in Readers : \A e \in events :
        e.seq <= cursor[r] => e.id \in Range(received[r])

(* "Job state and its event cannot diverge" (docs/BACKLOG.md:274), every     *)
(* transition being made by transition_job_and_append_event: once no writer  *)
(* is in mid-call, the last event of a job that changed state reports the    *)
(* state the job is in, or was compacted.                                    *)
StateAndEventAgree ==
    (\A w \in Writers : call[w] = Idle) /\ compacted = {} =>
        \A j \in Jobs : Len(history[j]) > 1 =>
            \E e \in events : /\ e.job = j /\ e.state = State(j)
                              /\ \A f \in events : f.job = j => f.seq <= e.seq

-----------------------------------------------------------------------------
(* What an induction over the steps needs beside the properties. *)

EventType ==
    [seq : Nat \ {0}, id : Nat \ {0}, job : Jobs \cup {NoJob}, state : STATES \cup {"none"},
     published : BOOLEAN]
CallType ==
    {Idle}
    \cup [op : {"transition"}, job : Jobs, from : STATES, to : STATES]
    \cup [op : {"append"}, job : Jobs \cup {NoJob}, to : STATES \cup {"none"}]
    \cup [op : {"insert"}, job : Jobs \cup {NoJob}, to : STATES \cup {"none"}, seq : Nat \ {0}]

OutboxTypeOK ==
    /\ history \in [Jobs -> Seq(STATES)]
    /\ events \subseteq EventType /\ IsFiniteSet(events)
    /\ appended \in Nat
    /\ compacted \subseteq Nat
    /\ call \in [Writers -> CallType]
    /\ cursor \in [Readers -> Nat]
    /\ batch \in [Readers -> Seq(EventType)]
    /\ received \in [Readers -> Seq(Nat)]

(* Every number that was ever handed out, or compacted away. *)
Given == Seqs \cup compacted

(* No number is skipped: below a number that is in use, that a writer is     *)
(* about to use or that a reader has heard of, every one has been given out. *)
NumbersDense ==
    /\ \A e \in events : \A n \in 1 .. e.seq : n \in Given
    /\ \A w \in Writers : call[w].op = "insert" => \A n \in 1 .. call[w].seq - 1 : n \in Given
    /\ \A r \in Readers : \A n \in 1 .. cursor[r] : n \in Given
    /\ \A r \in Readers : \A i \in DOMAIN batch[r] : \A n \in 1 .. batch[r][i].seq : n \in Given

(* A sequence number and an id belong to one row, and ids count the commits. *)
RowsApart ==
    /\ \A e, f \in events : e.seq = f.seq \/ e.id = f.id => e = f
    /\ \A e \in events : e.id <= appended
    /\ \A r \in Readers : \A i \in DOMAIN batch[r] : batch[r][i].id <= appended
    /\ \A r \in Readers : \A i \in DOMAIN received[r] : received[r][i] <= appended

(* The rows a stream has still to send are in order and ahead of the cursor, *)
(* were not sent before, and leave out nothing but reused numbers.           *)
BatchInOrder ==
    \A r \in Readers : \A i \in DOMAIN batch[r] :
        /\ cursor[r] < batch[r][i].seq
        /\ \A k \in DOMAIN batch[r] :
              (k < i => batch[r][k].seq < batch[r][i].seq) /\ (batch[r][k].id = batch[r][i].id => k = i)
        /\ \A k \in DOMAIN received[r] : received[r][k] # batch[r][i].id

BatchIsComplete ==
    \A r \in Readers : \A i \in DOMAIN batch[r] : \A e \in events :
        /\ e.id = batch[r][i].id => e.seq = batch[r][i].seq
        /\ cursor[r] < e.seq /\ e.seq <= batch[r][i].seq =>
              (\E k \in 1 .. i : batch[r][k].id = e.id) \/ e.seq \in compacted

(* What a reader has been sent lies behind its cursor. *)
SentIsBehind ==
    \A r \in Readers : \A e \in events :
        (\E i \in DOMAIN received[r] : received[r][i] = e.id) => e.seq <= cursor[r]

(* A commit of a state is reported by one event, or by one that a writer has *)
(* still to append: never by both.                                           *)
Reports(j, s) == {e \in events : e.job = j /\ e.state = s}
Pending(j, s) ==
    {w \in Writers : call[w].op \in {"append", "insert"} /\ call[w].job = j /\ call[w].to = s}
Entered(j, s) == {i \in DOMAIN history[j] : history[j][i] = s}

CommitsAccounted ==
    \A j \in Jobs : \A s \in STATES :
        Cardinality(Reports(j, s)) + Cardinality(Pending(j, s)) <= Cardinality(Entered(j, s))

OutboxInv ==
    /\ OutboxTypeOK
    /\ \A j \in Jobs : history[j] # <<>>
    /\ NumbersDense /\ RowsApart
    /\ BatchInOrder /\ BatchIsComplete /\ SentIsBehind
    /\ CommitsAccounted
    /\ SequenceFollowsCommits /\ MissesOnlyReusedNumbers /\ SentOnce

=============================================================================
