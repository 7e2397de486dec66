------------------------------ MODULE AuditLog ------------------------------
(***************************************************************************)
(* hostd/safety_audit.py: the append-only audit trail.  A record carries   *)
(* its sequence number, the hash of the record before it and its own hash; *)
(* hashes are numbers drawn in the order in which records are built (the   *)
(* timestamp makes every record differ from the others).  Every operation  *)
(* runs under flock; a process may die, and a write may stop half-way,     *)
(* between any two of its system calls.                                    *)
(***************************************************************************)
EXTENDS Naturals, Sequences, SequencesExt, FiniteSets

CONSTANTS Appenders,    \* processes that hold a SafetyAuditLog
          AuditEvents,  \* AUDIT_EVENTS but for the continuation
          SegmentMax,   \* records that fit into MAX_AUDIT_FILE_BYTES
          MaxRecords,   \* bound: records ever built
          NoAppender

ASSUME AuditAssumption ==
    /\ SegmentMax \in Nat \ {0}
    /\ MaxRecords \in Nat
    /\ NoAppender \notin Appenders
    /\ "continuation" \notin AuditEvents

GENESIS == 0            \* GENESIS_HASH

VARIABLES
    segments,   \* the rotated files, oldest first
    live,       \* the records of the audit log; <<>> when there is no file
    torn,       \* the log ends in half a record
    flock,      \* holder of the lock file
    auditor,    \* per process: step, event, and the state verify_audit_log returned
    built,      \* records built so far
    acked       \* history: hashes of the records whose append or rotate returned

auditVars == <<segments, live, torn, flock, auditor, built, acked>>

NotAuditing == [at |-> "idle", event |-> "", next |-> 1, last |-> GENESIS]

AuditInit ==
    /\ segments = <<>> /\ live = <<>> /\ torn = FALSE
    /\ flock = NoAppender
    /\ auditor = [p \in Appenders |-> NotAuditing]
    /\ built = 0 /\ acked = {}

-----------------------------------------------------------------------------
(* Verification *)

\* _verify_lines: consecutive numbers, each record naming the hash before it.
Chained(records, sequence, hash) ==
    \A i \in DOMAIN records :
        /\ records[i].sequence = sequence + i - 1
        /\ records[i].previous = IF i = 1 THEN hash ELSE records[i - 1].hash

\* Where a segment's chain starts: at genesis, or where its continuation says.
Start(records) ==
    IF records # <<>> /\ records[1].event = "continuation"
    THEN [sequence |-> records[1].sequence, hash |-> records[1].previous]
    ELSE [sequence |-> 1, hash |-> GENESIS]

verify_audit_log(records, truncated) ==
    /\ ~truncated
    /\ Chained(records, Start(records).sequence, Start(records).hash)

NextSequence(records) == Start(records).sequence + Len(records)
LastHash(records) == IF records = <<>> THEN GENESIS ELSE Last(records).hash

-----------------------------------------------------------------------------
(* append and rotate *)

(* Mutant: the log is written without its lock. *)
LockIgnored(p) == FALSE
Locked(p) == flock # NoAppender

Release(p, how) ==
    /\ flock' = NoAppender
    /\ auditor' = [auditor EXCEPT ![p] = [NotAuditing EXCEPT !.at = how]]

\* The lock is taken and the log verified; rotate wants a log that has records.
AuditBegin(p, event) ==
    /\ auditor[p].at = "idle" /\ ~Locked(p) /\ built < MaxRecords
    /\ IF verify_audit_log(live, torn) /\ (event = "continuation" => live # <<>>)
       THEN /\ flock' = p
            /\ auditor' = [auditor EXCEPT ![p] =
                    [at |-> IF event = "continuation" THEN "rotate" ELSE "append",
                     event |-> event,
                     next |-> NextSequence(live), last |-> LastHash(live)]]
       ELSE Release(p, "raised")
    /\ UNCHANGED <<segments, live, torn, built, acked>>

\* os.replace: the log is now the newest rotated segment, and there is no log.
AuditRename(p) ==
    /\ auditor[p].at = "rotate"
    /\ segments' = Append(segments, live)
    /\ live' = <<>>
    /\ auditor' = [auditor EXCEPT ![p].at = "append"]
    /\ UNCHANGED <<torn, flock, built, acked>>

\* _new_record and _append_record
AuditWrite(p) ==
    /\ auditor[p].at = "append" /\ Len(live) < SegmentMax
    /\ LET record == [sequence |-> auditor[p].next, previous |-> auditor[p].last,
                      event |-> auditor[p].event, hash |-> built + 1] IN
       /\ live' = Append(live, record)
       /\ acked' = acked \cup {record.hash}
    /\ built' = built + 1
    /\ flock' = NoAppender
    /\ auditor' = [auditor EXCEPT ![p].at = "returned", ![p].last = built + 1]
    /\ UNCHANGED <<segments, torn>>

\* The log must be rotated first, or cannot be opened.
AuditRefused(p) ==
    /\ auditor[p].at = "append"
    /\ Release(p, "raised")
    /\ UNCHANGED <<segments, live, torn, built, acked>>

\* os.write stops part of the way through the record.
AuditTorn(p) ==
    /\ auditor[p].at = "append" /\ Len(live) < SegmentMax
    /\ torn' = TRUE
    /\ built' = built + 1
    /\ Release(p, "raised")
    /\ UNCHANGED <<segments, live, acked>>

\* The record is complete and the fsync fails: written, yet reported as failed.
AuditUnsynced(p) ==
    /\ auditor[p].at = "append" /\ Len(live) < SegmentMax
    /\ live' = Append(live, [sequence |-> auditor[p].next, previous |-> auditor[p].last,
                             event |-> auditor[p].event, hash |-> built + 1])
    /\ built' = built + 1
    /\ Release(p, "raised")
    /\ UNCHANGED <<segments, torn, acked>>

\* The process dies; the kernel drops its lock.
AuditCrash(p) ==
    /\ auditor[p].at \in {"append", "rotate"}
    /\ Release(p, "idle")
    /\ UNCHANGED <<segments, live, torn, built, acked>>

\* The caller has seen the outcome.
AuditReturn(p) ==
    /\ auditor[p].at \in {"returned", "raised"}
    /\ auditor' = [auditor EXCEPT ![p] = NotAuditing]
    /\ UNCHANGED <<segments, live, torn, flock, built, acked>>

AuditStep(p) ==
    \/ AuditRename(p) \/ AuditWrite(p) \/ AuditRefused(p)
    \/ AuditTorn(p) \/ AuditUnsynced(p)

AuditNext ==
    \E p \in Appenders :
        \/ AuditStep(p) \/ AuditCrash(p) \/ AuditReturn(p)
        \/ \E e \in AuditEvents \cup {"continuation"} : AuditBegin(p, e)

AuditSpec == AuditInit /\ [][AuditNext]_auditVars

-----------------------------------------------------------------------------
(* Properties *)

\* The files of the trail, oldest first; the last one is the log.
Files == 1 .. Len(segments) + 1
File(k) == IF k <= Len(segments) THEN segments[k] ELSE live

\* hostd/safety_audit.py, whatever processes share the log and wherever they
\* die: each file verifies on its own, no acknowledged record is lost or moved
\* before an older one, and where two files do not join into one chain the
\* later one starts over at genesis (a rotation was cut off after its rename).
TrailHoldsTogether ==
    /\ \A k \in Files : verify_audit_log(File(k), FALSE)
    /\ \A k, l \in Files : \A i \in DOMAIN File(k), j \in DOMAIN File(l) :
          k < l \/ (k = l /\ i < j) => File(k)[i].hash < File(l)[j].hash
    /\ \A h \in acked : \E k \in Files : \E i \in DOMAIN File(k) : File(k)[i].hash = h
    /\ \A k \in 1..Len(segments) : File(k + 1) # <<>> =>
          \/ Chained(File(k + 1), NextSequence(File(k)), LastHash(File(k)))
          \/ File(k + 1)[1].sequence = 1 /\ File(k + 1)[1].previous = GENESIS

=============================================================================
