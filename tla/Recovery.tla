------------------------------ MODULE Recovery ------------------------------
(***************************************************************************)
(* The two writers of the scratch store at work together: the extraction   *)
(* of allocated files through the resilient reader                         *)
(* (scanner/content_extraction.py) and the ingestion of carved files while *)
(* PhotoRec is still writing them (scanner/carved_ingestion.py).           *)
(***************************************************************************)
EXTENDS Integers, ScratchStore, ResilientReader

CONSTANTS X, I,         \* the extraction's and the ingestion's thread
          Media,        \* the source: a block for every sector
          Zero,         \* the block of a sparse extent and of a gap
          Entries,      \* NormalizedEntry: [allocated, type, size, extents]
          MaxExtract,   \* max_size_bytes
          Carving       \* the blocks PhotoRec writes to its file, in order

NoSize == -1            \* size_bytes is None
NoEntry == [allocated |-> FALSE, type |-> "unknown", size |-> NoSize, extents |-> <<>>]

\* NormalizedEntry, an extent being one sector or one block that is not stored.
EntryKinds == {"file", "directory", "deleted", "symlink", "virtual", "unknown"}
EntryType == [allocated: BOOLEAN, type: EntryKinds, size: Int,
              extents: Seq([sector: Nat, sparse: BOOLEAN])]

ASSUME RecoveryAssumption ==
    /\ Writers = {X, I} /\ X # I
    /\ Entries \subseteq EntryType
    /\ \A e \in Entries : \A k \in DOMAIN e.extents :
            e.extents[k].sparse \/ e.extents[k].sector \in DOMAIN Media

VARIABLES
    job,        \* the extraction under way: entry, resilient, next extent, buffer
    outcome,    \* result of the last extraction
    checkpoint, \* entry whose extraction may be resumed, with its extent index
    carved,     \* PhotoRec's file: blocks written, renamed to .done
    observed,   \* blocks at the last scan of the quarantine directory; -1 before
    ingest,     \* the file being ingested: "" or its path, and the size stat gave
    ingested    \* paths the caller has a record of

extractVars == <<job, outcome, checkpoint>>
carveVars == <<carved, observed, ingest, ingested>>
recoveryVars == <<scratchVars, readerVars, extractVars, carveVars>>

NoJob == [entry |-> NoEntry, resilient |-> FALSE, start |-> 0, next |-> 0, buffer |-> <<>>]
NoIngest == [path |-> "", size |-> 0]
NoOutcome == [status |-> "none", warnings |-> {}, content |-> <<>>, entry |-> NoEntry]

RecoveryInit ==
    /\ ScratchInit /\ ReaderInit
    /\ job = NoJob /\ outcome = NoOutcome /\ checkpoint = NoJob
    /\ carved = [size |-> 0, done |-> FALSE]
    /\ observed = -1 /\ ingest = NoIngest /\ ingested = {}

-----------------------------------------------------------------------------
(* Extraction *)

Idle == job = NoJob /\ pc[X] = "idle"

ExpectedSize(e) == IF e.size = NoSize THEN Len(e.extents) ELSE e.size

\* Entries that are answered without reading the source, and how.
Declined(e) ==
    CASE ~e.allocated -> "not_allocated"
      [] e.allocated /\ e.type \notin {"file", "deleted"} -> "metadata_only"
      [] e.allocated /\ e.type \in {"file", "deleted"} /\ e.size # 0 /\ e.extents = <<>>
            -> "metadata_only"
      [] e.allocated /\ e.type \in {"file", "deleted"} /\ e.size # 0 /\ e.extents # <<>>
            /\ ExpectedSize(e) # Len(e.extents) -> "extent_size_mismatch"
      [] e.allocated /\ e.type \in {"file", "deleted"} /\ e.size # 0 /\ e.extents # <<>>
            /\ ExpectedSize(e) = Len(e.extents) /\ Len(e.extents) > MaxExtract
            -> "size_limit_exceeded"
      [] OTHER -> ""

Decline(e) ==
    /\ Idle /\ Declined(e) # ""
    /\ outcome' = [status |-> IF Declined(e) = "extent_size_mismatch" THEN "partial" ELSE "skipped",
                   warnings |-> {Declined(e)}, content |-> <<>>, entry |-> NoEntry]
    /\ UNCHANGED <<scratchVars, readerVars, job, checkpoint, carveVars>>

\* extract_allocated_content, from the start or from a checkpoint.
Extract(e, resilient) ==
    /\ Idle /\ Declined(e) = "" /\ BeginPut(X)
    /\ job' = [entry |-> e, resilient |-> resilient, start |-> 0, next |-> 0, buffer |-> <<>>]
    /\ outcome' = NoOutcome /\ NewReader
    /\ UNCHANGED <<checkpoint, carveVars>>

Resume ==
    /\ Idle /\ checkpoint # NoJob /\ BeginPut(X)
    /\ job' = [checkpoint EXCEPT !.next = checkpoint.start]
    /\ outcome' = NoOutcome /\ NewReader
    /\ UNCHANGED <<checkpoint, carveVars>>

\* The next extent, when the store asks for the next chunk.
Extent == job.entry.extents[job.next + 1]
Reading == job # NoJob /\ pc[X] = "write" /\ job.next < Len(job.entry.extents)
Chunk(block) == job' = [job EXCEPT !.next = @ + 1, !.buffer = Append(@, block)]

ReadSparse ==
    /\ Reading /\ Extent.sparse /\ Chunk(Zero)
    /\ UNCHANGED <<scratchVars, readerVars, outcome, checkpoint, carveVars>>

ReadSector ==
    /\ Reading /\ ~Extent.sparse
    /\ \/ job.resilient /\ ReadOk /\ Chunk(Media[Extent.sector])
       \/ ~job.resilient /\ Chunk(Media[Extent.sector]) /\ UNCHANGED readerVars
       \/ \E fault \in Faults : job.resilient /\ ReadRetry(fault) /\ UNCHANGED job
       \/ \E fault \in Faults : job.resilient /\ ReadGap(Extent.sector, fault) /\ Chunk(Zero)
    /\ UNCHANGED <<scratchVars, outcome, checkpoint, carveVars>>

\* Without a read policy a read that fails or is short ends the put.
ReadFails ==
    /\ Reading /\ ~Extent.sparse /\ ~job.resilient
    /\ FailWrite(X)
    /\ UNCHANGED <<readerVars, extractVars, carveVars>>

AllRead(space) ==
    /\ job # NoJob /\ job.next = Len(job.entry.extents)
    /\ EndWrite(X, job.buffer, Len(job.buffer) = ExpectedSize(job.entry) - job.start, space)
    /\ UNCHANGED <<readerVars, extractVars, carveVars>>

SparseWarnings(e) ==
    IF \E k \in DOMAIN e.extents : e.extents[k].sparse THEN {"sparse_zero_filled"} ELSE {}

ExtractDone ==
    /\ job # NoJob /\ pc[X] = "done" /\ Collect(X)
    /\ outcome' = [status |-> IF job.start = 0 THEN "complete" ELSE "resumed",
                   warnings |-> SparseWarnings(job.entry) \cup ReadWarnings,
                   content |-> content[X], entry |-> job.entry]
    /\ job' = NoJob /\ checkpoint' = NoJob /\ NewReader
    /\ UNCHANGED carveVars

(* Mutant: the checkpoint of a failed extraction is the extent it came to. *)
ResumePointAdvanced == job.next
\* The checkpoint of a failed extraction is the extent it started from.
ResumePoint == job.start

ExtractFailed ==
    /\ job # NoJob /\ pc[X] \in {"failed", "refused"} /\ Collect(X)
    /\ outcome' = [status |-> "partial", warnings |-> {"io_error"},
                   content |-> <<>>, entry |-> job.entry]
    /\ checkpoint' = IF job.entry.extents = <<>> THEN NoJob
                     ELSE [job EXCEPT !.start = ResumePoint, !.next = 0, !.buffer = <<>>]
    /\ job' = NoJob /\ NewReader
    /\ UNCHANGED carveVars

-----------------------------------------------------------------------------
(* Carving and ingestion *)

Path == IF carved.done THEN "carved.done" ELSE "carved"

CarverWrites ==
    /\ ~carved.done /\ carved.size < Len(Carving)
    /\ carved' = [carved EXCEPT !.size = @ + 1]
    /\ UNCHANGED <<scratchVars, readerVars, extractVars, observed, ingest, ingested>>

CarverRenames ==
    /\ ~carved.done /\ carved.size = Len(Carving)
    /\ carved' = [carved EXCEPT !.done = TRUE]
    /\ UNCHANGED <<scratchVars, readerVars, extractVars, observed, ingest, ingested>>

\* scan_carved_outputs: a file is ready when it is unchanged since the last
\* scan or has the finalized suffix; ingest_ready_outputs skips known paths.
Ready == (carved.done \/ carved.size = observed) /\ Path \notin ingested

Scan ==
    /\ ingest = NoIngest /\ pc[I] = "idle"
    /\ observed' = IF carved.done THEN observed ELSE carved.size
    /\ ingest' = IF Ready THEN [path |-> Path, size |-> -1] ELSE NoIngest
    /\ UNCHANGED <<scratchVars, readerVars, extractVars, carved, ingested>>

\* ingest_carved_file: an empty file is recorded as skipped.
IngestBegins ==
    /\ ingest.path = Path /\ ingest.size = -1
    /\ IF carved.size = 0
       THEN /\ ingest' = NoIngest /\ ingested' = ingested \cup {Path}
            /\ UNCHANGED scratchVars
       ELSE BeginPut(I) /\ ingest' = [ingest EXCEPT !.size = carved.size] /\ UNCHANGED ingested
    /\ UNCHANGED <<readerVars, extractVars, carved, observed>>

\* The file was renamed since the scan: the pass raises and is given up.
IngestGone ==
    /\ ingest.path \notin {"", Path} /\ ingest.size = -1
    /\ ingest' = NoIngest
    /\ UNCHANGED <<scratchVars, readerVars, extractVars, carved, observed, ingested>>

\* The file is read to its end as it is now; it may have grown, or have gone.
IngestReads(space) ==
    /\ ingest.size > 0 /\ pc[I] = "write"
    /\ IF ingest.path = Path
       THEN EndWrite(I, SubSeq(Carving, 1, carved.size), carved.size = ingest.size, space)
       ELSE FailWrite(I)
    /\ UNCHANGED <<readerVars, extractVars, carveVars>>

\* A record is returned, unless a ScratchStoreError ends the whole pass.
IngestEnds ==
    /\ ingest.size > 0 /\ Collect(I)
    /\ ingested' = IF pc[I] = "refused" THEN ingested ELSE ingested \cup {ingest.path}
    /\ ingest' = NoIngest
    /\ UNCHANGED <<readerVars, extractVars, carved, observed>>

RecoveryCrash ==
    /\ ScratchCrash /\ NewReader
    /\ job' = NoJob /\ outcome' = NoOutcome /\ ingest' = NoIngest /\ observed' = -1
    /\ UNCHANGED <<checkpoint, carved, ingested>>

StoreStep == (\E w \in Writers : PutStep(w)) /\ UNCHANGED <<readerVars, extractVars, carveVars>>

RecoveryNext ==
    \/ \E e \in Entries : Decline(e) \/ \E resilient \in BOOLEAN : Extract(e, resilient)
    \/ Resume \/ ReadSparse \/ ReadSector \/ ReadFails
    \/ \E space \in BOOLEAN : AllRead(space) \/ IngestReads(space)
    \/ ExtractDone \/ ExtractFailed
    \/ CarverWrites \/ CarverRenames \/ Scan \/ IngestBegins \/ IngestGone \/ IngestEnds
    \/ StoreStep \/ RecoveryCrash

RecoverySpec == RecoveryInit /\ [][RecoveryNext]_recoveryVars

-----------------------------------------------------------------------------
\* The bytes an entry has on the source.
Bytes(e) == [k \in DOMAIN e.extents |->
                IF e.extents[k].sparse THEN Zero ELSE Media[e.extents[k].sector]]

\* What reading an entry or the carver's file can come to is a content.
ASSUME ContentsAssumption ==
    /\ \A e \in Entries : Declined(e) = "" =>
          \A b \in [DOMAIN e.extents -> {Zero} \cup {Media[k] : k \in DOMAIN Media}] :
              (\A k \in DOMAIN b : b[k] \in {Zero, Bytes(e)[k]}) => b \in Contents
    /\ Len(Carving) \in Nat
    /\ \A n \in 0 .. Len(Carving) : SubSeq(Carving, 1, n) \in Contents

(* An extraction that reports success without a read gap stored exactly the *)
(* bytes of the entry, also when it follows failed attempts, a resume from  *)
(* their checkpoint, or a crash; with a gap it stored zeros in its place    *)
(* and says so (content_extraction.py:99-139, read_errors.py:105-171).      *)
ExtractedIsFaithful ==
    outcome.status \in {"complete", "resumed"} =>
        /\ Len(outcome.content) = Len(outcome.entry.extents)
        /\ "read_gap" \notin outcome.warnings => outcome.content = Bytes(outcome.entry)
        /\ \A k \in DOMAIN outcome.content :
                outcome.content[k] \in {Zero, Bytes(outcome.entry)[k]}

(* What is read is stored, and what is not is accounted for.                *)
ExtractionHolds == ExtractedIsFaithful /\ ReadAccounting

(* What makes it inductive. *)
Block == {Zero} \cup {Media[k] : k \in DOMAIN Media}
JobType == [entry: EntryType, resilient: BOOLEAN, start: Nat, next: Nat, buffer: Seq(Block)]

RecoveryTypeOK ==
    /\ pc \in [Writers -> Steps] /\ content = [w \in Writers |-> content[w]]
    /\ job \in JobType /\ checkpoint \in JobType
    /\ counters \in [Counters -> Nat] /\ attempt \in Nat
    /\ errorRanges \in Seq(Nat \X Faults)

\* Only an extraction under way has a put in hand, of an entry that is not declined.
JobHasPut ==
    /\ job = NoJob <=> pc[X] = "idle"
    /\ job # NoJob => job.entry \in Entries /\ job.entry.allocated

\* The buffer holds the extents read so far, a zero where the reader left a gap.
BufferIsRead ==
    job # NoJob =>
        /\ job.start = 0 /\ job.next <= Len(job.entry.extents) /\ Len(job.buffer) = job.next
        /\ \A k \in 1..job.next : job.buffer[k] \in {Zero, Bytes(job.entry)[k]}
        /\ errorRanges = <<>> => \A k \in 1..job.next : job.buffer[k] = Bytes(job.entry)[k]

\* What the store holds for the extraction past its writing is the whole buffer.
PutIsBuffer ==
    pc[X] \in {"final", "replace", "lock", "meta", "publish", "done"} =>
        content[X] = job.buffer /\ job.next = Len(job.entry.extents)

\* A checkpoint is of an entry that is not declined, and from its first extent.
CheckpointIsStart ==
    checkpoint # NoJob =>
        /\ checkpoint.entry \in Entries /\ checkpoint.entry.allocated
        /\ checkpoint.start = 0 /\ checkpoint.buffer = <<>>

\* A read that is being retried has not been counted as recovered yet.
RetryPending ==
    attempt > 0 => counters["recovered_after_retry"] < counters["retry_reads"]

\* What is being read or will be again is not declined, and the carver is within its file.
EntryInHand ==
    /\ job # NoJob => Declined(job.entry) = ""
    /\ checkpoint # NoJob => Declined(checkpoint.entry) = ""
    /\ carved \in [size : 0 .. Len(Carving), done : BOOLEAN]

RecoveryInv ==
    /\ RecoveryTypeOK /\ JobHasPut /\ BufferIsRead /\ PutIsBuffer /\ CheckpointIsStart
    /\ RetryPending /\ ExtractionHolds
=============================================================================
