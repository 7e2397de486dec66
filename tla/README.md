# Reperio in TLA+

Reperio recovers data from a read-only source disk: a host daemon proves that
the source is safe to read, a scanner enumerates and carves it, workers extract
and enrich what was found, an API serves the findings, and results are exported
to a separate destination. The durable state is one SQLite catalog, a
content-addressed scratch store, an encrypted secret store and an audit trail.
This directory models the parts of it where interleavings, crashes, retries and
boundaries decide correctness, checks them with TLC, and proves the main
invariants with TLAPS.

## 1. Inventory

| component | state | operations | who calls it |
|---|---|---|---|
| job queue (`shared/job_state.py`) | `jobs` rows: state, owner, lease expiry, retry time, attempts | create, claim, heartbeat, transition, process death, finish | API, scanner, workers, each on its own autocommit connection |
| event outbox (`shared/event_outbox.py`, event endpoints of `api/app.py`) | `events` rows, per-case numbers; readers' cursors | append, transition-and-append, publish, compact, list, poll, stream | workers write, clients poll or stream and resume by number |
| checkpoints (`shared/checkpoints.py`, `shared/media_checkpoints.py`) | `checkpoints` rows with supersession links | save and load, per source and per medium | scanner stages |
| scheduler and lifecycle (`scanner/scheduler.py`, `scanner/lifecycle.py`) | stage statuses, stage processes, pause acknowledgements | runnable stages, failure, pause, safe stop, restart | scan coordinator (not in the repository) |
| scratch store (`shared/scratch_store.py`) | objects, metadata, temporary files | put, load, clean up | extraction and carving threads |
| content recovery (`scanner/read_errors.py`, `content_extraction.py`, `carved_ingestion.py`) | read counters and gaps, extraction checkpoint, ingested paths | read with retries, extract, resume, scan the quarantine, ingest | scanner |
| PhotoRec carving (`scanner/photorec_carving.py`, `photorec_resume.py`) | session file, backups, manifests | carve, back up, resume | scanner, with an external tool |
| scan launch (`api/app.py`, `hostd/read_only.py`, `scanner_sandbox.py`, `scanner/source_validation.py`) | confirmation tokens, cases, scanners | preview, confirm, prepare, launch, validate, pause, resume, stop | web client, then host daemon, then scanner |
| safety audit (`hostd/safety_audit.py`) | hash-chained log segments | append, rotate, verify | host daemon and one more process |
| media identity and wizard (`hostd/identity.py`, `fingerprint.py`, `shared/media_identity.py`, `worker/device_wizard.py`) | identity records, confirmations | list, identify, validate, confirm, start | host daemon, worker |
| storage inspection (`hostd/storage_inspection.py`, `system_disks.py`, `destination_separation.py`) | none; reads the kernel's | inspect, deny, separate | host daemon |
| export (`worker/local_export.py`, `export_queue.py`, `export_manifest.py`) | partial and final files, queue items, planned paths | plan, prepare, copy, verify, finalize, prune; step the queue | export worker |
| secret store and its users (`shared/secret_store.py`, `worker/protected_audit.py`, `secret_reveal.py`, `secret_sets.py`) | master key, records; audit targets; reveal sessions | create, put, delete, rotate; audit; reveal, copy, try | workers |
| AI providers (`worker/provider_*.py`, `privacy_gate.py`, `ai_budget.py`, the adapters) | profiles, acknowledgments, cache | route, gate, send, validate, cut into batches | enrichment driver (not in the repository) |
| notifications (`shared/notification_rules.py`, `worker/apprise_adapter.py`) | last times, crossed thresholds | evaluate, deliver, record | notification worker (not in the repository) |
| review API (`api/app.py`) | findings' statuses, review actions | page, apply, restore, undo | web client |
| findings table, filters, gallery (`worker/findings_table.py`, `filter_state.py`, `media_gallery.py`) | a reader's cursor and selection | filter, count facets, page, select | web client, over rows that workers write |
| migrations (`migrations/runner.py`) | schema version, backups | upgrade with backup | every process that opens the catalog |
| state backup (`shared/diagnostics_backup.py`) | archive, restored files | back up, restore | operator |
| media parsers (`scanner/fat12_parser.py`, `partition_discovery.py`, `lost_volume_candidates.py`, `filesystem_enumeration.py`, `ntfs_entries.py`, `fat_entries.py`, `deleted_entries.py`, ...) | none that outlives a call | functions from a medium to findings | scanner |
| scanner messages (`scanner/messages.py`) | replay keys | encode, decode a stream | scanner, control plane |
| sandboxed parsers (`worker/parser_sandbox.py` and the adapters) | thumbnail cache | check, run, accept | workers |
| duplicate groups (`worker/duplicate_groups.py`) | none | group | workers |
| artifact extractors, probes, prompts, other views, web, scripts | none | - | - |

The hard behaviours: every SQL statement commits by itself (`connect_catalog`
opens the connection with `isolation_level=None`, where `with connection:` opens
no transaction), so every read-then-write operation can be interleaved or cut in
two by a crash; leases expire under a clock; readers resume by a number that
compaction may free; stages, extractions and PhotoRec resume from cursors written
before a crash, an upgrade or a disk swap; media are exchanged between the check
and the use; files are truncated and then written, or checked and then renamed;
quotas and names are checked before the moment they matter; and the parsers decide
at the boundaries of reserved values and limits. `PROJECT.json` lists each of these
as a hazard at its line.

## 2. Modules

| module | models |
|---|---|
| `JobStates`, `JobState`, `MCJobState` | the job queue, statement by statement |
| `EventOutbox` | appenders, compaction, poll and stream readers of one case |
| `Checkpoints` | the checkpoints table, atomic saves |
| `Scheduler`, `ScanPipeline`, `MCScanPipeline` | the planning functions as operators, composed with `Checkpoints` and the lifecycle into one scan with faults |
| `LocalExport`, `ExportQueue`, `MCExportQueue` | the export engine system call by system call, and the queue on top |
| `ContentStore`, `ScratchStore` | what the scratch store promises, and `put_bytes` by several threads |
| `ResilientReader`, `Recovery` | retrying reads; extraction and ingestion, composed with `ScratchStore` |
| `PhotoRecSession` | carving, session backups, manifests, resumption |
| `MCRecovery` | the instance of the two above |
| `AuditLog`, `MediumIdentity`, `ScanLaunch` | the audit trail; devices, media and the wizard; both composed into the launch of a scan |
| `StorageTopology` | inspection of mounts and stacked devices while they change |
| `MCHost` | the instance of the host's modules |
| `Vault`, `SecretUse` | the secret store and the audit of a protected target; reveals and trials |
| `Enrichment` | calls to AI providers, and how their input is cut |
| `Notifications`, `Review`, `Migrations`, `StateBackup` | as named |
| `FindingViews` | one reading of the findings table or the media gallery |
| `Fat12`, `DiskLayout`, `EntryRecovery` | the media parsers, each on one medium |
| `ScannerMessages`, `ExportPaths`, `DuplicateGroups`, `ParserJobs` | as named |
| `MCWorkers` | the instance of the last six rows and of `Checkpoints` |
| `*Proofs` | section 5 |

An operation is one action where nothing can come between its effects, and is cut
where another process, a power loss or the kernel can: at every SQL statement, at
every system call that others can see. Hashes, digests and fingerprints are the
values they are computed from; encryption is that only its own key opens a record;
sizes are counted in sectors, blocks or components. A part of the program that is
not in the repository (the scan coordinator, the drivers of enrichment and
notifications, the dispatcher of the host daemon, the page that shows a reveal) is
an environment that calls the modelled functions in every order they allow, or, where
a docstring asks for an order, in that order; the module says which.

`MCRecovery`, `MCHost` and `MCWorkers` instantiate components that share no state.
A variable `part` chooses the component a behaviour is about and the others stay in
an initial state: interleaving steps that have nothing in common would multiply the
states and show nothing more. Components that do interact are composed for real:
`Recovery` over the store and the reader, `ScanLaunch` over the audit log and the
media, `ScanPipeline` over checkpoints and schedule, `ExportQueue` over the engine.

### JobState

`rows` is the table; a job that is not in it has state `absent`. An operation
with one statement (`claim_pending_job`, `heartbeat_job`, the INSERT of
`create_or_get_job`) is one action. An operation with a SELECT and an UPDATE is
two, and `call[c]` holds what client `c` remembers in between: `ClaimSelect` and
`ClaimUpdate` are `claim_next_job`; `TransitionRead` and `TransitionUpdate` are
`transition_job`, and with a fixed target `safe_stop_job` and
`release_for_retry`; `record_process_death` is one more read before those;
`FinishRead` and `FinishUpdate` are `finish_attempt`. `Crash` forgets `call[c]`.
Error payloads are left out; job type, case and input are one `input` value.
NULL comparisons are false, as in SQL (`Due`, `Expired`).

### EventOutbox

One case. `history[j]` is the list of states job `j` has had; `events` the rows,
each with an `id` that numbers commits, which the code does not have and the
properties need. A reader holds `cursor`, the last number it received; a stream
reads one page and sends it event by event, and `Disconnect` cuts it anywhere.
`list_events` puts each row where it belongs by the number of rows up to it.

### Checkpoints, Scheduler and ScanPipeline

A save is one `BEGIN IMMEDIATE` transaction, hence one action; a failed save
changes nothing and is no step. Cursor, counters and blob are one value, the
integrity hash and the version a flag `valid`. `committed` records which save
committed last, for the properties.

Every stage has an I/O cost of one, so `runnable_stages` takes the ready stages, in
stage order, as far as the budget goes.
The coordinator of `ScanPipeline` launches what it returns, applies
`apply_stage_failure` and `pause_all`, stops processes with `safe_stop_process`,
crashes at any moment and restarts with `restart_from_checkpoint`. It is assumed
to keep the set of completed stages durably, to pass `persist_checkpoint` to
`cooperative_pause`, and to restart a paused scan only when its processes are
gone. `work` records which unit each stage really did, on which source and with
which tool; that is what resuming may not fake.

### LocalExport and ExportQueue

A file is its list of chunks and whether they are on stable storage; the recorded
size and SHA-256 of an item are its `Original` content. Each system call of
`export_local_item` that another process or a power loss can come between is an
action: `Prepare` and `Refuse` (`prepare_copy`), `CopyChunk` and `CopyEnd`
(`copy_stream`), `Verify`, then `Sync`, `Replace` and `SyncDir` (`finalize_copy`).
`IoError` is an OSError in any of them, `CleanupError` one in which the unlink
fails too. `stable` is the directory entry a power loss leaves for certain;
entries renamed since the last directory sync may or may not survive. `dirOpens`
says whether the destination directory can be opened at all: `_fsync_dir` returns
silently when it cannot, and `ExportedSurvives` is claimed only when it can.

The coordinator exports items that are ready, with or without `replace`, two at a
time even for one item, and calls `step_queue` at any moment with the last results
and with snapshots of readiness and dismissals taken earlier. The queue itself is
assumed to be kept across a power loss, unread results are not.

### ScratchStore, ResilientReader and Recovery

`put_bytes` is `BeginPut` (the listing of temporary files), `CleanupOne` (each
unlink), `OpenTemp`, the writing, `EndWrite` (size and quota checks), the second
quota check, the move, and the metadata under its lock: read, extend, publish.
`tmp`, `objects` and `meta` are the files, `pc[w]` the place of a writer, `returned`
the calls whose result the caller has. `ContentStore` is the same store seen from
outside: contents are adopted, references are added to what is there, nothing is
taken back.

`Recovery` runs two writers on it. The extraction reads extent by extent through
`ResilientReader` (one action per attempt: success, retry, gap), fails and resumes
from its checkpoint; the ingestion scans the quarantine directory while PhotoRec
appends to and renames its file, and reads whatever is there when it comes to it.

### PhotoRecSession

A session is the source and the sectors still to carve, and stands for its bytes
and their digest. PhotoRec (external) carves, saves, is killed in mid-save by the
timeout or exits; the scanner backs the session up, writes the manifest that binds
it, and resumes from a handle or from the published pointer, in this or in a later
process, possibly with another source attached.

### AuditLog, MediumIdentity and ScanLaunch

Every operation of the log runs under `flock`; `AuditBegin`, the steps, `AuditReturn`
and `AuditCrash` cut it at its writes and renames, and a write can stop half-way.
`MediumIdentity` has the facts of a device, the sampled fingerprint (which sectors
are sampled is the code's formula), the identity record and its validation, and the
wizard's decision. `ScanLaunch` is the path from the listing over the confirmation,
the read-only preparation and the audited launch to the scanner's own validation,
with a medium that may be exchanged between any two of these and a second process
that appends to the log. A route of the API has no `await`, so routes do not
interleave with each other.

### StorageTopology

An inspection reads `mountinfo` once and then `/sys` one device at a time, while the
kernel mounts, unmounts and stacks. `lasting` collects what stayed true from the
first read to the last; only of that can an inspection be held to account.

### Vault and SecretUse

A file is truncated and then written. `disturbed` becomes true when a key is written
by a process that dies or is not alone with the store: then secrets really are lost,
and `SecretsSurvive` is about the other behaviours. The last part of `Vault`, the
protected audit, is the state machine of a target. It has no property of its own: its table holds by construction,
and two things the code allows are kept as they are, a failed target that is queued
again by `transition_audit` without counting an attempt, and a missing secret set
that raises `SecretStoreError`, which `verify_secret_reference` does not catch, so
that no target is ever blocked. `SecretUse` has the reveal, its two timers and the
trial of secret sets.

### Enrichment, Notifications, Review, FindingViews, Migrations, StateBackup

`Enrichment` follows one item from the choice of a profile through the gate, the
connection, the answer and the cache, while the operator edits and acknowledges
profiles and names resolve anew at each look-up. `Notifications` has the rules at
the head of the outbox, delivery, failure, backoff and the death of the worker between
delivery and record. `Review` has the pages of a list as requests between which
findings appear and change, and apply and undo statement by statement. A page is the
set of the rows whose number in the order of `created_at` and `finding_id` is within
the limit; a request goes through its findings in the order of their ids.
`FindingViews` reads the table or the gallery page by page, through a filter, while
rows are added and rewritten: the provider passes all rows or the slice after the
cursor, the total is left out, exact, or the one of the opening. The rows of a filter
are put in order by counting: the k-th is the one that k of them do not come after.
`steady` and `moved` follow which rows passed the filter all the time and which changed
their place. A total that does
not count the rows passed with it makes `fetch_page` look past their end or stop
early (the docstring asks for a bounded slice, a test passes the catalog's total
with it); both are reachable, and marked by `miscounted`. `Migrations`
has several processes that each read the version, make a backup and upgrade in one
transaction. `StateBackup` hashes, archives and restores file by file while workers
resume, commits wait in SQLite's log, and the process dies.

### The pure functions

`Fat12`, `DiskLayout`, `EntryRecovery`, `DuplicateGroups`, `ExportPaths`, the last part
of `Enrichment` and most of `ParserJobs` model functions. A behaviour is one input,
chosen in `Init` from all inputs within the bounds. A function without a loop, or whose
loop can be said with a set or a number, is one step. A loop whose turns depend on each
other is one step per turn, so that its invariant can be stated and proved: the walk
along a chain of the FAT (`FollowFat`), the pairs of the union-find (`MeetPair`), the
items of an export (`PlanExport`) and of a batch (`BatchItem`), the chunks of a text
(`ChunkText`), the outcomes of a batch (`RunBatch`, with a token that may be set between
any two). The property compares the result with a definition by sets and quantifiers
that does not follow the algorithm (components against union-find, free sectors against
carve ranges, concatenation against batching). Sums are cardinalities: the bytes of the
extents, of a batch or of the store are counted as a set of places.
`ScannerMessages` adds a stream that is repeated, torn and restarted.

A path that is too long is cut one byte short of the limit, wherever that is: a name
`..a` can so become `..`, at the end of the path (`DestinationsApart` excepts it). The
thumbnail cache is kept by the caller under the key of content and tier; thumbnails that
are made anew replace those under their keys.

## 3. Runs

| run | bounds | shows |
|---|---|---|
| `jobs` | 2 clients, 2 job ids, 3 submissions under one key, 2 attempts, clock to 2 | `JobsSound`: bounded attempts, lease shape, idempotent submission; `JobStepsLegal`: no stolen lease, lifecycle edges |
| `jobs_polling` | 2 jobs with 1 attempt each | **violated**: an exhausted expired job starves the one behind it |
| `outbox` | 2 writers, 1 reader, 3 events, pages of 2 | `LogTruthful`: numbers follow commits, no phantom event; `ReadersServed`: no duplicate, misses only under reused numbers |
| `outbox_resume` | 1 writer | **violated**: a reused number hides an event from a resuming reader |
| `outbox_agree` | 1 writer | **violated**: a crash between the two commits leaves a state without its event |
| `pipeline` | 7 stages, carving with 2 units, 2 checkpoints, 2 faults, all 8 configurations | no skipped work, schedule kept, durable pauses, nothing completed runs again, the scan settles |
| `export` | 1 item of 2 chunks, 2 exporters, 2 calls, 2 faults, 1 retry | verified copies, durable reports, kept copies, a queue that settles |
| `recovery` | 2 writers, 3 puts, quota of 3 blocks, 5 entries, 2 attempts per read, a carved file of 2 blocks; 2 sources of 2 sectors (symmetric) | nothing returned is lost, bounded overshoot of the quota, extracted is what was read, no sector forgotten, the store implements `ContentStore` |
| `host` | 2 appenders, 4 records, segments of 2; 2 slots, 2 media that differ in one sampled sector, 1 exchange, 1 scanner; 6 devices, 4 possible mounts, 2 changes of the kernel | the trail holds together, launches are audited, what is validated or started is what was confirmed, lasting uses are seen |
| `removable` | the same, with the scan of a card | **violated**: a proved removable medium is refused |
| `workers` | per component, see below | 17 properties, see below |
| `backup_wal` | 2 files, 2 versions, 3 backups | **violated**: a backup of paused workers lacks commits |

The properties of `workers`, with their bounds:

| property | component | bounds |
|---|---|---|
| `CheckpointsSound` | `Checkpoints` | 3 saves, 2 slots, 2 clock values in any order, both kinds of save |
| `SecretsSurvive` | `Vault` | 2 processes, 2 secrets, 3 keys |
| `EgressHolds` | `Enrichment` | 2 profiles, 2 items of which one is denied, 4 changes of settings or names, 2 retries |
| `NotificationsPaced` | `Notifications` | 2 types, 2 rule sets, days of 4 ticks, 5 ticks, 1 death |
| `ReviewHolds` (`ListedOnce`, `StatusAccounted`) | `Review` | 3 findings of which 2 share a second, pages of 1, 2 actions, 1 undo |
| `ViewsHold` | `FindingViews` | every catalog of up to 3 entries over 4 rows, 4 filters, pages of 2, 2 writes or selections |
| `UpgradesRecoverable` | `Migrations` | 3 processes of 2 releases, 4 calls |
| `ScanIsSound` | `Fat12` | every FAT over 3 clusters and 6 values (free, links, out of range, bad, end), every entry up to 3 bytes, each of 2 copies good or not, a bad sector or none |
| `SplitsLoseNothing` | `Enrichment` (its last part) | every list of up to 4 items of up to 3 bytes, every text up to 6, every budget up to 3 and a token set at any turn |
| `GroupsAreComponents` | `DuplicateGroups` | every likeness of 4 findings, and every choice of 3 digests and 2 sizes |
| `AcceptedIsSafe` | `ParserJobs` | 9 contents, 7 lines and all lists of 3 parts, 2 parses |
| `RestoredIsOneBackup` | `StateBackup` | 2 files, 1 change each, 3 backups |
| `VolumesFound` | `DiskLayout` | every table of 2 rows over 3 sectors, every signature |
| `EntriesHold` | `EntryRecovery` | every listing of 4 lines over 5 paths and 3 ids; every chain of 4 links |
| `DecodedOnceInOrder` | `ScannerMessages` | 4 kinds, 3 messages, streams of 4 lines |
| `DestinationsApart` | `ExportPaths` | every choice of 3 out of 9 source paths, 3 limits, both kinds of destination |
| `SecretsAreBounded` | `SecretUse` | every policy, 5 seconds; every 2 sets with every outcome |

Why the bounds are enough: the races of `jobs` need two clients in mid-operation
on one row, a second attempt and one expiry. The outbox needs two racing
appenders, a compaction and an append after it, and a page shorter than the
backlog. Checkpoints need a tie, a clock going back and a foreign slot. The
pipeline's bad cases need a crash and one more fault (swap, upgrade, corruption)
or a failure and a pause; 3 faults also pass, in two minutes. In `pipeline` every
save has the same `created_at`; `workers` varies it. `Saving` limits which
stages save between units; every stage may save when it pauses. The export's bad
cases need two overlapping calls, a prune or a change between two chunks, and a
fault after a finished copy; items meet only in `prune_partials` and in a power
loss, which treat each name alike. The store's bad cases need two writers past the
same check or of the same content, and one clean-up under a writer; a second put of
one writer is needed for a crash between the move and the metadata to be followed
by anything. PhotoRec's need a stale backup of one source when another is attached,
and a session that is neither empty nor full: two of each. The trail's need a
rotation with a record on either side of it and a crash in between; the host's one
exchange at every possible moment; the topology's a stack of two, because a walk of
one device cannot be overtaken. The vault's need two processes and a rotation after
a rotation. Migrations need two racing processes and one that is behind. A reading
of the table needs two rows of one sort value across a page's end, and one row that
is moved or hidden behind the cursor. For the
pure functions the bound is the input: large enough for each early return, each
boundary value and each pair of neighbours.

Deadlock is not checked: clocks, events, records, calls and faults are bounded, so
every instance ends.

Fairness. `jobs_polling` assumes that each worker keeps polling (WF on the
SELECT) and does not die for ever between its two statements (SF on the UPDATE).
`pipeline` assumes that while some stage can be launched, work, complete or stop,
or the scan can be restarted, one of these happens (WF on their disjunction);
pauses, failures and crashes are not fair and are bounded. `ScanSettles` excepts
a scan whose source was swapped: `restart_from_checkpoint` blocks it on purpose.
`export` assumes only that the coordinator keeps calling `step_queue` while an item
is unsettled (WF); no exporter need ever finish. The other runs check safety.

Some properties except what the code really allows, and say so: a vault whose key
was written by a process that died or had company (`SecretsSurvive`); numbers reused
after compaction (`ReadersServed`); readings with a wrong total (`ViewsHold`); a request or a worker that died before it wrote
its record (`StatusAccounted`, `NotificationsPaced`); a name that moved after the
privacy gate looked (`EgressHolds`); a backup that two processes wrote
(`UpgradesRecoverable`); two mounts stacked on one directory (`LastingUseIsSeen`); a
rotation cut off after its rename (`TrailHoldsTogether`); a scanner that is started
over and counts from zero (`DecodedOnceInOrder`); a medium exchanged after it was
validated (`ValidatedIsConfirmed`); a group in which only some findings have a
preview or a path (`GroupsAreComponents`). The properties say what holds beside these.

Each passing property has a mutant of the code in `PROJECT.json` that TLC
refutes: a dropped re-check, a missing WHERE clause, a swapped parameter. A mutant's
definition stands before the definition it replaces and is used by nothing else.

## 4. What the violations mean

* `RunnableJobReached`: the SELECT of `claim_next_job` does not look at
  `attempts`, its UPDATE does. A job that dies in its last attempt stays the
  oldest candidate and every poll returns None.
* `ReconnectReceivesMissed`: `_next_sequence` is `MAX(sequence) + 1` of the rows
  that are left. `ReadersServed` shows that this is the only way to miss an event.
* `StateAndEventAgree`: without a transaction around them, the UPDATE of the job
  and the INSERT of its event commit separately; a lost race for the sequence
  number has the same effect as a crash. `LogTruthful` shows that the opposite, an
  event without its state, cannot happen.
* `RemovableIsApproved`: `hostd/identity.py` gives a reader the device's source id,
  which starts with `source_`; `validate_media_identity` asks for `reader_`. Every
  removable medium is refused with `invalid_reader_id`, so the launch of a card
  never happens. The run's property is that a fingerprinted medium whose nodes are
  all verified read-only may be launched.
* `BackupIsConsistent`: `create_state_backup` copies the catalog's file and not the
  `-wal` file beside it. With the workers paused throughout, commits that SQLite has
  not moved yet are missing. `RestoredIsOneBackup` shows what does hold.

## 5. Proofs

Eight modules, for every value of the constants: the bounds of section 3 are
constants too, so they bound nothing here. A theorem is about the specification of
its component (`Spec`, `AuditSpec`, `ReviewSpec`, ...), of which the runs check an
instance; in `MCHost`, `MCRecovery` and `MCWorkers` it is what a behaviour of that
`part` satisfies. The inductive invariants stand in the component's module or in the
proof module, and TLC has checked each of them as an invariant of the run.

| module | theorems for properties of runs |
|---|---|
| `JobStateProofs` | `JobsSound`, `JobStepsLegal` |
| `ScanProofs` | `CheckpointsSound`, `CompletedDidAllWork`, `ScheduleSound`, `AckedPauseIsDurable`, `CompletedNotRerun` |
| `ExportProofs` | `CopiesVerified`, `ExportedSurvives`, `CompletedCopyKept`; the queue implements the engine |
| `RecoveryProofs` | `ReturnedIsRecorded`, `QuotaOvershootBounded`, `ImplementsContentStore`, `ExtractionHolds`, `NoSectorForgotten`; extraction and ingestion implement the store |
| `HostProofs` | `TrailHoldsTogether`, `LaunchedIsAudited`, `ValidatedIsConfirmed`, `WizardStartsConfirmed`, `LastingUseIsSeen`; the launch implements the audit trail |
| `ReaderProofs` | `LogTruthful`, `ReadersServed`, `DecodedOnceInOrder`, `ReviewHolds`, `ViewsHold` |
| `WorkerProofs` | `SecretsSurvive`, `RestoredIsOneBackup`, `EgressHolds`, `NotificationsPaced`, `UpgradesRecoverable`, `SplitsLoseNothing` |
| `FindingProofs` | `SecretsAreBounded`, `AcceptedIsSafe`, `DestinationsApart`, `GroupsAreComponents`, `VolumesFound`, `EntriesHold`, `ScanIsSound` |

`JobStateProofs` proves both properties of `jobs` for any jobs, clients,
submissions and bounds. The inductive invariant `IInv` adds two facts to the
properties: an operation in flight still holds what its first statement
established (`CallsValid`: a validated edge, a time not in the future, a row
that exists), and an acknowledged submission stays answered by a row whose key
no other row has (`AcksAnswered`). Without the first, the late UPDATE of a
transition could apply any edge; without the second, two acknowledgements of one
key need not agree.

`ScanProofs` proves `CheckpointsSound` for any ids, slots, sources, media and
clock values. `ChainLinked` is inductive only together with `LinksPresent` (no link
names a row that is not there yet, or the row a save inserts could be linked
already) and `LatestIsLastCommit`. The lemma `LatestIsCommitted` is the heart of it:
with one live row per slot the `ORDER BY created_at` cannot choose wrongly. On top
of the table it proves all safety properties of `pipeline`, for any units per
stage, budgets, sources, tools and faults. The seven stages and their dependencies are
those of the code. `ScanInv` adds `CursorsBacked`: no checkpoint of any source, tool
or age, nor any process, claims a unit that was not done with that source and tool,
which is why no resumption can skip one; `PauseIsTotal`: once a stage is paused none
can be launched until the restart, which is why nothing supersedes the checkpoint of
an acknowledged pause; `LiveBelongs`: processes only live on the expected source; and
`SkippedIsOptional`, which keeps the completed stages restartable. `FailureIsMoves`
says what one pass of `apply_stage_failure` can do to a status.

`ExportProofs` proves the safety properties of `export` for any items, exporters,
contents, calls and faults, and that the queue takes only steps the engine's
specification allows (`QueueImplementsEngine`), so the engine's theorems hold under
the queue. The inductive invariant `EngineInv` says that every call owns its partial
file (`TokensOwned`), that a partial file as long as what was read holds what was
read, damaged chunks apart (`Faithful`), which is what makes the verified flag of
the result true although it is computed from the bytes read, and that a call past
`verify_copy` has a verified, then a synced file, or none. `QueueInv` adds that an
exported item has a durable entry.

`RecoveryProofs` proves `ReturnedIsRecorded` and the refinement of `ContentStore` for
any writers, contents, sizes and quota. `ScratchInv` adds that the metadata lock is
held exactly from the reading to the publication and that what was read is still
there (`LockKept`), without which a publication could drop a reference, and that a
call past the move finds its content in the store (`CallsInHand`), without which
metadata could refer to nothing. The refinement maps `objects` to `stored` and
`meta` to `refs`; the move is an `Adopt`, the publication a `Refer`, every other
step, clean-ups and crashes included, a stutter. `QuotaOvershootBounded` follows from
`OvershootAccounted`: what is over the quota is accounted for by the calls that passed
the check together and have not come to the next one, each with its object or its
record; the bytes in use are the cardinality of a set of places, so that one object more
is a disjoint union and not a fold. `RecoveryDrivesStore` shows that every step of the
composition is a step of the store or leaves it alone, so these theorems hold there
too. For `Recovery` on top of the store it
proves `ExtractionHolds`, for any medium, entries, faults and number of attempts.
`RecoveryInv` adds that the buffer holds the extents read so far, with a zero only
where the reader recorded a gap (`BufferIsRead`), that what the store is writing for
the extraction is that buffer, complete (`PutIsBuffer`), that a checkpoint is a start
and not a part (`CheckpointIsStart`), and that a read under retry is not yet counted
as recovered (`RetryPending`). For `PhotoRecSession` it proves `NoSectorForgotten` for
any sources and sectors. `PRInv` adds that during a run what is carved, what PhotoRec
has still to do and what the staged session lists together leave nothing out
(`RunAccountsForAll`), and that a handle in memory is bound to the attached source
(`HandleIsBound`): a manifest is written from these two.

`HostProofs` proves the five properties of `host`.
* An inspection, for any devices, stacks and mounts: `TopologyInv` says that what has
  lasted was in the mount table that was read, and that the walk has visited or will
  visit every device it met and knows every lasting holder of a visited one
  (`WalkIsComplete`). When the walk ends, the visited set is closed under the lasting
  holders; `Reach` is the least such set, so it is within the visited.
* The trail, for any processes, events and segment size: `AuditInv` adds that the
  holder of the lock remembers the end of the log it verified (`LockIsHeld`) and that
  no hash is drawn twice (`HashesAreDrawn`). A record is then always appended to the
  file it was computed for.
* The wizard, for one slot and any exchanges (`WizardInv`).
* Launches, over the trail: `LaunchInv` adds that hostd's append is always the record
  of a launch, and that one that has returned belongs to no scanner yet
  (`LaunchRecords`); and that the samples a scanner has read are those of the medium
  in its slot as long as nobody exchanged it (`ScannersHold`). `LaunchDrivesAudit` shows
  that the launch writes the trail only through the trail's own steps.

`ReaderProofs` is about those who read in order and in pieces.
* The outbox, for any writers, readers, jobs and page limit. `NumbersDense` is what
  makes `MAX(sequence) + 1` safe: below a number in use, about to be used or heard of,
  every number was given out, so that a smaller number can only come from compaction.
  `BatchInOrder` and `BatchIsComplete` speak of the rows a stream has still to send.
  `CommitsAccounted` counts: the events of a state and the appends under way for it
  are together no more than the times the job entered it.
* A stream of messages: every line was written fresh, there or before it
  (`LinesHaveOrigins`), so the first line with a key is the one that was sent first.
* The review: `PagerInStep` says that what is listed lies up to the cursor and what
  must still be listed lies after it; a page moves the cursor to its last row, and
  `PageIsFirstPart` shows that the rows the limit cuts off all come after it.
  `TodoIsCurrent` says that what a request read when it began still holds of the
  findings it has not reached.
* The table and the gallery, for any entries, rows, filters and page limit. `ViewInv`
  adds `CursorBetween`: moved rows aside, what was shown is not after the cursor and what
  must still be shown is; and `Undisturbed`: while nothing is written, what is shown is
  what the filter let through at the opening. `SortedRowsAre` shows that counting puts
  the rows in order, `FirstAfter` and `PageIs` where a page begins and ends, `PassedIs`
  that the slice after the cursor serves as well as all rows, and `ReadingGoesOn` that
  the next cursor divides the rows as `CursorBetween` asks. `FacetsCounted` turns the
  rows of a complete reading into the facet counts by a bijection.

`WorkerProofs` proves `SecretsSurvive` for any processes, secrets and keys. `VaultInv`
adds, for an undisturbed store, `KeysHeld`: a process that writes a key is alone, an
open one holds the key on disk, and a rotation has a set of references still to write
such that all others are already under the new key. Beside the vault:
* `RestoredIsOneBackup`, for any files: `BackupInv` says that the manifest in an
  archive is what that backup hashed, and of a quiet backup that nothing but the
  catalog's own log moved (`QuietIsStill`).
* `EgressHolds`, for any profiles, items and hosts: `EnrichInv` says that what the
  gate found still holds of the call in hand (`CallIsCleared`) and that the cache in
  memory knows all that is stored.
* `NotificationsPaced`, for any rules: every delivery but the last, unrecorded one is
  on record or was lost with the worker (`DeliveredIsRecorded`).
* `UpgradesRecoverable`, for any processes and targets: a process that made an upgrade
  never writes its backup again (`BackupsLeft`), and a whole backup is of the version
  in its name or a later one (`BackupsInTime`).
* `SplitsLoseNothing`, for any items, limits, texts and budgets: `SplitInv` says how far
  each loop has come. The closed batches and the one in hand join to the items seen, and
  the bytes counted are the bytes of the batch in hand (`BatchesSoFar`); every chunk but
  the last is full and the next one starts the overlap before its end (`ChunksSoFar`).

`FindingProofs` is about what is found and what becomes of it.
* Secrets, for any policy and sets: `RevealInv` says that a session or a clipboard that
  is shown was looked at in time up to now, one second apart at most. Of a trial, that
  every set before the match was rejected; and that in a payload of one-byte characters
  the lengths the tool reads are the lengths of the values.
* Adapters, for any content and tool output: `ParserInv` adds that every cached thumbnail
  is stored under the content it shows, one per tier (`ThumbsHold`).
* Destinations, for any items and limits: of one more ending than there are keys in use
  one is free, by counting, hence `Unique` finds one.
* Duplicates, for any findings and any likeness: `GroupInv` says that parents are never
  larger than their children, that findings of one root are linked by a chain of like
  ones, and that like findings whose pair was met have one root. `RootsExist` builds the
  roots of such a forest; `JoinedRoots` says what one union does to them.
* Volumes, for any table and marks: sorted by start, two partitions that share a sector
  make some pair of neighbours that touch; the proof takes the closest such pair.
* Entries, for any listing and chain: a normalised chain is the longest beginning with
  no end, bad or repeated link, and an intact entry's extents are its first clusters,
  each once.
* Floppies, for any FAT, entry and bad sectors: `FatInv` says that the walk so far has
  distinct data clusters which the FAT gives to a file; `SectorsApart` and `RunsCover`
  that sectors of different clusters differ and the ranges are exactly the free sectors;
  `FatIsRead` that decoding the packed bytes gives back the FAT.

Induction over numbers is done by the least counterexample (`LeastNumber`, `LeastOf`,
`NatMin`), which needs no operator parameter.

Assumptions are the ASSUMEs of the modules, which TLC evaluates in every run: ids,
times and limits are numbers and limits positive where the code validates that, NULL
is none of the values, rows, marks and findings given have the fields the code reads, a
damaged chunk is no chunk of a scratch object, no writer is
the value of a free lock, a medium is a sequence of sectors, an extent that is not
sparse lies on the medium, every profile has a host of a known kind, writers, findings
and migrating processes are finitely many.

Only model-checked, and why:
* `ScanSettles` and `QueueSettles`: liveness under fairness.
* The five violated statements: a trace is the evidence.
* That a loop which is one step here does what its turns would do (the first free ending
  of `_unique`, the neighbours of `_has_overlap`, `find` of the union-find, the reading
  of `fls` lines): the model says the result of the loop with a set or a least number,
  which is a translation and not a theorem.

Every safety property of a passing run is a theorem.

## 6. Not modelled

* Artifact extraction (browsers, mail, registries and the like), secret locators,
  disk health, the other views and scoring: parsing of one file or of some rows in one call,
  without state or protocol.
* Payload validation and wording, JSON canonicalisation, prompts, wire formats of
  the services, formats of tools' output, dates and names in directory entries,
  delays and temperatures, the redacted support bundle.
* External programs and services: PhotoRec, the sandboxed tools, the kernel, DNS
  and the providers are what the code assumes of them; rclone only has a validated
  contract.
* Saved and shared views, columns, thumbnails and the gallery's groups; facets,
  histograms and request limits of the API, the web interface and scripts.

`PROJECT.json` lists every part with the reason.

## 7. Plan

Done: everything in section 2, and the theorems of section 5. What is left, in this
order:

1. An abstract queue that `JobState` implements, and an abstract log for the outbox.
2. FAT copies that are both valid and disagree (`fat_copies_disagree`): the code takes
   the first, the model has them alike.
3. The batch view of several cards in the wizard, and the host protocol's envelope.
