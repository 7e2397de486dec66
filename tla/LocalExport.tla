----------------------------- MODULE LocalExport -----------------------------
(***************************************************************************)
(* The verified local export engine: worker/local_export.py.  Exporters    *)
(* run export_local_item side by side on one destination directory, while  *)
(* the scratch objects may change under them, writes may be damaged, calls *)
(* may fail, prune_partials may run at any moment, exporters may die and   *)
(* the host may lose power.  A file is its data and whether the data has   *)
(* reached stable storage; a chunk is one element of the data.             *)
(***************************************************************************)
EXTENDS Naturals, Sequences

CONSTANTS
    Items,      \* items of the export
    Exporters,  \* threads or processes that run export_local_item
    Chunks,     \* what a chunk of a scratch object may be
    Original,   \* per item, the content of the recorded size and SHA-256
    Contents,   \* data a scratch object may hold, changed ones included
    NoFile,     \* a name that is not in the directory
    Damaged,    \* a chunk that the disk did not store as written
    MaxCalls,   \* bound: calls that get as far as a partial file
    MaxFaults   \* bound: changes, damaged writes, failures, deaths, power losses

ASSUME ContentAssumption ==
    Original \in [Items -> Seq(Chunks)] /\ Contents \subseteq Seq(Chunks)
ASSUME DamagedAssumption == Damaged \notin Chunks
ASSUME BoundsAssumption == MaxCalls \in Nat /\ MaxFaults \in Nat

VARIABLES
    source,     \* per item, the data of its scratch object, or NoFile before extraction
    partials,   \* per token of prepare_copy, the partial file of that name
    final,      \* per item, the file of its final name
    stable,     \* per item, the entry of its final name that a power loss leaves
    call,       \* per exporter, the call it is in
    calls,      \* tokens handed out so far
    results,    \* per item, the last ExportResult returned
    dirOpens,   \* the destination directory can be opened, hence synced
    faults      \* faults so far

engineVars == <<source, partials, final, stable, call, calls, results, dirOpens, faults>>

Idle == [op |-> "idle"]
Tokens == 1..MaxCalls
File(data, synced) == [data |-> data, synced |-> synced]
NoResult == "none"

Fault == faults < MaxFaults /\ faults' = faults + 1
Call(op, i, t, read) == [op |-> op, item |-> i, token |-> t, read |-> read]
GoTo(e, op) ==
    call' = [call EXCEPT ![e] = Call(op, call[e].item, call[e].token, call[e].read)]

EngineInit ==
    /\ source = [i \in Items |-> NoFile]
    /\ partials = [t \in Tokens |-> NoFile]
    /\ final = [i \in Items |-> NoFile]
    /\ stable = [i \in Items |-> NoFile]
    /\ call = [e \in Exporters |-> Idle]
    /\ calls = 0
    /\ results = [i \in Items |-> NoResult]
    /\ dirOpens \in BOOLEAN
    /\ faults = 0

-----------------------------------------------------------------------------
(* export_local_item *)

(* ExportResult.failed, after cleanup_partial. *)
Fail(e) ==
    /\ partials' = [partials EXCEPT ![call[e].token] = NoFile]
    /\ results' = [results EXCEPT ![call[e].item] = "failed"]
    /\ call' = [call EXCEPT ![e] = Idle]

(* prepare_copy finds a finished copy it may not replace: no partial is made. *)
Refuse(e, i) ==
    /\ call[e] = Idle
    /\ final[i] # NoFile
    /\ results' = [results EXCEPT ![i] = "failed"]
    /\ UNCHANGED <<source, partials, final, stable, call, calls, dirOpens, faults>>

(* prepare_copy finds no destination directory. *)
DestinationMissing(e, i) ==
    /\ call[e] = Idle
    /\ Fault
    /\ results' = [results EXCEPT ![i] = "failed"]
    /\ UNCHANGED <<source, partials, final, stable, call, calls, dirOpens>>

(* prepare_copy picks a fresh partial name; the first chunk creates the file. *)
Prepare(e, i, replace) ==
    /\ call[e] = Idle
    /\ final[i] = NoFile \/ replace
    /\ calls < MaxCalls
    /\ calls' = calls + 1
    /\ call' = [call EXCEPT ![e] = Call("copy", i, calls + 1, <<>>)]
    /\ UNCHANGED <<source, partials, final, stable, results, dirOpens, faults>>

(* The data of a file that is opened for appending. *)
DataOf(f) == IF f = NoFile THEN <<>> ELSE f.data

(* The scratch object has a chunk at the reader's offset and room is left for it. *)
HasChunk(e) ==
    /\ source[call[e].item] # NoFile
    /\ Len(call[e].read) < Len(source[call[e].item])
    /\ Len(call[e].read) < Len(Original[call[e].item])

(* One round of copy_stream: read a chunk, append it to the partial file (a   *)
(* name that has vanished is created again), and hash it.                     *)
CopyChunk(e) ==
    /\ call[e].op = "copy"
    /\ HasChunk(e)
    /\ LET i == call[e].item
           t == call[e].token
           chunk == source[i][Len(call[e].read) + 1]
       IN /\ call' = [call EXCEPT ![e] = Call("copy", i, t, Append(call[e].read, chunk))]
          /\ \/ /\ partials' = [partials EXCEPT ![t] = File(Append(DataOf(@), chunk), FALSE)]
                /\ UNCHANGED faults
             \/ /\ partials' = [partials EXCEPT ![t] = File(Append(DataOf(@), Damaged), FALSE)]
                /\ Fault
    /\ UNCHANGED <<source, final, stable, calls, results, dirOpens>>

(* The reader is at the end of an object of the recorded size. *)
AtExpectedEnd(e) ==
    LET i == call[e].item
    IN source[i] # NoFile /\ Len(call[e].read) = Len(Original[i])
                          /\ Len(source[i]) <= Len(Original[i])

(* copy_stream ends: on to verify_copy, or source_changed (or no source). *)
CopyEnd(e) ==
    /\ call[e].op = "copy"
    /\ ~HasChunk(e)
    /\ IF AtExpectedEnd(e) THEN GoTo(e, "verify") /\ UNCHANGED <<partials, results>>
                           ELSE Fail(e)
    /\ UNCHANGED <<source, final, stable, calls, dirOpens, faults>>

(* Mutant: only the size is compared. *)
VerifiesSizeOnly(f, i) == f # NoFile /\ Len(f.data) = Len(Original[i])

(* verify_copy reads the partial file back. *)
Verifies(f, i) == f # NoFile /\ f.data = Original[i]

Verify(e) ==
    /\ call[e].op = "verify"
    /\ IF Verifies(partials[call[e].token], call[e].item)
       THEN GoTo(e, "sync") /\ UNCHANGED <<partials, results>>
       ELSE Fail(e)
    /\ UNCHANGED <<source, final, stable, calls, dirOpens, faults>>

(* Mutant: finalize_copy without the fsync of the partial file. *)
SyncedNot(f) == f

Synced(f) == File(f.data, TRUE)

(* _fsync_file of finalize_copy. *)
Sync(e) ==
    /\ call[e].op = "sync"
    /\ IF partials[call[e].token] # NoFile
       THEN /\ partials' = [partials EXCEPT ![call[e].token] = Synced(@)]
            /\ GoTo(e, "replace")
            /\ UNCHANGED results
       ELSE Fail(e)
    /\ UNCHANGED <<source, final, stable, calls, dirOpens, faults>>

(* os.replace of finalize_copy. *)
Replace(e) ==
    /\ call[e].op = "replace"
    /\ LET t == call[e].token
       IN IF partials[t] # NoFile
          THEN /\ final' = [final EXCEPT ![call[e].item] = partials[t]]
               /\ partials' = [partials EXCEPT ![t] = NoFile]
               /\ GoTo(e, "syncdir")
               /\ UNCHANGED results
          ELSE Fail(e) /\ UNCHANGED final
    /\ UNCHANGED <<source, stable, calls, dirOpens, faults>>

(* Mutant: the directory is not synced. *)
DirSyncedNot == stable

(* _fsync_dir makes the entries durable; it returns silently when the         *)
(* directory cannot be opened.                                                *)
DirSynced == IF dirOpens THEN final ELSE stable

(* The ExportResult of a finished call; its verified flag compares the digest *)
(* of what was read from the source.                                          *)
Outcome(e) == IF call[e].read = Original[call[e].item] THEN "completed" ELSE "unverified"

SyncDir(e) ==
    /\ call[e].op = "syncdir"
    /\ stable' = DirSynced
    /\ results' = [results EXCEPT ![call[e].item] = Outcome(e)]
    /\ call' = [call EXCEPT ![e] = Idle]
    /\ UNCHANGED <<source, partials, final, calls, dirOpens, faults>>

(* Any system call of the copy raises OSError, the sync of the directory      *)
(* after the rename included.                                                 *)
IoError(e) ==
    /\ call[e] # Idle
    /\ Fault
    /\ Fail(e)
    /\ UNCHANGED <<source, final, stable, calls, dirOpens>>

(* The same, and unlink fails as well: cleanup_partial leaves the file. *)
CleanupError(e) ==
    /\ call[e] # Idle
    /\ Fault
    /\ results' = [results EXCEPT ![call[e].item] = "failed"]
    /\ call' = [call EXCEPT ![e] = Idle]
    /\ UNCHANGED <<source, partials, final, stable, calls, dirOpens>>

-----------------------------------------------------------------------------
(* Beside export_local_item *)

prune_partials ==
    /\ \E t \in Tokens : partials[t] # NoFile
    /\ partials' = [t \in Tokens |-> NoFile]
    /\ UNCHANGED <<source, final, stable, call, calls, results, dirOpens, faults>>

(* Extraction publishes the scratch object of an item. *)
Extract(i) ==
    /\ source[i] = NoFile
    /\ source' = [source EXCEPT ![i] = Original[i]]
    /\ UNCHANGED <<partials, final, stable, call, calls, results, dirOpens, faults>>

SourceChanges(i) ==
    /\ source[i] # NoFile
    /\ \E c \in Contents \ {source[i]} : source' = [source EXCEPT ![i] = c]
    /\ Fault
    /\ UNCHANGED <<partials, final, stable, call, calls, results, dirOpens>>

ExporterDies(e) ==
    /\ call[e] # Idle
    /\ Fault
    /\ call' = [call EXCEPT ![e] = Idle]
    /\ UNCHANGED <<source, partials, final, stable, calls, results, dirOpens>>

(* What a power loss leaves of a file. *)
Torn(f) == IF f = NoFile \/ f.synced THEN f ELSE File(<<Damaged>>, TRUE)

(* Of the entries not synced yet, any may have reached the disk. *)
PowerLoss ==
    /\ Fault
    /\ \E reached \in SUBSET Items :
          final' = [i \in Items |-> Torn(IF i \in reached THEN final[i] ELSE stable[i])]
    /\ stable' = final'
    /\ partials' = [t \in Tokens |-> Torn(partials[t])]
    /\ call' = [e \in Exporters |-> Idle]
    /\ results' = [i \in Items |-> NoResult]
    /\ UNCHANGED <<source, calls, dirOpens>>

EngineStep(e) ==
    \/ CopyChunk(e) \/ CopyEnd(e) \/ Verify(e) \/ Sync(e) \/ Replace(e) \/ SyncDir(e)
    \/ IoError(e) \/ CleanupError(e) \/ ExporterDies(e)

EngineEnv ==
    \/ prune_partials
    \/ \E i \in Items : Extract(i) \/ SourceChanges(i)
    \/ PowerLoss

EngineStart(e, i) ==
    Refuse(e, i) \/ DestinationMissing(e, i) \/ \E replace \in BOOLEAN : Prepare(e, i, replace)

EngineNext ==
    \/ \E e \in Exporters : EngineStep(e)
    \/ \E e \in Exporters, i \in Items : EngineStart(e, i)
    \/ EngineEnv

EngineSpec == EngineInit /\ [][EngineNext]_engineVars

-----------------------------------------------------------------------------
(* Properties *)

(* A file under a final name holds the content of the recorded digest, after  *)
(* any interleaving of copies, prunes, changes, failures and power losses     *)
(* (verify_copy and finalize_copy, local_export.py:178-203).                  *)
FinalsVerified == \A i \in Items : final[i] # NoFile => final[i].data = Original[i]

(* An ExportResult says completed only with its verified flag set and the     *)
(* copy in place, though the flag is computed from the bytes read and not     *)
(* from the file (local_export.py:245-254).                                   *)
CompletedIsVerified ==
    \A i \in Items :
        /\ results[i] # "unverified"
        /\ results[i] = "completed" => final[i] # NoFile

(* What is under a final name was verified, and so was what is reported       *)
(* (local_export.py:117-254).                                                 *)
CopiesVerified == FinalsVerified /\ CompletedIsVerified

(* A finished copy whose entry is durable stays as it is, whatever fails, is  *)
(* pruned, dismissed, replaced or cut off later: "never remove a completed    *)
(* copy" (local_export.py:5).                                                 *)
CompletedCopyKept ==
    [][\A i \in Items : stable[i] # NoFile => final'[i] = final[i]]_engineVars
=============================================================================
