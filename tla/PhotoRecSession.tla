-------------------------- MODULE PhotoRecSession --------------------------
(***************************************************************************)
(* scanner/photorec_carving.py and scanner/photorec_resume.py: carving     *)
(* with PhotoRec, the durable backups of its session file, and resuming    *)
(* from one in a later scanner process.  A session is <<source, sectors    *)
(* still to carve>> and stands for its bytes and their digest, which name  *)
(* the backup; its manifest holds the binding and the completion state.    *)
(* PhotoRec is an external tool: it carves sectors, saves its session now  *)
(* and then, and may be killed by the timeout in mid-save.  A scanner      *)
(* process works on one source; another may be attached between processes. *)
(***************************************************************************)
EXTENDS Naturals, FiniteSets

CONSTANTS Sources,      \* bindings: source fingerprint, tool, signatures, ranges
          Sectors       \* what the carve ranges cover

None == <<"none">>
Torn == <<"torn">>      \* a session file that _validate_session_data rejects
Sessions == Sources \X SUBSET Sectors

VARIABLES
    source,     \* the source attached to the scanner
    carvedOf,   \* sectors of each source whose files are in quarantine
    backups,    \* session files in the backup directory
    manifest,   \* their manifests: "absent", "open" or "completed"
    bound,      \* the source a manifest is bound to
    staged,     \* photorec.ses in the working directory
    work,       \* sectors the running PhotoRec has still to do
    run,        \* phase of the scanner's call
    handle,     \* the SessionBackup in memory: [session, completed]
    pointer     \* the backup the caller has on record

prVars == <<source, carvedOf, backups, manifest, bound, staged, work, run, handle, pointer>>

NoHandle == [session |-> None, completed |-> FALSE]

PRInit ==
    /\ source \in Sources
    /\ carvedOf = [s \in Sources |-> {}]
    /\ backups = {} /\ manifest = [x \in Sessions |-> "absent"]
    /\ bound = [x \in Sessions |-> None]
    /\ staged = None /\ work = {} /\ run = "idle"
    /\ handle = NoHandle /\ pointer = None

Rest == UNCHANGED <<source, carvedOf, work, pointer>>

\* run_photorec_carve: a first search over all ranges.
Carve ==
    /\ run = "idle" /\ handle = NoHandle /\ pointer = None
    /\ run' = "running" /\ work' = Sectors /\ staged' = None
    /\ UNCHANGED <<source, carvedOf, backups, manifest, bound, handle, pointer>>

\* binding_for_command: what a backup made now belongs to.
Binding == source
\* _validate_binding: fingerprint, tool, signatures, ranges and command hash agree.
BoundToSource(x) == bound[x] = Binding

\* _validate_session_data: text of the right form with at least one range left.
SessionValid(x) == x \in Sessions /\ x[2] # {}
\* _read_bounded_file, on a private directory: the session file is there and valid.
Readable(x) == x \in backups /\ SessionValid(x)
\* _atomic_write: the whole file under its name, over an earlier one, or nothing.
Written(files, x) == files \cup {x}
\* _validate_session_backup and build_resume_command: not completed, of this source.
MayResume(h) == ~h.completed /\ Readable(h.session) /\ h.session[1] = source

\* load_session_backup: session file, manifest and binding are all checked.
Load ==
    /\ run = "idle" /\ handle = NoHandle /\ pointer # None
    /\ Readable(pointer) /\ manifest[pointer] # "absent" /\ BoundToSource(pointer)
    /\ handle' = [session |-> pointer, completed |-> manifest[pointer] = "completed"]
    /\ UNCHANGED <<backups, manifest, bound, staged, run>> /\ Rest

\* run_photorec_resume: a completed session is refused, another is staged.
ResumeSession ==
    /\ run = "idle" /\ handle # NoHandle /\ MayResume(handle)
    /\ run' = "running" /\ staged' = handle.session /\ work' = handle.session[2]
    /\ UNCHANGED <<source, carvedOf, backups, manifest, bound, handle, pointer>>

-----------------------------------------------------------------------------
(* PhotoRec *)
ToolCarves ==
    /\ run = "running"
    /\ \E s \in work :
        /\ carvedOf' = [carvedOf EXCEPT ![source] = @ \cup {s}]
        /\ work' = work \ {s}
    /\ UNCHANGED <<source, backups, manifest, bound, staged, run, handle, pointer>>

ToolSaves ==
    /\ run = "running" /\ work # {}
    /\ staged' = <<source, work>>
    /\ UNCHANGED <<backups, manifest, bound, run, handle>> /\ Rest

\* Exit code 0 or 1; the session file is removed, or left as last saved.
ToolFinishes ==
    /\ run = "running" /\ work = {}
    /\ run' = "exited" /\ staged' \in {staged, None}
    /\ UNCHANGED <<backups, manifest, bound, handle>> /\ Rest

\* What killing PhotoRec at the timeout leaves: its last save may be torn.
StagedAfterKill == {staged, IF staged = None THEN None ELSE Torn}

\* Killed by the timeout, or another exit code.
ToolStops ==
    /\ run = "running"
    /\ run' = "stopped" /\ staged' \in StagedAfterKill
    /\ UNCHANGED <<backups, manifest, bound, handle>> /\ Rest

-----------------------------------------------------------------------------
(* The end of run_photorec_resume: the staged session is backed up, session *)
(* file first and manifest second, each by an atomic write that can fail;   *)
(* when that fails, or there is no session, a completed carve is marked in  *)
(* the manifest it started from.                                            *)

(* Mutant: a session counts as complete however PhotoRec ended. *)
CompletedWhenever == TRUE
Completed == run \in {"exited", "exited_saved"}

WriteSessionFile ==
    /\ run \in {"exited", "stopped"} /\ SessionValid(staged)
    /\ backups' = Written(backups, staged)
    /\ run' = IF run = "exited" THEN "exited_saved" ELSE "stopped_saved"
    /\ UNCHANGED <<manifest, bound, staged, handle>> /\ Rest

WriteManifestWith(x, completed) ==
    /\ manifest' = [manifest EXCEPT ![x] = IF completed THEN "completed" ELSE "open"]
    /\ bound' = [bound EXCEPT ![x] = Binding]
    /\ handle' = [session |-> x, completed |-> completed]

WriteManifest ==
    /\ run \in {"exited_saved", "stopped_saved"}
    /\ WriteManifestWith(staged, Completed)
    /\ run' = "returned"
    /\ UNCHANGED <<backups, staged>> /\ Rest

\* _mark_backup_completed, or the failure that leaves only a warning.
MarkOrWarn ==
    /\ run \in {"exited", "stopped", "exited_saved", "stopped_saved"}
    /\ \/ /\ Completed /\ handle # NoHandle
          /\ WriteManifestWith(handle.session, TRUE)
       \/ UNCHANGED <<manifest, bound, handle>>
    /\ run' = "returned"
    /\ UNCHANGED <<backups, staged>> /\ Rest

\* The caller records the backup it was handed, and the call is over.
Record ==
    /\ run = "returned"
    /\ pointer' = IF handle = NoHandle THEN pointer ELSE handle.session
    /\ run' = "idle"
    /\ UNCHANGED <<source, carvedOf, backups, manifest, bound, staged, work, handle>>

\* The scanner process ends at any point, and PhotoRec with it.
ProcessEnds ==
    /\ run' = "idle" /\ handle' = NoHandle /\ work' = {}
    /\ staged' \in {staged, IF run = "running" /\ staged # None THEN Torn ELSE None}
    /\ UNCHANGED <<source, carvedOf, backups, manifest, bound, pointer>>

SwapSource ==
    /\ run = "idle" /\ handle = NoHandle
    /\ source' \in Sources \ {source}
    /\ UNCHANGED <<carvedOf, backups, manifest, bound, staged, work, run, handle, pointer>>

PRNext ==
    \/ Carve \/ Load \/ ResumeSession
    \/ ToolCarves \/ ToolSaves \/ ToolFinishes \/ ToolStops
    \/ WriteSessionFile \/ WriteManifest \/ MarkOrWarn \/ Record
    \/ ProcessEnds \/ SwapSource

PRSpec == PRInit /\ [][PRNext]_prVars

-----------------------------------------------------------------------------
(* Carving forgets nothing across timeouts, torn session files, failed      *)
(* backups, crashes and changes of the source: whatever a backup with a     *)
(* manifest does not list as still to carve is carved, and one marked       *)
(* completed has everything carved (photorec_resume.py:270-340).            *)
NoSectorForgotten ==
    \A x \in Sessions : manifest[x] # "absent" =>
        /\ carvedOf[bound[x]] \cup x[2] = Sectors
        /\ manifest[x] = "completed" => carvedOf[bound[x]] = Sectors

(* What makes it inductive.                                                 *)
PRTypeOK ==
    /\ source \in Sources /\ carvedOf \in [Sources -> SUBSET Sectors]
    /\ manifest \in [Sessions -> {"absent", "open", "completed"}]
    /\ bound \in [Sessions -> Sources \cup {None}]
    /\ staged \in Sessions \cup {None, Torn} /\ work \subseteq Sectors
    /\ run \in {"idle", "running", "exited", "stopped", "exited_saved", "stopped_saved", "returned"}
    /\ handle = NoHandle \/ handle \in [session : Sessions, completed : BOOLEAN]
    /\ pointer \in Sessions \cup {None}

\* The run under way: what PhotoRec has still to do and what the session staged
\* for it or saved by it lists together leave nothing out.
RunAccountsForAll ==
    /\ run = "running" => carvedOf[source] \cup work = Sectors
    /\ run \in {"exited", "exited_saved"} => carvedOf[source] = Sectors
    /\ (run \notin {"idle", "returned"} /\ staged \in Sessions)
        => carvedOf[source] \cup staged[2] = Sectors
    /\ run \in {"exited_saved", "stopped_saved"} => staged \in Sessions

\* A backup in memory has a manifest of the attached source.
HandleIsBound ==
    /\ \A x \in Sessions : manifest[x] # "absent" => bound[x] \in Sources
    /\ handle # NoHandle => manifest[handle.session] # "absent" /\ BoundToSource(handle.session)

PRInv == PRTypeOK /\ NoSectorForgotten /\ RunAccountsForAll /\ HandleIsBound
=============================================================================
