---------------------------- MODULE ScratchStore ----------------------------
(***************************************************************************)
(* shared/scratch_store.py: the content-addressed store that extraction    *)
(* and carving write to.  The writers are threads that share one           *)
(* ScratchStore (its metadata lock is a threading.Lock).  A content stands *)
(* for its bytes and for their SHA-256.  put_bytes is cut at the points    *)
(* where another writer can be seen: the listing of temporary files, each  *)
(* unlink, the opening, the quota checks, the move, and the metadata.      *)
(***************************************************************************)
EXTENDS Naturals, FiniteSets, FiniteSetsExt

CONSTANTS Writers,      \* threads that call put_bytes
          Contents,     \* what they may store
          Size,         \* bytes of a content
          Quota,        \* quota_bytes
          RecordBytes,  \* bytes one provenance record adds to the metadata
          MaxPuts,      \* bound: calls of put_bytes by each writer
          NoContent, NoWriter   \* neither a content nor a writer

ASSUME ScratchAssumption ==
    /\ Size \in [Contents -> Nat]
    /\ Quota \in Nat \ {0}
    /\ RecordBytes \in Nat
    /\ MaxPuts \in [Writers -> Nat]
    /\ NoContent \notin Contents
    /\ NoWriter \notin Writers
    /\ IsFiniteSet(Writers) /\ Writers # {}
    /\ \E c \in Contents : \A d \in Contents : Size[d] <= Size[c]   \* one is the largest

Refs == UNION {{w} \X (1..MaxPuts[w]) : w \in Writers}   \* one per call of put_bytes
TempFiles == Writers \X {"data", "meta"}         \* the two temporaries of a call
Steps == {"idle", "cleanup", "write", "final", "replace", "lock",
          "meta", "publish", "done", "failed", "refused"}

VARIABLES
    objects,    \* contents under objects/
    meta,       \* provenance in metadata/<sha256>.json; {} when there is none
    tmp,        \* temporary files under tmp/
    pc,         \* how far the call of each writer has come
    todo,       \* temporary files a call has listed and not yet unlinked
    content,    \* what each writer has written
    seen,       \* metadata a writer read under the lock
    lock,       \* holder of _metadata_lock
    calls,      \* calls made so far; the current call's reference is <<w, calls[w]>>
    returned    \* history: <<reference, content>> of the calls that succeeded

scratchVars == <<objects, meta, tmp, pc, todo, content, seen, lock, calls, returned>>

ScratchInit ==
    /\ objects = {} /\ meta = [c \in Contents |-> {}] /\ tmp = {}
    /\ pc = [w \in Writers |-> "idle"]
    /\ todo = [w \in Writers |-> {}]
    /\ content = [w \in Writers |-> NoContent]
    /\ seen = [w \in Writers |-> {}]
    /\ lock = NoWriter
    /\ calls = [w \in Writers |-> 0]
    /\ returned = {}

Ref(w) == <<w, calls[w]>>

\* The bytes under objects/ and the records under metadata/, and what both take.
ObjectBytes == UNION {{c} \X (1 .. Size[c]) : c \in objects}
Records == {r \in Contents \X Refs : r[2] \in meta[r[1]]}
Used == Cardinality(ObjectBytes) + RecordBytes * Cardinality(Records)

(* Mutant: the quota is not tested. *)
FitsAlways(bytes) == TRUE
Fits(bytes) == Used + bytes <= Quota

\* put_bytes raises, an OSError (failed) or a ScratchStoreError (refused), and
\* the data temporary of this call is unlinked.
Raise(w, how) ==
    /\ pc' = [pc EXCEPT ![w] = how]
    /\ tmp' = tmp \ {<<w, "data">>}

-----------------------------------------------------------------------------
(* initialize() and the listing done by _cleanup_incomplete(), which covers *)
(* the temporaries of calls that are still running.                         *)
BeginPut(w) ==
    /\ pc[w] = "idle" /\ calls[w] < MaxPuts[w]
    /\ pc' = [pc EXCEPT ![w] = "cleanup"]
    /\ todo' = [todo EXCEPT ![w] = tmp]
    /\ calls' = [calls EXCEPT ![w] = @ + 1]
    /\ UNCHANGED <<objects, meta, tmp, content, seen, lock, returned>>

\* One unlink of the listing; a file that is gone by now makes the call raise.
CleanupOne(w) ==
    /\ pc[w] = "cleanup"
    /\ \E f \in todo[w] :
        /\ todo' = [todo EXCEPT ![w] = @ \ {f}]
        /\ tmp' = tmp \ {f}
        /\ pc' = IF f \in tmp THEN pc ELSE [pc EXCEPT ![w] = "failed"]
    /\ UNCHANGED <<objects, meta, content, seen, lock, calls, returned>>

OpenTemp(w) ==
    /\ pc[w] = "cleanup" /\ todo[w] = {}
    /\ IF Fits(0)
       THEN /\ pc' = [pc EXCEPT ![w] = "write"]
            /\ tmp' = tmp \cup {<<w, "data">>}
       ELSE Raise(w, "refused")
    /\ UNCHANGED <<objects, meta, todo, content, seen, lock, calls, returned>>

(* The chunks are written and synced: the size limit, the expected digest   *)
(* and size, and the quota and free space with the new bytes counted in.    *)
EndWrite(w, c, expected, space) ==
    /\ pc[w] = "write"
    /\ IF Size[c] <= Quota /\ expected /\ Fits(Size[c]) /\ space
       THEN pc' = [pc EXCEPT ![w] = "final"] /\ UNCHANGED tmp
       ELSE Raise(w, "refused")
    /\ content' = [content EXCEPT ![w] = c]
    /\ UNCHANGED <<objects, meta, todo, seen, lock, calls, returned>>

\* Reading a chunk raised.
FailWrite(w) ==
    /\ pc[w] = "write" /\ Raise(w, "failed")
    /\ UNCHANGED <<objects, meta, todo, content, seen, lock, calls, returned>>

\* final_path.exists(): the content is known, and the temporary is dropped.
CheckFinal(w) ==
    /\ pc[w] = "final"
    /\ IF content[w] \in objects
       THEN /\ pc' = [pc EXCEPT ![w] = "lock"]
            /\ tmp' = tmp \ {<<w, "data">>}
       ELSE pc' = [pc EXCEPT ![w] = "replace"] /\ UNCHANGED tmp
    /\ UNCHANGED <<objects, meta, todo, content, seen, lock, calls, returned>>

\* os.replace raises when the cleanup of another call took the temporary.
Replace(w) ==
    /\ pc[w] = "replace"
    /\ IF <<w, "data">> \in tmp
       THEN /\ objects' = objects \cup {content[w]}
            /\ pc' = [pc EXCEPT ![w] = "lock"]
            /\ tmp' = tmp \ {<<w, "data">>}
       ELSE Raise(w, "failed") /\ UNCHANGED objects
    /\ UNCHANGED <<meta, todo, content, seen, lock, calls, returned>>

(* Mutant: the metadata is written without its lock. *)
LockFreeAlways == TRUE
LockFree == lock = NoWriter

\* with self._metadata_lock: the existing metadata is read.
TakeLock(w) ==
    /\ pc[w] = "lock" /\ LockFree
    /\ lock' = w
    /\ seen' = [seen EXCEPT ![w] = meta[content[w]]]
    /\ pc' = [pc EXCEPT ![w] = "meta"]
    /\ UNCHANGED <<objects, meta, tmp, todo, content, calls, returned>>

WriteMeta(w) ==
    /\ pc[w] = "meta"
    /\ tmp' = tmp \cup {<<w, "meta">>}
    /\ pc' = [pc EXCEPT ![w] = "publish"]
    /\ UNCHANGED <<objects, meta, todo, content, seen, lock, calls, returned>>

\* The new metadata replaces the old, unless its temporary was cleaned away.
PublishMeta(w) ==
    /\ pc[w] = "publish"
    /\ IF <<w, "meta">> \in tmp
       THEN /\ meta' = [meta EXCEPT ![content[w]] = seen[w] \cup {Ref(w)}]
            /\ returned' = returned \cup {<<Ref(w), content[w]>>}
            /\ pc' = [pc EXCEPT ![w] = "done"]
            /\ tmp' = tmp \ {<<w, "meta">>}
       ELSE Raise(w, "failed") /\ UNCHANGED <<meta, returned>>
    /\ lock' = NoWriter
    /\ UNCHANGED <<objects, todo, content, seen, calls>>

\* The caller has taken the result of the call.
Collect(w) ==
    /\ pc[w] \in {"done", "failed", "refused"}
    /\ pc' = [pc EXCEPT ![w] = "idle"]
    /\ todo' = [todo EXCEPT ![w] = {}]
    /\ content' = [content EXCEPT ![w] = NoContent]
    /\ seen' = [seen EXCEPT ![w] = {}]
    /\ UNCHANGED <<objects, meta, tmp, lock, calls, returned>>

\* The process dies: what the calls held in memory is gone, the files stay.
ScratchCrash ==
    /\ pc' = [w \in Writers |-> "idle"]
    /\ todo' = [w \in Writers |-> {}]
    /\ content' = [w \in Writers |-> NoContent]
    /\ seen' = [w \in Writers |-> {}]
    /\ lock' = NoWriter
    /\ UNCHANGED <<objects, meta, tmp, calls, returned>>

\* The steps of a call that need nothing from its caller.
PutStep(w) ==
    \/ CleanupOne(w) \/ OpenTemp(w)
    \/ CheckFinal(w) \/ Replace(w)
    \/ TakeLock(w) \/ WriteMeta(w) \/ PublishMeta(w)

ScratchNext ==
    \/ \E w \in Writers :
        \/ BeginPut(w) \/ PutStep(w) \/ FailWrite(w) \/ Collect(w)
        \/ \E c \in Contents, expected, space \in BOOLEAN : EndWrite(w, c, expected, space)
    \/ ScratchCrash

ScratchSpec == ScratchInit /\ [][ScratchNext]_scratchVars

-----------------------------------------------------------------------------

(* A call of put_bytes that returned is never undone: its content is in the *)
(* store and its provenance is in the metadata, whatever the other writers, *)
(* their cleanups and a crash do afterwards (scratch_store.py:122-123).     *)
ReturnedIsRecorded ==
    \A r \in returned : r[2] \in objects /\ r[1] \in meta[r[2]]

(* The quota is checked before the move and without a lock                  *)
(* (scratch_store.py:113), so calls that pass it together can overshoot it. *)
(* They do so by at most one object per further writer and one metadata     *)
(* record per writer.                                                       *)
QuotaOvershootBounded ==
    Used <= Quota + (Cardinality(Writers) - 1) * Max({Size[c] : c \in Contents})
                  + Cardinality(Writers) * RecordBytes

(* The store implements ContentStore: its objects are the contents held and *)
(* its metadata the references to them.                                     *)
Store == INSTANCE ContentStore WITH stored <- objects, refs <- meta
ImplementsContentStore == Store!StoreSpec

(* What makes them inductive.                                               *)
ScratchTypeOK ==
    /\ objects \subseteq Contents /\ meta \in [Contents -> SUBSET Refs]
    /\ tmp \subseteq TempFiles /\ todo \in [Writers -> SUBSET TempFiles]
    /\ pc \in [Writers -> Steps] /\ content \in [Writers -> Contents \cup {NoContent}]
    /\ seen \in [Writers -> SUBSET Refs] /\ lock \in Writers \cup {NoWriter}
    /\ calls \in [Writers -> Nat] /\ returned \subseteq Refs \X Contents

\* The metadata lock is held from the reading of the metadata to its publication,
\* and what was read is still what is there.
LockKept ==
    \A w \in Writers :
        /\ pc[w] \in {"meta", "publish"} <=> lock = w
        /\ pc[w] \in {"meta", "publish"} => seen[w] = meta[content[w]]

\* A call past its writing has a content, and past the move the store has it.
CallsInHand ==
    \A w \in Writers :
        /\ calls[w] <= MaxPuts[w] /\ (pc[w] # "idle" => calls[w] >= 1)
        /\ pc[w] \in {"final", "replace"} => content[w] \in Contents
        /\ pc[w] \in {"lock", "meta", "publish"} => content[w] \in objects

ScratchInv == ScratchTypeOK /\ LockKept /\ CallsInHand /\ ReturnedIsRecorded

\* Writers that passed the quota check and have still to move their object, the bytes
\* they will add, and writers that have still to publish a record.
Moving == {w \in Writers : pc[w] \in {"final", "replace"}}
MovingBytes == UNION {{w} \X (1 .. Size[content[w]]) : w \in Moving}
Recording == Moving \cup {w \in Writers : pc[w] \in {"lock", "meta", "publish"}}

\* What is used and what is already on its way together overshoot no further.
OvershootAccounted ==
    /\ IsFiniteSet(ObjectBytes) /\ IsFiniteSet(Records)
    /\ Used + Cardinality(MovingBytes) + RecordBytes * Cardinality(Recording)
          <= Quota + (Cardinality(Writers) - 1) * Max({Size[c] : c \in Contents})
                   + Cardinality(Writers) * RecordBytes
=============================================================================
