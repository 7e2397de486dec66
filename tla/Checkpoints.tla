----------------------------- MODULE Checkpoints -----------------------------
(***************************************************************************)
(* The checkpoints table: shared/checkpoints.py (checkpoints bound to a    *)
(* source fingerprint) and shared/media_checkpoints.py (bound to a medium  *)
(* identity) share it.  A save is one BEGIN IMMEDIATE transaction, so it   *)
(* is atomic, and rolls back as a whole when any statement fails.          *)
(***************************************************************************)
EXTENDS Naturals

CONSTANTS
    CheckpointIds,  \* checkpoint_id values; numbers, ordered as the text is
    Slots,          \* <<job_id, stage>> pairs
    Sources,        \* source fingerprints
    Media,          \* medium identity keys
    Tools,          \* <<tool_name, tool_version>> pairs
    Cursors,        \* contents of cursor, counters and blob
    Times,          \* created_at values the callers pass
    Null

ASSUME IdsAssumption == CheckpointIds \subseteq Nat /\ Times \subseteq Nat
ASSUME NullAssumption ==
    Null \notin CheckpointIds /\ Null \notin Media /\ Null \notin Slots
ASSUME DisjointAssumption == Sources \cap Media = {}

VARIABLES
    rows,       \* the table; an id that is not in it maps to Null
    committed   \* per slot, the id whose save committed last: for the properties

ckptVars == <<rows, committed>>

Present == {i \in CheckpointIds : rows[i] # Null}

(* Mutant: the stage is missing from the WHERE clause. *)
LiveAnySlot(slot) == {i \in Present : rows[i].superseded_by = Null}

(* WHERE job_id = ? AND stage = ? AND superseded_by_checkpoint_id IS NULL *)
Live(slot) == {i \in Present : rows[i].slot = slot /\ rows[i].superseded_by = Null}

(* ORDER BY created_at DESC, checkpoint_id DESC LIMIT 1 *)
Newer(i, k) ==
    \/ rows[i].created > rows[k].created
    \/ rows[i].created = rows[k].created /\ i >= k

latest_checkpoint_id(slot) ==
    IF Live(slot) = {} THEN Null
    ELSE CHOOSE i \in Live(slot) : \A k \in Live(slot) : Newer(i, k)

(* The UPDATE of the previous row that ends the transaction. *)
Supersede(row, id) == [row EXCEPT !.superseded_by = id]

Insert(id, row) ==
    LET previous == latest_checkpoint_id(row.slot)
    IN  [i \in CheckpointIds |->
           IF i = id THEN [row EXCEPT !.supersedes = previous]
           ELSE IF i = previous THEN Supersede(rows[i], id)
           ELSE rows[i]]

(* save_checkpoint; "valid" stands for a supported checkpoint_version.  With  *)
(* a checkpoint_id that is already in the table the transaction rolls back.   *)
NewRow(slot, key, medium, tool, cursor, valid, created) ==
    [slot |-> slot, key |-> key, medium |-> medium, tool |-> tool, cursor |-> cursor,
     valid |-> valid, supersedes |-> Null, superseded_by |-> Null, created |-> created]

save_checkpoint(id, slot, fingerprint, tool, cursor, valid, created) ==
    /\ rows[id] = Null
    /\ rows' = Insert(id, NewRow(slot, fingerprint, Null, tool, cursor, valid, created))
    /\ committed' = [committed EXCEPT ![slot] = id]

(* save_medium_checkpoint: the key column holds the medium identity key. *)
save_medium_checkpoint(id, slot, medium, tool, cursor, created) ==
    /\ rows[id] = Null
    /\ rows' = Insert(id, NewRow(slot, medium, medium, tool, cursor, TRUE, created))
    /\ committed' = [committed EXCEPT ![slot] = id]

(* A stored row goes bad: its JSON no longer parses or its integrity hash no *)
(* longer matches.                                                           *)
Corrupt(id) ==
    /\ rows[id] # Null
    /\ rows' = [rows EXCEPT ![id] = [@ EXCEPT !.valid = FALSE]]
    /\ UNCHANGED committed

(* load_latest_checkpoint: the record, or Null for any CheckpointError; all  *)
(* of those ask for the stage to be restarted.                               *)
load_latest_checkpoint(slot, fingerprint, tool) ==
    LET i == latest_checkpoint_id(slot)
    IN  IF /\ i # Null /\ rows[i].valid
           /\ rows[i].key = fingerprint /\ rows[i].tool = tool
        THEN rows[i] ELSE Null

(* load_medium_checkpoint: eligible only with the same medium identity.      *)
load_medium_checkpoint(slot, medium, tool) ==
    LET i == latest_checkpoint_id(slot)
    IN  IF /\ i # Null /\ rows[i].medium = medium
           /\ rows[i].valid /\ rows[i].tool = tool
        THEN rows[i] ELSE Null

CkptInit ==
    /\ rows = [i \in CheckpointIds |-> Null]
    /\ committed = [slot \in Slots |-> Null]

CkptNext ==
    \E id \in CheckpointIds :
        \/ Corrupt(id)
        \/ \E slot \in Slots, tool \in Tools, cursor \in Cursors, created \in Times :
              \/ \E f \in Sources, valid \in BOOLEAN :
                    save_checkpoint(id, slot, f, tool, cursor, valid, created)
              \/ \E m \in Media :
                    save_medium_checkpoint(id, slot, m, tool, cursor, created)

CkptSpec == CkptInit /\ [][CkptNext]_ckptVars

-----------------------------------------------------------------------------
RowType ==
    [slot: Slots, key: Sources \cup Media, medium: Media \cup {Null}, tool: Tools,
     cursor: Cursors, valid: BOOLEAN, supersedes: CheckpointIds \cup {Null},
     superseded_by: CheckpointIds \cup {Null}, created: Times]

ASSUME NullIsNoRow == Null \notin RowType

(* Every stored checkpoint has the columns the schema gives it. *)
CkptTypeOK ==
    /\ rows \in [CheckpointIds -> RowType \cup {Null}]
    /\ committed \in [Slots -> CheckpointIds \cup {Null}]

(* The latest checkpoint of a slot is the one whose save committed last,     *)
(* whatever created_at values the savers passed (clocks that ran backwards,  *)
(* equal seconds) and whichever of the two modules saved it; every earlier   *)
(* one is superseded.                                                        *)
LatestIsLastCommit ==
    \A slot \in Slots :
        Live(slot) = IF committed[slot] = Null THEN {} ELSE {committed[slot]}

(* The supersession links are one chain per slot: a row's superseded_by is   *)
(* the row of the same slot that names it in supersedes, and the reverse.    *)
ChainLinked ==
    \A i, k \in Present :
        /\ rows[i].superseded_by = k => rows[k].supersedes = i
        /\ rows[k].supersedes = i => rows[i].superseded_by = k
        /\ rows[i].superseded_by = k => rows[i].slot = rows[k].slot

(* A restart finds the last checkpoint, and every earlier one through it     *)
(* (checkpoints.py:48-170, media_checkpoints.py:99-230).                     *)
CheckpointsSound == LatestIsLastCommit /\ ChainLinked

(* What ChainLinked needs to be inductive: no link dangles. *)
LinksPresent ==
    \A i \in Present :
        /\ rows[i].supersedes \in Present \cup {Null}
        /\ rows[i].superseded_by \in Present \cup {Null}

CkptInv == CkptTypeOK /\ LatestIsLastCommit /\ ChainLinked /\ LinksPresent
=============================================================================
