----------------------------- MODULE ScanProofs -----------------------------
(***************************************************************************)
(* Proofs about Checkpoints and ScanPipeline.  The checkpoints table keeps, *)
(* per job and stage, one live row, the one saved last, and a chain of     *)
(* superseded ones, for any set of ids, slots, sources, media and clocks.  *)
(* On top of it a scan, with any units, budgets, faults and tools, never   *)
(* skips work, runs its stages in order and within the budget, keeps what  *)
(* a pause acknowledged, and never runs a completed stage again.           *)
(***************************************************************************)
EXTENDS ScanPipeline, FiniteSetTheorems, WellFoundedInduction, NaturalsInduction, TLAPS

(* With one live row per slot, the ORDER BY of _latest_checkpoint_id does not *)
(* matter: it finds the row whose save committed last.                        *)
LEMMA LatestIsCommitted ==
    ASSUME CkptTypeOK, LatestIsLastCommit, NEW slot \in Slots
    PROVE  latest_checkpoint_id(slot) = committed[slot]
<1>1. CASE committed[slot] = Null
  BY <1>1 DEF latest_checkpoint_id, LatestIsLastCommit
<1>2. CASE committed[slot] # Null
  <2> DEFINE c == committed[slot]
  <2>1. Live(slot) = {c}
    BY <1>2 DEF LatestIsLastCommit
  <2>2. c \in Present
    BY <2>1 DEF Live
  <2>3. rows[c] \in RowType /\ c \in Nat
    BY <2>2, IdsAssumption, NullIsNoRow DEF Present, CkptTypeOK
  <2>4. rows[c].created \in Nat
    BY <2>3, IdsAssumption DEF RowType
  <2>5. Newer(c, c)
    BY <2>3, <2>4 DEF Newer
  <2>6. latest_checkpoint_id(slot) = CHOOSE i \in {c} : \A k \in {c} : Newer(i, k)
    BY <2>1 DEF latest_checkpoint_id
  <2> QED
    BY <2>5, <2>6
<1> QED
  BY <1>1, <1>2

(* A committed save_checkpoint or save_medium_checkpoint keeps the table in   *)
(* order, whatever the row it inserts holds.                                  *)
LEMMA InsertKeepsInv ==
    ASSUME CkptInv,
           NEW id \in CheckpointIds, rows[id] = Null,
           NEW row \in RowType, row.supersedes = Null, row.superseded_by = Null,
           rows' = Insert(id, row),
           committed' = [committed EXCEPT ![row.slot] = id]
    PROVE  CkptInv'
<1> DEFINE slot == row.slot
           c == committed[slot]
           new == [row EXCEPT !.supersedes = c]
           old == [rows[c] EXCEPT !.superseded_by = id]
<1> USE DEF CkptInv
<1>1. slot \in Slots /\ c \in CheckpointIds \cup {Null}
  BY DEF RowType, CkptTypeOK
<1>2. rows' = [i \in CheckpointIds |-> IF i = id THEN new
                                       ELSE IF i = c THEN old ELSE rows[i]]
  BY <1>1, LatestIsCommitted DEF Insert, Supersede
<1>3. new \in RowType /\ new # Null
  BY <1>1, NullIsNoRow DEF RowType
<1>4. /\ new.supersedes = c /\ new.superseded_by = Null /\ new.slot = slot
  BY <1>1 DEF RowType
<1>5. ASSUME c # Null
      PROVE  /\ c \in Present /\ rows[c] \in RowType /\ c # id
             /\ rows[c].slot = slot /\ rows[c].superseded_by = Null
             /\ old \in RowType /\ old # Null
             /\ old.superseded_by = id /\ old.slot = slot
             /\ old.supersedes = rows[c].supersedes
  <2>1. c \in Live(slot)
    BY <1>1, <1>5 DEF LatestIsLastCommit
  <2>2. rows[c] \in RowType
    BY <2>1 DEF Live, Present, CkptTypeOK
  <2>3. old \in RowType /\ old # Null
    BY <2>2, NullIsNoRow DEF RowType
  <2> QED
    BY <2>1, <2>2, <2>3 DEF Live, Present, RowType
<1>6. Present' = Present \cup {id}
  BY <1>2, <1>3, <1>5, NullAssumption DEF Present
<1>7. \A i \in Present : rows[i] \in RowType /\ i \in CheckpointIds /\ i # id
  BY DEF Present, CkptTypeOK
<1>8. /\ rows'[id] = new
      /\ c # Null => rows'[c] = old
      /\ \A i \in Present : i # c => rows'[i] = rows[i]
  BY <1>2, <1>5, <1>7 DEF Present
<1>9. CkptTypeOK'
  <2>1. rows' \in [CheckpointIds -> RowType \cup {Null}]
    BY <1>2, <1>3, <1>5, NullAssumption DEF CkptTypeOK
  <2> QED
    BY <2>1, <1>1 DEF CkptTypeOK
<1>10. committed'[slot] = id /\ \A o \in Slots : o # slot => committed'[o] = committed[o]
  BY <1>1 DEF CkptTypeOK
<1>11. /\ id \notin Present /\ id # Null
       /\ c # Null => c \in Present /\ rows[c].slot = slot /\ rows[c].superseded_by = Null
       /\ \A i \in Present : i # Null
  BY <1>5, <1>7, NullAssumption
<1>12. /\ rows'[id].supersedes = c /\ rows'[id].superseded_by = Null
       /\ rows'[id].slot = slot
       /\ \A i \in Present :
             /\ rows'[i].slot = rows[i].slot /\ rows'[i].supersedes = rows[i].supersedes
             /\ i # c => rows'[i].superseded_by = rows[i].superseded_by
       /\ c # Null => rows'[c].superseded_by = id
  BY <1>4, <1>5, <1>8, <1>11
<1>13. \A o \in Slots : Live(o) = IF committed[o] = Null THEN {} ELSE {committed[o]}
  BY DEF LatestIsLastCommit
<1>14. Live(slot) = IF c = Null THEN {} ELSE {c}
  BY <1>1, <1>13
<1> HIDE DEF new, old, c, slot
<1>15. LatestIsLastCommit'
  <2> SUFFICES ASSUME NEW o \in Slots
               PROVE  Live(o)' = IF committed'[o] = Null THEN {} ELSE {committed'[o]}
    BY DEF LatestIsLastCommit
  <2>1. CASE o = slot
    <3>1. \A i \in Present : i \in Live(slot)' => FALSE
      BY <1>11, <1>12, <1>14 DEF Live
    <3>2. id \in Live(slot)'
      BY <1>6, <1>12 DEF Live
    <3> QED
      BY <2>1, <3>1, <3>2, <1>6, <1>10, <1>11 DEF Live
  <2>2. CASE o # slot
    <3>1. \A i \in Present : i \in Live(o)' <=> i \in Live(o)
      BY <2>2, <1>6, <1>11, <1>12 DEF Live
    <3>2. id \notin Live(o)'
      BY <2>2, <1>12 DEF Live
    <3>3. Live(o)' = Live(o)
      BY <3>1, <3>2, <1>6 DEF Live
    <3> QED
      BY <2>2, <3>3, <1>10, <1>13
  <2> QED
    BY <2>1, <2>2
<1>16. LinksPresent'
  <2>1. \A i \in Present : rows'[i].supersedes \in Present' \cup {Null}
    BY <1>6, <1>12 DEF LinksPresent
  <2>2. \A i \in Present : rows'[i].superseded_by \in Present' \cup {Null}
    BY <1>6, <1>11, <1>12 DEF LinksPresent
  <2>3. /\ rows'[id].supersedes \in Present' \cup {Null}
        /\ rows'[id].superseded_by \in Present' \cup {Null}
    BY <1>6, <1>11, <1>12
  <2> QED
    BY <2>1, <2>2, <2>3, <1>6 DEF LinksPresent
<1>17. ChainLinked'
  <2> SUFFICES ASSUME NEW i \in Present', NEW k \in Present'
               PROVE  /\ rows'[i].superseded_by = k => rows'[k].supersedes = i
                      /\ rows'[k].supersedes = i => rows'[i].superseded_by = k
                      /\ rows'[i].superseded_by = k => rows'[i].slot = rows'[k].slot
    BY DEF ChainLinked
  <2>1. CASE i = id /\ k = id
    BY <2>1, <1>11, <1>12
  <2>2. CASE i = id /\ k \in Present
    BY <2>2, <1>11, <1>12 DEF LinksPresent
  <2>3. CASE i \in Present /\ k = id
    BY <2>3, <1>11, <1>12 DEF LinksPresent
  <2>4. CASE i \in Present /\ k \in Present
    BY <2>4, <1>11, <1>12 DEF ChainLinked
  <2> QED
    BY <2>1, <2>2, <2>3, <2>4, <1>6
<1> QED
  BY <1>9, <1>15, <1>16, <1>17

(* A row that goes bad on disk changes no link. *)
LEMMA CorruptKeepsInv ==
    ASSUME CkptInv, NEW id \in CheckpointIds, Corrupt(id)
    PROVE  CkptInv'
<1> USE DEF CkptInv
<1>1. rows[id] \in RowType
  BY DEF Corrupt, CkptTypeOK
<1> DEFINE bad == [rows[id] EXCEPT !.valid = FALSE]
<1>2. /\ bad \in RowType /\ bad # Null
      /\ bad.slot = rows[id].slot /\ bad.supersedes = rows[id].supersedes
      /\ bad.superseded_by = rows[id].superseded_by
  BY <1>1, NullIsNoRow DEF RowType
<1>3. rows' = [rows EXCEPT ![id] = bad] /\ committed' = committed
  BY DEF Corrupt
<1>4. Present' = Present
  BY <1>2, <1>3 DEF Present, Corrupt, CkptTypeOK
<1>5. \A i \in Present : /\ rows'[i].slot = rows[i].slot
                         /\ rows'[i].supersedes = rows[i].supersedes
                         /\ rows'[i].superseded_by = rows[i].superseded_by
  BY <1>2, <1>3 DEF Present, CkptTypeOK
<1>6. CkptTypeOK'
  BY <1>2, <1>3 DEF CkptTypeOK
<1>7. LatestIsLastCommit'
  <2>1. \A slot \in Slots : Live(slot)' = Live(slot)
    BY <1>4, <1>5 DEF Live
  <2> QED
    BY <2>1, <1>3 DEF LatestIsLastCommit
<1>8. ChainLinked' /\ LinksPresent'
  BY <1>4, <1>5 DEF ChainLinked, LinksPresent
<1> QED
  BY <1>6, <1>7, <1>8

(* Every save and every corruption keeps the invariant. *)
LEMMA StepKeepsInv == CkptInv /\ [CkptNext]_ckptVars => CkptInv'
<1> SUFFICES ASSUME CkptInv, [CkptNext]_ckptVars PROVE CkptInv'
  OBVIOUS
<1>1. ASSUME NEW id \in CheckpointIds, Corrupt(id) PROVE CkptInv'
  BY <1>1, CorruptKeepsInv
<1>2. ASSUME NEW id \in CheckpointIds, NEW slot \in Slots, NEW f \in Sources,
             NEW t \in Tools, NEW cursor \in Cursors, NEW valid \in BOOLEAN,
             NEW created \in Times,
             save_checkpoint(id, slot, f, t, cursor, valid, created)
      PROVE  CkptInv'
  <2> DEFINE row == NewRow(slot, f, Null, t, cursor, valid, created)
  <2>1. /\ row \in RowType /\ row.slot = slot
        /\ row.supersedes = Null /\ row.superseded_by = Null
    BY DEF NewRow, RowType
  <2>2. /\ rows[id] = Null /\ rows' = Insert(id, row)
        /\ committed' = [committed EXCEPT ![row.slot] = id]
    BY <1>2, <2>1 DEF save_checkpoint
  <2> HIDE DEF row
  <2> QED
    BY <2>1, <2>2, InsertKeepsInv
<1>3. ASSUME NEW id \in CheckpointIds, NEW slot \in Slots, NEW m \in Media,
             NEW t \in Tools, NEW cursor \in Cursors, NEW created \in Times,
             save_medium_checkpoint(id, slot, m, t, cursor, created)
      PROVE  CkptInv'
  <2> DEFINE row == NewRow(slot, m, m, t, cursor, TRUE, created)
  <2>1. /\ row \in RowType /\ row.slot = slot
        /\ row.supersedes = Null /\ row.superseded_by = Null
    BY DEF NewRow, RowType
  <2>2. /\ rows[id] = Null /\ rows' = Insert(id, row)
        /\ committed' = [committed EXCEPT ![row.slot] = id]
    BY <1>3, <2>1 DEF save_medium_checkpoint
  <2> HIDE DEF row
  <2> QED
    BY <2>1, <2>2, InsertKeepsInv
<1>4. CASE UNCHANGED ckptVars
  BY <1>4 DEF ckptVars, CkptInv, CkptTypeOK, LatestIsLastCommit, ChainLinked,
              LinksPresent, Live, Present
<1> QED
  BY <1>1, <1>2, <1>3, <1>4 DEF CkptNext

(* The empty table satisfies it. *)
LEMMA CkptInitInv == CkptInit => CkptInv
BY NullAssumption
   DEF CkptInit, CkptInv, CkptTypeOK, LatestIsLastCommit, ChainLinked, LinksPresent,
       Live, Present

(* The inductive invariant: the three properties below, and no dangling link. *)
THEOREM CheckpointInvariant == CkptSpec => []CkptInv
BY CkptInitInv, StepKeepsInv, PTL DEF CkptSpec

(* Every row of the checkpoints table is well formed (shared/checkpoints.py  *)
(* and shared/media_checkpoints.py).                                         *)
THEOREM CheckpointsTyped == CkptSpec => []CkptTypeOK
BY CheckpointInvariant, PTL DEF CkptInv

(* The checkpoint a restart finds is the last one that committed, whatever   *)
(* clocks the savers read (_latest_checkpoint_id, load_latest_checkpoint).   *)
THEOREM LatestIsTheLastCommit == CkptSpec => []LatestIsLastCommit
BY CheckpointInvariant, PTL DEF CkptInv

(* The supersession links form one chain per job and stage.                  *)
THEOREM SupersessionIsAChain == CkptSpec => []ChainLinked
BY CheckpointInvariant, PTL DEF CkptInv

(* What a restart loads is the last commit, and the rows form one chain      *)
(* (shared/checkpoints.py).                                                  *)
THEOREM CheckpointsAreSound == CkptSpec => []CheckpointsSound
BY LatestIsTheLastCommit, SupersessionIsAChain, PTL DEF CheckpointsSound

-----------------------------------------------------------------------------
(* The stage graph and the planning functions. *)

\* The seven stages (scheduler.py STAGES).
LEMMA StagesAre ==
    STAGES = {"validation", "volumes", "enumeration", "artifacts", "enrichment", "carving",
              "finalization"}
  BY DEF STAGES, Dependencies

\* There are finitely many of them.
LEMMA StagesFinite == IsFiniteSet(STAGES)
<1> DEFINE a == {"validation"}
           b == a \cup {"volumes"}
           c == b \cup {"enumeration"}
           d == c \cup {"artifacts"}
           e == d \cup {"enrichment"}
           f == e \cup {"carving"}
           g == f \cup {"finalization"}
<1>1. IsFiniteSet(a)
  BY FS_Singleton
<1>2. IsFiniteSet(b)
  BY <1>1, FS_AddElement
<1>3. IsFiniteSet(c)
  BY <1>2, FS_AddElement
<1>4. IsFiniteSet(d)
  BY <1>3, FS_AddElement
<1>5. IsFiniteSet(e)
  BY <1>4, FS_AddElement
<1>6. IsFiniteSet(f)
  BY <1>5, FS_AddElement
<1>7. IsFiniteSet(g)
  BY <1>6, FS_AddElement
<1>8. STAGES = g
  BY StagesAre
<1> QED
  BY <1>7, <1>8

(* Which stages each stage builds on.                                       *)
LEMMA DependenciesAre ==
    /\ Dependencies["validation"] = {}
    /\ Dependencies["volumes"] = {"validation"}
    /\ Dependencies["enumeration"] = {"volumes"}
    /\ Dependencies["artifacts"] = {"enumeration"}
    /\ Dependencies["enrichment"] = {"artifacts"}
    /\ Dependencies["carving"] = {"validation", "volumes", "enumeration"}
    /\ Dependencies["finalization"] = {"enumeration", "artifacts", "enrichment", "carving"}
    /\ \A s \in STAGES : Dependencies[s] \subseteq STAGES
  BY StagesAre DEF Dependencies

(* What failing a stage may do to the statuses (apply_stage_failure).       *)
FailureMoves(old, new, stage) ==
    /\ new \in [STAGES -> StageStatuses]
    /\ new[stage] = "failed"
    /\ \A s \in STAGES \ {stage} :
          \/ new[s] = old[s]
          \/ old[s] = "pending" /\ new[s] = "failed"
          \/ old[s] = "pending" /\ new[s] = "skipped" /\ s = "enrichment"

(* A pending stage fails with a mandatory dependency, and only enrichment,  *)
(* whose one dependency is optional, is skipped (scheduler.py:140-160).     *)
LEMMA PropagateMoves ==
    ASSUME NEW old \in [STAGES -> StageStatuses], NEW stage \in STAGES, NEW mid,
           NEW s \in STAGES, FailureMoves(old, mid, stage)
    PROVE  FailureMoves(old, Propagate(mid, s), stage)
<1>1. PICK c : c = Consequence(mid, s)
  OBVIOUS
<1>2. c \in {"failed", "skipped", "pending"} /\ (c = "skipped" => s = "enrichment")
  <2>1. c \in {"failed", "skipped", "pending"}
    BY <1>1 DEF Consequence
  <2>2. ASSUME c = "skipped" PROVE s = "enrichment"
    <3>1. /\ FailedDependencies(mid, s) \cap Mandatory = {}
          /\ s # "finalization" /\ FailedDependencies(mid, s) # {}
      BY <1>1, <2>2 DEF Consequence
    <3>2. PICK d \in Dependencies[s] : d \notin Mandatory
      BY <3>1 DEF FailedDependencies
    <3> QED
      BY <3>1, <3>2, StagesAre, DependenciesAre DEF Mandatory
  <2> QED
    BY <2>1, <2>2
<1>3. CASE mid[s] # "pending"
  <2>1. Propagate(mid, s) = mid
    BY <1>3 DEF Propagate
  <2> QED
    BY <2>1
<1>4. CASE mid[s] = "pending"
  <2>1. Propagate(mid, s) = [mid EXCEPT ![s] = c]
    BY <1>1, <1>4 DEF Propagate
  <2>2. FailureMoves(old, [mid EXCEPT ![s] = c], stage)
    BY <1>2, <1>4 DEF FailureMoves, StageStatuses
  <2> QED
    BY <2>1, <2>2
<1> QED
  BY <1>3, <1>4

\* stage_order lists stages.
LEMMA StageOrderIn == \A k \in 1..7 : stage_order[k] \in STAGES
  BY StagesAre DEF stage_order

\* What apply_stage_failure may do to a status, and to no other.
LEMMA FailureIsMoves ==
    ASSUME NEW old \in [STAGES -> StageStatuses], NEW stage \in STAGES
    PROVE  FailureMoves(old, apply_stage_failure(old, stage), stage)
<1> DEFINE s0 == [old EXCEPT ![stage] = "failed"]
           s1 == Propagate(s0, stage_order[1])
           s2 == Propagate(s1, stage_order[2])
           s3 == Propagate(s2, stage_order[3])
           s4 == Propagate(s3, stage_order[4])
           s5 == Propagate(s4, stage_order[5])
           s6 == Propagate(s5, stage_order[6])
           s7 == Propagate(s6, stage_order[7])
<1>0. FailureMoves(old, s0, stage)
  BY DEF FailureMoves, StageStatuses
<1>a. apply_stage_failure(old, stage) = s7
  BY DEF apply_stage_failure
<1> HIDE DEF s0
<1>1. FailureMoves(old, s1, stage)
  BY <1>0, StageOrderIn, PropagateMoves
<1> HIDE DEF s1
<1>2. FailureMoves(old, s2, stage)
  BY <1>1, StageOrderIn, PropagateMoves
<1> HIDE DEF s2
<1>3. FailureMoves(old, s3, stage)
  BY <1>2, StageOrderIn, PropagateMoves
<1> HIDE DEF s3
<1>4. FailureMoves(old, s4, stage)
  BY <1>3, StageOrderIn, PropagateMoves
<1> HIDE DEF s4
<1>5. FailureMoves(old, s5, stage)
  BY <1>4, StageOrderIn, PropagateMoves
<1> HIDE DEF s5
<1>6. FailureMoves(old, s6, stage)
  BY <1>5, StageOrderIn, PropagateMoves
<1> HIDE DEF s6
<1>7. FailureMoves(old, s7, stage)
  BY <1>6, StageOrderIn, PropagateMoves
<1> QED
  BY <1>7, <1>a

(* A stage that is planned is ready, and there is room for it in the budget *)
(* (runnable_stages).                                                       *)
LEMMA RunnableFits ==
    ASSUME NEW st \in [STAGES -> StageStatuses], NEW cf \in Configs,
           NEW s \in runnable_stages(st, cf)
    PROVE  /\ s \in STAGES /\ Enabled(s, cf) /\ DependenciesSatisfied(s, st, cf)
           /\ ActiveIo(st) \in Nat /\ ActiveIo(st) + 1 <= cf.max_io_cost
<1> DEFINE upTo == {r \in Ready(st, cf) : NotAfter(r, s)}
<1>1. s \in Ready(st, cf) /\ ActiveIo(st) + Cardinality(upTo) <= cf.max_io_cost
  BY DEF runnable_stages
<1>2. s \in STAGES /\ Enabled(s, cf) /\ DependenciesSatisfied(s, st, cf)
  BY <1>1 DEF Ready
<1>3. NotAfter(s, s)
  <2>1. \E i \in 1..7 : stage_order[i] = s
    BY <1>2, StagesAre DEF stage_order
  <2>2. DOMAIN stage_order = 1..7
    BY DEF stage_order
  <2> QED
    BY <2>1, <2>2 DEF NotAfter
<1>4. s \in upTo
  BY <1>1, <1>3
<1>5. upTo \subseteq STAGES /\ IsFiniteSet(upTo)
  BY StagesFinite, FS_Subset DEF Ready
<1> HIDE DEF upTo
<1>6. Cardinality(upTo) \in Nat /\ Cardinality(upTo) # 0
  BY <1>4, <1>5, FS_CardinalityType, FS_EmptySet
<1>7. ActiveIo(st) \in Nat
  BY StagesFinite, FS_Subset, FS_CardinalityType DEF ActiveIo
<1>8. cf.max_io_cost \in Nat
  BY DEF Configs
<1> QED
  BY <1>1, <1>2, <1>6, <1>7, <1>8

-----------------------------------------------------------------------------
(* The checkpoints of a scan. *)

(* A non-empty set of natural numbers has a least element. *)
LEMMA LeastOf ==
    ASSUME NEW T \in SUBSET Nat, T # {}
    PROVE  \E x \in T : \A y \in T : x <= y
<1> DEFINE R == OpToRel(<, Nat)
<1>1. \A x, y \in Nat : x < y => <<x, y>> \in R
  BY Zenon DEF OpToRel
<1>2. IsWellFoundedOn(R, Nat)
  BY NatLessThanWellFounded
<1> HIDE DEF R
<1>3. PICK x \in T : \A y \in T : ~(<<y, x>> \in R)
  BY <1>2, WFMin
<1>4. \A y \in T : ~(y < x)
  BY <1>1, <1>3, Zenon
<1> QED
  BY <1>4

\* A save takes an id that no row has.
LEMMA FreeIdIsFree ==
    ASSUME Present # CheckpointIds PROVE FreeId \in CheckpointIds /\ rows[FreeId] = Null
<1>1. PICK i \in CheckpointIds \ Present : \A k \in CheckpointIds \ Present : i <= k
  <2>1. CheckpointIds \ Present \in SUBSET Nat /\ CheckpointIds \ Present # {}
    BY IdsAssumption DEF Present
  <2> QED
    BY <2>1, LeastOf
<1>2. FreeId \in CheckpointIds \ Present
  BY <1>1, Zenon DEF FreeId
<1> QED
  BY <1>2 DEF Present

(* The columns that say what work a row stands for.                         *)
RowKept(i) ==
    /\ rows'[i].slot = rows[i].slot /\ rows'[i].key = rows[i].key
    /\ rows'[i].tool = rows[i].tool /\ rows'[i].cursor = rows[i].cursor

(* A save adds its row, whose columns are as given, and leaves what the     *)
(* other rows stand for (shared/checkpoints.py:48-110).                     *)
LEMMA SaveAdds ==
    ASSUME CkptInv, NEW id \in CheckpointIds, NEW s \in Slots, NEW f \in Sources,
           NEW t \in Tools, NEW c \in Cursors, NEW created \in Times,
           save_checkpoint(id, s, f, t, c, TRUE, created)
    PROVE  /\ CkptInv' /\ Present' = Present \cup {id} /\ id \notin Present
           /\ \A i \in Present : RowKept(i)
           /\ rows'[id].slot = s /\ rows'[id].key = f /\ rows'[id].tool = t
           /\ rows'[id].cursor = c
           /\ committed' = [committed EXCEPT ![s] = id]
<1> DEFINE row == NewRow(s, f, Null, t, c, TRUE, created)
           previous == latest_checkpoint_id(s)
<1>1. CkptInv'
  <2>1. CkptNext
    BY DEF CkptNext
  <2> QED
    BY <2>1, StepKeepsInv
<1>2. /\ row.slot = s /\ row.key = f /\ row.tool = t /\ row.cursor = c
      /\ row \in RowType
  BY DEF NewRow, RowType
<1>3. rows[id] = Null /\ rows' = Insert(id, row) /\ committed' = [committed EXCEPT ![s] = id]
  BY DEF save_checkpoint
<1>4. rows' = [i \in CheckpointIds |->
                 IF i = id THEN [row EXCEPT !.supersedes = previous]
                 ELSE IF i = previous THEN [rows[i] EXCEPT !.superseded_by = id]
                 ELSE rows[i]]
  BY <1>2, <1>3 DEF Insert, Supersede
<1> HIDE DEF row, previous
<1>5. \A i \in Present : i \in CheckpointIds /\ rows[i] \in RowType /\ i # id
  BY <1>3 DEF CkptInv, CkptTypeOK, Present
<1>6. /\ rows'[id] = [row EXCEPT !.supersedes = previous]
      /\ \A i \in CheckpointIds : i # id =>
            \/ rows'[i] = rows[i]
            \/ rows'[i] = [rows[i] EXCEPT !.superseded_by = id] /\ i = previous
  BY <1>4
<1>7. rows'[id] \in RowType \cup {Null}
  BY <1>1 DEF CkptInv, CkptTypeOK
<1>8. /\ rows'[id].slot = s /\ rows'[id].key = f /\ rows'[id].tool = t /\ rows'[id].cursor = c
  <2>1. \A p : /\ [row EXCEPT !.supersedes = p].slot = row.slot
               /\ [row EXCEPT !.supersedes = p].key = row.key
               /\ [row EXCEPT !.supersedes = p].tool = row.tool
               /\ [row EXCEPT !.supersedes = p].cursor = row.cursor
    BY <1>2 DEF RowType
  <2> QED
    BY <1>2, <1>6, <2>1
<1>9. \A i \in Present : RowKept(i)
  <2> SUFFICES ASSUME NEW i \in Present PROVE RowKept(i)
    OBVIOUS
  <2>1. rows[i] \in RowType /\ i \in CheckpointIds /\ i # id
    BY <1>5
  <2>2. PICK o : o = [rows[i] EXCEPT !.superseded_by = id]
    OBVIOUS
  <2>3. o.slot = rows[i].slot /\ o.key = rows[i].key /\ o.tool = rows[i].tool
        /\ o.cursor = rows[i].cursor
    BY <2>1, <2>2 DEF RowType
  <2>4. rows'[i] = rows[i] \/ rows'[i] = o
    BY <1>6, <2>1, <2>2
  <2> QED
    BY <2>3, <2>4 DEF RowKept
<1>10. Present' = Present \cup {id}
  <2>1. previous \in Present \cup {Null}
    <3>1. previous = committed[s] /\ (committed[s] # Null => committed[s] \in Live(s))
      BY LatestIsCommitted DEF CkptInv, LatestIsLastCommit, previous
    <3> QED
      BY <3>1 DEF Live
  <2>2. rows'[id] # Null
    <3>1. [row EXCEPT !.supersedes = previous] \in RowType
      BY <1>2, <2>1 DEF RowType, Present
    <3> QED
      BY <1>6, <3>1, NullIsNoRow
  <2>3. \A i \in Present : rows'[i] # Null
    <3>1. \A i \in Present : [rows[i] EXCEPT !.superseded_by = id] \in RowType
      BY <1>5 DEF RowType
    <3> QED
      BY <1>5, <1>6, <3>1, NullIsNoRow, ZenonT(30)
  <2>4. \A i \in CheckpointIds : i # id /\ i \notin Present => rows'[i] = Null
    BY <1>6, <2>1, NullAssumption DEF Present
  <2> QED
    BY <2>2, <2>3, <2>4 DEF Present
<1> QED
  BY <1>1, <1>3, <1>5, <1>8, <1>9, <1>10

(* A row that goes bad stands for the same work.                            *)
LEMMA CorruptKeeps ==
    ASSUME CkptInv, NEW id \in CheckpointIds, Corrupt(id)
    PROVE  CkptInv' /\ Present' = Present /\ committed' = committed
           /\ \A i \in Present : RowKept(i)
<1>1. CkptInv'
  BY CorruptKeepsInv
<1>2. rows[id] \in RowType /\ rows \in [CheckpointIds -> RowType \cup {Null}]
  BY DEF Corrupt, CkptInv, CkptTypeOK
<1>3. rows' = [rows EXCEPT ![id] = [rows[id] EXCEPT !.valid = FALSE]]
  BY DEF Corrupt
<1>4. rows'[id] = [rows[id] EXCEPT !.valid = FALSE]
      /\ \A i \in CheckpointIds : i # id => rows'[i] = rows[i]
  BY <1>2, <1>3
<1>5. [rows[id] EXCEPT !.valid = FALSE] \in RowType
  BY <1>2 DEF RowType
<1>6. Present' = Present
  BY <1>4, <1>5, NullIsNoRow DEF Present, Corrupt
<1>7. \A i \in Present : RowKept(i)
  BY <1>2, <1>4 DEF RowKept, RowType, Present
<1> QED
  BY <1>1, <1>6, <1>7 DEF Corrupt

-----------------------------------------------------------------------------
(* What a step that leaves a part of the state alone keeps of it. *)

\* A step that leaves the table alone keeps its invariant.
LEMMA CheckpointsAlone ==
    ASSUME CkptInv, UNCHANGED <<rows, committed>>
    PROVE  CkptInv' /\ Present' = Present /\ \A i \in Present : RowKept(i)
<1>1. CkptInv'
  BY StepKeepsInv DEF ckptVars
<1> QED
  BY <1>1 DEF Present, RowKept

(* Work is never undone, so what cursors stand for stays done.              *)
LEMMA CursorsStayBacked ==
    ASSUME CursorsBacked, work \subseteq work', Present' = Present,
           \A i \in Present : RowKept(i),
           up' => up /\ UNCHANGED <<progress, source, tool>>
    PROVE  CursorsBacked'
<1>1. ASSUME NEW s, NEW n, NEW f, NEW t, DoneUpTo(s, n, f, t) PROVE DoneUpTo(s, n, f, t)'
  BY <1>1 DEF DoneUpTo
<1>2. \A i \in Present : rows'[i].cursor \in Nat
        /\ DoneUpTo(rows[i].slot, rows[i].cursor, rows[i].key, rows[i].tool)'
  <2> SUFFICES ASSUME NEW i \in Present
               PROVE  rows'[i].cursor \in Nat /\ DoneUpTo(rows[i].slot, rows[i].cursor, rows[i].key, rows[i].tool)'
    OBVIOUS
  <2>1. PICK s, n, f, t : s = rows[i].slot /\ n = rows[i].cursor /\ f = rows[i].key
                          /\ t = rows[i].tool
    OBVIOUS
  <2>2. n \in Nat /\ DoneUpTo(s, n, f, t)
    BY <2>1 DEF CursorsBacked
  <2>3. DoneUpTo(s, n, f, t)'
    BY <2>2, <1>1
  <2>4. rows'[i].slot = s /\ rows'[i].cursor = n /\ rows'[i].key = f /\ rows'[i].tool = t
    BY <2>1 DEF RowKept
  <2> QED
    BY <2>2, <2>3, <2>4 DEF DoneUpTo
<1>3. up' => \A s \in STAGES : DoneUpTo(s, progress[s], source, tool)'
  <2> SUFFICES ASSUME up', NEW s \in STAGES PROVE DoneUpTo(s, progress[s], source, tool)'
    OBVIOUS
  <2>1. PICK n, f, t : n = progress[s] /\ f = source /\ t = tool
    OBVIOUS
  <2>2. DoneUpTo(s, n, f, t)
    BY <2>1 DEF CursorsBacked
  <2>3. DoneUpTo(s, n, f, t)'
    BY <2>2, <1>1
  <2> QED
    BY <2>1, <2>3 DEF DoneUpTo
<1> QED
  BY <1>2, <1>3 DEF CursorsBacked

\* Work that was done stays done.
LEMMA AllWorkStaysDone ==
    ASSUME CompletedDidAllWork, work \subseteq work', Completed' \subseteq Completed
    PROVE  CompletedDidAllWork'
  BY DEF CompletedDidAllWork

\* An acknowledged pause stays durable while its row and its progress stay.
LEMMA AckedStaysDurable ==
    ASSUME AckedPauseIsDurable, CkptInv, UNCHANGED <<acked, committed>>,
           \A i \in Present : RowKept(i),
           \A s \in STAGES : acked[s] # Null => progress'[s] = progress[s]
    PROVE  AckedPauseIsDurable'
<1> SUFFICES ASSUME NEW s \in STAGES, acked[s] # Null
             PROVE  /\ committed[s] # Null /\ rows'[committed[s]].cursor = acked[s]
                    /\ progress'[s] = acked[s]
  BY DEF AckedPauseIsDurable
<1>1. /\ committed[s] # Null /\ rows[committed[s]].cursor = acked[s] /\ progress[s] = acked[s]
  BY DEF AckedPauseIsDurable
<1>2. committed[s] \in Present
  BY <1>1, SlotsAssumption DEF CkptInv, LatestIsLastCommit, Live
<1> QED
  BY <1>1, <1>2 DEF RowKept

(* While the statuses stay, processes may only end.                         *)
LEMMA ScheduleStays ==
    ASSUME ScanInv, UNCHANGED <<config, statuses>>, live' \subseteq live
    PROVE  PauseIsTotal' /\ SkippedIsOptional' /\ ScheduleSound' /\ Completed' = Completed
           /\ (\A s \in live' : statuses'[s] \in {"running", "paused"})
<1>1. PauseIsTotal' /\ SkippedIsOptional' /\ Completed' = Completed
  BY DEF ScanInv, PauseIsTotal, SkippedIsOptional, Completed
<1>2. LiveAfterDependencies'
  BY DEF ScanInv, ScheduleSound, LiveAfterDependencies
<1>3. IoBudgetKept'
  <2>1. IsFiniteSet(live) /\ live \subseteq STAGES
    BY StagesFinite, FS_Subset DEF ScanInv, ScanTypeOK
  <2>2. Cardinality(live') <= Cardinality(live) /\ Cardinality(live) \in Nat
        /\ Cardinality(live') \in Nat
    BY <2>1, FS_Subset, FS_CardinalityType
  <2>3. Cardinality(live) <= config.max_io_cost /\ config.max_io_cost \in Nat
    BY DEF ScanInv, ScheduleSound, IoBudgetKept, ScanTypeOK, Configs
  <2> QED
    BY <2>2, <2>3 DEF IoBudgetKept
<1>4. RestartablePipeline'
  BY <1>1 DEF ScanInv, ScheduleSound, RestartablePipeline, RestartAccepted
<1>5. \A s \in live' : statuses'[s] \in {"running", "paused"}
  BY DEF ScanInv, LiveBelongs
<1> QED
  BY <1>1, <1>2, <1>3, <1>4, <1>5 DEF ScheduleSound

-----------------------------------------------------------------------------
(* Each step of a scan. *)

\* A unit of work.
LEMMA AdvanceKeeps ==
    ASSUME ScanInv, NEW s \in STAGES, Advance(s) PROVE ScanInv'
<1>1. /\ s \in live /\ acked[s] = Null /\ progress[s] \in Nat /\ progress[s] < Units[s]
      /\ progress' = [progress EXCEPT ![s] = @ + 1] /\ progress \in [STAGES -> Nat]
      /\ work' = work \cup {<<s, progress[s] + 1, source, tool>>}
  BY DEF Advance, Working, ScanInv, ScanTypeOK
<1>2. Units[s] \in Nat
  BY UnitsAssumption
<1>3. ScanTypeOK'
  BY <1>1 DEF Advance, ScanInv, ScanTypeOK
<1>4. CkptInv' /\ Present' = Present /\ \A i \in Present : RowKept(i)
  BY CheckpointsAlone DEF Advance, ScanInv
<1>5. PauseIsTotal' /\ SkippedIsOptional' /\ ScheduleSound' /\ Completed' = Completed
  BY ScheduleStays DEF Advance
<1>6. LiveBelongs'
  BY DEF Advance, ScanInv, LiveBelongs
<1>7. CursorsBacked'
  <2>1. \A i \in Present' : rows'[i].cursor \in Nat
            /\ DoneUpTo(rows[i].slot, rows[i].cursor, rows[i].key, rows[i].tool)'
    BY <1>1 DEF Advance, ScanInv, CursorsBacked, DoneUpTo, Present
  <2>2. ASSUME up', NEW r \in STAGES PROVE DoneUpTo(r, progress[r], source, tool)'
    <3>1. up /\ DoneUpTo(r, progress[r], source, tool)
      BY <2>2 DEF Advance, ScanInv, CursorsBacked
    <3>2. CASE r # s
      BY <1>1, <3>1, <3>2 DEF DoneUpTo, Advance
    <3>3. CASE r = s
      <4>1. progress'[s] = progress[s] + 1 /\ progress[s] + 1 <= Units[s]
        BY <1>1, <1>2
      <4>2. \A u \in 1 .. progress[s] + 1 : u \in 1 .. progress[s] \/ u = progress[s] + 1
        BY <1>1
      <4>3. \A u \in 1 .. progress[s] + 1 : <<s, u, source, tool>> \in work'
        BY <1>1, <3>1, <3>3, <4>2 DEF DoneUpTo
      <4> QED
        BY <3>3, <4>1, <4>3 DEF DoneUpTo, Advance
    <3> QED
      BY <3>2, <3>3
  <2> QED
    BY <2>1, <2>2 DEF CursorsBacked
<1>8. CompletedDidAllWork'
  BY <1>1, <1>5, AllWorkStaysDone DEF ScanInv
<1>9. AckedPauseIsDurable'
  <2>1. \A r \in STAGES : acked[r] # Null => progress'[r] = progress[r]
    BY <1>1
  <2> QED
    BY <1>4, <2>1, AckedStaysDurable DEF Advance, ScanInv
<1> QED
  BY <1>3, <1>4, <1>5, <1>6, <1>7, <1>8, <1>9 DEF ScanInv

(* A save of a working process, between units or to acknowledge a pause     *)
(* (lifecycle.py, checkpoints.py).                                          *)
LEMMA ScanSaveAdds ==
    ASSUME ScanInv, NEW s \in live, Present # CheckpointIds, NEW created \in Times,
           save_checkpoint(FreeId, s, source, tool, progress[s], TRUE, created),
           UNCHANGED <<config, statuses, live, progress, source, tool, work, up>>
    PROVE  /\ CkptInv' /\ CursorsBacked' /\ CompletedDidAllWork' /\ LiveBelongs'
           /\ PauseIsTotal' /\ SkippedIsOptional' /\ ScheduleSound'
           /\ FreeId \in CheckpointIds /\ rows'[FreeId].cursor = progress[s]
           /\ \A i \in Present : RowKept(i)
           /\ committed' = [committed EXCEPT ![s] = FreeId]
<1>1. FreeId \in CheckpointIds /\ rows[FreeId] = Null
  BY FreeIdIsFree
<1>2. /\ s \in STAGES /\ s \in Slots /\ source \in Sources /\ tool \in Tools
      /\ up /\ progress[s] \in Nat
  BY SlotsAssumption DEF ScanInv, ScanTypeOK, LiveBelongs
<1>3. DoneUpTo(s, progress[s], source, tool)
  BY <1>2 DEF ScanInv, CursorsBacked
<1>4. progress[s] \in Cursors
  <2>1. progress[s] \in 0 .. Units[s]
    BY <1>2, <1>3, UnitsAssumption DEF DoneUpTo
  <2> QED
    BY <1>2, <2>1, CursorsAssumption
<1> DEFINE id == FreeId
<1>5. PICK c, f, t : c = progress[s] /\ f = source /\ t = tool
  OBVIOUS
<1>6. /\ CkptInv' /\ Present' = Present \cup {id} /\ id \notin Present
      /\ \A i \in Present : RowKept(i)
      /\ rows'[id].slot = s /\ rows'[id].key = f /\ rows'[id].tool = t
      /\ rows'[id].cursor = c
      /\ committed' = [committed EXCEPT ![s] = id]
  <2>1. PICK j \in CheckpointIds : j = FreeId
    BY <1>1
  <2>2. save_checkpoint(j, s, f, t, c, TRUE, created)
    BY <1>5, <2>1
  <2> QED
    BY <1>2, <1>4, <1>5, <2>1, <2>2, SaveAdds DEF ScanInv
<1>7. CursorsBacked'
  <2> SUFFICES ASSUME NEW i \in Present'
               PROVE  /\ rows'[i].cursor \in Nat
                      /\ rows'[i].cursor <= Units[rows'[i].slot]
                      /\ \A u \in 1 .. rows'[i].cursor :
                            <<rows'[i].slot, u, rows'[i].key, rows'[i].tool>> \in work
    BY DEF CursorsBacked, DoneUpTo, ScanInv
  <2>1. CASE i \in Present
    BY <2>1, <1>6 DEF RowKept, ScanInv, CursorsBacked, DoneUpTo
  <2>2. CASE i = id
    <3>1. /\ rows'[i].slot = s /\ rows'[i].key = f /\ rows'[i].tool = t
          /\ rows'[i].cursor = c
      BY <2>2, <1>6
    <3> HIDE DEF id
    <3> QED
      BY <1>2, <1>3, <1>5, <3>1 DEF DoneUpTo
  <2> QED
    BY <1>6, <2>1, <2>2
<1>8. CompletedDidAllWork'
  BY DEF ScanInv, CompletedDidAllWork, Completed
<1>9. LiveBelongs' /\ PauseIsTotal' /\ SkippedIsOptional' /\ ScheduleSound'
  BY ScheduleStays DEF ScanInv, LiveBelongs
<1> QED
  BY <1>1, <1>5, <1>6, <1>7, <1>8, <1>9

\* A checkpoint in mid-stage.
LEMMA SaveKeeps ==
    ASSUME ScanInv, NEW s \in STAGES, Save(s) PROVE ScanInv'
<1>1. PICK created \in Times :
        save_checkpoint(FreeId, s, source, tool, progress[s], TRUE, created)
  BY DEF Save
<1>2. /\ s \in live /\ acked[s] = Null /\ Present # CheckpointIds
      /\ UNCHANGED <<config, statuses, live, progress, acked, source, tool, work, up>>
  BY DEF Save, Working
<1>3. /\ CkptInv' /\ CursorsBacked' /\ CompletedDidAllWork' /\ LiveBelongs'
      /\ PauseIsTotal' /\ SkippedIsOptional' /\ ScheduleSound'
      /\ \A i \in Present : RowKept(i)
      /\ committed' = [committed EXCEPT ![s] = FreeId]
  BY <1>1, <1>2, ScanSaveAdds
<1>4. ScanTypeOK'
  BY <1>2 DEF ScanInv, ScanTypeOK
<1>5. AckedPauseIsDurable'
  <2> SUFFICES ASSUME NEW r \in STAGES, acked[r] # Null
               PROVE  /\ committed'[r] # Null /\ rows'[committed'[r]].cursor = acked[r]
                      /\ progress[r] = acked[r]
    BY <1>2 DEF AckedPauseIsDurable
  <2>1. /\ committed[r] # Null /\ rows[committed[r]].cursor = acked[r]
        /\ progress[r] = acked[r]
    BY DEF ScanInv, AckedPauseIsDurable
  <2>2. committed[r] \in Present
    BY <2>1, SlotsAssumption DEF ScanInv, CkptInv, LatestIsLastCommit, Live
  <2>3. committed'[r] = committed[r]
    BY <1>2, <1>3, SlotsAssumption DEF ScanInv, CkptInv, CkptTypeOK
  <2> QED
    BY <1>3, <2>1, <2>2, <2>3 DEF RowKept
<1> QED
  BY <1>3, <1>4, <1>5 DEF ScanInv

\* A pause saves before it is acknowledged (lifecycle.py).
LEMMA CooperativePauseKeeps ==
    ASSUME ScanInv, NEW s \in STAGES, CooperativePause(s) PROVE ScanInv'
<1>1. PICK created \in Times :
        save_checkpoint(FreeId, s, source, tool, progress[s], TRUE, created)
  BY DEF CooperativePause, PauseCursor
<1>2. /\ s \in live /\ acked[s] = Null /\ Present # CheckpointIds
      /\ UNCHANGED <<config, statuses, live, progress, source, tool, work, up>>
      /\ acked' = [acked EXCEPT ![s] = progress[s]]
  BY DEF CooperativePause, Working
<1>3. /\ CkptInv' /\ CursorsBacked' /\ CompletedDidAllWork' /\ LiveBelongs'
      /\ PauseIsTotal' /\ SkippedIsOptional' /\ ScheduleSound'
      /\ FreeId \in CheckpointIds /\ rows'[FreeId].cursor = progress[s]
      /\ \A i \in Present : RowKept(i)
      /\ committed' = [committed EXCEPT ![s] = FreeId]
  BY <1>1, <1>2, ScanSaveAdds
<1>4. acked = [r \in STAGES |-> acked[r]]
  BY DEF ScanInv, ScanTypeOK
<1>5. acked' = [r \in STAGES |-> acked'[r]] /\ acked'[s] = progress[s]
      /\ \A r \in STAGES : r # s => acked'[r] = acked[r]
  BY <1>2, <1>4
<1>6. ScanTypeOK'
  BY <1>2, <1>5 DEF ScanInv, ScanTypeOK
<1>7. AckedPauseIsDurable'
  <2> SUFFICES ASSUME NEW r \in STAGES, acked'[r] # Null
               PROVE  /\ committed'[r] # Null /\ rows'[committed'[r]].cursor = acked'[r]
                      /\ progress[r] = acked'[r]
    BY <1>2 DEF AckedPauseIsDurable
  <2>0. committed \in [STAGES -> CheckpointIds \cup {Null}]
    BY SlotsAssumption DEF ScanInv, CkptInv, CkptTypeOK
  <2>1. CASE r = s
    <3>1. committed'[s] = FreeId
      BY <1>3, <2>0
    <3> QED
      BY <1>3, <1>5, <2>1, <3>1, NullAssumption
  <2>2. CASE r # s
    <3>1. /\ committed[r] # Null /\ rows[committed[r]].cursor = acked[r]
          /\ progress[r] = acked[r] /\ acked'[r] = acked[r]
      BY <1>5, <2>2 DEF ScanInv, AckedPauseIsDurable
    <3>2. committed[r] \in Present
      BY <3>1, SlotsAssumption DEF ScanInv, CkptInv, LatestIsLastCommit, Live
    <3>3. committed'[r] = committed[r]
      BY <1>3, <2>0, <2>2
    <3> QED
      BY <1>3, <3>1, <3>2, <3>3 DEF RowKept
  <2> QED
    BY <2>1, <2>2
<1> QED
  BY <1>3, <1>6, <1>7 DEF ScanInv

(* Stops, crashes, and what changes while the coordinator is down.          *)
LEMMA OutsideKeeps ==
    ASSUME ScanInv,
           \/ \E s \in STAGES : GracefulStop(s) \/ ForceStop(s)
           \/ Crash \/ SwapSource \/ UpgradeTool \/ CorruptCheckpoint
    PROVE  ScanInv'
<1>1. UNCHANGED <<config, statuses, progress, acked, work>> /\ live' \subseteq live
      /\ (UNCHANGED up \/ (up' = FALSE /\ live' = {}))
      /\ (UNCHANGED <<source, tool>> \/ (UNCHANGED up /\ ~ up))
  BY DEF GracefulStop, ForceStop, Crash, SwapSource, UpgradeTool, CorruptCheckpoint
<1>2. source' \in Sources /\ tool' \in Tools /\ up' \in BOOLEAN
  BY DEF GracefulStop, ForceStop, Crash, SwapSource, UpgradeTool, CorruptCheckpoint,
        ScanInv, ScanTypeOK
<1>3. CkptInv' /\ Present' = Present /\ committed' = committed /\ \A i \in Present : RowKept(i)
  <2>1. CASE CorruptCheckpoint
    BY <2>1, CorruptKeeps DEF CorruptCheckpoint, ScanInv, Present
  <2>2. CASE UNCHANGED <<rows, committed>>
    BY <2>2, CheckpointsAlone DEF ScanInv
  <2> QED
    BY <2>1, <2>2 DEF GracefulStop, ForceStop, Crash, SwapSource, UpgradeTool
<1>4. ScanTypeOK'
  BY <1>1, <1>2 DEF ScanInv, ScanTypeOK
<1>5. PauseIsTotal' /\ SkippedIsOptional' /\ ScheduleSound' /\ Completed' = Completed
      /\ (\A s \in live' : statuses'[s] \in {"running", "paused"})
  BY <1>1, ScheduleStays
<1>6. LiveBelongs'
  BY <1>1, <1>5 DEF ScanInv, LiveBelongs
<1>7. CursorsBacked'
  <2>1. up' => up /\ UNCHANGED <<progress, source, tool>>
    BY <1>1
  <2> QED
    BY <1>1, <1>3, <2>1, CursorsStayBacked DEF ScanInv
<1>8. CompletedDidAllWork'
  BY <1>1, <1>5, AllWorkStaysDone DEF ScanInv
<1>9. AckedPauseIsDurable'
  BY <1>1, <1>3, AckedStaysDurable DEF ScanInv
<1> QED
  BY <1>3, <1>4, <1>5, <1>6, <1>7, <1>8, <1>9 DEF ScanInv

-----------------------------------------------------------------------------
(* The coordinator's steps. *)

\* What a step that only changes statuses and processes has to keep.
LEMMA StatusStep ==
    ASSUME ScanInv, up,
           UNCHANGED <<rows, committed, config, progress, acked, source, tool, work, up>>,
           statuses' \in [STAGES -> StageStatuses], live' \subseteq STAGES,
           \A s \in live' : statuses'[s] \in {"running", "paused"},
           PauseIsTotal', SkippedIsOptional', ScheduleSound', CompletedDidAllWork'
    PROVE  ScanInv'
<1>1. CkptInv' /\ Present' = Present /\ \A i \in Present : RowKept(i)
  BY CheckpointsAlone DEF ScanInv
<1>2. ScanTypeOK'
  BY DEF ScanInv, ScanTypeOK
<1>3. LiveBelongs'
  BY DEF ScanInv, LiveBelongs
<1>4. CursorsBacked'
  BY <1>1, CursorsStayBacked DEF ScanInv
<1>5. AckedPauseIsDurable'
  BY <1>1, AckedStaysDurable DEF ScanInv
<1> QED
  BY <1>1, <1>2, <1>3, <1>4, <1>5 DEF ScanInv

(* A launch finds the stages it builds on over, and room in the budget: a   *)
(* pending stage means that no live process is paused (scheduler.py:95-130). *)
LEMMA LaunchKeeps ==
    ASSUME ScanInv, NEW s \in STAGES, Launch(s) PROVE ScanInv'
<1>1. /\ statuses \in [STAGES -> StageStatuses] /\ config \in Configs /\ live \subseteq STAGES
      /\ statuses[s] = "pending" /\ s \in runnable_stages(statuses, config)
      /\ statuses' = [statuses EXCEPT ![s] = "running"] /\ live' = live \cup {s} /\ up
      /\ UNCHANGED <<rows, committed, config, progress, acked, source, tool, work, up>>
  BY DEF Launch, ScanInv, ScanTypeOK
<1>2. /\ DependenciesSatisfied(s, statuses, config)
      /\ ActiveIo(statuses) \in Nat /\ ActiveIo(statuses) + 1 <= config.max_io_cost
  BY <1>1, RunnableFits
<1>3. \A r \in live : statuses[r] = "running"
  BY <1>1 DEF ScanInv, LiveBelongs, PauseIsTotal
<1>4. /\ statuses' \in [STAGES -> StageStatuses] /\ statuses'[s] = "running"
      /\ \A r \in STAGES : r # s => statuses'[r] = statuses[r]
  BY <1>1 DEF StageStatuses
<1>5. PauseIsTotal' /\ SkippedIsOptional' /\ Completed' = Completed
  BY <1>1, <1>4 DEF ScanInv, PauseIsTotal, SkippedIsOptional, Completed
<1>6. LiveAfterDependencies'
  <2> SUFFICES ASSUME NEW r \in live', NEW d \in Dependencies[r]
               PROVE  \/ statuses'[d] = "completed"
                      \/ r = "finalization" /\ d \notin Mandatory
                           /\ (statuses'[d] \in {"failed", "skipped"} \/ ~ Enabled(d, config))
    BY <1>1 DEF LiveAfterDependencies
  <2>0. d \in STAGES
    BY <1>1, DependenciesAre
  <2>1. CASE r \in live
    <3>1. \/ statuses[d] = "completed"
          \/ r = "finalization" /\ d \notin Mandatory
               /\ (statuses[d] \in {"failed", "skipped"} \/ ~ Enabled(d, config))
      BY <2>1 DEF ScanInv, ScheduleSound, LiveAfterDependencies
    <3> QED
      BY <1>1, <1>4, <2>0, <3>1
  <2>2. CASE r = s
    <3>1. statuses[d] = "skipped" => d = "enrichment"
      BY <2>0 DEF ScanInv, SkippedIsOptional
    <3>2. CASE s # "finalization"
      <4>1. statuses[d] \in {"completed", "skipped"}
        BY <1>2, <2>2, <3>2 DEF DependenciesSatisfied, Done
      <4>2. d # "enrichment"
        BY <2>2, <3>2, StagesAre, DependenciesAre
      <4> QED
        BY <1>1, <1>4, <2>0, <3>1, <4>1, <4>2
    <3>3. CASE s = "finalization"
      <4>1. \/ statuses[d] \in {"completed", "skipped"}
            \/ d \notin Mandatory /\ (statuses[d] = "failed" \/ ~ Enabled(d, config))
        BY <1>2, <2>2, <3>3 DEF DependenciesSatisfied, Done
      <4>2. "enrichment" \notin Mandatory
        BY DEF Mandatory
      <4> QED
        BY <1>1, <1>4, <2>0, <2>2, <3>1, <3>3, <4>1, <4>2
    <3> QED
      BY <3>2, <3>3
  <2> QED
    BY <1>1, <2>1, <2>2
<1>7. IoBudgetKept'
  <2> DEFINE running == {r \in STAGES : statuses[r] = "running"}
  <2>1. IsFiniteSet(running) /\ live \subseteq running
    BY <1>1, <1>3, StagesFinite, FS_Subset
  <2>2. IsFiniteSet(live) /\ Cardinality(live) <= Cardinality(running)
    BY <2>1, FS_Subset
  <2>3. Cardinality(live \cup {s}) <= Cardinality(live) + 1
        /\ Cardinality(live) \in Nat /\ Cardinality(live \cup {s}) \in Nat
    <3>1. Cardinality(live) \in Nat
      BY <2>2, FS_CardinalityType
    <3>2. Cardinality(live \cup {s}) =
            IF s \in live THEN Cardinality(live) ELSE Cardinality(live) + 1
      BY <2>2, FS_AddElement
    <3> QED
      BY <3>1, <3>2
  <2>4. Cardinality(running) = ActiveIo(statuses)
    BY DEF ActiveIo
  <2>5. config.max_io_cost \in Nat
    BY <1>1 DEF Configs
  <2> QED
    BY <1>1, <1>2, <2>2, <2>3, <2>4, <2>5 DEF IoBudgetKept
<1>8. RestartablePipeline'
  BY <1>1, <1>5 DEF ScanInv, ScheduleSound, RestartablePipeline, RestartAccepted
<1>9. CompletedDidAllWork'
  BY <1>1, <1>5, AllWorkStaysDone DEF ScanInv
<1>10. \A r \in live' : statuses'[r] \in {"running", "paused"}
  BY <1>1, <1>3, <1>4
<1> QED
  BY <1>1, <1>4, <1>5, <1>6, <1>7, <1>8, <1>9, <1>10, StatusStep DEF ScheduleSound

(* A process that ends, in whatever way, leaves room in the budget.         *)
LEMMA BudgetAfterEnd ==
    ASSUME ScanInv, live' \subseteq live, UNCHANGED config PROVE IoBudgetKept'
<1>1. IsFiniteSet(live) /\ live \subseteq STAGES
  BY StagesFinite, FS_Subset DEF ScanInv, ScanTypeOK
<1>2. Cardinality(live') <= Cardinality(live) /\ Cardinality(live) \in Nat
      /\ Cardinality(live') \in Nat
  BY <1>1, FS_Subset, FS_CardinalityType
<1>3. Cardinality(live) <= config.max_io_cost /\ config.max_io_cost \in Nat
  BY DEF ScanInv, ScheduleSound, IoBudgetKept, ScanTypeOK, Configs
<1> QED
  BY <1>2, <1>3 DEF IoBudgetKept

\* A stage completes after its last unit.
LEMMA CompleteKeeps ==
    ASSUME ScanInv, NEW s \in STAGES, Complete(s) PROVE ScanInv'
<1>1. /\ statuses \in [STAGES -> StageStatuses] /\ s \in live /\ up /\ live \subseteq STAGES
      /\ statuses[s] = "running" /\ progress[s] = Units[s]
      /\ statuses' = [statuses EXCEPT ![s] = "completed"] /\ live' = live \ {s}
      /\ UNCHANGED <<rows, committed, config, progress, acked, source, tool, work, up>>
  BY DEF Complete, Working, ScanInv, ScanTypeOK
<1>2. /\ statuses' \in [STAGES -> StageStatuses] /\ statuses'[s] = "completed"
      /\ \A r \in STAGES : r # s => statuses'[r] = statuses[r]
  BY <1>1 DEF StageStatuses
<1>3. PauseIsTotal' /\ SkippedIsOptional' /\ Completed' = Completed \cup {s}
  BY <1>1, <1>2 DEF ScanInv, PauseIsTotal, SkippedIsOptional, Completed
<1>4. LiveAfterDependencies'
  <2> SUFFICES ASSUME NEW r \in live', NEW d \in Dependencies[r]
               PROVE  \/ statuses'[d] = "completed"
                      \/ r = "finalization" /\ d \notin Mandatory
                           /\ (statuses'[d] \in {"failed", "skipped"} \/ ~ Enabled(d, config))
    BY <1>1 DEF LiveAfterDependencies
  <2>1. d \in STAGES /\ r \in live
    BY <1>1, DependenciesAre
  <2>2. \/ statuses[d] = "completed"
        \/ r = "finalization" /\ d \notin Mandatory
             /\ (statuses[d] \in {"failed", "skipped"} \/ ~ Enabled(d, config))
    BY <2>1 DEF ScanInv, ScheduleSound, LiveAfterDependencies
  <2> QED
    BY <1>2, <2>1, <2>2
<1>5. RestartablePipeline'
  <2> SUFFICES ASSUME "finalization" \notin Completed', NEW r \in Completed',
                      NEW d \in Dependencies[r]
               PROVE  d \in Completed' \/ ~ Enabled(d, config)
    BY <1>1 DEF RestartablePipeline, RestartAccepted
  <2>1. CASE r = s
    <3>1. statuses[d] = "completed" /\ d \in STAGES
      BY <1>1, <1>3, <2>1, DependenciesAre DEF ScanInv, ScheduleSound, LiveAfterDependencies
    <3> QED
      BY <1>3, <3>1 DEF Completed
  <2>2. CASE r \in Completed
    BY <1>3, <2>2 DEF ScanInv, ScheduleSound, RestartablePipeline, RestartAccepted
  <2> QED
    BY <1>3, <2>1, <2>2
<1>6. CompletedDidAllWork'
  <2> SUFFICES ASSUME NEW r \in Completed'
               PROVE  \E t \in Tools : \A u \in 1..Units[r] : <<r, u, Expected, t>> \in work
    BY <1>1 DEF CompletedDidAllWork
  <2>1. CASE r \in Completed
    BY <2>1 DEF ScanInv, CompletedDidAllWork
  <2>2. CASE r = s
    <3>1. tool \in Tools /\ source = Expected
      BY <1>1 DEF ScanInv, ScanTypeOK, LiveBelongs
    <3>2. \A u \in 1 .. progress[s] : <<s, u, source, tool>> \in work
      BY <1>1 DEF ScanInv, CursorsBacked, DoneUpTo
    <3> QED
      BY <1>1, <2>2, <3>1, <3>2
  <2> QED
    BY <1>3, <2>1, <2>2
<1>7. \A r \in live' : statuses'[r] \in {"running", "paused"}
  BY <1>1, <1>2 DEF ScanInv, LiveBelongs
<1>8. IoBudgetKept'
  BY <1>1, BudgetAfterEnd
<1> QED
  BY <1>1, <1>2, <1>3, <1>4, <1>5, <1>6, <1>7, <1>8, StatusStep DEF ScheduleSound

(* Failing a stage, and pausing, move only stages that are not completed,   *)
(* failed or skipped, so nothing a live process builds on changes.          *)
LEMMA FailAndPauseKeep ==
    ASSUME ScanInv, up, live' \subseteq live, statuses' \in [STAGES -> StageStatuses],
           UNCHANGED <<rows, committed, config, progress, acked, source, tool, work, up>>,
           \A s \in STAGES : \/ statuses'[s] = statuses[s]
                             \/ /\ statuses[s] \in {"pending", "running", "paused"}
                                /\ statuses'[s] # "completed"
                                /\ statuses'[s] = "skipped" => s = "enrichment",
           \A s \in live' : statuses'[s] \in {"running", "paused"},
           PauseIsTotal'
    PROVE  ScanInv'
<1>1. live \subseteq STAGES
  BY DEF ScanInv, ScanTypeOK
<1>2. SkippedIsOptional' /\ Completed' = Completed
  BY DEF ScanInv, SkippedIsOptional, Completed
<1>3. LiveAfterDependencies'
  <2> SUFFICES ASSUME NEW r \in live', NEW d \in Dependencies[r]
               PROVE  \/ statuses'[d] = "completed"
                      \/ r = "finalization" /\ d \notin Mandatory
                           /\ (statuses'[d] \in {"failed", "skipped"} \/ ~ Enabled(d, config))
    BY DEF LiveAfterDependencies
  <2>1. d \in STAGES /\ r \in live
    BY <1>1, DependenciesAre
  <2>2. \/ statuses[d] = "completed"
        \/ r = "finalization" /\ d \notin Mandatory
             /\ (statuses[d] \in {"failed", "skipped"} \/ ~ Enabled(d, config))
    BY <2>1 DEF ScanInv, ScheduleSound, LiveAfterDependencies
  <2> QED
    BY <2>1, <2>2
<1>4. RestartablePipeline'
  BY <1>2 DEF ScanInv, ScheduleSound, RestartablePipeline, RestartAccepted
<1>5. CompletedDidAllWork'
  BY <1>2, AllWorkStaysDone DEF ScanInv
<1>6. IoBudgetKept'
  BY BudgetAfterEnd
<1> QED
  BY <1>1, <1>2, <1>3, <1>4, <1>5, <1>6, StatusStep DEF ScheduleSound

\* A stage fails, and with it what builds on it (apply_stage_failure).
LEMMA FailKeeps ==
    ASSUME ScanInv, NEW s \in STAGES, Fail(s) PROVE ScanInv'
<1>1. /\ statuses \in [STAGES -> StageStatuses] /\ s \in live /\ up /\ live \subseteq STAGES
      /\ statuses' = apply_stage_failure(statuses, s) /\ live' = live \ {s}
      /\ UNCHANGED <<rows, committed, config, progress, acked, source, tool, work, up>>
  BY DEF Fail, Working, ScanInv, ScanTypeOK
<1>2. PICK old, new : old = statuses /\ new = statuses' /\ FailureMoves(old, new, s)
  BY <1>1, FailureIsMoves
<1>3. \A r \in live : statuses[r] \in {"running", "paused"}
  BY DEF ScanInv, LiveBelongs
<1>4. /\ statuses' \in [STAGES -> StageStatuses] /\ statuses'[s] = "failed"
      /\ \A r \in STAGES \ {s} :
            \/ statuses'[r] = statuses[r]
            \/ statuses[r] = "pending" /\ statuses'[r] = "failed"
            \/ statuses[r] = "pending" /\ statuses'[r] = "skipped" /\ r = "enrichment"
  BY <1>2 DEF FailureMoves
<1>5. \A r \in STAGES : \/ statuses'[r] = statuses[r]
                        \/ /\ statuses[r] \in {"pending", "running", "paused"}
                           /\ statuses'[r] # "completed"
                           /\ statuses'[r] = "skipped" => r = "enrichment"
  BY <1>1, <1>3, <1>4
<1>6. \A r \in live' : statuses'[r] \in {"running", "paused"}
  BY <1>1, <1>3, <1>4
<1>7. PauseIsTotal'
  BY <1>4 DEF ScanInv, PauseIsTotal
<1> QED
  BY <1>1, <1>4, <1>5, <1>6, <1>7, FailAndPauseKeep

\* pause_all.
LEMMA PauseKeeps == ASSUME ScanInv, Pause PROVE ScanInv'
<1>1. /\ statuses \in [STAGES -> StageStatuses] /\ up /\ live' = live /\ live \subseteq STAGES
      /\ statuses' = pause_all(statuses)
      /\ UNCHANGED <<rows, committed, config, progress, acked, source, tool, work, up>>
  BY DEF Pause, ScanInv, ScanTypeOK
<1>2. /\ statuses' \in [STAGES -> StageStatuses]
      /\ \A r \in STAGES :
            \/ statuses[r] \in {"pending", "running"} /\ statuses'[r] = "paused"
            \/ statuses[r] \notin {"pending", "running"} /\ statuses'[r] = statuses[r]
  BY <1>1 DEF pause_all, StageStatuses
<1>3. \A r \in live' : statuses'[r] \in {"running", "paused"}
  BY <1>1, <1>2 DEF ScanInv, LiveBelongs
<1>4. PauseIsTotal'
  BY <1>2 DEF PauseIsTotal
<1> QED
  BY <1>1, <1>2, <1>3, <1>4, FailAndPauseKeep

(* A restart begins each stage at a cursor that stands for work done on the *)
(* source and with the tool at hand, or over (lifecycle.py, checkpoints.py). *)
LEMMA RestartCursorBacked ==
    ASSUME ScanInv, NEW s \in STAGES
    PROVE  RestartCursor(s) \in Nat /\ DoneUpTo(s, RestartCursor(s), source, tool)
<1> DEFINE i == latest_checkpoint_id(s)
<1>1. CASE load_latest_checkpoint(s, source, tool) = Null
  <2>1. RestartCursor(s) = 0
    BY <1>1 DEF RestartCursor
  <2>2. Units[s] \in Nat
    BY UnitsAssumption
  <2> QED
    BY <2>1, <2>2 DEF DoneUpTo
<1>2. CASE load_latest_checkpoint(s, source, tool) # Null
  <2>1. /\ i # Null /\ rows[i].key = source /\ rows[i].tool = tool
        /\ load_latest_checkpoint(s, source, tool) = rows[i]
    BY <1>2 DEF load_latest_checkpoint
  <2>2. RestartCursor(s) = rows[i].cursor
    BY <1>2, <2>1 DEF RestartCursor
  <2>3. i = committed[s] /\ i \in Present /\ rows[i].slot = s
    <3>1. i = committed[s]
      BY LatestIsCommitted, SlotsAssumption DEF ScanInv, CkptInv
    <3>2. committed[s] \in Live(s)
      BY <2>1, <3>1, SlotsAssumption DEF ScanInv, CkptInv, LatestIsLastCommit
    <3> QED
      BY <3>1, <3>2 DEF Live
  <2> HIDE DEF i
  <2> QED
    BY <2>1, <2>2, <2>3 DEF ScanInv, CursorsBacked
<1> QED
  BY <1>1, <1>2

\* restart_plan.
LEMMA RestartKeeps == ASSUME ScanInv, Restart PROVE ScanInv'
<1>1. /\ live = {} /\ live' = {} /\ source = Expected /\ up' = TRUE
      /\ statuses' = restart_statuses(Completed)
      /\ progress' = [s \in STAGES |-> RestartCursor(s)]
      /\ acked' = [s \in STAGES |-> Null]
      /\ UNCHANGED <<rows, committed, config, source, tool, work>>
  BY DEF Restart
<1>2. CkptInv' /\ Present' = Present /\ \A i \in Present : RowKept(i)
  BY <1>1, CheckpointsAlone DEF ScanInv
<1>3. statuses' \in [STAGES -> StageStatuses] /\ Completed' = Completed
      /\ \A s \in STAGES : statuses'[s] \in {"completed", "pending"}
  BY <1>1 DEF restart_statuses, StageStatuses, Completed
<1>4. ScanTypeOK'
  <2>1. progress' \in [STAGES -> Nat]
    BY <1>1, RestartCursorBacked
  <2>2. acked' = [s \in STAGES |-> acked'[s]]
    BY <1>1
  <2>3. up' \in BOOLEAN
    BY <1>1
  <2> QED
    BY <1>1, <1>3, <2>1, <2>2, <2>3 DEF ScanInv, ScanTypeOK
<1>5. LiveBelongs' /\ PauseIsTotal' /\ SkippedIsOptional'
  BY <1>1, <1>3 DEF LiveBelongs, PauseIsTotal, SkippedIsOptional
<1>6. LiveAfterDependencies' /\ AckedPauseIsDurable'
  BY <1>1 DEF LiveAfterDependencies, AckedPauseIsDurable
<1>7. IoBudgetKept'
  BY <1>1, BudgetAfterEnd
<1>8. RestartablePipeline'
  BY <1>1, <1>3 DEF ScanInv, ScheduleSound, RestartablePipeline, RestartAccepted
<1>9. CompletedDidAllWork'
  BY <1>1, <1>3, AllWorkStaysDone DEF ScanInv
<1>10. CursorsBacked'
  <2>1. \A s \in STAGES : progress'[s] \in Nat /\ progress'[s] <= Units[s]
            /\ \A u \in 1 .. progress'[s] : <<s, u, source, tool>> \in work
    BY <1>1, RestartCursorBacked DEF DoneUpTo
  <2>2. \A i \in Present : rows[i].cursor \in Nat
            /\ DoneUpTo(rows[i].slot, rows[i].cursor, rows[i].key, rows[i].tool)
    BY DEF ScanInv, CursorsBacked
  <2> QED
    BY <1>1, <2>1, <2>2 DEF CursorsBacked, DoneUpTo, Present
<1> QED
  BY <1>2, <1>4, <1>5, <1>6, <1>7, <1>8, <1>9, <1>10 DEF ScanInv, ScheduleSound

\* A scan starts with every stage pending.
LEMMA ScanInitInv == Init => ScanInv
<1> SUFFICES ASSUME Init PROVE ScanInv
  OBVIOUS
<1>1. CkptInv /\ Present = {}
  BY CkptInitInv DEF Init, CkptInit, Present
<1>2. config \in Configs
  BY BudgetsAssumption DEF Init, Configs
<1>3. ScanTypeOK
  BY <1>2, ExpectedAssumption DEF Init, ScanTypeOK, initial_statuses, StageStatuses
<1>4. Completed = {}
  BY DEF Init, Completed, initial_statuses
<1>5. LiveBelongs /\ PauseIsTotal /\ SkippedIsOptional
  BY DEF Init, LiveBelongs, PauseIsTotal, SkippedIsOptional, initial_statuses
<1>6. CursorsBacked
  BY <1>1, UnitsAssumption DEF Init, CursorsBacked, DoneUpTo
<1>7. CompletedDidAllWork /\ AckedPauseIsDurable
  BY <1>4 DEF Init, CompletedDidAllWork, AckedPauseIsDurable
<1>8. ScheduleSound
  <2>1. Cardinality(live) = 0
    BY FS_EmptySet DEF Init
  <2>2. config.max_io_cost \in Nat
    BY <1>2 DEF Configs
  <2> QED
    BY <1>4, <2>1, <2>2 DEF Init, ScheduleSound, LiveAfterDependencies, IoBudgetKept,
          RestartablePipeline, RestartAccepted
<1> QED
  BY <1>1, <1>3, <1>5, <1>6, <1>7, <1>8 DEF ScanInv

\* Every step keeps the invariant of the scan.
LEMMA ScanStep == ASSUME ScanInv, [Next]_vars PROVE ScanInv'
<1>1. CASE UNCHANGED vars
  <2>1. CkptInv' /\ Present' = Present /\ \A i \in Present : RowKept(i)
    BY <1>1, CheckpointsAlone DEF ScanInv, vars
  <2>2. ScanTypeOK' /\ LiveBelongs'
    BY <1>1 DEF ScanInv, ScanTypeOK, LiveBelongs, vars
  <2>3. PauseIsTotal' /\ SkippedIsOptional' /\ ScheduleSound' /\ Completed' = Completed
    BY <1>1, ScheduleStays DEF vars
  <2>4. CursorsBacked' /\ CompletedDidAllWork' /\ AckedPauseIsDurable'
    BY <1>1, <2>1, <2>3, CursorsStayBacked, AllWorkStaysDone, AckedStaysDurable
    DEF ScanInv, vars
  <2> QED
    BY <2>1, <2>2, <2>3, <2>4 DEF ScanInv
<1>2. CASE Next
  BY <1>2, LaunchKeeps, AdvanceKeeps, SaveKeeps, CompleteKeeps, FailKeeps,
     CooperativePauseKeeps, OutsideKeeps, PauseKeeps, RestartKeeps
  DEF Next, StageStep
<1> QED
  BY <1>1, <1>2

\* The inductive invariant of the scan.
LEMMA ScanInvariant == Spec => []ScanInv
  BY ScanInitInv, ScanStep, PTL DEF Spec

(* A stage that is completed has done every unit of its work, on the source *)
(* the scan was started on and with one version of the tools, whatever      *)
(* crashes, restarts, corrupt checkpoints, upgrades and swapped disks came  *)
(* before (lifecycle.py, checkpoints.py, scheduler.py).                     *)
THEOREM CompletedStagesDidAllWork == Spec => []CompletedDidAllWork
<1>1. ScanInv => CompletedDidAllWork
  BY DEF ScanInv
<1> QED
  BY <1>1, ScanInvariant, PTL

(* Stages run after what they build on and within the I/O budget, and the   *)
(* completed ones can always be restarted from (scheduler.py:95-205).       *)
THEOREM ScheduleIsSound == Spec => []ScheduleSound
<1>1. ScanInv => ScheduleSound
  BY DEF ScanInv
<1> QED
  BY <1>1, ScanInvariant, PTL

(* What a pause acknowledged stays in the latest checkpoint                 *)
(* (cooperative_pause, safe_stop_process).                                  *)
THEOREM AckedPauseStaysDurable == Spec => []AckedPauseIsDurable
<1>1. ScanInv => AckedPauseIsDurable
  BY DEF ScanInv
<1> QED
  BY <1>1, ScanInvariant, PTL

(* No step takes a stage out of completed: not a failure that is            *)
(* propagated, a pause, or a restart (restart_plan).                        *)
THEOREM CompletedIsNeverRerun == Spec => CompletedNotRerun
<1> DEFINE Stays == \A s \in STAGES : statuses[s] = "completed" => statuses'[s] = "completed"
<1>1. ASSUME ScanInv, [Next]_vars PROVE Stays
  <2>1. statuses \in [STAGES -> StageStatuses]
    BY <1>1 DEF ScanInv, ScanTypeOK
  <2>2. CASE UNCHANGED statuses
    BY <2>2
  <2>3. ASSUME NEW r \in STAGES, Launch(r) PROVE Stays
    BY <2>1, <2>3 DEF Launch
  <2>4. ASSUME NEW r \in STAGES, Complete(r) PROVE Stays
    BY <2>1, <2>4 DEF Complete
  <2>5. ASSUME NEW r \in STAGES, Fail(r) PROVE Stays
    <3>1. PICK old, new :
            old = statuses /\ new = statuses' /\ FailureMoves(old, new, r)
      BY <2>1, <2>5, FailureIsMoves DEF Fail
    <3>2. statuses[r] \in {"running", "paused"}
      BY <1>1, <2>5 DEF Fail, Working, ScanInv, LiveBelongs
    <3> QED
      BY <3>1, <3>2 DEF FailureMoves
  <2>6. CASE Pause
    BY <2>1, <2>6 DEF Pause, pause_all
  <2>7. CASE Restart
    BY <2>7 DEF Restart, restart_statuses, Completed
  <2> QED
    BY <1>1, <2>2, <2>3, <2>4, <2>5, <2>6, <2>7
    DEF Next, StageStep, vars, Advance, Save, CooperativePause, GracefulStop, ForceStop,
        Crash, SwapSource, UpgradeTool, CorruptCheckpoint
<1>2. ScanInv /\ [Next]_vars => [Stays]_vars
  BY <1>1
<1> HIDE DEF Stays
<1>3. Spec => [][Stays]_vars
  BY <1>2, ScanInvariant, PTL DEF Spec
<1> QED
  BY <1>3 DEF CompletedNotRerun, Stays

=============================================================================
