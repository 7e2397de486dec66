--------------------------- MODULE RecoveryProofs ---------------------------
(***************************************************************************)
(* Proofs about Recovery and its parts: for any number of writers and      *)
(* calls, what a call of the scratch store returned stays recorded, the    *)
(* store is a ContentStore and is over its quota by no more than the calls *)
(* in hand; what an extraction reports as complete is what the source      *)
(* holds, and it uses the store by its own steps only; and across          *)
(* timeouts, torn session files, failed backups, crashes and changes of    *)
(* the source, no PhotoRec manifest hides a sector that was never carved.  *)
(***************************************************************************)
EXTENDS Recovery, PhotoRecSession, FiniteSetTheorems, SequenceTheorems, TLAPS

(* The scratch store. *)

\* An empty store satisfies the invariant.
LEMMA ScratchInitInv == ScratchInit => ScratchInv
<1> SUFFICES ASSUME ScratchInit PROVE ScratchInv
  OBVIOUS
<1> USE ScratchAssumption DEF ScratchInit
<1>1. ScratchTypeOK
  BY DEF ScratchTypeOK, Steps
<1>2. LockKept
  BY DEF LockKept
<1>3. CallsInHand /\ ReturnedIsRecorded
  BY DEF CallsInHand, ReturnedIsRecorded
<1> QED
  BY <1>1, <1>2, <1>3 DEF ScratchInv

(* The reference of a call under way is one of the references.              *)
LEMMA RefIsRef ==
    ASSUME ScratchInv, NEW w \in Writers, pc[w] # "idle"
    PROVE  Ref(w) \in Refs
<1>1. calls[w] \in 1 .. MaxPuts[w]
  BY ScratchAssumption DEF ScratchInv, CallsInHand, ScratchTypeOK
<1> QED
  BY <1>1 DEF Ref, Refs

-----------------------------------------------------------------------------
(* The steps before the move and after the end of a call touch neither the  *)
(* objects, nor the metadata, nor its lock (scratch_store.py:83-121).       *)
Early(w) ==
    \/ BeginPut(w) \/ CleanupOne(w) \/ OpenTemp(w) \/ FailWrite(w) \/ Collect(w)
    \/ \E c \in Contents, expected, space \in BOOLEAN : EndWrite(w, c, expected, space)

\* The steps of put_bytes before its rename keep the types.
LEMMA EarlyTypes ==
    ASSUME ScratchInv, NEW w \in Writers, Early(w)
    PROVE  ScratchTypeOK'
<1> USE ScratchAssumption DEF ScratchInv, ScratchTypeOK, Steps, TempFiles, Raise
<1>1. CASE BeginPut(w)
  BY <1>1 DEF BeginPut
<1>2. CASE CleanupOne(w)
  BY <1>2 DEF CleanupOne
<1>3. CASE OpenTemp(w)
  BY <1>3 DEF OpenTemp
<1>4. CASE FailWrite(w)
  BY <1>4 DEF FailWrite
<1>5. CASE Collect(w)
  BY <1>5 DEF Collect
<1>6. ASSUME NEW c \in Contents, NEW e \in BOOLEAN, NEW s \in BOOLEAN, EndWrite(w, c, e, s)
      PROVE  ScratchTypeOK'
  BY <1>6 DEF EndWrite
<1> QED
  BY <1>1, <1>2, <1>3, <1>4, <1>5, <1>6 DEF Early

\* The steps of put_bytes before its rename keep the invariant.
LEMMA EarlyKeeps ==
    ASSUME ScratchInv, NEW w \in Writers, Early(w)
    PROVE  ScratchInv' /\ UNCHANGED <<objects, meta>>
<1> USE ScratchAssumption DEF ScratchInv, ScratchTypeOK, Raise
<1> DEFINE Later == {"lock", "meta", "publish"}
<1>1. UNCHANGED <<objects, meta, lock, returned>>
  BY DEF Early, BeginPut, CleanupOne, OpenTemp, FailWrite, Collect, EndWrite
<1>2. /\ pc[w] \notin Later /\ pc'[w] \notin Later
      /\ \A v \in Writers \ {w} : pc'[v] = pc[v] /\ content'[v] = content[v] /\ seen'[v] = seen[v]
                                  /\ calls'[v] = calls[v]
  BY DEF Early, BeginPut, CleanupOne, OpenTemp, FailWrite, Collect, EndWrite
<1>3. /\ calls'[w] <= MaxPuts[w] /\ (pc'[w] # "idle" => calls'[w] >= 1)
      /\ pc'[w] \in {"final", "replace"} => content'[w] \in Contents
  BY DEF Early, BeginPut, CleanupOne, OpenTemp, FailWrite, Collect, EndWrite, CallsInHand
<1>4. LockKept'
  BY <1>1, <1>2 DEF LockKept
<1>5. CallsInHand'
  BY <1>1, <1>2, <1>3 DEF CallsInHand
<1>6. ReturnedIsRecorded'
  BY <1>1 DEF ReturnedIsRecorded
<1> QED
  BY <1>1, <1>4, <1>5, <1>6, EarlyTypes

(* The content is known or moved in: the store adopts it, or has it.        *)
LEMMA MoveKeeps ==
    ASSUME ScratchInv, NEW w \in Writers, CheckFinal(w) \/ Replace(w)
    PROVE  ScratchInv' /\ (Store!StoreNext \/ UNCHANGED <<objects, meta>>)
<1> USE ScratchAssumption DEF ScratchInv, ScratchTypeOK, Raise
<1>1. content[w] \in Contents /\ pc[w] \in {"final", "replace"}
  BY DEF CheckFinal, Replace, CallsInHand
<1>2. /\ UNCHANGED <<meta, todo, content, seen, lock, calls, returned>>
      /\ objects' \in {objects, objects \cup {content[w]}}
      /\ pc'[w] = "lock" => content[w] \in objects'
      /\ pc'[w] \in {"lock", "replace", "failed"}
      /\ \A v \in Writers \ {w} : pc'[v] = pc[v]
  BY DEF CheckFinal, Replace
<1>3. ScratchTypeOK'
  BY <1>1, <1>2 DEF CheckFinal, Replace, Steps, TempFiles
<1>4. LockKept'
  BY <1>1, <1>2 DEF LockKept
<1>5. CallsInHand'
  BY <1>1, <1>2 DEF CallsInHand
<1>6. ReturnedIsRecorded'
  BY <1>2 DEF ReturnedIsRecorded
<1>7. Store!StoreNext \/ UNCHANGED <<objects, meta>>
  BY <1>1, <1>2 DEF Store!StoreNext, Store!Adopt
<1> QED
  BY <1>3, <1>4, <1>5, <1>6, <1>7

(* The lock is taken and the metadata read and written to a temporary.      *)
LEMMA LockKeeps ==
    ASSUME ScratchInv, NEW w \in Writers, TakeLock(w) \/ WriteMeta(w)
    PROVE  ScratchInv' /\ UNCHANGED <<objects, meta>>
<1> USE ScratchAssumption DEF ScratchInv, ScratchTypeOK
<1>1. content[w] \in objects /\ content[w] \in Contents
  BY DEF TakeLock, WriteMeta, CallsInHand
<1>2. /\ UNCHANGED <<objects, meta, content, calls, returned>>
      /\ lock' = w /\ pc'[w] \in {"meta", "publish"} /\ seen'[w] = meta[content[w]]
      /\ \A v \in Writers \ {w} : pc'[v] = pc[v] /\ seen'[v] = seen[v] /\ lock # v
  BY DEF TakeLock, WriteMeta, LockFree, LockKept
<1>3. ScratchTypeOK'
  BY <1>1 DEF TakeLock, WriteMeta, Steps, TempFiles
<1>4. LockKept'
  BY <1>2 DEF LockKept
<1>5. CallsInHand' /\ ReturnedIsRecorded'
  BY <1>1, <1>2 DEF CallsInHand, ReturnedIsRecorded, TakeLock, WriteMeta
<1> QED
  BY <1>2, <1>3, <1>4, <1>5

(* Publishing adds one reference to what is there, because nobody else      *)
(* published since the metadata was read (scratch_store.py:122-123).        *)
LEMMA PublishKeeps ==
    ASSUME ScratchInv, NEW w \in Writers, PublishMeta(w)
    PROVE  ScratchInv' /\ (Store!StoreNext \/ UNCHANGED <<objects, meta>>)
<1> USE ScratchAssumption DEF ScratchInv, ScratchTypeOK, Raise
<1>1. /\ content[w] \in objects /\ content[w] \in Contents /\ seen[w] = meta[content[w]]
      /\ Ref(w) \in Refs /\ lock = w
  BY RefIsRef DEF PublishMeta, CallsInHand, LockKept
<1>2. /\ UNCHANGED <<objects, todo, content, seen, calls>> /\ lock' = NoWriter
      /\ pc'[w] \in {"done", "failed"}
      /\ \A v \in Writers \ {w} : pc'[v] = pc[v] /\ pc[v] \notin {"meta", "publish"}
  BY <1>1 DEF PublishMeta, LockKept
<1>3. \/ UNCHANGED <<meta, returned>>
      \/ /\ meta' = [meta EXCEPT ![content[w]] = @ \cup {Ref(w)}]
         /\ returned' = returned \cup {<<Ref(w), content[w]>>}
  BY <1>1 DEF PublishMeta
<1>4. ScratchTypeOK'
  <2>1. meta' \in [Contents -> SUBSET Refs] /\ returned' \subseteq Refs \X Contents
    BY <1>1, <1>3
  <2>2. tmp' \subseteq TempFiles /\ pc' \in [Writers -> Steps]
    BY DEF PublishMeta, Steps
  <2> QED
    BY <1>2, <2>1, <2>2
<1>5. LockKept'
  BY <1>2 DEF LockKept
<1>6. CallsInHand'
  BY <1>2 DEF CallsInHand, PublishMeta
<1>7. ReturnedIsRecorded'
  <2>1. \A c \in Contents : meta[c] \subseteq meta'[c]
    BY <1>1, <1>3
  <2>2. \A r \in returned : r[2] \in Contents /\ r[2] \in objects /\ r[1] \in meta[r[2]]
    BY DEF ReturnedIsRecorded
  <2>3. \A r \in returned : r[2] \in objects' /\ r[1] \in meta'[r[2]]
    BY <1>2, <2>1, <2>2
  <2>4. CASE UNCHANGED <<meta, returned>>
    BY <2>3, <2>4 DEF ReturnedIsRecorded
  <2>5. CASE /\ meta' = [meta EXCEPT ![content[w]] = @ \cup {Ref(w)}]
             /\ returned' = returned \cup {<<Ref(w), content[w]>>}
    <3>1. content[w] \in objects' /\ Ref(w) \in meta'[content[w]]
      BY <1>1, <1>2, <2>5
    <3> QED
      BY <2>3, <2>5, <3>1 DEF ReturnedIsRecorded
  <2> QED
    BY <1>3, <2>4, <2>5
<1>8. Store!StoreNext \/ UNCHANGED <<objects, meta>>
  BY <1>1, <1>2, <1>3 DEF Store!StoreNext, Store!Refer
<1> QED
  BY <1>4, <1>5, <1>6, <1>7, <1>8

(* The files outlive the process.                                           *)
LEMMA CrashKeeps ==
    ASSUME ScratchInv, ScratchCrash
    PROVE  ScratchInv' /\ UNCHANGED <<objects, meta>>
<1> USE ScratchAssumption DEF ScratchInv, ScratchCrash
<1>1. ScratchTypeOK'
  BY DEF ScratchTypeOK, Steps
<1>2. LockKept' /\ CallsInHand'
  BY DEF LockKept, CallsInHand
<1>3. ReturnedIsRecorded'
  BY DEF ReturnedIsRecorded
<1> QED
  BY <1>1, <1>2, <1>3

-----------------------------------------------------------------------------
\* Every step of a writer keeps the invariant of the store.
LEMMA ScratchStep ==
    ScratchInv /\ [ScratchNext]_scratchVars
        => ScratchInv' /\ [Store!StoreNext]_(Store!storeVars)
<1> SUFFICES ASSUME ScratchInv, [ScratchNext]_scratchVars
             PROVE  ScratchInv' /\ (Store!StoreNext \/ UNCHANGED <<objects, meta>>)
  BY DEF Store!storeVars
<1>1. ASSUME NEW w \in Writers,
             BeginPut(w) \/ PutStep(w) \/ FailWrite(w) \/ Collect(w)
             \/ \E c \in Contents, expected, space \in BOOLEAN : EndWrite(w, c, expected, space)
      PROVE  ScratchInv' /\ (Store!StoreNext \/ UNCHANGED <<objects, meta>>)
  BY <1>1, EarlyKeeps, MoveKeeps, LockKeeps, PublishKeeps, Zenon DEF PutStep, Early
<1>2. CASE UNCHANGED scratchVars
  BY <1>2, Zenon DEF scratchVars, ScratchInv, ScratchTypeOK, LockKept, CallsInHand, ReturnedIsRecorded
<1> QED
  BY <1>1, <1>2, CrashKeeps, Zenon DEF ScratchNext

(* What put_bytes returned is in the store and in its metadata for good,    *)
(* whatever other writers, their cleanups and crashes do                    *)
(* (scratch_store.py:89-123).                                               *)
THEOREM ReturnedStaysRecorded == ScratchSpec => []ReturnedIsRecorded
<1>1. ScratchInv => ReturnedIsRecorded
  BY DEF ScratchInv
<1> QED
  BY <1>1, ScratchInitInv, ScratchStep, PTL DEF ScratchSpec

(* The scratch store (scratch_store.py) implements the content store that   *)
(* extraction, carving and export rely on.                                  *)
THEOREM ScratchImplementsStore == ScratchSpec => ImplementsContentStore
<1>1. ScratchInit => Store!StoreInit
  BY DEF ScratchInit, Store!StoreInit
<1> QED
  BY <1>1, ScratchInitInv, ScratchStep, PTL DEF ScratchSpec, ImplementsContentStore, Store!StoreSpec

-----------------------------------------------------------------------------
(* The quota of the scratch store. *)

LargestSize == Max({Size[c] : c \in Contents})

\* No content is larger than the largest one.
LEMMA SizesBounded == LargestSize \in Nat /\ \A c \in Contents : Size[c] <= LargestSize
<1> DEFINE S == {Size[c] : c \in Contents}
<1>1. PICK c \in Contents : \A d \in Contents : Size[d] <= Size[c]
  BY ScratchAssumption
<1>2. Size[c] \in S /\ \A x \in S : Size[c] >= x
  BY <1>1, ScratchAssumption
<1>3. LargestSize \in S /\ \A x \in S : LargestSize >= x
  BY <1>2, Zenon DEF LargestSize, Max
<1> QED
  BY <1>3, ScratchAssumption

\* The bytes of one file are as many as its size.
LEMMA BytesOfOne ==
    ASSUME NEW x, NEW n \in Nat
    PROVE  IsFiniteSet({x} \X (1 .. n)) /\ Cardinality({x} \X (1 .. n)) = n
<1>1. IsFiniteSet(1 .. n) /\ Cardinality(1 .. n) = n
  BY FS_Interval
<1>2. IsFiniteSet({x}) /\ Cardinality({x}) = 1
  BY FS_Singleton
<1>3. IsFiniteSet({x} \X (1 .. n)) /\ Cardinality({x} \X (1 .. n)) = 1 * n
  BY <1>1, <1>2, FS_Product, ZenonT(30)
<1> QED
  BY <1>3

\* Writers that each hold a content will add no more than the largest one each.
LEMMA BytesOfWriters ==
    ASSUME NEW T \in SUBSET Writers, NEW held, \A w \in T : held[w] \in Contents
    PROVE  LET bytes == UNION {{w} \X (1 .. Size[held[w]]) : w \in T}
           IN IsFiniteSet(bytes) /\ Cardinality(bytes) <= Cardinality(T) * LargestSize
<1> DEFINE bytes == UNION {{w} \X (1 .. Size[held[w]]) : w \in T}
           box == T \X (1 .. LargestSize)
<1>1. bytes \in SUBSET box
  BY SizesBounded, ScratchAssumption
<1>2. IsFiniteSet(T)
  BY ScratchAssumption, FS_Subset
<1>3. IsFiniteSet(1 .. LargestSize) /\ Cardinality(1 .. LargestSize) = LargestSize
  BY SizesBounded, FS_Interval
<1>4. IsFiniteSet(box) /\ Cardinality(box) = Cardinality(T) * LargestSize
  BY <1>2, <1>3, FS_Product
<1> HIDE DEF bytes, box
<1>5. IsFiniteSet(bytes) /\ Cardinality(bytes) <= Cardinality(box)
  BY <1>1, <1>4, FS_Subset
<1> QED
  BY <1>4, <1>5 DEF bytes

\* The counts in the accounting are numbers.
LEMMA QuotaCounts ==
    ASSUME ScratchInv
    PROVE  /\ Moving \in SUBSET Writers /\ Recording \in SUBSET Writers
           /\ IsFiniteSet(Writers) /\ Cardinality(Writers) \in Nat \ {0}
           /\ IsFiniteSet(Recording) /\ Cardinality(Recording) \in 0 .. Cardinality(Writers)
           /\ \A w \in Moving : content[w] \in Contents
           /\ IsFiniteSet(MovingBytes) /\ Cardinality(MovingBytes) \in Nat
           /\ RecordBytes * Cardinality(Recording) \in Nat
<1>1. Moving \in SUBSET Writers /\ Recording \in SUBSET Writers
  BY DEF Moving, Recording
<1>2. IsFiniteSet(Writers) /\ Cardinality(Writers) \in Nat \ {0}
  BY ScratchAssumption, FS_CardinalityType, FS_EmptySet
<1>3. IsFiniteSet(Recording) /\ Cardinality(Recording) \in 0 .. Cardinality(Writers)
  BY <1>1, <1>2, FS_Subset, FS_CardinalityType
<1>4. \A w \in Moving : content[w] \in Contents
  BY DEF ScratchInv, CallsInHand, Moving
<1>5. IsFiniteSet(MovingBytes)
  BY <1>1, <1>4, BytesOfWriters DEF MovingBytes
<1>6. Cardinality(MovingBytes) \in Nat
  BY <1>5, FS_CardinalityType
<1>7. RecordBytes * Cardinality(Recording) \in Nat
  BY <1>3, ScratchAssumption
<1> QED
  BY <1>1, <1>2, <1>3, <1>4, <1>5, <1>6, <1>7

\* So are those of what is used.
LEMMA UsedCounts ==
    ASSUME OvershootAccounted
    PROVE  /\ Cardinality(ObjectBytes) \in Nat /\ Cardinality(Records) \in Nat
           /\ RecordBytes * Cardinality(Records) \in Nat /\ Used \in Nat
<1>1. Cardinality(ObjectBytes) \in Nat /\ Cardinality(Records) \in Nat
  BY FS_CardinalityType DEF OvershootAccounted
<1>2. RecordBytes * Cardinality(Records) \in Nat
  BY <1>1, ScratchAssumption
<1> QED
  BY <1>1, <1>2 DEF Used

QuotaLimit == Quota + (Cardinality(Writers) - 1) * LargestSize + Cardinality(Writers) * RecordBytes

\* The limit is a number.
LEMMA QuotaLimitTyped == QuotaLimit \in Int
<1>1. Cardinality(Writers) \in Nat
  BY ScratchAssumption, FS_CardinalityType
<1>2. (Cardinality(Writers) - 1) * LargestSize \in Int /\ Cardinality(Writers) * RecordBytes \in Int
  BY <1>1, SizesBounded, ScratchAssumption
<1> QED
  BY <1>2, ScratchAssumption DEF QuotaLimit

\* A step that stores nothing and lets nobody past the check adds nothing.
LEMMA ShrinkKeeps ==
    ASSUME ScratchInv, ScratchInv', OvershootAccounted, UNCHANGED <<objects, meta>>,
           Moving' \subseteq Moving, \A w \in Moving' : content'[w] = content[w],
           Recording' \subseteq Recording
    PROVE  OvershootAccounted'
<1>1. ObjectBytes' = ObjectBytes /\ Records' = Records /\ Used' = Used
  BY DEF ObjectBytes, Records, Used
<1>2. MovingBytes' \in SUBSET MovingBytes
  BY DEF MovingBytes
<1>3. Cardinality(MovingBytes') <= Cardinality(MovingBytes) /\ Cardinality(MovingBytes') \in Nat
  BY <1>2, QuotaCounts, FS_Subset, FS_CardinalityType
<1>4. Cardinality(Recording') <= Cardinality(Recording) /\ Cardinality(Recording') \in Nat
  BY QuotaCounts, FS_Subset, FS_CardinalityType
<1>5. RecordBytes * Cardinality(Recording') <= RecordBytes * Cardinality(Recording)
  BY <1>4, QuotaCounts, ScratchAssumption
<1>6. RecordBytes * Cardinality(Recording') \in Nat
  BY <1>4, ScratchAssumption
<1>7. Used + Cardinality(MovingBytes) + RecordBytes * Cardinality(Recording) <= QuotaLimit
  BY DEF OvershootAccounted, QuotaLimit, LargestSize
<1>8. Used' + Cardinality(MovingBytes') + RecordBytes * Cardinality(Recording') <= QuotaLimit
  BY <1>1, <1>3, <1>5, <1>6, <1>7, QuotaCounts, UsedCounts, QuotaLimitTyped
<1> QED
  BY <1>1, <1>8 DEF OvershootAccounted, QuotaLimit, LargestSize

\* A writer that passes the check had room for itself; the others add one object each
\* (scratch_store.py:113).
LEMMA CheckedKeeps ==
    ASSUME ScratchInv, ScratchInv', OvershootAccounted, NEW w \in Writers, NEW c \in Contents,
           NEW e \in BOOLEAN, NEW s \in BOOLEAN, EndWrite(w, c, e, s), Fits(Size[c]),
           pc'[w] = "final"
    PROVE  OvershootAccounted'
<1> DEFINE others == Moving \ {w}
           theirs == UNION {{v} \X (1 .. Size[content[v]]) : v \in others}
           own == {w} \X (1 .. Size[c])
<1>1. /\ UNCHANGED <<objects, meta>> /\ content'[w] = c
      /\ \A v \in Writers \ {w} : pc'[v] = pc[v] /\ content'[v] = content[v]
  BY DEF EndWrite, Raise, ScratchInv, ScratchTypeOK
<1>2. ObjectBytes' = ObjectBytes /\ Records' = Records /\ Used' = Used
  BY <1>1 DEF ObjectBytes, Records, Used
<1>3. Moving' = others \cup {w} /\ w \in Recording'
  BY <1>1 DEF Moving, Recording
<1>4. MovingBytes' = theirs \cup own
  BY <1>1, <1>3 DEF MovingBytes, Moving
<1>5. IsFiniteSet(theirs) /\ Cardinality(theirs) <= Cardinality(others) * LargestSize
  BY QuotaCounts, BytesOfWriters
<1>6. Cardinality(others) \in Nat /\ Cardinality(others) <= Cardinality(Writers) - 1
  <2>1. others \in SUBSET (Writers \ {w})
    BY QuotaCounts
  <2>2. IsFiniteSet(Writers \ {w}) /\ Cardinality(Writers \ {w}) = Cardinality(Writers) - 1
    BY QuotaCounts, FS_RemoveElement
  <2> QED
    BY <2>1, <2>2, FS_Subset, FS_CardinalityType
<1>7. IsFiniteSet(own) /\ Cardinality(own) = Size[c] /\ Size[c] \in Nat
  BY BytesOfOne, ScratchAssumption
<1> HIDE DEF others, theirs, own
<1>8. Cardinality(MovingBytes') <= Cardinality(theirs) + Size[c] /\ Cardinality(MovingBytes') \in Nat
      /\ Cardinality(theirs) \in Nat
  <2>1. Cardinality(theirs) \in Nat
    BY <1>5, FS_CardinalityType
  <2>2. /\ IsFiniteSet(theirs \cup own)
        /\ Cardinality(theirs \cup own)
               = Cardinality(theirs) + Cardinality(own) - Cardinality(theirs \cap own)
    BY <1>5, <1>7, FS_Union
  <2>3. IsFiniteSet(theirs \cap own) /\ theirs \cap own \in SUBSET theirs
    BY <1>5, FS_Subset
  <2>4. Cardinality(theirs \cap own) \in Nat /\ Cardinality(theirs \cup own) \in Nat
    BY <2>2, <2>3, FS_CardinalityType
  <2> QED
    BY <2>1, <2>2, <2>4, <1>4, <1>7
<1>9. Cardinality(others) * LargestSize <= (Cardinality(Writers) - 1) * LargestSize
  BY <1>6, SizesBounded, QuotaCounts
<1>10. Cardinality(Recording') \in 0 .. Cardinality(Writers)
  <2>1. Recording' \in SUBSET Writers
    BY DEF Recording, Moving
  <2> QED
    BY <2>1, QuotaCounts, FS_Subset, FS_CardinalityType
<1>11. RecordBytes * Cardinality(Recording') <= Cardinality(Writers) * RecordBytes
  BY <1>10, QuotaCounts, ScratchAssumption
<1>12. RecordBytes * Cardinality(Recording') \in Nat /\ Cardinality(Writers) * RecordBytes \in Nat
       /\ (Cardinality(Writers) - 1) * LargestSize \in Nat /\ Cardinality(others) * LargestSize \in Nat
  BY <1>10, <1>6, QuotaCounts, ScratchAssumption, SizesBounded
<1>13. Used + Size[c] <= Quota
  BY DEF Fits
<1>14. Used' + Cardinality(MovingBytes') + RecordBytes * Cardinality(Recording') <= QuotaLimit
  BY <1>2, <1>5, <1>7, <1>8, <1>9, <1>11, <1>12, <1>13, UsedCounts, ScratchAssumption DEF QuotaLimit
<1> QED
  BY <1>2, <1>14 DEF OvershootAccounted, QuotaLimit, LargestSize

\* A move turns bytes on their way into bytes that are there.
LEMMA MovedKeeps ==
    ASSUME ScratchInv, ScratchInv', OvershootAccounted, NEW w \in Writers, Replace(w),
           <<w, "data">> \in tmp
    PROVE  OvershootAccounted'
<1> DEFINE c == content[w]
           own == {w} \X (1 .. Size[c])
           added == {c} \X (1 .. Size[c])
<1>1. /\ UNCHANGED <<meta, content>> /\ objects' = objects \cup {c}
      /\ pc' = [pc EXCEPT ![w] = "lock"] /\ w \in Moving
  BY DEF Replace, Moving
<1>2. c \in Contents /\ Size[c] \in Nat
  BY <1>1, QuotaCounts, ScratchAssumption
<1>3. Moving' = Moving \ {w} /\ Recording' = Recording
  BY <1>1 DEF Moving, Recording, ScratchInv, ScratchTypeOK
<1>4. Records' = Records
  BY <1>1 DEF Records
<1>5. ObjectBytes' = ObjectBytes \cup added
  BY <1>1 DEF ObjectBytes
<1>6. MovingBytes = MovingBytes' \cup own /\ MovingBytes' \cap own = {}
  BY <1>1, <1>3 DEF MovingBytes
<1>7. /\ IsFiniteSet(own) /\ Cardinality(own) = Size[c]
      /\ IsFiniteSet(added) /\ Cardinality(added) = Size[c]
  BY <1>2, BytesOfOne
<1> HIDE DEF c, own, added
<1>8. /\ IsFiniteSet(ObjectBytes') /\ Cardinality(ObjectBytes') \in Nat
      /\ Cardinality(ObjectBytes') <= Cardinality(ObjectBytes) + Size[c]
  <2>1. IsFiniteSet(ObjectBytes)
    BY DEF OvershootAccounted
  <2>2. /\ IsFiniteSet(ObjectBytes \cup added)
        /\ Cardinality(ObjectBytes \cup added)
               = Cardinality(ObjectBytes) + Cardinality(added) - Cardinality(ObjectBytes \cap added)
    BY <2>1, <1>7, FS_Union
  <2>3. IsFiniteSet(ObjectBytes \cap added)
    BY <2>1, FS_Subset
  <2>4. Cardinality(ObjectBytes \cap added) \in Nat /\ Cardinality(ObjectBytes \cup added) \in Nat
    BY <2>2, <2>3, FS_CardinalityType
  <2> QED
    BY <2>2, <2>4, <1>2, <1>5, <1>7, UsedCounts
<1>9. Cardinality(MovingBytes) = Cardinality(MovingBytes') + Size[c] /\ Cardinality(MovingBytes') \in Nat
  <2>1. IsFiniteSet(MovingBytes') /\ MovingBytes' \in SUBSET MovingBytes
    BY <1>6, QuotaCounts, FS_Subset
  <2>2. Cardinality(MovingBytes' \cup own)
            = Cardinality(MovingBytes') + Cardinality(own) - Cardinality(MovingBytes' \cap own)
    BY <2>1, <1>7, FS_Union
  <2>3. Cardinality({}) = 0
    BY FS_EmptySet
  <2>4. Cardinality(MovingBytes') \in Nat
    BY <2>1, FS_CardinalityType
  <2>5. MovingBytes' \cup own = MovingBytes /\ Cardinality(MovingBytes' \cap own) = 0
    BY <1>6, <2>3
  <2>6. Cardinality(MovingBytes) = Cardinality(MovingBytes') + Size[c] - 0
    BY <2>2, <2>5, <1>7
  <2> QED
    BY <2>4, <2>6, <1>2
<1>10. Used + Cardinality(MovingBytes) + RecordBytes * Cardinality(Recording) <= QuotaLimit
  BY DEF OvershootAccounted, QuotaLimit, LargestSize
<1>11. Used' = Cardinality(ObjectBytes') + RecordBytes * Cardinality(Records)
  BY <1>4 DEF Used
<1>12. Used = Cardinality(ObjectBytes) + RecordBytes * Cardinality(Records)
  BY DEF Used
<1>13. Used' + Cardinality(MovingBytes') + RecordBytes * Cardinality(Recording') <= QuotaLimit
  BY <1>2, <1>3, <1>8, <1>9, <1>10, <1>11, <1>12, QuotaCounts, UsedCounts, QuotaLimitTyped
<1> QED
  BY <1>4, <1>8, <1>13 DEF OvershootAccounted, QuotaLimit, LargestSize

\* A publication turns a record on its way into one that is there.
LEMMA PublishedKeeps ==
    ASSUME ScratchInv, ScratchInv', OvershootAccounted, NEW w \in Writers, PublishMeta(w),
           <<w, "meta">> \in tmp
    PROVE  OvershootAccounted'
<1> DEFINE c == content[w]
           record == <<c, Ref(w)>>
<1>1. /\ UNCHANGED <<objects, content>> /\ pc' = [pc EXCEPT ![w] = "done"]
      /\ meta' = [meta EXCEPT ![c] = meta[c] \cup {Ref(w)}]
      /\ w \in Recording /\ w \notin Moving
  BY DEF PublishMeta, Recording, Moving, ScratchInv, LockKept
<1>2. c \in Contents
  BY DEF PublishMeta, ScratchInv, ScratchTypeOK, CallsInHand
<1>3. Moving' = Moving /\ Recording' = Recording \ {w}
  BY <1>1 DEF Moving, Recording, ScratchInv, ScratchTypeOK
<1>4. ObjectBytes' = ObjectBytes /\ MovingBytes' = MovingBytes
  BY <1>1, <1>3 DEF ObjectBytes, MovingBytes
<1>5. Records' = Records \cup {record}
  <2>1. meta \in [Contents -> SUBSET Refs]
    BY DEF ScratchInv, ScratchTypeOK
  <2> DEFINE r == Ref(w)
  <2> HIDE DEF r, c
  <2>2. \A d \in Contents : meta'[d] = IF d = c THEN meta[d] \cup {r} ELSE meta[d]
    BY <2>1, <1>1, <1>2 DEF r
  <2>3. r \in Refs
    BY RefIsRef DEF PublishMeta, r
  <2>4. Records' = Records \cup {<<c, r>>}
    <3>1. ASSUME NEW d \in Contents, NEW q \in Refs
          PROVE  q \in meta'[d] <=> q \in meta[d] \/ (d = c /\ q = r)
      BY <2>2
    <3>2. \A p \in Contents \X Refs : p \in Records' <=> p \in Records \/ p = <<c, r>>
      BY <3>1 DEF Records
    <3>3. Records' \subseteq Contents \X Refs /\ Records \subseteq Contents \X Refs
      BY DEF Records
    <3>4. <<c, r>> \in Contents \X Refs
      BY <2>3, <1>2
    <3> QED
      BY <3>2, <3>3, <3>4
  <2> QED
    BY <2>4 DEF r, c
<1> HIDE DEF c, record
<1>6. /\ IsFiniteSet(Records') /\ Cardinality(Records') \in Nat
      /\ Cardinality(Records') <= Cardinality(Records) + 1
  <2>1. IsFiniteSet(Records) /\ Cardinality(Records) \in Nat
    BY UsedCounts DEF OvershootAccounted
  <2>2. IsFiniteSet(Records \cup {record})
        /\ Cardinality(Records \cup {record}) \in {Cardinality(Records), Cardinality(Records) + 1}
    BY <2>1, FS_AddElement
  <2> QED
    BY <1>5, <2>1, <2>2
<1>7. Cardinality(Recording') = Cardinality(Recording) - 1
  BY <1>1, <1>3, QuotaCounts, FS_RemoveElement
<1>8. RecordBytes * Cardinality(Records') + RecordBytes * Cardinality(Recording')
        <= RecordBytes * Cardinality(Records) + RecordBytes * Cardinality(Recording)
  <2>1. Cardinality(Records') + Cardinality(Recording') <= Cardinality(Records) + Cardinality(Recording)
    BY <1>6, <1>7, QuotaCounts, UsedCounts
  <2>2. \A n, m \in Int : RecordBytes * n + RecordBytes * m = RecordBytes * (n + m)
    BY ScratchAssumption
  <2>3. \A n, m \in Int : n <= m => RecordBytes * n <= RecordBytes * m
    BY ScratchAssumption
  <2> HIDE DEF Recording, Records
  <2> DEFINE a == Cardinality(Records')
             b == Cardinality(Recording')
             d == Cardinality(Records)
             g == Cardinality(Recording)
  <2>4. a \in Int /\ b \in Int /\ d \in Int /\ g \in Int
    BY <1>6, <1>7, QuotaCounts, UsedCounts
  <2>5. a + b <= d + g
    BY <2>1
  <2> HIDE DEF a, b, d, g
  <2>6. RecordBytes * (a + b) <= RecordBytes * (d + g)
    BY <2>3, <2>4, <2>5
  <2>7. RecordBytes * a + RecordBytes * b <= RecordBytes * d + RecordBytes * g
    BY <2>2, <2>4, <2>6
  <2> QED
    BY <2>7 DEF a, b, d, g
<1>9. Used + Cardinality(MovingBytes) + RecordBytes * Cardinality(Recording) <= QuotaLimit
  BY DEF OvershootAccounted, QuotaLimit, LargestSize
<1>10. /\ Used' = Cardinality(ObjectBytes) + RecordBytes * Cardinality(Records')
       /\ Used = Cardinality(ObjectBytes) + RecordBytes * Cardinality(Records)
  BY <1>4 DEF Used
<1>11. RecordBytes * Cardinality(Records') \in Nat /\ RecordBytes * Cardinality(Recording') \in Nat
  <2>1. Cardinality(Recording') \in Nat
    BY <1>3, QuotaCounts, FS_RemoveElement, FS_CardinalityType
  <2> QED
    BY <2>1, <1>6, ScratchAssumption
<1>12. Used' + Cardinality(MovingBytes') + RecordBytes * Cardinality(Recording') <= QuotaLimit
  BY <1>4, <1>8, <1>9, <1>10, <1>11, QuotaCounts, UsedCounts, QuotaLimitTyped
<1> QED
  BY <1>4, <1>6, <1>12 DEF OvershootAccounted, QuotaLimit, LargestSize

\* Every step of a writer keeps the accounting.
LEMMA QuotaStep ==
    ASSUME ScratchInv, OvershootAccounted, [ScratchNext]_scratchVars
    PROVE  OvershootAccounted'
<1>1. ScratchInv'
  BY ScratchStep
<1> USE DEF ScratchInv, ScratchTypeOK
<1>2. ASSUME NEW w \in Writers, BeginPut(w) \/ CleanupOne(w) \/ OpenTemp(w) \/ FailWrite(w)
                                \/ Collect(w) \/ CheckFinal(w) \/ TakeLock(w) \/ WriteMeta(w)
      PROVE  OvershootAccounted'
  <2>1. UNCHANGED <<objects, meta>>
    BY <1>2 DEF BeginPut, CleanupOne, OpenTemp, FailWrite, Collect, CheckFinal, TakeLock, WriteMeta
  <2>2. /\ Moving' \subseteq Moving /\ Recording' \subseteq Recording
        /\ \A v \in Moving' : content'[v] = content[v]
    BY <1>2 DEF BeginPut, CleanupOne, OpenTemp, FailWrite, Collect, CheckFinal, TakeLock, WriteMeta,
                Moving, Recording, Raise
  <2> QED
    BY <2>1, <2>2, <1>1, ShrinkKeeps
<1>3. ASSUME NEW w \in Writers, NEW c \in Contents, NEW e \in BOOLEAN, NEW s \in BOOLEAN,
             EndWrite(w, c, e, s)
      PROVE  OvershootAccounted'
  <2>1. CASE pc'[w] = "final"
    <3>1. Fits(Size[c])
      BY <1>3, <2>1 DEF EndWrite, Raise
    <3> QED
      BY <3>1, <2>1, <1>1, <1>3, CheckedKeeps
  <2>2. CASE pc'[w] # "final"
    <3>1. UNCHANGED <<objects, meta>>
      BY <1>3 DEF EndWrite
    <3>2. pc' = [pc EXCEPT ![w] = "refused"] /\ content' = [content EXCEPT ![w] = c]
      BY <1>3, <2>2 DEF EndWrite, Raise
    <3>3. /\ Moving' \subseteq Moving /\ Recording' \subseteq Recording
          /\ \A v \in Moving' : content'[v] = content[v]
      BY <3>2 DEF Moving, Recording
    <3> QED
      BY <3>1, <3>3, <1>1, ShrinkKeeps
  <2> QED
    BY <2>1, <2>2
<1>4. ASSUME NEW w \in Writers, Replace(w) PROVE OvershootAccounted'
  <2>1. CASE <<w, "data">> \in tmp
    BY <2>1, <1>1, <1>4, MovedKeeps
  <2>2. CASE <<w, "data">> \notin tmp
    <3>1. UNCHANGED <<objects, meta, content>> /\ pc' = [pc EXCEPT ![w] = "failed"]
      BY <2>2, <1>4 DEF Replace, Raise
    <3>2. Moving' \subseteq Moving /\ Recording' \subseteq Recording
      BY <3>1 DEF Moving, Recording
    <3> QED
      BY <3>1, <3>2, <1>1, ShrinkKeeps
  <2> QED
    BY <2>1, <2>2
<1>5. ASSUME NEW w \in Writers, PublishMeta(w) PROVE OvershootAccounted'
  <2>1. CASE <<w, "meta">> \in tmp
    BY <2>1, <1>1, <1>5, PublishedKeeps
  <2>2. CASE <<w, "meta">> \notin tmp
    <3>1. UNCHANGED <<objects, meta, content>> /\ pc' = [pc EXCEPT ![w] = "failed"]
      BY <2>2, <1>5 DEF PublishMeta, Raise
    <3>2. Moving' \subseteq Moving /\ Recording' \subseteq Recording
      BY <3>1 DEF Moving, Recording
    <3> QED
      BY <3>1, <3>2, <1>1, ShrinkKeeps
  <2> QED
    BY <2>1, <2>2
<1>6. CASE ScratchCrash \/ UNCHANGED scratchVars
  <2>1. UNCHANGED <<objects, meta>>
    BY <1>6 DEF ScratchCrash, scratchVars
  <2>2. /\ Moving' \subseteq Moving /\ Recording' \subseteq Recording
        /\ \A v \in Moving' : content'[v] = content[v]
    BY <1>6 DEF ScratchCrash, scratchVars, Moving, Recording
  <2> QED
    BY <2>1, <2>2, <1>1, ShrinkKeeps
<1> QED
  BY <1>2, <1>3, <1>4, <1>5, <1>6 DEF ScratchNext, PutStep

\* An empty store has used nothing.
LEMMA QuotaInit == ASSUME ScratchInit PROVE OvershootAccounted
<1> USE DEF ScratchInit
<1>1. ObjectBytes = {} /\ Records = {} /\ MovingBytes = {} /\ Recording = {}
  BY DEF ObjectBytes, Records, MovingBytes, Recording, Moving
<1>2. IsFiniteSet({}) /\ Cardinality({}) = 0
  BY FS_EmptySet
<1>3. Used + Cardinality(MovingBytes) + RecordBytes * Cardinality(Recording) = 0
  BY <1>1, <1>2, ScratchAssumption DEF Used
<1>4. Cardinality(Writers) \in Nat \ {0}
  BY ScratchAssumption, FS_CardinalityType, FS_EmptySet
<1>5. (Cardinality(Writers) - 1) * LargestSize \in Nat /\ Cardinality(Writers) * RecordBytes \in Nat
  BY <1>4, SizesBounded, ScratchAssumption
<1>6. 0 <= QuotaLimit
  BY <1>5, ScratchAssumption DEF QuotaLimit
<1> QED
  BY <1>1, <1>2, <1>3, <1>6 DEF OvershootAccounted, QuotaLimit, LargestSize

(* However many writers pass the unlocked check of the quota together      *)
(* (scratch_store.py:113), the store overshoots it by no more than one      *)
(* object per further writer and one record per writer.                     *)
THEOREM OvershootIsBounded == ScratchSpec => []QuotaOvershootBounded
<1>1. ScratchInv /\ OvershootAccounted => QuotaOvershootBounded
  <2> SUFFICES ASSUME ScratchInv, OvershootAccounted PROVE QuotaOvershootBounded
    OBVIOUS
  <2>1. Used + Cardinality(MovingBytes) + RecordBytes * Cardinality(Recording) <= QuotaLimit
    BY DEF OvershootAccounted, QuotaLimit, LargestSize
  <2>2. Used <= QuotaLimit
    BY <2>1, QuotaCounts, UsedCounts, QuotaLimitTyped
  <2> QED
    BY <2>2 DEF QuotaOvershootBounded, QuotaLimit, LargestSize
<1>2. ScratchInit => OvershootAccounted
  BY QuotaInit
<1>3. ScratchInv /\ OvershootAccounted /\ [ScratchNext]_scratchVars => OvershootAccounted'
  BY QuotaStep
<1> QED
  BY <1>1, <1>2, <1>3, ScratchInitInv, ScratchStep, PTL DEF ScratchSpec

-----------------------------------------------------------------------------
(* PhotoRec's sessions. *)

(* No session is one of the two markers, which are shorter tuples.          *)
LEMMA SessionsApart == None \notin Sessions /\ Torn \notin Sessions /\ None # Torn
  BY DEF None, Torn, Sessions

\* Before the first carve nothing is recorded (photorec_resume.py).
LEMMA PRInitInv == PRInit => PRInv
<1> SUFFICES ASSUME PRInit PROVE PRInv
  OBVIOUS
<1> USE DEF PRInit
<1>1. PRTypeOK
  BY DEF PRTypeOK
<1>2. NoSectorForgotten /\ HandleIsBound
  BY DEF NoSectorForgotten, HandleIsBound
<1>3. RunAccountsForAll
  BY SessionsApart DEF RunAccountsForAll
<1> QED
  BY <1>1, <1>2, <1>3 DEF PRInv

-----------------------------------------------------------------------------
(* Carving only ever adds to what is carved, so a manifest that was right   *)
(* stays right while manifests and bindings stay as they are.               *)
LEMMA ManifestsStayRight ==
    ASSUME PRInv, UNCHANGED <<manifest, bound>>, carvedOf' \in [Sources -> SUBSET Sectors],
           \A s \in Sources : carvedOf[s] \subseteq carvedOf'[s]
    PROVE  NoSectorForgotten'
<1> SUFFICES ASSUME NEW x \in Sessions, manifest[x] # "absent"
             PROVE  /\ carvedOf'[bound[x]] \cup x[2] = Sectors
                    /\ manifest[x] = "completed" => carvedOf'[bound[x]] = Sectors
  BY DEF NoSectorForgotten
<1>1. bound[x] \in Sources /\ x[2] \subseteq Sectors
  BY DEF PRInv, HandleIsBound, Sessions
<1>2. /\ carvedOf[bound[x]] \cup x[2] = Sectors
      /\ manifest[x] = "completed" => carvedOf[bound[x]] = Sectors
  BY DEF PRInv, NoSectorForgotten
<1>3. carvedOf[bound[x]] \subseteq carvedOf'[bound[x]] /\ carvedOf'[bound[x]] \subseteq Sectors
  BY <1>1
<1> QED
  BY <1>1, <1>2, <1>3

(* The manifest written at the end of run_photorec_resume is right: it is   *)
(* bound to the attached source, and says completed only of a full carve    *)
(* (photorec_resume.py:270-340).                                            *)
LEMMA ManifestWritten ==
    ASSUME PRInv, NEW x \in Sessions, NEW completed \in BOOLEAN, WriteManifestWith(x, completed),
           UNCHANGED <<source, carvedOf>>,
           carvedOf[source] \cup x[2] = Sectors, completed => carvedOf[source] = Sectors
    PROVE  NoSectorForgotten' /\ HandleIsBound'
           /\ manifest' \in [Sessions -> {"absent", "open", "completed"}]
           /\ bound' \in [Sessions -> Sources \cup {None}]
           /\ handle' \in [session : Sessions, completed : BOOLEAN]
<1> USE DEF PRInv, PRTypeOK, WriteManifestWith, Binding
<1>1. manifest' \in [Sessions -> {"absent", "open", "completed"}]
  OBVIOUS
<1>2. bound' \in [Sessions -> Sources \cup {None}]
  OBVIOUS
<1>3. handle' \in [session : Sessions, completed : BOOLEAN]
  OBVIOUS
<1>4. bound'[x] = source /\ manifest'[x] # "absent"
      /\ (manifest'[x] = "completed" => completed)
  OBVIOUS
<1>5. \A y \in Sessions \ {x} : bound'[y] = bound[y] /\ manifest'[y] = manifest[y]
  OBVIOUS
<1>6. NoSectorForgotten'
  BY <1>4, <1>5 DEF NoSectorForgotten
<1>7. HandleIsBound'
  BY <1>3, <1>4, <1>5 DEF HandleIsBound, BoundToSource
<1> QED
  BY <1>1, <1>2, <1>3, <1>6, <1>7

-----------------------------------------------------------------------------
(* One step of each kind keeps the invariant.                               *)
LEMMA CarveKeeps == ASSUME PRInv, Carve PROVE PRInv'
<1>1. NoSectorForgotten'
  BY ManifestsStayRight DEF Carve, PRInv, PRTypeOK
<1> QED
  BY <1>1, SessionsApart DEF PRInv, PRTypeOK, Carve, RunAccountsForAll, HandleIsBound, BoundToSource, Binding

\* Loading a manifest changes only the call.
LEMMA LoadKeeps == ASSUME PRInv, Load PROVE PRInv'
<1>1. NoSectorForgotten'
  BY ManifestsStayRight DEF Load, Rest, PRInv, PRTypeOK
<1>2. pointer \in Sessions /\ handle' \in [session : Sessions, completed : BOOLEAN]
  BY DEF Load, PRInv, PRTypeOK
<1>3. PRTypeOK'
  BY <1>2 DEF Load, Rest, PRInv, PRTypeOK
<1>4. HandleIsBound'
  BY <1>2 DEF Load, Rest, PRInv, HandleIsBound, BoundToSource, Binding
<1>5. RunAccountsForAll'
  BY DEF Load, Rest, PRInv, RunAccountsForAll
<1> QED
  BY <1>1, <1>3, <1>4, <1>5 DEF PRInv

\* A resumed tool carves what the session left.
LEMMA ResumeKeeps == ASSUME PRInv, ResumeSession PROVE PRInv'
<1>1. NoSectorForgotten'
  BY ManifestsStayRight DEF ResumeSession, PRInv, PRTypeOK
<1>2. handle \in [session : Sessions, completed : BOOLEAN] /\ handle.session[2] \subseteq Sectors
  BY DEF ResumeSession, PRInv, PRTypeOK, Sessions
<1>3. carvedOf[source] \cup handle.session[2] = Sectors
  BY <1>2 DEF ResumeSession, PRInv, HandleIsBound, NoSectorForgotten, BoundToSource, Binding
<1>4. PRTypeOK' /\ HandleIsBound'
  BY <1>2 DEF ResumeSession, PRInv, PRTypeOK, HandleIsBound, BoundToSource, Binding
<1>5. RunAccountsForAll'
  BY <1>3 DEF ResumeSession, PRInv, RunAccountsForAll
<1> QED
  BY <1>1, <1>4, <1>5 DEF PRInv

\* A sector carved is off the list of the running tool.
LEMMA ToolCarvesKeeps == ASSUME PRInv, ToolCarves PROVE PRInv'
<1> PICK s \in work : /\ carvedOf' = [carvedOf EXCEPT ![source] = @ \cup {s}]
                      /\ work' = work \ {s}
  BY DEF ToolCarves
<1>1. s \in Sectors /\ source \in Sources
  BY DEF PRInv, PRTypeOK
<1>2. carvedOf' \in [Sources -> SUBSET Sectors] /\ \A t \in Sources : carvedOf[t] \subseteq carvedOf'[t]
  BY <1>1 DEF PRInv, PRTypeOK
<1>3. NoSectorForgotten'
  BY <1>2, ManifestsStayRight DEF ToolCarves
<1>4. PRTypeOK' /\ HandleIsBound'
  BY <1>2 DEF ToolCarves, PRInv, PRTypeOK, HandleIsBound, BoundToSource, Binding
<1>5. carvedOf'[source] = carvedOf[source] \cup {s}
  BY <1>1 DEF PRInv, PRTypeOK
<1>6. RunAccountsForAll'
  BY <1>1, <1>5 DEF ToolCarves, PRInv, PRTypeOK, RunAccountsForAll
<1> QED
  BY <1>3, <1>4, <1>6 DEF PRInv

\* The tool writes its session, finishes or is stopped.
LEMMA ToolEndsKeeps == ASSUME PRInv, ToolSaves \/ ToolFinishes \/ ToolStops PROVE PRInv'
<1>1. NoSectorForgotten'
  BY ManifestsStayRight DEF ToolSaves, ToolFinishes, ToolStops, Rest, PRInv, PRTypeOK
<1>2. HandleIsBound'
  BY DEF ToolSaves, ToolFinishes, ToolStops, Rest, PRInv, HandleIsBound, BoundToSource, Binding
<1>3. PRTypeOK'
  BY DEF ToolSaves, ToolFinishes, ToolStops, StagedAfterKill, Rest, PRInv, PRTypeOK, Sessions
<1>4. RunAccountsForAll'
  BY SessionsApart DEF ToolSaves, ToolFinishes, ToolStops, StagedAfterKill, Rest, PRInv, PRTypeOK,
     RunAccountsForAll
<1> QED
  BY <1>1, <1>2, <1>3, <1>4 DEF PRInv

\* The backup of the session file, whole or torn.
LEMMA WriteSessionKeeps == ASSUME PRInv, WriteSessionFile PROVE PRInv'
<1>1. NoSectorForgotten'
  BY ManifestsStayRight DEF WriteSessionFile, Rest, PRInv, PRTypeOK
<1>2. PRTypeOK' /\ HandleIsBound'
  BY DEF WriteSessionFile, Rest, PRInv, PRTypeOK, HandleIsBound, BoundToSource, Binding
<1>3. RunAccountsForAll'
  BY DEF WriteSessionFile, SessionValid, Rest, PRInv, RunAccountsForAll
<1> QED
  BY <1>1, <1>2, <1>3 DEF PRInv

\* The manifest names the backup it was written for.
LEMMA WriteManifestKeeps == ASSUME PRInv, WriteManifest PROVE PRInv'
<1>1. staged \in Sessions /\ carvedOf[source] \cup staged[2] = Sectors
  BY DEF WriteManifest, PRInv, RunAccountsForAll
<1>2. Completed \in BOOLEAN /\ (Completed => carvedOf[source] = Sectors)
  BY DEF Completed, PRInv, RunAccountsForAll
<1>3. NoSectorForgotten' /\ HandleIsBound'
      /\ manifest' \in [Sessions -> {"absent", "open", "completed"}]
      /\ bound' \in [Sessions -> Sources \cup {None}]
      /\ handle' \in [session : Sessions, completed : BOOLEAN]
  BY <1>1, <1>2, ManifestWritten DEF WriteManifest, Rest
<1>4. PRTypeOK' /\ RunAccountsForAll'
  BY <1>3 DEF WriteManifest, Rest, PRInv, PRTypeOK, RunAccountsForAll
<1> QED
  BY <1>3, <1>4 DEF PRInv

\* A session is marked completed only once the tool had finished.
LEMMA MarkKeeps == ASSUME PRInv, MarkOrWarn PROVE PRInv'
<1>1. CASE UNCHANGED <<manifest, bound, handle>>
  <2>1. NoSectorForgotten'
    BY <1>1, ManifestsStayRight DEF MarkOrWarn, Rest, PRInv, PRTypeOK
  <2> QED
    BY <1>1, <2>1 DEF MarkOrWarn, Rest, PRInv, PRTypeOK, RunAccountsForAll, HandleIsBound,
       BoundToSource, Binding
<1>2. CASE Completed /\ handle # NoHandle /\ WriteManifestWith(handle.session, TRUE)
  <2>1. handle.session \in Sessions /\ carvedOf[source] = Sectors
    BY <1>2 DEF Completed, PRInv, PRTypeOK, RunAccountsForAll
  <2>2. carvedOf[source] \cup handle.session[2] = Sectors
    BY <2>1 DEF Sessions
  <2>3. NoSectorForgotten' /\ HandleIsBound'
        /\ manifest' \in [Sessions -> {"absent", "open", "completed"}]
        /\ bound' \in [Sessions -> Sources \cup {None}]
        /\ handle' \in [session : Sessions, completed : BOOLEAN]
    BY <1>2, <2>1, <2>2, ManifestWritten DEF MarkOrWarn, Rest
  <2>4. PRTypeOK' /\ RunAccountsForAll'
    BY <2>3 DEF MarkOrWarn, Rest, PRInv, PRTypeOK, RunAccountsForAll
  <2> QED
    BY <2>3, <2>4 DEF PRInv
<1> QED
  BY <1>1, <1>2 DEF MarkOrWarn

\* The end of a call, of the process, and a change of the source.
LEMMA CallEndsKeeps == ASSUME PRInv, Record \/ ProcessEnds \/ SwapSource PROVE PRInv'
<1>1. NoSectorForgotten'
  BY ManifestsStayRight DEF Record, ProcessEnds, SwapSource, PRInv, PRTypeOK
<1>2. PRTypeOK'
  BY DEF Record, ProcessEnds, SwapSource, PRInv, PRTypeOK
<1>3. HandleIsBound' /\ RunAccountsForAll'
  BY DEF Record, ProcessEnds, SwapSource, PRInv, HandleIsBound, BoundToSource, Binding,
     RunAccountsForAll
<1> QED
  BY <1>1, <1>2, <1>3 DEF PRInv

-----------------------------------------------------------------------------
(* However carving is interrupted and resumed (photorec_resume.py), and for *)
(* any sources and sectors, what a backup does not list is carved.          *)
THEOREM NoSectorIsForgotten == PRSpec => []NoSectorForgotten
<1>1. PRInv /\ [PRNext]_prVars => PRInv'
  <2> SUFFICES ASSUME PRInv, [PRNext]_prVars PROVE PRInv'
    OBVIOUS
  <2>1. CASE PRNext
    BY <2>1, CarveKeeps, LoadKeeps, ResumeKeeps, ToolCarvesKeeps, ToolEndsKeeps, WriteSessionKeeps,
       WriteManifestKeeps, MarkKeeps, CallEndsKeeps, Zenon DEF PRNext
  <2>2. CASE UNCHANGED prVars
    BY <2>2, Zenon DEF prVars, PRInv, PRTypeOK, NoSectorForgotten, RunAccountsForAll, HandleIsBound,
       BoundToSource, Binding
  <2> QED
    BY <2>1, <2>2
<1>2. PRInv => NoSectorForgotten
  BY DEF PRInv
<1> QED
  BY <1>1, <1>2, PRInitInv, PTL DEF PRSpec


-----------------------------------------------------------------------------
(* Extraction. *)

(* The reader's part of the invariant. *)
ReaderInv ==
    /\ counters \in [Counters -> Nat] /\ attempt \in Nat
    /\ errorRanges \in Seq(Nat \X Faults)
    /\ RetryPending /\ ReadAccounting

(* A new reader has counted nothing (read_errors.py:80-103).                *)
LEMMA ReaderStarts == ASSUME NewReader PROVE ReaderInv'
  BY DEF NewReader, ReaderInv, NoCounts, Counters, RetryPending, ReadAccounting

(* Counting keeps the counters natural, and adds one to those it names.     *)
LEMMA CountedAdds ==
    ASSUME counters \in [Counters -> Nat], NEW names
    PROVE  /\ Counted(names) \in [Counters -> Nat]
           /\ \A n \in Counters :
                /\ n \in names => Counted(names)[n] = counters[n] + 1
                /\ n \notin names => Counted(names)[n] = counters[n]
  BY DEF Counted

(* The counters of a fault are never those of a success or of a retry.      *)
LEMMA FaultCountersApart ==
    ASSUME NEW fault
    PROVE  FaultCounters(fault) \subseteq
                {"attempted_reads", "timeouts", "invalid_reads", "short_reads"}
  BY DEF FaultCounters, CounterOf

(* A read that succeeds is counted, as recovered when it was retried        *)
(* (read_errors.py:121-171).                                                *)
LEMMA ReadOkKeeps == ASSUME ReaderInv, ReadOk PROVE ReaderInv'
<1>a. /\ counters \in [Counters -> Nat] /\ attempt \in Nat
      /\ errorRanges \in Seq(Nat \X Faults)
  BY DEF ReaderInv
<1>b. \A n \in Counters : counters[n] \in Nat
  BY <1>a
<1> DEFINE more == IF attempt > 0 THEN {"recovered_after_retry"} ELSE {}
           names == {"attempted_reads", "successful_reads"} \cup more
<1>1. counters' = Counted(names) /\ attempt' = 0 /\ errorRanges' = errorRanges
  BY DEF ReadOk
<1>2. more = IF attempt > 0 THEN {"recovered_after_retry"} ELSE {}
  OBVIOUS
<1> HIDE DEF more
<1>3. "attempted_reads" \in names /\ "successful_reads" \in names
      /\ "retry_reads" \notin names /\ "failed_reads" \notin names
      /\ "skipped_bytes" \notin names
      /\ (attempt > 0 => "recovered_after_retry" \in names)
      /\ (~ (attempt > 0) => "recovered_after_retry" \notin names)
  BY <1>2
<1> HIDE DEF names
<1>4. /\ counters' \in [Counters -> Nat]
      /\ counters'["attempted_reads"] = counters["attempted_reads"] + 1
      /\ counters'["successful_reads"] = counters["successful_reads"] + 1
      /\ counters'["retry_reads"] = counters["retry_reads"]
      /\ counters'["failed_reads"] = counters["failed_reads"]
      /\ counters'["skipped_bytes"] = counters["skipped_bytes"]
      /\ attempt > 0 => counters'["recovered_after_retry"]
                              = counters["recovered_after_retry"] + 1
      /\ ~ (attempt > 0) => counters'["recovered_after_retry"]
                              = counters["recovered_after_retry"]
  BY <1>a, <1>1, <1>3, CountedAdds DEF Counters
<1>5. ReadAccounting'
  <2>1. Len(errorRanges') = Len(errorRanges) /\ ReadAccounting /\ RetryPending
    BY <1>1 DEF ReaderInv
  <2>2. /\ \A n \in Counters : counters[n] \in Int
        /\ counters["attempted_reads"] = counters["successful_reads"]
              + counters["retry_reads"] + counters["failed_reads"]
        /\ counters["skipped_bytes"] = Len(errorRanges)
    BY <2>1, <1>b DEF ReadAccounting
  <2>3. /\ counters'["attempted_reads"] = counters'["successful_reads"]
              + counters'["retry_reads"] + counters'["failed_reads"]
        /\ counters'["skipped_bytes"] = Len(errorRanges')
    <3>1. counters["attempted_reads"] \in Nat /\ counters["successful_reads"] \in Nat
          /\ counters["retry_reads"] \in Nat /\ counters["failed_reads"] \in Nat
      BY <1>b DEF Counters
    <3> QED
      BY <2>1, <2>2, <3>1, <1>4
  <2>4. counters'["recovered_after_retry"] <= counters'["retry_reads"]
    <3>1. counters["recovered_after_retry"] <= counters["retry_reads"]
      BY <2>1 DEF ReadAccounting
    <3>2. attempt > 0 => counters["recovered_after_retry"] < counters["retry_reads"]
      BY <2>1 DEF RetryPending
    <3> QED
      BY <1>b, <3>1, <3>2, <1>4 DEF Counters
  <2> QED
    BY <2>3, <2>4 DEF ReadAccounting
<1>6. RetryPending'
  BY <1>a, <1>b, <1>1, <1>4 DEF ReaderInv, RetryPending, ReadAccounting, Counters
<1> QED
  BY <1>a, <1>1, <1>4, <1>5, <1>6 DEF ReaderInv

(* A failed attempt is counted as a retry or as a gap                       *)
(* (read_errors.py:121-171).                                                *)
LEMMA ReaderKeeps ==
    ASSUME ReaderInv, NEW sector \in Nat, NEW fault \in Faults,
           ReadRetry(fault) \/ ReadGap(sector, fault)
    PROVE  ReaderInv'
<1>0. "attempted_reads" \in FaultCounters(fault)
  BY DEF FaultCounters
<1>a. /\ counters \in [Counters -> Nat] /\ attempt \in Nat
      /\ errorRanges \in Seq(Nat \X Faults)
  BY DEF ReaderInv
<1>b. /\ counters["attempted_reads"] \in Nat /\ counters["successful_reads"] \in Nat
      /\ counters["retry_reads"] \in Nat /\ counters["failed_reads"] \in Nat
      /\ counters["skipped_bytes"] \in Nat /\ counters["recovered_after_retry"] \in Nat
  BY <1>a DEF Counters
<1>c. /\ counters["attempted_reads"] = counters["successful_reads"]
            + counters["retry_reads"] + counters["failed_reads"]
      /\ counters["skipped_bytes"] = Len(errorRanges)
      /\ counters["recovered_after_retry"] <= counters["retry_reads"]
  BY DEF ReaderInv, ReadAccounting
<1>2. CASE ReadRetry(fault)
  <2> DEFINE names == FaultCounters(fault) \cup {"retry_reads"}
  <2>1. counters' = Counted(names) /\ attempt' = attempt + 1 /\ errorRanges' = errorRanges
    BY <1>2 DEF ReadRetry
  <2>2. "attempted_reads" \in names /\ "successful_reads" \notin names
        /\ "retry_reads" \in names /\ "failed_reads" \notin names
        /\ "skipped_bytes" \notin names /\ "recovered_after_retry" \notin names
    BY <1>0, FaultCountersApart
  <2> HIDE DEF names
  <2>3. /\ counters' \in [Counters -> Nat]
        /\ counters'["attempted_reads"] = counters["attempted_reads"] + 1
        /\ counters'["successful_reads"] = counters["successful_reads"]
        /\ counters'["retry_reads"] = counters["retry_reads"] + 1
        /\ counters'["failed_reads"] = counters["failed_reads"]
        /\ counters'["skipped_bytes"] = counters["skipped_bytes"]
        /\ counters'["recovered_after_retry"] = counters["recovered_after_retry"]
    BY <1>a, <2>1, <2>2, CountedAdds DEF Counters
  <2>5. ReadAccounting'
    <3>1. Len(errorRanges') = Len(errorRanges)
      BY <2>1
    <3> QED
      BY <1>b, <1>c, <3>1, <2>3, SMTT(30) DEF ReadAccounting
  <2>6. RetryPending'
    BY <1>b, <1>c, <2>3 DEF RetryPending
  <2> QED
    BY <1>a, <2>1, <2>3, <2>5, <2>6 DEF ReaderInv
<1>3. CASE ReadGap(sector, fault)
  <2> DEFINE names == FaultCounters(fault) \cup {"failed_reads", "skipped_bytes"}
  <2>1. counters' = Counted(names) /\ attempt' = 0
    BY <1>3 DEF ReadGap
  <2>2. "attempted_reads" \in names /\ "successful_reads" \notin names
        /\ "retry_reads" \notin names /\ "failed_reads" \in names
        /\ "skipped_bytes" \in names /\ "recovered_after_retry" \notin names
    BY <1>0, FaultCountersApart
  <2> HIDE DEF names
  <2>3. /\ counters' \in [Counters -> Nat]
        /\ counters'["attempted_reads"] = counters["attempted_reads"] + 1
        /\ counters'["successful_reads"] = counters["successful_reads"]
        /\ counters'["retry_reads"] = counters["retry_reads"]
        /\ counters'["failed_reads"] = counters["failed_reads"] + 1
        /\ counters'["skipped_bytes"] = counters["skipped_bytes"] + 1
        /\ counters'["recovered_after_retry"] = counters["recovered_after_retry"]
    BY <1>a, <2>1, <2>2, CountedAdds DEF Counters
  <2>4. /\ errorRanges' \in Seq(Nat \X Faults) /\ Len(errorRanges') = Len(errorRanges) + 1
        /\ errorRanges' # <<>>
    BY <1>3, <1>a DEF ReadGap
  <2>5. ReadAccounting'
    <3>1. /\ counters'["attempted_reads"] = counters'["successful_reads"]
                + counters'["retry_reads"] + counters'["failed_reads"]
          /\ counters'["recovered_after_retry"] <= counters'["retry_reads"]
      BY <1>b, <1>c, <2>3
    <3>2. counters'["skipped_bytes"] = Len(errorRanges')
      BY <1>c, <2>3, <2>4
    <3> QED
      BY <3>1, <3>2 DEF ReadAccounting
  <2> QED
    BY <2>1, <2>3, <2>4, <2>5 DEF ReaderInv, RetryPending
<1> QED
  BY <1>2, <1>3

-----------------------------------------------------------------------------
\* Where a put has its content in the store.
Past == {"final", "replace", "lock", "meta", "publish", "done"}

(* A step of put_bytes that needs nothing from the caller leaves the other  *)
(* writer's call where it is, never ends a call, and comes past the writing *)
(* only from there (scratch_store.py:86-130).                               *)
LEMMA PutStepMoves ==
    ASSUME pc \in [Writers -> Steps], NEW w \in Writers, PutStep(w)
    PROVE  /\ pc' \in [Writers -> Steps] /\ content' = content
           /\ \A v \in Writers \ {w} : pc'[v] = pc[v]
           /\ pc[w] # "idle" /\ pc'[w] # "idle"
           /\ pc'[w] \in Past => pc[w] \in Past
  BY DEF PutStep, CleanupOne, OpenTemp, CheckFinal, Replace, TakeLock, WriteMeta,
         PublishMeta, Raise, Steps, Past

(* What a step that leaves the extraction alone has to keep.                *)
LEMMA ExtractionAlone ==
    ASSUME RecoveryInv, UNCHANGED <<readerVars, extractVars>>,
           pc' \in [Writers -> Steps], content' = [w \in Writers |-> content'[w]],
           pc'[X] = "idle" <=> pc[X] = "idle",
           PutIsBuffer'
    PROVE  RecoveryInv'
<1> USE DEF readerVars, extractVars
<1>1. RecoveryTypeOK'
  BY DEF RecoveryInv, RecoveryTypeOK
<1>2. JobHasPut' /\ BufferIsRead' /\ CheckpointIsStart'
  BY DEF RecoveryInv, JobHasPut, BufferIsRead, CheckpointIsStart
<1>3. RetryPending' /\ ReadAccounting'
  BY DEF RecoveryInv, RetryPending, ExtractionHolds, ReadAccounting
<1>4. ExtractedIsFaithful'
  BY DEF RecoveryInv, ExtractionHolds, ExtractedIsFaithful
<1> QED
  BY <1>1, <1>2, <1>3, <1>4 DEF RecoveryInv, ExtractionHolds

(* The ingestion's calls, and the steps of either call inside the store,    *)
(* leave the extraction alone (carved_ingestion.py:60-170).                 *)
LEMMA StoreStepKeeps == ASSUME RecoveryInv, StoreStep PROVE RecoveryInv'
<1>1. PICK w \in Writers : PutStep(w)
  BY DEF StoreStep
<1>2. pc \in [Writers -> Steps] /\ X \in Writers
  BY RecoveryAssumption DEF RecoveryInv, RecoveryTypeOK
<1>3. /\ pc' \in [Writers -> Steps] /\ content' = content
      /\ pc'[X] = "idle" <=> pc[X] = "idle"
      /\ pc'[X] \in Past => pc[X] \in Past
  BY <1>1, <1>2, PutStepMoves
<1>4. PutIsBuffer'
  BY <1>3 DEF RecoveryInv, PutIsBuffer, Past, StoreStep, extractVars
<1>5. content' = [v \in Writers |-> content'[v]]
  BY <1>3 DEF RecoveryInv, RecoveryTypeOK
<1> QED
  BY <1>3, <1>4, <1>5, ExtractionAlone DEF StoreStep

\* The carver and the ingestion leave the extraction alone.
LEMMA IngestionKeeps ==
    ASSUME RecoveryInv,
           \/ CarverWrites \/ CarverRenames \/ Scan \/ IngestBegins \/ IngestGone \/ IngestEnds
           \/ \E space \in BOOLEAN : IngestReads(space)
    PROVE  RecoveryInv'
<1>1. pc \in [Writers -> Steps] /\ X \in Writers /\ I \in Writers /\ X # I
      /\ content = [w \in Writers |-> content[w]]
  BY RecoveryAssumption DEF RecoveryInv, RecoveryTypeOK
<1>2. UNCHANGED <<readerVars, extractVars>>
  BY DEF CarverWrites, CarverRenames, Scan, IngestBegins, IngestGone, IngestEnds, IngestReads
<1>3. \/ UNCHANGED scratchVars
      \/ BeginPut(I) \/ Collect(I) \/ FailWrite(I)
      \/ \E space \in BOOLEAN :
            EndWrite(I, SubSeq(Carving, 1, carved.size), carved.size = ingest.size, space)
  BY DEF CarverWrites, CarverRenames, Scan, IngestBegins, IngestGone, IngestEnds, IngestReads
<1>4. pc' \in [Writers -> Steps] /\ pc'[X] = pc[X]
  BY <1>1, <1>3 DEF BeginPut, Collect, FailWrite, EndWrite, Raise, Steps, scratchVars
<1>5. content' = [w \in Writers |-> content'[w]] /\ content'[X] = content[X]
  <2>1. CASE content' = content
    BY <1>1, <2>1
  <2>2. CASE \E c : content' = [content EXCEPT ![I] = c]
    BY <1>1, <2>2
  <2> QED
    BY <1>3, <2>1, <2>2 DEF BeginPut, Collect, FailWrite, EndWrite, scratchVars
<1>6. PutIsBuffer'
  BY <1>2, <1>4, <1>5 DEF RecoveryInv, PutIsBuffer, extractVars
<1> QED
  BY <1>2, <1>4, <1>5, <1>6, ExtractionAlone

-----------------------------------------------------------------------------
\* No extraction in hand is a job too.
LEMMA NoJobTyped == NoJob \in JobType
<1>1. <<>> \in Seq(Block) /\ <<>> \in Seq([sector: Nat, sparse: BOOLEAN])
  OBVIOUS
<1>2. NoEntry \in EntryType
  <2>1. NoSize \in Int
    BY DEF NoSize
  <2>2. FALSE \in BOOLEAN
    BY Zenon
  <2>3. "unknown" \in EntryKinds
    BY DEF EntryKinds
  <2> QED
    BY <1>1, <2>1, <2>2, <2>3, Zenon DEF NoEntry, EntryType
<1> QED
  BY <1>1, <1>2 DEF NoJob, JobType

(* An entry that is not declined is allocated (content_extraction.py:52-85). *)
LEMMA NotDeclined ==
    ASSUME NEW e \in EntryType, Declined(e) = "" PROVE e.allocated
  BY DEF Declined, EntryType

(* A reader's fields are the reader's part of the invariant.                *)
LEMMA ReaderPart == RecoveryInv => ReaderInv
  BY DEF RecoveryInv, RecoveryTypeOK, ReaderInv, ExtractionHolds

(* BeginPut and Collect move the extraction's own call.                     *)
LEMMA OwnCall ==
    ASSUME RecoveryInv
    PROVE  /\ X \in Writers
           /\ BeginPut(X) => /\ pc' \in [Writers -> Steps] /\ pc'[X] = "cleanup"
                             /\ content' = [w \in Writers |-> content'[w]]
           /\ Collect(X) => /\ pc' \in [Writers -> Steps] /\ pc'[X] = "idle"
                            /\ content' = [w \in Writers |-> content'[w]]
           /\ FailWrite(X) => /\ pc' \in [Writers -> Steps] /\ pc[X] = "write"
                              /\ pc'[X] = "failed" /\ content' = content
<1>1. X \in Writers /\ pc \in [Writers -> Steps] /\ content = [w \in Writers |-> content[w]]
  BY RecoveryAssumption DEF RecoveryInv, RecoveryTypeOK
<1>2. ASSUME NEW c, content' = [content EXCEPT ![X] = c]
      PROVE  content' = [w \in Writers |-> content'[w]]
  BY <1>1, <1>2
<1> QED
  BY <1>1, <1>2 DEF BeginPut, Collect, FailWrite, Raise, Steps

\* An entry that is declined ends with no content (content_extraction.py).
LEMMA DeclineKeeps ==
    ASSUME RecoveryInv, NEW e \in Entries, Decline(e) PROVE RecoveryInv'
<1> USE DEF Decline, scratchVars, readerVars
<1>1. RecoveryTypeOK' /\ JobHasPut' /\ CheckpointIsStart' /\ PutIsBuffer'
  BY DEF RecoveryInv, RecoveryTypeOK, JobHasPut, CheckpointIsStart, PutIsBuffer
<1>2. BufferIsRead'
  BY DEF RecoveryInv, BufferIsRead
<1>3. RetryPending' /\ ReadAccounting'
  BY DEF RecoveryInv, RetryPending, ExtractionHolds, ReadAccounting
<1>4. ExtractedIsFaithful'
  BY DEF ExtractedIsFaithful
<1> QED
  BY <1>1, <1>2, <1>3, <1>4 DEF RecoveryInv, ExtractionHolds

(* An extraction begins with an empty buffer, from the first extent, also   *)
(* when it resumes (content_extraction.py:87-112).                          *)
LEMMA ExtractionBegins ==
    ASSUME RecoveryInv, BeginPut(X), NewReader, UNCHANGED checkpoint, outcome' = NoOutcome,
           job' \in JobType, job'.entry \in Entries, job'.entry.allocated,
           job'.start = 0, job'.next = 0, job'.buffer = <<>>
    PROVE  RecoveryInv'
<1>1. job' # NoJob
  BY DEF NoJob, NoEntry
<1>2. pc' \in [Writers -> Steps] /\ pc'[X] = "cleanup"
      /\ content' = [w \in Writers |-> content'[w]]
  BY OwnCall
<1>3. ReaderInv'
  BY ReaderStarts
<1>4. RecoveryTypeOK' /\ CheckpointIsStart'
  BY <1>2, <1>3 DEF RecoveryInv, RecoveryTypeOK, ReaderInv, CheckpointIsStart
<1>5. JobHasPut' /\ PutIsBuffer'
  BY <1>1, <1>2 DEF JobHasPut, PutIsBuffer
<1>6. BufferIsRead'
  BY DEF BufferIsRead, JobType, EntryType
<1>7. ExtractedIsFaithful'
  BY DEF ExtractedIsFaithful, NoOutcome
<1> QED
  BY <1>3, <1>4, <1>5, <1>6, <1>7 DEF RecoveryInv, ExtractionHolds, ReaderInv

\* An extraction starts with an empty buffer, or is declined.
LEMMA ExtractKeeps ==
    ASSUME RecoveryInv, NEW e \in Entries, NEW resilient \in BOOLEAN, Extract(e, resilient)
    PROVE  RecoveryInv'
<1>1. e \in EntryType /\ e.allocated
  BY RecoveryAssumption, NotDeclined DEF Extract
<1>2. job' \in JobType /\ job'.entry = e /\ job'.start = 0 /\ job'.next = 0
      /\ job'.buffer = <<>>
  <2>1. <<>> \in Seq(Block) /\ 0 \in Nat
    OBVIOUS
  <2> QED
    BY <1>1, <2>1 DEF Extract, JobType
<1> QED
  BY <1>1, <1>2, ExtractionBegins DEF Extract

\* A resumed extraction has the buffer of its checkpoint.
LEMMA ResumeExtractionKeeps == ASSUME RecoveryInv, Resume PROVE RecoveryInv'
<1>1. /\ checkpoint \in JobType /\ checkpoint.entry \in Entries /\ checkpoint.entry.allocated
      /\ checkpoint.start = 0 /\ checkpoint.buffer = <<>>
  BY DEF Resume, RecoveryInv, RecoveryTypeOK, CheckpointIsStart
<1>2. job' \in JobType /\ job'.entry = checkpoint.entry /\ job'.start = 0 /\ job'.next = 0
      /\ job'.buffer = <<>>
  BY <1>1 DEF Resume, JobType
<1> QED
  BY <1>1, <1>2, ExtractionBegins DEF Resume

-----------------------------------------------------------------------------
(* Reading one more extent adds what it holds to the buffer, or a zero the  *)
(* reader has recorded a gap for (content_extraction.py:153-190).           *)
LEMMA ChunkKeeps ==
    ASSUME RecoveryInv, Reading, NEW block \in Block, Chunk(block),
           ReaderInv', UNCHANGED <<scratchVars, outcome, checkpoint>>,
           block \in {Zero, Bytes(job.entry)[job.next + 1]},
           errorRanges' = <<>> =>
                errorRanges = <<>> /\ block = Bytes(job.entry)[job.next + 1]
    PROVE  RecoveryInv'
<1>1. /\ job \in JobType /\ job # NoJob /\ job.entry \in Entries /\ job.entry.allocated
      /\ pc[X] = "write" /\ job.next < Len(job.entry.extents)
  BY DEF RecoveryInv, RecoveryTypeOK, JobHasPut, Reading
<1>2. /\ job.entry \in EntryType /\ job.next \in Nat /\ job.buffer \in Seq(Block)
      /\ job.entry.extents \in Seq([sector: Nat, sparse: BOOLEAN])
      /\ job.resilient \in BOOLEAN /\ job.start \in Nat
  BY <1>1 DEF JobType, EntryType
<1>3. /\ job.start = 0 /\ Len(job.buffer) = job.next
      /\ \A k \in 1..job.next : job.buffer[k] \in {Zero, Bytes(job.entry)[k]}
      /\ errorRanges = <<>> => \A k \in 1..job.next : job.buffer[k] = Bytes(job.entry)[k]
  BY <1>1 DEF RecoveryInv, BufferIsRead
<1>4. /\ job'.entry = job.entry /\ job'.start = job.start /\ job'.next = job.next + 1
      /\ job'.buffer = Append(job.buffer, block) /\ job'.resilient = job.resilient
      /\ job' = [entry |-> job.entry, resilient |-> job.resilient, start |-> job.start,
                 next |-> job.next + 1, buffer |-> Append(job.buffer, block)]
  BY <1>1 DEF Chunk, JobType
<1>5. /\ Append(job.buffer, block) \in Seq(Block)
      /\ Len(Append(job.buffer, block)) = job.next + 1
      /\ Append(job.buffer, block)[job.next + 1] = block
      /\ \A k \in 1..job.next : Append(job.buffer, block)[k] = job.buffer[k]
  BY <1>2, <1>3
<1>6. job' \in JobType
  BY <1>2, <1>4, <1>5 DEF JobType
<1>7. job' # NoJob
  BY <1>1, <1>4 DEF NoJob, NoEntry
<1>8. RecoveryTypeOK' /\ JobHasPut' /\ CheckpointIsStart' /\ PutIsBuffer'
  <2>1. RecoveryTypeOK'
    BY <1>6 DEF RecoveryInv, RecoveryTypeOK, ReaderInv, scratchVars
  <2>2. JobHasPut' /\ PutIsBuffer'
    BY <1>1, <1>4, <1>7 DEF JobHasPut, PutIsBuffer, scratchVars
  <2>3. CheckpointIsStart'
    BY DEF RecoveryInv, CheckpointIsStart
  <2> QED
    BY <2>1, <2>2, <2>3
<1>9. BufferIsRead'
  <2>1. \A k \in 1 .. job.next + 1 : k \in 1 .. job.next \/ k = job.next + 1
    BY <1>2
  <2>2. job.next + 1 <= Len(job.entry.extents)
    BY <1>1, <1>2
  <2>3. \A k \in 1 .. job.next + 1 :
            Append(job.buffer, block)[k] \in {Zero, Bytes(job.entry)[k]}
    BY <1>3, <1>5, <2>1
  <2>4. errorRanges' = <<>> => \A k \in 1 .. job.next + 1 :
            Append(job.buffer, block)[k] = Bytes(job.entry)[k]
    BY <1>3, <1>5, <2>1
  <2> QED
    BY <1>3, <1>4, <1>5, <2>2, <2>3, <2>4, Zenon DEF BufferIsRead
<1>10. ExtractedIsFaithful'
  BY DEF RecoveryInv, ExtractionHolds, ExtractedIsFaithful
<1> QED
  BY <1>8, <1>9, <1>10 DEF RecoveryInv, ExtractionHolds, ReaderInv

(* What the next extent holds.                                              *)
LEMMA ExtentHolds ==
    ASSUME RecoveryInv, Reading
    PROVE  /\ Extent.sparse => Bytes(job.entry)[job.next + 1] = Zero
           /\ ~Extent.sparse => /\ Bytes(job.entry)[job.next + 1] = Media[Extent.sector]
                                /\ Extent.sector \in DOMAIN Media /\ Extent.sector \in Nat
<1>1. /\ job \in JobType /\ job.entry \in Entries /\ job.next < Len(job.entry.extents)
  BY DEF RecoveryInv, RecoveryTypeOK, JobHasPut, Reading
<1>2. /\ job.next \in Nat /\ job.entry.extents \in Seq([sector: Nat, sparse: BOOLEAN])
  BY <1>1 DEF JobType, EntryType
<1>3. job.next + 1 \in DOMAIN job.entry.extents
  BY <1>1, <1>2
<1>4. Extent \in [sector: Nat, sparse: BOOLEAN] /\ Extent = job.entry.extents[job.next + 1]
  <2> DEFINE e == job.entry.extents
  <2>1. e \in Seq([sector: Nat, sparse: BOOLEAN]) /\ job.next + 1 \in 1 .. Len(e)
    BY <1>2, <1>3
  <2>2. e[job.next + 1] \in [sector: Nat, sparse: BOOLEAN]
    <3> HIDE DEF e
    <3> QED
      BY <2>1, ElementOfSeq
  <2> QED
    BY <2>2 DEF Extent
<1>5. Bytes(job.entry)[job.next + 1] = IF Extent.sparse THEN Zero ELSE Media[Extent.sector]
  BY <1>3, <1>4 DEF Bytes
<1>6. Extent.sparse \/ Extent.sector \in DOMAIN Media
  BY <1>1, <1>3, <1>4, RecoveryAssumption
<1>7. Extent.sector \in Nat
  BY <1>4
<1> QED
  BY <1>5, <1>6, <1>7

\* A block read goes to the end of the buffer.
LEMMA ReadKeeps == ASSUME RecoveryInv, ReadSparse \/ ReadSector PROVE RecoveryInv'
<1>0. ReaderInv /\ Zero \in Block
  BY ReaderPart DEF Block
<1>1. CASE ReadSparse
  <2>1. ReaderInv'
    BY <1>0, <1>1 DEF ReadSparse, readerVars, ReaderInv, RetryPending, ReadAccounting
  <2> QED
    BY <1>0, <1>1, <2>1, ExtentHolds, ChunkKeeps DEF ReadSparse, readerVars
<1>2. CASE ReadSector
  <2>0. /\ Reading /\ ~Extent.sparse /\ UNCHANGED <<scratchVars, outcome, checkpoint>>
        /\ Bytes(job.entry)[job.next + 1] = Media[Extent.sector]
        /\ Media[Extent.sector] \in Block /\ Extent.sector \in Nat
    BY <1>2, ExtentHolds DEF ReadSector, Block
  <2>1. CASE ReadOk /\ Chunk(Media[Extent.sector])
    <3>1. ReaderInv' /\ errorRanges' = errorRanges
      BY <1>0, <2>1, ReadOkKeeps DEF ReadOk
    <3> QED
      BY <2>0, <2>1, <3>1, ChunkKeeps
  <2>2. CASE ~job.resilient /\ Chunk(Media[Extent.sector]) /\ UNCHANGED readerVars
    <3>1. ReaderInv' /\ errorRanges' = errorRanges
      BY <1>0, <2>2 DEF readerVars, ReaderInv, RetryPending, ReadAccounting
    <3> QED
      BY <2>0, <2>2, <3>1, ChunkKeeps
  <2>3. CASE \E fault \in Faults : ReadRetry(fault) /\ UNCHANGED job
    <3>1. ReaderInv' /\ errorRanges' = errorRanges
      BY <1>0, <2>0, <2>3, ReaderKeeps DEF ReadRetry
    <3>2. RecoveryTypeOK' /\ JobHasPut' /\ PutIsBuffer' /\ CheckpointIsStart'
      BY <2>0, <2>3, <3>1 DEF RecoveryInv, RecoveryTypeOK, JobHasPut, PutIsBuffer,
            CheckpointIsStart, scratchVars, ReaderInv
    <3>3. BufferIsRead'
      BY <2>0, <2>3, <3>1 DEF RecoveryInv, BufferIsRead
    <3>4. ExtractedIsFaithful'
      BY <2>0 DEF RecoveryInv, ExtractionHolds, ExtractedIsFaithful
    <3> QED
      BY <3>1, <3>2, <3>3, <3>4 DEF RecoveryInv, ExtractionHolds, ReaderInv
  <2>4. CASE \E fault \in Faults : ReadGap(Extent.sector, fault) /\ Chunk(Zero)
    <3>1. ReaderInv' /\ errorRanges' # <<>>
      <4>1. PICK fault \in Faults : ReadGap(Extent.sector, fault)
        BY <2>4
      <4>2. ReaderInv'
        BY <1>0, <2>0, <4>1, ReaderKeeps
      <4>3. errorRanges \in Seq(Nat \X Faults) /\ <<Extent.sector, fault>> \in Nat \X Faults
        BY <1>0, <2>0, <4>1 DEF ReaderInv
      <4> QED
        BY <4>1, <4>2, <4>3 DEF ReadGap
    <3> QED
      BY <1>0, <2>0, <2>4, <3>1, ChunkKeeps
  <2> QED
    BY <1>2, <2>1, <2>2, <2>3, <2>4 DEF ReadSector
<1> QED
  BY <1>1, <1>2

-----------------------------------------------------------------------------
(* The put of an extraction fails in the middle, or takes the whole buffer  *)
(* (content_extraction.py:112-139, scratch_store.py:96-118).                *)
LEMMA PutKeeps ==
    ASSUME RecoveryInv, ReadFails \/ \E space \in BOOLEAN : AllRead(space)
    PROVE  RecoveryInv'
<1>1. /\ pc \in [Writers -> Steps] /\ X \in Writers
      /\ content = [w \in Writers |-> content[w]] /\ job # NoJob
  BY RecoveryAssumption DEF RecoveryInv, RecoveryTypeOK, ReadFails, AllRead, Reading
<1>2. UNCHANGED <<readerVars, extractVars>>
  BY DEF ReadFails, AllRead
<1>3. CASE ReadFails
  <2>1. pc' \in [Writers -> Steps] /\ pc[X] = "write" /\ pc'[X] = "failed" /\ content' = content
    BY <1>3, OwnCall DEF ReadFails
  <2>2. PutIsBuffer'
    BY <2>1 DEF PutIsBuffer
  <2> QED
    BY <1>1, <1>2, <2>1, <2>2, ExtractionAlone
<1>4. ASSUME NEW space \in BOOLEAN, AllRead(space) PROVE RecoveryInv'
  <2>1. /\ job.next = Len(job.entry.extents)
        /\ EndWrite(X, job.buffer, Len(job.buffer) = ExpectedSize(job.entry) - job.start, space)
    BY <1>4 DEF AllRead
  <2>2. /\ pc[X] = "write" /\ pc' \in [Writers -> Steps] /\ pc'[X] # "idle"
        /\ content' = [content EXCEPT ![X] = job.buffer]
    BY <1>1, <2>1 DEF EndWrite, Raise, Steps
  <2>3. content' = [w \in Writers |-> content'[w]] /\ content'[X] = job.buffer
    BY <1>1, <2>2
  <2>4. PutIsBuffer'
    BY <1>2, <2>1, <2>3 DEF PutIsBuffer, extractVars
  <2> QED
    BY <1>2, <2>2, <2>3, <2>4, ExtractionAlone
<1> QED
  BY <1>3, <1>4

(* An extraction that is over leaves a new reader, no job, and either a     *)
(* result that is the entry's bytes or a checkpoint at its start            *)
(* (content_extraction.py:118-139).                                         *)
LEMMA ExtractionEnds ==
    ASSUME RecoveryInv, pc' \in [Writers -> Steps], pc'[X] = "idle",
           content' = [w \in Writers |-> content'[w]],
           NewReader, job' = NoJob, checkpoint' \in JobType,
           CheckpointIsStart', ExtractedIsFaithful'
    PROVE  RecoveryInv'
<1>1. ReaderInv'
  BY ReaderStarts
<1>2. RecoveryTypeOK' /\ JobHasPut' /\ PutIsBuffer'
  BY <1>1, NoJobTyped DEF RecoveryTypeOK, JobHasPut, PutIsBuffer, ReaderInv
<1>3. BufferIsRead'
  BY DEF BufferIsRead
<1> QED
  BY <1>1, <1>2, <1>3 DEF RecoveryInv, ExtractionHolds, ReaderInv

\* The put of the buffer came back.
LEMMA ExtractDoneKeeps == ASSUME RecoveryInv, ExtractDone PROVE RecoveryInv'
<1>1. /\ job \in JobType /\ job # NoJob /\ pc[X] = "done" /\ errorRanges \in Seq(Nat \X Faults)
  BY DEF RecoveryInv, RecoveryTypeOK, ExtractDone
<1>2. content[X] = job.buffer /\ job.next = Len(job.entry.extents)
  BY <1>1 DEF RecoveryInv, PutIsBuffer
<1>3. /\ job.buffer \in Seq(Block)
      /\ job.entry.extents \in Seq([sector: Nat, sparse: BOOLEAN]) /\ job.next \in Nat
  BY <1>1 DEF JobType, EntryType
<1>4. /\ Len(job.buffer) = job.next
      /\ \A k \in 1..job.next : job.buffer[k] \in {Zero, Bytes(job.entry)[k]}
      /\ errorRanges = <<>> => \A k \in 1..job.next : job.buffer[k] = Bytes(job.entry)[k]
  BY <1>1 DEF RecoveryInv, BufferIsRead
<1>5. /\ outcome'.warnings = SparseWarnings(job.entry) \cup ReadWarnings
      /\ outcome'.content = job.buffer /\ outcome'.entry = job.entry
  BY <1>2 DEF ExtractDone
<1>6. "read_gap" \notin outcome'.warnings => errorRanges = <<>>
  BY <1>5 DEF ReadWarnings
<1>7. errorRanges = <<>> => job.buffer = Bytes(job.entry)
  <2>1. DOMAIN job.buffer = 1..job.next /\ DOMAIN Bytes(job.entry) = 1..job.next
    BY <1>2, <1>3, <1>4 DEF Bytes
  <2>2. /\ job.buffer = [k \in 1..job.next |-> job.buffer[k]]
        /\ Bytes(job.entry) = [k \in 1..job.next |-> Bytes(job.entry)[k]]
    <3>1. DOMAIN job.entry.extents = 1..job.next
      BY <1>2, <1>3
    <3>2. job.buffer = [k \in DOMAIN job.buffer |-> job.buffer[k]]
      BY <1>3
    <3> QED
      BY <2>1, <3>1, <3>2 DEF Bytes
  <2> QED
    BY <1>4, <2>2
<1>8. ExtractedIsFaithful'
  <2>1. DOMAIN job.buffer = 1..job.next
    BY <1>3, <1>4
  <2>2. Len(outcome'.content) = Len(outcome'.entry.extents)
    BY <1>2, <1>4, <1>5
  <2>3. "read_gap" \notin outcome'.warnings => outcome'.content = Bytes(outcome'.entry)
    BY <1>5, <1>6, <1>7
  <2>4. \A k \in DOMAIN outcome'.content : outcome'.content[k] \in {Zero, Bytes(outcome'.entry)[k]}
    BY <1>4, <1>5, <2>1
  <2> QED
    BY <2>2, <2>3, <2>4 DEF ExtractedIsFaithful, Bytes
<1>9. checkpoint' \in JobType /\ CheckpointIsStart'
  BY NoJobTyped DEF ExtractDone, CheckpointIsStart
<1> QED
  BY <1>8, <1>9, OwnCall, ExtractionEnds DEF ExtractDone

\* The put of the buffer failed.
LEMMA ExtractFailedKeeps == ASSUME RecoveryInv, ExtractFailed PROVE RecoveryInv'
<1>1. /\ job \in JobType /\ job # NoJob /\ job.entry \in Entries /\ job.entry.allocated
      /\ job.start = 0
  BY DEF RecoveryInv, RecoveryTypeOK, ExtractFailed, JobHasPut, BufferIsRead
<1>2. checkpoint' \in JobType /\ CheckpointIsStart'
  <2>1. <<>> \in Seq(Block) /\ 0 \in Nat
    OBVIOUS
  <2>2. CASE job.entry.extents = <<>>
    BY <2>2, NoJobTyped DEF ExtractFailed, CheckpointIsStart
  <2>3. CASE job.entry.extents # <<>>
    <3>1. checkpoint' = [job EXCEPT !.start = job.start, !.next = 0, !.buffer = <<>>]
      BY <2>3 DEF ExtractFailed, ResumePoint
    <3>2. checkpoint' \in JobType /\ checkpoint'.entry = job.entry
          /\ checkpoint'.start = 0 /\ checkpoint'.buffer = <<>>
      BY <1>1, <2>1, <3>1 DEF JobType
    <3> QED
      BY <1>1, <3>2 DEF CheckpointIsStart
  <2> QED
    BY <2>2, <2>3
<1>3. ExtractedIsFaithful'
  BY DEF ExtractFailed, ExtractedIsFaithful
<1> QED
  BY <1>2, <1>3, OwnCall, ExtractionEnds DEF ExtractFailed

\* A crash keeps the store and the checkpoint.
LEMMA RecoveryCrashKeeps == ASSUME RecoveryInv, RecoveryCrash PROVE RecoveryInv'
<1>1. /\ pc' \in [Writers -> Steps] /\ pc'[X] = "idle"
      /\ content' = [w \in Writers |-> content'[w]]
  BY RecoveryAssumption DEF RecoveryCrash, ScratchCrash, Steps
<1>2. checkpoint' \in JobType /\ CheckpointIsStart'
  BY DEF RecoveryCrash, RecoveryInv, RecoveryTypeOK, CheckpointIsStart
<1>3. ExtractedIsFaithful'
  BY DEF RecoveryCrash, ExtractedIsFaithful, NoOutcome
<1> QED
  BY <1>1, <1>2, <1>3, ExtractionEnds DEF RecoveryCrash

\* Before the first extraction.
LEMMA RecoveryInitInv == RecoveryInit => RecoveryInv
<1> SUFFICES ASSUME RecoveryInit PROVE RecoveryInv
  OBVIOUS
<1>1. ReaderInv
  BY DEF RecoveryInit, ReaderInit, ReaderInv, NoCounts, Counters, RetryPending, ReadAccounting
<1>2. RecoveryTypeOK
  BY <1>1, NoJobTyped DEF RecoveryInit, ScratchInit, RecoveryTypeOK, ReaderInv, Steps
<1>3. JobHasPut /\ PutIsBuffer /\ CheckpointIsStart /\ BufferIsRead
  BY RecoveryAssumption DEF RecoveryInit, ScratchInit, JobHasPut, PutIsBuffer,
        CheckpointIsStart, BufferIsRead
<1>4. ExtractedIsFaithful
  BY DEF RecoveryInit, NoOutcome, ExtractedIsFaithful
<1> QED
  BY <1>1, <1>2, <1>3, <1>4 DEF RecoveryInv, ExtractionHolds, ReaderInv

\* Every step keeps the invariant of the recovery.
LEMMA RecoveryStep == ASSUME RecoveryInv, [RecoveryNext]_recoveryVars PROVE RecoveryInv'
<1>1. CASE UNCHANGED recoveryVars
  <2>1. PutIsBuffer'
    BY <1>1 DEF RecoveryInv, PutIsBuffer, recoveryVars, scratchVars, extractVars
  <2>2. /\ UNCHANGED <<readerVars, extractVars>> /\ pc' = pc /\ content' = content
        /\ pc \in [Writers -> Steps] /\ content = [w \in Writers |-> content[w]]
    BY <1>1 DEF RecoveryInv, RecoveryTypeOK, recoveryVars, scratchVars
  <2> QED
    BY <2>1, <2>2, ExtractionAlone
<1>2. CASE RecoveryNext
  BY <1>2, DeclineKeeps, ExtractKeeps, ResumeExtractionKeeps, ReadKeeps, PutKeeps, ExtractDoneKeeps,
     ExtractFailedKeeps, IngestionKeeps, StoreStepKeeps, RecoveryCrashKeeps
  DEF RecoveryNext
<1> QED
  BY <1>1, <1>2

(* What an extraction reports as complete or resumed is what the source     *)
(* holds, and every attempt of a read is accounted for, whatever the        *)
(* entries, the faults of the medium, the failed attempts, the resumes, the *)
(* crashes and the ingestion that shares the scratch store                  *)
(* (content_extraction.py:99-139, read_errors.py:105-171).                  *)
THEOREM ExtractionIsFaithful == RecoverySpec => []ExtractionHolds
<1>1. RecoveryInv => ExtractionHolds
  BY DEF RecoveryInv
<1> QED
  BY <1>1, RecoveryInitInv, RecoveryStep, PTL DEF RecoverySpec

-----------------------------------------------------------------------------
(* The two writers and the store. *)

\* The carver's file may grow up to its end.
LEMMA OneMoreBlock ==
    ASSUME NEW n \in Nat, NEW file \in [size : 0 .. n, done : BOOLEAN], file.size < n
    PROVE  [file EXCEPT !.size = @ + 1] \in [size : 0 .. n, done : BOOLEAN]
  OBVIOUS

\* An extraction never has a declined entry in hand.
LEMMA EntryInHandStep ==
    ASSUME RecoveryInv, EntryInHand, [RecoveryNext]_recoveryVars
    PROVE  EntryInHand'
<1> USE DEF EntryInHand
<1>1. CASE UNCHANGED <<job, checkpoint, carved>>
  BY <1>1
<1>2. ASSUME NEW e \in Entries, NEW resilient \in BOOLEAN, Extract(e, resilient)
      PROVE  EntryInHand'
  BY <1>2 DEF Extract, carveVars
<1>3. CASE Resume
  <2>1. job'.entry = checkpoint.entry
    BY <1>3 DEF Resume, RecoveryInv, RecoveryTypeOK, JobType
  <2> QED
    BY <1>3, <2>1 DEF Resume, carveVars
<1>4. ASSUME NEW block, Chunk(block), job # NoJob, UNCHANGED <<checkpoint, carved>>
      PROVE  EntryInHand'
  <2>1. job'.entry = job.entry
    BY <1>4 DEF Chunk, RecoveryInv, RecoveryTypeOK, JobType
  <2> QED
    BY <1>4, <2>1
<1>5. CASE ReadSparse
  BY <1>4, <1>5 DEF ReadSparse, Reading, carveVars
<1>6. CASE ReadSector
  BY <1>1, <1>4, <1>6 DEF ReadSector, Reading, carveVars
<1>7. CASE ExtractDone
  BY <1>7 DEF ExtractDone, carveVars
<1>8. CASE ExtractFailed
  <2>1. checkpoint' = NoJob \/ checkpoint'.entry = job.entry
    BY <1>8 DEF ExtractFailed, RecoveryInv, RecoveryTypeOK, JobType
  <2> QED
    BY <1>8, <2>1 DEF ExtractFailed, carveVars
<1>9. CASE CarverWrites
  <2>1. PICK n \in Nat : n = Len(Carving)
    BY ContentsAssumption, Zenon
  <2>2. /\ carved \in [size : 0 .. n, done : BOOLEAN] /\ carved.size < n
        /\ carved' = [carved EXCEPT !.size = @ + 1] /\ UNCHANGED <<job, checkpoint>>
    BY <1>9, <2>1, Zenon DEF CarverWrites, extractVars
  <2>3. carved' \in [size : 0 .. n, done : BOOLEAN]
    BY <2>2, OneMoreBlock, Zenon
  <2> QED
    BY <2>1, <2>2, <2>3, Zenon
<1>10. CASE CarverRenames
  BY <1>10 DEF CarverRenames, extractVars
<1>11. CASE RecoveryCrash
  BY <1>11 DEF RecoveryCrash
<1>12. CASE \E e \in Entries : Decline(e)
  BY <1>1, <1>12 DEF Decline, carveVars
<1>13. CASE ReadFails \/ \E space \in BOOLEAN : AllRead(space) \/ IngestReads(space)
  BY <1>1, <1>13 DEF ReadFails, AllRead, IngestReads, carveVars, extractVars
<1>14. CASE Scan \/ IngestBegins \/ IngestGone \/ IngestEnds \/ StoreStep
  BY <1>1, <1>14 DEF Scan, IngestBegins, IngestGone, IngestEnds, StoreStep, carveVars, extractVars
<1>15. CASE UNCHANGED recoveryVars
  BY <1>1, <1>15 DEF recoveryVars, extractVars, carveVars
<1> QED
  BY <1>2, <1>3, <1>5, <1>6, <1>7, <1>8, <1>9, <1>10, <1>11, <1>12, <1>13, <1>14, <1>15
     DEF RecoveryNext

\* What an extraction has read to its end is a content.
LEMMA BufferIsContent ==
    ASSUME RecoveryInv, EntryInHand, job # NoJob, job.next = Len(job.entry.extents)
    PROVE  job.buffer \in Contents
<1>1. /\ job \in JobType /\ job.entry \in Entries /\ Declined(job.entry) = ""
      /\ Len(job.buffer) = job.next
      /\ \A k \in 1..job.next : job.buffer[k] \in {Zero, Bytes(job.entry)[k]}
  BY DEF RecoveryInv, RecoveryTypeOK, JobHasPut, BufferIsRead, EntryInHand
<1>2. job.buffer \in Seq(Block) /\ job.entry.extents \in Seq([sector: Nat, sparse: BOOLEAN])
  <2>1. job.entry \in EntryType
    BY <1>1, RecoveryAssumption
  <2> QED
    BY <1>1, <2>1 DEF JobType, EntryType
<1>3. DOMAIN job.buffer = 1..job.next /\ DOMAIN job.entry.extents = 1..job.next
  BY <1>1, <1>2, LenProperties
<1>4. job.buffer \in [DOMAIN job.entry.extents -> Block]
  BY <1>2, <1>3
<1> QED
  BY <1>1, <1>3, <1>4, ContentsAssumption DEF Block

\* Every step of the extraction and of the ingestion is, for the store, a step of one of
\* its writers, a crash, or none.
LEMMA StoreIsDriven ==
    ASSUME RecoveryInv, EntryInHand, [RecoveryNext]_recoveryVars
    PROVE  [ScratchNext]_scratchVars
<1> USE RecoveryAssumption
<1>1. X \in Writers /\ I \in Writers
  OBVIOUS
<1>2. CASE UNCHANGED scratchVars
  BY <1>2
<1>3. ASSUME NEW w \in Writers, BeginPut(w) \/ PutStep(w) \/ FailWrite(w) \/ Collect(w)
      PROVE  ScratchNext
  BY <1>3 DEF ScratchNext
<1>4. ASSUME NEW w \in Writers, NEW c \in Contents, NEW e \in BOOLEAN, NEW s \in BOOLEAN,
             EndWrite(w, c, e, s)
      PROVE  ScratchNext
  BY <1>4, Zenon DEF ScratchNext
<1>5. CASE \E e \in Entries : Decline(e) \/ \E resilient \in BOOLEAN : Extract(e, resilient)
  BY <1>1, <1>2, <1>3, <1>5 DEF Decline, Extract
<1>6. CASE Resume \/ ReadSparse \/ ReadSector \/ ReadFails \/ ExtractDone \/ ExtractFailed
  BY <1>1, <1>2, <1>3, <1>6
     DEF Resume, ReadSparse, ReadSector, ReadFails, ExtractDone, ExtractFailed
<1>7. ASSUME NEW space \in BOOLEAN, AllRead(space) PROVE ScratchNext
  <2>1. job.buffer \in Contents
    BY <1>7, BufferIsContent DEF AllRead
  <2>2. (Len(job.buffer) = ExpectedSize(job.entry) - job.start) \in BOOLEAN
    OBVIOUS
  <2> QED
    BY <1>1, <1>4, <1>7, <2>1, <2>2, Zenon DEF AllRead
<1>8. ASSUME NEW space \in BOOLEAN, IngestReads(space) PROVE ScratchNext
  <2>1. SubSeq(Carving, 1, carved.size) \in Contents
    BY ContentsAssumption DEF EntryInHand
  <2>2. (carved.size = ingest.size) \in BOOLEAN
    OBVIOUS
  <2>3. \/ EndWrite(I, SubSeq(Carving, 1, carved.size), carved.size = ingest.size, space)
        \/ FailWrite(I)
    BY <1>8, Zenon DEF IngestReads
  <2> QED
    BY <1>1, <1>3, <1>4, <2>1, <2>2, <2>3, Zenon
<1>9. CASE CarverWrites \/ CarverRenames \/ Scan \/ IngestBegins \/ IngestGone \/ IngestEnds
  BY <1>1, <1>2, <1>3, <1>9
     DEF CarverWrites, CarverRenames, Scan, IngestBegins, IngestGone, IngestEnds
<1>10. CASE StoreStep
  BY <1>3, <1>10 DEF StoreStep
<1>11. CASE RecoveryCrash
  BY <1>11 DEF RecoveryCrash, ScratchNext
<1>12. CASE UNCHANGED recoveryVars
  BY <1>12 DEF recoveryVars
<1> QED
  BY <1>5, <1>6, <1>7, <1>8, <1>9, <1>10, <1>11, <1>12 DEF RecoveryNext

(* Extraction (content_extraction.py) and ingestion (carved_ingestion.py),  *)
(* at work together and through failures and crashes, use the store only    *)
(* through put_bytes: what is proved of the store holds under them.         *)
THEOREM RecoveryDrivesStore == RecoverySpec => ScratchSpec
<1>1. RecoveryInit => ScratchInit /\ EntryInHand
  BY DEF RecoveryInit, EntryInHand
<1>2. RecoveryInv /\ EntryInHand /\ [RecoveryNext]_recoveryVars
        => EntryInHand' /\ [ScratchNext]_scratchVars
  BY EntryInHandStep, StoreIsDriven
<1> QED
  BY <1>1, <1>2, RecoveryInitInv, RecoveryStep, PTL DEF RecoverySpec, ScratchSpec
=============================================================================
