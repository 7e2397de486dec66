----------------------------- MODULE HostProofs -----------------------------
(***************************************************************************)
(* hostd and what relies on it: an inspection misses no lasting use of the *)
(* source, the audit trail holds together and a launch writes it by its    *)
(* own steps only, the wizard starts what was confirmed, every scanner has *)
(* its record, and a scanner that goes on reads what was confirmed; for    *)
(* any devices, processes, slots and media.                                *)
(***************************************************************************)
EXTENDS ScanLaunch, StorageTopology, FiniteSetTheorems, SequenceTheorems, TLAPS

(* Reach contains where it starts and follows every edge. *)
LEMMA ReachIsClosed ==
    ASSUME NEW from \in SUBSET Nodes, NEW edges \in SUBSET (Nodes \X Nodes)
    PROVE  /\ Reach(from, edges) \subseteq Nodes
           /\ from \subseteq Reach(from, edges)
           /\ Closed(Reach(from, edges), edges)
BY DEF Reach, Closed

(* ... and is the least such set. *)
LEMMA ReachIsLeast ==
    ASSUME NEW from \in SUBSET Nodes, NEW edges, NEW set \in SUBSET Nodes,
           from \subseteq set, Closed(set, edges)
    PROVE  Reach(from, edges) \subseteq set
BY DEF Reach

(* What is reached from a set of devices is reached from one of them. *)
LEMMA ReachFromOne ==
    ASSUME NEW from \in SUBSET Nodes, NEW edges \in SUBSET (Nodes \X Nodes),
           NEW dev \in Reach(from, edges)
    PROVE  \E n \in from : dev \in Reach({n}, edges)
<1> DEFINE set == {x \in Nodes : \E n \in from : x \in Reach({n}, edges)}
<1>1. ASSUME NEW n \in from
      PROVE  n \in Reach({n}, edges) /\ Closed(Reach({n}, edges), edges)
  BY ReachIsClosed
<1>2. from \subseteq set
  BY <1>1
<1>3. Closed(set, edges)
  BY <1>1 DEF Closed
<1> QED
  BY <1>2, <1>3, ReachIsLeast

(* A non-empty set of natural numbers has a least element. *)
LEMMA NatMin ==
    ASSUME NEW T \in SUBSET Nat, T # {}
    PROVE  \E x \in T : \A y \in T : x <= y
<1> DEFINE R == OpToRel(<, Nat)
<1>1. \A x, y \in Nat : x < y => <<x, y>> \in R
  BY Zenon DEF OpToRel
<1>2. IsWellFoundedOn(R, Nat)
  BY NatLessThanWellFounded
<1> HIDE DEF R
<1>3. PICK x \in T : \A y \in T : ~(<<y, x>> \in R)
  BY <1>2, WFMin
<1>4. \A y \in T : ~(y < x)
  BY <1>1, <1>3, Zenon
<1> QED
  BY <1>4

(* A sequence of more than one target has a tail left to prepare. *)
LEMMA TailNotEmpty ==
    ASSUME NEW S, NEW s \in Seq(S), s # <<>>, Len(s) # 1
    PROVE  Tail(s) # <<>>
<1>1. Len(s) \in Nat /\ Len(s) # 0
  OBVIOUS
<1>2. Len(Tail(s)) = Len(s) - 1
  BY HeadTailProperties
<1>3. Len(s) - 1 # 0
  BY <1>1
<1>4. Len(Tail(s)) # 0
  BY <1>2, <1>3, Zenon
<1>5. Len(<<>>) = 0
  OBVIOUS
<1> QED
  BY <1>4, <1>5, Zenon

(* mountinfo has finitely many lines. *)
LEMMA RangeIsFinite ==
    ASSUME NEW S, NEW s \in Seq(S)
    PROVE  IsFiniteSet(Range(s))
<1>1. s \in Surjection(1..Len(s), Range(s))
  BY DEF Surjection, Range
<1>2. IsFiniteSet(1..Len(s))
  BY FS_Interval
<1> QED
  BY <1>1, <1>2, FS_Surjection

(* The mount a destination below /export lies on, where one covers it. *)
LEMMA FoundMountCovers ==
    ASSUME NEW seen \in Seq(Mounts), NEW i \in DOMAIN seen, seen[i].point = "/export"
    PROVE  /\ FoundMount(seen) \in DOMAIN seen
           /\ seen[FoundMount(seen)].point = "/export"
<1> DEFINE deep == {k \in DOMAIN seen : seen[k].point = "/export"}
           Best(x) == \A j \in DOMAIN seen :
                           \/ Depth(seen[x].point) > Depth(seen[j].point)
                           \/ Depth(seen[x].point) = Depth(seen[j].point) /\ x <= j
           f == FoundMount(seen)
<1>1. deep \in SUBSET Nat /\ deep # {} /\ DOMAIN seen \subseteq Nat
  OBVIOUS
<1>2. PICK k \in deep : \A j \in deep : k <= j
  BY <1>1, NatMin
<1>3. k \in DOMAIN seen /\ Best(k)
  BY <1>1, <1>2 DEF Depth
<1>4. f \in DOMAIN seen /\ Best(f)
  <2>1. f = CHOOSE x \in DOMAIN seen : Best(x)
    BY DEF FoundMount
  <2> HIDE DEF Best, f
  <2> QED
    BY <1>3, <2>1
<1> QED
  BY <1>4 DEF Depth

\* Mounts and holders are the kernel's, and so is what an inspection copied of them.
TopologyTypeOK ==
    /\ mounts \in Seq(Mounts) /\ holders \subseteq Stackable
    /\ inspection \in [at : {"idle", "walk", "done"}, mounts : Seq(Mounts),
                       pending : SUBSET Nodes, visited : SUBSET Nodes,
                       graph : SUBSET (Nodes \X Nodes), safe : BOOLEAN,
                       denied : BOOLEAN, separate : BOOLEAN]
    /\ lasting \in [mounts : SUBSET Mounts, holders : SUBSET Stackable]

(* What has lasted is still there, and was there when mountinfo was read. *)
LastingIsThere ==
    /\ lasting.holders \subseteq holders
    /\ lasting.mounts \subseteq Range(inspection.mounts)

(* The walk of read_holder_graph: whatever it has met it has visited or will  *)
(* visit, and of a visited device it knows every holder that lasted.          *)
WalkIsComplete ==
    inspection.at \in {"walk", "done"} =>
        /\ Source \subseteq inspection.visited \cup inspection.pending
        /\ \A e \in inspection.graph : e[2] \in inspection.visited \cup inspection.pending
        /\ \A e \in lasting.holders : e[1] \in inspection.visited => e \in inspection.graph

(* The answers are those of the mounts and the graph that were read. *)
AnswersAreEvaluated ==
    inspection.at = "done" =>
        /\ inspection.pending = {}
        /\ inspection.safe = SafeForPreparation(inspection.mounts, inspection.graph)
        /\ inspection.denied = DeniedByDefault(inspection.mounts, inspection.graph)
        /\ inspection.separate = Separate(inspection.mounts, inspection.graph)

\* The inductive invariant of an inspection.
TopologyInv ==
    TopologyTypeOK /\ LastingIsThere /\ WalkIsComplete /\ AnswersAreEvaluated

(* No inspection has begun. *)
LEMMA TopologyInitInv == TopologyInit => TopologyInv
<1> SUFFICES ASSUME TopologyInit PROVE TopologyInv
  OBVIOUS
<1>1. mounts \in Seq(Mounts)
  <2>1. CASE mounts = <<>>
    BY <2>1
  <2>2. ASSUME NEW m \in Mounts, mounts = <<m>> PROVE mounts \in Seq(Mounts)
    BY <2>2
  <2> QED
    BY <2>1, <2>2 DEF TopologyInit
<1> QED
  BY <1>1, TopologyAssumption DEF TopologyInit, TopologyInv, TopologyTypeOK,
    LastingIsThere, WalkIsComplete, AnswersAreEvaluated, NotInspecting, Range

(* mount, umount, and devices stacked or taken apart. *)
LEMMA KernelKeepsInv ==
    ASSUME TopologyInv, NEW newMounts \in Seq(Mounts), NEW newHolders \in SUBSET Stackable,
           KernelChange(newMounts, newHolders)
    PROVE  TopologyInv'
BY DEF KernelChange, TopologyInv, TopologyTypeOK, LastingIsThere, WalkIsComplete,
    AnswersAreEvaluated

(* Every step of the kernel and of the inspection keeps the invariant. *)
LEMMA TopologyNextInv == TopologyInv /\ [TopologyNext]_topologyVars => TopologyInv'
<1> SUFFICES ASSUME TopologyInv, [TopologyNext]_topologyVars PROVE TopologyInv'
  OBVIOUS
<1> USE DEF TopologyInv
<1>1. ASSUME NEW m \in Mounts, MountOne(m) PROVE TopologyInv'
  <2>1. Append(mounts, m) \in Seq(Mounts) /\ holders \in SUBSET Stackable
    BY DEF TopologyTypeOK
  <2> QED
    BY <1>1, <2>1, KernelKeepsInv DEF MountOne
<1>2. ASSUME NEW i \in DOMAIN mounts, Unmount(i) PROVE TopologyInv'
  <2>1. RemoveAt(mounts, i) \in Seq(Mounts) /\ holders \in SUBSET Stackable
    BY DEF TopologyTypeOK, RemoveAt
  <2> QED
    BY <1>2, <2>1, KernelKeepsInv DEF Unmount
<1>3. ASSUME NEW e \in Stackable, Stack(e) \/ Unstack(e) PROVE TopologyInv'
  <2>1. /\ mounts \in Seq(Mounts) /\ holders \cup {e} \in SUBSET Stackable
        /\ holders \ {e} \in SUBSET Stackable
    BY DEF TopologyTypeOK
  <2> QED
    BY <1>3, <2>1, KernelKeepsInv DEF Stack, Unstack
<1>4. CASE InspectBegin
  <2>1. /\ inspection' = [at |-> "walk", mounts |-> mounts, pending |-> Source,
                          visited |-> {}, graph |-> {}, safe |-> FALSE,
                          denied |-> FALSE, separate |-> FALSE]
        /\ lasting' = [mounts |-> Range(mounts), holders |-> holders]
        /\ UNCHANGED <<mounts, holders, changes>>
    BY <1>4 DEF InspectBegin, NotInspecting
  <2>2. Range(mounts) \subseteq Mounts
    BY DEF Range, TopologyTypeOK
  <2>3. TopologyTypeOK'
    BY <2>1, <2>2, TopologyAssumption DEF TopologyTypeOK
  <2> QED
    BY <2>1, <2>3 DEF LastingIsThere, WalkIsComplete, AnswersAreEvaluated
<1>5. ASSUME NEW n \in Nodes, WalkOne(n) PROVE TopologyInv'
  <2> DEFINE found == {e[2] : e \in {x \in holders : x[1] = n}}
             edges == {<<n, h>> : h \in found}
  <2>1. /\ inspection.at = "walk" /\ n \in inspection.pending
        /\ inspection' = [inspection EXCEPT
              !.visited = @ \cup {n}, !.graph = @ \cup edges,
              !.pending = (@ \cup found) \ (inspection.visited \cup {n})]
        /\ UNCHANGED <<mounts, holders, changes, lasting>>
    BY <1>5 DEF WalkOne, Followed
  <2>2. found \subseteq Nodes /\ edges \subseteq Nodes \X Nodes
    BY TopologyAssumption DEF TopologyTypeOK
  <2>3. TopologyTypeOK' /\ LastingIsThere'
    BY <2>1, <2>2 DEF TopologyTypeOK, LastingIsThere
  <2>4. \A e \in lasting.holders : e[1] = n => e \in edges
    <3> SUFFICES ASSUME NEW e \in lasting.holders, e[1] = n PROVE e \in edges
      OBVIOUS
    <3>1. e \in holders /\ e \in Nodes \X Nodes
      BY TopologyAssumption DEF LastingIsThere, TopologyTypeOK
    <3> QED
      BY <3>1
  <2>5. WalkIsComplete'
    BY <2>1, <2>2, <2>4 DEF WalkIsComplete, TopologyTypeOK
  <2> QED
    BY <2>1, <2>3, <2>5 DEF AnswersAreEvaluated, TopologyTypeOK
<1>6. CASE Evaluate
  <2>1. \A seen, graph : /\ SafeForPreparation(seen, graph) \in BOOLEAN
                         /\ DeniedByDefault(seen, graph) \in BOOLEAN
                         /\ Separate(seen, graph) \in BOOLEAN
    BY DEF SafeForPreparation, DeniedByDefault, Separate
  <2> QED
    BY <1>6, <2>1 DEF Evaluate, TopologyTypeOK, LastingIsThere, WalkIsComplete,
      AnswersAreEvaluated
<1>7. CASE AnswerTaken
  BY <1>7 DEF AnswerTaken, NotInspecting, TopologyTypeOK, LastingIsThere,
    WalkIsComplete, AnswersAreEvaluated
<1>8. CASE UNCHANGED topologyVars
  BY <1>8 DEF topologyVars, TopologyTypeOK, LastingIsThere, WalkIsComplete,
    AnswersAreEvaluated
<1> QED
  BY <1>1, <1>2, <1>3, <1>4, <1>5, <1>6, <1>7, <1>8 DEF TopologyNext

(* What is stacked on the source and lasted is in the graph that was read,    *)
(* whatever came and went meanwhile.                                          *)
LEMMA LastingIsReached ==
    ASSUME TopologyInv, inspection.at = "done"
    PROVE  /\ Reach(Source, lasting.holders) \subseteq Reach(Source, inspection.graph)
           /\ \A e \in lasting.holders :
                  e[1] \in Reach(Source, lasting.holders) => e \in RelatedHolders(inspection.graph)
<1> DEFINE graph == inspection.graph
           R == Reach(Source, graph)
<1>1. /\ Source \in SUBSET Nodes /\ graph \in SUBSET (Nodes \X Nodes)
      /\ inspection.visited \in SUBSET Nodes /\ inspection.pending = {}
  BY TopologyAssumption DEF TopologyInv, TopologyTypeOK, AnswersAreEvaluated
<1>2. /\ Source \subseteq inspection.visited
      /\ \A e \in graph : e[2] \in inspection.visited
      /\ \A e \in lasting.holders : e[1] \in inspection.visited => e \in graph
  BY <1>1 DEF TopologyInv, WalkIsComplete
<1>3. R \subseteq inspection.visited
  <2>1. Closed(inspection.visited, graph)
    BY <1>2 DEF Closed
  <2> QED
    BY <1>1, <1>2, <2>1, ReachIsLeast
<1>4. R \in SUBSET Nodes /\ Source \subseteq R /\ Closed(R, graph)
  BY <1>1, ReachIsClosed
<1>5. \A e \in lasting.holders : e[1] \in R => e \in graph /\ e[2] \in R
  <2> HIDE DEF R
  <2> QED
    BY <1>2, <1>3, <1>4 DEF Closed
<1>6. Reach(Source, lasting.holders) \subseteq R
  <2>1. Closed(R, lasting.holders)
    BY <1>5 DEF Closed
  <2> QED
    BY <1>1, <1>4, <2>1, ReachIsLeast
<1> QED
  BY <1>5, <1>6 DEF RelatedHolders

(* The answers of a finished inspection cover every use that lasted. *)
LEMMA TopologyInvSees == TopologyInv => LastingUseIsSeen
<1> SUFFICES ASSUME TopologyInv, inspection.at = "done" PROVE LastingUseIsSeen
  BY DEF LastingUseIsSeen
<1> DEFINE seen == inspection.mounts
           graph == inspection.graph
           used == Reach(Source, lasting.holders)
           covering == {m \in Range(seen) : m.point = "/export"}
<1>1. /\ seen \in Seq(Mounts) /\ graph \in SUBSET (Nodes \X Nodes)
      /\ Source \in SUBSET Nodes
      /\ lasting.mounts \subseteq Range(seen)
      /\ inspection.safe = SafeForPreparation(seen, graph)
      /\ inspection.denied = DeniedByDefault(seen, graph)
      /\ inspection.separate = Separate(seen, graph)
  BY TopologyAssumption DEF TopologyInv, TopologyTypeOK, LastingIsThere, AnswersAreEvaluated
<1>2. ASSUME NEW m \in lasting.mounts
      PROVE  \E i \in DOMAIN seen : seen[i] = m
  BY <1>1 DEF Range
<1>3. \A dev \in used : dev \in Reach(Source, graph)
  BY LastingIsReached
<1>4. ASSUME NEW dev \in used
      PROVE  \E n \in Source : n \in Ancestors(dev, graph)
  <2>1. PICK n \in Source : dev \in Reach({n}, graph)
    BY <1>1, <1>3, ReachFromOne
  <2> QED
    BY <1>1, <2>1 DEF Ancestors
<1>5. ASSUME inspection.safe
      PROVE  /\ \A m \in lasting.mounts : m.rw => m.dev \notin used
             /\ \A e \in lasting.holders : e[1] \in used => e[2] \in Supported
  <2>1. SafeForPreparation(seen, graph)
    BY <1>1, <1>5
  <2> HIDE DEF used
  <2> QED
    BY <1>2, <1>3, <2>1, LastingIsReached DEF SafeForPreparation, used
<1>6. ASSUME ~inspection.denied, NEW m \in lasting.mounts, m.point = "/"
      PROVE  m.dev \notin used
  <2>1. ~DeniedByDefault(seen, graph)
    BY <1>1, <1>6
  <2>2. PICK i \in DOMAIN seen : seen[i] = m
    BY <1>2
  <2>3. ~OnSource(m.dev, graph)
    BY <1>6, <2>1, <2>2 DEF DeniedByDefault
  <2> QED
    BY <1>4, <2>3 DEF OnSource
<1>7. ASSUME inspection.separate, NEW m \in lasting.mounts \cap covering,
             Cardinality(covering) = 1, ~m.network
      PROVE  m.dev \notin used
  <2>1. Separate(seen, graph)
    BY <1>1, <1>7
  <2>2. PICK i \in DOMAIN seen : seen[i] = m
    BY <1>2
  <2>3. /\ FoundMount(seen) \in DOMAIN seen
        /\ seen[FoundMount(seen)].point = "/export"
    BY <1>1, <2>2, FoundMountCovers
  <2>4. seen[FoundMount(seen)] \in covering
    BY <2>3 DEF Range
  <2>5. IsFiniteSet(covering)
    BY <1>1, RangeIsFinite, FS_Subset
  <2>6. seen[FoundMount(seen)] = m
    <3>1. PICK x : covering = {x}
      BY <1>7, <2>5, FS_Singleton
    <3> QED
      BY <2>4, <3>1
  <2>7. Ancestors(m.dev, graph) \cap UNION {Ancestors(n, graph) : n \in Source} = {}
    BY <1>7, <2>1, <2>6 DEF Separate
  <2>8. \A n \in Source : n \in Ancestors(n, graph)
    BY <1>1, ReachIsClosed DEF Ancestors
  <2> QED
    BY <1>4, <2>7, <2>8
<1> QED
  BY <1>5, <1>6, <1>7 DEF LastingUseIsSeen

(* hostd/storage_inspection.py, system_disks.py, destination_separation.py,   *)
(* for any devices, mounts and stacks: an inspection that reads mountinfo and *)
(* then walks /sys while the kernel changes misses no use of the source that  *)
(* lasted from its first read to its last.                                    *)
THEOREM InspectionMissesNoLastingUse == TopologySpec => []LastingUseIsSeen
BY TopologyInitInv, TopologyNextInv, TopologyInvSees, PTL DEF TopologySpec

-----------------------------------------------------------------------------
(* The audit trail *)

\* A record: its place in the chain, its hash and its event.
AuditRecord == [sequence : Nat, previous : Nat, hash : Nat,
                event : AuditEvents \cup {"continuation"}]

\* The files hold records, and each process has at most one record in hand.
AuditTypeOK ==
    /\ segments \in Seq(Seq(AuditRecord)) /\ live \in Seq(AuditRecord)
    /\ flock \in Appenders \cup {NoAppender}
    /\ auditor \in [Appenders -> [at : {"idle", "rotate", "append", "returned", "raised"},
                                  event : AuditEvents \cup {"continuation", ""},
                                  next : Nat, last : Nat]]
    /\ built \in Nat /\ acked \subseteq Nat

(* flock: a process is between its first and its last call on the log exactly *)
(* while it holds the lock, and then the log is as it was when verified.      *)
LockIsHeld ==
    \A p \in Appenders :
        /\ auditor[p].at \in {"append", "rotate"} <=> flock = p
        /\ flock = p =>
              LET cut == auditor[p].event = "continuation" /\ auditor[p].at = "append"
                  before == IF cut THEN segments[Len(segments)] ELSE live IN
              /\ auditor[p].event \in AuditEvents \cup {"continuation"}
              /\ cut => live = <<>> /\ segments # <<>>
              /\ auditor[p].at = "rotate" => auditor[p].event = "continuation"
              /\ auditor[p].next = NextSequence(before)
              /\ auditor[p].last = LastHash(before)

(* Hashes are of records that were built. *)
HashesAreDrawn ==
    \A k \in Files : \A i \in DOMAIN File(k) : File(k)[i].hash \in 1..built

\* The inductive invariant of the audit trail.
AuditInv == AuditTypeOK /\ LockIsHeld /\ HashesAreDrawn /\ TrailHoldsTogether

(* The files of the trail, one by one. *)
LEMMA FileType ==
    ASSUME AuditTypeOK
    PROVE  /\ segments \in Seq(Seq(AuditRecord)) /\ live \in Seq(AuditRecord)
           /\ Len(segments) \in Nat /\ Len(live) \in Nat
           /\ \A k \in Files : File(k) \in Seq(AuditRecord)
           /\ File(Len(segments) + 1) = live
           /\ \A k \in 1..Len(segments) : File(k) = segments[k]
           /\ Files = 1..(Len(segments) + 1) /\ Len(segments) + 1 \in Files
<1>1. segments \in Seq(Seq(AuditRecord)) /\ live \in Seq(AuditRecord)
  BY DEF AuditTypeOK
<1>2. \A k \in 1..Len(segments) : segments[k] \in Seq(AuditRecord)
  BY <1>1
<1> QED
  BY <1>1, <1>2 DEF Files, File

(* What verify_audit_log says of a log, with records or without. *)
LEMMA StartOfChain ==
    ASSUME NEW records \in Seq(AuditRecord)
    PROVE  /\ Start(records).sequence \in Nat /\ Start(records).hash \in Nat
           /\ NextSequence(records) \in Nat /\ LastHash(records) \in Nat
           /\ LastHash(records) = IF records = <<>> THEN 0 ELSE records[Len(records)].hash
           /\ verify_audit_log(records, FALSE) /\ records # <<>> =>
                /\ Start(records).sequence = records[1].sequence
                /\ Start(records).hash = records[1].previous
<1>1. /\ Start(records).sequence \in Nat /\ Start(records).hash \in Nat
  <2>1. records # <<>> => records[1] \in AuditRecord
    OBVIOUS
  <2>2. CASE records # <<>> /\ records[1].event = "continuation"
    <3>1. /\ Start(records).sequence = records[1].sequence
          /\ Start(records).hash = records[1].previous
      BY <2>2 DEF Start
    <3> QED
      BY <2>1, <2>2, <3>1 DEF AuditRecord
  <2>3. CASE ~(records # <<>> /\ records[1].event = "continuation")
    BY <2>3 DEF Start, GENESIS
  <2> QED
    BY <2>2, <2>3
<1>2. /\ LastHash(records) = IF records = <<>> THEN 0 ELSE records[Len(records)].hash
  BY DEF LastHash, Last, GENESIS
<1>3. LastHash(records) \in Nat
  <2>1. CASE records = <<>>
    BY <1>2, <2>1
  <2>2. CASE records # <<>>
    <3>1. records[Len(records)] \in AuditRecord
      BY <2>2
    <3> QED
      BY <1>2, <2>2, <3>1 DEF AuditRecord
  <2> QED
    BY <2>1, <2>2
<1>4. NextSequence(records) \in Nat
  BY <1>1 DEF NextSequence
<1>5. ASSUME verify_audit_log(records, FALSE), records # <<>>
      PROVE  /\ Start(records).sequence = records[1].sequence
             /\ Start(records).hash = records[1].previous
  <2>1. Chained(records, Start(records).sequence, Start(records).hash)
    BY <1>5 DEF verify_audit_log
  <2>2. 1 \in DOMAIN records /\ records[1] \in AuditRecord
    BY <1>5
  <2> QED
    BY <1>1, <2>1, <2>2 DEF Chained, AuditRecord
<1> QED
  BY <1>1, <1>2, <1>3, <1>4, <1>5

(* An empty log holds together. *)
LEMMA AuditInitInv == AuditInit => AuditInv
<1> SUFFICES ASSUME AuditInit PROVE AuditInv
  OBVIOUS
<1>1. AuditTypeOK
  <2>1. segments \in Seq(Seq(AuditRecord)) /\ live \in Seq(AuditRecord)
    BY DEF AuditInit
  <2> QED
    BY <2>1 DEF AuditInit, AuditTypeOK, NotAuditing, GENESIS
<1>2. Files = {1} /\ File(1) = <<>>
  BY DEF AuditInit, Files, File
<1>3. LockIsHeld
  BY AuditAssumption DEF AuditInit, LockIsHeld, NotAuditing
<1>4. HashesAreDrawn
  BY <1>2 DEF HashesAreDrawn
<1>5. TrailHoldsTogether
  <2>1. verify_audit_log(<<>>, FALSE)
    BY DEF verify_audit_log, Chained
  <2>2. 1..Len(segments) = {} /\ acked = {}
    BY DEF AuditInit
  <2>3. \A k \in Files : File(k) = <<>> /\ DOMAIN File(k) = {}
    BY <1>2
  <2> QED
    BY <2>1, <2>2, <2>3, Zenon DEF TrailHoldsTogether
<1> QED
  BY <1>1, <1>3, <1>4, <1>5 DEF AuditInv

(* A record appended by the holder of the lock continues the log it was       *)
(* verified against, or opens the log that follows a rotation.                *)
LEMMA RecordContinuesLog ==
    ASSUME AuditInv, NEW p \in Appenders, auditor[p].at = "append",
           NEW record \in AuditRecord,
           record.sequence = auditor[p].next, record.previous = auditor[p].last,
           record.event = auditor[p].event,
           NEW next, next = Append(live, record)
    PROVE  /\ verify_audit_log(next, FALSE)
           /\ \/ live # <<>> /\ Start(next) = Start(live)
              \/ live = <<>> /\ next[1].sequence = 1 /\ next[1].previous = GENESIS
              \/ /\ live = <<>> /\ segments # <<>>
                 /\ Chained(next, NextSequence(segments[Len(segments)]),
                                  LastHash(segments[Len(segments)]))
<1> DEFINE m == Len(live)
<1>1. /\ live \in Seq(AuditRecord) /\ m \in Nat
      /\ verify_audit_log(live, FALSE)
  <2>1. AuditTypeOK
    BY DEF AuditInv
  <2>2. \A k \in Files : verify_audit_log(File(k), FALSE)
    BY DEF AuditInv, TrailHoldsTogether
  <2> QED
    BY <2>1, <2>2, FileType
<1>2. /\ next \in Seq(AuditRecord) /\ Len(next) = m + 1 /\ next # <<>>
      /\ DOMAIN next = 1..(m + 1) /\ next[m + 1] = record
      /\ \A i \in 1..m : next[i] = live[i] /\ live[i] \in AuditRecord
  BY <1>1
<1>3. flock = p
  BY DEF AuditInv, LockIsHeld
<1>4. /\ record.sequence \in Nat /\ record.previous \in Nat
  BY DEF AuditRecord
<1>5. CASE auditor[p].event = "continuation"
  <2>1. /\ live = <<>> /\ segments # <<>>
        /\ record.sequence = NextSequence(segments[Len(segments)])
        /\ record.previous = LastHash(segments[Len(segments)])
    BY <1>3, <1>5 DEF AuditInv, LockIsHeld
  <2>2. m = 0 /\ next[1] = record /\ DOMAIN next = {1}
    BY <1>2, <2>1
  <2>3. Start(next).sequence = record.sequence /\ Start(next).hash = record.previous
    BY <1>2, <1>5, <2>2 DEF Start
  <2>4. Chained(next, record.sequence, record.previous)
    BY <1>4, <2>2 DEF Chained
  <2> QED
    BY <2>1, <2>3, <2>4 DEF verify_audit_log
<1>6. CASE auditor[p].event # "continuation"
  <2>1. /\ record.sequence = NextSequence(live)
        /\ record.previous = LastHash(live)
    BY <1>3, <1>6 DEF AuditInv, LockIsHeld
  <2>2. CASE live = <<>>
    <3>1. m = 0 /\ next[1] = record /\ DOMAIN next = {1}
      BY <1>2, <2>2
    <3>2. record.sequence = 1 /\ record.previous = GENESIS
      BY <2>1, <2>2 DEF NextSequence, LastHash, Start
    <3>3. Start(next).sequence = 1 /\ Start(next).hash = GENESIS
      BY <1>6, <3>1 DEF Start
    <3>4. Chained(next, 1, GENESIS)
      BY <3>1, <3>2 DEF Chained
    <3> QED
      BY <2>2, <3>1, <3>2, <3>3, <3>4 DEF verify_audit_log
  <2>3. CASE live # <<>>
    <3>1. m >= 1 /\ next[1] = live[1]
      BY <1>1, <1>2, <2>3
    <3>2. Start(next) = Start(live)
      BY <1>2, <2>3, <3>1 DEF Start
    <3> DEFINE first == Start(live).sequence
               hash == Start(live).hash
    <3>3. first \in Nat /\ LastHash(live) = live[m].hash /\ NextSequence(live) = first + m
      BY <1>1, <2>3, StartOfChain DEF NextSequence
    <3>4. Chained(live, first, hash)
      BY <1>1 DEF verify_audit_log
    <3>5. Chained(next, first, hash)
      <4> SUFFICES ASSUME NEW i \in 1..(m + 1)
                   PROVE  /\ next[i].sequence = first + i - 1
                          /\ next[i].previous = IF i = 1 THEN hash ELSE next[i - 1].hash
        BY <1>2 DEF Chained
      <4> HIDE DEF first, hash
      <4>1. CASE i = m + 1
        BY <1>1, <1>2, <2>1, <3>1, <3>3, <4>1
      <4>2. CASE i \in 1..m
        <5>1. /\ live[i].sequence = first + i - 1
              /\ live[i].previous = IF i = 1 THEN hash ELSE live[i - 1].hash
          BY <1>1, <3>4, <4>2 DEF Chained
        <5> QED
          BY <1>1, <1>2, <4>2, <5>1
      <4> QED
        BY <1>1, <4>1, <4>2
    <3> QED
      BY <2>3, <3>2, <3>5 DEF verify_audit_log
  <2> QED
    BY <2>2, <2>3
<1> QED
  BY <1>5, <1>6

(* _append_record, complete on disk, acknowledged or not. *)
LEMMA AppendKeepsTrail ==
    ASSUME AuditInv, NEW p \in Appenders, auditor[p].at = "append",
           NEW record \in AuditRecord,
           record.sequence = auditor[p].next, record.previous = auditor[p].last,
           record.event = auditor[p].event, record.hash = built + 1,
           live' = Append(live, record), segments' = segments, built' = built + 1,
           acked' \subseteq acked \cup {built + 1}
    PROVE  HashesAreDrawn' /\ TrailHoldsTogether'
<1> DEFINE m == Len(live)
           n == Len(segments)
           next == Append(live, record)
<1>0. AuditTypeOK /\ built \in Nat
  BY DEF AuditInv, AuditTypeOK
<1>1. /\ live \in Seq(AuditRecord) /\ m \in Nat /\ n \in Nat /\ built \in Nat
      /\ segments \in Seq(Seq(AuditRecord))
  BY <1>0, FileType
<1>2. /\ next \in Seq(AuditRecord) /\ DOMAIN next = 1..(m + 1)
      /\ next[m + 1] = record /\ next # <<>>
      /\ \A i \in 1..m : next[i] = live[i]
      /\ DOMAIN live = 1..m
  BY <1>1
<1>3. /\ Files = 1..(n + 1) /\ File(n + 1) = live
      /\ \A k \in Files : File(k) \in Seq(AuditRecord)
      /\ \A k \in 1..n : File(k) = segments[k]
  BY <1>0, FileType
<1>4. /\ Files' = Files /\ (File(n + 1))' = next
      /\ \A k \in 1..n : (File(k))' = File(k)
  BY <1>1, <1>3 DEF Files, File
<1>5. \A k \in Files : \A i \in DOMAIN File(k) : File(k)[i].hash \in 1..built
  BY DEF AuditInv, HashesAreDrawn
<1> HIDE DEF next
<1>6. \A k \in Files : k \in 1..n \/ k = n + 1
  BY <1>1, <1>3
<1>7. \A k \in Files : \A i \in (DOMAIN File(k))' :
          \/ i \in DOMAIN File(k) /\ (File(k))'[i] = File(k)[i]
          \/ k = n + 1 /\ i = m + 1 /\ (File(k))'[i] = record
  <2> SUFFICES ASSUME NEW k \in Files, NEW i \in (DOMAIN File(k))'
               PROVE \/ i \in DOMAIN File(k) /\ (File(k))'[i] = File(k)[i]
                     \/ k = n + 1 /\ i = m + 1 /\ (File(k))'[i] = record
    OBVIOUS
  <2>1. CASE k \in 1..n
    BY <1>4, <2>1
  <2>2. CASE k = n + 1
    <3>1. i \in 1..(m + 1)
      BY <1>2, <1>4, <2>2
    <3> QED
      BY <1>1, <1>2, <1>3, <1>4, <2>2, <3>1
  <2> QED
    BY <1>6, <2>1, <2>2
<1>8. \A k \in Files : \A i \in DOMAIN File(k) :
          i \in (DOMAIN File(k))' /\ (File(k))'[i] = File(k)[i]
  <2> SUFFICES ASSUME NEW k \in Files, NEW i \in DOMAIN File(k)
               PROVE  i \in (DOMAIN File(k))' /\ (File(k))'[i] = File(k)[i]
    OBVIOUS
  <2>1. CASE k \in 1..n
    BY <1>4, <2>1
  <2>2. CASE k = n + 1
    <3>1. i \in 1..m /\ i \in 1..(m + 1)
      BY <1>1, <1>2, <1>3, <2>2
    <3> QED
      BY <1>2, <1>3, <1>4, <2>2, <3>1
  <2> QED
    BY <1>6, <2>1, <2>2
<1>9. HashesAreDrawn'
  BY <1>1, <1>4, <1>5, <1>7 DEF HashesAreDrawn
<1>10. /\ \A k \in Files : verify_audit_log(File(k), FALSE)
       /\ \A k, l \in Files : \A i \in DOMAIN File(k), j \in DOMAIN File(l) :
             k < l \/ (k = l /\ i < j) => File(k)[i].hash < File(l)[j].hash
       /\ \A h \in acked : \E k \in Files : \E i \in DOMAIN File(k) : File(k)[i].hash = h
       /\ \A k \in 1..n : File(k + 1) # <<>> =>
             \/ Chained(File(k + 1), NextSequence(File(k)), LastHash(File(k)))
             \/ File(k + 1)[1].sequence = 1 /\ File(k + 1)[1].previous = GENESIS
  BY DEF AuditInv, TrailHoldsTogether
<1>11. /\ verify_audit_log(next, FALSE)
       /\ \/ live # <<>> /\ Start(next) = Start(live)
          \/ live = <<>> /\ next[1].sequence = 1 /\ next[1].previous = GENESIS
          \/ /\ live = <<>> /\ segments # <<>>
             /\ Chained(next, NextSequence(segments[n]), LastHash(segments[n]))
  BY RecordContinuesLog DEF next
<1>12. ASSUME NEW k \in Files'
       PROVE  (verify_audit_log(File(k), FALSE))'
  <2>1. verify_audit_log((File(k))', FALSE)
    BY <1>4, <1>6, <1>10, <1>11
  <2> QED
    BY <2>1 DEF verify_audit_log, Chained, Start
<1>13. ASSUME NEW k \in Files', NEW l \in Files',
              NEW i \in (DOMAIN File(k))', NEW j \in (DOMAIN File(l))',
              k < l \/ (k = l /\ i < j)
       PROVE  (File(k))'[i].hash < (File(l))'[j].hash
  <2>1. k \in Files /\ l \in Files /\ k \in 1..(n + 1) /\ l \in 1..(n + 1)
    BY <1>3, <1>4
  <2>2. CASE l = n + 1 /\ j = m + 1 /\ (File(l))'[j] = record
    <3>1. i \in DOMAIN File(k) /\ (File(k))'[i] = File(k)[i]
      <4>1. ~(k = n + 1 /\ i = m + 1)
        BY <1>1, <1>13, <2>1, <2>2
      <4> QED
        BY <1>7, <2>1, <4>1
    <3>2. File(k)[i].hash \in 1..built
      BY <1>5, <2>1, <3>1
    <3> QED
      BY <1>1, <2>2, <3>1, <3>2
  <2>3. CASE j \in DOMAIN File(l) /\ (File(l))'[j] = File(l)[j]
    <3>1. ~(k = n + 1 /\ i = m + 1)
      <4> SUFFICES ASSUME k = n + 1, i = m + 1 PROVE FALSE
        OBVIOUS
      <4>1. l = n + 1 /\ j > m + 1
        BY <1>1, <1>13, <2>1, <1>2, <1>4
      <4>2. j \in 1..m
        BY <1>2, <1>3, <2>3, <4>1
      <4> QED
        BY <1>1, <4>1, <4>2
    <3>2. i \in DOMAIN File(k) /\ (File(k))'[i] = File(k)[i]
      BY <1>7, <2>1, <3>1
    <3> QED
      BY <1>10, <1>13, <2>1, <2>3, <3>2
  <2> QED
    BY <1>7, <2>1, <2>2, <2>3
<1>14. ASSUME NEW h \in acked'
       PROVE  \E k \in Files' : \E i \in (DOMAIN File(k))' : (File(k))'[i].hash = h
  <2>1. CASE h \in acked
    BY <1>4, <1>8, <1>10, <2>1
  <2>2. CASE h = built + 1
    <3>1. n + 1 \in Files' /\ m + 1 \in (DOMAIN File(n + 1))'
      BY <1>1, <1>2, <1>3, <1>4
    <3> QED
      BY <1>2, <1>4, <2>2, <3>1
  <2> QED
    BY <2>1, <2>2
<1>15. ASSUME NEW k \in 1..n, (File(k + 1))' # <<>>
       PROVE  \/ Chained((File(k + 1))', NextSequence(File(k)), LastHash(File(k)))
              \/ (File(k + 1))'[1].sequence = 1 /\ (File(k + 1))'[1].previous = GENESIS
  <2>1. CASE k < n
    <3>1. k + 1 \in 1..n
      BY <1>1, <2>1
    <3> QED
      BY <1>4, <1>10, <1>15, <3>1
  <2>2. CASE k = n
    <3>1. (File(k + 1))' = next /\ File(k + 1) = live /\ File(k) = segments[n]
      BY <1>3, <1>4, <2>2
    <3>2. CASE live = <<>>
      BY <1>11, <3>1, <3>2
    <3>3. CASE live # <<>>
      <4>1. next[1] = live[1]
        BY <1>1, <1>2, <3>3
      <4>2. CASE live[1].sequence = 1 /\ live[1].previous = GENESIS
        BY <3>1, <4>1, <4>2
      <4>3. CASE Chained(live, NextSequence(segments[n]), LastHash(segments[n]))
        <5> DEFINE s == NextSequence(segments[n])
                   h == LastHash(segments[n])
        <5>0. segments[n] \in Seq(AuditRecord)
          BY <1>1, <2>2
        <5>1. s \in Nat /\ h \in Nat
          BY <5>0, StartOfChain
        <5>2. live[1].sequence = s /\ live[1].previous = h
          BY <1>1, <3>3, <4>3, <5>1 DEF Chained
        <5>3. Start(live).sequence = s /\ Start(live).hash = h
          <6>1. verify_audit_log(live, FALSE)
            <7>1. n + 1 \in Files
              BY <1>0, FileType
            <7> QED
              BY <1>3, <1>10, <7>1
          <6> QED
            BY <1>1, <3>3, <5>2, <6>1, StartOfChain
        <5>4. Chained(next, s, h)
          BY <1>11, <3>3, <5>3 DEF verify_audit_log
        <5> QED
          BY <3>1, <5>4
      <4> QED
        BY <1>10, <2>2, <3>1, <3>3, <4>2, <4>3
    <3> QED
      BY <3>2, <3>3
  <2> QED
    BY <1>1, <2>1, <2>2
<1>16. ASSUME NEW k \in 1..Len(segments'), (File(k + 1))' # <<>>
       PROVE  (\/ Chained(File(k + 1), NextSequence(File(k)), LastHash(File(k)))
               \/ File(k + 1)[1].sequence = 1 /\ File(k + 1)[1].previous = GENESIS)'
  <2>1. k \in 1..n /\ (File(k))' = File(k)
    BY <1>4
  <2> QED
    BY <1>15, <1>16, <2>1 DEF Chained, NextSequence, LastHash, Start, Last, GENESIS
<1>17. TrailHoldsTogether'
  BY <1>12, <1>13, <1>14, <1>16 DEF TrailHoldsTogether
<1> QED
  BY <1>9, <1>17

(* A step that leaves the files as they are. *)
LEMMA SameTrail ==
    ASSUME AuditInv, UNCHANGED <<segments, live, acked>>, built' \in {built, built + 1}
    PROVE  HashesAreDrawn' /\ TrailHoldsTogether'
<1>1. Files' = Files /\ \A k : (File(k))' = File(k)
  BY DEF Files, File
<1>2. HashesAreDrawn'
  <2>1. built \in Nat
    BY DEF AuditInv, AuditTypeOK
  <2>2. \A h \in 1..built : h \in 1..built'
    BY <2>1
  <2> QED
    BY <1>1, <2>2 DEF AuditInv, HashesAreDrawn
<1>3. TrailHoldsTogether'
  <2>1. TrailHoldsTogether /\ segments' = segments /\ live' = live /\ acked' = acked
    BY DEF AuditInv
  <2> QED
    BY <2>1 DEF TrailHoldsTogether, Files, File, verify_audit_log, Chained, NextSequence,
      LastHash, Start, Last, GENESIS
<1> QED
  BY <1>2, <1>3

(* The lock is free again, whatever its holder made of the log. *)
LEMMA UnlockedIsHeldByNone ==
    ASSUME LockIsHeld, NEW p \in Appenders, flock \in {p, NoAppender}, flock' = NoAppender,
           auditor'[p].at \in {"idle", "returned", "raised"},
           \A q \in Appenders : q # p => auditor'[q] = auditor[q]
    PROVE  LockIsHeld'
BY AuditAssumption DEF LockIsHeld

(* An append or rotation ends without a record, or its process dies. *)
LEMMA ReleaseKeepsInv ==
    ASSUME AuditInv, NEW p \in Appenders, flock \in {p, NoAppender},
           NEW how \in {"idle", "raised"}, Release(p, how),
           segments' \in Seq(Seq(AuditRecord)), live' \in Seq(AuditRecord),
           built' \in Nat, acked' \subseteq Nat
    PROVE  AuditTypeOK' /\ LockIsHeld'
<1> DEFINE a == [NotAuditing EXCEPT !.at = how]
<1>1. /\ a \in [at : {"idle", "rotate", "append", "returned", "raised"},
                event : AuditEvents \cup {"continuation", ""}, next : Nat, last : Nat]
      /\ a.at = how
  BY DEF NotAuditing, GENESIS
<1>2. flock' = NoAppender /\ auditor' = [auditor EXCEPT ![p] = a]
  BY DEF Release
<1>3. AuditTypeOK /\ LockIsHeld
  BY DEF AuditInv
<1> HIDE DEF a
<1>4. AuditTypeOK'
  BY <1>1, <1>2, <1>3 DEF AuditTypeOK
<1>5. /\ auditor'[p].at \in {"idle", "returned", "raised"}
      /\ \A q \in Appenders : q # p => auditor'[q] = auditor[q]
  BY <1>1, <1>2, <1>3 DEF AuditTypeOK
<1> QED
  BY <1>2, <1>3, <1>4, <1>5, UnlockedIsHeldByNone

(* The lock is taken and the log verified, or the caller is refused. *)
LEMMA BeginKeepsInv ==
    ASSUME AuditInv, NEW p \in Appenders, NEW e \in AuditEvents \cup {"continuation"},
           AuditBegin(p, e)
    PROVE  AuditInv'
<1> DEFINE a == [at |-> IF e = "continuation" THEN "rotate" ELSE "append",
                 event |-> e, next |-> NextSequence(live), last |-> LastHash(live)]
<1>0. /\ auditor[p].at = "idle" /\ flock = NoAppender
      /\ UNCHANGED <<segments, live, torn, built, acked>>
  BY DEF AuditBegin, Locked
<1>1. HashesAreDrawn' /\ TrailHoldsTogether'
  <2>1. UNCHANGED <<segments, live, acked>> /\ built' = built
    BY <1>0
  <2> QED
    BY <2>1, SameTrail
<1>2. CASE flock' = p /\ auditor' = [auditor EXCEPT ![p] = a]
  <2>1. NextSequence(live) \in Nat /\ LastHash(live) \in Nat
    BY StartOfChain DEF AuditInv, AuditTypeOK
  <2>2. AuditTypeOK'
    BY <1>0, <1>2, <2>1 DEF AuditInv, AuditTypeOK
  <2>3. /\ auditor'[p] = a
        /\ \A q \in Appenders : q # p => auditor'[q] = auditor[q]
    BY <1>2 DEF AuditInv, AuditTypeOK
  <2>4. NextSequence(live)' = NextSequence(live) /\ LastHash(live)' = LastHash(live)
    BY <1>0 DEF NextSequence, LastHash, Start, Last
  <2>5. \A q \in Appenders : q # p => ~(auditor[q].at \in {"append", "rotate"})
    BY <1>0, AuditAssumption DEF AuditInv, LockIsHeld
  <2>6. /\ a.at \in {"append", "rotate"} /\ a.event = e
        /\ a.at = "rotate" <=> e = "continuation"
        /\ a.next = NextSequence(live) /\ a.last = LastHash(live)
    OBVIOUS
  <2>7. LockIsHeld'
    <3> HIDE DEF a
    <3> QED
      BY <1>2, <2>3, <2>4, <2>5, <2>6 DEF LockIsHeld
  <2> QED
    BY <1>1, <2>2, <2>7 DEF AuditInv
<1>3. CASE Release(p, "raised")
  <2>1. AuditTypeOK' /\ LockIsHeld'
    BY <1>0, <1>3, ReleaseKeepsInv DEF AuditInv, AuditTypeOK
  <2> QED
    BY <1>1, <2>1 DEF AuditInv
<1> QED
  BY <1>2, <1>3 DEF AuditBegin

(* rotate: os.replace moves the log behind the rotated segments. *)
LEMMA RenameKeepsInv ==
    ASSUME AuditInv, NEW p \in Appenders, AuditRename(p)
    PROVE  AuditInv'
<1> DEFINE n == Len(segments)
           a == [auditor[p] EXCEPT !.at = "append"]
<1>0. AuditTypeOK /\ built \in Nat
  BY DEF AuditInv, AuditTypeOK
<1>1. /\ live \in Seq(AuditRecord) /\ n \in Nat /\ segments \in Seq(Seq(AuditRecord))
      /\ Files = 1..(n + 1) /\ File(n + 1) = live
      /\ \A k \in 1..n : File(k) = segments[k]
  BY <1>0, FileType
<1>2. /\ auditor[p].at = "rotate" /\ segments' = Append(segments, live) /\ live' = <<>>
      /\ auditor' = [auditor EXCEPT ![p] = a] /\ UNCHANGED <<torn, flock, built, acked>>
  BY DEF AuditRename
<1>3. /\ segments' \in Seq(Seq(AuditRecord)) /\ live' \in Seq(AuditRecord)
      /\ Len(segments') = n + 1 /\ segments'[n + 1] = live
      /\ \A k \in 1..n : segments'[k] = segments[k]
  BY <1>1, <1>2
<1>4. AuditTypeOK'
  BY <1>2, <1>3, ZenonT(30) DEF AuditInv, AuditTypeOK
<1>5. flock = p
  BY <1>2 DEF AuditInv, LockIsHeld
<1>6. LockIsHeld'
  <2>1. /\ auditor[p].event = "continuation" /\ auditor[p].next = NextSequence(live)
        /\ auditor[p].last = LastHash(live)
    BY <1>2, <1>5 DEF AuditInv, LockIsHeld
  <2>2. /\ auditor'[p].at = "append" /\ auditor'[p].event = "continuation"
        /\ auditor'[p].next = NextSequence(live) /\ auditor'[p].last = LastHash(live)
        /\ \A q \in Appenders : q # p => auditor'[q] = auditor[q]
    BY <1>0, <1>2, <2>1 DEF AuditTypeOK
  <2>3. \A q \in Appenders : q # p => ~(auditor[q].at \in {"append", "rotate"})
    BY <1>5 DEF AuditInv, LockIsHeld
  <2>4. /\ (NextSequence(segments[Len(segments)]))' = NextSequence(live)
        /\ (LastHash(segments[Len(segments)]))' = LastHash(live)
    BY <1>3 DEF NextSequence, LastHash, Start, Last
  <2>5. segments' # <<>> /\ flock' = p
    BY <1>1, <1>2, <1>3, <1>5
  <2> QED
    BY <1>2, <2>2, <2>3, <2>4, <2>5 DEF LockIsHeld
<1>7. /\ Files \subseteq Files'
      /\ \A k \in Files' : k \in Files \/ k = n + 2
      /\ \A k \in Files' : k = n + 2 => (File(k))' = <<>>
      /\ \A k \in Files : (File(k))' = File(k)
  <2>0. Files' = 1..(n + 2)
    BY <1>1, <1>3 DEF Files
  <2>1. Files \subseteq Files' /\ \A k \in Files' : k \in Files \/ k = n + 2
    BY <1>1, <2>0
  <2>2. \A k \in Files' : k = n + 2 => (File(k))' = <<>>
    BY <1>1, <1>2, <1>3 DEF File
  <2>3. \A k \in Files : (File(k))' = File(k)
    <3> SUFFICES ASSUME NEW k \in 1..(n + 1) PROVE (File(k))' = File(k)
      BY <1>1
    <3>1. (File(k))' = segments'[k]
      BY <1>1, <1>3 DEF File
    <3>2. CASE k = n + 1
      BY <1>1, <1>3, <3>1, <3>2
    <3>3. CASE k \in 1..n
      BY <1>1, <1>3, <3>1, <3>3
    <3> QED
      BY <1>1, <3>2, <3>3
  <2> QED
    BY <2>1, <2>2, <2>3
<1>8. ASSUME NEW k \in Files', NEW i \in (DOMAIN File(k))'
      PROVE  k \in Files /\ i \in DOMAIN File(k) /\ (File(k))'[i] = File(k)[i]
  <2>1. CASE k \in Files
    BY <1>7, <2>1
  <2>2. CASE k = n + 2
    <3>1. (DOMAIN File(k))' = {}
      BY <1>7, <2>2
    <3> QED
      BY <3>1
  <2> QED
    BY <1>1, <1>7, <2>1, <2>2
<1>9. HashesAreDrawn'
  BY <1>2, <1>8 DEF HashesAreDrawn, AuditInv
<1>10. TrailHoldsTogether'
  <2>0. TrailHoldsTogether
    BY DEF AuditInv
  <2>1. ASSUME NEW k \in Files' PROVE (verify_audit_log(File(k), FALSE))'
    <3>1. verify_audit_log((File(k))', FALSE)
      <4>1. CASE k \in Files
        BY <1>7, <2>0, <4>1 DEF TrailHoldsTogether
      <4>2. CASE k = n + 2
        <5>1. verify_audit_log(<<>>, FALSE)
          BY DEF verify_audit_log, Chained
        <5> QED
          BY <1>7, <4>2, <5>1
      <4> QED
        BY <1>7, <4>1, <4>2
    <3> QED
      BY <3>1 DEF verify_audit_log, Chained, Start
  <2>2. ASSUME NEW k \in Files', NEW l \in Files',
               NEW i \in (DOMAIN File(k))', NEW j \in (DOMAIN File(l))',
               k < l \/ (k = l /\ i < j)
        PROVE  (File(k))'[i].hash < (File(l))'[j].hash
    BY <1>8, <2>0, <2>2 DEF TrailHoldsTogether
  <2>3. ASSUME NEW h \in acked'
        PROVE  \E k \in Files' : \E i \in (DOMAIN File(k))' : (File(k))'[i].hash = h
    BY <1>2, <1>7, <2>0 DEF TrailHoldsTogether
  <2>4. ASSUME NEW k \in 1..Len(segments'), (File(k + 1))' # <<>>
        PROVE  (\/ Chained(File(k + 1), NextSequence(File(k)), LastHash(File(k)))
                \/ File(k + 1)[1].sequence = 1 /\ File(k + 1)[1].previous = GENESIS)'
    <3>0. k \in 1..(n + 1) /\ k # n + 1
      <4>1. k \in 1..(n + 1)
        BY <1>3
      <4>2. ASSUME k = n + 1 PROVE FALSE
        <5>1. k + 1 = n + 2 /\ k + 1 \in Files'
          BY <1>1, <1>3, <4>2 DEF Files
        <5> QED
          BY <1>7, <2>4, <5>1
      <4> QED
        BY <4>1, <4>2
    <3>1. k \in 1..n /\ k \in Files /\ k + 1 \in Files
      BY <1>1, <3>0
    <3>2. (File(k))' = File(k) /\ (File(k + 1))' = File(k + 1)
      BY <1>7, <3>1
    <3>3. \/ Chained((File(k + 1))', NextSequence((File(k))'), LastHash((File(k))'))
          \/ (File(k + 1))'[1].sequence = 1 /\ (File(k + 1))'[1].previous = GENESIS
      BY <2>0, <2>4, <3>1, <3>2 DEF TrailHoldsTogether
    <3> QED
      BY <3>3 DEF Chained, NextSequence, LastHash, Start, Last, GENESIS
  <2> QED
    BY <2>1, <2>2, <2>3, <2>4 DEF TrailHoldsTogether
<1> QED
  BY <1>4, <1>6, <1>9, <1>10 DEF AuditInv

(* The system calls of append and rotate. *)
LEMMA AuditStepInv ==
    ASSUME AuditInv, NEW p \in Appenders, AuditStep(p)
    PROVE  AuditInv'
<1> DEFINE record == [sequence |-> auditor[p].next, previous |-> auditor[p].last,
                      event |-> auditor[p].event, hash |-> built + 1]
<1>0. /\ AuditTypeOK /\ LockIsHeld /\ segments \in Seq(Seq(AuditRecord))
      /\ live \in Seq(AuditRecord) /\ built \in Nat /\ acked \subseteq Nat
  BY DEF AuditInv, AuditTypeOK
<1>1. ASSUME auditor[p].at = "append"
      PROVE  /\ flock = p /\ record \in AuditRecord /\ Append(live, record) \in Seq(AuditRecord)
             /\ record.sequence = auditor[p].next /\ record.previous = auditor[p].last
             /\ record.event = auditor[p].event /\ record.hash = built + 1
  <2>1. flock = p /\ auditor[p].event \in AuditEvents \cup {"continuation"}
    BY <1>0, <1>1 DEF LockIsHeld
  <2>2. auditor[p].next \in Nat /\ auditor[p].last \in Nat
    BY <1>0 DEF AuditTypeOK
  <2>3. record \in AuditRecord
    BY <1>0, <2>1, <2>2 DEF AuditRecord
  <2> QED
    BY <1>0, <2>1, <2>3
<1>2. CASE AuditRename(p)
  BY <1>2, RenameKeepsInv
<1>3. CASE AuditWrite(p)
  <2>1. /\ auditor[p].at = "append" /\ live' = Append(live, record)
        /\ acked' = acked \cup {built + 1} /\ built' = built + 1 /\ flock' = NoAppender
        /\ auditor' = [auditor EXCEPT ![p] =
                          [auditor[p] EXCEPT !.at = "returned", !.last = built + 1]]
        /\ segments' = segments
    <3>1. record.hash = built + 1
      OBVIOUS
    <3> QED
      BY <1>3, <3>1, Zenon DEF AuditWrite
  <2>2. HashesAreDrawn' /\ TrailHoldsTogether'
    <3> HIDE DEF record
    <3> QED
      BY <1>1, <2>1, AppendKeepsTrail
  <2>3. AuditTypeOK'
    <3>1. live' \in Seq(AuditRecord) /\ acked' \subseteq Nat
      BY <1>0, <1>1, <2>1
    <3> QED
      BY <1>0, <2>1, <3>1 DEF AuditTypeOK
  <2>4. /\ auditor'[p].at \in {"idle", "returned", "raised"}
        /\ \A q \in Appenders : q # p => auditor'[q] = auditor[q]
    BY <1>0, <2>1 DEF AuditTypeOK
  <2>5. LockIsHeld'
    BY <1>0, <1>1, <2>1, <2>4, UnlockedIsHeldByNone
  <2> QED
    BY <2>2, <2>3, <2>5 DEF AuditInv
<1>4. CASE AuditRefused(p)
  <2>1. /\ auditor[p].at = "append" /\ Release(p, "raised")
        /\ UNCHANGED <<segments, live, acked>> /\ built' = built
    BY <1>4 DEF AuditRefused
  <2> QED
    BY <1>0, <1>1, <2>1, SameTrail, ReleaseKeepsInv DEF AuditInv
<1>5. CASE AuditTorn(p)
  <2>1. /\ auditor[p].at = "append" /\ Release(p, "raised")
        /\ UNCHANGED <<segments, live, acked>> /\ built' = built + 1
    BY <1>5 DEF AuditTorn
  <2>2. built' \in Nat
    BY <1>0, <2>1
  <2> QED
    BY <1>0, <1>1, <2>1, <2>2, SameTrail, ReleaseKeepsInv DEF AuditInv
<1>6. CASE AuditUnsynced(p)
  <2>1. /\ auditor[p].at = "append" /\ live' = Append(live, record)
        /\ acked' = acked /\ built' = built + 1 /\ Release(p, "raised")
        /\ segments' = segments
    BY <1>6 DEF AuditUnsynced
  <2>2. HashesAreDrawn' /\ TrailHoldsTogether'
    <3> HIDE DEF record
    <3> QED
      BY <1>1, <2>1, AppendKeepsTrail
  <2>3. live' \in Seq(AuditRecord)
    BY <1>1, <2>1
  <2> HIDE DEF record
  <2>4. AuditTypeOK' /\ LockIsHeld'
    BY <1>0, <1>1, <2>1, <2>3, ReleaseKeepsInv
  <2> QED
    BY <2>2, <2>4 DEF AuditInv
<1> QED
  BY <1>2, <1>3, <1>4, <1>5, <1>6 DEF AuditStep

(* A process dies with the lock. *)
LEMMA CrashKeepsInv ==
    ASSUME AuditInv, NEW p \in Appenders, AuditCrash(p)
    PROVE  AuditInv'
<1>1. /\ segments \in Seq(Seq(AuditRecord)) /\ live \in Seq(AuditRecord)
      /\ built \in Nat /\ acked \subseteq Nat
  BY DEF AuditInv, AuditTypeOK
<1>2. /\ auditor[p].at \in {"append", "rotate"} /\ Release(p, "idle")
      /\ UNCHANGED <<segments, live, acked>> /\ built' = built
  BY DEF AuditCrash
<1>3. flock = p
  BY <1>2 DEF AuditInv, LockIsHeld
<1> QED
  BY <1>1, <1>2, <1>3, SameTrail, ReleaseKeepsInv DEF AuditInv

(* The caller takes the outcome. *)
LEMMA ReturnKeepsInv ==
    ASSUME AuditInv, NEW p \in Appenders, AuditReturn(p)
    PROVE  AuditInv'
<1>1. /\ auditor[p].at \in {"returned", "raised"} /\ flock' = flock
      /\ auditor' = [auditor EXCEPT ![p] = NotAuditing]
      /\ UNCHANGED <<segments, live, acked>> /\ built' = built
  BY DEF AuditReturn
<1>2. HashesAreDrawn' /\ TrailHoldsTogether'
  BY <1>1, SameTrail
<1>3. AuditTypeOK'
  BY <1>1 DEF AuditInv, AuditTypeOK, NotAuditing, GENESIS
<1>4. /\ auditor'[p].at = "idle"
      /\ \A q \in Appenders : q # p => auditor'[q] = auditor[q]
  BY <1>1 DEF AuditInv, AuditTypeOK, NotAuditing
<1>5. flock # p
  BY <1>1 DEF AuditInv, LockIsHeld
<1>6. LockIsHeld'
  BY <1>1, <1>4, <1>5 DEF AuditInv, LockIsHeld, NextSequence, LastHash, Start, Last, GENESIS
<1> QED
  BY <1>2, <1>3, <1>6 DEF AuditInv

(* Every step of every process keeps the invariant. *)
LEMMA AuditNextInv == AuditInv /\ [AuditNext]_auditVars => AuditInv'
<1> SUFFICES ASSUME AuditInv, [AuditNext]_auditVars PROVE AuditInv'
  OBVIOUS
<1>1. CASE AuditNext
  BY <1>1, AuditStepInv, CrashKeepsInv, ReturnKeepsInv, BeginKeepsInv DEF AuditNext
<1>2. CASE UNCHANGED auditVars
  <2>1. UNCHANGED <<segments, live, acked>> /\ built' = built
    BY <1>2 DEF auditVars
  <2>2. HashesAreDrawn' /\ TrailHoldsTogether'
    BY <2>1, SameTrail
  <2> QED
    BY <1>2, <2>2 DEF auditVars, AuditInv, AuditTypeOK, LockIsHeld, NextSequence,
      LastHash, Start, Last, GENESIS
<1> QED
  BY <1>1, <1>2

(* hostd/safety_audit.py, for any processes that share the log, any events    *)
(* and any size of a segment: each file of the trail verifies, no acknowledged *)
(* record is lost or moved, and files join or start over at genesis.          *)
THEOREM AuditTrailHolds == AuditSpec => []TrailHoldsTogether
<1>1. AuditInv => TrailHoldsTogether
  BY DEF AuditInv
<1> QED
  BY <1>1, AuditInitInv, AuditNextInv, PTL DEF AuditSpec

-----------------------------------------------------------------------------
(* Facts, samples and the wizard *)

\* What a listing finds of slot s with medium m in it at generation g.
FactsOf(s, m, g, readable) ==
    [slot |-> s, type |-> Reader[s].type, removable |-> Reader[s].removable,
     hardware |-> Reader[s].hardware, byid |-> Reader[s].byid,
     capacity |-> Len(m), generation |-> g,
     fingerprint |-> IF readable THEN Fingerprint(Len(m), SamplesOf(m, Len(m))) ELSE None]

(* Everything a listing may ever say of slot s, and of any slot. *)
FactsAt(s) == {FactsOf(s, x[1], x[2], x[3]) :
                  x \in (Media \cup {<<>>}) \X Nat \X BOOLEAN}
\* Everything a listing can find.
AllFacts == UNION {FactsAt(s) : s \in Slots}

\* Slots hold media or nothing, and count the exchanges.
SlotTypeOK ==
    medium \in [Slots -> Media \cup {<<>>}] /\ generation \in [Slots -> Nat]

(* What hostd lists of a slot is one of the facts it can list. *)
LEMMA FactsAreListed ==
    ASSUME SlotTypeOK, NEW s \in Slots, NEW readable \in BOOLEAN
    PROVE  Facts(s, readable) \in FactsAt(s)
<1> DEFINE x == <<medium[s], generation[s], readable>>
<1>1. x \in (Media \cup {<<>>}) \X Nat \X BOOLEAN
  BY DEF SlotTypeOK
<1>2. Facts(s, readable) = FactsOf(s, x[1], x[2], x[3])
  BY DEF Facts, FactsOf
<1> QED
  BY <1>1, <1>2 DEF FactsAt

(* An exchange of media concerns one slot. *)
LEMMA SwapKeepsSlots ==
    ASSUME SlotTypeOK, NEW s \in Slots, Swap(s)
    PROVE  SlotTypeOK' /\ \A r \in Slots : r # s => medium'[r] = medium[r]
BY DEF SlotTypeOK, Swap

(* A medium has a size and a sector at every number below it. *)
LEMMA MediaAreSequences ==
    ASSUME NEW m \in Media \cup {<<>>}
    PROVE  Len(m) \in Nat /\ DOMAIN m = 1..Len(m)
<1>1. CASE m = <<>>
  BY <1>1
<1>2. CASE m \in Media
  <2> DEFINE S == {m[i] : i \in DOMAIN m}
  <2>1. m \in Seq(S)
    BY <1>2, MediaAssumption
  <2> HIDE DEF S
  <2> QED
    BY <2>1
<1> QED
  BY <1>1, <1>2

(* Two listings of one slot differ in size, generation and fingerprint only. *)
LEMMA FactsAreRecords ==
    ASSUME NEW s \in Slots, NEW d \in FactsAt(s)
    PROVE  /\ d.slot = s /\ d.capacity \in Nat
           /\ d.type = Reader[s].type /\ d.removable = Reader[s].removable
           /\ d = [slot |-> s, type |-> Reader[s].type, removable |-> Reader[s].removable,
                   hardware |-> Reader[s].hardware, byid |-> Reader[s].byid,
                   capacity |-> d.capacity, generation |-> d.generation,
                   fingerprint |-> d.fingerprint]
<1>1. PICK x \in (Media \cup {<<>>}) \X Nat \X BOOLEAN : d = FactsOf(s, x[1], x[2], x[3])
  BY DEF FactsAt
<1>2. Len(x[1]) \in Nat
  BY MediaAreSequences
<1> QED
  BY <1>1, <1>2 DEF FactsOf

(* The wizard's confirmation is of facts that were listed for its slot. *)
WizardInv(s) ==
    /\ SlotTypeOK
    /\ wizard = [confirmed |-> wizard.confirmed, started |-> wizard.started]
    /\ wizard.confirmed # None =>
          \E f \in FactsAt(s) :
              wizard.confirmed = [source |-> SourceId(f), generation |-> f.generation, facts |-> f]
    /\ WizardStartsConfirmed

(* Every step of the wizard and every exchange keeps the invariant. *)
LEMMA WizardNextInv ==
    ASSUME NEW s \in Slots, WizardInv(s), [WizardNext(s)]_hostVars
    PROVE  WizardInv(s)'
<1>1. CASE HostSwap(s)
  <2>1. SlotTypeOK' /\ wizard' = wizard
    BY <1>1, SwapKeepsSlots DEF HostSwap, WizardInv
  <2> QED
    BY <2>1 DEF WizardInv, WizardStartsConfirmed
<1>2. ASSUME NEW readable \in BOOLEAN, WizardConfirm(s, readable) PROVE WizardInv(s)'
  <2> DEFINE d == Facts(s, readable)
             c == [source |-> SourceId(d), generation |-> d.generation, facts |-> d]
  <2>1. d \in FactsAt(s)
    BY FactsAreListed DEF WizardInv
  <2>2. /\ wizard' = [wizard EXCEPT !.confirmed = c]
        /\ UNCHANGED <<medium, generation>>
    BY <1>2 DEF WizardConfirm, slotVars
  <2> HIDE DEF d
  <2>3. /\ wizard'.confirmed = c /\ wizard'.started = wizard.started
        /\ wizard' = [confirmed |-> wizard'.confirmed, started |-> wizard'.started]
    BY <2>2 DEF WizardInv
  <2> QED
    BY <2>1, <2>2, <2>3 DEF WizardInv, SlotTypeOK, WizardStartsConfirmed
<1>3. ASSUME NEW readable \in BOOLEAN, NEW conditions, WizardStart(s, readable, conditions)
      PROVE  WizardInv(s)'
  <2> DEFINE d == Facts(s, readable)
             prev == [r \in {s} |-> IF wizard.confirmed.source = SourceId(d)
                                    THEN IdentityRecord(wizard.confirmed.facts) ELSE None]
             conf == [r \in {s} |-> wizard.confirmed]
  <2>1. d \in FactsAt(s)
    BY FactsAreListed DEF WizardInv
  <2>2. /\ wizard.confirmed # None /\ CanStart({d}, conf, prev, conditions)
        /\ wizard' = [wizard EXCEPT !.started = [confirmed |-> wizard.confirmed.facts, now |-> d]]
        /\ UNCHANGED <<medium, generation>>
    BY <1>3 DEF WizardStart, slotVars
  <2> HIDE DEF d
  <2>3. d.slot = s
    BY <2>1, FactsAreRecords
  <2>4. CardState(d, wizard.confirmed, prev[s], conditions) = "ready"
    BY <2>2, <2>3 DEF CanStart
  <2>5. /\ MediumPresent(d) /\ IdentityProven(d) /\ ConfirmationMatches(d, wizard.confirmed)
    <3> HIDE DEF prev
    <3> QED
      BY <2>4, Zenon DEF CardState
  <2>6. PICK f \in FactsAt(s) :
            wizard.confirmed = [source |-> SourceId(f), generation |-> f.generation, facts |-> f]
    BY <2>2 DEF WizardInv
  <2>7. d.fingerprint # None
    BY <2>5 DEF IdentityProven, IdentityRecord
  <2>8. IsRemovable(d) /\ IsRemovable(f)
    <3>1. d.type = f.type /\ d.removable = f.removable
      BY <2>1, <2>6, FactsAreRecords
    <3>2. IsRemovable(d)
      BY <2>5 DEF MediumPresent
    <3> QED
      BY <3>1, <3>2 DEF IsRemovable, source_kind_for_device
  <2>9. MediumIdentity(d) = MediumIdentity(f)
    BY <2>5, <2>6, <2>8 DEF ConfirmationMatches, SourceId
  <2>10. Signals(d) = Signals(f)
    BY <2>9 DEF MediumIdentity
  <2>11. d.capacity = f.capacity /\ d.fingerprint = f.fingerprint /\ d.generation = f.generation
    BY <2>10 DEF Signals
  <2>12. d = f
    BY <2>1, <2>6, <2>11, FactsAreRecords
  <2>13. /\ wizard'.confirmed = wizard.confirmed
         /\ wizard'.started = [confirmed |-> f, now |-> d]
         /\ wizard' = [confirmed |-> wizard'.confirmed, started |-> wizard'.started]
    BY <2>2, <2>6 DEF WizardInv
  <2> QED
    BY <2>2, <2>7, <2>12, <2>13 DEF WizardInv, SlotTypeOK, WizardStartsConfirmed
<1>4. CASE UNCHANGED hostVars
  BY <1>4 DEF hostVars, slotVars, launchVars, WizardInv, SlotTypeOK, WizardStartsConfirmed
<1> QED
  BY <1>1, <1>2, <1>3, <1>4 DEF WizardNext

(* worker/device_wizard.py, for any slot, reader and media: however often the *)
(* medium is exchanged between confirming and starting, what starts is what   *)
(* was confirmed, with a proven fingerprint.                                  *)
THEOREM WizardHoldsToConfirmation ==
    ASSUME NEW s \in Slots
    PROVE  WizardSpec(s) => []WizardStartsConfirmed
<1>1. HostInit => WizardInv(s)
  BY DEF HostInit, SlotInit, NoWizard, WizardInv, SlotTypeOK, WizardStartsConfirmed
<1>2. WizardInv(s) /\ [WizardNext(s)]_hostVars => WizardInv(s)'
  BY WizardNextInv
<1>3. WizardInv(s) => WizardStartsConfirmed
  BY DEF WizardInv
<1> QED
  BY <1>1, <1>2, <1>3, PTL DEF WizardSpec

-----------------------------------------------------------------------------
(* The launch of a scanner *)

(* The sectors validate_source samples, in ascending order: PlanOf of a size. *)
Plan(n) ==
    LET plan == SamplePlan(n) IN
    [i \in 1..Cardinality(plan) |->
        CHOOSE x \in plan : Cardinality({y \in plan : y <= x}) = i]

(* PlanOf lists every sector of sample_plan, and nothing else. *)
LEMMA PlanListsSamples ==
    ASSUME NEW n \in Nat
    PROVE  /\ SamplePlan(n) \subseteq 0..(n - 1)
           /\ Cardinality(SamplePlan(n)) \in Nat
           /\ \A x \in SamplePlan(n) : \E j \in DOMAIN Plan(n) : Plan(n)[j] = x
           /\ \A j \in DOMAIN Plan(n) : Plan(n)[j] \in Nat
           /\ DOMAIN Plan(n) = 1..Cardinality(SamplePlan(n)) /\ Len(Plan(n)) \in Nat
           /\ DOMAIN Plan(n) = 1..Len(Plan(n))
<1> DEFINE plan == SamplePlan(n)
           upto(x) == {y \in plan : y <= x}
<1>1. plan \subseteq 0..(n - 1) /\ plan \subseteq Nat
  BY DEF SamplePlan
<1>2. IsFiniteSet(plan)
  <2>1. IsFiniteSet(0..(n - 1)) /\ plan \in SUBSET (0..(n - 1))
    BY <1>1, FS_Interval
  <2> QED
    BY <2>1, FS_Subset
<1>3. Cardinality(plan) \in Nat
  BY <1>2, FS_CardinalityType
<1> HIDE DEF plan
<1>4. ASSUME NEW x \in plan
      PROVE  IsFiniteSet(upto(x)) /\ Cardinality(upto(x)) \in 1..Cardinality(plan)
  <2>1. /\ IsFiniteSet(upto(x)) /\ Cardinality(upto(x)) <= Cardinality(plan)
        /\ Cardinality(upto(x)) \in Nat
    <3>1. upto(x) \in SUBSET plan
      OBVIOUS
    <3> QED
      BY <1>2, <3>1, FS_Subset, FS_CardinalityType
  <2>2. x \in upto(x)
    <3>1. x \in Nat
      BY <1>1
    <3> QED
      BY <3>1
  <2>3. Cardinality(upto(x)) # 0
    BY <2>1, <2>2, FS_EmptySet
  <2> QED
    BY <1>3, <2>1, <2>3
<1>5. ASSUME NEW x \in plan, NEW z \in plan, Cardinality(upto(x)) = Cardinality(upto(z)), z <= x
      PROVE  z = x
  <2>1. x \in Nat /\ z \in Nat /\ plan \subseteq Nat
    BY <1>1
  <2>2. upto(z) \in SUBSET upto(x)
    <3> SUFFICES ASSUME NEW y \in plan, y <= z PROVE y <= x
      OBVIOUS
    <3> QED
      BY <1>5, <2>1
  <2>3. upto(x) = upto(z)
    BY <1>4, <1>5, <2>2, FS_Subset
  <2>4. x \in upto(x)
    BY <2>1
  <2>5. x <= z
    BY <2>3, <2>4
  <2> QED
    BY <1>5, <2>1, <2>5
<1>6. ASSUME NEW x \in plan, NEW z \in plan, Cardinality(upto(x)) = Cardinality(upto(z))
      PROVE  z = x
  <2>1. x \in Nat /\ z \in Nat
    BY <1>1
  <2>2. z <= x \/ x <= z
    BY <2>1
  <2> QED
    BY <1>5, <1>6, <2>2
<1>7. Plan(n) = [i \in 1..Cardinality(plan) |-> CHOOSE x \in plan : Cardinality(upto(x)) = i]
  BY DEF Plan, plan
<1>8. ASSUME NEW x \in plan PROVE \E j \in DOMAIN Plan(n) : Plan(n)[j] = x
  <2> DEFINE j == Cardinality(upto(x))
  <2>1. j \in 1..Cardinality(plan)
    BY <1>4
  <2>2. Plan(n)[j] = CHOOSE z \in plan : Cardinality(upto(z)) = j
    BY <1>7, <2>1
  <2>3. (CHOOSE z \in plan : Cardinality(upto(z)) = j) = x
    <3> HIDE DEF upto
    <3> QED
      BY <1>6
  <2> QED
    BY <1>7, <2>1, <2>2, <2>3
<1>9. /\ DOMAIN Plan(n) = 1..Cardinality(plan) /\ Len(Plan(n)) = Cardinality(plan)
  BY <1>3, <1>7
<1>10. ASSUME NEW j \in DOMAIN Plan(n) PROVE Plan(n)[j] \in Nat
  <2> DEFINE T == 1..Cardinality(plan)
             f == [x \in plan |-> Cardinality(upto(x))]
  <2>1. f \in Injection(plan, T)
    <3> HIDE DEF upto
    <3>1. f \in [plan -> T]
      BY <1>4
    <3>2. \A x, z \in plan : f[x] = f[z] => x = z
      BY <1>6
    <3> HIDE DEF f
    <3> QED
      BY <3>1, <3>2 DEF Injection, IsInjective
  <2>2. IsFiniteSet(T) /\ Cardinality(T) = Cardinality(plan)
    BY <1>3, FS_Interval
  <2> HIDE DEF T
  <2>3. f \in Surjection(plan, T)
    <3> HIDE DEF f
    <3> QED
      BY <2>1, <2>2, FS_Injection
  <2>4. \E x \in plan : Cardinality(upto(x)) = j
    <3>1. j \in T
      BY <1>9 DEF T
    <3> HIDE DEF upto
    <3> QED
      BY <2>3, <3>1 DEF Surjection
  <2>5. Plan(n)[j] = CHOOSE x \in plan : Cardinality(upto(x)) = j
    BY <1>7, <1>9
  <2>6. Plan(n)[j] \in plan
    <3> HIDE DEF upto
    <3> QED
      BY <2>4, <2>5
  <2> QED
    BY <1>1, <2>6
<1> QED
  BY <1>1, <1>3, <1>8, <1>9, <1>10 DEF plan

\* The device nodes, and what a sector of some medium can hold.
Node == Slots \X {"disk", "partition"}
Sectors == {None} \cup UNION {{m[i] : i \in DOMAIN m} : m \in Media}

\* What the operator confirmed, and a scanner that was started.
Confirmation == [source : {SourceId(d) : d \in AllFacts}, slot : Slots, generation : Nat,
                 facts : AllFacts, fresh : BOOLEAN]

Scanner == [at : {"started", "sampling", "validated", "stopped"}, slot : Slots,
            expected : AllFacts, samples : Seq(Sectors), steady : BOOLEAN, audited : Nat]

\* Confirmations, the request in hand and the scanners have their types.
LaunchTypeOK ==
    /\ SlotTypeOK
    /\ confirmations \subseteq Confirmation
    /\ request \in [at : {"idle", "set", "verify", "launch", "audit", "insert"},
                    confirmation : Confirmation \cup {None},
                    todo : Seq(Node), verified : SUBSET Node]
    /\ request.at # "idle" => request.confirmation \in Confirmation
    /\ request.at \in {"set", "verify"} => request.todo # <<>>
    /\ scanners \in Seq(Scanner)

(* What validate_source has read so far is what is on the medium, as long as  *)
(* nobody exchanged that since the scanner opened it.                         *)
SamplesHold(r, m) ==
    /\ r.at = "started" => r.samples = <<>>
    /\ r.at = "sampling" /\ r.steady =>
          \A i \in DOMAIN r.samples : r.samples[i] = Sample(m, Plan(r.expected.capacity)[i])
    /\ r.at = "validated" /\ r.steady =>
          SamplesOf(m, r.expected.capacity) = r.expected.fingerprint.samples
ScannersHold ==
    \A k \in DOMAIN scanners : SamplesHold(scanners[k], medium[scanners[k].slot])

(* hash h is that of a record of a launch in the trail. *)
Recorded(h) ==
    \E f \in Files : \E i \in DOMAIN File(f) :
        File(f)[i].hash = h /\ File(f)[i].event = "scanner_sandbox_profile"

(* hostd's append: what it has under way is the record of a launch, and one   *)
(* that has returned is in the trail and no scanner's yet.                    *)
LaunchRecords ==
    /\ LaunchedIsAudited
    /\ auditor[HostD].at # "rotate"
    /\ auditor[HostD].at \in {"append", "returned"} =>
          auditor[HostD].event = "scanner_sandbox_profile"
    /\ auditor[HostD].at = "returned" =>
          /\ Recorded(auditor[HostD].last)
          /\ \A k \in DOMAIN scanners : scanners[k].audited # auditor[HostD].last

\* The inductive invariant of launches, over the one of the audit trail.
LaunchInv == AuditInv /\ LaunchTypeOK /\ ScannersHold /\ LaunchRecords

(* Whatever is done to the log, a record of it stays in the trail. *)
LEMMA RecordsStay ==
    ASSUME AuditInv, AuditNext \/ UNCHANGED auditVars, NEW h, Recorded(h)
    PROVE  Recorded(h)'
<1> DEFINE n == Len(segments)
           m == Len(live)
<1>1. /\ live \in Seq(AuditRecord) /\ segments \in Seq(Seq(AuditRecord))
      /\ n \in Nat /\ m \in Nat /\ Files = 1..(n + 1) /\ File(n + 1) = live
      /\ \A k \in 1..n : File(k) = segments[k]
  BY FileType DEF AuditInv
<1>2. PICK f \in Files : \E i \in DOMAIN File(f) :
          File(f)[i].hash = h /\ File(f)[i].event = "scanner_sandbox_profile"
  BY DEF Recorded
<1>3. PICK i \in DOMAIN File(f) :
          File(f)[i].hash = h /\ File(f)[i].event = "scanner_sandbox_profile"
  BY <1>2
<1>4. SUFFICES f \in Files' /\ i \in (DOMAIN File(f))' /\ (File(f))'[i] = File(f)[i]
  BY <1>3 DEF Recorded
<1>5. CASE UNCHANGED <<segments, live>>
  BY <1>2, <1>3, <1>5 DEF Files, File
<1>6. ASSUME NEW record, segments' = segments, live' = Append(live, record)
      PROVE  f \in Files' /\ i \in (DOMAIN File(f))' /\ (File(f))'[i] = File(f)[i]
  <2>1. f \in Files'
    BY <1>2, <1>6 DEF Files
  <2>2. CASE f \in 1..n
    <3>1. (File(f))' = File(f)
      BY <1>1, <1>6, <2>2 DEF File
    <3> QED
      BY <1>3, <2>1, <3>1
  <2>3. CASE f = n + 1
    <3>1. (File(f))' = Append(live, record) /\ File(f) = live
      BY <1>1, <1>6, <2>3 DEF File
    <3>2. i \in 1..m
      BY <1>1, <1>3, <3>1
    <3> QED
      BY <1>1, <2>1, <3>1, <3>2
  <2> QED
    BY <1>1, <1>2, <2>2, <2>3
<1>7. ASSUME segments' = Append(segments, live)
      PROVE  f \in Files' /\ i \in (DOMAIN File(f))' /\ (File(f))'[i] = File(f)[i]
  <2>1. f \in 1..(n + 1) /\ Len(segments') = n + 1
    BY <1>1, <1>2, <1>7
  <2>2. f \in Files' /\ (File(f))' = segments'[f]
    BY <1>1, <2>1 DEF Files, File
  <2>3. segments'[f] = File(f)
    BY <1>1, <1>7, <2>1
  <2> QED
    BY <1>3, <2>2, <2>3
<1>8. ASSUME NEW p \in Appenders, AuditStep(p)
      PROVE  \/ UNCHANGED <<segments, live>>
             \/ segments' = Append(segments, live)
             \/ segments' = segments /\ \E record : live' = Append(live, record)
  BY <1>8, Zenon DEF AuditStep, AuditRename, AuditWrite, AuditRefused, AuditTorn, AuditUnsynced
<1>9. \/ UNCHANGED <<segments, live>>
      \/ segments' = Append(segments, live)
      \/ segments' = segments /\ \E record : live' = Append(live, record)
  <2>1. CASE UNCHANGED auditVars
    BY <2>1 DEF auditVars
  <2>2. ASSUME NEW p \in Appenders,
               AuditCrash(p) \/ AuditReturn(p)
                 \/ \E e \in AuditEvents \cup {"continuation"} : AuditBegin(p, e)
        PROVE  UNCHANGED <<segments, live>>
    BY <2>2 DEF AuditCrash, AuditReturn, AuditBegin
  <2> QED
    BY <1>8, <2>1, <2>2 DEF AuditNext
<1> QED
  BY <1>5, <1>6, <1>7, <1>9

(* A scanner's own steps, and what is done to it, keep its samples honest. *)
LEMMA SwapKeepsScanners ==
    ASSUME NEW s \in Slots, LaunchTypeOK, ScannersHold, HostSwap(s)
    PROVE  /\ scanners' \in Seq(Scanner) /\ ScannersHold'
           /\ Len(scanners') = Len(scanners)
           /\ \A k \in DOMAIN scanners : scanners'[k].audited = scanners[k].audited
<1> DEFINE Unsettled(k) == IF scanners[k].slot = s THEN [scanners[k] EXCEPT !.steady = FALSE]
                           ELSE scanners[k]
<1>1. scanners \in Seq(Scanner) /\ \A k \in DOMAIN scanners : scanners[k] \in Scanner
  BY DEF LaunchTypeOK
<1>2. /\ scanners' = [k \in 1..Len(scanners) |-> Unsettled(k)]
      /\ \A r \in Slots : r # s => medium'[r] = medium[r]
  BY <1>1, SwapKeepsSlots DEF HostSwap, LaunchTypeOK
<1>3. ASSUME NEW k \in DOMAIN scanners
      PROVE  /\ Unsettled(k) \in Scanner /\ Unsettled(k).slot = scanners[k].slot
             /\ Unsettled(k).at = scanners[k].at /\ Unsettled(k).samples = scanners[k].samples
             /\ Unsettled(k).audited = scanners[k].audited
             /\ Unsettled(k).slot = s => ~Unsettled(k).steady
             /\ Unsettled(k).slot # s => Unsettled(k) = scanners[k]
  BY <1>1 DEF Scanner
<1>4. DOMAIN scanners = 1..Len(scanners) /\ Len(scanners) \in Nat
  BY <1>1
<1> HIDE DEF Unsettled
<1>5. scanners' \in Seq(Scanner) /\ Len(scanners') = Len(scanners)
      /\ DOMAIN scanners' = DOMAIN scanners
  BY <1>2, <1>3, <1>4
<1>6. ASSUME NEW k \in DOMAIN scanners'
      PROVE  SamplesHold(scanners'[k], medium'[scanners'[k].slot])
  <2>1. k \in DOMAIN scanners /\ scanners'[k] = Unsettled(k) /\ scanners[k].slot \in Slots
    BY <1>1, <1>2, <1>4, <1>5 DEF Scanner
  <2>2. SamplesHold(scanners[k], medium[scanners[k].slot])
    BY <2>1 DEF ScannersHold
  <2>3. CASE scanners[k].slot = s
    BY <1>3, <2>1, <2>2, <2>3 DEF SamplesHold
  <2>4. CASE scanners[k].slot # s
    BY <1>2, <1>3, <2>1, <2>2, <2>4
  <2> QED
    BY <2>3, <2>4
<1>7. ScannersHold'
  BY <1>6 DEF ScannersHold, SamplesHold, Plan, SamplePlan, SamplesOf, Sample
<1> QED
  BY <1>2, <1>3, <1>4, <1>5, <1>7

(* One scanner is changed, and only in a way that keeps its samples honest.   *)
LEMMA OneScannerChanges ==
    ASSUME LaunchTypeOK, ScannersHold, NEW k \in DOMAIN scanners, NEW r \in Scanner,
           r.audited = scanners[k].audited,
           SamplesHold(r, medium[r.slot]), medium' = medium,
           scanners' = [scanners EXCEPT ![k] = r]
    PROVE  /\ scanners' \in Seq(Scanner) /\ ScannersHold'
           /\ Len(scanners') = Len(scanners)
           /\ \A j \in DOMAIN scanners : scanners'[j].audited = scanners[j].audited
<1>1. scanners \in Seq(Scanner)
  BY DEF LaunchTypeOK
<1>2. scanners' \in Seq(Scanner) /\ Len(scanners') = Len(scanners)
      /\ DOMAIN scanners' = DOMAIN scanners
      /\ \A j \in DOMAIN scanners : scanners'[j] = IF j = k THEN r ELSE scanners[j]
  BY <1>1
<1>3. ASSUME NEW j \in DOMAIN scanners'
      PROVE  SamplesHold(scanners'[j], medium'[scanners'[j].slot])
  BY <1>2 DEF ScannersHold
<1>4. ScannersHold'
  BY <1>3 DEF ScannersHold, SamplesHold, Plan, SamplePlan, SamplesOf, Sample
<1> QED
  BY <1>2, <1>4

(* The scanner opens, samples, compares or ends. *)
LEMMA ScannerStepKeeps ==
    ASSUME LaunchTypeOK, ScannersHold, NEW k \in DOMAIN scanners,
           ScannerOpens(k) \/ ScannerSamples(k) \/ ScannerCompares(k) \/ ScannerEnds(k)
    PROVE  /\ scanners' \in Seq(Scanner) /\ ScannersHold'
           /\ Len(scanners') = Len(scanners)
           /\ \A j \in DOMAIN scanners : scanners'[j].audited = scanners[j].audited
           /\ UNCHANGED <<auditVars, slotVars, confirmations, request>>
<1> DEFINE old == scanners[k]
           n == old.expected.capacity
           m == medium[old.slot]
<1>1. scanners \in Seq(Scanner) /\ old \in Scanner /\ SamplesHold(old, m)
  BY DEF LaunchTypeOK, ScannersHold
<1>2. /\ old.slot \in Slots /\ old.samples \in Seq(Sectors) /\ old.expected \in AllFacts
      /\ old.steady \in BOOLEAN /\ old.audited \in Nat
  BY <1>1 DEF Scanner
<1>3. n \in Nat
  BY <1>2, FactsAreRecords DEF AllFacts
<1>4. m \in Media \cup {<<>>}
  BY <1>2 DEF LaunchTypeOK, SlotTypeOK
<1>5. PlanOf(k) = Plan(n)
  BY DEF PlanOf, Plan
<1>6. UNCHANGED <<auditVars, slotVars, confirmations, request>> /\ medium' = medium
  BY DEF ScannerOpens, ScannerSamples, ScannerCompares, ScannerEnds, slotVars
<1>7. SUFFICES ASSUME TRUE
               PROVE  \E r \in Scanner :
                        /\ r.audited = old.audited /\ SamplesHold(r, medium[r.slot])
                        /\ scanners' = [scanners EXCEPT ![k] = r]
  BY <1>6, OneScannerChanges
<1>8. CASE ScannerOpens(k)
  <2> DEFINE r == [old EXCEPT !.at = "sampling", !.steady = TRUE]
  <2>1. r \in Scanner /\ r.audited = old.audited /\ r.samples = old.samples
    BY <1>1 DEF Scanner
  <2>2. old.samples = <<>>
    BY <1>1, <1>8 DEF ScannerOpens, SamplesHold
  <2>3. SamplesHold(r, medium[r.slot])
    <3>1. r.at = "sampling" /\ DOMAIN r.samples = {}
      BY <1>1, <2>1, <2>2 DEF Scanner
    <3> HIDE DEF r
    <3> QED
      BY <3>1 DEF SamplesHold
  <2>4. scanners' = [scanners EXCEPT ![k] = r]
    BY <1>8, Zenon DEF ScannerOpens
  <2> QED
    BY <2>1, <2>3, <2>4
<1>9. CASE ScannerSamples(k)
  <2> DEFINE next == Sample(m, Plan(n)[Len(old.samples) + 1])
             r == [old EXCEPT !.samples = Append(old.samples, next)]
             q == Len(old.samples)
  <2>1. /\ old.at = "sampling" /\ q < Len(Plan(n))
        /\ scanners' = [scanners EXCEPT ![k] = r]
    BY <1>5, <1>9 DEF ScannerSamples, Sampled
  <2>2. q \in Nat /\ q + 1 \in DOMAIN Plan(n) /\ Plan(n)[q + 1] \in Nat
    <3>1. Len(Plan(n)) \in Nat /\ DOMAIN Plan(n) = 1..Len(Plan(n))
      BY <1>3, PlanListsSamples
    <3>2. q \in Nat /\ q + 1 \in DOMAIN Plan(n)
      BY <1>2, <2>1, <3>1
    <3> QED
      BY <1>3, <3>2, PlanListsSamples
  <2>3. next \in Sectors
    <3> DEFINE x == Plan(n)[q + 1]
    <3>1. CASE x < Len(m)
      <4>1. Len(m) \in Nat /\ DOMAIN m = 1..Len(m)
        BY <1>4, MediaAreSequences
      <4>2. x + 1 \in DOMAIN m
        BY <2>2, <3>1, <4>1
      <4>3. m \in Media
        <5>1. m # <<>>
          BY <4>2
        <5> QED
          BY <1>4, <5>1
      <4>4. next = m[x + 1]
        BY <3>1 DEF Sample
      <4> HIDE DEF next, x
      <4> QED
        BY <4>2, <4>3, <4>4 DEF Sectors
    <3>2. CASE ~(x < Len(m))
      BY <3>2 DEF Sample, Sectors
    <3> QED
      BY <3>1, <3>2
  <2>4. /\ r \in Scanner /\ r.audited = old.audited /\ r.at = "sampling" /\ r.slot = old.slot
        /\ r.steady = old.steady /\ r.expected = old.expected
        /\ r.samples = Append(old.samples, next)
    <3> HIDE DEF next
    <3>1. Append(old.samples, next) \in Seq(Sectors)
      BY <1>2, <2>3
    <3> QED
      BY <1>1, <2>1, <3>1 DEF Scanner
  <2>5. SamplesHold(r, medium[r.slot])
    <3> SUFFICES ASSUME old.steady, NEW i \in DOMAIN r.samples
                 PROVE  r.samples[i] = Sample(m, Plan(n)[i])
      BY <2>4 DEF SamplesHold
    <3>1. i \in 1..(q + 1) /\ DOMAIN old.samples = 1..q
      BY <1>2, <2>4
    <3>2. CASE i = q + 1
      BY <1>2, <2>4, <3>2
    <3>3. CASE i \in 1..q
      <4>1. r.samples[i] = old.samples[i]
        BY <1>2, <2>4, <3>3
      <4>2. old.samples[i] = Sample(m, Plan(n)[i])
        BY <1>1, <2>1, <3>1, <3>3 DEF SamplesHold
      <4> QED
        BY <4>1, <4>2
    <3> QED
      BY <2>2, <3>1, <3>2, <3>3
  <2> QED
    BY <2>1, <2>4, <2>5
<1>10. CASE ScannerCompares(k)
  <2> DEFINE F == [i \in SamplePlan(n) |->
                       old.samples[CHOOSE j \in DOMAIN Plan(n) : Plan(n)[j] = i]]
             matches == MatchesExpected(Fingerprint(n, F), old.expected.fingerprint)
             r == [old EXCEPT !.at = IF matches THEN "validated" ELSE "stopped"]
  <2>1. /\ old.at = "sampling" /\ Len(old.samples) = Len(Plan(n))
        /\ scanners' = [scanners EXCEPT ![k] = r]
    BY <1>5, <1>10 DEF ScannerCompares, Sampled
  <2>2. /\ r \in Scanner /\ r.audited = old.audited /\ r.slot = old.slot
        /\ r.at = IF matches THEN "validated" ELSE "stopped"
        /\ r.steady = old.steady /\ r.expected = old.expected
    <3> HIDE DEF matches
    <3> QED
      BY <1>1 DEF Scanner
  <2>3. SamplesHold(r, medium[r.slot])
    <3> SUFFICES ASSUME old.steady, matches
                 PROVE  SamplesOf(m, n) = old.expected.fingerprint.samples
      BY <2>2 DEF SamplesHold
    <3>1. F = old.expected.fingerprint.samples
      <4>1. Fingerprint(n, F) # None /\ Fingerprint(n, F) = old.expected.fingerprint
        BY DEF MatchesExpected
      <4>2. Fingerprint(n, F) = [size |-> n, samples |-> F]
        <5> HIDE DEF F
        <5> QED
          BY <4>1, Zenon DEF Fingerprint
      <4> HIDE DEF F
      <4> QED
        BY <4>1, <4>2
    <3>2. ASSUME NEW i \in SamplePlan(n) PROVE Sample(m, i) = F[i]
      <4> DEFINE j == CHOOSE x \in DOMAIN Plan(n) : Plan(n)[x] = i
      <4>1. j \in DOMAIN Plan(n) /\ Plan(n)[j] = i
        BY <1>3, PlanListsSamples
      <4>2. j \in DOMAIN old.samples
        <5>0. DOMAIN old.samples = 1..Len(old.samples)
          BY <1>2
        <5>1. DOMAIN Plan(n) = 1..Len(Plan(n)) /\ DOMAIN old.samples = 1..Len(old.samples)
          BY <1>3, <5>0, PlanListsSamples
        <5> QED
          BY <2>1, <4>1, <5>1
      <4>3. F[i] = old.samples[j]
        OBVIOUS
      <4> HIDE DEF j
      <4>4. old.samples[j] = Sample(m, Plan(n)[j])
        BY <1>1, <2>1, <4>2 DEF SamplesHold
      <4> QED
        BY <4>1, <4>3, <4>4
    <3>3. SamplesOf(m, n) = F
      BY <3>2 DEF SamplesOf
    <3> QED
      BY <3>1, <3>3
  <2> QED
    BY <2>1, <2>2, <2>3
<1>11. CASE ScannerEnds(k)
  <2> DEFINE r == [old EXCEPT !.at = "stopped"]
  <2>1. r \in Scanner /\ r.audited = old.audited /\ r.at = "stopped"
    BY <1>1 DEF Scanner
  <2>2. SamplesHold(r, medium[r.slot])
    BY <2>1 DEF SamplesHold
  <2>3. scanners' = [scanners EXCEPT ![k] = r]
    BY <1>11 DEF ScannerEnds
  <2> QED
    BY <2>1, <2>2, <2>3
<1> QED
  BY <1>8, <1>9, <1>10, <1>11

(* Scanners keep their records, whatever else is written to the trail. *)
LEMMA LaunchedStayAudited ==
    ASSUME AuditInv, LaunchedIsAudited, AuditNext \/ UNCHANGED auditVars,
           DOMAIN scanners' = DOMAIN scanners,
           \A k \in DOMAIN scanners : scanners'[k].audited = scanners[k].audited
    PROVE  LaunchedIsAudited'
<1>1. ASSUME NEW k \in DOMAIN scanners'
      PROVE  (\E f \in Files : \E i \in DOMAIN File(f) :
                /\ File(f)[i].hash = scanners[k].audited
                /\ File(f)[i].event = "scanner_sandbox_profile")'
  <2>1. Recorded(scanners[k].audited)
    BY DEF LaunchedIsAudited, Recorded
  <2>2. PICK h : h = scanners[k].audited
    OBVIOUS
  <2>3. Recorded(h)'
    BY <2>1, <2>2, RecordsStay
  <2> QED
    BY <2>2, <2>3 DEF Recorded
<1>2. ASSUME NEW j \in DOMAIN scanners', NEW k \in DOMAIN scanners', j # k
      PROVE  scanners'[j].audited # scanners'[k].audited
  BY <1>2 DEF LaunchedIsAudited
<1> QED
  BY <1>1, <1>2 DEF LaunchedIsAudited

(* A step that is not of hostd's own append. *)
LEMMA OthersKeepRecords ==
    ASSUME AuditInv, LaunchRecords, AuditNext \/ UNCHANGED auditVars,
           auditor'[HostD] = auditor[HostD], DOMAIN scanners' = DOMAIN scanners,
           \A k \in DOMAIN scanners : scanners'[k].audited = scanners[k].audited
    PROVE  LaunchRecords'
<1>1. LaunchedIsAudited'
  BY LaunchedStayAudited DEF LaunchRecords
<1>2. ASSUME auditor'[HostD].at = "returned"
      PROVE  (Recorded(auditor[HostD].last))'
  <2>1. PICK h : h = auditor[HostD].last
    OBVIOUS
  <2>2. Recorded(h)'
    BY <1>2, <2>1, RecordsStay DEF LaunchRecords
  <2> QED
    BY <2>1, <2>2 DEF Recorded
<1> QED
  BY <1>1, <1>2 DEF LaunchRecords

(* No scanner has the record that is built next. *)
LEMMA AuditedIsBuilt ==
    ASSUME AuditInv, LaunchedIsAudited, NEW k \in DOMAIN scanners
    PROVE  scanners[k].audited # built + 1
<1>1. PICK f \in Files : \E i \in DOMAIN File(f) : File(f)[i].hash = scanners[k].audited
  BY DEF LaunchedIsAudited
<1>2. scanners[k].audited \in 1..built /\ built \in Nat
  BY <1>1 DEF AuditInv, AuditTypeOK, HashesAreDrawn
<1> QED
  BY <1>2

(* A step of hostd's own append, which no scanner waits for or is run by. *)
LEMMA HostDKeepsRecords ==
    ASSUME AuditInv, LaunchRecords, scanners' = scanners,
           \/ AuditStep(HostD)
           \/ AuditBegin(HostD, "scanner_sandbox_profile")
           \/ AuditReturn(HostD)
    PROVE  LaunchRecords'
<1>0. HostD \in Appenders /\ "scanner_sandbox_profile" \in AuditEvents
  BY LaunchAssumption
<1>1. LaunchedIsAudited'
  <2>1. AuditNext
    BY <1>0 DEF AuditNext
  <2> QED
    BY <2>1, LaunchedStayAudited DEF LaunchRecords
<1>2. AuditTypeOK /\ HostD \in DOMAIN auditor /\ DOMAIN auditor[HostD] = {"at", "event", "next", "last"}
  BY <1>0 DEF AuditInv, AuditTypeOK
<1>3. CASE AuditWrite(HostD)
  <2> DEFINE record == [sequence |-> auditor[HostD].next, previous |-> auditor[HostD].last,
                        event |-> auditor[HostD].event, hash |-> built + 1]
             n == Len(segments)
             m == Len(live)
  <2>1. /\ auditor[HostD].at = "append" /\ live' = Append(live, record)
        /\ auditor' = [auditor EXCEPT ![HostD] =
                          [auditor[HostD] EXCEPT !.at = "returned", !.last = built + 1]]
        /\ segments' = segments
    BY <1>3, Zenon DEF AuditWrite
  <2>2. /\ auditor'[HostD].at = "returned" /\ auditor'[HostD].last = built + 1
        /\ auditor'[HostD].event = auditor[HostD].event
    BY <1>2, <2>1
  <2>3. record.event = "scanner_sandbox_profile" /\ record.hash = built + 1
    BY <2>1 DEF LaunchRecords
  <2> HIDE DEF record
  <2>4. (Recorded(auditor[HostD].last))'
    <3>1. live \in Seq(AuditRecord) /\ n \in Nat /\ m \in Nat
      BY <1>2, FileType
    <3>2. /\ m + 1 \in DOMAIN live' /\ live'[m + 1] = record
      BY <2>1, <3>1
    <3>3. PICK f : f = n + 1
      OBVIOUS
    <3>4. f \in Files' /\ (File(f))' = live'
      BY <2>1, <3>1, <3>3 DEF Files, File
    <3> QED
      BY <2>2, <2>3, <3>2, <3>4 DEF Recorded
  <2>5. \A k \in DOMAIN scanners : scanners[k].audited # built + 1
    BY AuditedIsBuilt DEF LaunchRecords
  <2> QED
    BY <1>1, <2>1, <2>2, <2>4, <2>5 DEF LaunchRecords
<1>4. CASE ~AuditWrite(HostD)
  <2>1. ASSUME NEW how \in {"idle", "raised"}, Release(HostD, how)
        PROVE  auditor'[HostD].at = how
    BY <1>2, <2>1 DEF Release, NotAuditing
  <2>2. CASE AuditStep(HostD)
    <3>1. ~AuditRename(HostD)
      BY DEF AuditRename, LaunchRecords
    <3>2. auditor'[HostD].at = "raised"
      BY <1>4, <2>1, <2>2, <3>1 DEF AuditStep, AuditRefused, AuditTorn, AuditUnsynced
    <3> QED
      BY <1>1, <3>2 DEF LaunchRecords
  <2>3. CASE AuditBegin(HostD, "scanner_sandbox_profile")
    <3>1. \/ auditor'[HostD].at = "raised"
          \/ auditor'[HostD].at = "append" /\ auditor'[HostD].event = "scanner_sandbox_profile"
      BY <1>2, <2>1, <2>3 DEF AuditBegin
    <3> QED
      BY <1>1, <3>1 DEF LaunchRecords
  <2>4. CASE AuditReturn(HostD)
    <3>1. auditor'[HostD].at = "idle"
      BY <1>2, <2>4 DEF AuditReturn, NotAuditing
    <3> QED
      BY <1>1, <3>1 DEF LaunchRecords
  <2> QED
    BY <2>2, <2>3, <2>4
<1> QED
  BY <1>3, <1>4

(* launch_scanner runs the scanner once its record is acknowledged. *)
LEMMA RunKeepsInv ==
    ASSUME LaunchInv, RunScanner
    PROVE  LaunchInv'
<1> DEFINE c == request.confirmation
           last == auditor[HostD].last
           new == NewScanner(c, last)
           n == Len(scanners)
<1>0. HostD \in Appenders
  BY LaunchAssumption
<1>1. /\ request.at = "audit" /\ auditor[HostD].at = "returned"
      /\ scanners' = Append(scanners, new)
      /\ request' = [request EXCEPT !.at = "insert"]
      /\ AuditReturn(HostD)
      /\ UNCHANGED <<medium, generation, confirmations>>
  BY DEF RunScanner, RunsAudited, slotVars
<1>2. AuditInv'
  BY <1>0, <1>1, ReturnKeepsInv DEF LaunchInv
<1>3. c \in Confirmation /\ c.slot \in Slots /\ c.facts \in AllFacts
  BY <1>1 DEF LaunchInv, LaunchTypeOK, Confirmation
<1>4. last \in Nat
  BY <1>0 DEF LaunchInv, AuditInv, AuditTypeOK
<1>5. /\ new \in Scanner /\ new.at = "started" /\ new.samples = <<>> /\ new.audited = last
      /\ new.slot = c.slot
  <2> HIDE DEF c, last
  <2>1. <<>> \in Seq(Sectors)
    OBVIOUS
  <2> QED
    BY <1>3, <1>4, <2>1 DEF NewScanner, Scanner
<1> HIDE DEF new
<1>6. /\ scanners \in Seq(Scanner) /\ n \in Nat /\ scanners' \in Seq(Scanner)
      /\ DOMAIN scanners = 1..n /\ DOMAIN scanners' = 1..(n + 1) /\ scanners'[n + 1] = new
      /\ \A k \in 1..n : scanners'[k] = scanners[k]
  <2>1. scanners \in Seq(Scanner)
    BY DEF LaunchInv, LaunchTypeOK
  <2> QED
    BY <1>1, <1>5, <2>1
<1>7. LaunchTypeOK'
  BY <1>1, <1>3, <1>6 DEF LaunchInv, LaunchTypeOK, SlotTypeOK
<1>8. \A k \in 1..(n + 1) : k \in 1..n \/ k = n + 1
  BY <1>6
<1>9. ScannersHold'
  <2>1. ASSUME NEW k \in DOMAIN scanners'
        PROVE  SamplesHold(scanners'[k], medium'[scanners'[k].slot])
    <3>1. CASE k \in 1..n
      BY <1>1, <1>6, <3>1 DEF LaunchInv, ScannersHold
    <3>2. CASE k = n + 1
      <4>1. scanners'[k] = new
        BY <1>6, <3>2
      <4> QED
        BY <1>5, <4>1 DEF SamplesHold
    <3> QED
      BY <1>6, <1>8, <3>1, <3>2
  <2> QED
    BY <2>1 DEF ScannersHold, SamplesHold, Plan, SamplePlan, SamplesOf, Sample
<1>10. LaunchedIsAudited'
  <2>0. segments' = segments /\ live' = live
    BY <1>1 DEF AuditReturn
  <2>1. /\ \A k \in 1..n : Recorded(scanners[k].audited)
        /\ Recorded(last)
        /\ \A j, k \in 1..n : j # k => scanners[j].audited # scanners[k].audited
        /\ \A k \in 1..n : scanners[k].audited # last
    BY <1>1, <1>6 DEF LaunchInv, LaunchRecords, LaunchedIsAudited, Recorded
  <2>2. ASSUME NEW k \in DOMAIN scanners'
        PROVE  Recorded(scanners'[k].audited)
    <3>1. CASE k \in 1..n
      BY <1>6, <2>1, <3>1
    <3>2. CASE k = n + 1
      <4>1. scanners'[k] = new
        BY <1>6, <3>2
      <4> QED
        BY <1>5, <2>1, <4>1
    <3> QED
      BY <1>6, <1>8, <3>1, <3>2
  <2>3. ASSUME NEW j \in DOMAIN scanners', NEW k \in DOMAIN scanners', j # k
        PROVE  scanners'[j].audited # scanners'[k].audited
    <3>1. /\ j \in 1..n \/ (j = n + 1 /\ scanners'[j].audited = last)
          /\ k \in 1..n \/ (k = n + 1 /\ scanners'[k].audited = last)
      BY <1>5, <1>6, <1>8
    <3> QED
      BY <1>6, <2>1, <2>3, <3>1
  <2>4. Files' = Files /\ \A f : (File(f))' = File(f)
    BY <2>0 DEF Files, File
  <2> QED
    BY <2>2, <2>3, <2>4 DEF LaunchedIsAudited, Recorded
<1>11. LaunchRecords'
  <2>1. auditor'[HostD].at = "idle"
    BY <1>0, <1>1 DEF AuditReturn, NotAuditing, LaunchInv, AuditInv, AuditTypeOK
  <2> QED
    BY <1>10, <2>1 DEF LaunchRecords
<1> QED
  BY <1>2, <1>7, <1>9, <1>11 DEF LaunchInv

(* A step that leaves media and scanners as they are. *)
LEMMA SameScanners ==
    ASSUME ScannersHold, scanners' = scanners, medium' = medium
    PROVE  ScannersHold'
<1>1. \A k \in DOMAIN scanners' : SamplesHold(scanners'[k], medium'[scanners'[k].slot])
  BY DEF ScannersHold
<1> QED
  BY <1>1 DEF ScannersHold, SamplesHold, Plan, SamplePlan, SamplesOf, Sample

(* Both processes go on with the log. *)
LEMMA AuditActivityKeepsInv ==
    ASSUME LaunchInv, AuditActivity
    PROVE  LaunchInv'
<1>0. /\ HostD \in Appenders /\ Other \in Appenders /\ HostD # Other
      /\ Appenders = {HostD, Other} /\ "device_resolution" \in AuditEvents
  BY LaunchAssumption
<1>1. /\ UNCHANGED <<medium, generation, confirmations, request, scanners>>
      /\ AuditNext
  BY <1>0 DEF AuditActivity, slotVars, launchVars, AuditNext
<1>2. AuditInv'
  BY <1>1, AuditNextInv DEF LaunchInv
<1>3. LaunchTypeOK' /\ ScannersHold'
  BY <1>1, SameScanners DEF LaunchInv, LaunchTypeOK, SlotTypeOK
<1>4. LaunchRecords'
  <2>1. CASE AuditStep(HostD)
    BY <1>1, <2>1, HostDKeepsRecords DEF LaunchInv
  <2>2. CASE auditor'[HostD] = auditor[HostD]
    BY <1>1, <2>2, OthersKeepRecords DEF LaunchInv
  <2>3. ASSUME ~AuditStep(HostD) PROVE auditor'[HostD] = auditor[HostD]
    <3>1. \/ AuditStep(Other) \/ AuditCrash(Other) \/ AuditReturn(Other)
          \/ \E e : AuditBegin(Other, e)
      BY <1>0, <2>3 DEF AuditActivity
    <3>2. \E a : auditor' = [auditor EXCEPT ![Other] = a]
      BY <3>1, Zenon DEF AuditStep, AuditRename, AuditWrite, AuditRefused, AuditTorn,
        AuditUnsynced, AuditCrash, AuditReturn, AuditBegin, Release
    <3> QED
      BY <1>0, <3>2 DEF LaunchInv, AuditInv, AuditTypeOK
  <2> QED
    BY <2>1, <2>2, <2>3
<1> QED
  BY <1>2, <1>3, <1>4 DEF LaunchInv

(* Every step of a launch keeps the invariant. *)
LEMMA LaunchNextInv ==
    ASSUME NEW s \in Slots, LaunchInv, [LaunchNext(s)]_hostVars
    PROVE  LaunchInv'
<1> DEFINE c == request.confirmation
<1>1. /\ AuditInv /\ LaunchTypeOK /\ ScannersHold /\ LaunchRecords
      /\ scanners \in Seq(Scanner) /\ SlotTypeOK
  BY DEF LaunchInv, LaunchTypeOK
<1>2. ASSUME UNCHANGED <<auditVars, medium, scanners>>
      PROVE  AuditInv' /\ ScannersHold' /\ LaunchRecords'
  <2>1. AuditInv'
    BY <1>1, <1>2, AuditNextInv
  <2>2. ScannersHold'
    BY <1>1, <1>2, SameScanners
  <2>3. auditor'[HostD] = auditor[HostD] /\ UNCHANGED auditVars
    BY <1>2 DEF auditVars
  <2>4. LaunchRecords'
    BY <1>1, <1>2, <2>3, OthersKeepRecords
  <2> QED
    BY <2>1, <2>2, <2>4
<1>3. CASE HostSwap(s)
  <2>1. UNCHANGED <<auditVars, confirmations, request>>
    BY <1>3 DEF HostSwap
  <2>2. SlotTypeOK'
    BY <1>1, <1>3, SwapKeepsSlots DEF HostSwap
  <2>3. /\ scanners' \in Seq(Scanner) /\ ScannersHold' /\ DOMAIN scanners' = DOMAIN scanners
        /\ \A k \in DOMAIN scanners : scanners'[k].audited = scanners[k].audited
    BY <1>1, <1>3, SwapKeepsScanners
  <2>4. AuditInv' /\ auditor'[HostD] = auditor[HostD]
    BY <1>1, <2>1, AuditNextInv DEF auditVars
  <2>5. LaunchRecords'
    BY <1>1, <2>1, <2>3, <2>4, OthersKeepRecords
  <2>6. LaunchTypeOK'
    BY <1>1, <2>1, <2>2, <2>3 DEF LaunchTypeOK
  <2> QED
    BY <2>3, <2>4, <2>5, <2>6 DEF LaunchInv
<1>4. ASSUME NEW readable \in BOOLEAN, Preview(s, readable) PROVE LaunchInv'
  <2> DEFINE d == Facts(s, readable)
             new == [source |-> SourceId(d), slot |-> s, generation |-> d.generation,
                     facts |-> d, fresh |-> TRUE]
  <2>1. /\ confirmations' = {x \in confirmations : x.source # SourceId(d)} \cup {new}
        /\ UNCHANGED <<auditVars, medium, generation, request, scanners>>
    BY <1>4 DEF Preview, slotVars
  <2>2. d \in AllFacts /\ d.generation \in Nat
    BY <1>1, FactsAreListed DEF AllFacts, Facts, SlotTypeOK
  <2> HIDE DEF d
  <2>3. new \in Confirmation
    BY <2>2 DEF Confirmation
  <2>4. LaunchTypeOK'
    BY <1>1, <2>1, <2>3 DEF LaunchTypeOK, SlotTypeOK
  <2> QED
    BY <1>2, <2>1, <2>4 DEF LaunchInv
<1>5. ASSUME NEW x \in confirmations, ConfirmationExpires(x) PROVE LaunchInv'
  <2>1. /\ confirmations' = (confirmations \ {x}) \cup {[x EXCEPT !.fresh = FALSE]}
        /\ UNCHANGED <<auditVars, medium, generation, request, scanners>>
    BY <1>5 DEF ConfirmationExpires, slotVars
  <2>2. [x EXCEPT !.fresh = FALSE] \in Confirmation
    BY <1>1 DEF LaunchTypeOK, Confirmation
  <2>3. LaunchTypeOK'
    BY <1>1, <2>1, <2>2 DEF LaunchTypeOK, SlotTypeOK
  <2> QED
    BY <1>2, <2>1, <2>3 DEF LaunchInv
<1>6. ASSUME NEW x \in confirmations, StartScan(x) PROVE LaunchInv'
  <2>1. /\ request' = [at |-> "set", confirmation |-> x,
                       todo |-> <<<<x.slot, "disk">>, <<x.slot, "partition">>>>, verified |-> {}]
        /\ UNCHANGED <<auditVars, medium, generation, confirmations, scanners>>
    BY <1>6 DEF StartScan, slotVars, Targets
  <2>2. x \in Confirmation /\ x.slot \in Slots
    BY <1>1 DEF LaunchTypeOK, Confirmation
  <2>3. /\ <<x.slot, "disk">> \in Node /\ <<x.slot, "partition">> \in Node
    BY <2>2 DEF Node
  <2>4. /\ <<<<x.slot, "disk">>, <<x.slot, "partition">>>> \in Seq(Node)
        /\ <<<<x.slot, "disk">>, <<x.slot, "partition">>>> # <<>>
    BY <2>3
  <2>5. LaunchTypeOK'
    BY <1>1, <2>1, <2>2, <2>4 DEF LaunchTypeOK, SlotTypeOK
  <2> QED
    BY <1>2, <2>1, <2>5 DEF LaunchInv
<1>7. CASE SetReadOnly \/ VerifyReadOnly \/ TargetFails
  <2>1. /\ request.at \in {"set", "verify"}
        /\ UNCHANGED <<auditVars, medium, generation, confirmations, scanners>>
    BY <1>7 DEF SetReadOnly, VerifyReadOnly, TargetFails, slotVars
  <2>2. /\ request.todo \in Seq(Node) /\ request.todo # <<>> /\ c \in Confirmation
        /\ Head(request.todo) \in Node /\ Tail(request.todo) \in Seq(Node)
        /\ Len(request.todo) # 1 => Tail(request.todo) # <<>>
    <3>1. request.todo \in Seq(Node) /\ request.todo # <<>> /\ c \in Confirmation
      BY <1>1, <2>1 DEF LaunchTypeOK
    <3>2. /\ Head(request.todo) \in Node /\ Tail(request.todo) \in Seq(Node)
          /\ Len(Tail(request.todo)) = Len(request.todo) - 1 /\ Len(request.todo) >= 1
      BY <3>1
    <3>3. Len(request.todo) # 1 => Tail(request.todo) # <<>>
      BY <3>1, TailNotEmpty
    <3> QED
      BY <3>1, <3>2, <3>3
  <2>3. LaunchTypeOK'
    <3>1. CASE SetReadOnly
      BY <1>1, <2>1, <2>2, <3>1 DEF SetReadOnly, LaunchTypeOK, SlotTypeOK
    <3>2. CASE VerifyReadOnly
      BY <1>1, <2>1, <2>2, <3>2 DEF VerifyReadOnly, LaunchTypeOK, SlotTypeOK
    <3>3. CASE TargetFails
      BY <1>1, <2>1, <2>2, <3>3 DEF TargetFails, LaunchTypeOK, SlotTypeOK
    <3> QED
      BY <1>7, <3>1, <3>2, <3>3
  <2> QED
    BY <1>2, <2>1, <2>3 DEF LaunchInv
<1>8. CASE LaunchAudits
  <2>1. /\ request.at = "launch" /\ request' = [request EXCEPT !.at = "audit"]
        /\ AuditBegin(HostD, "scanner_sandbox_profile")
        /\ UNCHANGED <<medium, generation, confirmations, scanners>>
    BY <1>8 DEF LaunchAudits, slotVars
  <2>2. AuditInv'
    BY <1>1, <2>1, LaunchAssumption, BeginKeepsInv
  <2>3. LaunchRecords' /\ ScannersHold'
    BY <1>1, <2>1, HostDKeepsRecords, SameScanners
  <2>4. LaunchTypeOK'
    BY <1>1, <2>1 DEF LaunchTypeOK, SlotTypeOK
  <2> QED
    BY <2>2, <2>3, <2>4 DEF LaunchInv
<1>9. ASSUME request' = NoRequest, confirmations' \in {confirmations, {}},
             UNCHANGED <<medium, generation, scanners>>
      PROVE  LaunchTypeOK'
  BY <1>1, <1>9 DEF NoRequest, LaunchTypeOK, SlotTypeOK
<1>10. CASE LaunchRefused \/ CreateCase \/ ApiCrash
  <2>1. /\ request' = NoRequest /\ confirmations' \in {confirmations, {}}
        /\ UNCHANGED <<auditVars, medium, generation, scanners>>
    BY <1>10 DEF LaunchRefused, RequestFails, CreateCase, ApiCrash, slotVars
  <2> QED
    BY <1>2, <1>9, <2>1 DEF LaunchInv
<1>11. CASE RunScanner
  BY <1>11, RunKeepsInv
<1>12. CASE RunFails \/ AuditAbandoned
  <2>1. /\ AuditReturn(HostD)
        /\ UNCHANGED <<medium, generation, confirmations, scanners>>
        /\ request' = NoRequest \/ request' = request
    BY <1>12 DEF RunFails, RequestFails, AuditAbandoned, slotVars, launchVars
  <2>2. AuditInv'
    BY <1>1, <2>1, LaunchAssumption, ReturnKeepsInv
  <2>3. LaunchRecords' /\ ScannersHold'
    BY <1>1, <2>1, HostDKeepsRecords, SameScanners
  <2>4. LaunchTypeOK'
    BY <1>1, <1>9, <2>1 DEF LaunchTypeOK, SlotTypeOK
  <2> QED
    BY <2>2, <2>3, <2>4 DEF LaunchInv
<1>13. CASE AuditActivity
  BY <1>13, AuditActivityKeepsInv
<1>14. ASSUME NEW case \in cases, PauseScan(case) PROVE LaunchInv'
  <2> DEFINE k == case.session
             r == [scanners[k] EXCEPT !.at = "stopped"]
  <2>1. /\ scanners' = [scanners EXCEPT ![k] = r]
        /\ UNCHANGED <<auditVars, medium, generation, confirmations, request>>
    BY <1>14 DEF PauseScan, slotVars
  <2>2. CASE k \notin DOMAIN scanners
    <3>1. scanners' = scanners
      BY <1>1, <2>1, <2>2
    <3>2. LaunchTypeOK'
      BY <1>1, <2>1, <3>1 DEF LaunchTypeOK, SlotTypeOK
    <3> QED
      BY <1>2, <2>1, <3>1, <3>2 DEF LaunchInv
  <2>3. CASE k \in DOMAIN scanners
    <3>0. scanners[k] \in Scanner
      BY <1>1, <2>3
    <3>1. r \in Scanner /\ r.at = "stopped" /\ r.audited = scanners[k].audited
      BY <3>0 DEF Scanner
    <3>2. SamplesHold(r, medium[r.slot])
      BY <3>1 DEF SamplesHold
    <3> HIDE DEF r, k
    <3>3. /\ scanners' \in Seq(Scanner) /\ ScannersHold' /\ DOMAIN scanners' = DOMAIN scanners
          /\ \A j \in DOMAIN scanners : scanners'[j].audited = scanners[j].audited
      BY <1>1, <2>1, <2>3, <3>1, <3>2, OneScannerChanges
    <3>4. AuditInv' /\ auditor'[HostD] = auditor[HostD]
      BY <1>1, <2>1, AuditNextInv DEF auditVars
    <3>5. LaunchRecords'
      BY <1>1, <2>1, <3>3, <3>4, OthersKeepRecords
    <3>6. LaunchTypeOK'
      BY <1>1, <2>1, <3>3 DEF LaunchTypeOK, SlotTypeOK
    <3> QED
      BY <3>3, <3>4, <3>5, <3>6 DEF LaunchInv
  <2> QED
    BY <2>2, <2>3
<1>15. ASSUME NEW case \in cases, ResumeScan(case) PROVE LaunchInv'
  <2>1. UNCHANGED <<auditVars, medium, generation, confirmations, request, scanners>>
    BY <1>15 DEF ResumeScan, slotVars
  <2>2. LaunchTypeOK'
    BY <1>1, <2>1 DEF LaunchTypeOK, SlotTypeOK
  <2> QED
    BY <1>2, <2>1, <2>2 DEF LaunchInv
<1>16. ASSUME NEW k \in DOMAIN scanners,
              ScannerOpens(k) \/ ScannerSamples(k) \/ ScannerCompares(k) \/ ScannerEnds(k)
       PROVE  LaunchInv'
  <2>1. /\ scanners' \in Seq(Scanner) /\ ScannersHold' /\ DOMAIN scanners' = DOMAIN scanners
        /\ \A j \in DOMAIN scanners : scanners'[j].audited = scanners[j].audited
        /\ UNCHANGED <<auditVars, slotVars, confirmations, request>>
    BY <1>1, <1>16, ScannerStepKeeps
  <2>2. AuditInv' /\ auditor'[HostD] = auditor[HostD]
    BY <1>1, <2>1, AuditNextInv DEF auditVars
  <2>3. LaunchRecords'
    BY <1>1, <2>1, <2>2, OthersKeepRecords
  <2>4. LaunchTypeOK'
    BY <1>1, <2>1 DEF LaunchTypeOK, SlotTypeOK, slotVars
  <2> QED
    BY <2>1, <2>2, <2>3, <2>4 DEF LaunchInv
<1>17. CASE UNCHANGED hostVars
  <2>1. UNCHANGED <<auditVars, medium, generation, confirmations, request, scanners>>
    BY <1>17 DEF hostVars, slotVars, launchVars
  <2>2. LaunchTypeOK'
    BY <1>1, <2>1 DEF LaunchTypeOK, SlotTypeOK
  <2> QED
    BY <1>2, <2>1, <2>2 DEF LaunchInv
<1> QED
  BY <1>3, <1>4, <1>5, <1>6, <1>7, <1>8, <1>10, <1>11, <1>12, <1>13, <1>14, <1>15,
    <1>16, <1>17 DEF LaunchNext

(* The invariant of a scan's launch, from its preview to its scanner. *)
LEMMA LaunchInvariant == LaunchSpec => []LaunchInv
<1>1. HostInit => LaunchInv
  <2> SUFFICES ASSUME HostInit PROVE LaunchInv
    OBVIOUS
  <2>1. AuditInv
    BY AuditInitInv DEF HostInit
  <2>2. scanners = <<>> /\ DOMAIN scanners = {} /\ scanners \in Seq(Scanner)
    BY DEF HostInit
  <2>3. <<>> \in Seq(Node)
    OBVIOUS
  <2>4. LaunchTypeOK
    BY <2>2, <2>3 DEF HostInit, SlotInit, NoRequest, LaunchTypeOK, SlotTypeOK
  <2>5. auditor[HostD].at = "idle"
    BY LaunchAssumption DEF HostInit, AuditInit, NotAuditing
  <2>6. ScannersHold /\ LaunchRecords
    BY <2>2, <2>5 DEF ScannersHold, LaunchRecords, LaunchedIsAudited
  <2> QED
    BY <2>1, <2>4, <2>6 DEF LaunchInv
<1>2. LaunchInv /\ [\E s \in Slots : LaunchNext(s)]_hostVars => LaunchInv'
  <2>1. CASE UNCHANGED hostVars
    <3>1. LaunchInv => LaunchTypeOK' /\ ScannersHold' /\ UNCHANGED auditVars
            /\ auditor'[HostD] = auditor[HostD] /\ scanners' = scanners
      BY <2>1, SameScanners DEF hostVars, slotVars, launchVars, auditVars, LaunchInv,
        LaunchTypeOK, SlotTypeOK
    <3> QED
      BY <3>1, AuditNextInv, OthersKeepRecords DEF LaunchInv
  <2> QED
    BY <2>1, LaunchNextInv
<1> QED
  BY <1>1, <1>2, PTL DEF LaunchSpec

(* hostd/scanner_sandbox.py launch_scanner, for any slots, media and number of *)
(* scanners, however the log is shared, rotated or torn and whoever dies: no   *)
(* scanner was ever started without a record of its own in the audit trail,    *)
(* and the trail that holds these records holds together.                      *)
THEOREM NoUnauditedLaunch == LaunchSpec => [](TrailHoldsTogether /\ LaunchedIsAudited)
<1>1. LaunchInv => TrailHoldsTogether /\ LaunchedIsAudited
  BY DEF LaunchInv, AuditInv, LaunchRecords
<1> QED
  BY <1>1, LaunchInvariant, PTL

(* scanner/source_validation.py, for any media and readers: a scanner that goes *)
(* on to its parsers reads a medium with the sampled sectors the operator       *)
(* confirmed, however often media are exchanged on the way.                     *)
THEOREM OnlyConfirmedIsScanned == LaunchSpec => []ValidatedIsConfirmed
<1>1. LaunchInv => ValidatedIsConfirmed
  BY DEF LaunchInv, ScannersHold, SamplesHold, ValidatedIsConfirmed
<1> QED
  BY <1>1, LaunchInvariant, PTL

(* A launch, whatever it does to the log, is one of the log's own operations:    *)
(* launch_scanner and the other processes reach it through append and rotate only. *)
LEMMA LaunchStepsAudit ==
    ASSUME NEW s \in Slots, [LaunchNext(s)]_hostVars
    PROVE  [AuditNext]_auditVars
<1>1. /\ HostD \in Appenders /\ Other \in Appenders
      /\ "scanner_sandbox_profile" \in AuditEvents \cup {"continuation"}
      /\ {"device_resolution", "continuation"} \subseteq AuditEvents \cup {"continuation"}
  BY LaunchAssumption
<1>2. CASE UNCHANGED hostVars
  BY <1>2 DEF hostVars
<1>3. CASE LaunchAudits
  BY <1>1, <1>3 DEF LaunchAudits, AuditNext
<1>4. CASE RunScanner \/ RunFails \/ AuditAbandoned
  BY <1>1, <1>4 DEF RunScanner, RunFails, AuditAbandoned, AuditNext
<1>5. CASE AuditActivity
  BY <1>1, <1>5 DEF AuditActivity, AuditNext
<1>6. CASE \/ HostSwap(s)
           \/ \E readable \in BOOLEAN : Preview(s, readable)
           \/ \E c \in confirmations : ConfirmationExpires(c) \/ StartScan(c)
  BY <1>6, Zenon DEF HostSwap, Preview, ConfirmationExpires, StartScan
<1>7. CASE SetReadOnly \/ VerifyReadOnly \/ TargetFails \/ LaunchRefused
           \/ CreateCase \/ ApiCrash
  BY <1>7, Zenon DEF SetReadOnly, VerifyReadOnly, TargetFails, LaunchRefused, CreateCase,
    ApiCrash
<1>8. CASE \/ \E case \in cases : PauseScan(case) \/ ResumeScan(case)
           \/ \E k \in DOMAIN scanners : \/ ScannerOpens(k) \/ ScannerSamples(k)
                                         \/ ScannerCompares(k) \/ ScannerEnds(k)
  BY <1>8, Zenon DEF PauseScan, ResumeScan, ScannerOpens, ScannerSamples, ScannerCompares,
    ScannerEnds
<1> QED
  BY <1>2, <1>3, <1>4, <1>5, <1>6, <1>7, <1>8 DEF LaunchNext

(* The launch of scanners as a whole (api/app.py, hostd/read_only.py and          *)
(* hostd/scanner_sandbox.py) implements the audit log on its own                  *)
(* (hostd/safety_audit.py): every behaviour of the first is one of the second, so *)
(* what is proved of the log alone holds wherever scanners are launched.          *)
THEOREM LaunchDrivesAudit == LaunchSpec => AuditSpec
<1>1. HostInit => AuditInit
  BY DEF HostInit
<1>2. [\E s \in Slots : LaunchNext(s)]_hostVars => [AuditNext]_auditVars
  <2>1. CASE UNCHANGED hostVars
    BY <2>1 DEF hostVars
  <2> QED
    BY <2>1, LaunchStepsAudit
<1> QED
  BY <1>1, <1>2, PTL DEF LaunchSpec, AuditSpec

=============================================================================
