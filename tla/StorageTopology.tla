-------------------------- MODULE StorageTopology ---------------------------
(***************************************************************************)
(* What else uses the source: mounts and stacked devices                   *)
(* (hostd/storage_inspection.py), the running system                       *)
(* (hostd/system_disks.py) and the destination of exports                  *)
(* (hostd/destination_separation.py, rechecked through                     *)
(* shared/destination_contract.py).  An inspection reads mountinfo first   *)
(* and then walks /sys one device at a time, while the kernel mounts,      *)
(* unmounts and stacks.  Nodes stand for major:minor numbers.              *)
(***************************************************************************)
EXTENDS Naturals, Sequences, SequencesExt, FiniteSets

CONSTANTS Nodes,        \* block devices
          Source,       \* the source disk and its partitions, as they were listed
          Stackable,    \* pairs <<device, holder>> the kernel may create
          Supported,    \* holders of a type in SUPPORTED_HOLDER_TYPES
          Mounts,       \* mounts that may appear: [dev, point, rw, network]
          MaxChanges    \* bound: mounts and holders that come or go

ASSUME TopologyAssumption ==
    /\ Source \subseteq Nodes /\ Supported \subseteq Nodes
    /\ Stackable \subseteq Nodes \X Nodes
    /\ \A m \in Mounts : m.dev \in Nodes /\ m.point \in {"/", "/export"}

VARIABLES mounts,       \* mountinfo: in the order of mounting
          holders,      \* /sys/dev/block/<device>/holders
          changes,
          inspection,   \* step, mounts read, devices to visit, edges seen, findings
          lasting       \* history: what has been there since the inspection began

topologyVars == <<mounts, holders, changes, inspection, lasting>>

NotInspecting == [at |-> "idle", mounts |-> <<>>, pending |-> {}, visited |-> {},
                  graph |-> {}, safe |-> FALSE, denied |-> FALSE, separate |-> FALSE]

TopologyInit ==
    /\ mounts \in {<<>>} \cup {<<m>> : m \in Mounts}
    /\ holders \in {h \in SUBSET Stackable : Cardinality(h) <= 2}
    /\ changes = 0
    /\ inspection = NotInspecting
    /\ lasting = [mounts |-> {}, holders |-> {}]

\* Everything that can be reached from the devices in from, themselves included.
Closed(set, edges) == \A e \in edges : e[1] \in set => e[2] \in set
Reach(from, edges) ==
    {n \in Nodes : \A set \in SUBSET Nodes :
                        from \subseteq set /\ Closed(set, edges) => n \in set}

-----------------------------------------------------------------------------
(* The kernel *)

KernelChange(newMounts, newHolders) ==
    /\ changes < MaxChanges /\ changes' = changes + 1
    /\ mounts' = newMounts /\ holders' = newHolders
    /\ lasting' = [mounts |-> lasting.mounts \cap Range(newMounts),
                   holders |-> lasting.holders \cap newHolders]
    /\ UNCHANGED inspection

MountOne(m) == m \notin Range(mounts) /\ KernelChange(Append(mounts, m), holders)
Unmount(i) == i \in DOMAIN mounts /\ KernelChange(RemoveAt(mounts, i), holders)
Stack(e) == e \notin holders /\ KernelChange(mounts, holders \cup {e})
Unstack(e) == e \in holders /\ KernelChange(mounts, holders \ {e})

-----------------------------------------------------------------------------
(* The inspection *)

\* inspect_live_storage_state, evaluate_live_destination_separation: mountinfo.
InspectBegin ==
    /\ inspection.at = "idle"
    /\ inspection' = [NotInspecting EXCEPT !.at = "walk", !.mounts = mounts,
                                           !.pending = Source]
    /\ lasting' = [mounts |-> Range(mounts), holders |-> holders]
    /\ UNCHANGED <<mounts, holders, changes>>

(* Mutant: only the source's own holders are looked at. *)
NotFollowed(found) == {}
\* Holders are visited in their turn.
Followed(found) == found

\* read_holder_graph: one device and its holders.
WalkOne(n) ==
    LET found == {e[2] : e \in {x \in holders : x[1] = n}} IN
    /\ inspection.at = "walk" /\ n \in inspection.pending
    /\ inspection' = [inspection EXCEPT
            !.visited = @ \cup {n},
            !.graph = @ \cup {<<n, h>> : h \in found},
            !.pending = (@ \cup Followed(found)) \ (inspection.visited \cup {n})]
    /\ UNCHANGED <<mounts, holders, changes, lasting>>

\* _related_holders: the edges met on the way up from the source.
RelatedHolders(graph) == {e \in graph : e[1] \in Reach(Source, graph)}

\* inspect_storage_state: no read-write mount of the source or of what is stacked
\* on it, and no holder of an unknown kind.
SafeForPreparation(seen, graph) ==
    /\ \A i \in DOMAIN seen : ~(seen[i].rw /\ seen[i].dev \in Reach(Source, graph))
    /\ \A e \in RelatedHolders(graph) : e[2] \in Supported

\* _expand_ancestry: the devices below dev, itself included.
Ancestors(dev, graph) == {n \in Nodes : dev \in Reach({n}, graph)}
\* _matches_source
OnSource(dev, graph) == Ancestors(dev, graph) \cap Source # {}

\* evaluate_system_disk_denial: a critical mount lies on the source, or on
\* something whose ancestors meet it.
DeniedByDefault(seen, graph) ==
    \E i \in DOMAIN seen : seen[i].point = "/" /\ OnSource(seen[i].dev, graph)

\* _find_mount for a destination below /export: max keeps the first of the longest.
Depth(point) == IF point = "/export" THEN 2 ELSE 1
FoundMount(seen) ==
    CHOOSE i \in DOMAIN seen :
        \A j \in DOMAIN seen : \/ Depth(seen[i].point) > Depth(seen[j].point)
                               \/ Depth(seen[i].point) = Depth(seen[j].point) /\ i <= j

\* evaluate_destination_separation: the ancestry of the destination's device and
\* that of the source have nothing in common.
Separate(seen, graph) ==
    /\ seen # <<>>
    /\ LET m == seen[FoundMount(seen)] IN
       m.network \/ Ancestors(m.dev, graph) \cap UNION {Ancestors(n, graph) : n \in Source} = {}

Evaluate ==
    /\ inspection.at = "walk" /\ inspection.pending = {}
    /\ inspection' = [inspection EXCEPT
            !.at = "done",
            !.safe = SafeForPreparation(inspection.mounts, inspection.graph),
            !.denied = DeniedByDefault(inspection.mounts, inspection.graph),
            !.separate = Separate(inspection.mounts, inspection.graph)]
    /\ UNCHANGED <<mounts, holders, changes, lasting>>

\* The caller takes the answer; recheck_source_separation asks again later.
AnswerTaken ==
    /\ inspection.at = "done" /\ changes < MaxChanges
    /\ inspection' = NotInspecting
    /\ lasting' = [mounts |-> {}, holders |-> {}]
    /\ UNCHANGED <<mounts, holders, changes>>

TopologyNext ==
    \/ (\E m \in Mounts : MountOne(m)) \/ (\E i \in DOMAIN mounts : Unmount(i))
    \/ \E e \in Stackable : Stack(e) \/ Unstack(e)
    \/ InspectBegin \/ (\E n \in Nodes : WalkOne(n)) \/ Evaluate \/ AnswerTaken

TopologySpec == TopologyInit /\ [][TopologyNext]_topologyVars

-----------------------------------------------------------------------------
(* Properties *)

\* hostd/storage_inspection.py, system_disks.py, destination_separation.py: the
\* kernel may change while it is read, yet a use of the source that lasted from
\* the first read to the last is never missed, through any number of stacked
\* devices: not a read-write mount, not an unknown holder, not the running
\* system, and not the destination (where one mount alone covers it).
LastingUseIsSeen ==
    inspection.at = "done" =>
        LET used == Reach(Source, lasting.holders)
            covering == {m \in Range(inspection.mounts) : m.point = "/export"} IN
        /\ inspection.safe =>
            /\ \A m \in lasting.mounts : m.rw => m.dev \notin used
            /\ \A e \in lasting.holders : e[1] \in used => e[2] \in Supported
        /\ ~inspection.denied =>
            \A m \in lasting.mounts : m.point = "/" => m.dev \notin used
        /\ inspection.separate =>
            \A m \in lasting.mounts \cap covering :
                Cardinality(covering) = 1 /\ ~m.network => m.dev \notin used

=============================================================================
