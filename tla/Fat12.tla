------------------------------- MODULE Fat12 -------------------------------
(***************************************************************************)
(* The scan of a FAT12 floppy (scanner/fat12_parser.py), as a function of  *)
(* what is on the medium: the packed copies of the FAT, one directory      *)
(* entry and the sectors that cannot be read.  Names, dates and attributes *)
(* are left out; sectors count from the start of the volume and a sector   *)
(* is one byte long.                                                       *)
(***************************************************************************)
EXTENDS Integers, Sequences, FiniteSets, SequencesExt

CONSTANTS ClusterCount,         \* data clusters, numbered from 2
          SectorsPerCluster,
          FirstDataSector,
          FatValues,            \* entries of the FAT to try
          BadSectorSets,        \* sets of unreadable data sectors to try
          MaxSize               \* bound: the size of the file in bytes

ASSUME FatAssumption ==
    /\ ClusterCount \in Nat /\ SectorsPerCluster \in Nat \ {0} /\ FirstDataSector \in Nat
    /\ \A v \in FatValues : v \in Nat /\ v < 4096

VARIABLES floppy,       \* what is on the medium
          scan          \* the walk along the FAT, and what the scan reports

fatVars == <<floppy, scan>>

EocMin == 4088          \* FAT12_EOC_MIN, 0xFF8
BadCluster == 4087      \* FAT12_BAD_CLUSTER, 0xFF7
ReservedMin == 4080     \* FAT12_RESERVED_MIN, 0xFF0
MediaHeader == 4080     \* 0xF00 | media descriptor 0xF0

Clusters == 2 .. ClusterCount + 1
NotScanned == [at |-> "new"]

\* How the format packs two entries of 12 bits into three bytes; bytes count from 0.
Packed(fat) ==
    LET n == ClusterCount + 2
        byte(k) == LET a == fat[2 * (k \div 3)]
                       b == IF 2 * (k \div 3) + 1 < n THEN fat[2 * (k \div 3) + 1] ELSE 0
                   IN CASE k % 3 = 0 -> a % 256
                        [] k % 3 = 1 -> a \div 256 + 16 * (b % 16)
                        [] OTHER -> b \div 16
    IN [k \in 0 .. (3 * n + 1) \div 2 - 1 |-> byte(k)]

-----------------------------------------------------------------------------
(* The FAT.                                                                *)

\* _decode_fat: entry i is 12 bits at byte i + i \div 2; what lies beyond the
\* bytes there are reads as zero.
DecodeFat(raw) ==
    [i \in 0 .. ClusterCount + 1 |->
        LET offset == i + i \div 2
            word == raw[offset] + 256 * raw[offset + 1]
        IN IF offset + 1 \notin DOMAIN raw THEN 0
           ELSE IF i % 2 = 1 THEN (word \div 16) % 4096 ELSE word % 4096]

FatHeaderValid(fat) == fat[0] = MediaHeader /\ fat[1] >= EocMin

\* _select_fat: the first copy with a valid header; none leaves every cluster free.
SelectFat(copies) ==
    LET valid == {c \in DOMAIN copies : FatHeaderValid(DecodeFat(copies[c]))}
    IN IF valid = {} THEN [i \in 0 .. ClusterCount + 1 |-> 0]
       ELSE DecodeFat(copies[Min(valid)])

ClustersForSize(size) == (size + SectorsPerCluster - 1) \div SectorsPerCluster

-----------------------------------------------------------------------------
(* The clusters of an entry.                                               *)

Chain(clusters, state, confidence) ==
    [clusters |-> clusters, state |-> state, confidence |-> confidence]

\* _allocated_chain: the walk starts at the entry's first cluster.
ReadFat ==
    /\ scan = NotScanned
    /\ scan' = [at |-> "walking", fat |-> SelectFat(floppy.copies), chain |-> <<>>,
                cursor |-> floppy.entry.first, state |-> "allocated_intact"]
    /\ UNCHANGED floppy

\* One turn of its loop, which ends at a number that is no cluster, when the chain is
\* too long, comes round again, or ends.
Walked(chain, state) ==
    [at |-> "walked", fat |-> scan.fat, chain |-> chain, cursor |-> scan.cursor, state |-> state]

FollowFat ==
    /\ scan.at = "walking"
    /\ LET next == scan.fat[scan.cursor]
           chain == Append(scan.chain, scan.cursor)
       IN scan' = IF \/ scan.cursor \notin Clusters \/ Len(scan.chain) > ClusterCount
                     \/ floppy.entry.deleted
                  THEN Walked(scan.chain, scan.state)
                  ELSE IF scan.cursor \in ToSet(scan.chain) THEN Walked(scan.chain, "partial")
                  ELSE IF next >= EocMin THEN Walked(chain, scan.state)
                  ELSE IF next = BadCluster THEN Walked(chain, "partial_bad_sector")
                  ELSE IF next < 2 \/ next >= ReservedMin THEN Walked(chain, "partial")
                  ELSE [at |-> "walking", fat |-> scan.fat, chain |-> chain, cursor |-> next,
                        state |-> scan.state]
    /\ UNCHANGED floppy

\* _allocated_chain, after the walk.
AllocatedChain(first, size, walk) ==
    LET expected == ClustersForSize(size)
        long == Len(walk.chain) > expected /\ expected > 0
        chain == IF long THEN SubSeq(walk.chain, 1, expected) ELSE walk.chain
        state == IF Len(walk.chain) < expected THEN "partial" ELSE walk.state
        broken == \E i \in 1 .. Len(chain) - 1 : chain[i + 1] # chain[i] + 1
    IN IF size = 0 /\ first < 2 THEN Chain(<<>>, "allocated_intact", "certain")
       ELSE IF first \notin Clusters THEN Chain(<<>>, "partial", "low")
       ELSE IF state # "allocated_intact" THEN Chain(chain, state, "low")
       ELSE IF broken THEN Chain(chain, "allocated_fragmented", "high")
       ELSE Chain(chain, state, IF long THEN "high" ELSE "certain")

\* _deleted_chain: the clusters after the first, if the FAT has them all free.
DeletedChain(first, size, fat) ==
    LET count == ClustersForSize(size)
        candidate == [i \in 1 .. count |-> first + i - 1]
    IN IF first < 2 \/ count = 0 THEN Chain(<<>>, "deleted_metadata_only", "unknown")
       ELSE IF first + count - 1 > ClusterCount + 1 THEN Chain(<<>>, "deleted_partial", "low")
       ELSE IF \E i \in DOMAIN candidate : fat[candidate[i]] # 0
            THEN Chain(<<>>, "deleted_reused", "low")
       ELSE Chain(candidate, "deleted_contiguous_candidate", "medium")

SectorsOf(cluster) ==
    LET first == FirstDataSector + (cluster - 2) * SectorsPerCluster
    IN first .. first + SectorsPerCluster - 1

SectorsOfChain(clusters) == UNION {SectorsOf(c) : c \in ToSet(clusters)}

\* _parse_root_directory, for one entry: a bad sector in the content lowers it.
ParseEntry(entry, walk, bad) ==
    LET chain == IF entry.deleted THEN DeletedChain(entry.first, entry.size, walk.fat)
                 ELSE AllocatedChain(entry.first, entry.size, walk)
    IN IF SectorsOfChain(chain.clusters) \cap bad # {}
       THEN Chain(chain.clusters, "partial_bad_sector", "low") ELSE chain

-----------------------------------------------------------------------------
(* What is left to carve.                                                  *)

(* Mutant: allocated clusters count as free space too. *)
FreeSectorsAll(fat, bad) == (UNION {SectorsOf(c) : c \in Clusters}) \ bad

FreeSectors(fat, bad) == (UNION {SectorsOf(c) : c \in {k \in Clusters : fat[k] = 0}}) \ bad

\* _free_cluster_ranges: runs of consecutive readable sectors of free clusters, each
\* its first sector and their number.
RunEnd(sectors, s) == Min({e \in sectors : e >= s /\ e + 1 \notin sectors})
Runs(sectors) ==
    {<<s, RunEnd(sectors, s) - s + 1>> : s \in {x \in sectors : x - 1 \notin sectors}}
FreeClusterRanges(fat, bad) == Runs(FreeSectors(fat, bad))

\* scan_fat12
ScanFat12 ==
    /\ scan.at = "walked"
    /\ scan' = [at |-> "done", entry |-> ParseEntry(floppy.entry, scan, floppy.bad),
                ranges |-> FreeClusterRanges(scan.fat, floppy.bad)]
    /\ UNCHANGED floppy

\* Media: any FAT over the chosen values, of whose two copies each is good or not.
FatOf(values, header) ==
    [i \in 0 .. ClusterCount + 1 |-> CASE i = 0 -> header [] i = 1 -> 4095 [] OTHER -> values[i]]

FatInit ==
    /\ \E values \in [Clusters -> FatValues], first \in 0 .. ClusterCount + 2,
          size \in 0 .. MaxSize, deleted \in BOOLEAN, bad \in BadSectorSets,
          good \in SUBSET {1, 2} :
          floppy = [values |-> values,
                    copies |-> [c \in {1, 2} |->
                        Packed(FatOf(values, IF c \in good THEN MediaHeader ELSE 0))],
                    good |-> good, bad |-> bad,
                    entry |-> [first |-> first, size |-> size, deleted |-> deleted]]
    /\ scan = NotScanned

FatNext == ReadFat \/ FollowFat \/ ScanFat12

FatSpec == FatInit /\ [][FatNext]_fatVars

-----------------------------------------------------------------------------
\* What the scan reports of a medium it could read.  A chain lists no cluster
\* twice.  An entry reported with more than low confidence has all the clusters
\* its size asks for, none of them unreadable; the clusters of an allocated one
\* are ones the FAT gives to a file, so none is offered for carving again, and
\* those of a deleted one are all free.  The carve ranges are exactly the
\* readable sectors of the clusters that the medium's own FAT has free.
IsSoundScan(medium, found) ==
    LET carved == UNION {r[1] .. r[1] + r[2] - 1 : r \in found.ranges}
        e == found.entry
        content == SectorsOfChain(e.clusters)
    IN /\ IsInjective(e.clusters) /\ ToSet(e.clusters) \subseteq Clusters
       /\ e.confidence \in {"certain", "high", "medium"} =>
             /\ Len(e.clusters) = ClustersForSize(medium.entry.size) \/ medium.entry.size = 0
             /\ content \cap medium.bad = {}
             /\ IF medium.entry.deleted THEN content \subseteq carved
                ELSE content \cap carved = {}
       /\ carved = {s \in UNION {SectorsOf(c) : c \in Clusters} :
                       s \notin medium.bad /\ \E c \in Clusters :
                           medium.values[c] = 0 /\ s \in SectorsOf(c)}
       /\ \A r, q \in found.ranges : r # q => r[1] + r[2] < q[1] \/ q[1] + q[2] < r[1]

ScanIsSound == scan.at = "done" /\ floppy.good # {} => IsSoundScan(floppy, scan)

(* What makes it inductive: the medium is as it was, the FAT of the walk is the medium's, *)
(* and what is walked so far are clusters of its own that the FAT gives to a file.        *)
IsFloppy(medium) ==
    /\ medium.values \in [Clusters -> FatValues] /\ medium.good \in SUBSET {1, 2}
    /\ medium.copies = [c \in {1, 2} |->
          Packed(FatOf(medium.values, IF c \in medium.good THEN MediaHeader ELSE 0))]
    /\ medium.entry.first \in Nat /\ medium.entry.size \in Nat
    /\ medium.entry.deleted \in BOOLEAN

IsSoundWalk(medium, walk) ==
    /\ walk.chain \in Seq(Clusters) /\ IsInjective(walk.chain) /\ walk.cursor \in Nat
    /\ walk.fat \in [0 .. ClusterCount + 1 -> Nat]
    /\ walk.state \in {"allocated_intact", "partial", "partial_bad_sector"}
    /\ walk.state = "allocated_intact" => \A i \in DOMAIN walk.chain : walk.fat[walk.chain[i]] # 0
    /\ medium.good # {} => \A c \in Clusters : walk.fat[c] = medium.values[c]

FatInv ==
    /\ IsFloppy(floppy)
    /\ scan.at \in {"walking", "walked"} => IsSoundWalk(floppy, scan)
    /\ ScanIsSound
=============================================================================
