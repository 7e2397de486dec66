----------------------------- MODULE DiskLayout -----------------------------
(***************************************************************************)
(* Where a medium holds volumes (scanner/partition_discovery.py,           *)
(* lost_volume_candidates.py and usb_media_pipeline.py): the rows of the   *)
(* partition table as mmls prints them, the volumes whose boot sector lies *)
(* where no partition is, and the layout and the carving that follow.  A   *)
(* medium is given by its table and by the signature of each sector; a     *)
(* behaviour is about one medium.                                          *)
(***************************************************************************)
EXTENDS Integers, FiniteSets, Sequences

CONSTANTS SectorCount,    \* sectors of the medium
          TableRows,      \* rows that mmls may print
          SectorMarks,    \* what a sector may hold: a signature, and whether it is stale
          MaxRows,        \* bound: rows of the table
          MaxCandidates,  \* max_candidates
          CandidateSpan,  \* sectors given to a lost volume at most
          CarveBudget     \* sectors carved of a whole medium at most

LastSector == SectorCount - 1

\* A row of mmls: whether it is marked Meta, and described as a table or as unallocated.
Rows == [start : 0 .. LastSector, end : 0 .. LastSector, count : 0 .. SectorCount,
         meta : BOOLEAN, free : BOOLEAN]

ASSUME LayoutAssumption ==
    /\ TableRows \subseteq Rows
    /\ SectorMarks \subseteq [signature : {"none", "ntfs", "fat"}, stale : BOOLEAN]
    /\ SectorCount \in Nat \ {0} /\ CandidateSpan \in Nat \ {0}
    /\ MaxRows \in Nat /\ MaxCandidates \in Nat

VARIABLES medium,         \* the input
          layout          \* what is found, once it is looked at

layoutVars == <<medium, layout>>

NotLooked == [done |-> FALSE]
Smaller(a, b) == IF a < b THEN a ELSE b
NotNegative(n) == IF n < 0 THEN 0 ELSE n

\* _entry_from_match: a row with no sectors is not allocated, whatever its mark.
Entry(row) ==
    [start |-> row.start, end |-> row.end, count |-> row.count,
     mismatch |-> row.count # NotNegative(row.end - row.start + 1),
     allocated |-> row.meta /\ ~(row.end < row.start \/ row.count <= 0) /\ ~row.free]

(* Mutant: a partition may begin in the last sector of the one before. *)
TouchesLater(start, previousEnd) == start < previousEnd

Touches(start, previousEnd) == start <= previousEnd

\* _has_overlap: the allocated entries by start and then by end, each one compared with
\* the one that follows.
Allocated(entries) == {i \in DOMAIN entries : entries[i].allocated}
Precede(entries, i, j) ==
    \/ entries[i].start < entries[j].start
    \/ entries[i].start = entries[j].start /\ entries[i].end < entries[j].end
    \/ entries[i].start = entries[j].start /\ entries[i].end = entries[j].end /\ i < j
Follows(entries, i, j) ==
    /\ Precede(entries, i, j)
    /\ ~\E k \in Allocated(entries) : Precede(entries, i, k) /\ Precede(entries, k, j)
HasOverlap(entries) ==
    \E i, j \in Allocated(entries) :
        Follows(entries, i, j) /\ Touches(entries[j].start, entries[i].end)

\* parse_mmls_output
ParseMmlsOutput ==
    LET entries == [i \in DOMAIN medium.rows |-> Entry(medium.rows[i])]
    IN [entries |-> entries, overlap |-> HasOverlap(entries),
        missing |-> ~medium.table \/ entries = <<>>]

-----------------------------------------------------------------------------
\* _overlapping_partitions: by offset and length, with rows that are not allocated.
OverlapsPartition(sector, known) ==
    \E e \in known : e.start <= sector /\ sector < e.start + e.count

\* _confidence, in hundredths
Confidence(signature, overlaps, stale) ==
    NotNegative((CASE signature = "ntfs" -> 90 [] signature = "fat" -> 70)
                - (IF overlaps THEN 25 ELSE 0) - (IF stale THEN 35 ELSE 0))

\* _candidate
Candidate(sector, known) ==
    LET mark == medium.marks[sector]
        overlaps == OverlapsPartition(sector, known)
        confidence == Confidence(mark.signature, overlaps, mark.stale)
        length == Smaller(SectorCount - sector, CandidateSpan)
    IN [sector |-> sector, confidence |-> confidence,
        status |-> IF mark.stale THEN "stale" ELSE IF overlaps THEN "overlap" ELSE "candidate",
        schedule |-> IF overlaps /\ confidence < 75 THEN {}
                     ELSE {<<sector, sector + length>>}]

\* detect_lost_volume_candidates: the first signatures, up to the limit.
CandidateSectors ==
    LET marked == {s \in 0 .. LastSector : medium.marks[s].signature # "none"}
    IN {s \in marked : Cardinality({t \in marked : t < s}) < MaxCandidates}

\* An encrypted medium without any signature is one candidate, from its first sector.
EncryptedMedium ==
    [sector |-> 0, confidence |-> 35, status |-> "encrypted",
     schedule |-> {<<0, Smaller(SectorCount, CandidateSpan)>>}]
LostVolumes(known) ==
    IF CandidateSectors = {} /\ medium.encrypted THEN {EncryptedMedium}
    ELSE {Candidate(s, known) : s \in CandidateSectors}

\* determine_partitioning_mode, _partitionless_or_lost: a table that is there but has
\* no allocated entry leaves the candidates unused.
PartitioningMode(table, lost) ==
    IF Allocated(table.entries) # {} THEN "partitioned"
    ELSE IF ~table.missing THEN "raw_unallocated"
    ELSE IF \E c \in lost : c.sector = 0 THEN "partitionless_superfloppy"
    ELSE IF lost # {} THEN "lost_partition" ELSE "raw_unallocated"

\* bounded_carve_ranges: the first sectors of the medium.
CarveRange == <<0, Smaller(SectorCount, CarveBudget)>>

\* The caller shows the search every row of the table, or the allocated ones only.
LookAtMedium ==
    /\ layout = NotLooked
    /\ LET table == ParseMmlsOutput
           known == {table.entries[i] : i \in IF medium.every THEN DOMAIN table.entries
                                              ELSE Allocated(table.entries)}
           lost == LostVolumes(known)
       IN layout' = [done |-> TRUE, table |-> table, lost |-> lost, known |-> known,
                     mode |-> PartitioningMode(table, lost), carve |-> CarveRange]
    /\ UNCHANGED medium

LayoutInit ==
    /\ layout = NotLooked
    /\ \E n \in 0 .. MaxRows, table, every, encrypted \in BOOLEAN :
       \E rows \in [1 .. n -> TableRows], marks \in [0 .. LastSector -> SectorMarks] :
           /\ n > 0 => table
           /\ encrypted => \A k \in DOMAIN marks : marks[k].signature = "none"
           /\ medium = [table |-> table, every |-> every, encrypted |-> encrypted,
                        rows |-> rows, marks |-> marks]

LayoutSpec == LayoutInit /\ [][LookAtMedium]_layoutVars

-----------------------------------------------------------------------------
\* The table is read right and no volume is passed over.  Two allocated partitions
\* share a sector exactly when the overlap is reported, though only neighbours are
\* compared; a volume that lies in no known partition is given to the carver in full
\* up to the span, within the medium, unless the limit of candidates is reached
\* before it; and a medium is called partitioned only for a partition with sectors.
VolumesFound ==
    layout.done =>
        LET entries == layout.table.entries
            within(e, s) == e.start <= s /\ s <= e.end
            scheduled == UNION {c.schedule : c \in layout.lost}
        IN /\ layout.table.overlap <=>
                  \E i, j \in DOMAIN entries : \E s \in 0 .. LastSector :
                      /\ i < j /\ entries[i].allocated /\ entries[j].allocated
                      /\ within(entries[i], s) /\ within(entries[j], s)
           /\ \A s \in 0 .. LastSector :
                  /\ medium.marks[s].signature # "none"
                  /\ ~\E e \in layout.known : e.start <= s /\ s < e.start + e.count
                  => \/ <<s, Smaller(s + CandidateSpan, SectorCount)>> \in scheduled
                     \/ Cardinality({c \in layout.lost : c.sector < s}) = MaxCandidates
           /\ \A r \in scheduled : 0 <= r[1] /\ r[1] < r[2] /\ r[2] <= SectorCount
           /\ layout.mode = "partitioned" =>
                  \E i \in DOMAIN entries : \E s \in 0 .. LastSector : within(entries[i], s)
           /\ layout.mode \in {"partitionless_superfloppy", "lost_partition"} => layout.lost # {}

(* What makes it inductive: what is known of the medium. *)
LayoutInv ==
    /\ medium.rows \in Seq(Rows)
    /\ \A s \in 0 .. LastSector : medium.marks[s].signature \in {"none", "ntfs", "fat"}
    /\ medium.encrypted => \A s \in 0 .. LastSector : medium.marks[s].signature = "none"
    /\ VolumesFound
=============================================================================
