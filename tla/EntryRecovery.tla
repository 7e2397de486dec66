--------------------------- MODULE EntryRecovery ---------------------------
(***************************************************************************)
(* The entries of a volume (scanner/filesystem_enumeration.py,             *)
(* entry_normalization.py, ntfs_entries.py) and the recovery of a deleted  *)
(* one from its cluster chain (fat_entries.py, deleted_entries.py).  A     *)
(* behaviour lists one volume or recovers one entry.                       *)
(*                                                                         *)
(* A line of fls is blank, or not understood, or names an entry: its path, *)
(* a sequence of names, and its object id, the number of the file and of   *)
(* the attribute.  An entry's id is made of its object id.  A cluster      *)
(* chain is the sequence of numbers found in the table.                    *)
(***************************************************************************)
EXTENDS Integers, Sequences, FiniteSets, SequencesExt

CONSTANTS Paths,        \* paths of entries
          StreamNames,  \* names that hold a base and a stream
          ObjectIds,    \* <<file, attribute>>
          MaxLines,     \* bound: lines of a listing
          LinesLimit,   \* batch_size
          Links,        \* numbers a chain is made of, of 12 bits
          MaxLinks,     \* bound: length of a chain
          ClusterBytes, \* cluster_size_bytes
          MaxChain,     \* max_clusters
          MaxRecover,   \* max_size_bytes of a recovery
          NoEntry       \* no parent, or the file's size is not known

ASSUME EntryAssumption ==
    /\ LinesLimit \in Nat /\ MaxLinks \in Nat /\ MaxChain \in Nat /\ MaxRecover \in Nat
    /\ ClusterBytes \in Nat \ {0} /\ \A k \in Links : k \in Nat /\ k <= 4095
    /\ NoEntry \notin Int /\ NoEntry \notin ObjectIds

VARIABLES listing, listed,      \* a volume's lines, and the entries
          deleted, recovered    \* an entry, and what is recovered

entryVars == <<listing, listed, deleted, recovered>>

NotAsked == [done |-> FALSE]
LowerOf(a, b) == IF a < b THEN a ELSE b
\* How many of the numbers of S come up to i, and the k-th of them.
RankIn(S, i) == Cardinality({j \in S : j <= i})
Nth(S, k) == CHOOSE i \in S : RankIn(S, i) = k

-----------------------------------------------------------------------------
\* _bounded_lines: blank lines do not count.
Filled(lines) == {i \in DOMAIN lines : lines[i].kind # "blank"}
BoundedLines(lines) == {i \in Filled(lines) : RankIn(Filled(lines), i) <= LinesLimit}

\* _parent_id: the last entry listed before at the path of the directory.
ParentId(named, i) ==
    LET above == {j \in 1 .. i - 1 : /\ Len(named[i].path) > 1
                                     /\ named[j].path = Front(named[i].path)}
    IN IF above = {} THEN NoEntry ELSE named[Max(above)].oid

\* parse_fls_output
ParseFlsOutput(lines) ==
    LET parsed == {i \in BoundedLines(lines) : lines[i].kind = "entry"}
        named == [k \in 1 .. Cardinality(parsed) |-> lines[Nth(parsed, k)]]
    IN [entries |-> [i \in DOMAIN named |-> [path |-> named[i].path, oid |-> named[i].oid,
                                             parent |-> ParentId(named, i)]],
        unparsed |-> \E i \in BoundedLines(lines) : lines[i].kind = "noise",
        truncated |-> Len(lines) > LinesLimit]

\* _alternate_stream: a name with a base, a colon and a stream.
IsStream(path) == Last(path) \in StreamNames

\* normalize_entries: the parent's entry, and the warnings that relate entries.  The
\* parent of an entry of fls was listed before it, so none is an orphan here.
NormalizeEntries(entries) ==
    [i \in DOMAIN entries |->
        LET e == entries[i]
            known == {j \in 1 .. i - 1 : entries[j].oid = e.parent}
        IN [path |-> e.path, oid |-> e.oid, parent |-> e.parent,
            parentEntry |-> IF known = {} THEN NoEntry ELSE entries[Max(known)].oid,
            orphan |-> e.parent # NoEntry /\ known = {},
            duplicate |-> \E j \in 1 .. i - 1 : /\ entries[j].parent = e.parent
                                                /\ Last(entries[j].path) = Last(e.path),
            stream |-> IsStream(e.path)]]

\* _object_identifiers
MftReference(e) == e.oid[1]

\* enrich_ntfs_entries: a stream belongs to the first entry of its file that is none.
StreamParent(entries, e) ==
    LET primary == {j \in DOMAIN entries : /\ ~entries[j].stream
                                            /\ MftReference(entries[j]) = MftReference(e)}
    IN IF ~e.stream \/ primary = {} THEN NoEntry
       ELSE IF entries[Min(primary)].oid = e.oid THEN NoEntry ELSE entries[Min(primary)].oid
EnrichNtfsEntries(entries) ==
    [i \in DOMAIN entries |->
        [entry |-> entries[i], streamOf |-> StreamParent(entries, entries[i]),
         alone |-> entries[i].stream /\ StreamParent(entries, entries[i]) = NoEntry]]

\* enumerate_filesystem: nothing is listed of a volume that is not supported.
EnumerateFilesystem ==
    /\ listing # NotAsked /\ listed = NotAsked
    /\ LET fls == IF listing.supported THEN ParseFlsOutput(listing.lines)
                  ELSE [entries |-> <<>>, unparsed |-> FALSE, truncated |-> FALSE]
       IN listed' = [done |-> TRUE, unparsed |-> fls.unparsed, truncated |-> fls.truncated,
                     entries |-> EnrichNtfsEntries(NormalizeEntries(fls.entries))]
    /\ UNCHANGED <<listing, deleted, recovered>>

-----------------------------------------------------------------------------
EndOfChain == 4088 .. 4095
BadClusters == {4087}

(* Mutant: a loop in the chain is followed until it is too long. *)
StopsAtLoops(chain, i) == i > MaxChain

\* A cluster already seen, or more than max_clusters of them.
StopsAt(chain, i) == i > MaxChain \/ \E j \in 1 .. i - 1 : chain[j] = chain[i]

\* normalize_cluster_chain: the clusters up to the first number that is not one more;
\* a chain that simply ends counts as complete.
NormalizeClusterChain(chain) ==
    LET stops == {i \in DOMAIN chain : \/ chain[i] \in EndOfChain \cup BadClusters
                                       \/ chain[i] < 2 \/ StopsAt(chain, i)}
        stop == Min(stops \cup {Len(chain) + 1})
    IN [clusters |-> SubSeq(chain, 1, stop - 1),
        status |-> IF stop > Len(chain) THEN IF chain = <<>> THEN "empty" ELSE "complete"
                   ELSE IF chain[stop] \in EndOfChain THEN "complete"
                   ELSE IF \/ chain[stop] \in BadClusters \/ chain[stop] < 2
                           \/ \E j \in 1 .. stop - 1 : chain[j] = chain[stop] THEN "corrupt"
                   ELSE "truncated"]

\* cluster_extents: whole clusters while the size is not known, else while bytes of it
\* remain.
Remaining(size, i) == size - (i - 1) * ClusterBytes
ClusterExtents(clusters, size) ==
    [i \in {k \in DOMAIN clusters : size = NoEntry \/ Remaining(size, k) > 0} |->
        [offset |-> (clusters[i] - 2) * ClusterBytes,
         length |-> IF size = NoEntry THEN ClusterBytes
                    ELSE LowerOf(ClusterBytes, Remaining(size, i))]]

\* sum_extent_lengths: as many as there are bytes in the extents.
BytesOf(extents) == UNION {{i} \X (1 .. extents[i].length) : i \in DOMAIN extents}
SumExtentLengths(extents) == Cardinality(BytesOf(extents))

\* recover_deleted_entry, _recover_with_extraction, _recovery_state, with what
\* extract_allocated_content makes of the entry when no extent fails to read.
RecoveryState(entry, extents) ==
    LET sum == SumExtentLengths(extents)
        size == IF entry.size = NoEntry THEN sum ELSE entry.size
    IN CASE entry.allocated -> "allocated_not_deleted"
         [] ~entry.allocated /\ ~entry.file -> "metadata_only"
         [] ~entry.allocated /\ entry.file /\ entry.size = 0 -> "intact"
         [] OTHER -> IF extents = <<>> THEN "unrecoverable"
                     ELSE IF size # sum THEN "partial"
                     ELSE IF size > MaxRecover THEN "deferred_size_limit"
                     ELSE IF ~entry.readable \/ entry.size = NoEntry THEN "partial"
                     ELSE "intact"

\* enrich_fat_entry, then the recovery.
RecoverDeletedEntry ==
    /\ deleted # NotAsked /\ recovered = NotAsked
    /\ LET chain == NormalizeClusterChain(deleted.chain)
           extents == ClusterExtents(chain.clusters, deleted.size)
       IN recovered' = [done |-> TRUE, chain |-> chain, extents |-> extents,
                        state |-> RecoveryState(deleted, extents)]
    /\ UNCHANGED <<listing, listed, deleted>>

-----------------------------------------------------------------------------
FlsLines == [kind : {"blank", "noise"}]
            \cup [kind : {"entry"}, path : Paths, oid : ObjectIds]

EntryInit ==
    /\ listed = NotAsked /\ recovered = NotAsked
    /\ \/ /\ \E lines \in BoundedSeq(FlsLines, MaxLines), supported \in BOOLEAN :
                 /\ ~supported => lines = <<>>      \* fls is not run
                 /\ listing = [lines |-> lines, supported |-> supported]
          /\ deleted = NotAsked
       \/ /\ \E chain \in BoundedSeq(Links, MaxLinks), file, readable, allocated \in BOOLEAN,
                size \in {NoEntry} \cup 0 .. MaxRecover + 1 :
                 deleted = [chain |-> chain, size |-> size, file |-> file,
                            readable |-> readable, allocated |-> allocated]
          /\ listing = NotAsked

EntryNext == EnumerateFilesystem \/ RecoverDeletedEntry

EntrySpec == EntryInit /\ [][EntryNext]_entryVars

-----------------------------------------------------------------------------
\* The entries of a supported volume are all there and in their places.  A line that
\* is left out is warned of; an entry hangs below the very entry listed last at its
\* directory's path, and below none only when none was listed; and a stream belongs to
\* an entry of its own file that is no stream.
ArePlaced(lines, found) ==
    LET entries == found.entries
        path(i) == entries[i].entry.path
        filled == {i \in DOMAIN lines : lines[i].kind # "blank"}
    IN /\ Len(entries) = Cardinality(filled) \/ found.unparsed \/ found.truncated
       /\ \A i \in DOMAIN entries :
              LET e == entries[i].entry
                  above == {j \in 1 .. i - 1 : Len(path(i)) > 1 /\ path(j) = Front(path(i))}
              IN /\ e.parentEntry = NoEntry <=> above = {}
                 /\ \A j \in above : (\A k \in above : k <= j)
                                        => e.parentEntry = entries[j].entry.oid
                 /\ ~e.orphan
       /\ \A i \in DOMAIN entries : entries[i].streamOf # NoEntry =>
              \E j \in DOMAIN entries : /\ ~entries[j].entry.stream /\ i # j
                                        /\ entries[j].entry.oid = entries[i].streamOf
                                        /\ entries[i].streamOf[1] = entries[i].entry.oid[1]
EntriesPlaced == listed.done /\ listing.supported => ArePlaced(listing.lines, listed)

InData(k) == 2 <= k /\ k <= 4086     \* the numbers of clusters, of 12 bits

\* A deleted file reported intact has its known size in full, of the first clusters of
\* its chain, none twice; and a sound chain of a readable file is reported intact: one
\* that has enough clusters for the size, no more than the limit, and none twice.
IsWhole(entry, found) ==
    LET extents == found.extents
        sound == \E n \in 0 .. MaxChain :
                    /\ n <= Len(entry.chain) /\ entry.size <= n * ClusterBytes
                    /\ \A i \in 1 .. n : /\ InData(entry.chain[i])
                                         /\ \A j \in 1 .. i - 1 :
                                                entry.chain[i] # entry.chain[j]
    IN /\ found.state = "intact" =>
              /\ entry.size # NoEntry /\ SumExtentLengths(extents) = entry.size
              /\ \A i \in DOMAIN extents :
                     /\ extents[i].offset = (entry.chain[i] - 2) * ClusterBytes
                     /\ \A j \in 1 .. i - 1 : extents[j].offset # extents[i].offset
       /\ ~entry.allocated /\ entry.file /\ entry.readable /\ entry.size # NoEntry
              => (sound /\ entry.size <= MaxRecover <=> found.state = "intact")
IntactIsWhole == recovered.done => IsWhole(deleted, recovered)

\* Entries are listed where they are (filesystem_enumeration.py:189, ntfs_entries.py:163)
\* and recovered as a whole or not called intact (deleted_entries.py:29).
EntriesHold == EntriesPlaced /\ IntactIsWhole

(* What makes it inductive: what is asked. *)
EntryInv ==
    /\ listing # NotAsked => listing.lines \in Seq(FlsLines)
    /\ deleted # NotAsked => /\ deleted.chain \in Seq(Links)
                             /\ deleted.size \in Nat \cup {NoEntry}
    /\ EntriesHold
=============================================================================
