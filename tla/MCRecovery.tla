----------------------------- MODULE MCRecovery -----------------------------
(***************************************************************************)
(* The recovery of content, in two parts that share no state: extraction   *)
(* and ingestion into the scratch store (Recovery), and PhotoRec's         *)
(* sessions (PhotoRecSession).  A behaviour exercises one of them; the     *)
(* other stays in its initial state.                                       *)
(***************************************************************************)
EXTENDS Recovery, PhotoRecSession, TLC

CONSTANT blkA           \* a block of data

VARIABLE part           \* the part this behaviour is about

MCWriters == {X, I}
MCContents ==           \* what the entries and the carved file below can come to
    {<<>>, <<blkA>>, <<Zero>>, <<blkA, Zero>>, <<Zero, Zero>>}
MCSize == [c \in MCContents |-> Len(c)]
MCMedia == <<blkA>>
MCMaxPuts == (X :> 2) @@ (I :> 1)
MCCarving == <<blkA, Zero>>      \* the same bytes as an entry below

At(k) == [sector |-> k, sparse |-> FALSE]
Hole == [sector |-> 0, sparse |-> TRUE]
Entry(alloc, kind, size, where) ==
    [allocated |-> alloc, type |-> kind, size |-> size, extents |-> where]

\* One entry for each way the extraction can go, a directory aside.
MCEntries ==
    {Entry(FALSE, "deleted", 1, <<At(1)>>), Entry(TRUE, "file", 0, <<>>),
     Entry(TRUE, "file", 2, <<At(1)>>), Entry(TRUE, "file", NoSize, <<At(1), At(1), At(1)>>),
     Entry(TRUE, "file", NoSize, <<At(1), Hole>>)}

\* The sources are alike.
MCSymmetry == Permutations(Sources)

MCInit ==
    /\ RecoveryInit /\ PRInit
    /\ part \in {"store", "photorec"}

MCNext ==
    /\ UNCHANGED part
    /\ \/ part = "store" /\ RecoveryNext /\ UNCHANGED prVars
       \/ part = "photorec" /\ PRNext /\ UNCHANGED recoveryVars

MCSpec == MCInit /\ [][MCNext]_<<recoveryVars, prVars, part>>
=============================================================================
