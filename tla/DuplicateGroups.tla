--------------------------- MODULE DuplicateGroups ---------------------------
(***************************************************************************)
(* Groups of duplicate findings (worker/duplicate_groups.py): exact ones   *)
(* by digest, and near ones by a union-find over the pairs that are alike. *)
(* A behaviour is about one set of candidates.  Whether two findings are   *)
(* alike is an arbitrary set of pairs: a distance of hashes within the     *)
(* threshold for images, or enough matching frames for videos, which is    *)
(* not symmetric but asked of the smaller identifier first.                *)
(***************************************************************************)
EXTENDS Integers, FiniteSets

CONSTANTS CandidateCount, \* finding identifiers are numbers, for their order
          Digests,      \* content digests, with NoDigest for none or an invalid one
          NoDigest,
          CandidateSets \* what may be given: for each finding its digest and its size,
                        \* which ones are alike, and which lack a preview or a path

Candidates == 1 .. CandidateCount

ASSUME GroupAssumption ==
    /\ CandidateCount \in Nat
    /\ CandidateSets \subseteq
          [digest : [Candidates -> Digests], size : [Candidates -> Nat],
           alike : SUBSET {s \in SUBSET Candidates : Cardinality(s) = 2},
           previewless : SUBSET Candidates, pathless : SUBSET Candidates]

VARIABLES media,        \* the candidates
          grouping      \* the union-find, the pair it is at, and the groups, once built

groupVars == <<media, grouping>>

Ungrouped == [done |-> FALSE, parent |-> [f \in Candidates |-> f], pair |-> <<1, 2>>]
Alike(f, g) == {f, g} \in media.alike

\* _exact_groups: findings of one digest, unless their sizes differ.
ExactGroups ==
    {members \in {{f \in Candidates : media.digest[f] = d} : d \in Digests \ {NoDigest}} :
        /\ Cardinality(members) > 1
        /\ \A f, g \in members : media.size[f] = media.size[g]}

-----------------------------------------------------------------------------
(* The union-find of _clusters.                                            *)

\* find: where each finding comes to when it follows its parents.  (The code also
\* shortens the path on its way, which changes no root.)
IsRoots(root, parent) ==
    \A f \in Candidates : root[f] = IF parent[f] = f THEN f ELSE root[parent[f]]
Roots(parent) == CHOOSE root \in [Candidates -> Candidates] : IsRoots(root, parent)

(* Mutant: the findings are joined and not their roots. *)
UnionOfLeaves(parent, f, g) ==
    IF f = g THEN parent ELSE [parent EXCEPT ![IF f > g THEN f ELSE g] = IF f > g THEN g ELSE f]

\* union: the smaller root becomes the parent of the larger.
Union(parent, f, g) ==
    LET a == Roots(parent)[f]
        b == Roots(parent)[g]
    IN IF a = b THEN parent ELSE [parent EXCEPT ![IF a > b THEN a ELSE b] = IF a > b THEN b ELSE a]

\* Every pair once, in the order of the two loops.
PairLeft == grouping.pair[2] <= CandidateCount
Following(pair) ==
    IF pair[2] < CandidateCount THEN <<pair[1], pair[2] + 1>> ELSE <<pair[1] + 1, pair[1] + 2>>
MeetPair ==
    LET f == grouping.pair[1]
        g == grouping.pair[2]
    IN /\ PairLeft
       /\ grouping' = [grouping EXCEPT !.pair = Following(@),
                          !.parent = IF Alike(f, g) THEN Union(@, f, g) ELSE @]
       /\ UNCHANGED media

NearGroups ==
    {members \in {{f \in Candidates : Roots(grouping.parent)[f] = r} : r \in Candidates} :
        Cardinality(members) > 1}

\* The best of a group: one that lacks nothing, the largest, the first path (paths are
\* in the reverse order of the identifiers, and having none comes first), the first
\* identifier.
Precedes(f, g, lacking) ==
    LET key(h) == <<IF h \in lacking THEN 1 ELSE 0, 0 - media.size[h],
                    IF h \in media.pathless THEN 0 ELSE CandidateCount + 1 - h, h>>
    IN \E k \in 1 .. 4 : /\ key(f)[k] < key(g)[k]
                         /\ \A j \in 1 .. k - 1 : key(f)[j] = key(g)[j]
Foremost(members, lacking) ==
    {f \in members : \A g \in members \ {f} : Precedes(f, g, lacking)}
Best(members, lacking) == CHOOSE f \in Foremost(members, lacking) : TRUE

\* _canonical, from which distances are measured, looks at the previews; and
\* _canonical_member, which is reported, at the paths.
Canonical(members) == Best(members, media.previewless)
CanonicalMember(members) == Best(members, media.pathless)

\* build_duplicate_groups, _group, once every pair was met
BuildDuplicateGroups ==
    /\ ~PairLeft /\ ~grouping.done
    /\ grouping' = [done |-> TRUE, parent |-> grouping.parent, pair |-> grouping.pair,
                    exact |-> ExactGroups, near |-> NearGroups,
                    reported |-> [m \in NearGroups |-> CanonicalMember(m)],
                    measured |-> [m \in NearGroups |-> Canonical(m)]]
    /\ UNCHANGED media

GroupNext == MeetPair \/ BuildDuplicateGroups

GroupInit ==
    /\ media \in CandidateSets
    /\ grouping = Ungrouped

GroupSpec == GroupInit /\ [][GroupNext]_groupVars

-----------------------------------------------------------------------------
\* A chain of like findings leads from f to g: no set closed under likeness has the
\* one without the other.
ClosedUnderLikeness(set) == \A x \in set, y \in Candidates : Alike(x, y) => y \in set
Linked(f, g) == \A set \in SUBSET Candidates : f \in set /\ ClosedUnderLikeness(set) => g \in set

\* Two findings are in one near group exactly when a chain of like findings links
\* them, in whatever order the pairs are met, and every finding is in one near
\* group at most; an exact group holds all the findings of its digest.  The finding
\* reported for a near group is the one distances are measured from, in a group where
\* every finding has a preview and a path, or lacks both.
GroupsAreComponents ==
    grouping.done =>
        /\ \A f, g \in Candidates :
               f # g => ((\E m \in grouping.near : {f, g} \subseteq m) <=> Linked(f, g))
        /\ \A m, n \in grouping.near : m \cap n # {} => m = n
        /\ \A m \in grouping.exact : \A f \in m, g \in Candidates :
               media.digest[f] = media.digest[g] => g \in m
        /\ \A m \in grouping.near : media.previewless \cap m = media.pathless \cap m
               => grouping.reported[m] = grouping.measured[m]

(* What makes it inductive: parents come before their children, findings of one *)
(* root are linked, and like findings that have met have one root.              *)
Met(f, g) ==
    f < grouping.pair[1] \/ (f = grouping.pair[1] /\ g < grouping.pair[2])
GroupInv ==
    /\ {"done", "parent", "pair"} \subseteq DOMAIN grouping
    /\ grouping.done => ~PairLeft
    /\ grouping.parent \in [Candidates -> Candidates]
    /\ \A f \in Candidates : grouping.parent[f] <= f
    /\ grouping.pair \in Nat \X Nat
    /\ 1 <= grouping.pair[1] /\ grouping.pair[1] < grouping.pair[2]
    /\ PairLeft \/ grouping.pair[1] >= CandidateCount
    /\ \A f, g \in Candidates :
        Roots(grouping.parent)[f] = Roots(grouping.parent)[g] => Linked(f, g)
    /\ \A f, g \in Candidates :
        f < g /\ Met(f, g) /\ Alike(f, g) => Roots(grouping.parent)[f] = Roots(grouping.parent)[g]
    /\ GroupsAreComponents
=============================================================================
