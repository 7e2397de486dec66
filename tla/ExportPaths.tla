----------------------------- MODULE ExportPaths -----------------------------
(***************************************************************************)
(* Where exported files go (worker/export_manifest.py): the paths of the   *)
(* items, made safe for the destination and told apart.  A name is its     *)
(* stem and the "__k" endings it carries, so that a source's own "a__1" is *)
(* the name a collision of "a" gets.  Every component of a path counts as  *)
(* three bytes, every separator as one.                                    *)
(***************************************************************************)
EXTENDS Integers, FiniteSets, Sequences, SequencesExt

CONSTANTS Stems,            \* what names are made of, those this module names and others
          SourcePaths,      \* display paths: sequences of names
          PathLimits,       \* MAX_LOCAL_PATH_BYTES and MAX_REMOTE_PATH_BYTES
          MaxExports        \* bound: items of an export

PathNames == [stem : Stems, endings : Seq(Nat)]
Plain(stem) == [stem |-> stem, endings |-> <<>>]
Ending(name, k) == [name EXCEPT !.endings = Append(@, k)]

ASSUME ExportPathsAssumption ==
    /\ {"unnamed", "_CON", "a", "A", "", ".", "..", "cut", "carved"} \subseteq Stems
    /\ SourcePaths \subseteq Seq(PathNames) /\ PathLimits \subseteq Nat /\ MaxExports \in Nat

VARIABLES export,           \* the input: paths, kinds, limit and case_insensitive
          plan              \* the destination paths of the items planned so far

exportVars == <<export, plan>>

NoExport == [paths |-> <<>>]
NoPlan == <<>>

\* sanitize_component: what is empty once cleaned is "unnamed", a reserved device name
\* gets a "_", dots at the end go.
SanitizeComponent(name) ==
    CASE name.stem = "blank" -> Plain("unnamed")
      [] name = Plain("CON") -> Plain("_CON")
      [] name = Plain("a.") -> Plain("a")
      [] OTHER -> name

\* safe_relative_path: parts that lead nowhere or upwards are dropped, and what is
\* longer than the destination takes is cut one byte short of it, maybe after a
\* separator (an empty last name), maybe within a name.
KeptParts(path) == {i \in DOMAIN path : path[i] \notin {Plain(".."), Plain(".")}}
KeptPart(path, k) ==
    CHOOSE i \in KeptParts(path) : Cardinality({j \in KeptParts(path) : j <= i}) = k
Cleaned(path) ==
    [k \in 1 .. Cardinality(KeptParts(path)) |-> SanitizeComponent(path[KeptPart(path, k)])]
Bytes(path) == IF path = <<>> THEN 0 ELSE 4 * Len(path) - 1
FirstBytes(name, n) ==
    CASE n = 0 -> Plain("")
      [] n > 0 /\ name.stem = "..a" -> Plain(IF n = 1 THEN "." ELSE "..")
      [] OTHER -> Plain("cut")
TruncateToBytes(path, limit) ==
    LET whole == limit \div 4
        rest == limit % 4
    IN IF Bytes(path) <= limit THEN path
       ELSE IF rest = 0 THEN SubSeq(path, 1, whole)
       ELSE Append(SubSeq(path, 1, whole), FirstBytes(path[whole + 1], rest - 1))
SafeRelativePath(path, limit) == TruncateToBytes(Cleaned(path), limit)

\* carved_destination_name: from the last name as it is, and the size (one size here).
CarvedSize == 0
CarvedDestinationName(path) ==
    <<Plain("carved"),
      Ending(IF path = <<>> THEN Plain("carved") ELSE path[Len(path)], CarvedSize)>>

\* _key
Upper(name) == IF name.stem = "a" THEN [name EXCEPT !.stem = "A"] ELSE name
Key(path, insensitive) == IF insensitive THEN [i \in DOMAIN path |-> Upper(path[i])] ELSE path

\* The ending goes to the end of the path, whatever is there.
WithEnding(path, k) ==
    IF k = 0 THEN path
    ELSE IF path = <<>> THEN <<Ending(Plain(""), k)>>
    ELSE [path EXCEPT ![Len(path)] = Ending(@, k)]

(* Mutant: the name with an ending is taken without another look. *)
UniqueAtOnce(relative, used, insensitive) ==
    IF Key(relative, insensitive) \in used THEN WithEnding(relative, 1) ELSE relative
\* _unique: the first ending not in use.  (Of one more than there are keys in use,
\* one is free.)
Unique(relative, used, insensitive) ==
    WithEnding(relative, CHOOSE k \in 0 .. Cardinality(used) :
        /\ Key(WithEnding(relative, k), insensitive) \notin used
        /\ \A j \in 0 .. k - 1 : Key(WithEnding(relative, j), insensitive) \in used)

\* The path of an item before it is told apart from the others.
Relative(i) ==
    IF export.carved[i] THEN CarvedDestinationName(export.paths[i])
    ELSE SafeRelativePath(export.paths[i], export.limit)
Used == {Key(plan[j], export.insensitive) : j \in DOMAIN plan}

ExportPathsInit ==
    /\ \E n \in 1 .. MaxExports :
        export \in [paths : [1 .. n -> SourcePaths], carved : [1 .. n -> BOOLEAN],
                    limit : PathLimits, insensitive : BOOLEAN]
    /\ plan = NoPlan

\* plan_export_paths: the next item, in the order of the items.
PlanExport ==
    /\ export # NoExport /\ Len(plan) < Len(export.paths)
    /\ plan' = Append(plan, Unique(Relative(Len(plan) + 1), Used, export.insensitive))
    /\ UNCHANGED export

ExportPathsSpec == ExportPathsInit /\ [][PlanExport]_exportVars

-----------------------------------------------------------------------------
\* worker/export_manifest.py:159: no two items go to one place, on a destination that
\* tells cases apart or one that does not, even if a source's own name looks like the
\* ending of a collision; and no name of a destination leads upwards, but for one that
\* the cut of a path that is too long made of the beginning of another name.  (Places
\* are told apart as strings: a path cut after its separator is not the directory
\* before it.)
DestinationsApart ==
    /\ \A i, j \in DOMAIN plan : i # j =>
           Key(plan[i], export.insensitive) # Key(plan[j], export.insensitive)
    /\ \A i \in DOMAIN plan : \A k \in DOMAIN plan[i] : plan[i][k] = Plain("..") =>
           /\ k = Len(plan[i]) /\ ~export.carved[i]
           /\ Bytes(Cleaned(export.paths[i])) > export.limit

(* What makes it inductive: sources and destinations are paths, and no more items are *)
(* planned than there are.                                                           *)
ExportPathsInv ==
    /\ export.paths \in Seq(Seq(PathNames)) /\ export.limit \in Nat
    /\ export.insensitive \in BOOLEAN
    /\ plan \in Seq(Seq(PathNames)) /\ Len(plan) <= Len(export.paths)
    /\ DestinationsApart
=============================================================================
