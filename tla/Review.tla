------------------------------- MODULE Review -------------------------------
(***************************************************************************)
(* Review of findings over the HTTP API (api/app.py): a client pages       *)
(* through the findings of one status while the scanner adds findings and  *)
(* an operator dismisses, restores and undoes.  The API serves one review  *)
(* request at a time, but its connection commits every statement by itself *)
(* (isolation_level=None), so its death leaves a request half done and     *)
(* another reader sees it half done.                                       *)
(***************************************************************************)
EXTENDS Naturals, FiniteSets

CONSTANTS Findings,     \* finding identifiers: numbers, for their order
          CreatedAt,    \* the second in which each finding is created
          PageLimit,    \* the client's limit
          MaxGroups,    \* bound: review actions
          MaxUndos      \* bound: undo requests

ASSUME ReviewAssumption ==
    /\ Findings \subseteq Nat \ {0} /\ IsFiniteSet(Findings)
    /\ \A f \in Findings : CreatedAt[f] \in Nat
    /\ PageLimit \in Nat \ {0}

VARIABLES findings,     \* the rows: finding |-> its status
          actions,      \* the review_actions table, a set of rows
          groups,       \* review actions begun
          undos,
          request,      \* the request in hand
          orphans,      \* findings whose last change has no record, for a death in between
          pager         \* the client

reviewVars == <<findings, actions, groups, undos, request, orphans, pager>>

Statuses == {"new", "dismissed"}
NoRequest == [kind |-> "none", group |-> 0, todo |-> {}, half |-> FALSE]
NoCursor == <<0, 0>>
Existing == DOMAIN findings

-----------------------------------------------------------------------------
(* Paging.                                                                 *)

PositionOf(f) == <<CreatedAt[f], f>>

(* Mutant: the cursor has no tie-breaker. *)
AfterCursorByTime(f, cursor) == CreatedAt[f] > cursor[1]

\* (created_at > ? OR (created_at = ? AND finding_id > ?))
AfterCursor(f, cursor) ==
    \/ CreatedAt[f] > cursor[1]
    \/ CreatedAt[f] = cursor[1] /\ f > cursor[2]

\* _query_findings, and _query_browser_artifacts likewise: the rows that match, ...
Matching(status, cursor) ==
    {f \in Existing : findings[f] = status /\ AfterCursor(f, cursor)}

\* ... ORDER BY created_at, finding_id, the first of them up to the limit.
RowBefore(f, g) == CreatedAt[f] < CreatedAt[g] \/ (CreatedAt[f] = CreatedAt[g] /\ f < g)
RowNumber(f, rows) == Cardinality({g \in rows : g = f \/ RowBefore(g, f)})
PageOf(rows) == {f \in rows : RowNumber(f, rows) <= PageLimit}
LastRow(page) == CHOOSE f \in page : \A g \in page : g = f \/ RowBefore(g, f)

OpenList(status) ==
    /\ pager.at = "closed"
    /\ pager' = [at |-> "open", status |-> status, cursor |-> NoCursor, listed |-> {},
                 repeated |-> {}, steady |-> {f \in Existing : findings[f] = status}]
    /\ UNCHANGED <<findings, actions, groups, undos, request, orphans>>

\* There is another page when one row more than the limit is found.
NextPage ==
    /\ pager.at = "open"
    /\ LET rows == Matching(pager.status, pager.cursor)
           page == PageOf(rows)
       IN pager' = [at |-> IF Cardinality(rows) > PageLimit THEN "open" ELSE "done",
                    status |-> pager.status,
                    cursor |-> IF page = {} THEN pager.cursor ELSE PositionOf(LastRow(page)),
                    listed |-> pager.listed \cup page,
                    repeated |-> pager.repeated \cup (pager.listed \cap page),
                    steady |-> pager.steady]
    /\ UNCHANGED <<findings, actions, groups, undos, request, orphans>>

\* The scanner records a finding, in a second not before the ones there are.
RecordFinding(f) ==
    /\ f \notin Existing
    /\ \A g \in Existing : CreatedAt[g] <= CreatedAt[f]
    /\ findings' = [g \in Existing \cup {f} |-> IF g = f THEN "new" ELSE findings[g]]
    /\ UNCHANGED <<actions, groups, undos, request, orphans, pager>>

-----------------------------------------------------------------------------
(* Review actions.                                                         *)

\* A statement that gives a finding a status, and what it does to the client's
\* view and to the ghosts.
SetStatus(f, status) ==
    /\ findings' = [findings EXCEPT ![f] = status]
    /\ orphans' = orphans \cup {f}
    /\ pager' = IF status = pager.status THEN pager
                ELSE [pager EXCEPT !.steady = @ \ {f}]

\* _apply_review_action reads the targets and their statuses once.
BeginApply(ids, target) ==
    /\ request = NoRequest /\ groups < MaxGroups
    /\ ids # {}
    /\ groups' = groups + 1
    /\ request' = [kind |-> "apply", group |-> groups + 1, half |-> FALSE,
                   todo |-> {[finding |-> f, previous |-> findings[f], set |-> target] : f \in ids}]
    /\ UNCHANGED <<findings, actions, undos, orphans, pager>>

\* _undo_review_action reads the rows of the group, and stops if all are undone.
RowsOf(g) == {r \in actions : r.group = g}

BeginUndo(g) ==
    /\ request = NoRequest /\ undos < MaxUndos
    /\ \E r \in RowsOf(g) : ~r.undone
    /\ undos' = undos + 1
    /\ request' = [kind |-> "undo", group |-> g, half |-> FALSE,
                   todo |-> {[finding |-> r.finding, previous |-> r.previous, set |-> r.previous]
                             : r \in RowsOf(g)}]
    /\ UNCHANGED <<findings, actions, groups, orphans, pager>>

\* Both then go finding by finding, in their order (an undo in the order of the rows' names
\* group, group_1, group_2 ..., the same up to ten rows): an UPDATE of its status, unless
\* an apply finds it has it already, ...
FirstTodo == CHOOSE row \in request.todo : \A other \in request.todo : row.finding <= other.finding
UpdateSkipped == request.kind = "apply" /\ FirstTodo.previous = FirstTodo.set

UpdateStatus ==
    /\ request.todo # {} /\ ~request.half
    /\ ~UpdateSkipped
    /\ SetStatus(FirstTodo.finding, FirstTodo.set)
    /\ request' = [request EXCEPT !.half = TRUE]
    /\ UNCHANGED <<actions, groups, undos>>

\* ... and the INSERT of a row, or its note marked undone.
Recorded(row) ==
    IF request.kind = "apply"
    THEN actions \cup {[group |-> request.group, finding |-> row.finding,
                        previous |-> row.previous, target |-> row.set, undone |-> FALSE]}
    ELSE {IF r.group = request.group /\ r.finding = row.finding
          THEN [r EXCEPT !.undone = TRUE] ELSE r : r \in actions}

RecordAction ==
    /\ request.todo # {} /\ (request.half \/ UpdateSkipped)
    /\ actions' = Recorded(FirstTodo)
    /\ orphans' = IF request.half THEN orphans \ {FirstTodo.finding} ELSE orphans
    /\ request' = IF request.todo = {FirstTodo} THEN NoRequest
                  ELSE [request EXCEPT !.todo = @ \ {FirstTodo}, !.half = FALSE]
    /\ UNCHANGED <<findings, groups, undos, pager>>

ApiDies ==
    /\ request # NoRequest
    /\ request' = NoRequest
    /\ UNCHANGED <<findings, actions, groups, undos, orphans, pager>>

ReviewInit ==
    /\ \E present \in SUBSET Findings :
          /\ \A f \in present, g \in Findings \ present : CreatedAt[f] <= CreatedAt[g]
          /\ findings = [f \in present |-> "new"]
    /\ actions = {}
    /\ groups = 0 /\ undos = 0
    /\ request = NoRequest
    /\ orphans = {}
    /\ pager = [at |-> "closed", status |-> "new", cursor |-> NoCursor, listed |-> {},
                repeated |-> {}, steady |-> {}]

ReviewNext ==
    \/ \E status \in Statuses : OpenList(status)
    \/ NextPage
    \/ \E f \in Findings : RecordFinding(f)
    \/ \E ids \in SUBSET Existing, target \in Statuses : BeginApply(ids, target)
    \/ \E g \in 1 .. groups : BeginUndo(g)
    \/ UpdateStatus \/ RecordAction \/ ApiDies

ReviewSpec == ReviewInit /\ [][ReviewNext]_reviewVars

-----------------------------------------------------------------------------
\* A list read page by page shows no finding twice, and when it is done it shows
\* every finding that had the status from its first page to its last, whatever
\* was added, dismissed or restored between the pages.
ListedOnce ==
    /\ pager.repeated = {}
    /\ pager.at = "done" => pager.steady \subseteq pager.listed

\* Every status is explained by the record of review actions: it is the one a
\* new finding has, one that an action in force gave, or one that an undone
\* action had found.  The exception is a finding whose status was changed by a
\* request that died before it wrote the record.
StatusAccounted ==
    \A f \in Existing \ orphans :
        \/ findings[f] = "new" /\ \A r \in actions : r.finding # f
        \/ \E r \in actions : /\ r.finding = f
                              /\ findings[f] = IF r.undone THEN r.previous ELSE r.target

\* What a client of the review API sees can be relied on: its lists are complete
\* and without repetition, and the record explains the statuses they show.
ReviewHolds == ListedOnce /\ StatusAccounted

(* What an induction over the steps needs beside the property.             *)

TodoRow == [finding : Findings, previous : Statuses, set : Statuses]
ActionRow == [group : Nat, finding : Findings, previous : Statuses, target : Statuses,
              undone : BOOLEAN]

ReviewTypeOK ==
    /\ Existing \subseteq Findings /\ findings \in [Existing -> Statuses]
    /\ actions \subseteq ActionRow /\ \A r \in actions : r.finding \in Existing
    /\ groups \in Nat
    /\ request \in [kind : {"none", "apply", "undo"}, group : Nat, todo : SUBSET TodoRow,
                    half : BOOLEAN]
    /\ \A row \in request.todo : row.finding \in Existing
    /\ orphans \subseteq Existing
    /\ pager \in [at : {"closed", "open", "done"}, status : Statuses, cursor : Nat \X Nat,
                  listed : SUBSET Findings, repeated : SUBSET Findings, steady : SUBSET Findings]

\* The rows listed lie up to the cursor, and what was to be listed and is not lies
\* after it and can still be found.
PagerInStep ==
    /\ \A f \in pager.listed : ~AfterCursor(f, pager.cursor)
    /\ \A f \in pager.steady :
          /\ f \in Existing /\ findings[f] = pager.status
          /\ f \in pager.listed \/ (pager.at = "open" /\ AfterCursor(f, pager.cursor))

\* What a request read when it began still holds of the findings it has not reached.
TodoIsCurrent ==
    /\ request.kind = "none" => request.todo = {}
    /\ request.half => request.todo # {} /\ findings[FirstTodo.finding] = FirstTodo.set
    /\ request.kind = "apply" =>
          /\ \A row, other \in request.todo : row.finding = other.finding => row = other
          /\ \A row \in request.todo : (request.half => row # FirstTodo) =>
                findings[row.finding] = row.previous
    /\ request.kind = "undo" =>
          \A row \in request.todo : row.set = row.previous /\ \E r \in actions :
              r.group = request.group /\ r.finding = row.finding /\ r.previous = row.previous

ReviewInv ==
    ReviewTypeOK /\ ListedOnce /\ PagerInStep /\ StatusAccounted /\ TodoIsCurrent

=============================================================================
