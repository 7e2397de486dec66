---------------------------- MODULE FindingViews ----------------------------
(***************************************************************************)
(* The findings table and the media gallery (worker/findings_table.py,     *)
(* worker/media_gallery.py) over the rows a filter lets through            *)
(* (worker/filter_state.py).  An operator opens one of them and reads it   *)
(* page by page, selecting on the way, while the workers add and rewrite   *)
(* rows.  The sort field is fixed for a reading: a cursor of another sort  *)
(* is refused.  A missing text is 0, which sorts first, as None does; a    *)
(* missing number is -1.                                                   *)
(***************************************************************************)
EXTENDS Integers, Sequences, FiniteSets, SequencesExt

CONSTANTS Entries,      \* entry identifiers: numbers, for their order
          EntryRows,    \* the rows an entry may have
          RawFilters,   \* what the operator asks for
          ViewLimit,    \* the page limit
          MaxMoves      \* bound: rows written and selections made after the opening

ASSUME ViewAssumption ==
    /\ ViewLimit \in Nat \ {0}
    /\ IsFiniteSet(Entries) /\ Entries \subseteq Nat
    /\ \A row \in EntryRows : row.value \in Int

VARIABLES catalog,      \* entry |-> its row
          viewer,       \* the open table or gallery
          moves         \* rows written and selections made

viewVars == <<catalog, viewer, moves>>

Cataloged == DOMAIN catalog
NoTotal == -1

-----------------------------------------------------------------------------
(* Filters.                                                                *)

\* What is not of its type is dropped: an empty name from a list; a date that is none
\* (-1) becomes the empty text, which bounds nothing.
string_tuple(names) == names \ {0}
optional_text(date) == IF date = -1 THEN 0 ELSE date

\* users, volumes, allocations and the text filter as categories do; encrypted and
\* duplicates as corrupt does, where {TRUE, FALSE} is no filter.
normalize_filter_state(raw) ==
    [raw EXCEPT !.categories = string_tuple(@), !.from = optional_text(@),
                !.to = optional_text(@)]

\* A row without a size passes every bound on sizes; one without an interest none on
\* interest; one without a date is before every date.
filter_matches(row, state) ==
    /\ state.categories = {} \/ row.category \in state.categories
    /\ state.from = 0 \/ row.date >= state.from
    /\ state.to = 0 \/ row.date <= state.to
    /\ row.size = -1 \/ state.min_size = -1 \/ row.size >= state.min_size
    /\ row.size = -1 \/ state.max_size = -1 \/ row.size <= state.max_size
    /\ row.corrupt \in state.corrupt
    /\ state.min_interest = -1 \/ (row.interest # -1 /\ row.interest >= state.min_interest)
    /\ row.hidden \subseteq state.include

apply_filters(cat, state) == {e \in DOMAIN cat : filter_matches(cat[e], state)}

facet_counts(cat, state, category) ==
    Cardinality({e \in apply_filters(cat, state) : cat[e].category = category})

-----------------------------------------------------------------------------
(* Pages.                                                                  *)

encode_cursor(cat, e) == <<cat[e].value, e>>

(* Mutant: rows of one sort value as the last row's are not told apart. *)
after_cursor_by_value(cat, e, cursor) == cat[e].value > cursor[1]

after_cursor(cat, e, cursor) ==
    \/ cat[e].value > cursor[1]
    \/ cat[e].value = cursor[1] /\ e > cursor[2]

\* stable_sort_key, and the rows in its order, which fetch_page asks for.
SortsBefore(cat, e, f) ==
    \/ cat[e].value < cat[f].value
    \/ cat[e].value = cat[f].value /\ e < f
SortedRows(cat, state) ==
    LET rows == apply_filters(cat, state)
    IN [k \in 1 .. Cardinality(rows) |->
           CHOOSE e \in rows : Cardinality({f \in rows : f = e \/ SortsBefore(cat, f, e)}) = k]

\* The number of rows before the first one after the cursor.
first_index_after(cat, rows, cursor) ==
    LET after == {i \in 1 .. Len(rows) : after_cursor(cat, rows[i], cursor)}
    IN IF cursor = <<>> THEN 0 ELSE IF after = {} THEN Len(rows) ELSE Min(after) - 1

\* known_total is believed: where it is larger than the rows that were passed, the
\* last row of the page is looked up past their end (an IndexError).
fetch_page(cat, rows, cursor, total) ==
    LET start == first_index_after(cat, rows, cursor)
        items == SubSeq(rows, start + 1, Min({start + ViewLimit, Len(rows)}))
        known_total == IF total = NoTotal THEN Len(rows) ELSE total
        has_more == items # <<>> /\ start + ViewLimit < known_total
        fails == has_more /\ start + ViewLimit > Len(rows)
    IN [items |-> IF fails THEN <<>> ELSE items, has_more |-> has_more, fails |-> fails,
        next_cursor |-> IF has_more /\ ~fails THEN encode_cursor(cat, rows[start + ViewLimit])
                        ELSE <<>>]

gallery_page(cat, rows, cursor, total) == fetch_page(cat, rows, cursor, total)

\* What the provider may pass: every row, or the ones after the cursor, one more than
\* a page.
Passed(cat, state, cursor) ==
    LET rows == SortedRows(cat, state)
        start == first_index_after(cat, rows, cursor)
    IN {rows, SubSeq(rows, start + 1, Min({start + ViewLimit + 1, Len(rows)}))}

Show(page, counted) ==
    /\ viewer' = [viewer EXCEPT
                     !.at = CASE page.fails -> "failed"
                              [] page.has_more /\ ~page.fails -> "open"
                              [] OTHER -> "done",
                     !.page = page.items, !.listed = @ \o page.items,
                     !.cursor = page.next_cursor, !.miscounted = @ \/ ~counted]
    /\ UNCHANGED <<catalog, moves>>

\* table_state: total is not given, or is the number of rows there are or were when
\* the table was opened.
TablePage ==
    /\ viewer.at = "open" /\ viewer.kind = "table"
    /\ \E rows \in Passed(catalog, viewer.state, viewer.cursor),
          total \in {NoTotal, Cardinality(apply_filters(catalog, viewer.state)), viewer.total} :
          Show(fetch_page(catalog, rows, viewer.cursor, total), total \in {NoTotal, Len(rows)})

\* gallery_state gives no total.
GalleryPage ==
    /\ viewer.at = "open" /\ viewer.kind = "gallery"
    /\ \E rows \in Passed(catalog, viewer.state, viewer.cursor) :
          Show(gallery_page(catalog, rows, viewer.cursor, NoTotal), TRUE)

Open(kind, raw) ==
    /\ viewer.at = "closed"
    /\ LET state == normalize_filter_state(raw)
           steady == apply_filters(catalog, state)
       IN viewer' = [viewer EXCEPT !.at = "open", !.kind = kind, !.state = state,
                                   !.total = Cardinality(steady), !.steady = steady]
    /\ UNCHANGED <<catalog, moves>>

-----------------------------------------------------------------------------
(* Selection, by entry and not by place.                                   *)

Flip(selected, ids) == (selected \ ids) \cup (ids \ selected)

Select(selected, anchor) ==
    /\ viewer.at \in {"open", "done"} /\ moves < MaxMoves
    /\ moves' = moves + 1
    /\ viewer' = [viewer EXCEPT !.selected = selected, !.anchor = anchor]
    /\ UNCHANGED catalog

\* select_rows: one row, all rows of the page, or none.
SelectRows ==
    /\ viewer.kind = "table"
    /\ \E selected \in {Flip(viewer.selected, {e}) : e \in ToSet(viewer.listed)}
                       \cup {ToSet(viewer.page), {}} :
          Select(selected, 0)

\* The items from the anchor, or from the first where the anchor is not among them, to
\* the one that is toggled.
PlaceOf(e, ids) == Min({i \in DOMAIN ids : ids[i] = e})
Between(ids, anchor, toggle) ==
    LET from == IF anchor \in ToSet(ids) THEN PlaceOf(anchor, ids) ELSE 1
        to == PlaceOf(toggle, ids)
    IN {ids[i] : i \in Min({from, to}) .. Max({from, to})}

\* select_without_opening, of the items of the page or of all that were loaded.
Activate(e) ==
    /\ viewer.kind = "gallery"
    /\ Select(viewer.selected \cup {e}, e)

Toggle(e, ids) ==
    /\ viewer.kind = "gallery"
    /\ IF viewer.anchor # 0 /\ e \in ToSet(ids)
       THEN Select(Flip(viewer.selected, Between(ids, viewer.anchor, e)), viewer.anchor)
       ELSE Select(Flip(viewer.selected, {e}),
                   IF viewer.anchor # 0 THEN viewer.anchor ELSE e)

-----------------------------------------------------------------------------
(* The workers.                                                            *)

\* A row is added or rewritten (before the opening it makes one of the initial
\* catalogs).  The ghosts of the viewer record which of its rows it took from the
\* filtered ones, and which it moved in the order.
Write(e, row) ==
    /\ moves < MaxMoves /\ viewer.at = "open"
    /\ e \in Cataloged => catalog[e] # row
    /\ moves' = moves + 1
    /\ catalog' = [f \in Cataloged \cup {e} |-> IF f = e THEN row ELSE catalog[f]]
    /\ viewer' = [viewer EXCEPT
                     !.quiet = FALSE,
                     !.steady = IF filter_matches(row, viewer.state) THEN @ ELSE @ \ {e},
                     !.moved = IF e \in Cataloged /\ catalog[e].value # row.value
                               THEN @ \cup {e} ELSE @]

Unopened ==
    [at |-> "closed", kind |-> "table", state |-> {}, cursor |-> <<>>, total |-> 0,
     page |-> <<>>, listed |-> <<>>, selected |-> {}, anchor |-> 0,
     steady |-> {}, moved |-> {}, quiet |-> TRUE, miscounted |-> FALSE]

ViewInit ==
    /\ \E present \in SUBSET Entries : catalog \in [present -> EntryRows]
    /\ moves = 0
    /\ viewer = Unopened

ViewNext ==
    \/ \E kind \in {"table", "gallery"}, raw \in RawFilters : Open(kind, raw)
    \/ TablePage \/ GalleryPage
    \/ SelectRows
    \/ \E e \in ToSet(viewer.listed) : Activate(e)
    \/ \E e \in ToSet(viewer.listed), ids \in {viewer.page, viewer.listed} : Toggle(e, ids)
    \/ \E e \in Entries, row \in EntryRows : Write(e, row)

ViewSpec == ViewInit /\ [][ViewNext]_viewVars

-----------------------------------------------------------------------------
\* A reading whose totals count the rows that are passed with them never fails; it
\* shows no row twice, but one that was moved in the order; when it is done it has
\* shown every row that the filter let through from its opening on and that was not
\* moved, and, if nothing was written meanwhile, as many of each category as the
\* facets count.
IsSoundReading(cat, v) ==
    /\ v.at # "failed"
    /\ \A i, j \in DOMAIN v.listed :
          i # j /\ v.listed[i] = v.listed[j] => v.listed[i] \in v.moved
    /\ v.at = "done" =>
          /\ v.steady \ v.moved \subseteq ToSet(v.listed)
          /\ v.quiet =>
                \A c \in {row.category : row \in EntryRows} :
                    Cardinality({i \in DOMAIN v.listed : cat[v.listed[i]].category = c})
                       = facet_counts(cat, v.state, c)

\* Nothing is selected that was never shown.
ViewsHold ==
    /\ ~viewer.miscounted => IsSoundReading(catalog, viewer)
    /\ viewer.selected \subseteq ToSet(viewer.listed)

(* What makes it inductive.  While the reading is open, the cursor stands between what *)
(* was shown and what is still to be shown, moved rows aside; and a reading that       *)
(* nothing disturbed shows nothing but what it opened on.                              *)
ViewTypeOK(cat, v) ==
    /\ cat \in [DOMAIN cat -> EntryRows] /\ DOMAIN cat \subseteq Entries
    /\ DOMAIN v = {"at", "kind", "state", "cursor", "total", "page", "listed", "selected",
                   "anchor", "steady", "moved", "quiet", "miscounted"}
    /\ v.at \in {"closed", "open", "done", "failed"}
    /\ v.at = "closed" => v = Unopened
    /\ v.listed \in Seq(DOMAIN cat) /\ v.page \in Seq(DOMAIN cat)
    /\ ToSet(v.page) \subseteq ToSet(v.listed)
    /\ v.cursor = <<>> \/ v.cursor \in Int \X Nat
    /\ v.quiet \in BOOLEAN /\ v.miscounted \in BOOLEAN

CursorBetween(cat, v) ==
    /\ v.steady \subseteq apply_filters(cat, v.state)
    /\ v.cursor = <<>> => v.listed = <<>>
    /\ v.cursor # <<>> =>
          /\ \A e \in ToSet(v.listed) : e \in v.moved \/ ~after_cursor(cat, e, v.cursor)
          /\ \A e \in v.steady \ v.moved : e \in ToSet(v.listed) \/ after_cursor(cat, e, v.cursor)

Undisturbed(cat, v) ==
    /\ v.moved = {} /\ v.steady = apply_filters(cat, v.state)
    /\ ToSet(v.listed) \subseteq v.steady

IsView(cat, v) ==
    /\ ViewTypeOK(cat, v)
    /\ ~v.miscounted /\ v.at = "open" => CursorBetween(cat, v)
    /\ v.quiet /\ v.at # "closed" => Undisturbed(cat, v)
    /\ ~v.miscounted => IsSoundReading(cat, v)
    /\ v.selected \subseteq ToSet(v.listed)

ViewInv == IsView(catalog, viewer)
=============================================================================
