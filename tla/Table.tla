-------------------------------- MODULE Table --------------------------------
(***************************************************************************)
(* The indexed table of src/base/Table.h, in which the driver keeps its    *)
(* build graph and the event manager its inotify watches.                  *)
(*                                                                         *)
(* An erased row stays in the vector, marked, and in the indexes of the    *)
(* other columns, until enough rows are marked: then refresh() moves the   *)
(* others together and makes new indexes.  Columns without an index only   *)
(* carry data and are left out; so is the capacity of the vector.          *)
(***************************************************************************)
EXTENDS Sublists

CONSTANTS
  Values,          \* of cells
  IndexedColumns,  \* columns with an unordered_multimap
  UniqueColumns,   \* columns with an unordered_map
  RefreshAt,       \* erased rows before refresh() is thought of, 16 in the code
  MaxRows          \* bound: rows in the vector

ASSUME TableAssumption ==
  /\ IndexedColumns \cap UniqueColumns = {}
  /\ RefreshAt \in Nat \ {0}
  /\ MaxRows \in Nat

Columns == IndexedColumns \cup UniqueColumns
Cells == [Columns -> Values]
Row == [cells : Cells, deleted : BOOLEAN]
Entry == [value : Values, at : 1 .. MaxRows]

VARIABLES
  rows,
  deletedCount,
  index,           \* of each column: which rows may have which value
  count            \* what the last erase() returned

vars == <<rows, deletedCount, index, count>>

TypeOK ==
  /\ rows \in Seq(Row) /\ Len(rows) <= MaxRows
  /\ deletedCount \in 0 .. MaxRows
  /\ index \in [Columns -> SUBSET Entry]
  /\ \A c \in Columns : \A e \in index[c] : e.at \in DOMAIN rows
  /\ count \in 0 .. MaxRows

Init ==
  /\ rows = <<>>
  /\ deletedCount = 0
  /\ index = [c \in Columns |-> {}]
  /\ count = 0

-----------------------------------------------------------------------------

\* equal_range() of the index of a column.
EqualRange(c, v) == {e \in index[c] : e.value = v}

\* The rows a SearchIterator goes through; has() says whether there are any.
Search(c, v) == {e.at : e \in {e \in EqualRange(c, v) : ~rows[e.at].deleted}}

\* find() looks at one entry only, whichever comes first.  NULL is 0.
Find(c, v) ==
  IF EqualRange(c, v) = {} THEN {0}
  ELSE {IF rows[e.at].deleted THEN 0 ELSE e.at : e \in EqualRange(c, v)}

Marked(hit) ==
  [i \in DOMAIN rows |->
     [cells |-> rows[i].cells, deleted |-> rows[i].deleted \/ i \in hit]]

\* Which rows are not erased.
Live(some) == {i \in DOMAIN some : ~some[i].deleted}

-----------------------------------------------------------------------------

AddRow(cells, before, entries) ==
  /\ Len(rows) < MaxRows
  /\ rows' = Append(before, [cells |-> cells, deleted |-> FALSE])
  /\ index' = [c \in Columns |-> entries[c] \cup {[value |-> cells[c], at |-> Len(rows) + 1]}]
  /\ UNCHANGED <<deletedCount, count>>

\* The rows whose entry in a unique column the new row takes.
Replaced(cells) == {e.at : e \in UNION {EqualRange(c, cells[c]) : c \in UniqueColumns}}
EntriesKept(cells) ==
  [c \in Columns |->
     IF c \in UniqueColumns THEN index[c] \ EqualRange(c, cells[c]) ELSE index[c]]

\* add().
Add(cells) == AddRow(cells, Marked(Replaced(cells)), EntriesKept(cells))

\* refresh(), of rows that are marked: entries of erased rows go, the others
\* follow their rows.
NewLocation(old, i) == Place(Live(old), i)

\* Mutant: location 0 is taken for none.
RefreshDroppingFirst(old) ==
  /\ rows' = Sublist(old, Live(old))
  /\ index' = [c \in Columns |->
                 {[value |-> e.value, at |-> NewLocation(old, e.at)] :
                    e \in {e \in index[c] : e.at \in Live(old) /\ NewLocation(old, e.at) > 1}}]
  /\ deletedCount' = 0

Refresh(old) ==
  /\ rows' = Sublist(old, Live(old))
  /\ index' = [c \in Columns |->
                 {[value |-> e.value, at |-> NewLocation(old, e.at)] :
                    e \in {e \in index[c] : e.at \in Live(old)}}]
  /\ deletedCount' = 0

\* Rows are marked; then either there are enough of them, or the range that
\* was walked through is erased from the index of its column.
EraseRows(c, v, hit, deletedNow) ==
  /\ count' = Cardinality(hit)
  /\ IF deletedNow >= RefreshAt /\ deletedNow > Len(rows) \div 2
     THEN Refresh(Marked(hit))
     ELSE /\ rows' = Marked(hit)
          /\ deletedCount' = deletedNow
          /\ index' = [index EXCEPT ![c] = @ \ EqualRange(c, v)]

\* erase().  Mutant: rows erased before are counted again.
EraseAgain(c, v) ==
  LET hit == {e.at : e \in EqualRange(c, v)}
  IN  EraseRows(c, v, hit, deletedCount + Cardinality(hit))
Erase(c, v) == EraseRows(c, v, Search(c, v), deletedCount + Cardinality(Search(c, v)))

Next ==
  \/ \E cells \in Cells : Add(cells)
  \/ \E c \in Columns, v \in Values : Erase(c, v)

Spec == Init /\ [][Next]_vars

-----------------------------------------------------------------------------
(***************************************************************************)
(* Properties.                                                             *)
(***************************************************************************)

\* What a RowIterator goes through.
CellsOf(some) == [i \in DOMAIN some |-> some[i].cells]
LiveRows == CellsOf(Sublist(rows, Live(rows)))

\* The table is the list it looks like: no operation brings an erased row back,
\* loses one, or returns another count, whatever refresh() did before.
Promise == INSTANCE RowList WITH list <- LiveRows
ImplementsRowList == Promise!Spec

\* A search of a column finds exactly the rows with a value.
SearchFindsLive ==
  \A c \in Columns, v \in Values :
    Search(c, v) = {i \in DOMAIN rows : ~rows[i].deleted /\ rows[i].cells[c] = v}

\* In a unique column find() finds the row with a value if there is one.
UniqueFinds ==
  \A c \in UniqueColumns, v \in Values :
    Find(c, v) = IF Search(c, v) = {} THEN {0} ELSE Search(c, v)

\* Each column finds the live rows and no others, through indexes that still hold
\* rows erased by another column, and locations that refresh() has moved; a unique
\* one at most one row, though add() may leave the entry of the row it replaced.
SearchesAreRight == TypeOK /\ SearchFindsLive /\ UniqueFinds
=============================================================================
