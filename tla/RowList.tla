------------------------------- MODULE RowList -------------------------------
(***************************************************************************)
(* What src/base/Table.h promises: a list of rows, in the order they were  *)
(* added, from which all rows with some value in some column may be        *)
(* erased.  In a unique column no two rows have the same value; a new row  *)
(* takes the place of the ones it would clash with.                        *)
(***************************************************************************)
EXTENDS Sublists

CONSTANTS
  Values,          \* of cells
  IndexedColumns,  \* the columns by which rows are found
  UniqueColumns    \* ... and those in which a value occurs once

Columns == IndexedColumns \cup UniqueColumns
Cells == [Columns -> Values]

VARIABLES
  list,            \* the cells of each row
  count            \* what the last erase() returned

vars == <<list, count>>

Init == list = <<>> /\ count = 0

Clashes(r, s) == \E c \in UniqueColumns : r[c] = s[c]

Add(cells) ==
  /\ list' = Append(Sublist(list, {i \in DOMAIN list : ~Clashes(list[i], cells)}), cells)
  /\ UNCHANGED count

Erase(c, v) ==
  /\ list' = Sublist(list, {i \in DOMAIN list : list[i][c] # v})
  /\ count' = Len(list) - Len(list')

Next ==
  \/ \E cells \in Cells : Add(cells)
  \/ \E c \in Columns, v \in Values : Erase(c, v)

Spec == Init /\ [][Next]_vars
=============================================================================
