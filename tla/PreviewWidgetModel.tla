------------------------- MODULE PreviewWidgetModel -------------------------
(***************************************************************************)
(* One column of a preview (previewwidgetmodel.cpp): the rows, each a      *)
(* widget object or a gap, and the lookup from widget ids to rows.         *)
(*                                                                         *)
(* Widget objects are shared by pointer with the preview, so a row holds   *)
(* the number of an object and the operators take the heap h.  Rows count  *)
(* from 0, as in the code.  Each operator returns what the method leaves.  *)
(***************************************************************************)
EXTENDS Integers, Sequences, SequencesExt

Gap == 0      \* a null pointer
EmptyColumn == [rows |-> <<>>, index |-> <<>>]

WidgetAt(m, row) == IF row \in 0 .. Len(m.rows) - 1 THEN m.rows[row + 1] ELSE Gap

WidgetIndex(m, id) == IF id \in DOMAIN m.index THEN m.index[id] ELSE -1

Without(f, id) == [x \in DOMAIN f \ {id} |-> f[x]]
With(f, id, v) == [x \in DOMAIN f \cup {id} |-> IF x = id THEN v ELSE f[x]]

(* The rows in from..to look up to where they are now.                     *)
Reindexed(h, index, rows, from, to) ==
  [id \in DOMAIN index |->
     LET here == {i \in from .. to : i < Len(rows) /\ rows[i + 1] # Gap
                                       /\ h[rows[i + 1]].id = id}
     IN IF here = {} THEN index[id] ELSE CHOOSE i \in here : \A j \in here : j <= i]

(* Mutant: the id of the widget replaced stays in the lookup.              *)
AddReplaceKeepsId(h, m, o, row) ==
  LET gaps == [i \in 1 .. (IF row > Len(m.rows) THEN row - Len(m.rows) ELSE 0) |-> Gap]
  IN [rows |-> IF row >= Len(m.rows) THEN Append(m.rows \o gaps, o)
               ELSE [m.rows EXCEPT ![row + 1] = o],
      index |-> With(m.index, h[o].id, row)]

(* Past the end, gaps fill the space; within, the row is replaced.         *)
AddReplaceWidget(h, m, o, row) ==
  LET old  == WidgetAt(m, row)
      gaps == [i \in 1 .. (IF row > Len(m.rows) THEN row - Len(m.rows) ELSE 0) |-> Gap]
      rest == IF old = Gap THEN m.index ELSE Without(m.index, h[old].id)
  IN [rows |-> IF row >= Len(m.rows) THEN Append(m.rows \o gaps, o)
               ELSE [m.rows EXCEPT ![row + 1] = o],
      index |-> With(rest, h[o].id, row)]

UpdateWidgetAt(h, m, o, row) ==
  LET old == WidgetAt(m, row)
  IN IF old = Gap \/ h[old].id # h[o].id THEN m
     ELSE [m EXCEPT !.rows[row + 1] = o]

(* updateWidget() without a row: the first row with that id.               *)
UpdateWidget(h, m, o) ==
  LET same == {i \in 1 .. Len(m.rows) : m.rows[i] # Gap /\ h[m.rows[i]].id = h[o].id}
  IN IF same = {} THEN m
     ELSE [m EXCEPT !.rows[CHOOSE i \in same : \A j \in same : i <= j] = o]

RemoveWidget(h, m, id) ==
  LET row == WidgetIndex(m, id)
      rows == RemoveAt(m.rows, row + 1)
  IN IF row < 0 THEN m
     ELSE [rows |-> rows, index |-> Reindexed(h, Without(m.index, id), rows, row, Len(rows) - 1)]

(* A move to a row that does not exist is refused with a warning.          *)
MoveWidget(h, m, id, source, dest) ==
  LET o == m.rows[source + 1]
      rows == InsertAt(RemoveAt(m.rows, source + 1), dest + 1, o)
      index == IF source > dest THEN Reindexed(h, m.index, rows, dest + 1, source)
               ELSE Reindexed(h, m.index, rows, source, dest)
  IN IF source = dest \/ dest >= Len(m.rows) \/ o = Gap \/ h[o].id # id THEN m
     ELSE [rows |-> rows, index |-> With(index, id, dest)]
=============================================================================
