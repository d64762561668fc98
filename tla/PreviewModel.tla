---------------------------- MODULE PreviewModel ----------------------------
(***************************************************************************)
(* The widgets of a preview (previewmodel.cpp).                            *)
(*                                                                         *)
(* A preview is loaded, and loaded again after an action; chunks of        *)
(* widgets and data arrive, the shell changes the number of columns, and   *)
(* the scope may update widgets in place.  The same widget objects are     *)
(* reached by id (m_previewWidgets), in the order of their arrival         *)
(* (m_previewWidgetsOrdered) and through the columns; their mark           *)
(* `received' tells those of this preview from those of the one before.    *)
(* Which requests are current is the subject of Activation; expandable     *)
(* widgets are left out.                                                   *)
(***************************************************************************)
EXTENDS Integers, Sequences, FiniteSets, PreviewWidgetModel

CONSTANTS
  WidgetIds,
  IconActions,   \* the widgets of type icon-actions
  Definitions,   \* the widgets a scope may push
  Layouts,       \* the column layouts a scope may register
  MaxColumns,    \* column counts the shell may ask for
  MaxObjects,    \* bound: widget objects alive at once
  MaxPreviews,   \* bound: times the preview is requested
  MaxUpdates,    \* bound: changes of the columns and updates in place, together
  Null

ASSUME BoundsAssumption == MaxColumns \in Nat \ {0} /\ MaxObjects \in Nat /\ MaxPreviews \in Nat
ASSUME WidgetsAssumption ==
  /\ IsFiniteSet(WidgetIds) /\ IconActions \subseteq WidgetIds
  /\ \A d \in Definitions : d.id \in WidgetIds /\ d.mapped \in BOOLEAN
ASSUME LayoutsAssumption ==
  \A l \in Layouts : /\ DOMAIN l \subseteq 1 .. MaxColumns
                     /\ \A n \in DOMAIN l : Len(l[n]) = n /\ \A c \in 1 .. n : l[n][c] \in Seq(WidgetIds)

Objects == 1 .. MaxObjects
Values == {0, 1}     \* of the one field of the preview data that widgets may refer to

(* PreviewWidgetData; the version stands for the content that a scope sets. *)
Widgets == [id : WidgetIds, version : {d.version : d \in Definitions}, mapped : BOOLEAN,
            value : Values, received : BOOLEAN]
ASSUME NullAssumption == Null \notin Widgets

VARIABLES
  heap,      \* PreviewWidgetData by object number, or Null
  byId,      \* m_previewWidgets
  ordered,   \* m_previewWidgetsOrdered
  columns,   \* m_previewWidgetModels
  layout,    \* m_columnLayouts
  allData,   \* m_allData, of the one field
  loaded,    \* m_loaded
  crashed,   \* a null row was dereferenced
  previews,  \* times dispatchPreview() ran
  arrived,   \* history: the definitions pushed for the present preview, by id
  updates    \* changes of the column count, updates in place, later layouts

vars == <<heap, byId, ordered, columns, layout, allData, loaded, crashed, previews, arrived, updates>>

(* The fields that handlers pass through their loops.                      *)
State == [heap |-> heap, byId |-> byId, ordered |-> ordered, columns |-> columns,
          layout |-> layout, allData |-> allData, crashed |-> crashed]

(* The objects somebody owns a pointer to.                                 *)
Live(p) ==
  {p.byId[w] : w \in WidgetIds} \cup {p.ordered[i] : i \in 1 .. Len(p.ordered)}
    \cup UNION {{p.columns[c].rows[i] : i \in 1 .. Len(p.columns[c].rows)} : c \in 1 .. Len(p.columns)}

(* Objects nobody points to are freed.                                     *)
SetState(p) ==
  /\ heap' = [o \in Objects |-> IF o \in Live(p) THEN p.heap[o] ELSE Null]
  /\ byId' = p.byId /\ ordered' = p.ordered /\ columns' = p.columns
  /\ layout' = p.layout /\ allData' = p.allData /\ crashed' = p.crashed

Init ==
  /\ heap = [o \in Objects |-> Null] /\ byId = [w \in WidgetIds |-> Gap]
  /\ ordered = <<>> /\ columns = <<EmptyColumn>> /\ layout = <<>>
  /\ allData = 0 /\ loaded = FALSE /\ crashed = FALSE
  /\ previews = 0 /\ arrived = <<>> /\ updates = 0

-----------------------------------------------------------------------------
(* Where a widget goes.                                                    *)

(* determinePositionFromLayout(): column (from 1) and row, -1 for the end. *)
PositionFromLayout(p, id) ==
  LET n == Len(p.columns)
      Rows(c) == {r \in 1 .. Len(p.layout[n][c]) : p.layout[n][c][r] = id}
      listing == {c \in 1 .. n : Rows(c) # {}}
  IN IF n \notin DOMAIN p.layout \/ listing = {} THEN <<1, -1>>
     ELSE <<Min(listing), Min(Rows(Min(listing))) - 1>>

(* The first row from `row' on that no widget of this preview holds.       *)
FirstFree(p, m, row) ==
  Min({i \in row .. row + Len(m.rows) : WidgetAt(m, i) = Gap \/ ~p.heap[WidgetAt(m, i)].received})

SameContent(a, b) ==
  a.id = b.id /\ a.version = b.version /\ a.mapped = b.mapped /\ a.value = b.value

(* A widget that was in the column from the last preview.                  *)
Keep(p, c, o, current, row) ==
  LET m == p.columns[c]
      h == [p.heap EXCEPT ![WidgetAt(m, current)].received = TRUE]
      moved == MoveWidget(h, m, h[o].id, current, row)
      there == WidgetAt(moved, row)
  IN IF there = Gap THEN [p EXCEPT !.heap = h, !.crashed = TRUE]
     ELSE [p EXCEPT !.heap = h,
             !.columns[c] = IF h[o].id \in IconActions \/ ~SameContent(h[o], h[there])
                            THEN UpdateWidgetAt(h, moved, o, row) ELSE moved]

(* addWidgetToColumnModel().  A widget without a place in the layout goes  *)
(* after those received, unless it is one of them.                         *)
AddWidgetToColumnModel(p, o) ==
  LET id  == p.heap[o].id
      pos == PositionFromLayout(p, id)
      m   == p.columns[pos[1]]
      row == IF pos[2] = -1 THEN FirstFree(p, m, 0) ELSE pos[2]
      current == WidgetIndex(m, id)
      duplicate == \E i \in 0 .. row - 1 : p.heap[WidgetAt(m, i)].id = id
  IN IF p.crashed \/ (pos[2] = -1 /\ duplicate) THEN p
     ELSE IF current < 0
     THEN [p EXCEPT !.columns[pos[1]] = AddReplaceWidget(p.heap, m, o, FirstFree(p, m, row))]
     ELSE Keep(p, pos[1], o, current, row)

-----------------------------------------------------------------------------
(* What a chunk brings.                                                    *)

Fresh(p) == CHOOSE o \in Objects \ Live(p) : \A x \in Objects \ Live(p) : o <= x

(* processWidgetDefinitions() for one widget: a new object, its component  *)
(* filled from the data known so far.                                      *)
Create(p, d) ==
  [p EXCEPT !.heap[Fresh(p)] =
     [id |-> d.id, version |-> d.version, mapped |-> d.mapped,
      value |-> IF d.mapped THEN p.allData ELSE 0, received |-> TRUE]]

(* addWidgetDefinitions(): an object that replaces another of the same id  *)
(* is not put into the ordered list.                                       *)
AddDefinition(p, d) ==
  LET o == Fresh(p)
      q == Create(p, d)
  IN AddWidgetToColumnModel(
       [q EXCEPT !.byId[d.id] = o,
                 !.ordered = IF p.byId[d.id] = Gap THEN Append(p.ordered, o) ELSE p.ordered], o)

AddDefinitions(p, defs) ==
  LET after[i \in 0 .. Len(defs)] == IF i = 0 THEN p ELSE AddDefinition(after[i - 1], defs[i])
  IN after[Len(defs)]

(* updateWidgetDefinitions(): only widgets the preview has, where they are. *)
UpdateDefinition(p, d) ==
  LET o == Fresh(p)
      q == Create(p, d)
  IN IF p.byId[d.id] = Gap THEN p
     ELSE [q EXCEPT !.byId[d.id] = o,
                    !.columns = [c \in 1 .. Len(p.columns) |-> UpdateWidget(q.heap, p.columns[c], o)]]

(* Mutant: the data is stored, and no widget is told.                      *)
StoreData(p, v) == [p EXCEPT !.allData = v]

(* updatePreviewData(): the objects reached by id take over the new value. *)
UpdatePreviewData(p, v) ==
  LET changed == {p.byId[w] : w \in WidgetIds} \ {Gap}
  IN [p EXCEPT !.allData = v,
               !.heap = [o \in Objects |-> IF o \in changed /\ p.heap[o].mapped
                                           THEN [p.heap[o] EXCEPT !.value = v] ELSE p.heap[o]]]

(* The end of a preview: what was not received goes, from every column.    *)
DropWidget(p, w) ==
  [p EXCEPT !.columns = [c \in 1 .. Len(p.columns) |-> RemoveWidget(p.heap, p.columns[c], w)],
            !.ordered = RemoveFirst(p.ordered, p.byId[w]),
            !.byId[w] = Gap]
RemoveNotReceived(p) ==
  LET gone == SetToSeq({w \in WidgetIds : p.byId[w] # Gap /\ ~p.heap[p.byId[w]].received})
      after[i \in 0 .. Len(gone)] == IF i = 0 THEN p ELSE DropWidget(after[i - 1], gone[i])
  IN after[Len(gone)]

(* Room for the objects of one more chunk.                                 *)
HasRoom(n) == Cardinality(Live(State) \ {Gap}) + n <= MaxObjects

(* dispatchPreview(), by loadForResult() or for the answer to an action.   *)
DispatchPreview ==
  /\ ~crashed /\ previews < MaxPreviews
  /\ loaded' = FALSE
  /\ heap' = [o \in Objects |-> IF \E w \in WidgetIds : byId[w] = o
                                THEN [heap[o] EXCEPT !.received = FALSE] ELSE heap[o]]
  /\ previews' = previews + 1
  /\ arrived' = <<>>
  /\ UNCHANGED <<byId, ordered, columns, layout, allData, crashed, updates>>

(* processPreviewChunk() of the current preview: layouts come before the   *)
(* widgets that use them, and a scope does not push an id twice.           *)
ProcessPreviewChunk(newLayout, defs, v, finished) ==
  /\ ~crashed /\ previews > 0 /\ ~loaded
  /\ newLayout # Null => arrived = <<>>
  /\ \A i \in 1 .. Len(defs) : defs[i].id \notin DOMAIN arrived
  /\ HasRoom(Len(defs))
  /\ LET p0 == [State EXCEPT !.layout = IF newLayout = Null THEN layout
                  ELSE [n \in DOMAIN layout \cup DOMAIN newLayout |->
                          IF n \in DOMAIN newLayout THEN newLayout[n] ELSE layout[n]]]
         p1 == AddDefinitions(p0, defs)
         p2 == IF v = Null THEN p1 ELSE UpdatePreviewData(p1, v)
     IN SetState(IF finished THEN RemoveNotReceived(p2) ELSE p2)
  /\ loaded' = finished
  /\ arrived' = [w \in DOMAIN arrived \cup {defs[i].id : i \in 1 .. Len(defs)} |->
                   IF w \in DOMAIN arrived THEN arrived[w]
                   ELSE defs[CHOOSE i \in 1 .. Len(defs) : defs[i].id = w]]
  /\ updates' = IF newLayout # Null /\ previews > 1 THEN updates + 1 ELSE updates
  /\ updates' <= MaxUpdates
  /\ UNCHANGED previews

(* setWidgetColumnCount(): the columns are built again from the list.      *)
AddAllToColumnModels(p) ==
  LET after[i \in 0 .. Len(p.ordered)] ==
        IF i = 0 THEN p ELSE AddWidgetToColumnModel(after[i - 1], p.ordered[i])
  IN after[Len(p.ordered)]
SetWidgetColumnCount(n) ==
  /\ ~crashed /\ n # Len(columns) /\ updates < MaxUpdates
  /\ SetState(AddAllToColumnModels([State EXCEPT !.columns = [c \in 1 .. n |-> EmptyColumn]]))
  /\ updates' = updates + 1
  /\ UNCHANGED <<loaded, previews, arrived>>

(* update(), for a response of kind UpdatePreview.                         *)
Update(d) ==
  /\ ~crashed /\ updates < MaxUpdates /\ HasRoom(1)
  /\ SetState(UpdateDefinition(State, d))
  /\ updates' = updates + 1
  /\ UNCHANGED <<loaded, previews, arrived>>

DefinitionLists ==
  {<<>>} \cup {<<d>> : d \in Definitions} \cup
  {<<d, e>> : d \in Definitions, e \in Definitions}

Next ==
  \/ DispatchPreview
  \/ \E l \in Layouts \cup {Null}, defs \in DefinitionLists, v \in {Null, 1}, finished \in BOOLEAN :
       /\ \A i, j \in 1 .. Len(defs) : i # j => defs[i].id # defs[j].id
       /\ ProcessPreviewChunk(l, defs, v, finished)
  \/ \E n \in 1 .. MaxColumns : SetWidgetColumnCount(n)
  \/ \E d \in Definitions : Update(d)

Spec == Init /\ [][Next]_vars

-----------------------------------------------------------------------------
(* Properties.                                                             *)

(* Rows, lookups and the ordered list point to widgets that exist, by      *)
(* id to the widget of that id.                                            *)
TypeOK ==
  /\ \A i \in 1 .. Len(ordered) : heap[ordered[i]] # Null
  /\ \A c \in 1 .. Len(columns) : \A i \in 1 .. Len(columns[c].rows) :
       columns[c].rows[i] # Gap => heap[columns[c].rows[i]] # Null
  /\ \A w \in WidgetIds : byId[w] # Gap => heap[byId[w]].id = w
  /\ Len(columns) \in 1 .. MaxColumns
  /\ allData \in Values /\ loaded \in BOOLEAN /\ crashed \in BOOLEAN
  /\ DOMAIN arrived \subseteq WidgetIds

(* Everything points to widgets that exist, and the lookup of a column     *)
(* gives the row of each widget of the column, once per id, through        *)
(* replacements, moves and removals: previewwidgetmodel.cpp keeps it by    *)
(* hand, and removeWidget() asserts it at 159.                             *)
IndexMatchesRows ==
  TypeOK /\ \A c \in 1 .. Len(columns) :
    LET m == columns[c]
        row == 0 .. Len(m.rows) - 1
    IN m.index = [id \in {heap[WidgetAt(m, r)].id : r \in {x \in row : WidgetAt(m, x) # Gap}} |->
                    CHOOSE r \in row : WidgetAt(m, r) # Gap /\ heap[WidgetAt(m, r)].id = id]

Shown == UNION {{heap[columns[c].rows[i]] : i \in {j \in 1 .. Len(columns[c].rows) :
                                                      columns[c].rows[j] # Gap}} :
                c \in 1 .. Len(columns)}

(* A preview that is loaded for the first or the second time, without a    *)
(* change of the columns in between, shows the widgets that arrived for it, *)
(* as they arrived, and no other (previewmodel.h:51), and the first one    *)
(* shows the data that came with or after the widgets that refer to it     *)
(* (previewmodel.cpp:470-513).                                             *)
ShowsWhatArrived ==
  loaded /\ previews <= 2 /\ updates = 0 =>
    /\ ~crashed
    /\ {[id |-> x.id, version |-> x.version] : x \in Shown}
       = {[id |-> w, version |-> arrived[w].version] : w \in DOMAIN arrived}
    /\ previews = 1 => \A x \in Shown : x.mapped => x.value = allData
=============================================================================
