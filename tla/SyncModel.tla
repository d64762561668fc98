------------------------------ MODULE SyncModel ------------------------------
(***************************************************************************)
(* ModelUpdate::syncModel() (modelupdate.h): bring a list model in line    *)
(* with the list a scope has sent, keeping the objects that are there      *)
(* already.  Filters::update() runs it on the filters of a page and        *)
(* OptionSelectorOptions::update() on the options of a filter.             *)
(*                                                                         *)
(* Four passes over the model remove, insert, move and update rows.  Views *)
(* are called back at every row signal, so each turn of each loop is a     *)
(* step, and view is the list a view has that knows the signals only.      *)
(*                                                                         *)
(* An item of the input is a pair <<key, type>>.  Keys are distinct and    *)
(* every item has an object: filters and options have ids of their own,    *)
(* and createFilterObject() knows their types.                             *)
(***************************************************************************)
EXTENDS Integers, Sequences, SequencesExt, ListOperators

CONSTANTS
  Items,
  Inputs \* the lists that a scope may send

KeyOf(item) == item[1]
TypeOf(item) == item[2]

ASSUME InputsAssumption ==
  \A s \in Inputs : s \in Seq(Items) /\ \A i, j \in DOMAIN s : KeyOf(s[i]) = KeyOf(s[j]) => i = j

VARIABLES
  input,  \* the list to show
  model,  \* the list model: objects with the key and type they were made for
  view,   \* what a view shows
  pass,   \* the pass that is running
  row,    \* loop counter: the next row of the pass
  old,    \* oldItems: the keys that stayed
  before, \* history: the model when the call began
  moves   \* history: rows moved by this call

vars == <<input, model, view, pass, row, old, before, moves>>

(* A new object for an item; kept is set when a later call finds it.       *)
Create(item) == [key |-> KeyOf(item), type |-> TypeOf(item), kept |-> FALSE]

(* newItems: the row an object belongs at, 0 when it does not.             *)
DesiredRow(key) == SelectInSeq(input, LAMBDA item : KeyOf(item) = key)

Init ==
  /\ input = <<>> /\ model = <<>> /\ view = <<>>
  /\ pass = "done" /\ row = 1 /\ old = {}
  /\ before = <<>> /\ moves = 0

-----------------------------------------------------------------------------
(* What a view makes of the row signals, given the model behind them.      *)

RowInserted(rows, at) == InsertAt(view, at, rows[at])
RowRemoved(at) == RemoveAt(view, at)
DataChanged(rows, at) == ReplaceAt(view, at, rows[at])

(* beginMoveRows(from, from, to) names the row before which the moved one  *)
(* goes, counted before it is taken out.                                   *)
RowMoved(from, to) ==
  IF to > from THEN InsertAt(RemoveAt(view, from), to - 1, view[from])
               ELSE InsertAt(RemoveAt(view, from), to, view[from])

-----------------------------------------------------------------------------
Begin(items) ==
  /\ pass = "done"
  /\ pass' = "remove" /\ row' = 1 /\ old' = {} /\ moves' = 0
  /\ input' = items
  /\ model' = [i \in DOMAIN model |-> [model[i] EXCEPT !.kept = TRUE]]
  /\ view' = model'
  /\ before' = model'

NextPass(name) == pass' = name /\ row' = 1

(* Objects whose key is not in the input go.                               *)
RemoveRow ==
  /\ pass = "remove" /\ row <= Len(model)
  /\ LET key == model[row].key IN
       \/ /\ DesiredRow(key) = 0
          /\ model' = RemoveAt(model, row)
          /\ view' = RowRemoved(row)
          /\ UNCHANGED <<row, old>>
       \/ /\ DesiredRow(key) # 0
          /\ old' = old \cup {key}
          /\ row' = row + 1
          /\ UNCHANGED <<model, view>>
  /\ UNCHANGED <<input, pass, before, moves>>

EndRemove ==
  /\ pass = "remove" /\ row > Len(model)
  /\ NextPass("insert")
  /\ UNCHANGED <<input, model, view, old, before, moves>>

(* Mutant: oldItems is not looked at.                                      *)
InsertAll ==
  /\ pass = "insert" /\ row <= Len(input)
  /\ model' = InsertAt(model, row, Create(input[row]))
  /\ view' = RowInserted(model', row)
  /\ row' = row + 1
  /\ UNCHANGED <<input, pass, old, before, moves>>

(* Items that are new are inserted at their row of the input.              *)
InsertRow ==
  /\ pass = "insert" /\ row <= Len(input)
  /\ \/ /\ KeyOf(input[row]) \notin old
        /\ model' = InsertAt(model, row, Create(input[row]))
        /\ view' = RowInserted(model', row)
     \/ /\ KeyOf(input[row]) \in old
        /\ UNCHANGED <<model, view>>
  /\ row' = row + 1
  /\ UNCHANGED <<input, pass, old, before, moves>>

EndInsert ==
  /\ pass = "insert" /\ row > Len(input)
  /\ NextPass("move")
  /\ UNCHANGED <<input, model, view, old, before, moves>>

(* An object that is not at its row is moved there, and the one that took  *)
(* its place is looked at next.                                            *)
MoveRow ==
  /\ pass = "move" /\ row <= Len(model)
  /\ LET to == DesiredRow(model[row].key) IN
       \/ /\ to \notin {0, row}
          /\ model' = InsertAt(RemoveAt(model, row), to, model[row])
          /\ view' = RowMoved(row, to + IF to > row THEN 1 ELSE 0)
          /\ moves' = moves + 1
          /\ row' = row
       \/ /\ to \in {0, row}
          /\ row' = row + 1
          /\ UNCHANGED <<model, view, moves>>
  /\ UNCHANGED <<input, pass, old, before>>

EndMove ==
  /\ pass = "move" /\ row > Len(model)
  /\ NextPass("update")
  /\ UNCHANGED <<input, model, view, old, before, moves>>

(* updateFunc takes the properties of the item over, unless the object is  *)
(* for another id or type: then it is replaced.                            *)
UpdateRow ==
  /\ pass = "update" /\ row <= Len(input)
  /\ LET item == input[row] IN
       \/ /\ model[row].key = KeyOf(item) /\ model[row].type = TypeOf(item)
          /\ UNCHANGED <<model, view>>
       \/ /\ model[row].key # KeyOf(item) \/ model[row].type # TypeOf(item)
          /\ model' = ReplaceAt(model, row, Create(item))
          /\ view' = DataChanged(model', row)
  /\ row' = row + 1
  /\ UNCHANGED <<input, pass, old, before, moves>>

EndUpdate ==
  /\ pass = "update" /\ row > Len(input)
  /\ NextPass("done")
  /\ UNCHANGED <<input, model, view, old, before, moves>>

(* Filters::clear(), with a model reset.                                   *)
Clear ==
  /\ pass = "done"
  /\ model' = <<>> /\ view' = <<>> /\ input' = <<>> /\ before' = <<>>
  /\ moves' = 0
  /\ UNCHANGED <<pass, row, old>>

Next ==
  \/ pass = "done" /\ \E items \in Inputs : Begin(items)
  \/ RemoveRow \/ EndRemove
  \/ InsertRow \/ EndInsert
  \/ MoveRow \/ EndMove
  \/ UpdateRow \/ EndUpdate
  \/ Clear

Spec == Init /\ [][Next]_vars

-----------------------------------------------------------------------------
(* Properties.                                                             *)

Keys == {KeyOf(item) : item \in Items}
Objects == [key : Keys, type : {TypeOf(item) : item \in Items}, kept : BOOLEAN]

(* The lists hold what they should, and no two objects have one key, which *)
(* is what newItems and oldItems rely on (modelupdate.h:44-45).            *)
TypeOK ==
  /\ input \in Inputs \cup {<<>>}
  /\ model \in Seq(Objects) /\ view \in Seq(Objects) /\ before \in Seq(Objects)
  /\ \A i, j \in DOMAIN model : model[i].key = model[j].key => i = j
  /\ pass \in {"remove", "insert", "move", "update", "done"}
  /\ row \in Nat \ {0}
  /\ pass \in {"remove", "move"} => row <= Len(model) + 1
  /\ pass \in {"insert", "update"} => row <= Len(input) + 1
  /\ old \subseteq Keys
  /\ moves \in Nat

(* A view that only follows the row signals shows the model after each of  *)
(* them, in the middle of a pass too (modelupdate.h:63-65, 86-88, 101-103, *)
(* 134).                                                                   *)
ViewMatches == view = model

(* When syncModel() returns, the model has an object for each item of the  *)
(* input, for its id and type, in the order of the input, and no others.   *)
ShowsInput ==
  pass = "done" =>
    /\ Len(model) = Len(input)
    /\ \A i \in DOMAIN input :
         model[i].key = KeyOf(input[i]) /\ model[i].type = TypeOf(input[i])

(* An object that was there for the same id and type is still the one:     *)
(* what the user has selected in it is not lost by an update               *)
(* (modelupdate.h:55-93, 126-138).                                         *)
ObjectsKept ==
  pass = "done" =>
    \A i \in DOMAIN model :
      model[i].kept <=> \E j \in DOMAIN before : before[j] = [model[i] EXCEPT !.kept = TRUE]

(* The third pass, which goes on with the same row as long as it moves     *)
(* something, ends: moving n objects home takes less than 2^(n-1) moves    *)
(* (modelupdate.h:96-107).                                                 *)
MovesBounded == moves < Power[IF model = <<>> THEN 0 ELSE Len(model) - 1]

(* The four together: after a call, and for the views within it, the model *)
(* is the input with the objects that were there before                    *)
(* (modelupdate.h:36-143).                                                 *)
Synchronised == TypeOK /\ ViewMatches /\ ShowsInput /\ ObjectsKept /\ MovesBounded
=============================================================================
