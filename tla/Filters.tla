------------------------------- MODULE Filters -------------------------------
(***************************************************************************)
(* The filters of a page (filters.cpp, optionselectorfilter.cpp,           *)
(* optionselectoroptions.cpp, rangeinputfilter.cpp, valuesliderfilter.cpp, *)
(* filtergroupwidget.cpp).  Each widget shows its part of a filter state   *)
(* that all of them share by weak pointers; the user changes a widget, the *)
(* scope sends its filters again, the page takes the state away, and the   *)
(* Scope hears of a change when the timer of the list has fired, which for *)
(* a widget in a group waits for the timer of the group first.             *)
(*                                                                         *)
(* filters is flat: the widgets of a group are neighbours with the same    *)
(* row.  The merge of an old list with a new one is SyncModel's subject;   *)
(* here it is what that module shows it to be.                             *)
(***************************************************************************)
EXTENDS Integers, Sequences, FiniteSets, SequencesExt, ListOperators

CONSTANTS
  Lists,   \* what the scope may send: sequences of definitions
  FilterValues,  \* the values of ranges and sliders
  None,    \* no value, no group, no widget
  MaxFilterChanges \* bound: changes by the user

Definitions == UNION {Range(list) : list \in Lists}

(* Filters have ids of their own, and options that are on by default exist. *)
ASSUME FiltersAssumption ==
  /\ \A list \in Lists : /\ list \in Seq(Definitions)
                         /\ \A i, j \in 1 .. Len(list) : list[i].id = list[j].id => i = j
  /\ \A def \in Definitions : /\ def.kind \in {"option", "range", "slider"}
                              /\ def.kind = "option" => def.defaults \subseteq def.options
  /\ MaxFilterChanges \in Nat

VARIABLES
  filters,     \* m_filters, flat
  primary,     \* m_primaryFilter
  state,       \* *m_filterState: the part of each filter id, None if it has none
  timer,       \* m_filterStateChangeTimer of the page's list
  groupTimers, \* the rows of groups whose own timer runs
  announced,   \* what Scope::filterStateChanged() saw last
  dropped,     \* history: a group's timer was destroyed with its row
  doubled,     \* history: departments came and the primary filter stayed, now also in the list
  changes      \* bound

filterVars == <<filters, primary, state, timer, groupTimers, announced, dropped, doubled, changes>>

FilterIds == {def.id : def \in Definitions}
NoState == [id \in FilterIds |-> None]

-----------------------------------------------------------------------------
(* What a definition makes of a state: the scopes library, from its use.   *)

ActiveOptions(def, st) == IF st[def.id] = None THEN def.defaults ELSE st[def.id] \cap def.options
WithOption(def, st, option, checked) ==
  IF checked THEN IF def.multi THEN ActiveOptions(def, st) \cup {option} ELSE {option}
  ELSE ActiveOptions(def, st) \ {option}

(* update_state() throws on a range that is upside down and on a value     *)
(* outside the slider.                                                     *)
Accepts(def, shown) ==
  IF def.kind = "range" THEN None \in {shown[1], shown[2]} \/ shown[1] <= shown[2]
  ELSE def.min <= shown /\ shown <= def.max

-----------------------------------------------------------------------------
(* Widgets.  marked is what the options of a selector remember as their    *)
(* defaults; no active option means that these are shown.                  *)

OptionsShown(def, marked, st) == IF ActiveOptions(def, st) = {} THEN marked ELSE ActiveOptions(def, st)
Shown(def, st) == IF st[def.id] = None THEN def.defaults ELSE st[def.id]

Widget(def, row, marked, shown) == [def |-> def, row |-> row, linked |-> TRUE, marked |-> marked, shown |-> shown]
NewOptionSelector(def, row, st) == Widget(def, row, def.defaults, OptionsShown(def, def.defaults, st))
NewRangeInput(def, row, st) == Widget(def, row, {}, Shown(def, st))
NewValueSlider(def, row, st) == Widget(def, row, {}, Shown(def, st))
Fresh(def, row, st) ==
  CASE def.kind = "option" -> NewOptionSelector(def, row, st)
    [] def.kind = "range"  -> NewRangeInput(def, row, st)
    [] def.kind = "slider" -> NewValueSlider(def, row, st)

(* update() with a filter state.                                           *)
RelinkedOptions(w, st) == [w EXCEPT !.linked = TRUE, !.shown = OptionsShown(w.def, w.marked, st)]
RelinkedRange(w, st)   == [w EXCEPT !.linked = TRUE, !.shown = Shown(w.def, st)]
RelinkedSlider(w, st)  == [w EXCEPT !.linked = TRUE, !.shown = Shown(w.def, st)]
Relinked(w, st) ==
  CASE w.def.kind = "option" -> RelinkedOptions(w, st)
    [] w.def.kind = "range"  -> RelinkedRange(w, st)
    [] w.def.kind = "slider" -> RelinkedSlider(w, st)

(* update() with a definition: only the options follow, and an option that *)
(* stays keeps the default it came with.                                   *)
RemarkedOptions(w, def) == (w.marked \cap def.options) \cup (def.defaults \ w.def.options)
RedefinedOptions(w, def, st) ==
  [w EXCEPT !.def = def, !.marked = RemarkedOptions(w, def),
            !.shown = IF w.linked THEN ActiveOptions(def, st) ELSE @ \cap def.options]
RedefinedRange(w, def)  == [w EXCEPT !.def = def]
RedefinedSlider(w, def) == [w EXCEPT !.def = def]
Redefined(w, def, st) ==
  CASE def.kind = "option" -> RedefinedOptions(w, def, st)
    [] def.kind = "range"  -> RedefinedRange(w, def)
    [] def.kind = "slider" -> RedefinedSlider(w, def)

-----------------------------------------------------------------------------
(* Filters::update() with filters.  The first single selector that wants   *)
(* to is the primary filter, if there are no departments; two or more of a *)
(* group share a row.                                                      *)

Candidates(list, departments) ==
  {i \in 1 .. Len(list) : list[i].wantsPrimary /\ list[i].kind = "option" /\ ~list[i].multi /\ ~departments}
IsPrimary(list, departments, i) ==
  i \in Candidates(list, departments) /\ \A j \in Candidates(list, departments) : i <= j

RowOf(list, def) ==
  IF def.group # None /\ Cardinality({d \in Range(list) : d.group = def.group}) > 1
  THEN <<"group", def.group>> ELSE <<"filter", def.id>>

(* preprocessFilters(): a group stands where its first filter was.         *)
Grouped(list) ==
  LET after[i \in 0 .. Len(list)] ==
        IF i = 0 THEN <<>>
        ELSE IF \E j \in 1 .. i - 1 : RowOf(list, list[j]) = RowOf(list, list[i]) THEN after[i - 1]
        ELSE after[i - 1] \o Selected(list, {d \in Range(list) : RowOf(list, d) = RowOf(list, list[i])})
  IN after[Len(list)]

SameWidget(w, def, row) == w.def.id = def.id /\ w.def.kind = def.kind /\ w.row = row

Merged(old, list, st) ==
  LET grouped == Grouped(list)
      WidgetOf(def) ==
        LET row == RowOf(list, def)
            kept == {w \in Range(old) : SameWidget(w, def, row)}
        IN IF kept = {} THEN Fresh(def, row, st) ELSE Redefined(CHOOSE w \in kept : TRUE, def, st)
  IN [i \in 1 .. Len(grouped) |-> WidgetOf(grouped[i])]

PrimaryRow == <<"primary", None>>
NewPrimary(list, departments) ==
  LET first == {i \in 1 .. Len(list) : IsPrimary(list, departments, i)} IN
  IF first = {} THEN IF departments THEN primary ELSE None
  ELSE LET def == list[CHOOSE i \in first : TRUE] IN
       IF primary # None /\ primary.def.id = def.id THEN Redefined(primary, def, state)
       ELSE Fresh(def, PrimaryRow, state)

(* The timers of groups that are no longer there go with them.             *)
DropTimers(kept) ==
  /\ groupTimers' = groupTimers \cap {w.row : w \in Range(kept)}
  /\ dropped' = (dropped \/ groupTimers' # groupTimers)

UpdateFilters(list, departments) ==
  /\ primary' = NewPrimary(list, departments)
  /\ filters' = Merged(filters,
       Selected(list, {def \in Range(list) : \A i \in 1 .. Len(list) : list[i] = def => ~IsPrimary(list, departments, i)}), state)
  /\ DropTimers(filters') /\ doubled' = (doubled \/ (departments /\ primary # None))
  /\ UNCHANGED <<state, timer, announced, changes>>

(* clear(): the state is made anew, which the primary filter is not told.  *)
ClearFilters ==
  /\ filters # <<>> /\ filters' = <<>> /\ state' = NoState
  /\ primary' = IF primary = None THEN None ELSE [primary EXCEPT !.linked = FALSE]
  /\ DropTimers(<<>>)
  /\ UNCHANGED <<timer, announced, doubled, changes>>

(* resetPrimaryNavigationTag(): update() with an empty state, announced at *)
(* once.                                                                   *)
UpdateState ==
  /\ state' = NoState /\ announced' = NoState
  /\ filters' = [i \in 1 .. Len(filters) |-> Relinked(filters[i], NoState)]
  /\ primary' = IF primary = None THEN None ELSE Relinked(primary, NoState)
  /\ UNCHANGED <<timer, groupTimers, dropped, doubled, changes>>

-----------------------------------------------------------------------------
(* Changes.  A step is what a change leaves of the widget and of its part  *)
(* of the state, and whether filterStateChanged is emitted.                *)

Step(w, part, emits) == [widget |-> w, part |-> part, emits |-> emits]

(* The widget has the new value before the state has it, or refuses it.    *)
SetShown(w, part, shown) ==
  IF shown = w.shown \/ ~w.linked THEN Step(w, part, FALSE)
  ELSE LET changed == [w EXCEPT !.shown = shown] IN
       IF Accepts(w.def, shown) THEN Step(changed, shown, TRUE) ELSE Step(changed, part, FALSE)

setStartValue(w, part, v) == SetShown(w, part, <<v, w.shown[2]>>)
setEndValue(w, part, v) == SetShown(w, part, <<w.shown[1], v>>)
setValue(w, part, v) == SetShown(w, part, v)

setChecked(w, option, checked) ==
  LET part == WithOption(w.def, state, option, checked) IN
  IF w.linked /\ (option \in w.shown) # checked
  THEN Step([w EXCEPT !.shown = part], part, TRUE)
  ELSE Step(w, state[w.def.id], FALSE)

(* What the user can do to a widget.                                       *)
UserSteps(w) ==
  LET part == state[w.def.id] IN
  CASE w.def.kind = "option" -> {setChecked(w, o, c) : o \in w.def.options, c \in BOOLEAN}
    [] w.def.kind = "range"  -> {setStartValue(w, part, v) : v \in FilterValues \cup {None}}
                                  \cup {setEndValue(w, part, v) : v \in FilterValues \cup {None}}
    [] w.def.kind = "slider" -> {setValue(w, part, v) : v \in FilterValues}

(* reset() of each type: a range goes back in two steps.                   *)
ResetOptions(w) == IF w.linked THEN Step(Relinked(w, NoState), None, TRUE) ELSE Step(w, state[w.def.id], FALSE)

(* Mutant: only the end of a range goes back.                              *)
ResetEndOnly(w) == setEndValue(w, state[w.def.id], w.def.defaults[2])

ResetRange(w) ==
  LET first == setStartValue(w, state[w.def.id], w.def.defaults[1])
      second == setEndValue(first.widget, first.part, w.def.defaults[2])
  IN Step(second.widget, second.part, first.emits \/ second.emits)
ResetSlider(w) == setValue(w, state[w.def.id], w.def.defaults)
ResetWidget(w) ==
  CASE w.def.kind = "option" -> ResetOptions(w)
    [] w.def.kind = "range"  -> ResetRange(w)
    [] w.def.kind = "slider" -> ResetSlider(w)

(* filterStateChanged of a widget starts the timer of its own list.        *)
Emit(rows) ==
  /\ timer' = (timer \/ \E row \in rows : row[1] # "group")
  /\ groupTimers' = groupTimers \cup {row \in rows : row[1] = "group"}

UserChange ==
  /\ changes < MaxFilterChanges /\ changes' = changes + 1
  /\ \/ \E i \in 1 .. Len(filters) : \E step \in UserSteps(filters[i]) :
          /\ filters' = [filters EXCEPT ![i] = step.widget] /\ UNCHANGED primary
          /\ state' = [state EXCEPT ![filters[i].def.id] = step.part]
          /\ Emit(IF step.emits THEN {filters[i].row} ELSE {})
     \/ /\ primary # None
        /\ \E step \in UserSteps(primary) :
             /\ primary' = step.widget /\ UNCHANGED filters
             /\ state' = [state EXCEPT ![primary.def.id] = step.part]
             /\ Emit(IF step.emits THEN {PrimaryRow} ELSE {})
  /\ UNCHANGED <<announced, dropped, doubled>>

(* reset(): the primary filter is not in the list.                         *)
ResetFilters ==
  LET steps == [i \in 1 .. Len(filters) |-> ResetWidget(filters[i])]
      Part(id) == {i \in 1 .. Len(filters) : filters[i].def.id = id}
  IN /\ filters # <<>>
     /\ filters' = [i \in 1 .. Len(filters) |-> steps[i].widget]
     /\ state' = [id \in FilterIds |-> IF Part(id) = {} THEN state[id] ELSE steps[CHOOSE i \in Part(id) : TRUE].part]
     /\ Emit({filters[i].row : i \in {j \in 1 .. Len(filters) : steps[j].emits}})
     /\ UNCHANGED <<primary, announced, dropped, doubled, changes>>

(* Mutant: the page's list does not start its timer for a group.           *)
GroupTimeoutSilent(row) ==
  /\ row \in groupTimers /\ groupTimers' = groupTimers \ {row}
  /\ UNCHANGED <<filters, primary, state, timer, announced, dropped, doubled, changes>>

(* The timer of a group tells the page's list, whose timer tells the Scope. *)
GroupTimeout(row) ==
  /\ row \in groupTimers /\ groupTimers' = groupTimers \ {row} /\ timer' = TRUE
  /\ UNCHANGED <<filters, primary, state, announced, dropped, doubled, changes>>

DelayedFilterStateChange ==
  /\ timer /\ timer' = FALSE /\ announced' = state
  /\ UNCHANGED <<filters, primary, state, groupTimers, dropped, doubled, changes>>

FiltersInit ==
  /\ filters = <<>> /\ primary = None /\ state = NoState /\ announced = NoState
  /\ timer = FALSE /\ groupTimers = {} /\ dropped = FALSE /\ doubled = FALSE /\ changes = 0

FiltersNext ==
  \/ \E list \in Lists, departments \in BOOLEAN : UpdateFilters(list, departments)
  \/ ClearFilters \/ UpdateState \/ UserChange \/ ResetFilters
  \/ \E row \in groupTimers : GroupTimeout(row)
  \/ DelayedFilterStateChange

FiltersSpec == FiltersInit /\ [][FiltersNext]_filterVars

-----------------------------------------------------------------------------
(* activeFiltersCount() of a widget: 0 or 1.                               *)
OptionsActive(w) == state[w.def.id] # None
RangeActive(w) == \E k \in {1, 2} : state[w.def.id][k] \notin {None, w.def.defaults[k]}
SliderActive(w) == state[w.def.id] # w.def.defaults
IsActive(w) ==
  /\ w.linked /\ state[w.def.id] # None
  /\ CASE w.def.kind = "option" -> OptionsActive(w)
       [] w.def.kind = "range"  -> RangeActive(w)
       [] w.def.kind = "slider" -> SliderActive(w)

Widgets == Range(filters) \cup (IF primary = None THEN {} ELSE {primary})

FiltersTypeOK ==
  /\ {timer, dropped, doubled} \subseteq BOOLEAN /\ changes \in 0 .. MaxFilterChanges
  /\ \A w \in Widgets :
       /\ w.def \in Definitions
       /\ w.def.kind = "option" => w.shown \subseteq w.def.options /\ w.marked \subseteq w.def.options
  /\ \A w \in Range(filters) : w.linked
  /\ \A i, j \in 1 .. Len(filters) : filters[i].def.id = filters[j].def.id => i = j
  /\ groupTimers \subseteq {w.row : w \in Range(filters)}

(* A widget with the page's state shows its part of it, through updates of *)
(* the filters and of the state; except the defaults in place of no option *)
(* and a value that the state refused, such as half of a range's input; and *)
(* so long as no filter is both the primary one and in the list.           *)
WidgetsShowState ==
  doubled \/ \A w \in Widgets : w.linked /\ state[w.def.id] # None =>
    IF w.def.kind = "option"
    THEN w.shown = ActiveOptions(w.def, state) \/ ActiveOptions(w.def, state) = {}
    ELSE w.shown = state[w.def.id] \/ ~Accepts(w.def, w.shown)

(* The Scope has been told of the page's state once all timers have fired, *)
(* unless the page cleared its filters or lost a group with its timer.     *)
ChangesAreAnnounced ==
  timer \/ groupTimers # {} \/ dropped \/ announced = state \/ state = NoState

(* The two together: widgets, state and Scope agree (filters.cpp:139-278). *)
FiltersAgree == FiltersTypeOK /\ WidgetsShowState /\ ChangesAreAnnounced

(* Filters::reset() leaves no filter of the list active, from whatever the *)
(* user entered before: a range is set back in two steps, the first of     *)
(* which may be refused (rangeinputfilter.cpp, comment in reset()).        *)
ResetRestoresDefaults ==
  [][ResetFilters => \A w \in Range(filters') : ~IsActive(w)' /\ (w.def.kind # "option" => w.shown = w.def.defaults)]_filterVars
=============================================================================
