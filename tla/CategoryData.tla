----------------------------- MODULE CategoryData -----------------------------
(***************************************************************************)
(* How one category of a page looks (categories.cpp: CategoryData,         *)
(* registerCategory(), overrideCategoryJson(); the mapping and the roles   *)
(* of resultsmodel.cpp).  A category comes with a JSON template, which is  *)
(* merged into the defaults; it decides which fields of a result fill the  *)
(* components of its card and how many attributes are shown.  Each search  *)
(* may bring the category with other attributes, in its old place or in a  *)
(* new one, and a template may be overridden or unreadable; the views know *)
(* what they were told by signals.                                         *)
(*                                                                         *)
(* A JSON value is <<"null">>, <<"string", s>>, <<"number", n>> or         *)
(* <<"object", f>> with a function f from its keys.                        *)
(***************************************************************************)
EXTENDS Naturals, Sequences, SequencesExt

CONSTANTS
  Titles, Queries,
  Documents,     \* the templates that can be parsed: the document of each
  Unreadable,    \* templates that cannot
  Defaults,      \* CATEGORY_JSON_DEFAULTS
  Known,         \* the components that ResultsModel has a role for
  RowAttributes, \* the attributes that a result has
  None

VARIABLES
  look,      \* the category's data: what it was registered with, raw template, renderer, components
  mapping,   \* m_componentMapping of its model
  max,       \* m_maxAttributes of its model
  rows,      \* the model has rows
  seen,      \* what the views know of the category
  seenRow,   \* what they know of a row
  late       \* history: the number of attributes changed after the row was read

vars == <<look, mapping, max, rows, seen, seenRow, late>>

Templates == DOMAIN Documents \cup Unreadable
Scopes == [title : Titles, query : Queries, template : Templates]

-----------------------------------------------------------------------------
(* Templates.                                                              *)

Null == <<"null">>
String(s) == <<"string", s>>
Object(f) == <<"object", f>>
Kind(json) == json[1]
Fields(json) == IF Kind(json) = "object" THEN json[2] ELSE <<>>
Value(json, key) == IF key \in DOMAIN Fields(json) THEN Fields(json)[key] ELSE Null

(* Mutant: an object replaces the default one whole.                       *)
MergeShallow(default, override) ==
  LET d == Fields(default)
      o == Fields(override)
  IN IF Kind(override) = "object" /\ Kind(default) = "object"
     THEN Object([k \in DOMAIN d \cup DOMAIN o |-> IF k \in DOMAIN o THEN o[k] ELSE d[k]])
     ELSE override

(* Objects are merged key by key; a string in place of a component stands  *)
(* for its field.                                                          *)
RECURSIVE MergeOverrides(_, _)
MergeOverrides(default, override) ==
  LET d == Fields(default)
      o == Fields(override)
  IN CASE Kind(override) = "object" /\ Kind(default) = "object" ->
            Object([k \in DOMAIN d \cup DOMAIN o |->
                      IF k \notin DOMAIN o THEN d[k]
                      ELSE IF k \notin DOMAIN d THEN o[k] ELSE MergeOverrides(d[k], o[k])])
       [] Kind(override) = "string" /\ Kind(default) \in {"null", "object"} ->
            Object([k \in DOMAIN d \cup {"field"} |-> IF k = "field" THEN override ELSE d[k]])
       [] OTHER -> override

(* backgroundUriToVariant(), for the one colour there is.                  *)
Background(json) ==
  IF json = String("color:///red") THEN Object([type |-> String("color"), elements |-> String("red")]) ELSE json

(* parseTemplate()                                                         *)
Parses(raw) == raw \in DOMAIN Documents
Parsed(raw) ==
  LET root == MergeOverrides(Defaults, Documents[raw])
      card == Value(root, "template")
  IN [components |-> Value(root, "components"),
      renderer   |-> IF "card-background" \in DOMAIN Fields(card)
                     THEN Object([card[2] EXCEPT !["card-background"] = Background(@)]) ELSE card]

(* getComponentsMapping() and getMaxAttributes()                           *)
ComponentsMapping(components) ==
  LET c == Fields(components)
  IN [k \in {key \in DOMAIN c : Kind(c[key]) = "object" /\ Kind(Value(c[key], "field")) = "string"} |->
        Value(c[k], "field")[2]]
MaxAttributes(components) ==
  LET count == Value(Value(components, "attributes"), "max-count")
  IN IF Kind(count) = "number" THEN count[2] ELSE 2

(* setComponentsMapping(): the loop over a hash, whose order differs from  *)
(* run to run, ends at a component it does not know.                       *)
Mappings(components) ==
  LET all == ComponentsMapping(components)
  IN IF DOMAIN all \subseteq Known THEN {all}
     ELSE {Restrict(all, some) : some \in SUBSET (DOMAIN all \cap Known)}

-----------------------------------------------------------------------------
(* The category.                                                           *)

Nothing == [scope |-> None, raw |-> None, renderer |-> Null, components |-> Null]

WithTemplate(l, raw) ==
  IF Parses(raw)
  THEN [l EXCEPT !.raw = raw, !.renderer = Parsed(raw).renderer, !.components = Parsed(raw).components]
  ELSE [l EXCEPT !.raw = raw]

(* setCategory(): a template that cannot be parsed leaves the last look.   *)
SetCategory(l, scope) == [WithTemplate(l, scope.template) EXCEPT !.scope = scope]

(* What data() answers.                                                    *)
ViewOf(l) ==
  [name |-> l.scope.title, headerLink |-> l.scope.query, rawTemplate |-> l.raw,
   renderer |-> l.renderer, components |-> l.components]
TemplateRoles == {"rawTemplate", "renderer", "components"}

(* Mutant: the template is compared after it was set.                      *)
ChangedAttributesLate(l, scope) ==
  LET before == [ViewOf(l) EXCEPT !.renderer = SetCategory(l, scope).renderer,
                                  !.components = SetCategory(l, scope).components]
      after == ViewOf(SetCategory(l, scope))
  IN {role \in DOMAIN after : before[role] # after[role]}

(* updateAttributes(): the roles that have changed.                        *)
ChangedAttributes(l, scope) ==
  LET before == ViewOf(l)
      after == ViewOf(SetCategory(l, scope))
  IN {role \in DOMAIN after :
        before[role] # after[role] /\ (role \in TemplateRoles => scope.template # l.raw)}

(* What data() of the model answers for a row: the field of each component *)
(* and the attributes, of which there is one before they are counted.      *)
AttributesValue(m, n) ==
  IF "attributes" \notin DOMAIN m THEN 0
  ELSE IF n = 0 THEN 1 ELSE IF n < RowAttributes THEN n ELSE RowAttributes
RowShown(m, n) ==
  [fields |-> [c \in Known |-> IF c \in DOMAIN m THEN m[c] ELSE None], attributes |-> AttributesValue(m, n)]

-----------------------------------------------------------------------------
(* The model is reset with the new mapping before it has the new number of *)
(* attributes.  kept: the row stays, so it is read at the reset at latest. *)
ResetModel(l, kept) ==
  /\ mapping' \in Mappings(l.components) /\ max' = MaxAttributes(l.components)
  /\ seenRow' = RowShown(mapping', IF kept THEN max ELSE max')
  /\ late' = (kept /\ max' # max)

KeepModel(kept) ==
  /\ UNCHANGED <<mapping, max>>
  /\ IF kept THEN UNCHANGED <<seenRow, late>> ELSE seenRow' = RowShown(mapping, max) /\ late' = FALSE

(* registerCategory() of a category that is not on the page, and its rows. *)
RegisterNew(scope) ==
  /\ look.scope = None
  /\ look' = SetCategory(Nothing, scope) /\ seen' = ViewOf(look')
  /\ rows' = TRUE /\ ResetModel(look', FALSE)

(* The category is taken from its place and inserted at a new one, so the  *)
(* views read all of it again.                                             *)
RegisterMoved(scope) ==
  LET roles == ChangedAttributes(look, scope) IN
  /\ look.scope # None
  /\ look' = SetCategory(look, scope) /\ seen' = ViewOf(look')
  /\ rows' = TRUE /\ IF roles # {} THEN ResetModel(look', FALSE) ELSE KeepModel(FALSE)

(* The category is in its place: the views hear of what has changed.  Its  *)
(* rows are updated afterwards and may all be others.                      *)
RegisterInPlace(scope, kept) ==
  LET roles == ChangedAttributes(look, scope) IN
  /\ look.scope # None /\ (kept => rows)
  /\ look' = SetCategory(look, scope)
  /\ seen' = [role \in DOMAIN seen |-> IF role \in roles THEN ViewOf(look')[role] ELSE seen[role]]
  /\ rows' = TRUE /\ IF roles # {} THEN ResetModel(look', kept) ELSE KeepModel(kept)

(* overrideCategoryJson(), until the category comes again.                 *)
OverrideCategoryJson(raw) ==
  /\ look.scope # None /\ Parses(raw) /\ look' = WithTemplate(look, raw)
  /\ seen' = [role \in DOMAIN seen |-> IF role \in TemplateRoles THEN ViewOf(look')[role] ELSE seen[role]]
  /\ IF rows THEN ResetModel(look', TRUE)
     ELSE /\ mapping' \in Mappings(look'.components) /\ max' = MaxAttributes(look'.components)
          /\ UNCHANGED <<seenRow, late>>
  /\ UNCHANGED rows

(* clearResults() by the last flush of a search without the category.      *)
ClearResults ==
  /\ rows /\ rows' = FALSE /\ seenRow' = None /\ late' = FALSE
  /\ UNCHANGED <<look, mapping, max, seen>>

(* The end of registerCategory() of another one on a full page.            *)
PurgeCategory ==
  /\ look.scope # None /\ ~rows
  /\ look' = Nothing /\ mapping' = <<>> /\ max' = 2 /\ seen' = None
  /\ UNCHANGED <<rows, seenRow, late>>

Init ==
  /\ look = Nothing /\ mapping = <<>> /\ max = 2
  /\ rows = FALSE /\ seen = None /\ seenRow = None /\ late = FALSE

Next ==
  \/ \E scope \in Scopes :
       RegisterNew(scope) \/ RegisterMoved(scope) \/ \E kept \in BOOLEAN : RegisterInPlace(scope, kept)
  \/ \E raw \in Templates : OverrideCategoryJson(raw)
  \/ ClearResults \/ PurgeCategory

Spec == Init /\ [][Next]_vars

-----------------------------------------------------------------------------
(* Properties.                                                             *)

TypeOK ==
  /\ look = Nothing \/ (look.scope \in Scopes /\ look.raw \in Templates)
  /\ max \in Nat /\ DOMAIN mapping \subseteq Known /\ {rows, late} \subseteq BOOLEAN
  /\ rows => look.scope # None
  /\ rows <=> seenRow # None

(* The views were told of every change of the category, whichever way it   *)
(* came (categories.cpp:142-182, 324-387, 476-499).                        *)
ViewsAreTold == look.scope # None => seen = ViewOf(look)

(* The model maps the components of the template that shows, unless one is *)
(* unknown, and its rows were read with that mapping and that number of    *)
(* attributes, unless the number changed after the reset                   *)
(* (resultsmodel.cpp:62-109).                                              *)
RowsFollowTemplate ==
  look.scope # None =>
    LET all == ComponentsMapping(look.components) IN
    /\ max = MaxAttributes(look.components)
    /\ mapping = Restrict(all, DOMAIN mapping) /\ (DOMAIN all \subseteq Known => mapping = all)
    /\ rows => seenRow.fields = RowShown(mapping, max).fields /\ (late \/ seenRow = RowShown(mapping, max))

(* The merge by paths, without following it: a leaf of the template, with  *)
(* strings expanded where the defaults have an object or nothing, and each *)
(* leaf of the defaults that is neither above nor below one of those.      *)
RECURSIVE Leaves(_)
Leaves(json) ==
  IF Kind(json) # "object" THEN {<< <<>>, json>>}
  ELSE UNION {{<< <<k>> \o leaf[1], leaf[2]>> : leaf \in Leaves(json[2][k])} : k \in DOMAIN json[2]}

MergedByPaths(raw) ==
  LET below(p) == {leaf \in Leaves(Defaults) : IsPrefix(p, leaf[1])}
      Expanded(leaf) ==
        IF Kind(leaf[2]) = "string" /\ (<<leaf[1], Null>> \in below(leaf[1]) \/ \E d \in below(leaf[1]) : d[1] # leaf[1])
        THEN <<leaf[1] \o <<"field">>, leaf[2]>> ELSE leaf
      given == {Expanded(leaf) : leaf \in Leaves(Documents[raw])}
  IN given \cup {d \in Leaves(Defaults) : \A g \in given : ~IsPrefix(g[1], d[1]) /\ ~IsPrefix(d[1], g[1])}

MergedAsGiven ==
  look.scope # None /\ Parses(look.raw) =>
    Leaves(look.components) =
      {<<Tail(leaf[1]), leaf[2]>> : leaf \in {l \in MergedByPaths(look.raw) : Head(l[1]) = "components"}}

(* All of it: what the category's templates say is what is shown, with     *)
(* defaults for what they leave out (categories.cpp:142-283).              *)
LooksAsRegistered == TypeOK /\ ViewsAreTold /\ RowsFollowTemplate /\ MergedAsGiven
=============================================================================
