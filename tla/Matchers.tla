------------------------------ MODULE Matchers ------------------------------
(***************************************************************************)
(* The expectations of the scope harness (scope-harness/matcher).  A test  *)
(* of a scope writes down which categories, results, departments or        *)
(* settings it expects and compares them with what a view shows, row by    *)
(* row (all, starts_with) or by the id of each row (by_id, by_uri).        *)
(*                                                                         *)
(* A row is a record with its id, one attribute that stands for the fields *)
(* that are compared for equality, and the rows below it.  What a matcher  *)
(* expects is a record of the same shape; an attribute that a test did not *)
(* mention is Unmentioned.  A URI is expected by a pattern, the set of     *)
(* URIs it matches.  A match succeeds when no comparison reports a failure. *)
(***************************************************************************)
EXTENDS Naturals, SequencesExt

CONSTANTS
  RowIds,     \* the ids of rows
  Attributes,
  Unmentioned,
  MaxRows     \* bound: rows of a view, expected rows

ASSUME MatchersAssumption == MaxRows \in Nat \ {0}

Kinds == {"categories", "results", "department", "settings", "preview"}
Modes == {"all", "starts_with", "by_id"}

VARIABLES
  kind,     \* which view the test looks at
  viewRows, \* what it shows
  expected, \* the rows that the test has written down so far
  lengths   \* the lengths that hasAtLeast() or hasExactly() leave

matcherVars == <<kind, viewRows, expected, lengths>>

-----------------------------------------------------------------------------
Given(wanted, value) == wanted = Unmentioned \/ wanted = value

(* hits are the pairs of an expected row and a row that match.             *)
Pairs(wanted, shown) == (DOMAIN wanted) \X (DOMAIN shown)
All(hits, wanted, shown) == Len(shown) = Len(wanted) /\ \A n \in DOMAIN wanted : <<n, n>> \in hits
StartsWith(hits, wanted, shown) == Len(shown) >= Len(wanted) /\ \A n \in DOMAIN wanted : <<n, n>> \in hits

(* Each expected row with the first row that has its id; an id is a set of *)
(* keys.                                                                   *)
ById(hits, wanted, shown) ==
  \A n \in DOMAIN wanted :
    \E at \in DOMAIN shown :
      /\ shown[at].id \in wanted[n].id /\ \A k \in 1 .. at - 1 : shown[k].id \notin wanted[n].id
      /\ <<n, at>> \in hits

(* A list of which nothing is expected matches.                            *)
InMode(mode, hits, wanted, shown) ==
  \/ wanted = <<>>
  \/ mode = "all" /\ All(hits, wanted, shown)
  \/ mode = "starts_with" /\ StartsWith(hits, wanted, shown)
  \/ mode = "by_id" /\ ById(hits, wanted, shown)

(* Mutant: of a result with any URI nothing is compared.                   *)
ResultMatchesAny(wanted, result) ==
  wanted.id = {} \/ (result.id \in wanted.id /\ Given(wanted.attribute, result.attribute))

(* result-matcher.cpp; child-department-matcher.cpp,                       *)
(* settings-option-matcher.cpp and preview-widget-matcher.cpp compare the  *)
(* id and the fields in the same way.                                      *)
ResultMatches(wanted, result) ==
  (wanted.id = {} \/ result.id \in wanted.id) /\ Given(wanted.attribute, result.attribute)
ChildDepartmentMatches(wanted, child) == child.id \in wanted.id /\ Given(wanted.attribute, child.attribute)
OptionMatches(wanted, option) == option.id \in wanted.id /\ Given(wanted.attribute, option.attribute)
WidgetMatches(wanted, widget) == widget.id \in wanted.id /\ Given(wanted.attribute, widget.attribute)

(* CategoryMatcher: the id, hasAtLeast(), the fields, then the results, by *)
(* URI when they are part of a list of categories.  An any_uri() has no    *)
(* URI to look for: there the code throws, and the test fails as well.     *)
ResultsMatch(mode, wanted, results) ==
  InMode(mode, {p \in Pairs(wanted, results) : ResultMatches(wanted[p[1]], results[p[2]])}, wanted, results)
CategoryMatches(wanted, category) ==
  /\ category.id \in wanted.id /\ Given(wanted.attribute, category.attribute)
  /\ Len(category.rows) >= wanted.atLeast
  /\ ResultsMatch("by_id", wanted.rows, category.rows)

(* A view has a length that the test allows, then the rows it expects.     *)
CategoriesMatch(mode, wanted, categories) ==
  InMode(mode, {p \in Pairs(wanted, categories) : CategoryMatches(wanted[p[1]], categories[p[2]])},
         wanted, categories)
CategoryListMatches(mode, wanted, categories) ==
  Len(categories) \in lengths /\ CategoriesMatch(mode, wanted, categories)

ChildrenMatch(mode, wanted, children) ==
  InMode(mode, {p \in Pairs(wanted, children) : ChildDepartmentMatches(wanted[p[1]], children[p[2]])},
         wanted, children)
DepartmentMatches(mode, wanted, children) ==
  Len(children) \in lengths /\ ChildrenMatch(mode, wanted, children)

OptionsMatch(mode, wanted, options) ==
  InMode(mode, {p \in Pairs(wanted, options) : OptionMatches(wanted[p[1]], options[p[2]])}, wanted, options)
SettingsMatch(mode, wanted, options) == Len(options) \in lengths /\ OptionsMatch(mode, wanted, options)

(* preview-matcher.cpp and preview-column-matcher.cpp have no modes and    *)
(* compare an empty list too: here, the widgets of the one column.         *)
PreviewMatches(wanted, widgets) ==
  Len(wanted) = Len(widgets) /\ \A n \in DOMAIN wanted : WidgetMatches(wanted[n], widgets[n])
ColumnsMatch(wanted, columns) ==
  Len(wanted) = Len(columns) /\ \A n \in DOMAIN wanted : PreviewMatches(wanted[n], columns[n])

Matches(mode, wanted, shown) ==
  CASE kind = "categories" -> CategoryListMatches(mode, wanted, shown)
    [] kind = "results"    -> Len(shown) \in lengths /\ ResultsMatch(mode, wanted, shown)
    [] kind = "department" -> DepartmentMatches(mode, wanted, shown)
    [] kind = "settings"   -> SettingsMatch(mode, wanted, shown)
    [] kind = "preview"    -> ColumnsMatch(<<wanted>>, <<shown>>)

-----------------------------------------------------------------------------
(* A category has at most one result here, of which only the URI is asked, *)
(* and hasAtLeast() is 0 if the test did not say, as when it expects the   *)
(* result itself; only results have patterns and any_uri().                *)
Below ==
  IF kind = "categories" THEN {<<>>} \cup {<<[id |-> k, attribute |-> Unmentioned]>> : k \in RowIds} ELSE {<<>>}
WantedBelow ==
  IF kind = "categories" THEN {<<>>} \cup {<<[id |-> {k}, attribute |-> Unmentioned]>> : k \in RowIds} ELSE {<<>>}
Patterns == IF kind = "results" THEN SUBSET RowIds ELSE {{k} : k \in RowIds}

MatchersInit == kind \in Kinds /\ viewRows = <<>> /\ expected = <<>> /\ lengths = 0 .. MaxRows

ShowRow(id, attribute, below) ==
  /\ Len(viewRows) < MaxRows
  /\ viewRows' = Append(viewRows, [id |-> id, attribute |-> attribute, rows |-> below])
  /\ UNCHANGED <<kind, expected, lengths>>

(* category(), result(), child(), option(), widget()                       *)
ExpectRow(id, attribute, atLeast, below) ==
  /\ Len(expected) < MaxRows
  /\ expected' = Append(expected, [id |-> id, attribute |-> attribute, atLeast |-> atLeast, rows |-> below])
  /\ UNCHANGED <<kind, viewRows, lengths>>

(* hasAtLeast(), hasExactly(): a test says one of them first.              *)
ExpectLength(allowed) ==
  /\ kind # "preview" /\ viewRows = <<>> /\ expected = <<>> /\ lengths = 0 .. MaxRows
  /\ lengths' = allowed
  /\ UNCHANGED <<kind, viewRows, expected>>

(* The test goes on to another view.                                       *)
NextView == viewRows' = <<>> /\ expected' = <<>> /\ lengths' = 0 .. MaxRows /\ UNCHANGED kind

MatchersNext ==
  \/ NextView
  \/ ExpectLength(1 .. MaxRows)
  \/ ExpectLength({1})
  \/ \E id \in RowIds, attribute \in Attributes, below \in Below : ShowRow(id, attribute, below)
  \/ \E id \in Patterns, attribute \in Attributes \cup {Unmentioned}, below \in WantedBelow :
       \E atLeast \in IF kind = "categories" /\ below = <<>> THEN {0, 1} ELSE {0} :
         ExpectRow(id, attribute, atLeast, below)

MatchersSpec == MatchersInit /\ [][MatchersNext]_matcherVars

-----------------------------------------------------------------------------
MatchersTypeOK ==
  /\ kind \in Kinds /\ lengths \subseteq 0 .. MaxRows
  /\ viewRows \in BoundedSeq([id : RowIds, attribute : Attributes, rows : Below], MaxRows)
  /\ expected \in BoundedSeq([id : Patterns, attribute : Attributes \cup {Unmentioned},
                             atLeast : IF kind = "categories" THEN {0, 1} ELSE {0}, rows : WantedBelow], MaxRows)

(* A match says something about what is shown: a matcher that succeeds     *)
(* finds for every expected row one that satisfies it, and with the longer *)
(* list it succeeds for what was written down before, in the modes that    *)
(* allow more rows than expected.                                          *)
(* The modes are ordered: all asks more than starts_with, which asks more  *)
(* than by_id where the ids tell the rows apart; where they do not, by_id  *)
(* and by_uri look at the first row only.                                  *)
Satisfies(wanted, shown) ==
  /\ wanted.id = {} \/ shown.id \in wanted.id
  /\ wanted.attribute \in {Unmentioned, shown.attribute}
  /\ Len(shown.rows) >= wanted.atLeast
  /\ \A r \in Range(wanted.rows) : \E below \in Range(shown.rows) : below.id \in r.id
Literal == \A n \in DOMAIN expected : \A a, b \in DOMAIN viewRows :
             viewRows[a].id \in expected[n].id /\ viewRows[b].id \in expected[n].id => a = b
ModesAgree ==
  /\ MatchersTypeOK
  /\ \A mode \in Modes :
       Matches(mode, expected, viewRows) =>
         /\ \A wanted \in Range(expected) : \E shown \in Range(viewRows) : Satisfies(wanted, shown)
         /\ kind # "preview" => Len(viewRows) \in lengths
         /\ mode # "all" /\ kind # "preview" =>
              \A n \in DOMAIN expected : Matches(mode, SubSeq(expected, 1, n), viewRows)
  /\ Matches("all", expected, viewRows) => Matches("starts_with", expected, viewRows)
  /\ Literal /\ (\A n \in DOMAIN expected : expected[n].id # {}) /\ Matches("starts_with", expected, viewRows)
       => Matches("by_id", expected, viewRows)
=============================================================================
