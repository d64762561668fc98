------------------------------- MODULE MCPage -------------------------------
(***************************************************************************)
(* A page: its categories, the rows of one category through more flushes   *)
(* and updates than the page can be given, the look of one category, and   *)
(* the departments, each by itself: the initial state chooses which of     *)
(* them takes steps.                                                       *)
(***************************************************************************)
EXTENDS MCCategories, CategoryResults, Navigation, TLC

CONSTANTS
  Titles, Queries, Documents, Unreadable, Defaults, Known, RowAttributes

VARIABLES
  component, \* the one that takes steps
  look, mapping, max, rows, seen, seenRow, late

(* Two levels, two of whose departments come and go.  The scope sends any  *)
(* part of its tree that hangs together.                                   *)
MCParent == "" :> "" @@ "a" :> "" @@ "b" :> "" @@ "a1" :> "a" @@ "b1" :> "b"
Trees(w) ==
  {t \in UNION {[s -> w] : s \in SUBSET w} :
     /\ \A id \in DOMAIN t : t[id] \in {id, MCParent[id]} \cap DOMAIN t
     /\ Cardinality({id \in DOMAIN t : t[id] = id}) = 1}
MCViews == [w \in {{"", "a", "b", "a1"}, {"", "a", "b", "a1", "b1"}} |-> Trees(w)]

Look == INSTANCE CategoryData

JsonNull == <<"null">>
JsonString(s) == <<"string", s>>
JsonObject(f) == <<"object", f>>

(* A few members of CATEGORY_JSON_DEFAULTS, and templates that say more, or *)
(* less, or something odd of each.                                         *)
MCDefaults ==
  JsonObject([
    template |-> JsonObject("card-size" :> JsonString("small") @@ "overlay-mode" :> JsonNull),
    components |-> JsonObject("title" :> JsonNull @@ "art" :> JsonObject("aspect-ratio" :> <<"number", 1>>)
                                 @@ "attributes" :> JsonObject("max-count" :> <<"number", 2>>))])
Attributes(n) == JsonObject("field" :> JsonString("facts") @@ "max-count" :> <<"number", n>>)
MCDocuments ==
  "plain" :> JsonObject([components |-> JsonObject("title" :> JsonString("name") @@ "art" :> JsonString("icon"))])
  @@ "colour" :> JsonObject([
       template |-> JsonObject("card-background" :> JsonString("color:///red")),
       components |-> JsonObject("title" :> JsonObject("field" :> JsonString("label")) @@ "attributes" :> Attributes(1))])
  @@ "odd" :> JsonObject([
       components |-> JsonObject("title" :> JsonString("name") @@ "art" :> JsonNull
                        @@ "attributes" :> JsonString("facts") @@ "other" :> JsonObject("field" :> JsonString("x")))])
  @@ "none" :> JsonObject([components |-> JsonObject("attributes" :> Attributes(0))])

lookVars == <<look, mapping, max, rows, seen, seenRow, late>>

PageInit ==
  /\ component \in {"categories", "rows", "navigation", "look"}
  /\ Init /\ RowsInit /\ NavigationInit /\ Look!Init
  /\ component # "rows" => rowModel = EmptyModel(0)
  /\ component # "navigation" => world = {"", "a", "b", "a1"}

OnlyCategories == component = "categories" /\ Next /\ UNCHANGED <<component, rowVars, navigationVars, lookVars>>
OnlyRows == component = "rows" /\ RowsNext /\ UNCHANGED <<component, vars, navigationVars, lookVars>>
OnlyNavigation == component = "navigation" /\ NavigationNext /\ UNCHANGED <<component, vars, rowVars, lookVars>>
OnlyLook == component = "look" /\ Look!Next /\ UNCHANGED <<component, vars, rowVars, navigationVars>>

PageNext == OnlyCategories \/ OnlyRows \/ OnlyNavigation \/ OnlyLook
PageSpec == PageInit /\ [][PageNext]_<<component, vars, rowVars, navigationVars, lookVars>>

-----------------------------------------------------------------------------
(* CategoryData's: a category looks as its templates say, with defaults    *)
(* for what they leave out, and the views and the model of its rows were   *)
(* told (categories.cpp:142-283, 324-387, 476-499).                        *)
LooksAsRegistered == component = "look" => Look!LooksAsRegistered
=============================================================================
