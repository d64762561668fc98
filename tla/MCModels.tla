------------------------------ MODULE MCModels ------------------------------
(***************************************************************************)
(* The list models and trees that a page hands to the shell, and the       *)
(* matchers that look at them, each by itself: the initial state chooses   *)
(* one of them and only that one takes steps.                              *)
(***************************************************************************)
EXTENDS SyncModel, SettingsModel, Filters, Matchers, TLC

VARIABLE component \* the one that takes steps

modelsVars == <<component, vars, filterVars, sheetVars, matcherVars>>

-----------------------------------------------------------------------------
(* Four ids, one of which may come with either of two types.               *)
MCItems == {<<"a", 1>>, <<"a", 2>>, <<"b", 1>>, <<"c", 1>>, <<"d", 1>>}
MCInputs == {s \in BoundedSeq(MCItems, 5) : \A i, j \in DOMAIN s : s[i][1] = s[j][1] => i = j}

(* A selector that can be the primary filter, a range and a slider that    *)
(* share a group, and a selector with several choices.                     *)
Option(id, options, defaults, multi, wantsPrimary) ==
  [id |-> id, kind |-> "option", options |-> options, defaults |-> defaults, multi |-> multi, group |-> None,
   wantsPrimary |-> wantsPrimary]
RangeInput(from, to) ==
  [id |-> "r", kind |-> "range", defaults |-> <<from, to>>, group |-> "g", wantsPrimary |-> FALSE]
Slider == [id |-> "s", kind |-> "slider", defaults |-> 1, min |-> 0, max |-> 2, group |-> "g", wantsPrimary |-> FALSE]
MCLists ==
  {<<Option("o", {"x", "y"}, {"x"}, FALSE, TRUE), RangeInput(0, 2), Slider>>,
   <<RangeInput(1, 2), Option("o", {"y", "z"}, {"z"}, TRUE, TRUE)>>,
   <<Option("o", {"x", "y"}, {"x"}, FALSE, TRUE), Option("p", {"x"}, {}, TRUE, FALSE)>>}

(* The location and one more setting; an aggregator with a child and two   *)
(* that it may get.                                                        *)
MCSettings == <<"internal.location", "s1">>
MCFirstChildren == <<"c1">>

-----------------------------------------------------------------------------
Components == {"sync", "filters", "settings", "matchers"}

ModelsInit ==
  /\ component \in Components
  /\ Init /\ SheetInit /\ FiltersInit /\ MatchersInit
  /\ component # "matchers" => kind = "results"

OnlySync ==
  component = "sync" /\ Next /\ UNCHANGED <<component, filterVars, sheetVars, matcherVars>>
OnlyFilters ==
  component = "filters" /\ FiltersNext /\ UNCHANGED <<component, vars, sheetVars, matcherVars>>
OnlySettings ==
  component = "settings" /\ SheetNext /\ UNCHANGED <<component, vars, filterVars, matcherVars>>
OnlyMatchers ==
  component = "matchers" /\ MatchersNext /\ UNCHANGED <<component, vars, filterVars, sheetVars>>

ModelsNext == OnlySync \/ OnlyFilters \/ OnlySettings \/ OnlyMatchers

ModelsSpec == ModelsInit /\ [][ModelsNext]_modelsVars
=============================================================================
