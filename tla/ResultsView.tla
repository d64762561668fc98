----------------------------- MODULE ResultsView -----------------------------
(***************************************************************************)
(* How a test of a scope drives its page (scope-harness: ResultsView,      *)
(* SettingsView, Result, PreviewView and the waits of TestUtils).  A call  *)
(* does something with the Scope and then waits, inside the call, until    *)
(* the Scope has emitted searchInProgressChanged(), or another signal,     *)
(* often enough.  Only in such a wait does the event loop run: there the   *)
(* typing timer fires, searches begin and end, and other invalidations     *)
(* come in between.                                                        *)
(*                                                                         *)
(* A wait ends some time after the first signal since it began, at the end *)
(* of the round of events that emitted it, or by its timeout.              *)
(***************************************************************************)
EXTENDS ScopeQuery

VARIABLES
  call,    \* the call of the test and what it asks for
  step,    \* the wait that it is in, or "idle"
  signals, \* searchInProgressChanged() since waitForResultsChange() began, more than two as two
  seen,    \* the signal waited for came since the wait began
  outcome, \* of the last call: "ok", "thrown", or "failed", which lets the call go on
  checked  \* its last act was to see that the search had ended

callVars == <<call, step, signals, seen, outcome, checked>>
viewVars == <<vars, callVars>>

SearchSteps == {"starting", "first", "last", "finish", "finishAgain"}
Steps == SearchSteps \cup {"idle", "settings", "loading", "activated", "preview", "away"}
NoCall == [op |-> "none", asks |-> Null]

Count(n) == IF call.op # "change" THEN 0 ELSE IF signals + n > 2 THEN 2 ELSE signals + n

-----------------------------------------------------------------------------
(* How calls begin, wait and end.                                          *)

Begins(op, asks) ==
  /\ step = "idle" /\ (op # "activate" => active)
  /\ call' = [op |-> op, asks |-> asks]

(* The signals that a dispatch emits: none when the next search takes over *)
(* from one that runs, two when the middleware refuses it.                 *)
DispatchSignals == IF running # running' THEN 1 ELSE IF running THEN 0 ELSE 2

WaitsIn(s) == step' = s /\ seen' = FALSE /\ signals' = 0 /\ outcome' = "none" /\ checked' = FALSE
Ends(how, looked) ==
  step' = "idle" /\ seen' = FALSE /\ signals' = 0 /\ outcome' = how /\ checked' = looked
GoesOn(s) == step' = s /\ seen' = FALSE /\ UNCHANGED <<signals, outcome, checked>>

(* throwIf(searchInProgress())                                             *)
Verified == IF running' THEN Ends("thrown", FALSE) ELSE Ends("ok", TRUE)

(* waitForSearchFinish() has returned: it reports a failure and no more.   *)
SearchAwaited(how) ==
  \/ /\ call.op = "browse" /\ step' = "loading" /\ seen' = FALSE /\ outcome' = how
     /\ UNCHANGED <<signals, checked>>
  \/ Ends(how, how = "ok")

(* waitForSearchFinish() is called, while the page is that of this state.  *)
AwaitSearch == IF running THEN GoesOn("finish") ELSE SearchAwaited("failed")

-----------------------------------------------------------------------------
(* The calls.                                                              *)

(* Mutant: the search is awaited whether or not there is one.              *)
SetActiveScopeAwaits ==
  /\ Begins("activate", <<>>)
  /\ IF active
     THEN IF text = <<>> THEN UNCHANGED vars ELSE SetSearchQuery(<<>>)
     ELSE IF text = <<>> THEN SetActive(TRUE)
     ELSE /\ active' = TRUE /\ userData' = Null /\ ChangeText(<<>>, FALSE)
          /\ UNCHANGED <<firstBoot, navigation, filterState, filterVars>> /\ Dispatch
  /\ WaitsIn("last")

(* setActiveScope() of this page: setSearchQuery(""), then setActive().    *)
SetActiveScope ==
  /\ Begins("activate", <<>>)
  /\ IF active
     THEN IF text = <<>> THEN UNCHANGED vars ELSE SetSearchQuery(<<>>)
     ELSE IF text = <<>> THEN SetActive(TRUE)
     ELSE /\ active' = TRUE /\ userData' = Null /\ ChangeText(<<>>, FALSE)
          /\ UNCHANGED <<firstBoot, navigation, filterState, filterVars>> /\ Dispatch
  /\ WaitsIn(IF running' THEN "last" ELSE "starting")

(* ... and of another one, whose searches are awaited meanwhile.           *)
SetOtherScope == Begins("leave", Null) /\ SetActive(FALSE) /\ WaitsIn("away")
OtherScopeSearched == step = "away" /\ Ends("none", FALSE) /\ UNCHANGED <<vars, call>>

(* Mutant: a search that is in progress is not looked for.                 *)
SetQueryAnyway(t) ==
  /\ Begins("setQuery", t)
  /\ IF t = text THEN Ends("none", FALSE) /\ UNCHANGED vars ELSE SetSearchQuery(t) /\ WaitsIn("first")

(* setQuery(): a text that is there is not searched again.                 *)
SetQuery(t) ==
  /\ Begins("setQuery", t)
  /\ IF t = text THEN Ends("none", FALSE) /\ UNCHANGED vars
     ELSE IF running THEN Ends("thrown", FALSE) /\ UNCHANGED vars
     ELSE SetSearchQuery(t) /\ WaitsIn("first")

ForceRefresh ==
  /\ Begins("refresh", Null)
  /\ IF running THEN Ends("thrown", FALSE) /\ UNCHANGED vars
     ELSE Refresh /\ IF running' THEN WaitsIn("last") ELSE Ends("ok", TRUE)

WaitForResultsChange ==
  /\ Begins("change", Null) /\ UNCHANGED vars
  /\ IF running THEN Ends("thrown", FALSE) ELSE WaitsIn("first")

(* browseDepartment(), of a department the page knows.                     *)
BrowseDepartment(n) ==
  /\ Begins("browse", n)
  /\ \/ navigation = n /\ UNCHANGED vars /\ (Ends("ok", FALSE) \/ WaitsIn("loading"))
     \/ /\ navigation # n /\ SetNavigationState(n)
        /\ IF running' THEN WaitsIn("finish")
           ELSE step' \in {"idle", "loading"} /\ outcome' = "failed"
                /\ signals' = 0 /\ seen' = FALSE /\ checked' = FALSE

(* SettingsView::set(): the setting is written after a delay.              *)
SetSetting == Begins("set", Null) /\ UNCHANGED vars /\ WaitsIn("settings")

(* tap(), tapAction() and longPress() of a result that is still there: it  *)
(* is activated or previewed.                                              *)
Tap == Begins("tap", Null) /\ UNCHANGED vars /\ (WaitsIn("activated") \/ WaitsIn("preview"))

-----------------------------------------------------------------------------
(* What happens in a wait.                                                 *)

Emits(n) ==
  /\ signals' = Count(n) /\ seen' = (seen \/ (step \in SearchSteps /\ n > 0))
  /\ UNCHANGED <<call, step, outcome, checked>>

PageEvent ==
  /\ step # "idle"
  /\ \/ (TypingFinished \/ Refresh \/ ScopeRegistryChanged) /\ Emits(IF active THEN DispatchSignals ELSE 0)
     \/ \E finalize, departments, filters \in BOOLEAN :
          FlushUpdates(finalize, departments, filters) /\ Emits(IF running' THEN 0 ELSE 1)
     \/ (CreateLocationPromptFile \/ (~active /\ Prepopulate(FALSE))) /\ Emits(0)

(* settingsChanged(), loadedChanged()                                      *)
SettingWritten ==
  /\ step = "settings" /\ Refresh /\ seen' = TRUE /\ signals' = Count(DispatchSignals)
  /\ UNCHANGED <<call, step, outcome, checked>>
ModelLoaded ==
  /\ step \in {"loading", "preview"} /\ seen' = TRUE /\ UNCHANGED <<vars, call, step, signals, outcome, checked>>

-----------------------------------------------------------------------------
(* How the waits go on.                                                    *)

(* setActiveScope() waits two seconds for a search to begin, and does not  *)
(* look again when one has ended.                                          *)
StartAwaited ==
  /\ step = "starting" /\ UNCHANGED <<vars, call>>
  /\ IF running THEN GoesOn("last") ELSE Ends("ok", FALSE)

FirstAwaited ==
  /\ step = "first" /\ UNCHANGED <<vars, call>>
  /\ IF ~seen THEN Ends("thrown", FALSE)
     ELSE IF IF call.op = "setQuery" THEN running ELSE signals = 1 THEN GoesOn("last")
     ELSE Verified

LastAwaited ==
  /\ step = "last" /\ UNCHANGED <<vars, call>>
  /\ IF ~seen THEN Ends("thrown", FALSE)
     ELSE IF call.op = "activate" THEN Ends("ok", FALSE)
     ELSE Verified

(* waitForSearchFinish()                                                   *)
WaitForSearchFinish ==
  /\ step \in {"finish", "finishAgain"} /\ UNCHANGED <<vars, call>>
  /\ IF seen /\ running /\ step = "finish" THEN GoesOn("finishAgain")
     ELSE SearchAwaited(IF seen /\ ~running THEN "ok" ELSE "failed")

SettingAwaited ==
  /\ step = "settings" /\ UNCHANGED <<vars, call>>
  /\ IF seen THEN AwaitSearch ELSE Ends("thrown", FALSE)

(* A department that does not load is an error, a preview is looked at as  *)
(* it is.                                                                  *)
LoadAwaited ==
  /\ step \in {"loading", "preview"} /\ UNCHANGED <<vars, call>>
  /\ IF ~seen /\ step = "loading" THEN Ends("thrown", FALSE)
     ELSE Ends(IF outcome = "failed" THEN "failed" ELSE "ok", FALSE)

(* activate(): the first answer decides what the test sees next.           *)
Activated ==
  /\ step = "activated" /\ UNCHANGED call
  /\ \/ UNCHANGED vars /\ Ends("thrown", FALSE)        \* no answer in time
     \/ UNCHANGED vars /\ Ends("ok", FALSE)            \* failed, update_result, an external URI
     \/ UNCHANGED vars /\ GoesOn("preview")            \* hide_dash, another URI
     \/ SetActive(FALSE) /\ GoesOn("away")             \* goto_scope
     \/ \E q \in CannedQueries : ExecuteCannedQuery(q) /\ Ends("ok", FALSE)  \* show_dash

-----------------------------------------------------------------------------
ViewInit ==
  Init /\ call = NoCall /\ step = "idle" /\ signals = 0 /\ seen = FALSE /\ outcome = "none" /\ checked = FALSE

ViewNext ==
  \/ SetActiveScope \/ SetOtherScope \/ OtherScopeSearched
  \/ \E t \in Texts : SetQuery(t)
  \/ ForceRefresh \/ WaitForResultsChange
  \/ \E n \in Navigations : BrowseDepartment(n)
  \/ SetSetting \/ Tap
  \/ PageEvent \/ SettingWritten \/ ModelLoaded
  \/ StartAwaited \/ FirstAwaited \/ LastAwaited \/ WaitForSearchFinish \/ SettingAwaited \/ LoadAwaited \/ Activated

ViewSpec == ViewInit /\ [][ViewNext]_viewVars

-----------------------------------------------------------------------------
ViewTypeOK ==
  /\ step \in Steps /\ signals \in 0 .. 2 /\ seen \in BOOLEAN /\ checked \in BOOLEAN
  /\ outcome \in {"none", "ok", "thrown", "failed"}
  /\ step \notin {"idle", "away"} => active

(* A call that returns after it saw the search end leaves the results of   *)
(* what it asked for on the page, and no search: what a test compares next *)
(* does not change under it (results-view.cpp:114-122, 207-266,            *)
(* test-utils.cpp:126-137).                                                *)
AnswersAreFinished ==
  step = "idle" /\ checked =>
    /\ ~running
    /\ sent # Null /\ sent.text = text
    /\ call.op = "setQuery" => text = call.asks
    /\ call.op = "browse" => sent.navigation \in {call.asks, Root}

(* No call waits for a signal that cannot come: until it is seen, the      *)
(* search that emits it runs, or the timer that starts one                 *)
(* (results-view.cpp:182-189, 225-231, 243-250, test-utils.cpp:126-137).   *)
WaitsForSomething ==
  /\ step \in {"last", "finish"} /\ ~seen /\ call.op # "change" => running
  /\ step = "first" /\ call.op = "setQuery" /\ ~seen => typing \/ running

TestsSeeFinishedSearches == ViewTypeOK /\ AnswersAreFinished /\ WaitsForSomething
=============================================================================
