----------------------------- MODULE ScopeQuery -----------------------------
(***************************************************************************)
(* What a Scope asks for, and when (the query half of scope.cpp, with the  *)
(* filter state of filters.cpp and the callers in scopes.cpp).             *)
(*                                                                         *)
(* A page has a search text, a department, a filter state and, after a     *)
(* canned query, user data.  They change at once; the search that follows  *)
(* is sent at once, after the typing or the filter timer, or when the page *)
(* becomes active and its results are dirty.  How results come back is the *)
(* subject of SearchPipeline; here a search only flushes and ends.         *)
(*                                                                         *)
(* All of it runs in the UI thread, one handler at a time.                 *)
(***************************************************************************)
EXTENDS Integers, Sequences
LOCAL INSTANCE SequencesExt

CONSTANTS
  Texts,        \* search texts, sequences of letters, with the empty text
  Departments,  \* department ids other than the root
  FilterStates, \* filter states other than the empty one
  CannedQueries,\* canned queries the page may be asked to perform
  Null,         \* a null string, no request, or no data
  MaxQueryId    \* bound: changes of the text within one session

Root == "root"
NoFilter == "none"
Navigations == Departments \cup {Root}
States == FilterStates \cup {NoFilter}

ASSUME TextsAssumption == <<>> \in Texts /\ Null \notin Texts
ASSUME CannedQueriesAssumption ==
  CannedQueries \subseteq
    [text : Texts, navigation : Navigations, filterState : States, hasData : BOOLEAN]
ASSUME QueryIdAssumption == MaxQueryId \in Nat

Sessions == 1 .. 3    \* UUIDs: only the present one and the one last sent are compared

VARIABLES
  active,         \* m_isActive
  dirty,          \* m_resultsDirty
  firstBoot,      \* the trusted location prompt was never shown
  typing,         \* m_typingTimer is running
  text,           \* m_searchQuery
  announced,      \* the text of the last searchQueryChanged()
  navigation,     \* m_currentNavigationId
  filterState,    \* m_filterState of the Scope
  userData,       \* m_queryUserData: the text of the canned query it came with
  session,        \* m_session_id (0: null)
  queryId,        \* m_query_id
  filtersOnPage,  \* Filters has rows
  shownState,     \* m_filterState of Filters: what the filters on the page show
  filterTimer,    \* m_filterStateChangeTimer is running
  sent,           \* the last request given to the middleware, or Null
  running         \* a search was accepted and has not ended

textVars == <<text, session, queryId>>
pageVars == <<active, firstBoot>>
filterVars == <<filtersOnPage, shownState, filterTimer>>
typingVars == <<typing, announced>>
vars == <<dirty, pageVars, typingVars, textVars, navigation, filterState, userData,
          filterVars, sent, running>>

(* The arguments of search() and the ids in its metadata.                  *)
Request == [text |-> text, navigation |-> navigation, filterState |-> filterState,
            userData |-> userData, session |-> session, queryId |-> queryId]

Requests == [text : Texts \cup {Null}, navigation : Navigations, filterState : States,
             userData : Texts \cup {Null}, session : Sessions \cup {0},
             queryId : 0 .. MaxQueryId]

ASSUME NullAssumption == Null \notin Requests

Init ==
  /\ active = FALSE /\ dirty = FALSE /\ firstBoot \in BOOLEAN
  /\ typing = FALSE /\ text = Null /\ announced = Null
  /\ navigation = Root /\ filterState = NoFilter /\ userData = Null
  /\ session = 0 /\ queryId = 0
  /\ filtersOnPage = FALSE /\ shownState = NoFilter /\ filterTimer = FALSE
  /\ sent = Null /\ running = FALSE

-----------------------------------------------------------------------------
(* Pieces of handlers.                                                     *)

(* Mutant: the results stay marked dirty.                                  *)
DispatchStaysDirty ==
  /\ sent' = Request'
  /\ running' \in BOOLEAN
  /\ UNCHANGED dirty

(* dispatchSearch(): sends what the Scope holds when the handler gets      *)
(* there.  The middleware may refuse, and then no search is in progress.   *)
Dispatch ==
  /\ sent' = Request'
  /\ running' \in BOOLEAN
  /\ dirty' = FALSE

(* Mutant: a registry change searches every page, shown or not.            *)
InvalidateAlways(programmatic) ==
  IF active \/ programmatic THEN Dispatch
  ELSE dirty' = TRUE /\ UNCHANGED <<sent, running>>

(* invalidateResults(): a page nobody sees is only marked.                 *)
InvalidateResults(programmatic) ==
  IF active \/ (programmatic /\ firstBoot) THEN Dispatch
  ELSE dirty' = TRUE /\ UNCHANGED <<sent, running>>

(* createUuid(): an id other than those still compared.                    *)
FreshSession ==
  CHOOSE s \in Sessions : s # session /\ (sent # Null => s # sent.session)

(* Mutant: the session id is not looked at, so the first text makes none.  *)
NewIdsNoNullCheck(t) ==
  IF text = Null \/ (text # <<>> /\ t # <<>> /\ (IsPrefix(text, t) \/ IsPrefix(t, text)))
  THEN queryId' = queryId + 1 /\ UNCHANGED session
  ELSE /\ queryId' = 0
       /\ session' = FreshSession

(* Mutant: the query id counts changes only when the text gets longer.     *)
NewIdsLonger(t) ==
  IF text \notin {Null, <<>>} /\ t # <<>> /\ (IsPrefix(text, t) \/ IsPrefix(t, text))
  THEN queryId' = (IF IsPrefix(text, t) THEN queryId + 1 ELSE queryId) /\ UNCHANGED session
  ELSE /\ queryId' = 0
       /\ session' = FreshSession

(* A text that continues or shortens the last one stays in its session;    *)
(* any other begins a session with a fresh id.                             *)
NewIds(t) ==
  IF text \notin {Null, <<>>} /\ t # <<>> /\ (IsPrefix(text, t) \/ IsPrefix(t, text))
  THEN queryId' = queryId + 1 /\ UNCHANGED session
  ELSE /\ queryId' = 0
       /\ session' = FreshSession

(* setSearchQueryString() without its call of invalidateResults(), for a   *)
(* Scope that is active or not: an active one waits for the typing timer,  *)
(* any other tells the shell at once.                                      *)
ChangeText(t, isActive) ==
  IF t = text
  THEN UNCHANGED <<textVars, typingVars>>
  ELSE /\ text' = t
       /\ NewIds(t)
       /\ queryId' <= MaxQueryId
       /\ typing' = (typing \/ isActive)
       /\ announced' = IF isActive THEN announced ELSE t

-----------------------------------------------------------------------------
(* What the shell and the user do.                                         *)

(* Mutant: typing keeps the user data of the last canned query.            *)
SetSearchQueryKeepsData(t) ==
  /\ t # text
  /\ ChangeText(t, active)
  /\ UNCHANGED <<pageVars, navigation, filterState, userData, filterVars>>
  /\ IF active THEN UNCHANGED <<dirty, sent, running>> ELSE InvalidateResults(FALSE)

(* setSearchQuery(): a new text drops the user data.  On an active page    *)
(* nothing is sent yet.                                                    *)
SetSearchQuery(t) ==
  /\ t # text
  /\ userData' = Null
  /\ ChangeText(t, active)
  /\ UNCHANGED <<pageVars, navigation, filterState, filterVars>>
  /\ IF active THEN UNCHANGED <<dirty, sent, running>> ELSE InvalidateResults(FALSE)

(* Mutant: the shell is told of the text, which is not searched.           *)
TypingFinishedNoSearch ==
  /\ typing
  /\ typing' = FALSE
  /\ announced' = text
  /\ UNCHANGED <<pageVars, textVars, navigation, filterState, userData, filterVars>>
  /\ UNCHANGED <<dirty, sent, running>>

TypingFinished ==
  /\ typing
  /\ typing' = FALSE
  /\ announced' = text
  /\ UNCHANGED <<pageVars, textVars, navigation, filterState, userData, filterVars>>
  /\ InvalidateResults(FALSE)

SetActive(a) ==
  /\ a # active
  /\ active' = a
  /\ UNCHANGED <<firstBoot, typingVars, textVars, navigation, filterState, userData, filterVars>>
  /\ IF a /\ dirty
     THEN Dispatch
     ELSE UNCHANGED <<dirty, sent, running>>

(* refresh(), the TTL timer, a changed setting, a login, and the           *)
(* InvalidateResults signal of a scope: all call invalidateResults().      *)
Refresh ==
  /\ UNCHANGED <<pageVars, typingVars, textVars, navigation, filterState, userData, filterVars>>
  /\ InvalidateResults(FALSE)

(* scopeRegistryChanged(): a programmatic invalidation.                    *)
ScopeRegistryChanged ==
  /\ UNCHANGED <<pageVars, typingVars, textVars, navigation, filterState, userData, filterVars>>
  /\ InvalidateResults(TRUE)

(* createLocationPromptFile(): the prompt was answered, for good.          *)
CreateLocationPromptFile ==
  /\ firstBoot
  /\ firstBoot' = FALSE
  /\ UNCHANGED <<active, dirty, typingVars, textVars, navigation, filterState, userData,
                 filterVars, sent, running>>

(* prepopulateFirstScope() and prepopulateNextScopes(): a scope that was   *)
(* never searched is searched for the empty text.  The latter runs inside  *)
(* setActive(), of this or another scope, when isActiveChanged() is        *)
(* emitted and before that setActive() looks at its dirty flag.            *)
Prepopulate(becomesActive) ==
  /\ sent = Null
  /\ becomesActive => ~active
  /\ active' = (active \/ becomesActive)
  /\ userData' = IF text = <<>> THEN userData ELSE Null
  /\ ChangeText(<<>>, active')
  /\ UNCHANGED <<firstBoot, navigation, filterState, filterVars>>
  /\ Dispatch

(* Mutant: an active page is not searched at once, and a text that did not *)
(* change starts no timer.                                                 *)
ExecuteCannedQueryByTimer(q) ==
  /\ navigation' = q.navigation
  /\ filterState' = q.filterState
  /\ userData' = IF q.hasData THEN q.text ELSE Null
  /\ ChangeText(q.text, active)
  /\ UNCHANGED <<pageVars, filterVars>>
  /\ IF active THEN UNCHANGED <<dirty, sent, running>> ELSE InvalidateResults(FALSE)

(* executeCannedQuery() on this page: setCannedQuery(), then               *)
(* invalidateResults().  The filters on the page are not told.             *)
ExecuteCannedQuery(q) ==
  /\ navigation' = q.navigation
  /\ filterState' = q.filterState
  /\ userData' = IF q.hasData THEN q.text ELSE Null
  /\ ChangeText(q.text, active)
  /\ UNCHANGED <<pageVars, filterVars>>
  /\ InvalidateResults(FALSE)

(* setNavigationState(): a canned query made of the page's own state, in   *)
(* which a null text is an empty one and which carries no user data.       *)
SetNavigationState(n) ==
  ExecuteCannedQuery([text |-> IF text = Null THEN <<>> ELSE text, navigation |-> n,
                      filterState |-> filterState, hasData |-> FALSE])

(* The user changes a filter; Filters waits before it tells the Scope.     *)
ChooseFilter(f) ==
  /\ filtersOnPage
  /\ f # shownState
  /\ shownState' = f
  /\ filterTimer' = TRUE
  /\ UNCHANGED <<dirty, pageVars, typingVars, textVars, navigation, filterState, userData,
                 filtersOnPage, sent, running>>

(* resetFilters(): every filter on the page goes back to its default.      *)
(* Option selectors always say so, ranges and sliders if their value       *)
(* changed.                                                                *)
ResetFilters ==
  /\ filtersOnPage
  /\ shownState' = NoFilter
  /\ filterTimer' \in {TRUE, filterTimer \/ shownState # NoFilter}
  /\ UNCHANGED <<dirty, pageVars, typingVars, textVars, navigation, filterState, userData,
                 filtersOnPage, sent, running>>

(* Mutant: the Scope searches again without taking over the state chosen.  *)
FilterStateKept ==
  /\ filterTimer
  /\ filterTimer' = FALSE
  /\ UNCHANGED <<pageVars, typingVars, textVars, navigation, filterState, userData,
                 filtersOnPage, shownState>>
  /\ InvalidateResults(FALSE)

(* delayedFilterStateChange() and Scope::filterStateChanged().             *)
FilterStateChanged ==
  /\ filterTimer
  /\ filterTimer' = FALSE
  /\ filterState' = shownState
  /\ UNCHANGED <<pageVars, typingVars, textVars, navigation, userData, filtersOnPage, shownState>>
  /\ InvalidateResults(FALSE)

(* Mutant: the timer is stopped, but the shell is not told of the text.    *)
ResetPrimaryNavigationTagSilent ==
  /\ navigation' = Root
  /\ shownState' = NoFilter /\ filterState' = NoFilter
  /\ typing' = FALSE
  /\ UNCHANGED <<pageVars, announced, textVars, userData, filtersOnPage, filterTimer>>
  /\ InvalidateResults(FALSE)

(* resetPrimaryNavigationTag(): the search that filterStateChanged() sends *)
(* already has the text, so the typing timer is stopped.                   *)
ResetPrimaryNavigationTag ==
  /\ navigation' = Root
  /\ shownState' = NoFilter /\ filterState' = NoFilter
  /\ typing' = FALSE
  /\ announced' = IF typing THEN text ELSE announced
  /\ UNCHANGED <<pageVars, textVars, userData, filtersOnPage, filterTimer>>
  /\ InvalidateResults(FALSE)

-----------------------------------------------------------------------------
(* What a search brings back (flushUpdates() and processSearchChunk()):    *)
(* departments or not, filters or not.  Only the last flush takes away     *)
(* what did not come.                                                      *)
FlushUpdates(finalize, departments, filters) ==
  /\ running
  /\ running' = ~finalize
  /\ navigation' = IF finalize /\ ~departments THEN Root ELSE navigation
  /\ filtersOnPage' = (filters \/ (filtersOnPage /\ ~finalize))
  /\ shownState' = IF finalize /\ ~filters /\ filtersOnPage THEN NoFilter ELSE shownState
  /\ UNCHANGED <<dirty, pageVars, typingVars, textVars, filterState, userData, filterTimer, sent>>

Next ==
  \/ \E t \in Texts : SetSearchQuery(t)
  \/ TypingFinished
  \/ \E a \in BOOLEAN : SetActive(a)
  \/ Refresh
  \/ ScopeRegistryChanged
  \/ CreateLocationPromptFile
  \/ \E b \in BOOLEAN : Prepopulate(b)
  \/ \E q \in CannedQueries : ExecuteCannedQuery(q)
  \/ \E n \in Navigations : SetNavigationState(n)
  \/ \E f \in States : ChooseFilter(f)
  \/ ResetFilters
  \/ FilterStateChanged
  \/ ResetPrimaryNavigationTag
  \/ \E finalize, departments, filters \in BOOLEAN : FlushUpdates(finalize, departments, filters)

Spec == Init /\ [][Next]_vars

(* Both are single-shot timers of an event loop that keeps running.  They  *)
(* are restarted by what the user does: by a new text and by a new filter  *)
(* state, for which the properties below end their claim about the old     *)
(* one, and by resetFilters(), which is assumed not to go on for ever.     *)
Fairness == WF_vars(TypingFinished) /\ WF_vars(FilterStateChanged)
FairSpec == Spec /\ Fairness

-----------------------------------------------------------------------------
(* Properties.                                                             *)

(* Types, and that no state of the Scope survives only in a null: a text   *)
(* was set exactly when there is a session (scope.cpp:1094-1117).          *)
TypeOK ==
  /\ active \in BOOLEAN /\ dirty \in BOOLEAN /\ firstBoot \in BOOLEAN
  /\ typing \in BOOLEAN
  /\ text \in Texts \cup {Null} /\ announced \in Texts \cup {Null}
  /\ navigation \in Navigations /\ filterState \in States
  /\ userData \in Texts \cup {Null}
  /\ session \in Sessions \cup {0} /\ queryId \in 0 .. MaxQueryId
  /\ (session = 0) = (text = Null)
  /\ filtersOnPage \in BOOLEAN /\ shownState \in States /\ filterTimer \in BOOLEAN
  /\ sent \in Requests \cup {Null}
  /\ running \in BOOLEAN

(* What was sent is what the page now says, up to the root department the  *)
(* page falls back to when a search returned no departments.               *)
Current ==
  /\ sent.text = text
  /\ sent.filterState = filterState
  /\ sent.userData = userData
  /\ navigation \in {sent.navigation, Root}

(* Results not marked dirty, on a page not waiting for the user to stop    *)
(* typing, are results of the page's own query, however it was changed:    *)
(* no path forgets to search or to mark (scope.cpp:303-331, 1320-1355).    *)
CleanMeansCurrent ==
  ~dirty /\ ~typing /\ text # Null => sent # Null /\ Current

(* A page that is shown never waits to be marked clean                     *)
(* (scope.cpp:1145-1164, 1320-1338).                                       *)
ShownIsClean == active => ~dirty

(* Within a session a query id stands for one text: a middleware that      *)
(* tells queries apart by session-id and query-id never sees two texts     *)
(* under one pair (scope.cpp:1094-1117, 762-765).                          *)
IdsTellTexts ==
  sent # Null /\ sent.session = session /\ sent.queryId = queryId => sent.text = text

(* User data goes out only with the text of the canned query it came with  *)
(* (scope.cpp:274-286, 1084-1092).                                         *)
UserDataOfItsQuery == sent # Null => sent.userData \in {Null, sent.text}

(* The shell was told of the text, or will be when the typing timer fires, *)
(* also on the paths that stop the timer (scope.cpp:352-357, 1118-1127,    *)
(* 1348-1354).                                                             *)
TextAnnounced == typing \/ announced = text

(* A page nobody sees sends no search after its first, once the location   *)
(* prompt has been answered (scope.cpp:1320-1338).                         *)
HiddenIsQuiet ==
  [][~active /\ ~active' /\ ~firstBoot /\ sent # Null
       => sent' = sent /\ (running' => running)]_vars

(* A text on a page that stays active is searched for                      *)
(* (scope.cpp:352-357).                                                    *)
Searched(t) == sent # Null /\ sent.text = t
TypedIsSearched ==
  \A t \in Texts : text = t ~> Searched(t) \/ text # t \/ ~active

(* A filter chosen on a page that stays active is searched with            *)
(* (filters.cpp:139-148, scope.cpp:1424-1431).                             *)
ChoiceIsSearched ==
  \A f \in States :
    filterTimer /\ shownState = f ~>
      shownState # f \/ ~active \/ (sent # Null /\ sent.filterState = f)
=============================================================================
