-------------------------- MODULE ScopeQueryProofs --------------------------
(***************************************************************************)
(* Proofs about ScopeQuery, for any texts, departments, filter states and  *)
(* canned queries.                                                         *)
(*                                                                         *)
(* Every handler ends in one of three ways: it sends a request, it marks   *)
(* the results dirty, or it leaves both alone.  The proofs follow that     *)
(* division: Sent, Marked and Kept below.                                  *)
(*                                                                         *)
(* The second half is about the page in the hands of a test (ResultsView): *)
(* a call that waits owns the text of the page until it returns.           *)
(***************************************************************************)
EXTENDS ResultsView, TLAPS

Sent == sent' = Request' /\ dirty' = FALSE /\ running' \in BOOLEAN
Marked == sent' = sent /\ dirty' = TRUE /\ running' = running
Kept == sent' = sent /\ dirty' = dirty /\ running' = running

(* What a request of the present session says of the present ids.          *)
IdsGrow ==
  sent # Null /\ sent.session = session =>
    /\ sent.queryId <= queryId
    /\ sent.queryId = queryId => sent.text = text

(* User data never outlives the text it came with.                         *)
DataOfText == userData \in {Null, text}

QInv ==
  /\ TypeOK
  /\ CleanMeansCurrent
  /\ ShownIsClean
  /\ IdsGrow
  /\ DataOfText
  /\ UserDataOfItsQuery
  /\ TextAnnounced

-----------------------------------------------------------------------------
(* invalidateResults() sends or marks; it sends when the page is active.   *)
LEMMA InvalidateOutcome ==
  ASSUME NEW p \in BOOLEAN, InvalidateResults(p)
  PROVE  /\ Sent \/ Marked
         /\ active => Sent
         /\ ~active /\ ~(p /\ firstBoot) => Marked
  BY DEF InvalidateResults, Dispatch, Sent, Marked

(* There is always a session id left to take.                              *)
LEMMA FreshIsNew ==
  FreshSession \in Sessions /\ FreshSession # session /\ (sent # Null => FreshSession # sent.session)
<1>1. \E s \in Sessions : s # session /\ (sent # Null => s # sent.session)
  <2>1. 1 \in Sessions /\ 2 \in Sessions /\ 3 \in Sessions
    BY DEF Sessions
  <2>2. QED
    BY <2>1
<1>2. QED
  BY <1>1 DEF FreshSession

LEMMA NewIdsOutcome ==
  ASSUME TypeOK, NEW t \in Texts, NewIds(t), queryId' <= MaxQueryId
  PROVE  /\ session' \in Sessions /\ queryId' \in 0 .. MaxQueryId
         /\ \/ session' = session /\ queryId' = queryId + 1
            \/ session' # session /\ (sent # Null => session' # sent.session)
<1>1. CASE queryId' = queryId + 1 /\ session' = session /\ text # Null
  BY <1>1, QueryIdAssumption DEF TypeOK, Sessions
<1>2. CASE queryId' = 0 /\ session' = FreshSession
  BY <1>2, FreshIsNew, QueryIdAssumption DEF TypeOK, Sessions
<1>3. QED
  BY <1>1, <1>2 DEF NewIds

-----------------------------------------------------------------------------
(* The invariant, by the way a handler ends.                               *)

(* The parts of the page that do not depend on what was sent.              *)
PageTypes ==
  /\ active' \in BOOLEAN /\ firstBoot' \in BOOLEAN /\ typing' \in BOOLEAN
  /\ text' \in Texts \cup {Null} /\ announced' \in Texts \cup {Null}
  /\ navigation' \in Navigations /\ filterState' \in States
  /\ userData' \in Texts \cup {Null}
  /\ session' \in Sessions \cup {0} /\ queryId' \in 0 .. MaxQueryId
  /\ (session' = 0) = (text' = Null)
  /\ filtersOnPage' \in BOOLEAN /\ shownState' \in States /\ filterTimer' \in BOOLEAN

(* A handler that sends re-establishes everything about what was sent.     *)
LEMMA SentInv ==
  ASSUME QInv, Sent, PageTypes, DataOfText', TextAnnounced'
  PROVE  QInv'
<1>1. sent' = Request' /\ dirty' = FALSE /\ running' \in BOOLEAN
  BY DEF Sent
<1>2. sent' \in Requests
  BY <1>1 DEF Request, Requests, PageTypes
<1>3. TypeOK'
  BY <1>1, <1>2 DEF PageTypes, TypeOK
<1>4. /\ sent'.text = text' /\ sent'.filterState = filterState' /\ sent'.userData = userData'
      /\ sent'.navigation = navigation' /\ sent'.session = session' /\ sent'.queryId = queryId'
  BY <1>1 DEF Request
<1>5. sent' # Null
  BY <1>2, NullAssumption
<1>6. CleanMeansCurrent'
  BY <1>4, <1>5 DEF CleanMeansCurrent, Current
<1>7. ShownIsClean'
  BY <1>1 DEF ShownIsClean
<1>8. IdsGrow'
  BY <1>4, <1>3 DEF IdsGrow, TypeOK
<1>9. UserDataOfItsQuery'
  BY <1>4, DataOfText' DEF UserDataOfItsQuery, DataOfText
<1>10. QED
  BY <1>3, <1>6, <1>7, <1>8, <1>9 DEF QInv

(* One that marks must only have kept the request and the ids in step.     *)
LEMMA MarkedInv ==
  ASSUME QInv, Marked, PageTypes, DataOfText', TextAnnounced', IdsGrow', ~active'
  PROVE  QInv'
<1>1. sent' = sent /\ dirty' = TRUE /\ running' = running
  BY DEF Marked
<1>2. TypeOK'
  BY <1>1 DEF PageTypes, TypeOK, QInv
<1>3. CleanMeansCurrent' /\ ShownIsClean'
  BY <1>1 DEF CleanMeansCurrent, ShownIsClean
<1>4. UserDataOfItsQuery'
  BY <1>1 DEF UserDataOfItsQuery, QInv
<1>5. QED
  BY <1>2, <1>3, <1>4 DEF QInv

(* One that neither sends nor marks may not change the query of a page     *)
(* that is to be clean and is not waiting for the user to stop typing.     *)
LEMMA KeptInv ==
  ASSUME QInv, Kept, PageTypes, DataOfText', TextAnnounced', IdsGrow',
         active' => ~dirty,
         ~dirty /\ ~typing' => /\ ~typing
                               /\ text' = text /\ filterState' = filterState
                               /\ userData' = userData
                               /\ navigation' \in {navigation, Root}
  PROVE  QInv'
<1>1. sent' = sent /\ dirty' = dirty /\ running' = running
  BY DEF Kept
<1>2. TypeOK'
  BY <1>1 DEF PageTypes, TypeOK, QInv
<1>3. CleanMeansCurrent'
  BY <1>1 DEF CleanMeansCurrent, Current, QInv
<1>4. ShownIsClean'
  BY <1>1 DEF ShownIsClean
<1>5. UserDataOfItsQuery'
  BY <1>1 DEF UserDataOfItsQuery, QInv
<1>6. QED
  BY <1>2, <1>3, <1>4, <1>5 DEF QInv

-----------------------------------------------------------------------------
(* setSearchQueryString(): the text is the new one, the ids go on counting *)
(* or begin anew, and either the shell was told or the timer runs.         *)
LEMMA ChangeTextOutcome ==
  ASSUME QInv, NEW t \in Texts, NEW a \in BOOLEAN, ChangeText(t, a)
  PROVE  /\ text' = t
         /\ typing' \in BOOLEAN /\ announced' \in Texts \cup {Null}
         /\ session' \in Sessions /\ queryId' \in 0 .. MaxQueryId
         /\ session' # 0 /\ text' # Null
         /\ TextAnnounced'
         /\ sent' = sent => IdsGrow'
         /\ ~a => typing' = typing
<1>1. t # Null
  BY TextsAssumption
<1>2. CASE t = text
  <2>1. /\ text' = text /\ session' = session /\ queryId' = queryId
        /\ typing' = typing /\ announced' = announced
    BY <1>2 DEF ChangeText, textVars, typingVars
  <2>2. session \in Sessions /\ session # 0
    BY <1>1, <1>2 DEF QInv, TypeOK, Sessions
  <2>3. QED
    BY <1>1, <1>2, <2>1, <2>2 DEF QInv, TypeOK, TextAnnounced, IdsGrow
<1>3. CASE t # text
  <2>1. /\ text' = t /\ NewIds(t) /\ queryId' <= MaxQueryId
        /\ typing' = (typing \/ a)
        /\ announced' = IF a THEN announced ELSE t
    BY <1>3 DEF ChangeText
  <2>2. /\ session' \in Sessions /\ queryId' \in 0 .. MaxQueryId
        /\ \/ session' = session /\ queryId' = queryId + 1
           \/ session' # session /\ (sent # Null => session' # sent.session)
    BY <2>1, NewIdsOutcome DEF QInv
  <2>3. ASSUME sent' = sent
        PROVE  IdsGrow'
    <3>1. CASE session' = session /\ queryId' = queryId + 1
      <4>1. sent # Null => sent.queryId \in Nat
        BY DEF QInv, TypeOK, Requests
      <4>2. queryId \in Nat
        BY DEF QInv, TypeOK
      <4>3. QED
        BY <2>3, <3>1, <4>1, <4>2 DEF QInv, IdsGrow
    <3>2. CASE session' # session /\ (sent # Null => session' # sent.session)
      BY <2>3, <3>2 DEF IdsGrow
    <3>3. QED
      BY <2>2, <3>1, <3>2
  <2>4. session' # 0
    BY <2>2 DEF Sessions
  <2>5. TextAnnounced'
    BY <2>1 DEF TextAnnounced
  <2>6. typing' \in BOOLEAN /\ announced' \in Texts \cup {Null}
    BY <2>1 DEF QInv, TypeOK
  <2>7. ~a => typing' = typing
    BY <2>1 DEF QInv, TypeOK
  <2>8. QED
    BY <1>1, <2>1, <2>2, <2>3, <2>4, <2>5, <2>6, <2>7
<1>4. QED
  BY <1>2, <1>3

(* A handler that leaves text, ids and timer alone keeps what depends on   *)
(* them only.                                                              *)
LEMMA SameText ==
  ASSUME QInv, UNCHANGED <<textVars, typingVars>>
  PROVE  /\ TextAnnounced' /\ (sent' = sent => IdsGrow')
         /\ text' = text /\ typing' = typing /\ announced' = announced
         /\ session' = session /\ queryId' = queryId
  BY DEF QInv, TextAnnounced, IdsGrow, textVars, typingVars

(* invalidateResults() after the page was changed.                         *)
LEMMA InvalidateInv ==
  ASSUME QInv, NEW p \in BOOLEAN, InvalidateResults(p), PageTypes, active' = active,
         DataOfText', TextAnnounced', sent' = sent => IdsGrow'
  PROVE  QInv'
<1>1. CASE Sent
  BY <1>1, SentInv
<1>2. CASE Marked /\ ~active
  BY <1>2, MarkedInv DEF Marked
<1>3. QED
  BY <1>1, <1>2, InvalidateOutcome

-----------------------------------------------------------------------------
LEMMA InitInv ==
  ASSUME Init
  PROVE  QInv
<1>1. TypeOK
  <2>1. /\ navigation \in Navigations /\ filterState \in States /\ shownState \in States
    BY DEF Init, Navigations, States
  <2>2. queryId \in 0 .. MaxQueryId /\ session \in Sessions \cup {0}
    BY QueryIdAssumption DEF Init
  <2>3. /\ active \in BOOLEAN /\ dirty \in BOOLEAN /\ firstBoot \in BOOLEAN
        /\ typing \in BOOLEAN /\ filtersOnPage \in BOOLEAN /\ filterTimer \in BOOLEAN
        /\ running \in BOOLEAN
    BY DEF Init
  <2>4. /\ text \in Texts \cup {Null} /\ announced \in Texts \cup {Null}
        /\ userData \in Texts \cup {Null} /\ sent \in Requests \cup {Null}
        /\ (session = 0) = (text = Null)
    BY DEF Init
  <2>5. QED
    BY <2>1, <2>2, <2>3, <2>4 DEF TypeOK
<1>2. CleanMeansCurrent /\ ShownIsClean /\ IdsGrow /\ DataOfText /\ UserDataOfItsQuery
      /\ TextAnnounced
  BY DEF Init, CleanMeansCurrent, ShownIsClean, IdsGrow, DataOfText, UserDataOfItsQuery,
         TextAnnounced
<1>3. QED
  BY <1>1, <1>2 DEF QInv

LEMMA SetSearchQueryInv ==
  ASSUME QInv, NEW t \in Texts, SetSearchQuery(t)
  PROVE  QInv'
<1> USE DEF SetSearchQuery
<1>1. active \in BOOLEAN
  BY DEF QInv, TypeOK
<1>2. /\ text' = t /\ typing' \in BOOLEAN /\ announced' \in Texts \cup {Null}
      /\ session' \in Sessions /\ queryId' \in 0 .. MaxQueryId
      /\ session' # 0 /\ text' # Null
      /\ TextAnnounced' /\ (sent' = sent => IdsGrow')
  BY <1>1, ChangeTextOutcome
<1>3. PageTypes /\ active' = active
  BY <1>2 DEF QInv, TypeOK, PageTypes, pageVars, filterVars
<1>4. DataOfText'
  BY DEF DataOfText
<1>5. CASE active
  <2>1. Kept
    BY <1>5 DEF Kept
  <2>2. typing' /\ ~dirty
    BY <1>5 DEF ChangeText, QInv, ShownIsClean
  <2>3. QED
    BY <1>2, <1>3, <1>4, <2>1, <2>2, KeptInv DEF Kept
<1>6. CASE ~active
  BY <1>2, <1>3, <1>4, <1>6, InvalidateInv
<1>7. QED
  BY <1>5, <1>6

LEMMA TypingFinishedInv ==
  ASSUME QInv, TypingFinished
  PROVE  QInv'
<1> USE DEF TypingFinished
<1>1. PageTypes /\ active' = active
  BY DEF QInv, TypeOK, PageTypes, pageVars, filterVars, textVars
<1>2. DataOfText' /\ TextAnnounced' /\ (sent' = sent => IdsGrow')
  BY DEF QInv, DataOfText, TextAnnounced, IdsGrow, textVars
<1>3. QED
  BY <1>1, <1>2, InvalidateInv

LEMMA SetActiveInv ==
  ASSUME QInv, NEW a \in BOOLEAN, SetActive(a)
  PROVE  QInv'
<1> USE DEF SetActive
<1>1. PageTypes
  BY DEF QInv, TypeOK, PageTypes, filterVars, textVars, typingVars
<1>2. DataOfText' /\ TextAnnounced' /\ (sent' = sent => IdsGrow')
  BY SameText DEF QInv, DataOfText
<1>3. CASE a /\ dirty
  BY <1>1, <1>2, <1>3, SentInv DEF Sent, Dispatch
<1>4. CASE ~(a /\ dirty)
  <2>1. Kept
    BY <1>4 DEF Kept
  <2>2. active' => ~dirty
    BY <1>4
  <2>3. /\ text' = text /\ filterState' = filterState /\ userData' = userData
        /\ navigation' = navigation /\ typing' = typing
    BY DEF textVars, typingVars
  <2>4. QED
    BY <1>1, <1>2, <2>1, <2>2, <2>3, KeptInv DEF Kept
<1>5. QED
  BY <1>3, <1>4

(* refresh() and scopeRegistryChanged() change nothing of the page.        *)
LEMMA RefreshInv ==
  ASSUME QInv, Refresh \/ ScopeRegistryChanged
  PROVE  QInv'
<1> USE DEF Refresh, ScopeRegistryChanged
<1>1. PageTypes /\ active' = active
  BY DEF QInv, TypeOK, PageTypes, filterVars, textVars, typingVars, pageVars
<1>2. DataOfText' /\ TextAnnounced' /\ (sent' = sent => IdsGrow')
  BY SameText DEF QInv, DataOfText
<1>3. QED
  BY <1>1, <1>2, InvalidateInv

LEMMA CreateLocationPromptFileInv ==
  ASSUME QInv, CreateLocationPromptFile
  PROVE  QInv'
<1> USE DEF CreateLocationPromptFile
<1>1. PageTypes
  BY DEF QInv, TypeOK, PageTypes, filterVars, textVars, typingVars
<1>2. DataOfText' /\ TextAnnounced' /\ (sent' = sent => IdsGrow')
  BY SameText DEF QInv, DataOfText
<1>3. Kept /\ active' = active
  BY DEF QInv, TypeOK, Kept
<1>4. /\ text' = text /\ filterState' = filterState /\ userData' = userData
      /\ navigation' = navigation /\ typing' = typing
  BY DEF textVars, typingVars
<1>5. QED
  BY <1>1, <1>2, <1>3, <1>4, KeptInv DEF Kept, QInv, ShownIsClean

LEMMA PrepopulateInv ==
  ASSUME QInv, NEW b \in BOOLEAN, Prepopulate(b)
  PROVE  QInv'
<1> USE DEF Prepopulate
<1>1. active' \in BOOLEAN
  BY DEF QInv, TypeOK
<1>2. <<>> \in Texts
  BY TextsAssumption
<1>3. /\ text' = <<>> /\ typing' \in BOOLEAN /\ announced' \in Texts \cup {Null}
      /\ session' \in Sessions /\ queryId' \in 0 .. MaxQueryId
      /\ session' # 0 /\ text' # Null /\ TextAnnounced'
  BY <1>1, <1>2, ChangeTextOutcome
<1>4. PageTypes
  BY <1>1, <1>2, <1>3 DEF QInv, TypeOK, PageTypes, filterVars
<1>5. DataOfText'
  BY <1>3 DEF QInv, DataOfText
<1>6. QED
  BY <1>3, <1>4, <1>5, SentInv DEF Sent, Dispatch

LEMMA ExecuteCannedQueryInv ==
  ASSUME QInv, NEW q \in [text : Texts, navigation : Navigations, filterState : States,
                          hasData : BOOLEAN],
         ExecuteCannedQuery(q)
  PROVE  QInv'
<1> USE DEF ExecuteCannedQuery
<1>1. active \in BOOLEAN /\ q.text \in Texts
  BY DEF QInv, TypeOK
<1>2. /\ text' = q.text /\ typing' \in BOOLEAN /\ announced' \in Texts \cup {Null}
      /\ session' \in Sessions /\ queryId' \in 0 .. MaxQueryId
      /\ session' # 0 /\ text' # Null
      /\ TextAnnounced' /\ (sent' = sent => IdsGrow')
  BY <1>1, ChangeTextOutcome
<1>3. PageTypes /\ active' = active
  BY <1>1, <1>2 DEF QInv, TypeOK, PageTypes, pageVars, filterVars
<1>4. DataOfText'
  BY <1>2 DEF DataOfText
<1>5. QED
  BY <1>2, <1>3, <1>4, InvalidateInv

LEMMA SetNavigationStateInv ==
  ASSUME QInv, NEW n \in Navigations, SetNavigationState(n)
  PROVE  QInv'
<1> DEFINE q == [text |-> IF text = Null THEN <<>> ELSE text, navigation |-> n,
                 filterState |-> filterState, hasData |-> FALSE]
<1>1. q \in [text : Texts, navigation : Navigations, filterState : States, hasData : BOOLEAN]
  BY TextsAssumption DEF QInv, TypeOK
<1>2. ExecuteCannedQuery(q)
  BY DEF SetNavigationState
<1>3. QED
  BY <1>1, <1>2, ExecuteCannedQueryInv

(* The filters on the page change before the Scope hears of it.            *)
LEMMA ShownFiltersInv ==
  ASSUME QInv, ResetFilters \/ \E f \in States : ChooseFilter(f)
  PROVE  QInv'
<1> USE DEF ResetFilters, ChooseFilter
<1>1. /\ shownState' \in States /\ filterTimer' \in BOOLEAN
      /\ UNCHANGED <<dirty, pageVars, typingVars, textVars, navigation, filterState, userData,
                     filtersOnPage, sent, running>>
  BY DEF QInv, TypeOK, States
<1>2. PageTypes /\ active' = active
  BY <1>1 DEF QInv, TypeOK, PageTypes, textVars, typingVars, pageVars
<1>3. DataOfText' /\ TextAnnounced' /\ (sent' = sent => IdsGrow')
  BY <1>1, SameText DEF QInv, DataOfText
<1>4. Kept
  BY <1>1 DEF Kept
<1>5. /\ text' = text /\ filterState' = filterState /\ userData' = userData
      /\ navigation' = navigation /\ typing' = typing
  BY <1>1 DEF textVars, typingVars
<1>6. QED
  BY <1>2, <1>3, <1>4, <1>5, KeptInv DEF Kept, QInv, ShownIsClean

LEMMA FilterStateChangedInv ==
  ASSUME QInv, FilterStateChanged
  PROVE  QInv'
<1> USE DEF FilterStateChanged
<1>1. PageTypes /\ active' = active
  BY DEF QInv, TypeOK, PageTypes, pageVars, textVars, typingVars
<1>2. DataOfText' /\ TextAnnounced' /\ (sent' = sent => IdsGrow')
  BY SameText DEF QInv, DataOfText
<1>3. QED
  BY <1>1, <1>2, InvalidateInv

LEMMA ResetPrimaryNavigationTagInv ==
  ASSUME QInv, ResetPrimaryNavigationTag
  PROVE  QInv'
<1> USE DEF ResetPrimaryNavigationTag
<1>1. PageTypes /\ active' = active
  BY DEF QInv, TypeOK, PageTypes, pageVars, textVars, States, Navigations
<1>2. DataOfText' /\ (sent' = sent => IdsGrow')
  BY DEF QInv, DataOfText, IdsGrow, textVars
<1>3. TextAnnounced'
  BY DEF QInv, TextAnnounced, textVars
<1>4. QED
  BY <1>1, <1>2, <1>3, InvalidateInv

(* A flush may only move the page to the root department.                  *)
LEMMA FlushUpdatesInv ==
  ASSUME QInv, NEW fin \in BOOLEAN, NEW d \in BOOLEAN, NEW f \in BOOLEAN,
         FlushUpdates(fin, d, f)
  PROVE  QInv'
<1> USE DEF FlushUpdates
<1>1. /\ UNCHANGED <<dirty, pageVars, typingVars, textVars, filterState, userData, sent>>
      /\ navigation' \in {navigation, Root}
      /\ running' \in BOOLEAN
  BY DEF QInv, TypeOK
<1>2. PageTypes
  BY DEF QInv, TypeOK, PageTypes, pageVars, textVars, typingVars, States, Navigations
<1>3. DataOfText' /\ TextAnnounced' /\ IdsGrow'
  BY <1>1, SameText DEF QInv, DataOfText
<1>4. TypeOK'
  BY <1>1, <1>2 DEF PageTypes, TypeOK, QInv
<1>5. CleanMeansCurrent'
  BY <1>1 DEF QInv, CleanMeansCurrent, Current, textVars, typingVars
<1>6. ShownIsClean' /\ UserDataOfItsQuery'
  BY <1>1 DEF QInv, ShownIsClean, UserDataOfItsQuery, pageVars
<1>7. QED
  BY <1>3, <1>4, <1>5, <1>6 DEF QInv

LEMMA StutterInv ==
  ASSUME QInv, UNCHANGED vars
  PROVE  QInv'
  BY DEF QInv, vars, pageVars, typingVars, textVars, filterVars, TypeOK, CleanMeansCurrent,
         Current, ShownIsClean, IdsGrow, DataOfText, UserDataOfItsQuery, TextAnnounced

LEMMA NextInv ==
  ASSUME QInv, [Next]_vars
  PROVE  QInv'
<1>1. CASE \E t \in Texts : SetSearchQuery(t)
  BY <1>1, SetSearchQueryInv
<1>2. CASE TypingFinished
  BY <1>2, TypingFinishedInv
<1>3. CASE \E a \in BOOLEAN : SetActive(a)
  BY <1>3, SetActiveInv
<1>4. CASE Refresh \/ ScopeRegistryChanged
  BY <1>4, RefreshInv
<1>5. CASE CreateLocationPromptFile
  BY <1>5, CreateLocationPromptFileInv
<1>6. CASE \E b \in BOOLEAN : Prepopulate(b)
  BY <1>6, PrepopulateInv
<1>7. CASE \E q \in CannedQueries : ExecuteCannedQuery(q)
  BY <1>7, ExecuteCannedQueryInv, CannedQueriesAssumption
<1>8. CASE \E n \in Navigations : SetNavigationState(n)
  BY <1>8, SetNavigationStateInv
<1>9. CASE ResetFilters \/ \E f \in States : ChooseFilter(f)
  BY <1>9, ShownFiltersInv
<1>10. CASE FilterStateChanged
  BY <1>10, FilterStateChangedInv
<1>11. CASE ResetPrimaryNavigationTag
  BY <1>11, ResetPrimaryNavigationTagInv
<1>12. CASE \E fin, d, f \in BOOLEAN : FlushUpdates(fin, d, f)
  BY <1>12, FlushUpdatesInv
<1>13. CASE UNCHANGED vars
  BY <1>13, StutterInv
<1>14. QED
  BY <1>1, <1>2, <1>3, <1>4, <1>5, <1>6, <1>7, <1>8, <1>9, <1>10, <1>11, <1>12, <1>13 DEF Next

-----------------------------------------------------------------------------
(* Whatever the user and the shell do, the inductive invariant holds: the  *)
(* results of a page are those of its query or marked dirty, ids grow      *)
(* within a session, and user data keeps to its text.                      *)
THEOREM Inductive == Spec => []QInv
  BY InitInv, NextInv, PTL DEF Spec

(* The state of a Scope has its types, and there is a session id exactly   *)
(* when a text was set (scope.cpp:1094-1117).                              *)
THEOREM Types == Spec => []TypeOK
<1>1. QInv => TypeOK
  BY DEF QInv
<1>2. QED
  BY <1>1, Inductive, PTL

(* Results not marked dirty, on a page not waiting for the user to stop    *)
(* typing, are those of the page's own query (scope.cpp:303-331,           *)
(* 1320-1355).                                                             *)
THEOREM CleanResultsAreCurrent == Spec => []CleanMeansCurrent
<1>1. QInv => CleanMeansCurrent
  BY DEF QInv
<1>2. QED
  BY <1>1, Inductive, PTL

(* A page that is shown never has dirty results (scope.cpp:1145-1164,      *)
(* 1320-1338).                                                             *)
THEOREM ShownPageIsClean == Spec => []ShownIsClean
<1>1. QInv => ShownIsClean
  BY DEF QInv
<1>2. QED
  BY <1>1, Inductive, PTL

(* A pair of session id and query id never stands for two texts            *)
(* (scope.cpp:1094-1117).                                                  *)
THEOREM IdsStandForOneText == Spec => []IdsTellTexts
<1>1. QInv => IdsTellTexts
  BY DEF QInv, IdsGrow, IdsTellTexts
<1>2. QED
  BY <1>1, Inductive, PTL

(* User data goes out only with the text of its canned query               *)
(* (scope.cpp:274-286, 1084-1092).                                         *)
THEOREM UserDataKeepsToItsText == Spec => []UserDataOfItsQuery
<1>1. QInv => UserDataOfItsQuery
  BY DEF QInv
<1>2. QED
  BY <1>1, Inductive, PTL

(* The shell was told of the text or will be when the typing timer fires   *)
(* (scope.cpp:352-357, 1118-1127, 1348-1354).                              *)
THEOREM ShellHearsOfText == Spec => []TextAnnounced
<1>1. QInv => TextAnnounced
  BY DEF QInv
<1>2. QED
  BY <1>1, Inductive, PTL

(* A page nobody sees sends nothing after its first search, once the       *)
(* location prompt was answered (scope.cpp:1320-1338).                     *)
THEOREM HiddenPageIsQuiet == Spec => HiddenIsQuiet
<1> DEFINE Quiet == ~active /\ ~active' /\ ~firstBoot /\ sent # Null
                      => sent' = sent /\ (running' => running)
<1>1. ASSUME QInv, [Next]_vars, ~active, ~active', ~firstBoot, sent # Null
      PROVE  sent' = sent /\ (running' => running)
  <2>1. ASSUME NEW p \in BOOLEAN, InvalidateResults(p)
        PROVE  sent' = sent /\ (running' => running)
    BY <1>1, <2>1, InvalidateOutcome DEF Marked
  <2>2. CASE UNCHANGED <<sent, running>>
    BY <2>2
  <2>3. CASE \E t \in Texts : SetSearchQuery(t)
    BY <1>1, <2>1, <2>3 DEF SetSearchQuery
  <2>4. CASE TypingFinished \/ Refresh \/ ScopeRegistryChanged \/ FilterStateChanged
             \/ ResetPrimaryNavigationTag
    BY <2>1, <2>4
       DEF TypingFinished, Refresh, ScopeRegistryChanged, FilterStateChanged,
           ResetPrimaryNavigationTag
  <2>5. CASE \E a \in BOOLEAN : SetActive(a)
    BY <1>1, <2>5 DEF SetActive
  <2>6. CASE \E b \in BOOLEAN : Prepopulate(b)
    BY <1>1, <2>6 DEF Prepopulate
  <2>7. CASE \/ \E q \in CannedQueries : ExecuteCannedQuery(q)
             \/ \E n \in Navigations : SetNavigationState(n)
    BY <2>1, <2>7 DEF ExecuteCannedQuery, SetNavigationState
  <2>8. CASE CreateLocationPromptFile
    BY <2>8 DEF CreateLocationPromptFile
  <2>9. CASE ResetFilters
    BY <2>9 DEF ResetFilters
  <2>10. CASE \E f \in States : ChooseFilter(f)
    BY <2>10 DEF ChooseFilter
  <2>11. CASE \E fin, d, f \in BOOLEAN : FlushUpdates(fin, d, f)
    BY <2>11 DEF FlushUpdates
  <2>12. CASE UNCHANGED vars
    BY <2>12 DEF vars
  <2>13. QED
    BY <1>1, <2>3, <2>4, <2>5, <2>6, <2>7, <2>8, <2>9, <2>10, <2>11, <2>12 DEF Next
<1>2. QInv /\ [Next]_vars => [Quiet]_vars
  BY <1>1
<1>3. QED
  BY <1>2, Inductive, PTL DEF Spec, HiddenIsQuiet

-----------------------------------------------------------------------------
(* A page that is driven by a test (ResultsView).  The handlers keep QInv  *)
(* as before; what the calls know of the page is carried by the steps in   *)
(* which they wait.                                                        *)

SearchedText == sent # Null /\ sent.text = text

(* A first signal can only be that of a search that began in the wait, and *)
(* from then on the last search sent is one for the text of the page.      *)
CallHolds ==
  /\ step = "first" /\ ~seen => ~running
  /\ step \in {"first", "settings"} /\ seen => SearchedText
  /\ step = "last" /\ call.op # "activate" => SearchedText
  /\ step \in {"finish", "finishAgain"} => SearchedText

StepOfCall ==
  /\ step = "starting" => call.op = "activate"
  /\ step = "first" => call.op \in {"setQuery", "change"}
  /\ step = "last" => call.op \in {"activate", "setQuery", "refresh", "change"}
  /\ step = "settings" => call.op = "set"
  /\ step \in {"finish", "finishAgain"} => call.op \in {"browse", "set"}

(* What a call asked for stays on the page while it waits.                 *)
Asked ==
  /\ step \in {"first", "last"} /\ call.op = "setQuery" => text = call.asks
  /\ step \in {"finish", "finishAgain"} /\ call.op = "browse" =>
       navigation \in {call.asks, Root} /\ sent.navigation \in {call.asks, Root}

TestInv ==
  /\ ViewTypeOK /\ AnswersAreFinished /\ WaitsForSomething
  /\ CallHolds /\ StepOfCall /\ Asked

Outcomes == {"none", "ok", "thrown", "failed"}

(* A call that returns without having looked leaves nothing to show.       *)
LEMMA EndsUnlooked ==
  ASSUME NEW how \in Outcomes, Ends(how, FALSE)
  PROVE  TestInv'
<1>1. step' = "idle" /\ seen' = FALSE /\ signals' = 0 /\ outcome' = how /\ checked' = FALSE
  BY DEF Ends
<1>2. ViewTypeOK'
  <2>1. signals' \in 0 .. 2
    BY <1>1
  <2>2. step' \in Steps /\ seen' \in BOOLEAN /\ checked' \in BOOLEAN /\ outcome' \in Outcomes
    BY <1>1, Zenon DEF Steps
  <2>3. step' \in {"idle", "away"}
    BY <1>1
  <2>4. QED
    BY <2>1, <2>2, <2>3 DEF ViewTypeOK, Outcomes
<1>3. AnswersAreFinished' /\ WaitsForSomething' /\ CallHolds' /\ StepOfCall' /\ Asked'
  BY <1>1 DEF AnswersAreFinished, WaitsForSomething, CallHolds, StepOfCall, Asked
<1>4. QED
  BY <1>2, <1>3 DEF TestInv

(* One that looked must have seen what it asked for.                       *)
LEMMA EndsLooked ==
  ASSUME Ends("ok", TRUE), ~running', SearchedText',
         call'.op = "setQuery" => text' = call'.asks,
         call'.op = "browse" => sent'.navigation \in {call'.asks, Root}
  PROVE  TestInv'
<1>1. step' = "idle" /\ seen' = FALSE /\ signals' = 0 /\ outcome' = "ok" /\ checked' = TRUE
  BY DEF Ends
<1>2. ViewTypeOK'
  <2>1. signals' \in 0 .. 2
    BY <1>1
  <2>2. step' \in Steps /\ seen' \in BOOLEAN /\ checked' \in BOOLEAN /\ outcome' \in Outcomes
    BY <1>1, Zenon DEF Steps, Outcomes
  <2>3. step' \in {"idle", "away"}
    BY <1>1
  <2>4. QED
    BY <2>1, <2>2, <2>3 DEF ViewTypeOK, Outcomes
<1>3. WaitsForSomething' /\ CallHolds' /\ StepOfCall' /\ Asked'
  BY <1>1 DEF WaitsForSomething, CallHolds, StepOfCall, Asked
<1>4. AnswersAreFinished'
  BY DEF AnswersAreFinished, SearchedText
<1>5. QED
  BY <1>2, <1>3, <1>4 DEF TestInv

(* A wait that begins has seen nothing; each kind has its needs.           *)
Waiting(s) ==
  /\ step' = s /\ seen' = FALSE /\ signals' \in 0 .. 2
  /\ outcome' \in Outcomes /\ checked' \in BOOLEAN

LEMMA WaitBegins ==
  ASSUME NEW s \in Steps \ {"idle"}, Waiting(s), s # "away" => active',
         StepOfCall', Asked',
         s \in {"last", "finish"} /\ call'.op # "change" => running',
         s = "first" => ~running',
         s = "first" /\ call'.op = "setQuery" => typing',
         s = "last" /\ call'.op # "activate" => SearchedText',
         s \in {"finish", "finishAgain"} => SearchedText'
  PROVE  TestInv'
<1>1. step' = s /\ seen' = FALSE
  BY DEF Waiting
<1>2. ViewTypeOK'
  BY DEF ViewTypeOK, Waiting, Outcomes
<1>3. AnswersAreFinished' /\ WaitsForSomething' /\ CallHolds'
  BY <1>1 DEF AnswersAreFinished, WaitsForSomething, CallHolds
<1>4. QED
  BY <1>2, <1>3 DEF TestInv

LEMMA WaitsInWaits ==
  ASSUME NEW s, WaitsIn(s)
  PROVE  Waiting(s)
<1>1. signals' \in 0 .. 2
  BY DEF WaitsIn
<1>2. step' = s /\ seen' = FALSE /\ outcome' \in Outcomes /\ checked' \in BOOLEAN
  BY Zenon DEF WaitsIn, Outcomes
<1>3. QED
  BY <1>1, <1>2 DEF Waiting

LEMMA GoesOnWaits ==
  ASSUME TestInv, NEW s, GoesOn(s)
  PROVE  Waiting(s)
  BY DEF GoesOn, Waiting, Outcomes, TestInv, ViewTypeOK

-----------------------------------------------------------------------------
(* What the handlers do to the page while a test waits.                    *)

LEMMA SentSearches ==
  ASSUME TypeOK', Sent
  PROVE  SearchedText' /\ sent'.navigation = navigation' /\ sent'.text = text'
<1>1. sent' = Request'
  BY DEF Sent
<1>2. sent' \in Requests
  BY <1>1 DEF TypeOK, Request, Requests
<1>3. QED
  BY <1>1, <1>2, NullAssumption DEF SearchedText, Request

LEMMA ShownSearches ==
  ASSUME QInv', active, TypingFinished \/ Refresh \/ ScopeRegistryChanged
  PROVE  /\ Sent /\ SearchedText' /\ sent'.navigation = navigation'
         /\ text' = text /\ navigation' = navigation /\ active' = active
<1>1. Sent
  BY InvalidateOutcome DEF TypingFinished, Refresh, ScopeRegistryChanged
<1>2. text' = text /\ navigation' = navigation /\ active' = active
  BY DEF TypingFinished, Refresh, ScopeRegistryChanged, pageVars, textVars
<1>3. QED
  BY <1>1, <1>2, SentSearches DEF QInv

(* A dispatch is silent only if one search takes over from another.        *)
LEMMA SilentDispatch ==
  ASSUME running \in BOOLEAN, running' \in BOOLEAN
  PROVE  DispatchSignals \in 0 .. 2 /\ (DispatchSignals = 0 => running /\ running')
<1>1. CASE running # running'
  BY <1>1 DEF DispatchSignals
<1>2. CASE running = running'
  BY <1>2 DEF DispatchSignals
<1>3. QED
  BY <1>1, <1>2

LEMMA EmitsCounts ==
  ASSUME TestInv, NEW n \in 0 .. 2, Emits(n)
  PROVE  /\ signals' \in 0 .. 2 /\ seen' \in BOOLEAN
         /\ seen => seen'
         /\ seen' => seen \/ n # 0
         /\ step \in SearchSteps /\ ~seen' => ~seen /\ n = 0
         /\ step \notin SearchSteps => seen' = seen
         /\ call' = call /\ step' = step /\ outcome' = outcome /\ checked' = checked
<1>1. signals \in 0 .. 2 /\ seen \in BOOLEAN
  BY DEF TestInv, ViewTypeOK
<1>2. Count(n) \in 0 .. 2
  BY <1>1 DEF Count
<1>3. seen' = (seen \/ (step \in SearchSteps /\ n > 0))
  BY DEF Emits
<1>4. seen' \in BOOLEAN /\ (seen => seen') /\ (step \notin SearchSteps => seen' = seen)
  BY <1>1, <1>3, Zenon
<1>5. step \in SearchSteps /\ ~seen' => ~seen /\ ~(n > 0)
  BY <1>3, Zenon
<1>6. seen' => seen \/ n > 0
  BY <1>3, Zenon
<1>7. QED
  BY <1>2, <1>4, <1>5, <1>6 DEF Emits

(* An event of the page, seen by a test or not.                            *)
LEMMA SearchEventTest ==
  ASSUME QInv, QInv', TestInv, step # "idle", active,
         TypingFinished \/ Refresh \/ ScopeRegistryChanged, Emits(DispatchSignals)
  PROVE  TestInv'
<1>1. running \in BOOLEAN /\ running' \in BOOLEAN
  BY DEF QInv, TypeOK
<1>2. DispatchSignals \in 0 .. 2 /\ (DispatchSignals = 0 => running /\ running')
  BY <1>1, SilentDispatch
<1>3. PICK n \in 0 .. 2 : n = DispatchSignals
  BY <1>2
<1>4. /\ signals' \in 0 .. 2 /\ seen' \in BOOLEAN
      /\ step \in SearchSteps /\ ~seen' => ~seen /\ running /\ running'
      /\ call' = call /\ step' = step /\ outcome' = outcome /\ checked' = checked
  BY <1>2, <1>3, EmitsCounts
<1>5. /\ SearchedText' /\ sent'.navigation = navigation'
      /\ text' = text /\ navigation' = navigation /\ active' = active
  BY ShownSearches
<1>6. ViewTypeOK'
  BY <1>4, <1>5 DEF TestInv, ViewTypeOK
<1>7. AnswersAreFinished'
  BY <1>4 DEF AnswersAreFinished
<1>8. WaitsForSomething'
  BY <1>4, Zenon DEF WaitsForSomething, SearchSteps
<1>9. CallHolds'
  <2>1. step = "first" => seen'
    BY <1>4, Zenon DEF TestInv, CallHolds, SearchSteps
  <2>2. QED
    BY <1>4, <1>5, <2>1 DEF CallHolds
<1>10. StepOfCall' /\ Asked'
  BY <1>4, <1>5 DEF TestInv, StepOfCall, Asked
<1>11. QED
  BY <1>6, <1>7, <1>8, <1>9, <1>10 DEF TestInv

(* One that sends nothing: a flush, which may end the search, and others.  *)
LEMMA OtherEventTest ==
  ASSUME QInv, QInv', TestInv, step # "idle", NEW n \in 0 .. 2, Emits(n),
         text' = text, sent' = sent, active' = active, typing' = typing,
         navigation' \in {navigation, Root},
         n # 0 => running, n = 0 => running' = running
  PROVE  TestInv'
<1>1. /\ signals' \in 0 .. 2 /\ seen' \in BOOLEAN
      /\ (seen => seen') /\ (seen' => seen \/ n # 0)
      /\ step \in SearchSteps /\ ~seen' => ~seen /\ n = 0
      /\ step \notin SearchSteps => seen' = seen
      /\ call' = call /\ step' = step /\ outcome' = outcome /\ checked' = checked
  BY EmitsCounts
<1>2. running \in BOOLEAN /\ running' \in BOOLEAN
  BY DEF QInv, TypeOK
<1>3. ViewTypeOK'
  BY <1>1 DEF TestInv, ViewTypeOK
<1>4. AnswersAreFinished'
  BY <1>1 DEF AnswersAreFinished
<1>5. step \in SearchSteps /\ ~seen' => ~seen /\ running' = running
  BY <1>1
<1>6. WaitsForSomething'
  BY <1>1, <1>5, Zenon DEF TestInv, WaitsForSomething, SearchSteps
<1>7. CallHolds'
  <2>1. SearchedText => SearchedText'
    BY DEF SearchedText
  <2>2. step = "first" /\ ~seen' => ~running'
    BY <1>5, Zenon DEF TestInv, CallHolds, SearchSteps
  <2>3. step \in {"first", "settings"} /\ seen' => SearchedText
    <3>1. step = "first" /\ seen' => seen
      BY <1>1 DEF TestInv, CallHolds
    <3>2. step = "settings" /\ seen' => seen
      BY <1>1, Zenon DEF SearchSteps
    <3>3. QED
      BY <3>1, <3>2 DEF TestInv, CallHolds
  <2>4. QED
    BY <1>1, <2>1, <2>2, <2>3 DEF TestInv, CallHolds
<1>8. StepOfCall' /\ Asked'
  BY <1>1 DEF TestInv, StepOfCall, Asked
<1>9. QED
  BY <1>3, <1>4, <1>6, <1>7, <1>8 DEF TestInv

(* A page that is not shown has no test waiting for its searches.          *)
LEMMA AwayEventTest ==
  ASSUME TestInv, ~active, step # "idle", Emits(0)
  PROVE  TestInv'
<1>1. step = "away"
  BY DEF TestInv, ViewTypeOK
<1>2. PICK n \in 0 .. 2 : n = 0
  OBVIOUS
<1>3. /\ signals' \in 0 .. 2 /\ seen' \in BOOLEAN
      /\ call' = call /\ step' = step /\ outcome' = outcome /\ checked' = checked
  BY <1>2, EmitsCounts
<1>4. ViewTypeOK'
  BY <1>1, <1>3 DEF TestInv, ViewTypeOK
<1>5. AnswersAreFinished' /\ WaitsForSomething' /\ CallHolds' /\ StepOfCall' /\ Asked'
  BY <1>1, <1>3 DEF AnswersAreFinished, WaitsForSomething, CallHolds, StepOfCall, Asked
<1>6. QED
  BY <1>4, <1>5 DEF TestInv

LEMMA PageEventTest ==
  ASSUME QInv, QInv', TestInv, PageEvent
  PROVE  TestInv'
<1>1. step # "idle"
  BY DEF PageEvent
<1>2. CASE /\ TypingFinished \/ Refresh \/ ScopeRegistryChanged
           /\ Emits(IF active THEN DispatchSignals ELSE 0)
  <2>1. CASE active
    BY <1>1, <1>2, <2>1, SearchEventTest
  <2>2. CASE ~active
    BY <1>1, <1>2, <2>2, AwayEventTest
  <2>3. QED
    BY <2>1, <2>2
<1>3. ASSUME NEW fin \in BOOLEAN, NEW d \in BOOLEAN, NEW f \in BOOLEAN,
             FlushUpdates(fin, d, f), Emits(IF running' THEN 0 ELSE 1)
      PROVE  TestInv'
  <2>1. /\ text' = text /\ sent' = sent /\ active' = active /\ typing' = typing
        /\ navigation' \in {navigation, Root} /\ running
    BY <1>3 DEF FlushUpdates, textVars, pageVars, typingVars
  <2>2. PICK n \in 0 .. 2 : n = IF running' THEN 0 ELSE 1
    OBVIOUS
  <2>3. n = 0 => running'
    BY <2>2
  <2>4. running \in BOOLEAN /\ running' \in BOOLEAN
    BY DEF QInv, TypeOK
  <2>5. QED
    BY <1>1, <1>3, <2>1, <2>2, <2>3, <2>4, OtherEventTest
<1>4. CASE CreateLocationPromptFile /\ Emits(0)
  <2>1. /\ text' = text /\ sent' = sent /\ active' = active /\ typing' = typing
        /\ navigation' = navigation /\ running' = running
    BY <1>4 DEF CreateLocationPromptFile, textVars, typingVars
  <2>2. PICK n \in 0 .. 2 : n = 0
    OBVIOUS
  <2>3. QED
    BY <1>1, <1>4, <2>1, <2>2, OtherEventTest
<1>5. CASE ~active /\ Emits(0)
  BY <1>1, <1>5, AwayEventTest
<1>6. QED
  BY <1>2, <1>3, <1>4, <1>5 DEF PageEvent

LEMMA SettingWrittenTest ==
  ASSUME QInv, QInv', TestInv, SettingWritten
  PROVE  TestInv'
<1>1. step = "settings" /\ seen' = TRUE /\ Refresh
      /\ call' = call /\ step' = step /\ outcome' = outcome /\ checked' = checked
  BY DEF SettingWritten
<1>2. active
  BY <1>1 DEF TestInv, ViewTypeOK
<1>3. SearchedText' /\ active' = active
  BY <1>1, <1>2, ShownSearches
<1>4. signals' \in 0 .. 2
  <2>1. running \in BOOLEAN /\ running' \in BOOLEAN /\ signals \in 0 .. 2
    BY DEF QInv, TypeOK, TestInv, ViewTypeOK
  <2>2. DispatchSignals \in 0 .. 2
    BY <2>1, SilentDispatch
  <2>3. signals' = Count(DispatchSignals)
    BY DEF SettingWritten
  <2>4. QED
    BY <2>1, <2>2, <2>3 DEF Count
<1>5. ViewTypeOK'
  BY <1>1, <1>2, <1>3, <1>4 DEF TestInv, ViewTypeOK
<1>6. AnswersAreFinished' /\ WaitsForSomething' /\ CallHolds'
  BY <1>1, <1>3 DEF AnswersAreFinished, WaitsForSomething, CallHolds
<1>7. StepOfCall' /\ Asked'
  BY <1>1 DEF TestInv, StepOfCall, Asked
<1>8. QED
  BY <1>5, <1>6, <1>7 DEF TestInv

LEMMA ModelLoadedTest ==
  ASSUME TestInv, ModelLoaded
  PROVE  TestInv'
<1>1. /\ step \in {"loading", "preview"} /\ seen' = TRUE
      /\ call' = call /\ step' = step /\ signals' = signals /\ outcome' = outcome
      /\ checked' = checked /\ active' = active
  BY DEF ModelLoaded, vars, pageVars
<1>2. ViewTypeOK'
  BY <1>1 DEF TestInv, ViewTypeOK
<1>3. AnswersAreFinished' /\ WaitsForSomething' /\ CallHolds' /\ StepOfCall' /\ Asked'
  BY <1>1 DEF AnswersAreFinished, WaitsForSomething, CallHolds, StepOfCall, Asked
<1>4. QED
  BY <1>2, <1>3 DEF TestInv

-----------------------------------------------------------------------------
(* How calls begin.                                                        *)

LEMMA ActivateTest ==
  ASSUME QInv, QInv', SetActiveScope
  PROVE  TestInv'
<1>1. call'.op = "activate"
  BY DEF SetActiveScope, Begins
<1>2. active'
  <2>1. CASE active
    BY <2>1 DEF SetActiveScope, SetSearchQuery, vars, pageVars
  <2>2. CASE ~active
    BY <2>2 DEF SetActiveScope, SetActive
  <2>3. QED
    BY <2>1, <2>2
<1>3. PICK s : WaitsIn(s) /\ s = IF running' THEN "last" ELSE "starting"
  BY DEF SetActiveScope
<1>4. s \in Steps \ {"idle"} /\ s \in {"last", "starting"} /\ (s = "last" => running')
  BY <1>3 DEF Steps, SearchSteps
<1>5. Waiting(s) /\ step' = s
  BY <1>3, WaitsInWaits DEF WaitsIn
<1>6. StepOfCall' /\ Asked'
  BY <1>1, <1>4, <1>5 DEF StepOfCall, Asked
<1>7. QED
  BY <1>1, <1>2, <1>4, <1>5, <1>6, WaitBegins

(* A wait in which nothing is claimed of the page.                         *)
LEMMA PlainWait ==
  ASSUME NEW s, s \in {"away", "settings", "loading", "activated", "preview"}, Waiting(s),
         s # "away" => active', s = "settings" => call'.op = "set"
  PROVE  TestInv'
<1>1. s \in Steps \ {"idle"} /\ step' = s
  BY DEF Steps, Waiting
<1>2. StepOfCall' /\ Asked'
  BY <1>1 DEF StepOfCall, Asked
<1>3. QED
  BY <1>1, <1>2, WaitBegins

LEMMA LeaveTest ==
  ASSUME SetOtherScope \/ OtherScopeSearched
  PROVE  TestInv'
<1>1. CASE SetOtherScope
  <2>1. PICK s : s = "away"
    OBVIOUS
  <2>2. Waiting(s)
    BY <1>1, <2>1, WaitsInWaits DEF SetOtherScope
  <2>3. QED
    BY <2>1, <2>2, PlainWait
<1>2. CASE OtherScopeSearched
  <2>1. PICK how \in Outcomes : how = "none"
    BY DEF Outcomes
  <2>2. QED
    BY <1>2, <2>1, EndsUnlooked DEF OtherScopeSearched
<1>3. QED
  BY <1>1, <1>2

(* A handler of an active page that is never away.                         *)
LEMMA BegunShown ==
  ASSUME NEW op, NEW asks, op # "activate", Begins(op, asks)
  PROVE  active /\ step = "idle" /\ call'.op = op /\ call'.asks = asks
  BY DEF Begins

LEMMA ThrownEnds ==
  ASSUME Ends("thrown", FALSE) \/ Ends("none", FALSE) \/ Ends("ok", FALSE) \/ Ends("failed", FALSE)
  PROVE  TestInv'
<1>1. PICK how \in Outcomes : Ends(how, FALSE)
  BY DEF Outcomes
<1>2. QED
  BY <1>1, EndsUnlooked

LEMMA SetQueryTest ==
  ASSUME QInv, QInv', NEW t \in Texts, SetQuery(t)
  PROVE  TestInv'
<1>1. active /\ call'.op = "setQuery" /\ call'.asks = t
  BY DEF SetQuery, Begins
<1>2. CASE t = text \/ running
  BY <1>2, ThrownEnds DEF SetQuery
<1>3. CASE t # text /\ ~running
  <2>1. SetSearchQuery(t) /\ WaitsIn("first")
    BY <1>3 DEF SetQuery
  <2>2. text' = t /\ typing' /\ active' /\ ~running'
    BY <1>1, <1>3, <2>1 DEF SetSearchQuery, ChangeText, pageVars
  <2>3. PICK s : s = "first"
    OBVIOUS
  <2>4. Waiting(s) /\ step' = s /\ s \in Steps \ {"idle"}
    BY <2>1, <2>3, WaitsInWaits DEF WaitsIn, Steps, SearchSteps
  <2>5. StepOfCall' /\ Asked'
    BY <1>1, <2>2, <2>3, <2>4 DEF StepOfCall, Asked
  <2>6. QED
    BY <2>2, <2>3, <2>4, <2>5, WaitBegins
<1>4. QED
  BY <1>2, <1>3

LEMMA ForceRefreshTest ==
  ASSUME QInv, QInv', ForceRefresh
  PROVE  TestInv'
<1>1. active /\ call'.op = "refresh"
  BY DEF ForceRefresh, Begins
<1>2. CASE running
  BY <1>2, ThrownEnds DEF ForceRefresh
<1>3. CASE ~running
  <2>1. Refresh /\ IF running' THEN WaitsIn("last") ELSE Ends("ok", TRUE)
    BY <1>3 DEF ForceRefresh
  <2>2. SearchedText' /\ active'
    BY <1>1, <2>1, ShownSearches
  <2>3. CASE running'
    <3>1. PICK s : s = "last"
      OBVIOUS
    <3>2. Waiting(s) /\ step' = s /\ s \in Steps \ {"idle"}
      BY <2>1, <2>3, <3>1, WaitsInWaits DEF WaitsIn, Steps, SearchSteps
    <3>3. StepOfCall' /\ Asked'
      BY <1>1, <3>1, <3>2 DEF StepOfCall, Asked
    <3>4. QED
      BY <2>2, <2>3, <3>1, <3>2, <3>3, WaitBegins
  <2>4. CASE ~running'
    BY <1>1, <2>1, <2>2, <2>4, EndsLooked
  <2>5. QED
    BY <2>3, <2>4
<1>4. QED
  BY <1>2, <1>3

LEMMA WaitForResultsChangeTest ==
  ASSUME WaitForResultsChange
  PROVE  TestInv'
<1>1. active' /\ call'.op = "change" /\ running' = running
  BY DEF WaitForResultsChange, Begins, vars, pageVars
<1>2. CASE running
  BY <1>2, ThrownEnds DEF WaitForResultsChange
<1>3. CASE ~running
  <2>1. PICK s : s = "first"
    OBVIOUS
  <2>2. Waiting(s) /\ step' = s /\ s \in Steps \ {"idle"}
    BY <1>3, <2>1, WaitsInWaits DEF WaitForResultsChange, WaitsIn, Steps, SearchSteps
  <2>3. StepOfCall' /\ Asked'
    BY <1>1, <2>1, <2>2 DEF StepOfCall, Asked
  <2>4. QED
    BY <1>1, <1>3, <2>1, <2>2, <2>3, WaitBegins
<1>4. QED
  BY <1>2, <1>3

LEMMA NavigationSearches ==
  ASSUME QInv', active, NEW n, SetNavigationState(n)
  PROVE  /\ active' /\ navigation' = n
         /\ SearchedText' /\ sent'.navigation = n
<1>1. active' = active /\ navigation' = n /\ InvalidateResults(FALSE)
  BY DEF SetNavigationState, ExecuteCannedQuery, pageVars
<1>2. Sent
  BY <1>1, InvalidateOutcome
<1>3. QED
  BY <1>1, <1>2, SentSearches DEF QInv

LEMMA BrowseDepartmentTest ==
  ASSUME QInv, QInv', NEW n \in Navigations, BrowseDepartment(n)
  PROVE  TestInv'
<1>1. active /\ call'.op = "browse" /\ call'.asks = n
  BY DEF BrowseDepartment, Begins
<1>2. PICK l : l = "loading"
  OBVIOUS
<1>3. CASE UNCHANGED vars /\ (Ends("ok", FALSE) \/ WaitsIn("loading"))
  <2>1. active'
    BY <1>1, <1>3 DEF vars, pageVars
  <2>2. CASE WaitsIn(l)
    BY <1>2, <2>1, <2>2, WaitsInWaits, PlainWait
  <2>3. QED
    BY <1>2, <1>3, <2>2, ThrownEnds
<1>4. CASE SetNavigationState(n) /\ running' /\ WaitsIn("finish")
  <2>1. PICK s : s = "finish"
    OBVIOUS
  <2>2. Waiting(s) /\ step' = s /\ s \in Steps \ {"idle"}
    BY <1>4, <2>1, WaitsInWaits DEF WaitsIn, Steps, SearchSteps
  <2>3. active' /\ navigation' = n /\ SearchedText' /\ sent'.navigation = n
    BY <1>1, <1>4, NavigationSearches
  <2>4. StepOfCall' /\ Asked'
    BY <1>1, <2>1, <2>2, <2>3 DEF StepOfCall, Asked
  <2>5. QED
    BY <1>4, <2>1, <2>2, <2>3, <2>4, WaitBegins
<1>5. CASE /\ SetNavigationState(n) /\ step' \in {"idle", "loading"} /\ outcome' = "failed"
           /\ signals' = 0 /\ seen' = FALSE /\ checked' = FALSE
  <2>1. CASE step' = "idle"
    BY <1>5, <2>1, ThrownEnds DEF Ends
  <2>2. CASE step' = l
    <3>1. signals' \in 0 .. 2
      BY <1>5
    <3>2. Waiting(l)
      BY <1>5, <2>2, <3>1 DEF Waiting, Outcomes
    <3>3. active'
      BY <1>1, <1>5, NavigationSearches
    <3>4. QED
      BY <1>2, <3>2, <3>3, PlainWait
  <2>3. QED
    BY <1>2, <1>5, <2>1, <2>2
<1>6. QED
  BY <1>3, <1>4, <1>5 DEF BrowseDepartment

LEMMA SettingOrTapTest ==
  ASSUME SetSetting \/ Tap
  PROVE  TestInv'
<1>1. active'
  BY DEF SetSetting, Tap, Begins, vars, pageVars
<1>2. PICK s : /\ s \in {"settings", "activated", "preview"} /\ WaitsIn(s)
               /\ s = "settings" => call'.op = "set"
  BY DEF SetSetting, Tap, Begins
<1>3. QED
  BY <1>1, <1>2, WaitsInWaits, PlainWait

-----------------------------------------------------------------------------
(* How waits go on.                                                        *)

(* The page as the handlers that only look leave it.                       *)
LEMMA OnlyLooked ==
  ASSUME UNCHANGED <<vars, call>>
  PROVE  /\ call' = call /\ active' = active /\ text' = text /\ sent' = sent /\ typing' = typing
         /\ running' = running /\ navigation' = navigation /\ SearchedText' = SearchedText
  BY DEF vars, pageVars, textVars, typingVars, SearchedText

(* A wait for the last signal, with the text that the call asked for.      *)
LEMMA AwaitLast ==
  ASSUME TestInv, UNCHANGED <<vars, call>>, GoesOn("last"), active,
         call.op \in {"activate", "setQuery", "refresh", "change"},
         call.op # "change" => running, call.op # "activate" => SearchedText,
         call.op = "setQuery" => text = call.asks
  PROVE  TestInv'
<1>1. /\ call' = call /\ active' = active /\ text' = text
      /\ running' = running /\ SearchedText' = SearchedText
  BY OnlyLooked
<1>2. PICK s : s = "last"
  OBVIOUS
<1>3. Waiting(s) /\ step' = s /\ s \in Steps \ {"idle"}
  BY <1>2, GoesOnWaits DEF GoesOn, Steps, SearchSteps
<1>4. StepOfCall' /\ Asked'
  BY <1>1, <1>2, <1>3 DEF StepOfCall, Asked
<1>5. QED
  BY <1>1, <1>2, <1>3, <1>4, WaitBegins

LEMMA VerifiedTest ==
  ASSUME UNCHANGED <<vars, call>>, Verified, SearchedText,
         call.op = "setQuery" => text = call.asks, call.op # "browse"
  PROVE  TestInv'
<1>1. call' = call /\ text' = text /\ SearchedText' = SearchedText
  BY OnlyLooked
<1>2. CASE running'
  BY <1>2, ThrownEnds DEF Verified
<1>3. CASE ~running'
  BY <1>1, <1>3, EndsLooked DEF Verified
<1>4. QED
  BY <1>2, <1>3

LEMMA StartAwaitedTest ==
  ASSUME TestInv, StartAwaited
  PROVE  TestInv'
<1>1. step = "starting" /\ call.op = "activate" /\ active
  BY DEF StartAwaited, TestInv, StepOfCall, ViewTypeOK
<1>2. CASE running
  BY <1>1, <1>2, AwaitLast DEF StartAwaited
<1>3. CASE ~running
  BY <1>3, ThrownEnds DEF StartAwaited
<1>4. QED
  BY <1>2, <1>3

LEMMA FirstAwaitedTest ==
  ASSUME TestInv, FirstAwaited
  PROVE  TestInv'
<1>1. /\ step = "first" /\ call.op \in {"setQuery", "change"} /\ active
      /\ call.op = "setQuery" => text = call.asks
      /\ UNCHANGED <<vars, call>>
  BY DEF FirstAwaited, TestInv, StepOfCall, ViewTypeOK, Asked
<1>2. CASE ~seen
  BY <1>2, ThrownEnds DEF FirstAwaited
<1>3. CASE seen
  <2>1. SearchedText
    BY <1>1, <1>3 DEF TestInv, CallHolds
  <2>2. (GoesOn("last") /\ (call.op = "setQuery" => running)) \/ Verified
    BY <1>3 DEF FirstAwaited
  <2>3. CASE GoesOn("last") /\ (call.op = "setQuery" => running)
    BY <1>1, <2>1, <2>3, AwaitLast
  <2>4. CASE Verified
    BY <1>1, <2>1, <2>4, VerifiedTest
  <2>5. QED
    BY <2>2, <2>3, <2>4
<1>4. QED
  BY <1>2, <1>3

LEMMA LastAwaitedTest ==
  ASSUME TestInv, LastAwaited
  PROVE  TestInv'
<1>1. /\ step = "last" /\ call.op \in {"activate", "setQuery", "refresh", "change"}
      /\ call.op = "setQuery" => text = call.asks
      /\ call.op # "activate" => SearchedText
      /\ UNCHANGED <<vars, call>>
  BY DEF LastAwaited, TestInv, StepOfCall, Asked, CallHolds
<1>2. CASE ~seen \/ call.op = "activate"
  BY <1>2, ThrownEnds DEF LastAwaited
<1>3. CASE seen /\ call.op # "activate"
  BY <1>1, <1>3, VerifiedTest DEF LastAwaited
<1>4. QED
  BY <1>2, <1>3

LEMMA SearchAwaitedTest ==
  ASSUME TestInv, UNCHANGED <<vars, call>>, active, NEW how, how \in {"ok", "failed"},
         SearchAwaited(how), call.op \in {"browse", "set"},
         how = "ok" => /\ ~running /\ SearchedText
                       /\ call.op = "browse" => sent.navigation \in {call.asks, Root}
  PROVE  TestInv'
<1>1. /\ call' = call /\ active' = active /\ text' = text /\ sent' = sent
      /\ running' = running /\ SearchedText' = SearchedText
  BY OnlyLooked
<1>2. CASE step' = "loading" /\ seen' = FALSE /\ outcome' = how /\ UNCHANGED <<signals, checked>>
  <2>1. PICK l : l = "loading"
    OBVIOUS
  <2>2. Waiting(l)
    BY <1>2, <2>1 DEF Waiting, Outcomes, TestInv, ViewTypeOK
  <2>3. QED
    BY <1>1, <2>1, <2>2, PlainWait
<1>3. CASE how = "failed" /\ Ends(how, how = "ok")
  <2>1. Ends("failed", FALSE)
    BY <1>3 DEF Ends
  <2>2. QED
    BY <2>1, ThrownEnds
<1>4. CASE how = "ok" /\ Ends(how, how = "ok")
  <2>1. Ends("ok", TRUE)
    BY <1>4 DEF Ends
  <2>2. QED
    BY <1>1, <1>4, <2>1, EndsLooked
<1>5. QED
  BY <1>2, <1>3, <1>4 DEF SearchAwaited

(* waitForSearchFinish() is called, or looks again.                        *)
LEMMA AwaitFinish ==
  ASSUME TestInv, UNCHANGED <<vars, call>>, active, NEW s, s \in {"finish", "finishAgain"}, GoesOn(s),
         call.op \in {"browse", "set"}, running, SearchedText,
         call.op = "browse" =>
           navigation \in {call.asks, Root} /\ sent.navigation \in {call.asks, Root}
  PROVE  TestInv'
<1>1. /\ call' = call /\ active' = active /\ text' = text /\ sent' = sent
      /\ running' = running /\ SearchedText' = SearchedText /\ navigation' = navigation
  BY OnlyLooked
<1>2. Waiting(s) /\ step' = s /\ s \in Steps \ {"idle"}
  BY GoesOnWaits DEF GoesOn, Steps, SearchSteps
<1>3. StepOfCall' /\ Asked'
  BY <1>1, <1>2 DEF StepOfCall, Asked
<1>4. QED
  BY <1>1, <1>2, <1>3, WaitBegins

LEMMA WaitForSearchFinishTest ==
  ASSUME TestInv, WaitForSearchFinish
  PROVE  TestInv'
<1>1. /\ step \in {"finish", "finishAgain"} /\ call.op \in {"browse", "set"} /\ active
      /\ SearchedText /\ UNCHANGED <<vars, call>>
      /\ call.op = "browse" =>
           navigation \in {call.asks, Root} /\ sent.navigation \in {call.asks, Root}
  BY DEF WaitForSearchFinish, TestInv, StepOfCall, Asked, CallHolds, ViewTypeOK
<1>2. CASE seen /\ running /\ step = "finish"
  BY <1>1, <1>2, AwaitFinish DEF WaitForSearchFinish
<1>3. CASE ~(seen /\ running /\ step = "finish")
  <2>1. PICK how : how = IF seen /\ ~running THEN "ok" ELSE "failed"
    OBVIOUS
  <2>2. SearchAwaited(how)
    BY <1>3, <2>1 DEF WaitForSearchFinish
  <2>3. how \in {"ok", "failed"} /\ (how = "ok" => ~running)
    BY <2>1
  <2>4. QED
    BY <1>1, <2>2, <2>3, SearchAwaitedTest
<1>4. QED
  BY <1>2, <1>3

LEMMA SettingAwaitedTest ==
  ASSUME TestInv, SettingAwaited
  PROVE  TestInv'
<1>1. step = "settings" /\ call.op = "set" /\ active /\ UNCHANGED <<vars, call>>
  BY DEF SettingAwaited, TestInv, StepOfCall, ViewTypeOK
<1>2. CASE ~seen
  BY <1>2, ThrownEnds DEF SettingAwaited
<1>3. CASE seen
  <2>1. SearchedText
    BY <1>1, <1>3 DEF TestInv, CallHolds
  <2>2. CASE running
    <3>1. PICK s : s = "finish"
      OBVIOUS
    <3>2. GoesOn(s)
      BY <1>3, <2>2, <3>1 DEF SettingAwaited, AwaitSearch
    <3>3. QED
      BY <1>1, <2>1, <2>2, <3>1, <3>2, AwaitFinish
  <2>3. CASE ~running
    <3>1. PICK how : how = "failed"
      OBVIOUS
    <3>2. SearchAwaited(how)
      BY <1>3, <2>3, <3>1 DEF SettingAwaited, AwaitSearch
    <3>3. QED
      BY <1>1, <3>1, <3>2, SearchAwaitedTest
  <2>4. QED
    BY <2>2, <2>3
<1>4. QED
  BY <1>2, <1>3

LEMMA LoadAwaitedTest ==
  ASSUME LoadAwaited
  PROVE  TestInv'
<1>1. Ends("thrown", FALSE) \/ Ends("failed", FALSE) \/ Ends("ok", FALSE)
  BY DEF LoadAwaited
<1>2. QED
  BY <1>1, ThrownEnds

LEMMA ActivatedTest ==
  ASSUME TestInv, Activated
  PROVE  TestInv'
<1>1. active
  BY DEF Activated, TestInv, ViewTypeOK
<1>2. CASE Ends("thrown", FALSE) \/ Ends("ok", FALSE)
  BY <1>2, ThrownEnds
<1>3. CASE UNCHANGED vars /\ GoesOn("preview")
  <2>1. PICK s : s = "preview"
    OBVIOUS
  <2>2. active'
    BY <1>1, <1>3 DEF vars, pageVars
  <2>3. QED
    BY <1>3, <2>1, <2>2, GoesOnWaits, PlainWait
<1>4. CASE GoesOn("away")
  <2>1. PICK s : s = "away"
    OBVIOUS
  <2>2. QED
    BY <1>4, <2>1, GoesOnWaits, PlainWait
<1>5. QED
  BY <1>2, <1>3, <1>4 DEF Activated

-----------------------------------------------------------------------------
LEMMA ViewQInv ==
  ASSUME QInv, [ViewNext]_viewVars
  PROVE  QInv'
<1>1. Next \/ UNCHANGED vars => QInv'
  BY NextInv
<1>2. CASE SetActiveScope
  <2>1. <<>> \in Texts
    BY TextsAssumption
  <2>2. CASE UNCHANGED vars \/ SetSearchQuery(<<>>) \/ SetActive(TRUE)
    BY <1>1, <2>1, <2>2, SetSearchQueryInv, SetActiveInv
  <2>3. CASE /\ active' = TRUE /\ userData' = Null /\ ChangeText(<<>>, FALSE)
             /\ UNCHANGED <<firstBoot, navigation, filterState, filterVars>> /\ Dispatch
    <3>1. /\ text' = <<>> /\ typing' \in BOOLEAN /\ announced' \in Texts \cup {Null}
          /\ session' \in Sessions /\ queryId' \in 0 .. MaxQueryId
          /\ session' # 0 /\ text' # Null /\ TextAnnounced'
      BY <2>1, <2>3, ChangeTextOutcome
    <3>2. PageTypes
      BY <2>1, <2>3, <3>1 DEF QInv, TypeOK, PageTypes, filterVars
    <3>3. DataOfText'
      BY <2>3 DEF DataOfText
    <3>4. QED
      BY <2>3, <3>1, <3>2, <3>3, SentInv DEF Sent, Dispatch
  <2>4. QED
    BY <1>2, <2>2, <2>3 DEF SetActiveScope
<1>3. CASE SetOtherScope \/ OtherScopeSearched
  BY <1>1, <1>3, SetActiveInv DEF SetOtherScope, OtherScopeSearched
<1>4. CASE \E t \in Texts : SetQuery(t)
  BY <1>1, <1>4, SetSearchQueryInv DEF SetQuery
<1>5. CASE ForceRefresh \/ WaitForResultsChange
  BY <1>1, <1>5, RefreshInv DEF ForceRefresh, WaitForResultsChange
<1>6. CASE \E n \in Navigations : BrowseDepartment(n)
  BY <1>1, <1>6, SetNavigationStateInv DEF BrowseDepartment
<1>7. CASE SetSetting \/ Tap
  BY <1>1, <1>7 DEF SetSetting, Tap
<1>8. CASE PageEvent
  <2>1. CASE TypingFinished \/ Refresh \/ ScopeRegistryChanged
    BY <2>1, TypingFinishedInv, RefreshInv
  <2>2. CASE \E fin, d, f \in BOOLEAN : FlushUpdates(fin, d, f)
    BY <2>2, FlushUpdatesInv
  <2>3. CASE CreateLocationPromptFile \/ Prepopulate(FALSE)
    BY <2>3, CreateLocationPromptFileInv, PrepopulateInv
  <2>4. QED
    BY <1>8, <2>1, <2>2, <2>3 DEF PageEvent
<1>9. CASE SettingWritten \/ ModelLoaded
  BY <1>1, <1>9, RefreshInv DEF SettingWritten, ModelLoaded
<1>10. CASE StartAwaited \/ FirstAwaited \/ LastAwaited \/ WaitForSearchFinish
  BY <1>1, <1>10 DEF StartAwaited, FirstAwaited, LastAwaited, WaitForSearchFinish
<1>11. CASE SettingAwaited \/ LoadAwaited
  BY <1>1, <1>11 DEF SettingAwaited, LoadAwaited
<1>12. CASE Activated
  <2>1. CASE UNCHANGED vars
    BY <1>1, <2>1
  <2>2. CASE SetActive(FALSE)
    BY <2>2, SetActiveInv
  <2>3. CASE \E q \in CannedQueries : ExecuteCannedQuery(q)
    BY <2>3, ExecuteCannedQueryInv, CannedQueriesAssumption
  <2>4. QED
    BY <1>12, <2>1, <2>2, <2>3 DEF Activated
<1>13. CASE UNCHANGED viewVars
  BY <1>1, <1>13 DEF viewVars
<1>14. QED
  BY <1>2, <1>3, <1>4, <1>5, <1>6, <1>7, <1>8, <1>9, <1>10, <1>11, <1>12, <1>13 DEF ViewNext

LEMMA ViewTestInv ==
  ASSUME QInv, QInv', TestInv, [ViewNext]_viewVars
  PROVE  TestInv'
<1>1. CASE UNCHANGED viewVars
  BY <1>1 DEF viewVars, callVars, vars, pageVars, textVars, typingVars, TestInv, ViewTypeOK,
              AnswersAreFinished, WaitsForSomething, CallHolds, StepOfCall, Asked, SearchedText
<1>2. CASE SetActiveScope \/ SetOtherScope \/ OtherScopeSearched
  BY <1>2, ActivateTest, LeaveTest
<1>3. CASE \E t \in Texts : SetQuery(t)
  BY <1>3, SetQueryTest
<1>4. CASE ForceRefresh \/ WaitForResultsChange
  BY <1>4, ForceRefreshTest, WaitForResultsChangeTest
<1>5. CASE \E n \in Navigations : BrowseDepartment(n)
  BY <1>5, BrowseDepartmentTest
<1>6. CASE SetSetting \/ Tap
  BY <1>6, SettingOrTapTest
<1>7. CASE PageEvent \/ SettingWritten \/ ModelLoaded
  BY <1>7, PageEventTest, SettingWrittenTest, ModelLoadedTest
<1>8. CASE StartAwaited \/ FirstAwaited \/ LastAwaited
  BY <1>8, StartAwaitedTest, FirstAwaitedTest, LastAwaitedTest
<1>9. CASE WaitForSearchFinish \/ SettingAwaited \/ LoadAwaited \/ Activated
  BY <1>9, WaitForSearchFinishTest, SettingAwaitedTest, LoadAwaitedTest, ActivatedTest
<1>10. QED
  BY <1>1, <1>2, <1>3, <1>4, <1>5, <1>6, <1>7, <1>8, <1>9 DEF ViewNext

LEMMA ViewInitInv ==
  ASSUME ViewInit
  PROVE  QInv /\ TestInv
<1>1. QInv
  BY InitInv DEF ViewInit
<1>2. step = "idle" /\ seen = FALSE /\ signals = 0 /\ outcome = "none" /\ checked = FALSE
  BY DEF ViewInit
<1>3. ViewTypeOK
  <2>1. signals \in 0 .. 2
    BY <1>2
  <2>2. step \in Steps /\ outcome \in {"none", "ok", "thrown", "failed"}
    BY <1>2, Zenon DEF Steps
  <2>3. QED
    BY <1>2, <2>1, <2>2 DEF ViewTypeOK
<1>4. AnswersAreFinished /\ WaitsForSomething /\ CallHolds /\ StepOfCall /\ Asked
  BY <1>2 DEF AnswersAreFinished, WaitsForSomething, CallHolds, StepOfCall, Asked
<1>5. QED
  BY <1>1, <1>3, <1>4 DEF TestInv

(* A test that drives the page can take it nowhere the shell could not     *)
(* have: the inductive invariant of the query holds under its calls too    *)
(* (results-view.cpp:114-266, scope.cpp:1094-1355).                        *)
THEOREM InductiveUnderTests == ViewSpec => []QInv
  BY ViewInitInv, ViewQInv, PTL DEF ViewSpec

(* A call of a test that returns after it saw the search end leaves the    *)
(* results of what it asked for, with no search under way, and no call     *)
(* waits for a signal that cannot come, however the waits time out and     *)
(* whatever else searches the page meanwhile (results-view.cpp:114-122,    *)
(* 182-266, test-utils.cpp:126-137).                                       *)
THEOREM TestsSeeFinishedSearchesAlways == ViewSpec => []TestsSeeFinishedSearches
<1>1. ViewInit => QInv /\ TestInv
  BY ViewInitInv
<1>2. QInv /\ TestInv /\ [ViewNext]_viewVars => QInv' /\ TestInv'
  BY ViewQInv, ViewTestInv
<1>3. TestInv => TestsSeeFinishedSearches
  BY DEF TestInv, TestsSeeFinishedSearches
<1>4. QED
  BY <1>1, <1>2, <1>3, PTL DEF ViewSpec
=============================================================================
