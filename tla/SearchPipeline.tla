--------------------------- MODULE SearchPipeline ---------------------------
(***************************************************************************)
(* How the results of a search travel from the threads of the scopes       *)
(* middleware to the models the shell shows (collectors.cpp, and the       *)
(* search half of scope.cpp).                                              *)
(*                                                                         *)
(* Every search has a SearchResultReceiver and a SearchDataCollector of    *)
(* its own.  Middleware threads push results into the collector and post   *)
(* at most one PushEvent at a time to the Scope; the UI thread collects    *)
(* what has accumulated when it processes the event.  A new search         *)
(* invalidates the receiver of the one before, whose threads may be        *)
(* anywhere in a push() or in finished().                                  *)
(*                                                                         *)
(* The n-th result pushed in search q is the pair <<q, n>>; what happens   *)
(* to equal results is the subject of ResultsModel, how results are split  *)
(* over categories that of Categories: here there is one category.         *)
(***************************************************************************)
EXTENDS Integers, Sequences, FiniteSets

CONSTANTS
  Threads,     \* middleware threads that call push() and finished()
  MaxQueries,  \* bound: searches dispatched in a behaviour
  MaxResults,  \* bound: results pushed in one search
  Details      \* completion details the middleware can report

OperationInfo == {"NoInternet", "NoLocationData", "Unknown"}

ASSUME BoundsAssumption == MaxQueries \in Nat /\ MaxResults \in Nat
ASSUME DetailsAssumption ==
  Details \subseteq [outcome : {"OK", "Cancelled", "Error"}, info : SUBSET OperationInfo]

Queries == 1 .. MaxQueries
Annotations == {"department", "filters"}
Status == {"UNKNOWN", "INCOMPLETE", "FINISHED", "CANCELLED", "NO_INTERNET", "NO_LOCATION_DATA"}
ScopeStatus == {"Okay", "NoInternet", "NoLocationData", "Unknown"}
NotFinished == [outcome |-> "none", info |-> {}]

VARIABLES
  status,       \* CollectorBase::m_status, per search
  posted,       \* CollectorBase::m_posted
  buffer,       \* SearchDataCollector::m_results
  annotations,  \* SearchDataCollector::m_rootDepartment and m_filters: which are there
  receiver,     \* ScopeDataReceiverBase::m_receiver is not null
  worker,       \* where each middleware thread is in push() or finished()
  pushed,       \* history: what was pushed in each search, in order
  launched,     \* the middleware accepted the search
  finishedWith, \* the details finished() was called with, or NotFinished
  events,       \* PushEvents of the Scope in the UI thread's event queue
  uiAt,         \* where the UI thread is
  query,        \* number of the search m_searchController holds (0: none yet)
  searchInProgress,
  delayTimer,   \* m_searchProcessingDelayTimer is running
  ttlTimer,     \* m_invalidateTimer is running
  cached,       \* m_cachedResults
  applied,      \* m_category_results: results of this search given to the models
  visible,      \* rows of the results model
  received,     \* m_rootDepartment and m_receivedFilters, as pairs <<search, kind>>
  shown,        \* the department and filters the shell sees, likewise
  scopeStatus   \* m_status of the Scope

collectorVars == <<status, posted, buffer, annotations>>
middlewareVars == <<worker, pushed, launched, finishedWith>>
modelVars == <<cached, applied, visible, received, shown, scopeStatus>>
searchVars == <<query, searchInProgress, delayTimer, ttlTimer>>
vars == <<collectorVars, receiver, middlewareVars, events, uiAt, searchVars, modelVars>>

Idle == [at |-> "idle", search |-> 0, status |-> "INCOMPLETE"]
Serving(t, q) == worker[t].at # "idle" /\ worker[t].search = q

Init ==
  /\ status = [q \in Queries |-> "INCOMPLETE"]
  /\ posted = [q \in Queries |-> FALSE]
  /\ buffer = [q \in Queries |-> <<>>]
  /\ annotations = [q \in Queries |-> {}]
  /\ receiver = [q \in Queries |-> FALSE]
  /\ worker = [t \in Threads |-> Idle]
  /\ pushed = [q \in Queries |-> <<>>]
  /\ launched = [q \in Queries |-> FALSE]
  /\ finishedWith = [q \in Queries |-> NotFinished]
  /\ events = <<>>
  /\ uiAt = "loop"
  /\ query = 0
  /\ searchInProgress = FALSE /\ delayTimer = FALSE /\ ttlTimer = FALSE
  /\ cached = <<>> /\ applied = <<>> /\ visible = <<>>
  /\ received = {} /\ shown = {}
  /\ scopeStatus = "Okay"

-----------------------------------------------------------------------------
(* Middleware threads.                                                     *)

(* The search was accepted and its listener has not been told it is over.  *)
Open(q) == launched[q] /\ finishedWith[q] = NotFinished

(* SearchResultReceiver::push(CategorisedResult) up to the point where     *)
(* addResult() has released the collector's mutex: the caller learns       *)
(* whether an event is already on its way.                                 *)
PushResult(t, q) ==
  /\ worker[t] = Idle
  /\ Open(q)
  /\ Len(pushed[q]) < MaxResults
  /\ LET result == <<q, Len(pushed[q]) + 1>> IN
       /\ buffer' = [buffer EXCEPT ![q] = Append(@, result)]
       /\ pushed' = [pushed EXCEPT ![q] = Append(@, result)]
  /\ worker' = [worker EXCEPT ![t] =
                  IF posted[q] THEN Idle
                  ELSE [at |-> "submit", search |-> q, status |-> "INCOMPLETE"]]
  /\ UNCHANGED <<status, posted, annotations, receiver, launched, finishedWith,
                 events, uiAt, searchVars, modelVars>>

(* push(Department) and push(Filters): stored under the collector's mutex; *)
(* they never post an event of their own.                                  *)
PushAnnotation(q, a) ==
  /\ Open(q)
  /\ a \notin annotations[q]
  /\ annotations' = [annotations EXCEPT ![q] = @ \cup {a}]
  /\ UNCHANGED <<status, posted, buffer, receiver, middlewareVars, events, uiAt,
                 searchVars, modelVars>>

(* getStatus(): the reported problem of highest priority.                  *)
GetStatus(details) ==
  CASE "NoInternet" \in details.info -> "NO_INTERNET"
    [] "NoInternet" \notin details.info /\ "NoLocationData" \in details.info -> "NO_LOCATION_DATA"
    [] details.info = {"Unknown"} -> "UNKNOWN"
    [] details.info = {} /\ details.outcome = "Cancelled" -> "CANCELLED"
    [] OTHER -> "FINISHED"

(* The middleware calls finished() once, when its calls of push() for the  *)
(* search have returned, and reports Cancelled only for a search whose     *)
(* QueryCtrl was cancelled.                                                *)
MayFinish(q, details) ==
  /\ Open(q)
  /\ \A t \in Threads : ~Serving(t, q)
  /\ details.outcome = "Cancelled" => ~receiver[q]

(* SearchResultReceiver::finished(), before postCollectedResults().        *)
Finished(t, q, details) ==
  /\ worker[t] = Idle
  /\ MayFinish(q, details)
  /\ finishedWith' = [finishedWith EXCEPT ![q] = details]
  /\ worker' = [worker EXCEPT ![t] =
                  [at |-> "submit", search |-> q, status |-> GetStatus(details)]]
  /\ UNCHANGED <<collectorVars, receiver, pushed, launched, events, uiAt, searchVars, modelVars>>

(* Mutant: submit() does not look at m_posted before it sets it.           *)
SubmitAlwaysPosts(t) ==
  /\ worker[t].at = "submit"
  /\ LET q == worker[t].search IN
       /\ status' = [status EXCEPT ![q] = IF @ = "INCOMPLETE" THEN worker[t].status ELSE @]
       /\ posted' = [posted EXCEPT ![q] = TRUE]
       /\ worker' = [worker EXCEPT ![t].at = "post"]
  /\ UNCHANGED <<buffer, annotations, receiver, pushed, launched, finishedWith, events,
                 uiAt, searchVars, modelVars>>

(* CollectorBase::submit(), under the collector's mutex: the first final   *)
(* status wins, and only the caller that finds m_posted unset posts.       *)
Submit(t) ==
  /\ worker[t].at = "submit"
  /\ LET q == worker[t].search IN
       /\ status' = [status EXCEPT ![q] = IF @ = "INCOMPLETE" THEN worker[t].status ELSE @]
       /\ posted' = [posted EXCEPT ![q] = TRUE]
       /\ worker' = [worker EXCEPT ![t] = IF posted[q] THEN Idle ELSE [@ EXCEPT !.at = "post"]]
  /\ UNCHANGED <<buffer, annotations, receiver, pushed, launched, finishedWith, events,
                 uiAt, searchVars, modelVars>>

(* Mutant: the event is posted without asking whether the receiver is still *)
(* attached.                                                               *)
PostEventUnchecked(t) ==
  /\ worker[t].at = "post"
  /\ events' = Append(events, worker[t].search)
  /\ worker' = [worker EXCEPT ![t] = Idle]
  /\ UNCHANGED <<collectorVars, receiver, pushed, launched, finishedWith, uiAt, searchVars,
                 modelVars>>

(* The rest of postCollectedResults(), under the receiver's mutex: an      *)
(* invalidated receiver drops the event.                                   *)
PostEvent(t) ==
  /\ worker[t].at = "post"
  /\ events' = IF receiver[worker[t].search] THEN Append(events, worker[t].search) ELSE events
  /\ worker' = [worker EXCEPT ![t] = Idle]
  /\ UNCHANGED <<collectorVars, receiver, pushed, launched, finishedWith, uiAt, searchVars,
                 modelVars>>

-----------------------------------------------------------------------------
(* The UI thread.                                                          *)

(* Mutant: invalidate() detaches the receiver but leaves the collector valid. *)
InvalidateNothing == status' = status

(* The first half of ScopeDataReceiverBase::invalidate(): the collector is *)
(* marked CANCELLED under its own mutex, before the receiver's is taken.   *)
InvalidateCollector ==
  status' = [q \in Queries |-> IF q = query /\ receiver[q] THEN "CANCELLED" ELSE status[q]]

(* The second half: m_receiver := nullptr.                                 *)
Detached == [q \in Queries |-> receiver[q] /\ q # query]

BeginDispatch ==
  /\ uiAt = "loop"
  /\ query < MaxQueries
  /\ uiAt' = "dispatch"
  /\ InvalidateCollector
  /\ UNCHANGED <<posted, buffer, annotations, receiver, middlewareVars, events, searchVars,
                 modelVars>>

(* Mutant: the last search's cached results are not dropped.               *)
EndDispatchKeepsCache(accepted) ==
  /\ uiAt = "dispatch"
  /\ uiAt' = "loop"
  /\ query' = query + 1
  /\ receiver' = [Detached EXCEPT ![query + 1] = TRUE]
  /\ launched' = [launched EXCEPT ![query + 1] = accepted]
  /\ searchInProgress' = accepted
  /\ delayTimer' = TRUE
  /\ applied' = <<>>
  /\ UNCHANGED <<collectorVars, worker, pushed, finishedWith, events, ttlTimer, cached,
                 visible, received, shown, scopeStatus>>

(* Scope::dispatchSearch() from there on: drop what the last search left,  *)
(* start the delay timer, create the receiver and call search(), which     *)
(* may throw; without a controller the search is over at once.             *)
EndDispatch(accepted) ==
  /\ uiAt = "dispatch"
  /\ uiAt' = "loop"
  /\ query' = query + 1
  /\ receiver' = [Detached EXCEPT ![query + 1] = TRUE]
  /\ launched' = [launched EXCEPT ![query + 1] = accepted]
  /\ searchInProgress' = accepted
  /\ delayTimer' = TRUE
  /\ cached' = <<>> /\ applied' = <<>>
  /\ UNCHANGED <<collectorVars, worker, pushed, finishedWith, events, ttlTimer, visible,
                 received, shown, scopeStatus>>

(* Mutant: a flush forgets what earlier flushes of the search delivered.   *)
FlushForgets(finalize, results, annots) ==
  IF results = <<>> /\ ~finalize
  THEN /\ cached' = results
       /\ UNCHANGED <<applied, visible, shown>>
  ELSE /\ cached' = <<>>
       /\ applied' = IF finalize THEN <<>> ELSE results
       /\ visible' = results
       /\ shown' = annots \cup
                     IF finalize THEN {}
                     ELSE {s \in shown : \A r \in annots : r[2] # s[2]}

(* flushUpdates(): give the cached results to the model.  m_category_results *)
(* accumulates over a search; the last flush of a search empties it, and   *)
(* purges the model when the search had no result.  Departments and        *)
(* filters that did not come are removed by the last flush only.           *)
FlushUpdates(finalize, results, annots) ==
  IF results = <<>> /\ ~finalize
  THEN /\ cached' = results
       /\ UNCHANGED <<applied, visible, shown>>
  ELSE /\ cached' = <<>>
       /\ applied' = IF finalize THEN <<>> ELSE applied \o results
       /\ visible' = applied \o results
       /\ shown' = annots \cup
                     IF finalize THEN {}
                     ELSE {s \in shown : \A r \in annots : r[2] # s[2]}

(* Mutant: the collector's status is passed on untranslated.               *)
StatusAsIs(st) == st

StatusShown(st) ==
  CASE st \in {"FINISHED", "CANCELLED"} -> "Okay"
    [] st = "NO_INTERNET" -> "NoInternet"
    [] st = "NO_LOCATION_DATA" -> "NoLocationData"
    [] OTHER -> "Unknown"

(* Mutant: collect() never resets m_posted.                                *)
CollectOnce(q) ==
  /\ buffer' = [buffer EXCEPT ![q] = <<>>]
  /\ UNCHANGED <<status, posted, annotations>>

(* SearchDataCollector::collect(), under the collector's mutex: a          *)
(* collector that is not finished may be posted again; the results are     *)
(* taken out, the department and the filters stay.                         *)
Collect(q) ==
  /\ posted' = [posted EXCEPT ![q] = @ /\ status[q] # "INCOMPLETE"]
  /\ buffer' = [buffer EXCEPT ![q] = <<>>]
  /\ UNCHANGED <<status, annotations>>

(* Mutant: a chunk is cached without starting the delay timer.             *)
CacheChunkUntimed(results, annots) ==
  /\ cached' = results
  /\ received' = annots
  /\ UNCHANGED <<searchVars, applied, visible, shown, scopeStatus>>

(* A chunk of a search that goes on waits for the delay timer, which the   *)
(* first chunk after a flush starts.                                       *)
CacheChunk(results, annots) ==
  /\ cached' = results
  /\ received' = annots
  /\ delayTimer' = TRUE
  /\ UNCHANGED <<query, searchInProgress, ttlTimer, applied, visible, shown, scopeStatus>>

(* The last chunk is flushed at once and ends the search; only a status of *)
(* FINISHED schedules a refresh.                                           *)
EndSearch(st, results, annots) ==
  /\ received' = annots
  /\ delayTimer' = FALSE
  /\ FlushUpdates(TRUE, results, annots)
  /\ searchInProgress' = FALSE
  /\ scopeStatus' = StatusShown(st)
  /\ ttlTimer' = (ttlTimer \/ st = "FINISHED")
  /\ query' = query

(* Scope::event() and processSearchChunk().  An event of an invalidated    *)
(* collector is discarded.                                                 *)
ProcessSearchChunk ==
  /\ uiAt = "loop"
  /\ events # <<>>
  /\ events' = Tail(events)
  /\ LET q == Head(events)
         results == cached \o buffer[q]
         annots == {q} \X annotations[q]
     IN /\ Collect(q)
        /\ \/ /\ status[q] = "CANCELLED"
              /\ UNCHANGED <<searchVars, modelVars>>
           \/ status[q] = "INCOMPLETE" /\ CacheChunk(results, annots)
           \/ /\ status[q] \notin {"CANCELLED", "INCOMPLETE"}
              /\ EndSearch(status[q], results, annots)
  /\ UNCHANGED <<receiver, middlewareVars, uiAt>>

(* m_searchProcessingDelayTimer fires: flushUpdates(false).                *)
DelayTimeout ==
  /\ uiAt = "loop"
  /\ delayTimer
  /\ delayTimer' = FALSE
  /\ scopeStatus' = "Okay"
  /\ FlushUpdates(FALSE, cached, received)
  /\ UNCHANGED <<collectorVars, receiver, middlewareVars, events, uiAt, query,
                 searchInProgress, ttlTimer, received>>

(* m_invalidateTimer fires.  dispatchSearch() does not stop this timer, so *)
(* it may fire during any later search.  What invalidateResults() does     *)
(* then is a BeginDispatch on an active scope, nothing here otherwise.     *)
TtlTimeout ==
  /\ uiAt = "loop"
  /\ ttlTimer
  /\ ttlTimer' = FALSE
  /\ UNCHANGED <<collectorVars, receiver, middlewareVars, events, uiAt, query,
                 searchInProgress, delayTimer, modelVars>>

(* The Scope is deleted: ~CollectionController() invalidates the receiver, *)
(* again in two steps, then ~QObject() removes the events posted to it.    *)
BeginDestroy ==
  /\ uiAt = "loop"
  /\ uiAt' = "destroy"
  /\ InvalidateCollector
  /\ UNCHANGED <<posted, buffer, annotations, receiver, middlewareVars, events, searchVars,
                 modelVars>>

EndDestroy ==
  /\ uiAt = "destroy"
  /\ uiAt' = "gone"
  /\ receiver' = Detached
  /\ events' = <<>>
  /\ UNCHANGED <<collectorVars, middlewareVars, searchVars, modelVars>>

-----------------------------------------------------------------------------
Middleware ==
  \/ \E t \in Threads, q \in Queries : PushResult(t, q)
  \/ \E q \in Queries, a \in Annotations : PushAnnotation(q, a)
  \/ \E t \in Threads, q \in Queries, d \in Details : Finished(t, q, d)
  \/ \E t \in Threads : Submit(t)
  \/ \E t \in Threads : PostEvent(t)

UI ==
  \/ BeginDispatch
  \/ \E accepted \in BOOLEAN : EndDispatch(accepted)
  \/ ProcessSearchChunk
  \/ DelayTimeout
  \/ TtlTimeout
  \/ BeginDestroy
  \/ EndDestroy

Next == Middleware \/ UI

Spec == Init /\ [][Next]_vars

(* The UI thread keeps running its event loop, and a middleware thread     *)
(* that is inside push() or finished() gets out of it.  Nothing is assumed *)
(* about whether a search ever finishes.                                   *)
Fairness ==
  /\ WF_vars(ProcessSearchChunk)
  /\ WF_vars(DelayTimeout)
  /\ WF_vars(\E accepted \in BOOLEAN : EndDispatch(accepted))
  /\ WF_vars(EndDestroy)
  /\ \A t \in Threads : WF_vars(Submit(t)) /\ WF_vars(PostEvent(t))

FairSpec == Spec /\ Fairness

-----------------------------------------------------------------------------
(* Properties.                                                             *)

ResultTokens == Queries \X (1 .. MaxResults)
Pairs == Queries \X Annotations

(* Every variable keeps its type; in particular a worker in the middle of  *)
(* a call serves a search that exists (collectors.cpp, scope.cpp).         *)
TypeOK ==
  /\ status \in [Queries -> Status]
  /\ posted \in [Queries -> BOOLEAN]
  /\ buffer \in [Queries -> Seq(ResultTokens)]
  /\ annotations \in [Queries -> SUBSET Annotations]
  /\ receiver \in [Queries -> BOOLEAN]
  /\ worker \in [Threads -> [at : {"idle", "submit", "post"}, search : 0 .. MaxQueries,
                              status : Status]]
  /\ \A t \in Threads : worker[t].at # "idle" => worker[t].search \in Queries
  /\ pushed \in [Queries -> Seq(ResultTokens)]
  /\ launched \in [Queries -> BOOLEAN]
  /\ finishedWith \in [Queries -> Details \cup {NotFinished}]
  /\ events \in Seq(Queries)
  /\ uiAt \in {"loop", "dispatch", "destroy", "gone"}
  /\ query \in 0 .. MaxQueries
  /\ uiAt = "dispatch" => query < MaxQueries
  /\ searchInProgress \in BOOLEAN /\ delayTimer \in BOOLEAN /\ ttlTimer \in BOOLEAN
  /\ cached \in Seq(ResultTokens)
  /\ applied \in Seq(ResultTokens)
  /\ visible \in Seq(ResultTokens)
  /\ received \subseteq Pairs /\ shown \subseteq Pairs
  /\ scopeStatus \in ScopeStatus

InEvents(q) == \E i \in DOMAIN events : events[i] = q
Posting(t, q) == worker[t].at = "post" /\ worker[t].search = q

(* A collector has at most one PushEvent, in the queue or in the hands of  *)
(* a thread about to post it, however many threads push at once: what      *)
(* m_posted is for (collectors.cpp:101-110, 151-167).                      *)
OneEventPerCollector ==
  /\ \A i, j \in DOMAIN events : events[i] = events[j] => i = j
  /\ \A t, u \in Threads, q \in Queries : Posting(t, q) /\ Posting(u, q) => t = u
  /\ \A t \in Threads, q \in Queries : Posting(t, q) => ~InEvents(q)

(* No lost wake-up: while the receiver is attached, results sitting in the *)
(* collector, and a finished() whose search the page still shows as in     *)
(* progress, have an event queued or a thread about to post one            *)
(* (collectors.cpp:313-346 against 151-167).                               *)
NoLostWakeup ==
  \A q \in Queries :
    /\ receiver[q] /\ q = query
    /\ buffer[q] # <<>> \/ (searchInProgress /\ finishedWith[q] # NotFinished)
    => InEvents(q) \/ \E t \in Threads : Serving(t, q)

(* Of the search in progress nothing is lost, duplicated or reordered on   *)
(* the way: what was pushed is what the model has, then what waits for the *)
(* delay timer, then what is still in the collector (scope.cpp:138-165,    *)
(* 359-379, collectors.cpp:151-167).                                       *)
ExactlyOnce ==
  searchInProgress => pushed[query] = applied \o cached \o buffer[query]

(* A search that was accepted and has ended left on the page everything it *)
(* pushed: all results, its department and filters and no others, and the  *)
(* status the middleware reported (scope.cpp:166-192, 378-459).            *)
EndedIsComplete ==
  query > 0 /\ launched[query] /\ ~searchInProgress =>
    /\ visible = pushed[query]
    /\ shown = {query} \X annotations[query]
    /\ scopeStatus = StatusShown(GetStatus(finishedWith[query]))

(* No thread posts an event to a Scope that has been deleted, wherever it  *)
(* was in push() or finished() meanwhile (collectors.cpp:313-329,          *)
(* scope.h:61-69).                                                         *)
NoEventToDeletedScope == uiAt = "gone" => events = <<>>

(* The pipeline implements the contract of SearchDelivery: results of a    *)
(* superseded search never reach the page and rows of the present search   *)
(* are never taken back (scope.cpp:708-724).                               *)
Delivery == INSTANCE SearchDelivery WITH
              closed <- {q \in Queries : finishedWith[q] # NotFinished},
              running <- searchInProgress
ImplementsDelivery == Delivery!Spec

(* Once the middleware has called finished() for the present search, the   *)
(* page stops saying that it is in progress, unless a new search replaces  *)
(* it or the Scope goes away (scope.cpp:138-193).                          *)
FinishedSearchEnds ==
  \A q \in Queries :
    query = q /\ searchInProgress /\ finishedWith[q] # NotFinished
      ~> query # q \/ ~searchInProgress \/ uiAt = "gone"

(* Results that arrived do not wait for the search to finish: the delay    *)
(* timer gives them to the model, even of a search that never finishes     *)
(* (scope.cpp:158-164, 359-379).                                           *)
PartialResultsAreShown == cached # <<>> ~> cached = <<>> \/ uiAt = "gone"

(* scope.cpp:188 says of the TTL timer: "Don't schedule a refresh if the   *)
(* query suffered an error".  A search that was answered with              *)
(* CompletionDetails::Error never starts the timer.                        *)
NoRefreshAfterError ==
  [][~ttlTimer /\ ttlTimer' => finishedWith[query].outcome # "Error"]_vars
=============================================================================
