# A verification development of the Unity scopes shell plugin

unity-scopes-shell is the C++/Qt plugin between the shell (QML views) and the
scopes middleware (libunity-scopes).  A scope page searches, shows categories
of results that arrive from other threads, previews and activates results,
follows departments and filters, and keeps itself fresh.  The TLA+ modules here
model the plugin (`src/src/Unity`) and the parts of its test harness
(`src/src/scope-harness`) that wait and compare; TLC checks them on small
instances, and TLAPS proves the properties of the core for every instance.

Paths such as `scope.cpp:359` are relative to `src/src/Unity`, those of the
harness to `src/src/scope-harness`.

## 1. Inventory

| component | state it keeps | operations | what it talks to |
|---|---|---|---|
| **Result collectors and receivers** `collectors.cpp` | per search: status, posted flag, results, department, filters; a pointer to the Scope, cleared when the search is superseded | `push`, `finished` (any middleware thread), `submit`, `collect`, `invalidate` (UI thread) | posts `PushEvent`s to the Scope |
| **Scope: searches and their delivery** `scope.cpp` | search controller, cached results, accumulated results, delay timer, TTL timer, in-progress flag, status | `dispatchSearch`, `processSearchChunk`, `flushUpdates`, timers, destruction | collectors, Categories, Filters, Departments |
| **Scope: query state, activity, refresh** `scope.cpp` | active, dirty, text, navigation id, filter state, user data, session and query id, typing timer | `setSearchQuery`, `performQuery`, `setNavigationState`, `setActive`, `invalidateResults`, `filterStateChanged`, `resetPrimaryNavigationTag` | Scopes, Filters, location helper |
| **Scope: activation of results** `scope.cpp` | activation controller, in-progress flag, delayed canned query | `activate`, `activateAction`, `cancelActivation`, `handleActivation`, `metadataRefreshed` | middleware, Scopes, PreviewModel, online accounts |
| **Result rows of a category** `resultsmodel.cpp`, `resultsmap.h` | rows, two result-to-row maps, last index, purge flag | `addResults`, `addUpdateResults`, `clearResults`, `updateResult`, `markNewSearch` | row signals to the views |
| **Categories of a page** `categories.cpp` | ordered categories, a model for each, registered set, next index | `registerCategory`, `lookupCategory`, `markNewSearch`, `purgeResults` | ResultsModel, row signals |
| **Model synchronisation** `modelupdate.h` | a list model | `syncModel` | row signals; used by Filters and by filter options |
| **Filters** `filters.cpp`, `*filter.cpp` | filter objects, filter state, primary filter, timer | `update`, `reset`, `clear`, one handler per filter type | Scope |
| **Scopes (registry)** `scopes.cpp` | favourite scopes, temporary scopes, metadata cache, listing thread | discovery, refresh, invalidation, prepopulation, `openScope`/`closeScope` | every Scope, GSettings |
| **Favorites** `favorites.cpp` | order of favourites | move, add, remove, round trip through GSettings | Scopes, Overview |
| **Preview models** `previewmodel.cpp`, `previewwidgetmodel.cpp` | widgets, per-column models, action state | `loadForResult`, `update`, `triggerAction` | own receiver and collector, Scope |
| **Departments** `department.cpp`, `departmentnode.cpp` | cached tree, navigation models | partial tree updates, `findUpdateNode` | Scope |
| **Settings** `settingsmodel.cpp` | rows of settings and child scopes, write timers | `value`, `setData`, `update_child_scopes` | Scope (`settingsChanged`) |
| **Overview scope** `overview*.cpp` | lists of favourites and of other scopes | shows Scopes and Favorites | Scopes |
| **Location** `ubuntulocationservice.cpp`, `locationaccesshelper.cpp`, `geoip.cpp` | tokens, session, prompt file | activate, delayed deactivation | Scope |
| **Scope harness** `view/*.cpp`, `matcher/*.cpp` | the page a test looks at, expectations | calls that return when the page has answered; comparisons by position or id | drives Scopes and Scope like a shell |
| **Plugin glue, Python bindings** | none of their own | registration, conversions | |

Threads.  Everything runs in the UI thread's event loop, one handler at a
time, except `push()` and `finished()` of the receivers, which any number of
middleware threads call at once, and the listing thread of Scopes.

What is hard here, and what makes each part correct:

* *collectors and delivery*: results must reach the page exactly once, in
  order, and only those of the present search, although threads of earlier
  searches may be anywhere in a call, events may be queued, timers pending and
  the Scope about to be deleted;
* *query state*: ten handlers change what is asked for; each must search, start
  a timer or mark the page dirty, whatever the others have left pending;
* *result rows, categories, syncModel*: row-by-row updates whose indices depend
  on one another must end in the right list, with views that never disagree
  with the model, however many searches and partial deliveries there were;
* *activation and registry*: replies arrive after cancellation or replacement,
  refreshes are dropped or delayed;
* *preview, settings, departments, location*: several indexes of the same data
  that must stay consistent through updates in place, and one timer-driven
  release of a counted resource.

`PROJECT.json` lists each hazard at its line with the properties that guard it.

## 2. Plan

Order of work, most important behaviour first; (done) marks what exists.

1. `SearchPipeline` against `SearchDelivery` (done), with proofs of its
   invariants and of the refinement (done).
2. `ResultsMap`, `ResultsModel`, `CategoryResults` against `ResultList`, with
   proofs of its invariant and of the refinement (done).
3. `Categories`, composed of `ResultsModel`s, with proofs, and `CategoryData`
   (done).
4. `SyncModel`, `Filters` (done), with proofs (done).
5. `ScopeQuery`, with proofs (done); `ResultsView`, the harness as its driver
   (done).
6. `Activation`, with its receiver and collector (done), with proofs (done).
7. `Registry`, with favourites and the overview (done), with proofs (done).
8. `PreviewModel`, `PreviewWidgetModel`, with proofs of the lookups and of what is
   shown (done);
   `PreviewPipeline`, with proofs (done).
9. `Navigation`, with proofs (done); `Location` and `SettingsModel`, composed in
   `LocationSettings` (done), with proofs of what concerns the location (done).
10. `Matchers` (done), with proofs (done).

`CategoryData` merges JSON trees with RECURSIVE operators, so it cannot hold
theorems.

## 3. Modules

### SearchPipeline, SearchDelivery

`SearchPipeline` follows a result from `SearchResultReceiver::push()` to the
rows of the page.  A middleware thread in a call is a worker with a program
counter, because the code releases the collector's mutex between `addResult()`
and `submit()` and takes another mutex for `postEvent()`:

| code | model |
|---|---|
| `push(CategorisedResult)` up to the end of `addResult()` | `PushResult` |
| `push(Department)`, `push(Filters)` | `PushAnnotation` (at once; the filters of one call are really appended one at a time, and nothing here depends on how many there are) |
| `finished()`, `getStatus()` | `Finished`, `GetStatus` |
| `CollectorBase::submit()` | `Submit` |
| `postCollectedResults()` | `PostEvent` |
| `invalidateLastSearch()`, first mutex; the rest of `dispatchSearch()` | `BeginDispatch`, `EndDispatch` (the middleware may refuse the search) |
| `Scope::event()`, `processSearchChunk()`, `collect()` | `ProcessSearchChunk` with `Collect`, `CacheChunk`, `EndSearch` |
| `flushUpdates()` | `FlushUpdates` |
| delay timer, TTL timer | `DelayTimeout`, `TtlTimeout` |
| `~Scope()` | `BeginDestroy`, `EndDestroy` |

A result is `<<search, n>>`; there is one category, since repeated results and
categories have modules of their own.  `SearchDelivery` is the contract the
comment at `scope.cpp:708` describes, without machinery: the page keeps the old
rows until the first of the present search are shown, then a growing initial
part of what that search pushed, and everything when it ends.  The run checks
that the pipeline implements it under the mapping in `Delivery`.

### ResultsMap, ResultsModel, CategoryResults, ResultList

`ResultsMap` and `ResultsModel` are operators on a record with the fields of
the C++ objects, each returning what the method leaves behind, including the
de-duplication of the list it is given by reference.  `CategoryResults` drives
one model through searches, flushes and updates of rows; `lastResultIndex`
starts with whatever the memory held (no constructor initialises it).
`ResultList` says what the list should be, without maps and moves.

An update by `updateResult()` can make two rows equal.  Rebuilding the
old-result map at the next search then erases one of them from `m_results` with
no row signal (`resultsmap.h:55`), so views keep a row that is gone;
`RowsAreAccountedFor` says, with the rest, that this is the only way to lose
one silently.  `Enter` is a turn of the loop of `ResultsMap::update()`, and
`PlaceRows` the loop of `addUpdateResults()` over the results that are new since
the last call; both loops are recursive functions, so that they can be proved
about.

### Categories

`RegisterCategory` is `registerCategory()` with `PurgeExcess` for the limit of
categories; `ProcessResultSet` is the loop of `processResultSet()`, one
category after the other, over the record of the page; `NewSearch`, `Flush` and
`LastFlush` are the calls of the Scope.  `RegisterCategory` runs before the
results are added, as in the code, which is why a full page can lose a category
that has just received results (see the finding below).  The categories the
shell adds itself are left out.  Category ids are not declared symmetric:
`Categories` chooses one of them for a second result.

### CategoryData

How one category looks.  A JSON value is a tagged value or a function; the
merge of a template into the defaults, the component mapping and the number of
attributes are those of `categories.cpp:185-283` and `resultsmodel.cpp:62-109`.
`MergedAsGiven` states the merge a second time, by paths instead of recursion.
`RegisterNew`, `RegisterMoved` and `RegisterInPlace` are the ways through
`registerCategory()`; `seen` and `seenRow` are what a view has read after the
signals it got.

Behaviour no document judges: an unknown component ends the loop over a hash,
so any of the others may lose their mapping (`resultsmodel.cpp:90`); the number
of attributes is set after the model reset, so a view that reads at the reset
sees the old number (`categories.cpp:363`, variable `late`); `"max-count": 0`
still shows one attribute (`resultsmodel.cpp:284`); an unreadable template
keeps the last look; an override lasts until the category comes again.

### SyncModel

The four passes of `syncModel()`, one step per loop turn, with a `view` that is
updated from the row signals alone.  Preconditions, both facts about the
callers: keys are distinct, and every item has an object.  Neither is enforced
by the code.  A scope that pushes its filters twice in one search gives
repeated keys (`collectors.cpp:145` appends); two equal keys make the third
pass move row 0 to row 1 for ever.  A filter of an unknown type has no object
(`filters.cpp:320`), and the rows after it are then looked up one too far.

### ScopeQuery

What is asked for and when.  `Request` is what `search()` is given and the ids
in its metadata; `Dispatch` sends it and clears the dirty flag; the other
actions are the handlers, named as in the code, each ending as the code does in
`InvalidateResults`, a timer, or nothing.  `Refresh` stands for every plain
caller of `invalidateResults()`: `refresh()`, the TTL timer, changed settings,
a login, a scope's own signal.  `Prepopulate` has the case in which it runs
inside the activation of the same page, through `isActiveChanged()`.
User data is represented by the text of the canned query it came with, a
session id by one of three values, of which the code compares two.

Behaviour the module has and no document judges:

* a filter chosen within 300 ms before a canned query replaces the filter state
  of that query when its timer fires;
* the last flush of a running search without departments resets the navigation
  id, also one that a canned query has just given to the inactive page;
* `Filters::clear()` drops the state of the filters, while the Scope goes on
  sending its own copy;
* prepopulation can replace the text of a canned query by the empty one;
* a canned query with a new text searches an active page twice, at once and
  when the typing timer fires.

### ResultsView

The calls a test makes on a page (`view/results-view.cpp`,
`test-utils.cpp:106-137`), as a driver of `ScopeQuery` in place of the shell: a
call changes the page and waits for signals, the event loop runs meanwhile, and
the test goes on when the wait is over or has timed out.  `signals` is what a
`QSignalSpy` has counted.  `TestsSeeFinishedSearches` is what every test relies
on: no search runs when the call returns, the page shows what was asked for, and
no call waits for a signal that cannot come.  Three things are not as
a test may think: `setQuery()` of the text that is there returns at once, although the
comment at `results-view.cpp:213` presumes a completed search; a refused search
counts as finished; `setActiveScope()` of the active page returns before a
running search has ended.  `MCResultsView` chooses the driver initially.

### Filters

The widgets of `filters.cpp`, one record each, with its definition and what it
shows; they share the filter state through weak pointers (`linked`).  The
operators `New...`, `Relinked...`, `Redefined...`, `Reset...` are the methods of
each kind of filter (option selector, range, slider), `ClearFilters`,
`UpdateState`, `UpdateFilters`, `ResetFilters` those of the list; `UserChange` is any input.
Two timers in series delay the announcement to the Scope, the group's and the
list's.  The merge of two lists is `SyncModel`'s subject.

Behaviour no document judges: the primary filter keeps the dead state after
`clear()`, and stays when it was the only filter; with departments the primary
filter appears twice (`doubled`); a group that goes takes its timer and the
announcement along (`dropped`); a change in a group is delayed twice; the check
of a slider's bounds is inverted (`valuesliderfilter.cpp:105-113`).

### Navigation

`Scope::flushUpdates()` with departments, the cached tree with
`findUpdateNode()`, and the models the shell has open.  A tree is a function
from ids to parents; the world (`WorldChanges`) is the scope's own tree, of
which it sends any connected part.  `TreeHoldsWhatCame` compares the cache with
the last part received, `ModelsFollowTree` the models with the cache.  Both have
an exception for what `findUpdateNode()` does not notice (`scope.cpp:497-546`):
a child that went from the current department while another child's subtree
changed too.  Labels and `hasSubdepartments` are not compared by it either.
The departments are any finite tree (`ParentAssumption`: going up ends at the
root, going down ends); what is sent is a connected part of it (`IsTree`).

### Registry

`populateScopes()` and the listing threads, the favourites in `m_favoriteScopes`
and in GSettings, the rows of the dash, temporary scopes, the overview's lists,
and the canned query that waits for a listing.  A listing is a record with what
the registry had when the thread ran; it may fail, which gives an empty map.
`tangled` records that a Scope took a favourite for none, or that one had no
metadata: rows may be double afterwards.  `stuck` records what follows from
that, the endless loop of moves at `scopes.cpp:505` or a move out of range.
The moves of that loop and of the overview's are followed turn by turn
(`MoveRow`); `Enough` turns show whether the loop ends, by the bound proved for
`syncModel()`.  `ListedFavorites` and `FollowFavorites` are the two halves of
`processFavoriteScopes()`.  `delayed` is the one canned query that may wait; in
the code each Scope has an `m_delayedActivation` of its own, and two pages that
wait at a time are not modelled.

Behaviour no document judges: a change of the favourites before discovery drops
them all (`scopes.cpp:439`); `moveFavoriteTo()` goes out of range when a
favourite has no row; a canned query fails with a listing older than itself.

### PreviewPipeline

The road of a preview from the middleware's threads to `PreviewModel`, with the
protocol of `SearchPipeline` (`Push`, `Finished`, `Submit`, `PostEvent` of the
threads; `BeginInvalidate` with `EndDispatch` or `EndDestroy`, and
`HandlePushEvent` of the UI thread).  The buffers are what differs: layouts
and values are overwritten, widgets appended.  `PreviewArrives` says that the
division into chunks makes no difference, and that nothing is lost, stale or
delivered to a deleted model.  Layout lists are one value here; two lists for
different column counts in one chunk leave only the last, which depends on
timing (`collectors.cpp`, `setColumnLayoutList`).

### PreviewModel, PreviewWidgetModel

The preview itself: objects on a heap, reached by id, by order of arrival and
through the columns, whose rows and index are kept by hand
(`PreviewWidgetModel`).  `DispatchPreview` begins a preview,
`ProcessPreviewChunk` takes a chunk and, with the last, drops what was not
received again; `SetWidgetColumnCount` and `Update` are the shell's and the
scope's changes.  The code dereferences null pointers when a later preview is
shorter or laid out differently (`moveWidget()` refuses); `crashed` records
that, and nothing is claimed of what follows.  A widget received again replaces
the object in the hash, so `removeOne()` of the old one fails and the ordered
list keeps what the hash has lost (`previewmodel.cpp:148`); that is why
`ShowsWhatArrived` ends with the second preview and with the first change of
columns.

### Activation

Requests in the order they were made, each with its response; `current` and
`lastAction` are the newest of the page and of the preview, `queue` the events.
`LoginToAccount`, `TokenReceived`, `SetupFinished` are the nested event loop of
`logintoaccount.cpp`.  `SupersededStaysSilent` is the action property that only
newest requests post.  An event already queued when its request is superseded
is still handled (`scope.cpp:208`), which the property does not exclude.
`BusyEnds` needs the absence of three faults, each of which leaves the flag set
for good: a call that throws (`dispatchPreview()`), a query that ends without
response, a cancellation.

Behaviour no document judges: the bar stops while a token is awaited when a
search finishes, although the comment at `logintoaccount.cpp:80` wants it to go
on.

### SettingsModel, Location, LocationSettings

`SettingsModel` is the sheet: rows with a timer each, the ini parser and the
file, then the rows of child scopes, kept by the aggregator and renewed when
metadata come.  `ChosenIsKept` follows what the user chose to where it is
stored.  `chosen` forgets what a renewed list or model discards; `spoiled`
excludes a failed write, a row found by the wrong index while a child has none
(`settingsmodel.cpp:242,459`); no setting has a child's id (458).

`Location` has tokens, the queued `doActivate()` and `doDeactivate()`, the
session with its stop timer, GeoIP and the prompt on first boot.
`LocationSettings` composes it with the sheet of one page through the row
`internal.location`: the row comes and goes with the access, decides what a
search carries, and its change invalidates the page.
`LocationFollowsTokens` ties the position source to the tokens;
`LocationNeedsConsent` says what a search may carry, of the steps that change
`sent`.  `NoProgrammaticPrompt` says that
prepopulation and registry changes never make the prompt appear, not through the
dirty flag of a page that becomes active later either, which is the case the
comment in `invalidateResults()` is about.  The history variable `direct` holds
the pages whose last search, or the request that waits, was not programmatic.
That is less than "the user asked for it": the TTL timer (`scope.cpp:131`),
changed settings (837) and a scope's own signal (`scopes.cpp:575`) leave the
argument at its default too.  A page that was prepopulated and is then shown may
prompt when its TTL timer fires.

Behaviour no document judges: that prompt of the TTL timer; a failed GeoIP
lookup overwrites a valid result; the GeoIP timer runs on without a session; an
old position is sent as exact while a session is active.

### Matchers

What a test expects and how it is compared (`matcher/*.cpp`): rows shown and
rows expected grow one at a time, and `Matches` is evaluated in every mode.
`ModesAgree` says that a match means what it seems to mean and that the modes
are ordered.  `Below`, the children of a row, are lists of ids; a pattern of a
URI is the set of what it matches.

### Composition modules

Several components share a run where they share no state: the initial state
chooses which takes steps, so that the states of one are added to those of the
other and not multiplied.  `MCPage`: `Categories`, `CategoryResults`,
`Navigation`, `CategoryData`.  `MCServices`: `Registry`, `LocationSettings`.
`MCModels`: `SyncModel`, `Filters`, `SettingsModel`, `Matchers`.
`MCPreviewModel`: `PreviewModel`, `PreviewPipeline`.  `MCResultsView`: the
drivers of `ScopeQuery`.  `ListOperators` has the selection of list
elements and the powers of two that several modules use.  Real compositions, with shared state, are
`Categories` of `ResultsModel`s, `ResultsView` of `ScopeQuery`,
`LocationSettings` of `Location` and `SettingsModel`, and `PreviewModel` of
`PreviewWidgetModel`s.

## 4. Runs

| run | shows | bounds |
|---|---|---|
| `SearchPipeline` | one event per collector, no lost wake-up, exactly-once and complete delivery, silence after deletion, and the contract `SearchDelivery` | 2 threads, 2 searches, 2 results each, three ways to finish |
| `SearchPipelineLive` | a finished search stops being in progress; partial results reach the page | the same with 1 result |
| `SearchPipelineError` | finding: an error is taken for success | the same with 1 result |
| `Page` | order, registration and purge of categories (`PageShowsSearch`); rows are the abstract list, no silent removal (`RowsAreAccountedFor`, `ImplementsResultList`); departments (`NavigationFollows`); templates (`LooksAsRegistered`) | 4 categories for 4 places, chunks of 2, a second result in one; rows: 3 results, chunks of up to 3 with repetitions; departments: two levels of 5, two of which come and go, 1 open model, 1 change; look: 4 templates and 1 unreadable, 2 titles, 2 queries, 3 attributes |
| `CategoriesOverfull` | finding: a category with new results is removed | 3 categories, 2 places |
| `ScopeQuery` | a clean page is current; ids and user data belong to the text; hidden pages stay quiet; tests look at finished searches | 4 texts (empty, two that continue one another, an unrelated one), 1 department, 1 filter state, 3 canned queries, 2 continuations per session; driven by the shell or by a test |
| `ScopeQueryLive` | typed texts and chosen filters are searched for | 3 texts, 1 canned query |
| `PreviewModel` | rows, index and objects of a preview agree; a preview shows what arrived; chunks make no difference on the way | 3 widgets (one in two versions, one filled from data), 2 columns, 6 objects, 2 previews, 1 update; on the way: 2 threads, 2 pushes, 2 requests |
| `Activation` | superseded requests are silent; nothing stays busy; the bar stops | 2 requests, 1 preview, 1 search, 2 faults |
| `Services` | dash, overview and GSettings agree; waiting queries are listed; location follows tokens and consent | 4 scopes (the click scope, an invisible one, two more), 2 changes by others, 3 commands, 1 failure; location: 2 pages, 2 queued events, 1 edit, 1 fault |
| `RegistryFailure` | finding: a failed listing drops favourites | 1 command, 1 failure |
| `Models` | syncModel with its views; filters and their state; the settings sheet; the matchers | all pairs of lists over 4 ids, one with two types; 3 filter lists, 2 inputs; 2 settings, 3 children, 3 changes, 1 fault; 2 ids, 2 attributes, 2 rows shown and expected |

Why the bounds are enough.  Two threads are what it takes for one to find the
posted flag set by the other; two searches for one to be superseded, and the
third would meet only what the second meets; two results for one to be in the
cache or on the page while another is in the collector.  For rows,
categories and looks the number of searches is not bounded: the state space is
finite and explored completely; three results give every relative order of a
row that is moved past, kept and removed.  Four places on the page let the limit
be reached with categories of two searches present.  `MaxQueryId` only cuts
sessions of more than two continuations; ids are not compared in another way
after that.  Two requests are one that supersedes the other; two pages with a
token are what it takes for a count that is not a flag; one open model is the
one of the current department or of its parent, and models do not interact.
Two rows and two expectations are enough for repeated ids and for an order that
differs.  Two previews are one that replaces another; the third is where the
code is known to go wrong (see `PreviewModel` above).

No run uses symmetry: thread symmetry would be sound but is not needed, and
category ids occur in a `CHOOSE`, where symmetry would hide behaviours.

Deadlock is checked except where everything may have stopped: the deleted Scope
in the three runs of `SearchPipeline`, the deleted model and the null pointer in
`PreviewModel`, the bounded requests, changes and commands in `Activation`,
`Services` and `RegistryFailure`.

Fairness.  `SearchPipeline!Fairness`: the event loop processes queued events
and expired timers, a dispatch or destruction that has begun ends, and a thread
inside `push()` or `finished()` gets on: it only waits for mutexes that are
held for a few statements.  Nothing is assumed about middleware that never
calls `finished()`.  `ScopeQuery!Fairness`: both single-shot timers fire.  What
restarts them changes the text or the filter state, for which the properties
end their claim about the old one; the exception, `resetFilters()` without a
change, is assumed not to be called for ever.  `Activation!Fairness`: queued
events are handled, and the middleware ends every query it has accepted, with
an answer, an error or its own timeout; the last is a property of libunity-scopes
that the plugin relies on, since it has no timer of its own.

Each property has a mutant in its module (marked "Mutant"), the operation with
a plausible error, under which TLC finds that property violated.

### Findings

* `scope.cpp:188` promises no refresh after an error; a search answered with
  `CompletionDetails::Error` and no operation info is `FINISHED` for
  `getStatus()` (`collectors.cpp:45`) and starts the TTL timer
  (`SearchPipelineError`).
* `categories.cpp:41` says that excess categories *without results* are
  removed; `registerCategory()` looks at models before the flush fills them, so
  a category with results of the present search can go
  (`CategoriesOverfull`).  The comment at `categories.cpp:390`, one excess
  category at most, is not true either: a page that is full of categories with
  results keeps growing.
* `scopes.cpp:441` and `scopes.cpp:444` say that a favourite is dropped because
  its scope is not installed or no longer available; a listing that failed
  (`scopes.cpp:53-90`) is an empty map, so one failure during a refresh drops
  every favourite, in GSettings too (`RegistryFailure`).

## 5. Proofs

`SearchPipelineProofs` proves, for every set of threads, every bound and every
set of completion details (assumptions: the bounds are naturals, the details
have the shape of `CompletionDetails`):

| theorem | statement |
|---|---|
| `TypeCorrect` | `Spec => []TypeOK` |
| `Invariance` | `Spec => []IInv` |
| `OneEvent` | `Spec => []OneEventPerCollector` |
| `NoneStranded` | `Spec => []NoLostWakeup` |
| `NothingLost` | `Spec => []ExactlyOnce` |
| `EndedComplete` | `Spec => []EndedIsComplete` |
| `DeletedScopeIsQuiet` | `Spec => []NoEventToDeletedScope` |

The invariants are not inductive.  `IInv` adds: a search that was not started
has nothing anywhere (`Started`); only the present search has a receiver, and
none has one after deletion (`Attached`); a collector is cancelled exactly when
it is superseded or being so (`Cancellation`); a final status is the one
`finished()` reported, and until it is submitted the finishing thread is the
only one left (`FinalStatus`); the posted flag means an event queued or about
to be, and an unset flag with results in the buffer means a thread about to
submit (`PostedFlag`); a search that has ended has nothing in the pipeline
(`Ended`).  `PostedFlag` is what makes `ExactlyOnce` and `EndedIsComplete`
provable: `collect()` may reset the flag only because it empties the buffer
under the same lock.  There is one lemma per action, and `NextInv` puts them
together.

`ScopeQueryProofs` proves, for any texts, departments, filter states and canned
queries (assumptions: the empty text is a text; canned queries are made of the
sets given; the bound is a natural; null is neither a text nor a request):

| theorem | statement |
|---|---|
| `Types` | `Spec => []TypeOK` |
| `Inductive` | `Spec => []QInv` |
| `CleanResultsAreCurrent` | `Spec => []CleanMeansCurrent` |
| `ShownPageIsClean` | `Spec => []ShownIsClean` |
| `IdsStandForOneText` | `Spec => []IdsTellTexts` |
| `UserDataKeepsToItsText` | `Spec => []UserDataOfItsQuery` |
| `ShellHearsOfText` | `Spec => []TextAnnounced` |
| `HiddenPageIsQuiet` | `Spec => HiddenIsQuiet` |
| `InductiveUnderTests` | `ViewSpec => []QInv` |
| `TestsSeeFinishedSearchesAlways` | `ViewSpec => []TestsSeeFinishedSearches` |

`IdsTellTexts` and `UserDataOfItsQuery` are not inductive: that the ids in use
are new needs the ids sent to be the smaller ones (`IdsGrow`), and that a
request carries the right user data needs the page to hold the right one
(`DataOfText`).  A handler either sends a request, or marks the results dirty
(then the page is not shown), or does neither; `SentInv`, `MarkedInv` and
`KeptInv` prove the invariant for each kind, and the lemma of an action shows
of which kind it is.

The last two theorems are about `ResultsView`, whose steps are those of the page
and those of a test.  `TestInv` says what a waiting call owns: the spy of a call
counts a search that the call itself started or a change it asked for
(`CallHolds`), each wait belongs to the step the call has reached
(`StepOfCall`), and what was asked is what the page is going to search for until
something else is asked (`Asked`).

`SearchPipelineProofs` also proves the refinement: `PipelineDelivers` is
`Spec => ImplementsDelivery`.  Every step of the pipeline is a step of
`SearchDelivery` or leaves its variables alone; `PageInv` is the further
invariant it takes: an entry of `pushed[q]` names `q`, the page shows what was
applied or rows of an older search while one is in progress, and nothing waits
for the delay timer when none is.

`PreviewPipelineProofs` proves, for any threads and bounds (assumption: the
bounds are naturals):

| theorem | statement |
|---|---|
| `PipelineInvariant` | `PipelineSpec => []PInv` |
| `PreviewArrivesAlways` | `PipelineSpec => []PreviewArrives` |

`PreviewArrives` speaks of loaded previews only.  `PInv` adds what holds on the
way: what the model has taken over and what still waits in the collector make up
what was pushed (`Conserved`, with the overwriting of layouts and values), who
may still be busy with which request (`Launched`, `Attached`, `Cancelled`,
`Over`), and that a push that finds an event posted may rely on it
(`PostedFlag`).

The module also proves, for any widgets, layouts and bounds (assumptions: the ids are
finitely many, what a scope pushes has one of them, a layout has a list for each
of its columns, and "no object" is not a widget):

| theorem | statement |
|---|---|
| `IndexMatchesRowsAlways` | `Spec => []IndexMatchesRows` |
| `ShowsWhatArrivedAlways` | `Spec => []ShowsWhatArrived` |

The handlers of `PreviewModel` run through loops and free nothing before they
end, so the invariant speaks of a state within a handler: `Good(p, S)` says that
all pointers of `p` lead to objects of `S`, which exist, that by id one comes to the
widget of that id, and that each column is in order (`ColumnOk`).  Every turn of a
loop keeps it, for an `S` that holds the new objects; `Sound(p)` says it for the
objects that `p` itself points to, and those are what survives at the end of the
handler.  That a new object is none of the old ones is where the room for objects
(`HasRoom`) comes in.  In a column each operation reindexes only some of the
rows; `ShiftedIndexed` shows that these are enough when rows shift by one, for
`removeWidget()` and for both directions of `moveWidget()`, and `AddedIndexed`
that `addReplaceWidget()` must take the id of the replaced widget out first.  The
invariant holds in crashed states too, since the model stops at the null row.

For `ShowsWhatArrived` there is a second invariant, `ArrivedInv`, on top of
`Sound`.  It speaks of the first two previews while nothing changes the columns
or a widget in place (such steps count in `updates` and end the claim), so there
is one column:

* every widget that arrived is reached by its id and received, and the row of its
  id holds a widget with the content that arrived, in the first preview the very
  same object (`Kept`, `ShownAs`);
* a widget that did not arrive is not there, or waits from the preview before,
  not received, and its row holds the object reached by its id (`Waits`);
* no row lies above the place the layout has for it (`AtPlaces`), so that
  `moveWidget()` only moves up, and never meets the row it cannot find.

A widget that comes takes at most the place of one that is not received
(`PutIn`, `CameIn`), and the last chunk removes exactly the widgets that are not
received (`Left`), so what is left is what arrived.  `AtPlaces` is what the null
pointers of later previews break.

`ActivationProofs` proves, for any bounds (assumption: they are naturals):

| theorem | statement |
|---|---|
| `ActivationInvariant` | `Spec => []AInv` |
| `BarStopsAlways` | `Spec => []BarStops` |
| `SupersededStaysSilentAlways` | `Spec => SupersededStaysSilent` |

`AInv` says that a receiver with a target belongs to the newest request of the
page or of the preview (`Newest`), and that a request in the queue has ended and
is there once (`PostedOnce`).

`ServicesProofs` proves, for any pages, any settings and any bounds
(assumptions: the pages are finitely many, the owner of the sheet is one of
them, the settings are a sequence, "no value" is not a value of a setting):

| theorem | statement |
|---|---|
| `LocationInvariant` | `LocatedSpec => [](LocationInv /\ SheetInv)` |
| `LocationFollowsTokensAlways` | `LocatedSpec => []LocationFollowsTokens` |
| `NoProgrammaticPromptAlways` | `LocatedSpec => NoProgrammaticPrompt` |
| `LocationNeedsConsentAlways` | `LocatedSpec => LocationNeedsConsent` |

`DirtyIsDirect` is the inductive part of `NoProgrammaticPromptAlways`: before the
prompt was shown, a request that waits on a page was not programmatic.
The count of the service is not the number of tokens while calls are queued;
`CountFollows` says what it will be after any part of the queue, which is why it
is never clipped at zero.  `SheetInv` is about the row `internal.location`: it
is in the sheet only with the access, and the parser holds what the file holds
unless a write failed.

It also proves, for any scopes, any registries and favourites others
may bring about, and any bounds (assumptions: the ids in the order of their
names are a sequence without repetitions, the click scope is one of them, lists
of favourites have no repetitions):

| theorem | statement |
|---|---|
| `WaitingQueriesAreListedAlways` | `Spec => []WaitingQueriesAreListed` |
| `ListsAgreeAlways` | `Spec => []ListsAgree` |

`ListingInv` relates the query that waits to the listing and the phase.
`RegistryInv` strengthens `ListsAgree` for the time before the first listing:
rows are distinct and not stuck as long as nothing is tangled (`DashFollows`),
and GSettings and favourites agree unless a change is about to be reported
(`FavoritesStored`).  The lemmas say what the loops do to any list:
`InsertMissingProperties` (the ids that were missing are there, none twice), `MoveRowsEnds` (the loop of moves ends within `Enough` turns
with every row at the place of its id), `FollowFavoritesProperties` and
`SetResultsProperties` (dash and overview end with exactly the list asked for,
whatever they showed before).

`ModelsProofs` proves, for any items and any inputs (assumption: keys are
distinct within a list):

| theorem | statement |
|---|---|
| `SynchronisedAlways` | `Spec => []Synchronised` |

`SyncInv` has one part per pass: what is removed and still to be removed
(`Removing`), what was inserted (`Inserting`), which rows are at home
(`Moving`), which objects have been renewed (`Updating`); through all passes the
view equals the model and every object has an origin.  That the third pass ends
is not obvious, since a move can send rows that were at home away again.  The
row that is moved comes home, and only rows before its home are disturbed; if
row `i` at home weighs `2^(i-2)`, every move adds weight, because all rows
before weigh less together (`WeightGains` in `ListProofs`).  Hence there are
less than `2^(n-1)` moves for `n` rows, which is also the bound of the loops of
`Registry`.

It also proves, for any settings, any children and any bounds (assumptions: the
settings are a sequence and no child has the id of one; the aggregator names no
child twice; "no value" is neither a value nor a timer):

| theorem | statement |
|---|---|
| `SheetHoldsAlways` | `SheetSpec => []SheetHolds` |

`SettingsInv` says why what was chosen survives the writes of other rows: the
aggregator gets the whole list of the sheet back, so that list must not be older
than the aggregator's in what the user chose (`KidsStored`), and the parser not
older than the file (`ParserFollows`); a timer holds what was chosen, and the
place of the child in the list unless the row was toggled while another child
had no row (`KidTimers`).  That case is the history variable `spoiled`, and the
code writes to another child then.

And, for any lists of filters and any values (assumptions: no list has an id
twice; filters are of the three kinds; options that are on by default exist):

| theorem | statement |
|---|---|
| `FiltersAgreeAlways` | `ASSUME SlidersKeepBounds PROVE FiltersSpec => []FiltersAgree` |
| `ResetRestoresDefaultsAlways` | `ASSUME SlidersKeepBounds, KindsStay, DefaultsAccepted PROVE FiltersSpec => ResetRestoresDefaults` |

`SlidersKeepBounds` says that a slider which is sent again has the bounds it
had.  A widget may show a value that the state refused; if other bounds allowed
it later, `ValueSliderFilter::update()` would not look again, and widget and
state would differ for no reason that can be seen.  The reset also needs that an
id stays with its type (a primary selector would otherwise write options into
the state of a range) and that defaults are acceptable, which the scopes library
checks.  The filters of the run satisfy all three.  `FiltersInv` adds to
`FiltersAgree` what keeps one widget from changing the state of another:
the primary filter is a selector and not one of the list as long as nothing is
`doubled` (`PrimaryApart`), and ranges and sliders show their state even then
(`OthersShow`).  `GroupedIds` says that grouping repeats no filter and
`StepOk` what any change leaves of a widget: if its value is refused, the widget
differs from the state but says so by a value that is not acceptable; if nothing
is emitted, the state is as it was.

And, for any ids and attributes and rows of any number up to the bound
(assumption: the bound is a positive natural):

| theorem | statement |
|---|---|
| `ModesAgreeAlways` | `MatchersSpec => []ModesAgree` |

`ModesAgree` is about a state and follows from the types.  The kinds of view
differ in how a pair of rows is compared (`PairMatches`) and share the modes, so
the modes are reasoned about once, for any set of pairs: `ModeFinds`,
`ModePrefix`, `AllStartsWith`, `StartsWithById`.

`PageProofs` proves, for any results, any searches and flushes with updates in
between (assumption: the bound is a natural):

| theorem | statement |
|---|---|
| `RowsAreAccountedForAlways` | `RowsSpec => []RowsAreAccountedFor` |
| `RowsImplementResultList` | `RowsSpec => ImplementsResultList` |

Between two calls of the Scope `RowsInv` holds: before the first results of a
search the index is zero and the map of new results empty (`NothingYet`);
afterwards there are as many rows as results, the map says where each of these
is, and every result of the old map is one of the search (`Shows`).  Within a
call the two kinds of flush keep different invariants of their loop.  In the
first one of a search (`PlacedFirst`) the rows up to the present place are
final, the old map is right about all rows below, and what is to come is either
in the old map, below, or not there at all: so rows only move up, a row is never
placed twice, and at the end there are no others.  In a later one
(`PlacedLater`) a result that is new in the search cannot be in the old map, and
every turn appends one.  That the old map may be wrong after an update of a row
does no harm, since it is made anew from the rows in the first flush.
`UpdateMapIsFresh` shows that the list that `ResultsMap::update()` leaves behind
is the one `ResultList` speaks of.

It also proves, for any results, any searches and any flushes (assumptions: at
least two categories fit on the page, as `MAX_NUMBER_OF_CATEGORIES` does; results
belong to categories; and, in the theorem, `FewCategories`: there are no more
categories than fit):

| theorem | statement |
|---|---|
| `PageShowsSearchAlways` | `ASSUME FewCategories PROVE Spec => []PageShowsSearch` |

Without `FewCategories` it does not hold: the run `CategoriesOverfull` shows a
category with results of the search being removed.  `PageInv` says that the
registered categories stand at the top (`InOrder`), that during a search they
show its results with exact maps and the others wait for theirs
(`CategoryShown`), and that the last category is not one a registration could
remove (`KeepsLast`): a page is only full while its last category has rows.  A
known category whose rows an earlier search left empty would otherwise go at the
very moment it is registered.  Within a flush, `Between`
says the same after every turn, for the categories that had their turn and, with
the results from before the flush, for those that have not; one of these that is
the last on the page may be removed by the registration of another, and is a new
category when its turn comes.

And, for any tree of departments, any parts of it the scope sends and any moves
of the user (assumptions: `ParentAssumption`, `ViewsAssumption` and
`NavigationBounds`):

| theorem | statement |
|---|---|
| `NavigationFollowsAlways` | `NavigationSpec => []NavigationFollows` |

The invariant adds to `NavigationFollows` only the types of the open models and
that there are none before there is a tree (`NavigationInv`); the work is in one
step.  `findUpdateNode()` goes down both trees as long as exactly one child
differs, and the subtree of the cache at the place where it stops is replaced.
Its recursion ends because the departments are a tree (`TreeRecursion`), and
where it stops is below where it began (`FoundIsBelow`, from the cases of
`MismatchCases`).  What it leaves out is therefore known of every department
that came (`NodeFound`): it lies on the way down, with nothing different in its
own row, or in a subtree in which nothing differs, or below the place, where the
cache takes it over.  From that the cache is again a tree (`ReplacedIsTree`) and
has what came (`ReplacedHolds`).

`ListProofs` has the lemmas about lists these modules share: `Selected`,
`InsertAt`, `RemoveAt`, moved rows, weights.  Induction on naturals is done there
by taking the least element of a set of counterexamples (`SetInduction`), and
recursive functions are shown to exist by approximations (`Recursion`); with
`LoopExists` and `LoopInvariant` a loop written as one is proved about by giving
the set of states it may be in after each turn.

Only model-checked:

* all liveness (out of the prover's reach): `FinishedSearchEnds`,
  `PartialResultsAreShown`, `BusyEnds` and the properties of `ScopeQueryLive`;
* `LooksAsRegistered`, since `CategoryData` has RECURSIVE operators.

## 6. Not modelled

* Plugin glue: type registration, conversions of values, icon paths; functions
  without state.
* Presentation: roles, labels, surfacing roles of the overview, localisation,
  user agent and partner id.
* Scope harness: builders of arguments, registries that start processes, and
  the classes that copy rows into values.  A `Result` of the harness holds a
  plain index, which names another row after a later search; that is a matter
  of its lifetime in a test and not of a state of the program.
* Python bindings: wrappers of the harness without state.
* Expandable preview widgets, and values of widget attributes beyond one per
  widget.
* `Categories::clearAll()` and the categories the shell adds itself, which no
  search touches.
* The middleware, of which only the order of its callbacks is assumed
  (`MayFinish`: `finished()` comes once, after the pushes of the search have
  returned, and with `Cancelled` only for a cancelled search).
* Priorities, clocks and network delays: a timer may fire at any time it runs.
