----------------------------- MODULE Categories -----------------------------
(***************************************************************************)
(* The categories of a page (categories.cpp) and how the Scope feeds them  *)
(* (scope.cpp:359-384, 565-596): the results of a search accumulate per    *)
(* category; with every flush the categories that got new ones are         *)
(* registered, which gives them the next place on the page, and their      *)
(* models are updated.  Categories the search has not mentioned sink below *)
(* and, once the page has too many, the last one goes if it is empty.      *)
(*                                                                         *)
(* A result is a pair <<category, n>>.                                     *)
(***************************************************************************)
EXTENDS ResultsModel

CONSTANTS
  CategoryIds,
  MaxCategories,  \* MAX_NUMBER_OF_CATEGORIES
  Results,        \* the results there are
  MaxChunk        \* bound: results in one flush

ASSUME CategoriesAssumption ==
  /\ MaxCategories \in Nat \ {0, 1} /\ MaxChunk \in Nat
  /\ Results \subseteq CategoryIds \X Nat

VARIABLES
  categories,    \* m_categories: the ids, in the order of the page
  entries,       \* the keys of m_categoryResults
  model,         \* the ResultsModel of every category on the page
  registered,    \* m_registeredCategories
  categoryIndex, \* m_categoryIndex
  results,       \* m_category_results of the Scope
  searching,     \* between dispatchSearch() and the last flush
  appeared       \* history: categories of the present search, in order

pageVars == <<categories, entries, model, registered, categoryIndex>>
vars == <<pageVars, results, searching, appeared>>

Chunks == BoundedSeq(Results, MaxChunk)
CategoryOf(r) == r[1]

(* s, and the elements of t that it lacks, each once.                      *)
WithNew(s, t) ==
  LET joined[i \in 0 .. Len(t)] ==
        IF i = 0 THEN s
        ELSE IF Contains(joined[i - 1], t[i]) THEN joined[i - 1] ELSE Append(joined[i - 1], t[i])
  IN joined[Len(t)]

(* The categories of a chunk in order of first appearance.                 *)
CategoriesOf(chunk) == WithNew(<<>>, [i \in 1 .. Len(chunk) |-> CategoryOf(chunk[i])])

Init ==
  /\ categories = <<>>
  /\ entries = {}
  /\ model = [c \in CategoryIds |-> EmptyModel(0)]
  /\ registered = {}
  /\ categoryIndex = 0
  /\ results = [c \in CategoryIds |-> <<>>]
  /\ searching = FALSE
  /\ appeared = <<>>

-----------------------------------------------------------------------------
(* The page while a flush goes through its categories, as a record p of    *)
(* the variables in pageVars and of results.                               *)

(* getCategoryIndex(): where c is on the page, or 0.                       *)
Place(p, c) ==
  LET at == {i \in DOMAIN p.categories : p.categories[i] = c}
  IN IF at = {} THEN 0 ELSE Min(at)

(* A mutant of Placed: a category that is on the page stays where it is.   *)
PlacedOnce(p, c) ==
  IF Place(p, c) = 0 THEN InsertAt(p.categories, p.categoryIndex + 1, c) ELSE p.categories

(* Where c goes: to the next place on the page, unless it is above it.     *)
Placed(p, c) ==
  LET next == p.categoryIndex + 1
      at == Place(p, c)
  IN CASE at = 0 -> InsertAt(p.categories, next, c)
       [] at > next -> InsertAt(RemoveAt(p.categories, at), next, c)
       [] at \in 1 .. next -> p.categories

(* The end of registerCategory(): the last category goes when the page is  *)
(* full and it has no results.                                             *)
PurgeExcess(p) ==
  IF Len(p.categories) >= MaxCategories /\ p.model[Last(p.categories)].rows = <<>>
  THEN [p EXCEPT !.categories = Front(@), !.entries = @ \ {Last(p.categories)}]
  ELSE p

(* registerCategory(), with the model a new row would get.                 *)
RegisterCategory(p, c, m) ==
  IF c \in p.registered THEN p
  ELSE LET new == Place(p, c) = 0 IN
       PurgeExcess([p EXCEPT !.registered = @ \cup {c},
                             !.categoryIndex = @ + 1,
                             !.categories = Placed(p, c),
                             !.entries = IF new THEN @ \cup {c} ELSE @,
                             !.model[c] = IF new THEN m ELSE @])

(* One turn of the second loop of processResultSet().  lookupCategory()    *)
(* leaves an entry behind even when there is none, with a null model until *)
(* the category is registered.  A known category whose row goes away when  *)
(* it is registered takes its results with it.                             *)
ShowCategory(p, c) ==
  IF c \notin p.entries \/ ~Contains(p.categories, c)
  THEN LET added == AddResults(EmptyModel(0), p.results[c])
       IN RegisterCategory([p EXCEPT !.entries = @ \cup {c}, !.results[c] = added.results],
                           c, added.model)
  ELSE LET q == RegisterCategory(p, c, EmptyModel(0))
           updated == AddUpdateResults(p.model[c], p.results[c])
       IN [q EXCEPT !.results[c] = updated.results,
                    !.model[c] = IF c \in q.entries THEN updated.model ELSE @]

(* The page when the results of a chunk have been split by category.       *)
Filled(chunk) ==
  LET Of(c) == Selected(chunk, {r \in Results : CategoryOf(r) = c})
  IN [categories |-> categories, entries |-> entries, model |-> model,
      registered |-> registered, categoryIndex |-> categoryIndex,
      results |-> [c \in CategoryIds |-> results[c] \o Of(c)]]

(* processResultSet(): show the categories of a chunk in turn.             *)
ProcessResultSet(chunk) ==
  LET order == CategoriesOf(chunk)
      shown[i \in 0 .. Len(order)] ==
        IF i = 0 THEN Filled(chunk) ELSE ShowCategory(shown[i - 1], order[i])
  IN shown[Len(order)]

(* purgeResults(): empty the models the search did not touch.              *)
PurgeResults(p) ==
  [c \in CategoryIds |-> IF c \in p.entries THEN PurgeModel(p.model[c]) ELSE p.model[c]]

SetPage(p) ==
  /\ categories' = p.categories
  /\ entries' = p.entries
  /\ registered' = p.registered
  /\ categoryIndex' = p.categoryIndex

NoteCategories(chunk) == appeared' = WithNew(appeared, CategoriesOf(chunk))

-----------------------------------------------------------------------------
(* dispatchSearch(): m_category_results.clear() and markNewSearch().       *)
NewSearch ==
  /\ searching' = TRUE
  /\ registered' = {}
  /\ categoryIndex' = 0
  /\ model' = [c \in CategoryIds |-> IF c \in entries THEN MarkNewSearch(model[c]) ELSE model[c]]
  /\ results' = [c \in CategoryIds |-> <<>>]
  /\ appeared' = <<>>
  /\ UNCHANGED <<categories, entries>>

(* flushUpdates(false) with something in the cache.                        *)
Flush(chunk) ==
  /\ searching
  /\ LET p == ProcessResultSet(chunk) IN
       /\ SetPage(p)
       /\ model' = p.model
       /\ results' = p.results
  /\ NoteCategories(chunk)
  /\ searching' = searching

(* flushUpdates(true).                                                     *)
LastFlush(chunk) ==
  /\ searching
  /\ LET p == ProcessResultSet(chunk) IN
       /\ SetPage(p)
       /\ model' = PurgeResults(p)
       /\ results' = [c \in CategoryIds |-> <<>>]
  /\ NoteCategories(chunk)
  /\ searching' = FALSE

Next ==
  \/ NewSearch
  \/ \E chunk \in Chunks \ {<<>>} : Flush(chunk)
  \/ \E chunk \in Chunks : LastFlush(chunk)

Spec == Init /\ [][Next]_vars

-----------------------------------------------------------------------------
(* Properties.                                                             *)

(* Every variable keeps its type, and the next place to insert a category  *)
(* at is on the page or right below it (categories.h:81-85).               *)
TypeOK ==
  /\ categories \in Seq(CategoryIds)
  /\ entries \subseteq CategoryIds
  /\ \A c \in CategoryIds : model[c].rows \in Seq(Results) /\ model[c].last \in Nat
  /\ registered \subseteq CategoryIds
  /\ categoryIndex \in 0 .. Len(categories)
  /\ \A c \in CategoryIds : results[c] \in Seq(Results)
  /\ searching \in BOOLEAN
  /\ appeared \in Seq(CategoryIds)

(* Besides the types, m_categoryResults has a model for the categories on  *)
(* the page and for no others: markNewSearch() and purgeResults() call     *)
(* every entry without asking whether it is null (categories.cpp:307-310,  *)
(* 389-407, 446-469).                                                      *)
EntriesAreRows == TypeOK /\ IsInjective(categories) /\ entries = ToSet(categories)

(* The categories of the present search stand at the top of the page, in   *)
(* the order in which their first results came, wherever earlier searches  *)
(* had left them (categories.cpp:324-387, scope.cpp:565-596).              *)
TopOfPage ==
  /\ categoryIndex = Len(appeared)
  /\ IsPrefix(appeared, categories)

(* Everything the search in progress returned is in a model on the page,   *)
(* also when registering its category made another one go                  *)
(* (scope.cpp:583-595, categories.cpp:389-407).                            *)
NothingHidden ==
  \A c \in CategoryIds : results[c] # <<>> =>
    Contains(categories, c) /\ model[c].rows = results[c]

(* When a search has ended, the categories with rows are those it returned *)
(* (categories.cpp:455-469).                                               *)
EndedShowsOnlyItsOwn ==
  ~searching =>
    \A c \in ToSet(categories) : model[c].rows # <<>> <=> Contains(appeared, c)

(* All of it: the page has the categories it has rows for, those of the    *)
(* search stand at its top, they show all that it returned, and when it    *)
(* has ended there is nothing else (categories.cpp:307-407, 446-469).      *)
PageShowsSearch == EntriesAreRows /\ TopOfPage /\ NothingHidden /\ EndedShowsOnlyItsOwn

(* categories.cpp:41: when the maximum is reached, "any excess categories  *)
(* which have no results will be removed".  A category the search has just *)
(* returned results for is not removed.                                    *)
RemovedAreUnused ==
  [][\A c \in ToSet(categories) \ ToSet(categories') : ~Contains(appeared', c)]_vars
=============================================================================
