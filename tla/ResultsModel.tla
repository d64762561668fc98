---------------------------- MODULE ResultsModel ----------------------------
(***************************************************************************)
(* ResultsModel (resultsmodel.cpp): the rows of one category, and how the  *)
(* results of a search replace them with as few row signals as possible.   *)
(*                                                                         *)
(* A model is a record:                                                    *)
(*   rows         m_results                                                *)
(*   new, old     m_search_ctx.newResultsMap and oldResultsMap             *)
(*   last         m_search_ctx.lastResultIndex                             *)
(*   purge        m_purge                                                  *)
(*   silent       history: a row went away without a row signal            *)
(*   movedDown    history: some row was moved towards the end              *)
(*                                                                         *)
(* The lists of results the Scope accumulates are passed by reference and  *)
(* come back without duplicates: AddResults and AddUpdateResults return    *)
(* the model and the list.                                                 *)
(***************************************************************************)
EXTENDS ResultsMap, ListOperators

(* Nothing initialises lastResultIndex: garbage is what the memory held.   *)
EmptyModel(garbage) ==
  [rows |-> <<>>, new |-> EmptyMap, old |-> EmptyMap, last |-> garbage, purge |-> TRUE,
   silent |-> FALSE, movedDown |-> FALSE]

(* addResults(), for a list that is not empty.                             *)
AddResults(m, results) ==
  LET known == MapOf(results)
      rows == m.rows \o known.list
  IN [model   |-> [m EXCEPT !.rows = rows, !.new = known.map, !.old = known.map,
                            !.last = Len(rows), !.purge = FALSE],
      results |-> known.list]

(* The first chunk of a search: remove the rows that are not in the new    *)
(* results, with a signal for each, and index what is left.  Indexing too  *)
(* takes duplicates out of the rows it is given, without a signal.         *)
RemoveStale(m) ==
  LET kept == Selected(m.rows, {r \in DOMAIN m.new : FindResult(m.new, r) # 0})
      index == MapOf(kept)
  IN [m EXCEPT !.rows = index.list, !.old = index.map, !.silent = @ \/ index.list # kept]

MovedRow(rows, from, to) == InsertAt(RemoveAt(rows, from), to, rows[from])

(* A mutant of PlaceRow: inserting does not move the indices below.        *)
PlaceRowWithStaleIndices(m, results, row) ==
  LET oldPos == FindResult(m.old, results[row])
  IN IF oldPos = 0 THEN [m EXCEPT !.rows = InsertAt(@, row, results[row])]
     ELSE [m EXCEPT !.rows = MovedRow(@, oldPos, row), !.movedDown = @ \/ oldPos < row]

(* Bring result number row of the list to its place: a row that was there  *)
(* before is moved, another one inserted.                                  *)
PlaceRow(m, results, row) ==
  LET oldPos == FindResult(m.old, results[row])
      moved == MovedRow(m.rows, oldPos, row)
      inserted == InsertAt(m.rows, row, results[row])
  IN CASE oldPos = row -> m
       [] oldPos = 0 ->
            [m EXCEPT !.rows = inserted,
                      !.old = UpdateIndices(@, inserted, row + 1, Len(inserted))]
       [] oldPos \notin {0, row} ->
            [m EXCEPT !.rows = moved,
                      !.old = UpdateIndices(@, moved, Min({row, oldPos}), Max({row, oldPos})),
                      !.movedDown = @ \/ oldPos < row]

(* The loop over the results that are new since the last call.             *)
PlaceRows(m, results) ==
  LET placed[n \in 0 .. Len(results) - m.last] ==
        IF n = 0 THEN m ELSE PlaceRow(placed[n - 1], results, m.last + n)
  IN placed[Len(results) - m.last]

(* addUpdateResults(): the first results of an empty model are just added; *)
(* otherwise the rows of earlier searches are swept out once per search,   *)
(* and the results that are new since the last call are placed in turn.    *)
AddUpdateResults(m, results) ==
  IF m.rows = <<>> THEN AddResults(m, results)
  ELSE LET known == UpdateMap(m.new, results, m.last)
           started == [m EXCEPT !.new = known.map, !.purge = FALSE]
           swept == IF m.last = 0 THEN RemoveStale(started) ELSE started
       IN [model |-> [PlaceRows(swept, known.list) EXCEPT !.last = Len(known.list)],
           results |-> known.list]

MarkNewSearch(m) == [m EXCEPT !.purge = TRUE, !.last = 0, !.new = EmptyMap]

(* clearResults() leaves a model without rows as it is.                    *)
ClearResults(m) ==
  IF m.rows = <<>> THEN m
  ELSE [m EXCEPT !.rows = <<>>, !.new = EmptyMap, !.old = EmptyMap, !.last = 0]

(* A mutant of PurgeModel: the test is the wrong way round.                *)
PurgeTouched(m) == IF m.purge THEN m ELSE ClearResults(m)

PurgeModel(m) == IF m.purge THEN ClearResults(m) ELSE m

(* updateResult(): the first row that holds r, if any, now holds u.        *)
UpdateResult(m, r, u) ==
  LET at == {i \in DOMAIN m.rows : m.rows[i] = r}
  IN IF at = {} THEN m
     ELSE [m EXCEPT !.rows[Min(at)] = u]
=============================================================================
