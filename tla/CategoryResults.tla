--------------------------- MODULE CategoryResults ---------------------------
(***************************************************************************)
(* One category through a series of searches: the Scope accumulates what   *)
(* the present search returned for it and hands the list to the category's *)
(* ResultsModel again and again (scope.cpp:565-596), marks the model when  *)
(* a search starts and purges it when one ends, and an action on a result  *)
(* may change a row in between (scope.cpp:236-245).                        *)
(***************************************************************************)
EXTENDS ResultsModel

CONSTANTS
  RowResults,  \* the results there are; == on results is equality here
  MaxRowChunk  \* bound: results of the category in one flush

ASSUME RowsAssumption == MaxRowChunk \in Nat

VARIABLES
  rowModel,     \* the ResultsModel
  rowResults,   \* m_category_results of this category
  rowSearching, \* between dispatchSearch() and the last flush
  collided      \* history: an update made two results equal

rowVars == <<rowModel, rowResults, rowSearching, collided>>

RowChunks == BoundedSeq(RowResults, MaxRowChunk)

RowsInit ==
  /\ rowModel \in {EmptyModel(garbage) : garbage \in 0 .. MaxRowChunk}
  /\ rowResults = <<>>
  /\ rowSearching = FALSE
  /\ collided = FALSE

(* An update makes a row equal to another one, or the search returns what  *)
(* an update has put in a row already.                                     *)
UpdateCollides(r, u) == r # u /\ Contains(rowModel.rows, r) /\ Contains(rowModel.rows, u)
ChunkCollides(chunk) ==
  rowResults # <<>> /\ \E r \in ToSet(chunk) : Contains(rowModel.rows, r) /\ ~Contains(rowResults, r)

(* dispatchSearch(): m_category_results.clear() and markNewSearch().       *)
NewRowSearch ==
  /\ rowModel' = MarkNewSearch(rowModel)
  /\ rowResults' = <<>>
  /\ rowSearching' = TRUE
  /\ collided' = collided

(* flushUpdates(false) with results of this category in the cache.         *)
FlushRows(chunk) ==
  /\ rowSearching
  /\ LET updated == AddUpdateResults(rowModel, rowResults \o chunk)
     IN rowModel' = updated.model /\ rowResults' = updated.results
  /\ rowSearching' = rowSearching
  /\ collided' = (collided \/ ChunkCollides(chunk))

(* flushUpdates(true), with or without results of this category.           *)
LastFlushRows(chunk) ==
  /\ rowSearching
  /\ LET updated == IF chunk = <<>> THEN [model |-> rowModel]
                    ELSE AddUpdateResults(rowModel, rowResults \o chunk)
     IN rowModel' = PurgeModel(updated.model)
  /\ rowResults' = <<>>
  /\ rowSearching' = FALSE
  /\ collided' = (collided \/ ChunkCollides(chunk))

(* The response to an action brings a new version of a result on the page. *)
UpdateResultRow(r, u) ==
  /\ rowModel' = UpdateResult(rowModel, r, u)
  /\ collided' = (collided \/ UpdateCollides(r, u))
  /\ UNCHANGED <<rowResults, rowSearching>>

RowsNext ==
  \/ NewRowSearch
  \/ rowSearching /\ \E chunk \in RowChunks \ {<<>>} : FlushRows(chunk)
  \/ rowSearching /\ \E chunk \in RowChunks : LastFlushRows(chunk)
  \/ \E r \in RowResults, u \in RowResults : UpdateResultRow(r, u)

RowsSpec == RowsInit /\ [][RowsNext]_rowVars

-----------------------------------------------------------------------------
(* Properties.                                                             *)

(* The fields of a model, the list the Scope keeps and the flags have      *)
(* their types, and the list never holds a result twice (resultsmap.h:45). *)
RowsTypeOK ==
  /\ rowModel.rows \in Seq(RowResults)
  /\ \A map \in {rowModel.new, rowModel.old} :
       DOMAIN map \subseteq RowResults /\ \A r \in DOMAIN map : map[r] \in Nat
  /\ rowModel.last \in Nat
  /\ rowModel.purge \in BOOLEAN /\ rowModel.silent \in BOOLEAN /\ rowModel.movedDown \in BOOLEAN
  /\ rowResults \in Seq(RowResults) /\ IsInjective(rowResults)
  /\ rowSearching \in BOOLEAN /\ collided \in BOOLEAN

(* The rows are what ResultList says: results of the present search in     *)
(* order of arrival, without duplicates, nothing of an earlier search      *)
(* left, whatever was there before and whatever actions updated meanwhile  *)
(* (resultsmodel.cpp:111-235, 305-322).                                    *)
List == INSTANCE ResultList WITH
          Results <- RowResults,
          MaxChunk <- MaxRowChunk,
          rows <- rowModel.rows,
          seen <- ToSet(rowResults),
          active <- rowSearching
ImplementsResultList == List!Spec

(* Every row that goes away is announced to the views, as long as no       *)
(* update made two results equal: then rebuilding the old-result map       *)
(* erases one of the two rows itself (resultsmodel.cpp:138-152,            *)
(* resultsmap.h:53-55).                                                    *)
NoSilentRemoval == ~collided => ~rowModel.silent

(* "This should never actually happen - as incoming results are iterated   *)
(* we should only be facing results which had greater position previously" *)
(* (resultsmodel.cpp:169-170).                                             *)
NeverMovesDown == ~rowModel.movedDown

(* The new-result map says where in the list each result is: what          *)
(* consecutive flushes of a search rely on to recognise results they have  *)
(* placed already (resultsmodel.cpp:127-128, 188; resultsmap.h:37-52).     *)
NewMapIsExact ==
  rowResults # <<>> =>
    /\ rowModel.last = Len(rowResults)
    /\ DOMAIN rowModel.new = ToSet(rowResults)
    /\ \A r \in DOMAIN rowModel.new : rowResults[rowModel.new[r]] = r

(* The three together: the views hear of every row that goes, rows only    *)
(* move up, and the map of the present search is its list                  *)
(* (resultsmodel.cpp:111-235).                                             *)
RowsAreAccountedFor == RowsTypeOK /\ NoSilentRemoval /\ NeverMovesDown /\ NewMapIsExact
=============================================================================
