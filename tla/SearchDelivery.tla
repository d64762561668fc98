--------------------------- MODULE SearchDelivery ---------------------------
(***************************************************************************)
(* What a scope page promises about its searches, without the machinery:   *)
(* the rows on the page are those of the last search until the first       *)
(* results of the present one are shown; from then on they are an initial  *)
(* part of what the present search pushed, which only grows; and when the  *)
(* search ends they are all of it.  A search that was superseded never     *)
(* touches the page again.                                                 *)
(*                                                                         *)
(* scope.cpp:708-724 describes this contract; SearchPipeline implements it *)
(* with collectors, events and timers.                                     *)
(***************************************************************************)
EXTENDS Integers, Sequences

CONSTANTS MaxQueries, MaxResults

Queries == 1 .. MaxQueries

VARIABLES
  query,    \* the present search, 0 before the first
  pushed,   \* results pushed so far, per search
  closed,   \* searches that push no more
  visible,  \* rows on the page
  running   \* the page says that the search is in progress

vars == <<query, pushed, closed, visible, running>>

Init ==
  /\ query = 0
  /\ pushed = [q \in Queries |-> <<>>]
  /\ closed = {}
  /\ visible = <<>>
  /\ running = FALSE

(* The page shows results of search q.                                     *)
Shows(q) == visible # <<>> /\ visible[1][1] = q

(* A new search replaces the present one; it may fail at once.             *)
Dispatch ==
  /\ query < MaxQueries
  /\ query' = query + 1
  /\ running' \in BOOLEAN
  /\ UNCHANGED <<pushed, closed, visible>>

(* Any search that was started, superseded or not, may push.               *)
Push(q) ==
  /\ q <= query
  /\ q \notin closed
  /\ Len(pushed[q]) < MaxResults
  /\ pushed' = [pushed EXCEPT ![q] = Append(@, <<q, Len(@) + 1>>)]
  /\ UNCHANGED <<query, closed, visible, running>>

Close(q) ==
  /\ q <= query
  /\ q \notin closed
  /\ closed' = closed \cup {q}
  /\ UNCHANGED <<query, pushed, visible, running>>

(* More rows of the present search appear.                                 *)
Show ==
  /\ running
  /\ \E n \in 1 .. Len(pushed[query]) :
       /\ Shows(query) => n > Len(visible)
       /\ visible' = SubSeq(pushed[query], 1, n)
  /\ UNCHANGED <<query, pushed, closed, running>>

(* The search ends with everything it pushed on the page.                  *)
Finish ==
  /\ running
  /\ query \in closed
  /\ visible' = pushed[query]
  /\ running' = FALSE
  /\ UNCHANGED <<query, pushed, closed>>

Next ==
  \/ Dispatch
  \/ \E q \in Queries : Push(q)
  \/ \E q \in Queries : Close(q)
  \/ Show
  \/ Finish

Spec == Init /\ [][Next]_vars
=============================================================================
