----------------------------- MODULE ResultList -----------------------------
(***************************************************************************)
(* What the list of results of a category shows, without the maps and row  *)
(* moves of ResultsModel: the first results of a search replace the list,  *)
(* later ones are appended, each result once and in the order in which it  *)
(* first came; a search without any result for the category empties it     *)
(* when it ends; an update replaces one row where it stands.               *)
(***************************************************************************)
EXTENDS Integers, Sequences, SequencesExt

CONSTANTS
  Results,  \* the results there are
  MaxChunk  \* bound: results that come at once

VARIABLES
  rows,   \* the list
  seen,   \* results of the present search so far
  active  \* a search is going on

vars == <<rows, seen, active>>

Init == rows = <<>> /\ seen = {} /\ active = FALSE

(* The results of a chunk that were not seen before, without repetitions.  *)
Fresh(chunk) ==
  LET FirstTime(i) == chunk[i] \notin seen /\ \A j \in 1 .. i - 1 : chunk[j] # chunk[i]
      fresh[i \in 0 .. Len(chunk)] ==
        IF i = 0 THEN <<>>
        ELSE IF FirstTime(i) THEN Append(fresh[i - 1], chunk[i]) ELSE fresh[i - 1]
  IN fresh[Len(chunk)]

Extended(chunk) == IF seen = {} THEN Fresh(chunk) ELSE rows \o Fresh(chunk)

NewSearch == seen' = {} /\ active' = TRUE /\ rows' = rows

Extend(chunk) ==
  /\ active
  /\ rows' = Extended(chunk)
  /\ seen' = seen \cup ToSet(chunk)
  /\ active' = active

(* The last chunk, which may be empty.                                     *)
Finish(chunk) ==
  /\ active
  /\ rows' = IF chunk = <<>> /\ seen # {} THEN rows ELSE Extended(chunk)
  /\ seen' = {}
  /\ active' = FALSE

Update(i, u) == rows' = ReplaceAt(rows, i, u) /\ UNCHANGED <<seen, active>>

Chunks == BoundedSeq(Results, MaxChunk)

Next ==
  \/ NewSearch
  \/ \E chunk \in Chunks \ {<<>>} : Extend(chunk)
  \/ \E chunk \in Chunks : Finish(chunk)
  \/ \E i \in DOMAIN rows, u \in Results : Update(i, u)

Spec == Init /\ [][Next]_vars
=============================================================================
