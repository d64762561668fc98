----------------------------- MODULE ResultsMap -----------------------------
(***************************************************************************)
(* ResultsMap (resultsmap.h, resultsmap.cpp): where each result is in a    *)
(* list.  The class keeps a multimap from uris, but update() never adds a  *)
(* result it finds there, so what it holds is a function from results to   *)
(* positions.  Positions count from 1, and 0 stands for "not found".       *)
(***************************************************************************)
EXTENDS Integers, Sequences, SequencesExt

EmptyMap == [r \in {} |-> 0]

FindResult(map, r) == IF r \in DOMAIN map THEN map[r] ELSE 0

(* One turn of the loop of update(): a result already known is taken out   *)
(* of the list, which the caller passed by reference.                      *)
Enter(known, r) ==
  IF FindResult(known.map, r) # 0 THEN known
  ELSE [map  |-> [x \in DOMAIN known.map \cup {r} |->
                    IF x = r THEN Len(known.list) + 1 ELSE known.map[x]],
        list |-> Append(known.list, r)]

(* update(): enter the results of the list after the first start ones.     *)
UpdateMap(map, list, start) ==
  LET known[n \in 0 .. Len(list) - start] ==
        IF n = 0 THEN [map |-> map, list |-> SubSeq(list, 1, start)]
        ELSE Enter(known[n - 1], list[start + n])
  IN known[Len(list) - start]

(* The constructor from a list, and rebuild().                             *)
MapOf(list) == UpdateMap(EmptyMap, list, 0)

(* updateIndices(): correct the positions of the rows from .. to.          *)
UpdateIndices(map, rows, from, to) ==
  [r \in DOMAIN map |->
     LET places == {i \in from .. to : i <= Len(rows) /\ rows[i] = r}
     IN IF places = {} THEN map[r] ELSE Max(places)]
=============================================================================
