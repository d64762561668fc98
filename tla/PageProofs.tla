----------------------------- MODULE PageProofs -----------------------------
(***************************************************************************)
(* The rows of a category are the results of its search, however they are  *)
(* found in the maps and moved; and the page shows the categories of its   *)
(* search, whatever earlier searches have left on it.                      *)
(* The departments it has cached, and the models of them, follow what the  *)
(* scope sent last.                                                        *)
(***************************************************************************)
EXTENDS Categories, CategoryResults, Navigation, ListProofs

-----------------------------------------------------------------------------
(* ResultsMap.                                                             *)

ResultMaps(S) == UNION {[D -> Nat] : D \in SUBSET S}

(* The map says where in the list each of its elements is, once.           *)
Indexes(map, list) == DOMAIN map = Range(list) /\ \A i \in 1 .. Len(list) : map[list[i]] = i

Entered(S) == [map : ResultMaps(S), list : Seq(S)]

LEMMA MapsProperties ==
  ASSUME NEW S
  PROVE  /\ \A map \in ResultMaps(S) : /\ DOMAIN map \subseteq S /\ map \in [DOMAIN map -> Nat]
         /\ \A D \in SUBSET S : [D -> Nat] \subseteq ResultMaps(S)
         /\ EmptyMap \in ResultMaps(S) /\ DOMAIN EmptyMap = {}
<1>1. \A map \in ResultMaps(S) : DOMAIN map \subseteq S /\ map \in [DOMAIN map -> Nat]
  <2>1. SUFFICES ASSUME NEW map \in ResultMaps(S) PROVE DOMAIN map \subseteq S /\ map \in [DOMAIN map -> Nat]
    OBVIOUS
  <2>2. PICK D \in SUBSET S : map \in [D -> Nat]
    BY DEF ResultMaps
  <2>3. QED
    BY <2>2
<1>2. \A D \in SUBSET S : [D -> Nat] \subseteq ResultMaps(S)
  BY DEF ResultMaps
<1>3. EmptyMap \in [{} -> Nat] /\ {} \in SUBSET S /\ DOMAIN EmptyMap = {}
  BY DEF EmptyMap
<1>4. EmptyMap \in ResultMaps(S)
  BY <1>2, <1>3
<1>5. QED
  BY <1>1, <1>2, <1>3, <1>4

LEMMA IndexesProperties ==
  ASSUME NEW S, NEW list \in Seq(S), NEW map \in ResultMaps(S), Indexes(map, list)
  PROVE  /\ IsInjective(list)
         /\ \A r : FindResult(map, r) # 0 <=> r \in Range(list)
         /\ \A r \in Range(list) : FindResult(map, r) \in 1 .. Len(list) /\ list[FindResult(map, r)] = r
<1>1. /\ Len(list) \in Nat /\ DOMAIN list = 1 .. Len(list)
      /\ \A x \in Range(list) : \E i \in 1 .. Len(list) : list[i] = x
      /\ \A i \in 1 .. Len(list) : list[i] \in Range(list)
  BY RangeProperties
<1>2. IsInjective(list)
  BY <1>1 DEF Indexes, IsInjective
<1>3. ASSUME NEW r \in Range(list) PROVE FindResult(map, r) \in 1 .. Len(list) /\ list[FindResult(map, r)] = r
  <2>1. PICK i \in 1 .. Len(list) : list[i] = r
    BY <1>1
  <2>2. FindResult(map, r) = i
    BY <2>1 DEF Indexes, FindResult
  <2>3. QED
    BY <2>1, <2>2
<1>4. ASSUME NEW r, r \notin Range(list) PROVE FindResult(map, r) = 0
  BY <1>4 DEF Indexes, FindResult
<1>5. \A r \in Range(list) : FindResult(map, r) # 0
  BY <1>1, <1>3
<1>6. QED
  BY <1>2, <1>3, <1>4, <1>5

LEMMA EnterProperties ==
  ASSUME NEW S, NEW v \in Entered(S), Indexes(v.map, v.list), NEW r \in S
  PROVE  /\ Enter(v, r) \in Entered(S) /\ Indexes(Enter(v, r).map, Enter(v, r).list)
         /\ r \in Range(v.list) => Enter(v, r) = v
         /\ r \notin Range(v.list) => Enter(v, r).list = Append(v.list, r)
<1>1. v.map \in ResultMaps(S) /\ v.list \in Seq(S)
  BY DEF Entered
<1>2. PICK l \in Seq(S) : l = v.list
  BY <1>1
<1>3. PICK m \in ResultMaps(S) : m = v.map
  BY <1>1
<1>4. FindResult(m, r) # 0 <=> r \in Range(l)
  BY <1>2, <1>3, IndexesProperties
<1>5. CASE r \in Range(l)
  <2>1. Enter(v, r) = v
    BY <1>2, <1>3, <1>4, <1>5 DEF Enter
  <2>2. QED
    BY <1>2, <1>5, <2>1
<1>6. CASE r \notin Range(l)
  <2>1. PICK n \in Nat : n = Len(l)
    BY <1>2, LenProperties
  <2>2. PICK list : list = Append(l, r)
    OBVIOUS
  <2>3. list \in Seq(S) /\ Len(list) = n + 1 /\ list[n + 1] = r /\ \A i \in 1 .. n : list[i] = l[i]
    BY <2>1, <2>2
  <2>4. /\ DOMAIN m \subseteq S /\ m \in [DOMAIN m -> Nat] /\ DOMAIN m = Range(l)
        /\ \A i \in 1 .. n : m[l[i]] = i /\ l[i] \in Range(l)
    BY <1>2, <1>3, <2>1, MapsProperties, RangeProperties DEF Indexes
  <2>5. PICK map : map = [x \in DOMAIN m \cup {r} |-> IF x = r THEN Len(l) + 1 ELSE m[x]]
    OBVIOUS
  <2>6. map \in [DOMAIN m \cup {r} -> Nat] /\ DOMAIN m \cup {r} \in SUBSET S
    BY <2>1, <2>4, <2>5
  <2>7. map \in ResultMaps(S)
    BY <2>6, MapsProperties
  <2>8. Enter(v, r) = [map |-> map, list |-> list]
    BY <1>2, <1>3, <1>4, <1>6, <2>2, <2>5 DEF Enter
  <2>9. Range(list) = Range(l) \cup {r}
    <3>1. DOMAIN list = 1 .. n + 1 /\ DOMAIN l = 1 .. n
      BY <1>2, <2>1, <2>3, LenProperties
    <3>2. \A x \in Range(list) : x \in Range(l) \cup {r}
      <4>1. SUFFICES ASSUME NEW i \in 1 .. n + 1 PROVE list[i] \in Range(l) \cup {r}
        BY <3>1 DEF Range
      <4>2. CASE i = n + 1
        BY <2>3, <4>2
      <4>3. CASE i # n + 1
        <5>1. i \in 1 .. n
          BY <4>3
        <5>2. QED
          BY <2>3, <2>4, <5>1
      <4>4. QED
        BY <4>2, <4>3
    <3>3. r \in Range(list)
      BY <2>3, <3>1 DEF Range
    <3>4. \A x \in Range(l) : x \in Range(list)
      <4>1. SUFFICES ASSUME NEW i \in 1 .. n PROVE l[i] \in Range(list)
        BY <3>1 DEF Range
      <4>2. i \in 1 .. n + 1 /\ list[i] = l[i]
        BY <2>3
      <4>3. QED
        BY <3>1, <4>2 DEF Range
    <3>5. QED
      BY <3>2, <3>3, <3>4
  <2>10. ASSUME NEW i \in 1 .. Len(list) PROVE map[list[i]] = i
    <3>1. CASE i = n + 1
      BY <2>1, <2>3, <2>5, <3>1
    <3>2. CASE i # n + 1
      <4>1. i \in 1 .. n
        BY <2>3, <3>2
      <4>2. list[i] = l[i] /\ l[i] \in DOMAIN m /\ m[l[i]] = i /\ l[i] # r
        BY <1>6, <2>3, <2>4, <4>1
      <4>3. QED
        BY <2>5, <4>2
    <3>3. QED
      BY <3>1, <3>2
  <2>11. Indexes(map, list)
    BY <2>4, <2>5, <2>9, <2>10 DEF Indexes
  <2>12. Enter(v, r) \in Entered(S)
    BY <2>3, <2>7, <2>8 DEF Entered
  <2>13. QED
    BY <1>2, <1>6, <2>2, <2>8, <2>11, <2>12
<1>7. QED
  BY <1>5, <1>6

(* The list after k turns of update().                                     *)
EnteredAfter(S, list, start, k) ==
  {w \in Entered(S) :
     /\ Indexes(w.map, w.list) /\ Len(w.list) \in start .. start + k
     /\ Range(w.list) = {list[i] : i \in 1 .. start + k}
     /\ \A i \in 1 .. start : w.list[i] = list[i]
     /\ IsInjective(list) => Len(w.list) = start + k /\ \A i \in 1 .. start + k : w.list[i] = list[i]}

LEMMA EnterNext ==
  ASSUME NEW S, NEW list \in Seq(S), NEW start \in 0 .. Len(list),
         NEW k \in 0 .. Len(list) - start - 1, NEW w \in EnteredAfter(S, list, start, k)
  PROVE  Enter(w, list[start + k + 1]) \in EnteredAfter(S, list, start, k + 1)
<1>1. /\ w \in Entered(S) /\ Indexes(w.map, w.list) /\ Len(w.list) \in start .. start + k
      /\ Range(w.list) = {list[i] : i \in 1 .. start + k}
      /\ \A i \in 1 .. start : w.list[i] = list[i]
      /\ IsInjective(list) => Len(w.list) = start + k /\ \A i \in 1 .. start + k : w.list[i] = list[i]
  BY DEF EnteredAfter
<1>2. w.list \in Seq(S)
  BY <1>1 DEF Entered
<1>3. PICK l \in Seq(S) : l = w.list
  BY <1>2
<1>4. PICK m \in Nat : m = start + k
  BY LenProperties
<1>5. m + 1 = start + k + 1 /\ m + 1 = start + (k + 1) /\ m + 1 \in 1 .. Len(list) /\ start \in Nat /\ start <= m
  BY <1>4, LenProperties
<1>6. list[m + 1] \in S /\ IsInjective(list) => \A i \in 1 .. m : list[i] # list[m + 1]
  <2>1. /\ Len(list) \in Nat /\ \A i \in 1 .. Len(list) : list[i] \in S
        /\ IsInjective(list) => \A i, j \in 1 .. Len(list) : list[i] = list[j] => i = j
    BY RangeProperties
  <2>2. \A i \in 1 .. m : i \in 1 .. Len(list) /\ i # m + 1
    BY <1>5, <2>1
  <2>3. QED
    BY <1>5, <2>1, <2>2
<1>7. PICK r \in S : r = list[m + 1]
  BY <1>5, RangeProperties
<1>8. PICK v : v = Enter(w, r)
  OBVIOUS
<1>9. /\ v \in Entered(S) /\ Indexes(v.map, v.list)
      /\ r \in Range(l) => v = w
      /\ r \notin Range(l) => v.list = Append(l, r)
  BY <1>1, <1>3, <1>8, EnterProperties
<1>10. {list[i] : i \in 1 .. m + 1} = {list[i] : i \in 1 .. m} \cup {r}
  <2>1. 1 .. m + 1 = 1 .. m \cup {m + 1}
    OBVIOUS
  <2>2. QED
    BY <1>7, <2>1
<1>11. CASE r \in Range(l)
  <2>1. v = w /\ v.list = l
    BY <1>3, <1>9, <1>11
  <2>2. ~IsInjective(list)
    <3>1. r \in {list[i] : i \in 1 .. m}
      BY <1>1, <1>3, <1>4, <1>11
    <3>2. QED
      BY <1>6, <1>7, <3>1, <1>5, RangeProperties
  <2>3. Len(l) \in start .. start + (k + 1)
    BY <1>1, <1>3, <1>4, <1>5
  <2>4. Range(l) = {list[i] : i \in 1 .. start + (k + 1)}
    BY <1>1, <1>3, <1>4, <1>5, <1>10, <1>11
  <2>5. v \in EnteredAfter(S, list, start, k + 1)
    BY <1>1, <1>3, <1>9, <2>1, <2>2, <2>3, <2>4 DEF EnteredAfter
  <2>6. QED
    BY <1>5, <1>7, <1>8, <2>5
<1>12. CASE r \notin Range(l)
  <2>1. PICK t \in Seq(S) : t = Append(l, r)
    <3>1. Append(l, r) \in Seq(S)
      OBVIOUS
    <3>2. QED
      BY <3>1
  <2>2. PICK n \in Nat : n = Len(l)
    BY LenProperties
  <2>3. v.list = t /\ Len(t) = n + 1 /\ t[n + 1] = r /\ \A i \in 1 .. n : t[i] = l[i]
    BY <1>9, <1>12, <2>1, <2>2
  <2>4. n \in start .. start + k
    BY <1>1, <1>3, <2>2
  <2>5. Len(t) \in start .. start + (k + 1)
    BY <2>3, <2>4, <1>5
  <2>6. Range(t) = Range(l) \cup {r}
    <3>1. DOMAIN t = 1 .. n + 1 /\ DOMAIN l = 1 .. n
      BY <2>2, <2>3, LenProperties
    <3>2. 1 .. n + 1 = 1 .. n \cup {n + 1}
      OBVIOUS
    <3>3. QED
      BY <2>3, <3>1, <3>2 DEF Range
  <2>7. Range(t) = {list[i] : i \in 1 .. start + (k + 1)}
    BY <1>1, <1>3, <1>4, <1>5, <1>10, <2>6
  <2>8. \A i \in 1 .. start : t[i] = list[i]
    <3>1. \A i \in 1 .. start : i \in 1 .. n
      BY <2>4, <1>5
    <3>2. QED
      BY <1>1, <1>3, <2>3, <3>1
  <2>9. IsInjective(list) => Len(t) = start + (k + 1) /\ \A i \in 1 .. start + (k + 1) : t[i] = list[i]
    <3>1. SUFFICES ASSUME IsInjective(list) PROVE n + 1 = m + 1 /\ \A i \in 1 .. m + 1 : t[i] = list[i]
      BY <1>5, <2>3
    <3>2. n = m /\ \A i \in 1 .. m : l[i] = list[i]
      BY <1>1, <1>3, <1>4, <2>2, <3>1
    <3>3. ASSUME NEW i \in 1 .. m + 1 PROVE t[i] = list[i]
      <4>1. CASE i = m + 1
        BY <1>7, <2>3, <3>2, <4>1
      <4>2. CASE i # m + 1
        <5>1. i \in 1 .. m
          BY <4>2
        <5>2. QED
          BY <2>3, <3>2, <5>1
      <4>3. QED
        BY <4>1, <4>2
    <3>4. QED
      BY <3>2, <3>3
  <2>10. v \in EnteredAfter(S, list, start, k + 1)
    BY <1>9, <2>3, <2>5, <2>7, <2>8, <2>9 DEF EnteredAfter
  <2>11. QED
    BY <1>5, <1>7, <1>8, <2>10
<1>13. QED
  BY <1>11, <1>12

KnownTurn(map, list, start, g, n) ==
  IF n = 0 THEN [map |-> map, list |-> SubSeq(list, 1, start)] ELSE Enter(g[n - 1], list[start + n])

(* The results up to start are in the map already.                         *)
Sensible(S, map, list, start) ==
  map \in ResultMaps(S) /\ Indexes(map, SubSeq(list, 1, start))

LEMMA UpdateMapStarts ==
  ASSUME NEW S, NEW list \in Seq(S), NEW start \in 0 .. Len(list), NEW map, Sensible(S, map, list, start)
  PROVE  [map |-> map, list |-> SubSeq(list, 1, start)] \in EnteredAfter(S, list, start, 0)
<1>1. PICK l : l = SubSeq(list, 1, start)
  OBVIOUS
<1>2. start \in Nat /\ start <= Len(list) /\ Len(list) \in Nat
  BY LenProperties
<1>3. l \in Seq(S) /\ Len(l) = start /\ \A i \in 1 .. start : l[i] = list[i]
  <2>1. l \in Seq(S) /\ Len(l) = start
    BY <1>1, <1>2
  <2>2. \A i \in 1 .. start : l[i] = list[1 + i - 1] /\ 1 + i - 1 = i
    BY <1>1, <1>2
  <2>3. QED
    BY <2>1, <2>2
<1>4. Range(l) = {list[i] : i \in 1 .. start + 0}
  <2>1. DOMAIN l = 1 .. start /\ start + 0 = start
    BY <1>2, <1>3, LenProperties
  <2>2. QED
    BY <1>3, <2>1 DEF Range
<1>5. start \in start .. start + 0 /\ start = start + 0
  BY <1>2
<1>6. [map |-> map, list |-> l] \in Entered(S) /\ Indexes(map, l)
  BY <1>1, <1>3 DEF Sensible, Entered
<1>7. QED
  BY <1>1, <1>3, <1>4, <1>5, <1>6 DEF EnteredAfter

LEMMA UpdateMapDef ==
  ASSUME NEW S, NEW list \in Seq(S), NEW start \in 0 .. Len(list), NEW map, Sensible(S, map, list, start)
  PROVE  \E g : /\ g = [n \in 0 .. Len(list) - start |-> KnownTurn(map, list, start, g, n)]
                /\ UpdateMap(map, list, start) = g[Len(list) - start]
                /\ \A n \in 0 .. Len(list) - start : g[n] \in EnteredAfter(S, list, start, n)
<1> DEFINE V == Entered(S)
           size == Len(list) - start
           Ok == [n \in 0 .. size |-> EnteredAfter(S, list, start, n)]
           first == [map |-> map, list |-> SubSeq(list, 1, start)]
           H == [n \in 0 .. size - 1 |-> [w \in V |-> Enter(w, list[start + n + 1])]]
<1>1. size \in Nat /\ start \in Nat
  BY LenProperties
<1>2. Ok \in [0 .. size -> SUBSET V] /\ first \in Ok[0]
  <2>1. \A n : EnteredAfter(S, list, start, n) \in SUBSET V
    BY DEF EnteredAfter
  <2>2. 0 \in 0 .. size /\ first \in EnteredAfter(S, list, start, 0)
    BY <1>1, UpdateMapStarts
  <2>3. QED
    BY <2>1, <2>2
<1>3. ASSUME NEW n \in 0 .. size - 1, NEW w \in EnteredAfter(S, list, start, n)
      PROVE  /\ H[n][w] = Enter(w, list[start + n + 1]) /\ n \in 0 .. size /\ n + 1 \in 0 .. size
             /\ Enter(w, list[start + n + 1]) \in EnteredAfter(S, list, start, n + 1)
  <2>1. n \in 0 .. Len(list) - start - 1 /\ n \in 0 .. size /\ n + 1 \in 0 .. size
    BY <1>1
  <2>2. w \in V
    BY DEF EnteredAfter
  <2>3. Enter(w, list[start + n + 1]) \in EnteredAfter(S, list, start, n + 1)
    BY <2>1, EnterNext
  <2>4. QED
    BY <2>1, <2>2, <2>3
<1>4. \A n \in 0 .. size - 1 : \A w \in Ok[n] : H[n][w] \in Ok[n + 1]
  <2>1. SUFFICES ASSUME NEW n \in 0 .. size - 1, NEW w \in Ok[n] PROVE H[n][w] \in Ok[n + 1]
    OBVIOUS
  <2>2. n \in 0 .. size
    BY <1>1
  <2>3. w \in EnteredAfter(S, list, start, n)
    BY <2>2
  <2>4. QED
    BY <1>3, <2>3
<1>5. \E g : IsRun(size, Ok, first, H, g)
  <2> HIDE DEF size, Ok, first, H, V
  <2>1. IsLoop(V, size, Ok, first, H)
    BY <1>2, <1>4 DEF IsLoop
  <2>2. QED
    BY <1>1, <2>1, LoopExists
<1>6. PICK f : /\ f = [n \in 0 .. size |-> IF n = 0 THEN first ELSE H[n - 1][f[n - 1]]]
               /\ \A n \in 0 .. size : f[n] \in Ok[n]
  BY <1>5 DEF IsRun
<1>7. ASSUME NEW n \in 0 .. size
      PROVE  (IF n = 0 THEN first ELSE H[n - 1][f[n - 1]]) = KnownTurn(map, list, start, f, n)
  <2>1. CASE n = 0
    BY <2>1 DEF KnownTurn
  <2>2. CASE n # 0
    <3>1. PICK j : j = n - 1
      OBVIOUS
    <3>2. j \in 0 .. size - 1 /\ j \in 0 .. size /\ start + j + 1 = start + n
      BY <1>1, <2>2, <3>1
    <3>3. f[j] \in EnteredAfter(S, list, start, j)
      BY <1>6, <3>2
    <3>4. H[j][f[j]] = Enter(f[j], list[start + j + 1])
      BY <1>3, <3>2, <3>3
    <3>5. QED
      BY <2>2, <3>1, <3>2, <3>4 DEF KnownTurn
  <2>3. QED
    BY <2>1, <2>2
<1>8. \E g : g = [n \in 0 .. Len(list) - start |-> KnownTurn(map, list, start, g, n)]
  <2>1. f = [n \in 0 .. size |-> KnownTurn(map, list, start, f, n)]
    BY <1>6, <1>7
  <2>2. QED
    BY <2>1
<1>9. PICK g : /\ g = [n \in 0 .. Len(list) - start |-> KnownTurn(map, list, start, g, n)]
               /\ UpdateMap(map, list, start) = g[Len(list) - start]
  BY <1>8 DEF UpdateMap, KnownTurn
<1>10. g[0] \in Ok[0]
  <2>1. 0 \in 0 .. size
    BY <1>1
  <2>2. g[0] = first
    BY <1>9, <2>1 DEF KnownTurn
  <2>3. QED
    BY <1>2, <2>2
<1>11. ASSUME NEW n \in 0 .. size - 1, g[n] \in Ok[n] PROVE g[n + 1] \in Ok[n + 1]
  <2>1. n \in 0 .. size /\ n + 1 \in 0 .. size /\ n + 1 # 0 /\ (n + 1) - 1 = n /\ start + (n + 1) = start + n + 1
    BY <1>1
  <2>2. g[n] \in EnteredAfter(S, list, start, n)
    BY <1>11, <2>1
  <2>3. g[n + 1] = Enter(g[n], list[start + n + 1])
    BY <1>9, <2>1 DEF KnownTurn
  <2>4. QED
    BY <1>3, <2>1, <2>2, <2>3
<1>12. \A n \in 0 .. size : g[n] \in Ok[n]
  <2> HIDE DEF size, Ok
  <2>1. QED
    BY <1>1, <1>10, <1>11, LoopInvariant
<1>13. QED
  BY <1>9, <1>12

LEMMA UpdateMapProperties ==
  ASSUME NEW S, NEW list \in Seq(S), NEW start \in 0 .. Len(list), NEW map, Sensible(S, map, list, start)
  PROVE  LET k == UpdateMap(map, list, start)
         IN  /\ k \in Entered(S) /\ Indexes(k.map, k.list)
             /\ Range(k.list) = Range(list)
             /\ \A i \in 1 .. start : k.list[i] = list[i]
             /\ start <= Len(k.list) /\ Len(k.list) <= Len(list)
             /\ IsInjective(list) => k.list = list
<1>1. Len(list) \in Nat /\ DOMAIN list = 1 .. Len(list) /\ start \in Nat
  BY LenProperties
<1>2. PICK n \in Nat : n = Len(list) - start /\ start + n = Len(list)
  <2>1. PICK n : n = Len(list) - start
    OBVIOUS
  <2>2. n \in Nat /\ start + n = Len(list)
    BY <1>1, <2>1
  <2>3. QED
    BY <2>1, <2>2
<1>3. PICK k : k = UpdateMap(map, list, start)
  OBVIOUS
<1>4. k \in EnteredAfter(S, list, start, n)
  BY <1>2, <1>3, UpdateMapDef
<1>5. /\ k \in Entered(S) /\ Indexes(k.map, k.list) /\ Len(k.list) \in start .. start + n
      /\ Range(k.list) = {list[i] : i \in 1 .. start + n}
      /\ \A i \in 1 .. start : k.list[i] = list[i]
      /\ IsInjective(list) => Len(k.list) = start + n /\ \A i \in 1 .. start + n : k.list[i] = list[i]
  BY <1>4 DEF EnteredAfter
<1>6. Range(list) = {list[i] : i \in 1 .. Len(list)}
  BY <1>1 DEF Range
<1>7. IsInjective(list) => k.list = list
  <2>1. SUFFICES ASSUME IsInjective(list) PROVE k.list = list
    OBVIOUS
  <2>2. k.list \in Seq(S)
    BY <1>5 DEF Entered
  <2>3. PICK l \in Seq(S) : l = k.list
    BY <2>2
  <2>4. Len(l) = Len(list) /\ \A i \in 1 .. Len(list) : l[i] = list[i]
    BY <1>2, <1>5, <2>1, <2>3
  <2>5. l = list
    BY <2>4
  <2>6. QED
    BY <2>3, <2>5
<1>8. start <= Len(k.list) /\ Len(k.list) <= Len(list)
  <2>1. Len(k.list) \in start .. start + n
    BY <1>5
  <2>2. QED
    BY <1>1, <1>2, <2>1
<1>9. QED
  BY <1>2, <1>3, <1>5, <1>6, <1>7, <1>8

(* A map is built from nothing for a whole list.                           *)
LEMMA MapOfProperties ==
  ASSUME NEW S, NEW list \in Seq(S)
  PROVE  LET k == MapOf(list)
         IN  /\ k \in Entered(S) /\ Indexes(k.map, k.list)
             /\ Range(k.list) = Range(list)
             /\ IsInjective(list) => k.list = list
<1>1. 0 \in 0 .. Len(list)
  BY LenProperties
<1>2. Sensible(S, EmptyMap, list, 0)
  <2>1. SubSeq(list, 1, 0) = <<>>
    OBVIOUS
  <2>2. Indexes(EmptyMap, <<>>)
    <3>1. Len(<<>>) = 0 /\ DOMAIN <<>> = {} /\ 1 .. 0 = {}
      OBVIOUS
    <3>2. Range(<<>>) = {}
      BY <3>1 DEF Range
    <3>3. DOMAIN EmptyMap = {}
      BY MapsProperties
    <3>4. QED
      BY <3>1, <3>2, <3>3 DEF Indexes
  <2>3. QED
    BY <2>1, <2>2, MapsProperties DEF Sensible
<1>3. QED
  BY <1>1, <1>2, UpdateMapProperties DEF MapOf

-----------------------------------------------------------------------------
(* The list that comes back from update() is what ResultList expects.      *)

FirstTime(S, chunk, i) == chunk[i] \notin S /\ \A j \in 1 .. i - 1 : chunk[j] # chunk[i]

FreshTurn(S, chunk, f, i) ==
  IF i = 0 THEN <<>>
  ELSE IF FirstTime(S, chunk, i) THEN Append(f[i - 1], chunk[i]) ELSE f[i - 1]

IsFresh(S, chunk, f) == f = [i \in 0 .. Len(chunk) |-> FreshTurn(S, chunk, f, i)]

LEMMA FreshExists ==
  ASSUME NEW S, NEW P, NEW chunk \in Seq(S)
  PROVE  \E f : IsFresh(P, chunk, f)
<1> DEFINE n == Len(chunk)
           V == Seq(S)
           Ok == [k \in 0 .. n |-> V]
           step(k, v) == IF FirstTime(P, chunk, k + 1) THEN Append(v, chunk[k + 1]) ELSE v
           H == [k \in 0 .. n - 1 |-> [v \in V |-> step(k, v)]]
<1>1. n \in Nat /\ \A i \in 1 .. n : chunk[i] \in S
  BY RangeProperties
<1>2. ASSUME NEW k \in 0 .. n - 1, NEW v \in V PROVE step(k, v) \in V
  <2>1. k + 1 \in 1 .. n
    BY <1>1
  <2>2. chunk[k + 1] \in S
    BY <1>1, <2>1
  <2>3. Append(v, chunk[k + 1]) \in Seq(S)
    BY <2>2
  <2>4. QED
    BY <2>3
<1> HIDE DEF step
<1>3. \A k \in 0 .. n - 1 : \A v \in Ok[k] : H[k][v] \in Ok[k + 1]
  <2>1. SUFFICES ASSUME NEW k \in 0 .. n - 1, NEW v \in Ok[k] PROVE H[k][v] \in Ok[k + 1]
    OBVIOUS
  <2>2. k \in 0 .. n /\ k + 1 \in 0 .. n
    BY <1>1
  <2>3. QED
    BY <1>2, <2>2
<1>4. Ok \in [0 .. n -> SUBSET V] /\ <<>> \in Ok[0]
  BY <1>1
<1>5. \E g : IsRun(n, Ok, <<>>, H, g)
  <2> HIDE DEF n, V, Ok, H
  <2>1. IsLoop(V, n, Ok, <<>>, H)
    BY <1>3, <1>4 DEF IsLoop
  <2>2. QED
    BY <1>1, <2>1, LoopExists
<1>6. PICK f : /\ f = [k \in 0 .. n |-> IF k = 0 THEN <<>> ELSE H[k - 1][f[k - 1]]]
               /\ \A k \in 0 .. n : f[k] \in Ok[k]
  BY <1>5 DEF IsRun
<1>7. ASSUME NEW k \in 0 .. n
      PROVE  (IF k = 0 THEN <<>> ELSE H[k - 1][f[k - 1]]) = FreshTurn(P, chunk, f, k)
  <2>1. CASE k = 0
    BY <2>1 DEF FreshTurn
  <2>2. CASE k # 0
    <3>1. PICK j : j = k - 1
      OBVIOUS
    <3>2. j \in 0 .. n - 1 /\ j \in 0 .. n /\ k = j + 1
      BY <1>1, <2>2, <3>1
    <3>3. f[j] \in V
      BY <1>6, <3>2
    <3>4. H[j][f[j]] = step(j, f[j])
      BY <3>2, <3>3
    <3>5. QED
      BY <2>2, <3>1, <3>2, <3>4 DEF FreshTurn, step
  <2>3. QED
    BY <2>1, <2>2
<1>8. f = [k \in 0 .. n |-> FreshTurn(P, chunk, f, k)]
  BY <1>6, <1>7
<1>9. QED
  BY <1>8 DEF IsFresh

LEMMA ExtendedDomain ==
  ASSUME NEW S, NEW list \in Seq(S), NEW chunk \in Seq(S)
  PROVE  LET all == list \o chunk
         IN  /\ all \in Seq(S) /\ Len(all) = Len(list) + Len(chunk)
             /\ Len(list) \in 0 .. Len(all) /\ Len(all) - Len(list) = Len(chunk)
             /\ \A i \in 1 .. Len(list) : all[i] = list[i]
             /\ \A i \in 1 .. Len(chunk) : all[Len(list) + i] = chunk[i]
             /\ SubSeq(all, 1, Len(list)) = list
<1>1. PICK m, n \in Nat : m = Len(list) /\ n = Len(chunk)
  BY LenProperties
<1>2. PICK all : all = list \o chunk
  OBVIOUS
<1>3. /\ all \in Seq(S) /\ Len(all) = m + n
      /\ \A i \in 1 .. m + n : all[i] = IF i <= m THEN list[i] ELSE chunk[i - m]
  BY <1>1, <1>2, ConcatProperties
<1>4. \A i \in 1 .. m : all[i] = list[i]
  <2>1. \A i \in 1 .. m : i \in 1 .. m + n /\ i <= m
    OBVIOUS
  <2>2. QED
    BY <1>3, <2>1
<1>5. \A i \in 1 .. n : all[m + i] = chunk[i]
  <2>1. \A i \in 1 .. n : m + i \in 1 .. m + n /\ ~(m + i <= m) /\ (m + i) - m = i
    OBVIOUS
  <2>2. QED
    BY <1>3, <2>1
<1>6. SubSeq(all, 1, m) = list
  <2>1. PICK l : l = SubSeq(all, 1, m)
    OBVIOUS
  <2>2. l \in Seq(S) /\ Len(l) = m /\ \A i \in 1 .. m : l[i] = all[i]
    <3>1. l \in Seq(S) /\ Len(l) = m
      BY <1>3, <2>1
    <3>2. \A i \in 1 .. m : l[i] = all[1 + i - 1] /\ 1 + i - 1 = i
      BY <1>3, <2>1
    <3>3. QED
      BY <3>1, <3>2
  <2>3. Len(l) = Len(list) /\ \A i \in 1 .. Len(list) : l[i] = list[i]
    BY <1>1, <1>4, <2>2
  <2>4. l = list
    BY <2>2, <2>3
  <2>5. QED
    BY <2>1, <2>4
<1>7. QED
  BY <1>1, <1>2, <1>3, <1>4, <1>5, <1>6

LEMMA ConcatRange ==
  ASSUME NEW S, NEW list \in Seq(S), NEW chunk \in Seq(S)
  PROVE  Range(list \o chunk) = Range(list) \cup Range(chunk)
<1>1. PICK m, n \in Nat : m = Len(list) /\ n = Len(chunk)
  BY LenProperties
<1>2. PICK all : all = list \o chunk
  OBVIOUS
<1>3. /\ all \in Seq(S) /\ Len(all) = m + n
      /\ \A i \in 1 .. m : all[i] = list[i]
      /\ \A i \in 1 .. n : all[m + i] = chunk[i]
  BY <1>1, <1>2, ExtendedDomain
<1>4. DOMAIN all = 1 .. m + n /\ DOMAIN list = 1 .. m /\ DOMAIN chunk = 1 .. n
  BY <1>1, <1>3, LenProperties
<1>5. \A x \in Range(all) : x \in Range(list) \cup Range(chunk)
  <2>1. SUFFICES ASSUME NEW i \in 1 .. m + n PROVE all[i] \in Range(list) \cup Range(chunk)
    BY <1>4 DEF Range
  <2>2. CASE i <= m
    BY <1>3, <1>4, <2>2 DEF Range
  <2>3. CASE ~(i <= m)
    <3>1. PICK j : j = i - m
      OBVIOUS
    <3>2. j \in 1 .. n /\ i = m + j
      BY <2>3, <3>1
    <3>3. QED
      BY <1>3, <1>4, <3>2 DEF Range
  <2>4. QED
    BY <2>2, <2>3
<1>6. \A x \in Range(list) : x \in Range(all)
  <2>1. \A i \in 1 .. m : i \in 1 .. m + n
    OBVIOUS
  <2>2. QED
    BY <1>3, <1>4, <2>1 DEF Range
<1>7. \A x \in Range(chunk) : x \in Range(all)
  <2>1. \A i \in 1 .. n : m + i \in 1 .. m + n
    OBVIOUS
  <2>2. QED
    BY <1>3, <1>4, <2>1 DEF Range
<1>8. QED
  BY <1>2, <1>5, <1>6, <1>7

LEMMA UpdateMapIsFresh ==
  ASSUME NEW S, NEW list \in Seq(S), NEW chunk \in Seq(S),
         NEW map \in ResultMaps(S), Indexes(map, list), NEW f, IsFresh(Range(list), chunk, f)
  PROVE  /\ UpdateMap(map, list \o chunk, Len(list)).list = list \o f[Len(chunk)]
         /\ f[Len(chunk)] \in Seq(S)
<1>1. PICK all \in Seq(S) : all = list \o chunk
  BY ExtendedDomain
<1>2. PICK m, n \in Nat : m = Len(list) /\ n = Len(chunk)
  BY LenProperties
<1>3. /\ Len(all) = m + n /\ Len(list) \in 0 .. Len(all) /\ Len(all) - Len(list) = n
      /\ \A i \in 1 .. m : all[i] = list[i]
      /\ \A i \in 1 .. n : all[m + i] = chunk[i]
      /\ SubSeq(all, 1, Len(list)) = list
  BY <1>1, <1>2, ExtendedDomain
<1>4. Sensible(S, map, all, Len(list))
  BY <1>3 DEF Sensible
<1>5. PICK g : /\ g = [k \in 0 .. n |-> KnownTurn(map, all, m, g, k)]
               /\ UpdateMap(map, all, m) = g[n]
               /\ \A k \in 0 .. n : g[k] \in EnteredAfter(S, all, m, k)
  <2>1. m \in 0 .. Len(all) /\ Len(all) - m = n /\ Sensible(S, map, all, m)
    BY <1>2, <1>3, <1>4
  <2>2. \E g : /\ g = [k \in 0 .. Len(all) - m |-> KnownTurn(map, all, m, g, k)]
               /\ UpdateMap(map, all, m) = g[Len(all) - m]
               /\ \A k \in 0 .. Len(all) - m : g[k] \in EnteredAfter(S, all, m, k)
    BY <2>1, UpdateMapDef
  <2>3. QED
    BY <2>1, <2>2
<1>6. f = [k \in 0 .. n |-> FreshTurn(Range(list), chunk, f, k)]
  BY <1>2 DEF IsFresh
<1> DEFINE Good(k) == f[k] \in Seq(S) /\ g[k].list = list \o f[k]
           T == {k \in Nat : k <= n => Good(k)}
<1>7. 0 \in T
  <2>1. 0 \in 0 .. n
    OBVIOUS
  <2>2. f[0] = <<>> /\ g[0] = [map |-> map, list |-> SubSeq(all, 1, m)]
    BY <1>5, <1>6, <2>1 DEF FreshTurn, KnownTurn
  <2>3. list \o <<>> = list /\ <<>> \in Seq(S)
    BY ConcatEmptySeq
  <2>4. SubSeq(all, 1, m) = list
    BY <1>2, <1>3
  <2>5. Good(0)
    BY <2>2, <2>3, <2>4
  <2>6. QED
    BY <2>5
<1>8. ASSUME NEW k \in Nat, k \in T PROVE k + 1 \in T
  <2>1. SUFFICES ASSUME k + 1 <= n PROVE Good(k + 1)
    OBVIOUS
  <2>2. PICK l : l = k + 1
    OBVIOUS
  <2>3. l \in 1 .. n /\ l \in 0 .. n /\ l # 0 /\ l - 1 = k /\ k \in 0 .. n /\ m + l \in 1 .. m + n
    BY <2>1, <2>2
  <2>4. Good(k)
    BY <1>8, <2>3
  <2>5. PICK r \in S : r = chunk[l] /\ r = all[m + l]
    BY <1>2, <1>3, <2>3, RangeProperties
  <2>6. g[l] = Enter(g[k], r) /\ f[l] = IF FirstTime(Range(list), chunk, l) THEN Append(f[k], r) ELSE f[k]
    BY <1>5, <1>6, <2>3, <2>5 DEF FreshTurn, KnownTurn
  <2>7. g[k] \in EnteredAfter(S, all, m, k)
    BY <1>5, <2>3
  <2>8. PICK v \in Entered(S) : /\ v = g[k] /\ Indexes(v.map, v.list)
                                /\ Range(v.list) = {all[i] : i \in 1 .. m + k}
    BY <2>7 DEF EnteredAfter
  <2>9. r \in Range(v.list) <=> ~FirstTime(Range(list), chunk, l)
    <3>1. DOMAIN list = 1 .. m
      BY <1>2, LenProperties
    <3>2. ASSUME NEW i \in 1 .. m + k, all[i] = r PROVE ~FirstTime(Range(list), chunk, l)
      <4>1. CASE i <= m
        <5>1. i \in 1 .. m
          BY <4>1
        <5>2. r \in Range(list)
          BY <1>3, <3>1, <3>2, <5>1 DEF Range
        <5>3. QED
          BY <2>5, <5>2 DEF FirstTime
      <4>2. CASE ~(i <= m)
        <5>1. PICK j : j = i - m
          OBVIOUS
        <5>2. j \in 1 .. k /\ j \in 1 .. n /\ j \in 1 .. l - 1 /\ i = m + j
          BY <2>3, <4>2, <5>1
        <5>3. chunk[j] = r
          BY <1>3, <3>2, <5>2
        <5>4. QED
          BY <2>5, <5>2, <5>3 DEF FirstTime
      <4>3. QED
        BY <4>1, <4>2
    <3>3. ASSUME r \in Range(list) PROVE \E i \in 1 .. m + k : all[i] = r
      <4>1. PICK i \in 1 .. m : list[i] = r
        BY <3>1, <3>3 DEF Range
      <4>2. i \in 1 .. m + k
        OBVIOUS
      <4>3. QED
        BY <1>3, <4>1, <4>2
    <3>4. ASSUME NEW j \in 1 .. l - 1, chunk[j] = r PROVE \E i \in 1 .. m + k : all[i] = r
      <4>1. j \in 1 .. n /\ m + j \in 1 .. m + k
        BY <2>3
      <4>2. all[m + j] = r
        BY <1>3, <3>4, <4>1
      <4>3. QED
        BY <4>1, <4>2
    <3>5. r \in Range(v.list) <=> \E i \in 1 .. m + k : all[i] = r
      BY <2>8
    <3>6. ~FirstTime(Range(list), chunk, l) => r \in Range(list) \/ \E j \in 1 .. l - 1 : chunk[j] = r
      BY <2>5 DEF FirstTime
    <3>7. QED
      BY <3>2, <3>3, <3>4, <3>5, <3>6
  <2>10. /\ r \in Range(v.list) => Enter(v, r) = v
         /\ r \notin Range(v.list) => Enter(v, r).list = Append(v.list, r)
    BY <2>8, EnterProperties
  <2>11. CASE FirstTime(Range(list), chunk, l)
    <3>1. PICK t \in Seq(S) : t = f[k]
      BY <2>4
    <3>2. f[l] = Append(t, r) /\ g[l].list = Append(list \o t, r)
      BY <2>4, <2>6, <2>8, <2>9, <2>10, <2>11, <3>1
    <3>3. Append(t, r) = t \o <<r>> /\ Append(list \o t, r) = (list \o t) \o <<r>> /\ Append(t, r) \in Seq(S)
      <4>1. list \o t \in Seq(S)
        BY ConcatProperties
      <4>2. QED
        BY <4>1, AppendIsConcat, AppendProperties
    <3>4. (list \o t) \o <<r>> = list \o (t \o <<r>>)
      <4>1. <<r>> \in Seq(S)
        OBVIOUS
      <4>2. QED
        BY <4>1, ConcatAssociative
    <3>5. QED
      BY <2>2, <3>2, <3>3, <3>4
  <2>12. CASE ~FirstTime(Range(list), chunk, l)
    BY <2>2, <2>4, <2>6, <2>8, <2>9, <2>10, <2>12
  <2>13. QED
    BY <2>11, <2>12
<1> HIDE DEF T
<1>9. \A k \in Nat : k \in T
  BY <1>7, <1>8, SetInduction
<1>10. Good(n)
  BY <1>9 DEF T
<1>11. QED
  BY <1>1, <1>2, <1>5, <1>10

-----------------------------------------------------------------------------
(* ResultsModel.                                                           *)

RowModels(S) ==
  [rows : Seq(S), new : ResultMaps(S), old : ResultMaps(S), last : Nat,
   purge : BOOLEAN, silent : BOOLEAN, movedDown : BOOLEAN]

(* What the loop over the results leaves alone.                            *)
SameBut(v, w) ==
  v.new = w.new /\ v.last = w.last /\ v.purge = w.purge /\ v.silent = w.silent /\ v.movedDown = w.movedDown

LEMMA RowModelFields ==
  ASSUME NEW S, NEW w \in RowModels(S)
  PROVE  /\ w.rows \in Seq(S) /\ w.new \in ResultMaps(S) /\ w.old \in ResultMaps(S) /\ w.last \in Nat
         /\ w.purge \in BOOLEAN /\ w.silent \in BOOLEAN /\ w.movedDown \in BOOLEAN
         /\ w = [rows |-> w.rows, new |-> w.new, old |-> w.old, last |-> w.last,
                 purge |-> w.purge, silent |-> w.silent, movedDown |-> w.movedDown]
BY DEF RowModels

WithRows(w, t, map) == [w EXCEPT !.rows = t, !.old = map]

LEMMA WithRowsProperties ==
  ASSUME NEW S, NEW w \in RowModels(S), NEW t \in Seq(S), NEW map \in ResultMaps(S)
  PROVE  /\ WithRows(w, t, map) \in RowModels(S)
         /\ WithRows(w, t, map).rows = t /\ WithRows(w, t, map).old = map
         /\ SameBut(WithRows(w, t, map), w)
BY DEF RowModels, SameBut, WithRows

(* The elements of t that the map knows, from .. to looked up anew.        *)
IndicesFollow(moved, map, t, from, to) ==
  /\ DOMAIN moved = DOMAIN map
  /\ \A i \in 1 .. Len(t) : t[i] \in DOMAIN map =>
       moved[t[i]] = IF i \in from .. to THEN i ELSE map[t[i]]

LEMMA UpdateIndicesProperties ==
  ASSUME NEW S, NEW t \in Seq(S), IsInjective(t), NEW map \in ResultMaps(S),
         NEW from \in Nat \ {0}, NEW to \in Nat
  PROVE  /\ UpdateIndices(map, t, from, to) \in ResultMaps(S)
         /\ IndicesFollow(UpdateIndices(map, t, from, to), map, t, from, to)
<1> DEFINE places(r) == {i \in from .. to : i <= Len(t) /\ t[i] = r}
           at(r) == IF places(r) = {} THEN map[r] ELSE Max(places(r))
<1>1. PICK moved : moved = UpdateIndices(map, t, from, to)
  OBVIOUS
<1>2. moved = [r \in DOMAIN map |-> at(r)]
  BY <1>1 DEF UpdateIndices
<1>3. /\ Len(t) \in Nat /\ \A i, j \in 1 .. Len(t) : t[i] = t[j] => i = j
      /\ DOMAIN map \subseteq S /\ map \in [DOMAIN map -> Nat]
  BY MapsProperties, RangeProperties
<1>4. ASSUME NEW r, places(r) # {} PROVE Max(places(r)) \in Nat
  <2>1. places(r) \in SUBSET Nat
    OBVIOUS
  <2>2. \A i \in places(r) : i <= to
    OBVIOUS
  <2> HIDE DEF places
  <2>3. DEFINE J == {to - i : i \in places(r)}
  <2>4. J \in SUBSET Nat /\ J # {}
    BY <1>4, <2>1, <2>2
  <2>5. Min(J) \in J /\ \A j \in J : Min(J) <= j
    <3> HIDE DEF J
    <3>1. QED
      BY <2>4, LeastProperties
  <2>6. PICK x \in places(r) : Min(J) = to - x
    BY <2>5
  <2>7. \A y \in places(r) : x >= y
    <3>1. SUFFICES ASSUME NEW y \in places(r) PROVE x >= y
      OBVIOUS
    <3>2. to - y \in J
      OBVIOUS
    <3>3. to - x <= to - y
      BY <2>5, <2>6, <3>2
    <3>4. QED
      BY <2>1, <3>3
  <2>8. Max(places(r)) \in places(r)
    BY <2>7 DEF Max
  <2>9. QED
    BY <2>1, <2>8
<1>5. ASSUME NEW r \in DOMAIN map PROVE at(r) \in Nat
  BY <1>3, <1>4
<1>6. moved \in [DOMAIN map -> Nat]
  <2> HIDE DEF at
  <2>1. QED
    BY <1>2, <1>5
<1>7. moved \in ResultMaps(S) /\ DOMAIN moved = DOMAIN map
  BY <1>3, <1>6, MapsProperties
<1>8. ASSUME NEW i \in 1 .. Len(t), t[i] \in DOMAIN map
      PROVE  moved[t[i]] = IF i \in from .. to THEN i ELSE map[t[i]]
  <2>1. moved[t[i]] = at(t[i])
    BY <1>2, <1>8
  <2>2. CASE i \in from .. to
    <3>1. places(t[i]) = {i}
      <4>1. i \in places(t[i])
        BY <1>3, <2>2
      <4>2. ASSUME NEW j \in places(t[i]) PROVE j = i
        <5>1. j \in 1 .. Len(t) /\ t[j] = t[i]
          BY <1>3
        <5>2. QED
          BY <1>3, <5>1
      <4>3. QED
        BY <4>1, <4>2
    <3>2. Max({i}) = i
      BY <1>3 DEF Max
    <3>3. QED
      BY <2>1, <2>2, <3>1, <3>2
  <2>3. CASE i \notin from .. to
    <3>1. ASSUME NEW j \in places(t[i]) PROVE FALSE
      <4>1. j \in 1 .. Len(t) /\ t[j] = t[i] /\ j \in from .. to
        BY <1>3
      <4>2. j = i
        BY <1>3, <4>1
      <4>3. QED
        BY <2>3, <4>1, <4>2
    <3>2. places(t[i]) = {}
      BY <3>1
    <3>3. QED
      BY <2>1, <2>3, <3>2
  <2>4. QED
    BY <2>2, <2>3
<1>9. QED
  BY <1>1, <1>7, <1>8 DEF IndicesFollow

LEMMA PairProperties ==
  ASSUME NEW i \in Nat, NEW j \in Nat, i < j
  PROVE  Min({i, j}) = i /\ Max({i, j}) = j
BY DEF Min, Max

LEMMA MovedUpProperties ==
  ASSUME NEW S, NEW s \in Seq(S), NEW from \in 1 .. Len(s), NEW to \in 1 .. Len(s), to < from,
         NEW t, t = InsertAt(RemoveAt(s, from), to, s[from])
  PROVE  /\ t \in Seq(S) /\ Len(t) = Len(s)
         /\ \A j \in 1 .. Len(s) :
              t[j] = IF j < to \/ j > from THEN s[j] ELSE IF j = to THEN s[from] ELSE s[j - 1]
<1>1. PICK n \in Nat : n = Len(s)
  BY LenProperties
<1>2. PICK r : r = RemoveAt(s, from)
  OBVIOUS
<1>3. /\ r \in Seq(S) /\ Len(r) = n - 1
      /\ \A j \in 1 .. n - 1 : r[j] = IF j < from THEN s[j] ELSE s[j + 1]
  BY <1>1, <1>2, RemoveAtProperties
<1>4. PICK e \in S : e = s[from]
  BY RangeProperties
<1>5. t = InsertAt(r, to, e)
  BY <1>2, <1>4
<1>6. to \in 1 .. Len(r) + 1
  BY <1>1, <1>3
<1>7. t \in Seq(S) /\ Len(t) = Len(r) + 1 /\ IsInserted(t, r, to, e)
  <2>1. e \in S /\ r \in Seq(S)
    BY <1>3
  <2>2. QED
    BY ONLY <1>5, <1>6, <2>1, InsertAtProperties
<1>8. /\ Len(t) = n
      /\ \A j \in 1 .. n : t[j] = IF j < to THEN r[j] ELSE IF j = to THEN e ELSE r[j - 1]
  BY ONLY <1>3, <1>7, n \in Nat DEF IsInserted
<1>9. ASSUME NEW j \in 1 .. n
      PROVE  t[j] = IF j < to \/ j > from THEN s[j] ELSE IF j = to THEN s[from] ELSE s[j - 1]
  <2>1. CASE j < to
    <3>1. j \in 1 .. n - 1 /\ j < from
      BY <1>1, <2>1
    <3>2. QED
      BY <1>3, <1>8, <2>1, <3>1
  <2>2. CASE j = to
    <3>1. ~(j < to) /\ ~(j > from)
      BY <1>1, <2>2
    <3>2. QED
      BY <1>4, <1>8, <2>2, <3>1
  <2>3. CASE to < j /\ j <= from
    <3>1. j - 1 \in 1 .. n - 1 /\ j - 1 < from /\ ~(j < to) /\ j # to /\ ~(j > from)
      BY <1>1, <2>3
    <3>2. t[j] = r[j - 1] /\ r[j - 1] = s[j - 1]
      BY <1>3, <1>8, <3>1
    <3>3. QED
      BY <3>1, <3>2
  <2>4. CASE from < j
    <3>1. j - 1 \in 1 .. n - 1 /\ ~(j - 1 < from) /\ ~(j < to) /\ j # to /\ (j - 1) + 1 = j
      BY <1>1, <2>4
    <3>2. t[j] = r[j - 1] /\ r[j - 1] = s[j]
      BY <1>3, <1>8, <3>1
    <3>3. QED
      BY <2>4, <3>2
  <2>5. QED
    BY <1>1, <2>1, <2>2, <2>3, <2>4
<1>10. QED
  BY <1>1, <1>2, <1>4, <1>5, <1>7, <1>8, <1>9

(* After k turns of the first flush of a search the first k rows are the   *)
(* first k results, and the map of the rows from before knows where those  *)
(* that are left stand.                                                    *)
OldKnows(w, k) ==
  /\ DOMAIN w.old \subseteq Range(w.rows)
  /\ \A i \in 1 .. Len(w.rows) : w.rows[i] \in DOMAIN w.old => w.old[w.rows[i]] = i
  /\ \A i \in k + 1 .. Len(w.rows) : w.rows[i] \in DOMAIN w.old

PlacedFirst(S, list, base, k) ==
  {w \in RowModels(S) :
     /\ SameBut(w, base)
     /\ k <= Len(w.rows) /\ IsInjective(w.rows) /\ Range(w.rows) \subseteq Range(list)
     /\ \A i \in 1 .. k : w.rows[i] = list[i]
     /\ OldKnows(w, k)}

PlacedLater(S, list, base, k) ==
  {w \in RowModels(S) :
     /\ SameBut(w, base) /\ w.old = base.old
     /\ Len(w.rows) = base.last + k
     /\ \A i \in 1 .. base.last : w.rows[i] = base.rows[i]
     /\ \A i \in base.last + 1 .. base.last + k : w.rows[i] = list[i]}

PlaceTurn(m, list, g, n) == IF n = 0 THEN m ELSE PlaceRow(g[n - 1], list, m.last + n)

(* A loop invariant is established by the loop.                            *)
LEMMA PlaceRowsProperties ==
  ASSUME NEW S, NEW list \in Seq(S), NEW m \in RowModels(S), m.last <= Len(list),
         NEW Ok \in [0 .. Len(list) - m.last -> SUBSET RowModels(S)], m \in Ok[0],
         \A k \in 0 .. Len(list) - m.last - 1 : \A w \in Ok[k] : PlaceRow(w, list, m.last + k + 1) \in Ok[k + 1]
  PROVE  PlaceRows(m, list) \in Ok[Len(list) - m.last]
<1> DEFINE V == RowModels(S)
           H == [k \in 0 .. Len(list) - m.last - 1 |-> [w \in V |-> PlaceRow(w, list, m.last + k + 1)]]
<1>1. PICK n \in Nat : n = Len(list) - m.last
  BY LenProperties, RowModelFields
<1>2. m.last \in Nat
  BY RowModelFields
<1>3. ASSUME NEW k \in 0 .. n - 1, NEW w \in Ok[k]
      PROVE  H[k][w] = PlaceRow(w, list, m.last + k + 1) /\ H[k][w] \in Ok[k + 1]
  <2>1. k \in 0 .. n /\ w \in V
    <3>1. k \in 0 .. n
      OBVIOUS
    <3>2. Ok[k] \in SUBSET V
      BY <1>1, <3>1
    <3>3. QED
      BY <3>1, <3>2
  <2>2. QED
    BY <1>1, <2>1
<1>4. \E g : IsRun(n, Ok, m, H, g)
  <2>1. Ok \in [0 .. n -> SUBSET V] /\ m \in Ok[0]
    BY <1>1
  <2>2. \A k \in 0 .. n - 1 : \A w \in Ok[k] : H[k][w] \in Ok[k + 1]
    BY <1>3
  <2> HIDE DEF H, V
  <2>3. IsLoop(V, n, Ok, m, H)
    BY <2>1, <2>2 DEF IsLoop
  <2>4. QED
    BY <2>3, LoopExists
<1>5. PICK f : /\ f = [k \in 0 .. n |-> IF k = 0 THEN m ELSE H[k - 1][f[k - 1]]]
               /\ \A k \in 0 .. n : f[k] \in Ok[k]
  BY <1>4 DEF IsRun
<1>6. ASSUME NEW k \in 0 .. n
      PROVE  (IF k = 0 THEN m ELSE H[k - 1][f[k - 1]]) = PlaceTurn(m, list, f, k)
  <2>1. CASE k = 0
    BY <2>1 DEF PlaceTurn
  <2>2. CASE k # 0
    <3>1. PICK j : j = k - 1
      OBVIOUS
    <3>2. j \in 0 .. n - 1 /\ j \in 0 .. n /\ m.last + j + 1 = m.last + k
      BY <1>2, <2>2, <3>1
    <3>3. f[j] \in Ok[j]
      BY <1>5, <3>2
    <3>4. H[j][f[j]] = PlaceRow(f[j], list, m.last + k)
      BY <1>3, <3>2, <3>3
    <3>5. QED
      BY <2>2, <3>1, <3>4 DEF PlaceTurn
  <2>3. QED
    BY <2>1, <2>2
<1>7. \E g : g = [k \in 0 .. Len(list) - m.last |-> PlaceTurn(m, list, g, k)]
  <2>1. f = [k \in 0 .. n |-> PlaceTurn(m, list, f, k)]
    BY <1>5, <1>6
  <2>2. QED
    BY <1>1, <2>1
<1>8. PICK g : /\ g = [k \in 0 .. Len(list) - m.last |-> PlaceTurn(m, list, g, k)]
               /\ PlaceRows(m, list) = g[Len(list) - m.last]
  BY <1>7 DEF PlaceRows, PlaceTurn
<1>9. g[0] \in Ok[0]
  <2>1. 0 \in 0 .. n
    OBVIOUS
  <2>2. g[0] = m
    BY <1>1, <1>8, <2>1 DEF PlaceTurn
  <2>3. QED
    BY <2>2
<1>10. ASSUME NEW k \in 0 .. n - 1, g[k] \in Ok[k] PROVE g[k + 1] \in Ok[k + 1]
  <2>1. k \in 0 .. n /\ k + 1 \in 0 .. n /\ k + 1 # 0 /\ (k + 1) - 1 = k /\ m.last + (k + 1) = m.last + k + 1
    BY <1>2
  <2>2. g[k + 1] = PlaceRow(g[k], list, m.last + k + 1)
    BY <1>1, <1>8, <2>1 DEF PlaceTurn
  <2>3. QED
    BY <1>3, <1>10, <2>2
<1>11. \A k \in 0 .. n : g[k] \in Ok[k]
  BY ONLY <1>1, <1>9, <1>10, LoopInvariant
<1>12. QED
  <2>1. g[n] \in Ok[n]
    <3>1. n \in 0 .. n
      BY ONLY <1>1
    <3>2. QED
      BY ONLY <1>11, <3>1
  <2>2. PlaceRows(m, list) = g[n]
    BY ONLY <1>1, <1>8
  <2>3. QED
    BY ONLY <1>1, <2>1, <2>2

(* A row inserted, or moved up, at its place.                              *)
LEMMA PlaceFirstInsert ==
  ASSUME NEW S, NEW list \in Seq(S), IsInjective(list), NEW base, NEW k \in 0 .. Len(list) - 1,
         NEW w \in PlacedFirst(S, list, base, k), list[k + 1] \notin DOMAIN w.old
  PROVE  PlaceRow(w, list, k + 1) \in PlacedFirst(S, list, base, k + 1)
<1>1. /\ w \in RowModels(S) /\ SameBut(w, base)
      /\ k <= Len(w.rows) /\ IsInjective(w.rows) /\ Range(w.rows) \subseteq Range(list)
      /\ \A i \in 1 .. k : w.rows[i] = list[i]
      /\ DOMAIN w.old \subseteq Range(w.rows)
      /\ \A i \in 1 .. Len(w.rows) : w.rows[i] \in DOMAIN w.old => w.old[w.rows[i]] = i
      /\ \A i \in k + 1 .. Len(w.rows) : w.rows[i] \in DOMAIN w.old
  BY DEF PlacedFirst, OldKnows
<1>2. PICK s \in Seq(S), map \in ResultMaps(S) : s = w.rows /\ map = w.old
  BY <1>1, RowModelFields
<1>3. PICK n \in Nat : n = Len(s)
  BY LenProperties
<1>4. PICK p : p = k + 1
  OBVIOUS
<1>5. p \in 1 .. Len(list) /\ p \in 1 .. n + 1 /\ p \in Nat /\ p # 0 /\ k \in Nat
  BY <1>1, <1>2, <1>3, <1>4, LenProperties
<1>6. PICK r \in S : r = list[p]
  BY <1>5, RangeProperties
<1>7. r \notin Range(s)
  <2>1. SUFFICES ASSUME NEW i \in 1 .. n, s[i] = r PROVE FALSE
    BY <1>3, RangeProperties
  <2>2. CASE i <= k
    <3>1. i \in 1 .. k /\ i \in 1 .. Len(list) /\ i # p
      BY <1>4, <1>5, <2>2, LenProperties
    <3>2. list[i] = list[p]
      BY <1>1, <1>2, <1>6, <2>1, <3>1
    <3>3. QED
      BY <1>5, <3>1, <3>2, RangeProperties
  <2>3. CASE ~(i <= k)
    <3>1. i \in k + 1 .. n
      BY <1>5, <2>3
    <3>2. QED
      BY <1>1, <1>2, <1>3, <1>4, <1>6, <2>1, <3>1
  <2>4. QED
    BY <2>2, <2>3
<1>8. PICK t \in Seq(S) : t = InsertAt(s, p, r)
  BY <1>3, <1>5, InsertAtProperties
<1>9. /\ Len(t) = n + 1 /\ Range(t) = Range(s) \cup {r} /\ IsInjective(t)
      /\ \A j \in 1 .. n + 1 : t[j] = IF j < p THEN s[j] ELSE IF j = p THEN r ELSE s[j - 1]
  <2>1. p \in 1 .. Len(s) + 1
    BY <1>3, <1>5
  <2>2. Len(t) = n + 1 /\ IsInserted(t, s, p, r)
    BY <1>3, <1>8, <2>1, InsertAtProperties
  <2>3. Range(t) = Range(s) \cup {r} /\ IsInjective(t)
    BY <1>1, <1>2, <1>7, <1>8, <2>1, InsertAtRange
  <2>4. QED
    BY <1>3, <2>2, <2>3 DEF IsInserted
<1>10. PICK moved : moved = UpdateIndices(map, t, p + 1, n + 1)
  OBVIOUS
<1>11. /\ moved \in ResultMaps(S) /\ DOMAIN moved = DOMAIN map
       /\ \A i \in 1 .. n + 1 : t[i] \in DOMAIN map =>
            moved[t[i]] = IF i \in p + 1 .. n + 1 THEN i ELSE map[t[i]]
  <2>1. PICK first \in Nat \ {0}, last \in Nat : first = p + 1 /\ last = n + 1
    BY <1>5
  <2>2. moved \in ResultMaps(S) /\ IndicesFollow(moved, map, t, first, last)
    BY <1>9, <1>10, <2>1, UpdateIndicesProperties
  <2>3. QED
    BY <1>9, <2>1, <2>2 DEF IndicesFollow
<1>12. PICK v : v = WithRows(w, t, moved)
  OBVIOUS
<1>13. PlaceRow(w, list, p) = v
  <2>1. FindResult(w.old, list[p]) = 0 /\ 0 # p
    BY <1>4, <1>5 DEF FindResult
  <2>2. PlaceRow(w, list, p) = [w EXCEPT !.rows = InsertAt(w.rows, p, list[p]),
                                          !.old = UpdateIndices(w.old, InsertAt(w.rows, p, list[p]), p + 1,
                                                                Len(InsertAt(w.rows, p, list[p])))]
    BY <2>1 DEF PlaceRow
  <2>3. QED
    BY <1>2, <1>6, <1>8, <1>9, <1>10, <1>12, <2>2 DEF WithRows
<1>14. v \in RowModels(S) /\ v.rows = t /\ v.old = moved /\ SameBut(v, base)
  <2>1. v \in RowModels(S) /\ v.rows = t /\ v.old = moved /\ SameBut(v, w)
    <3>1. w \in RowModels(S) /\ t \in Seq(S) /\ moved \in ResultMaps(S)
      BY ONLY <1>1, t \in Seq(S), <1>11
    <3>2. /\ WithRows(w, t, moved) \in RowModels(S)
          /\ WithRows(w, t, moved).rows = t /\ WithRows(w, t, moved).old = moved
          /\ SameBut(WithRows(w, t, moved), w)
      BY ONLY <3>1, WithRowsProperties
    <3>3. QED
      BY ONLY <1>12, <3>2
  <2>2. QED
    BY <1>1, <2>1 DEF SameBut
<1>15. p <= Len(t) /\ Range(t) \subseteq Range(list)
  <2>1. r \in Range(list)
    BY <1>5, <1>6, RangeProperties
  <2>2. QED
    BY <1>1, <1>2, <1>5, <1>9, <2>1
<1>16. \A i \in 1 .. p : t[i] = list[i]
  <2>1. SUFFICES ASSUME NEW i \in 1 .. p PROVE t[i] = list[i]
    OBVIOUS
  <2>2. i \in 1 .. n + 1
    BY <1>5
  <2>3. CASE i = p
    BY <1>6, <1>9, <2>2, <2>3
  <2>4. CASE i # p
    <3>1. i < p /\ i \in 1 .. k
      BY <1>4, <1>5, <2>4
    <3>2. QED
      BY <1>1, <1>2, <1>9, <2>2, <3>1
  <2>5. QED
    BY <2>3, <2>4
<1>17. OldKnows(v, p)
  <2>1. DOMAIN moved \subseteq Range(t)
    BY <1>1, <1>2, <1>9, <1>11
  <2>2. ASSUME NEW i \in 1 .. n + 1, t[i] \in DOMAIN moved PROVE moved[t[i]] = i
    <3>1. CASE i \in p + 1 .. n + 1
      BY <1>11, <2>2, <3>1
    <3>2. CASE i = p
      BY <1>2, <1>4, <1>6, <1>9, <1>11, <2>2, <3>2
    <3>3. CASE i < p
      <4>1. i \in 1 .. n /\ i \notin p + 1 .. n + 1
        BY <1>5, <3>3
      <4>2. t[i] = s[i] /\ moved[t[i]] = map[t[i]] /\ map[s[i]] = i
        BY <1>1, <1>2, <1>3, <1>9, <1>11, <2>2, <3>3, <4>1
      <4>3. QED
        BY <4>2
    <3>4. QED
      BY <1>5, <3>1, <3>2, <3>3
  <2>3. ASSUME NEW i \in p + 1 .. n + 1 PROVE t[i] \in DOMAIN moved
    <3>1. i \in 1 .. n + 1 /\ ~(i < p) /\ i # p /\ i - 1 \in k + 1 .. n
      BY <1>4, <1>5
    <3>2. t[i] = s[i - 1]
      BY <1>9, <3>1
    <3>3. s[i - 1] \in DOMAIN map
      BY <1>1, <1>2, <1>3, <3>1
    <3>4. QED
      BY <1>11, <3>2, <3>3
  <2>4. QED
    BY <1>9, <1>14, <2>1, <2>2, <2>3 DEF OldKnows
<1>18. v \in PlacedFirst(S, list, base, p)
  BY <1>9, <1>14, <1>15, <1>16, <1>17 DEF PlacedFirst
<1>19. QED
  BY <1>4, <1>13, <1>18

LEMMA PlaceFirstMove ==
  ASSUME NEW S, NEW list \in Seq(S), IsInjective(list), NEW base, NEW k \in 0 .. Len(list) - 1,
         NEW w \in PlacedFirst(S, list, base, k), list[k + 1] \in DOMAIN w.old
  PROVE  PlaceRow(w, list, k + 1) \in PlacedFirst(S, list, base, k + 1)
<1>1. /\ w \in RowModels(S) /\ SameBut(w, base)
      /\ k <= Len(w.rows) /\ IsInjective(w.rows) /\ Range(w.rows) \subseteq Range(list)
      /\ \A i \in 1 .. k : w.rows[i] = list[i]
      /\ DOMAIN w.old \subseteq Range(w.rows)
      /\ \A i \in 1 .. Len(w.rows) : w.rows[i] \in DOMAIN w.old => w.old[w.rows[i]] = i
      /\ \A i \in k + 1 .. Len(w.rows) : w.rows[i] \in DOMAIN w.old
  BY DEF PlacedFirst, OldKnows
<1>2. PICK s \in Seq(S), map \in ResultMaps(S) : s = w.rows /\ map = w.old
  BY <1>1, RowModelFields
<1>3. PICK n \in Nat : n = Len(s)
  BY LenProperties
<1>4. PICK p : p = k + 1
  OBVIOUS
<1>5. p \in 1 .. Len(list) /\ p \in Nat /\ p # 0 /\ k \in Nat
  BY <1>4, LenProperties
<1>6. PICK r \in S : r = list[p]
  BY <1>5, RangeProperties
<1>7. PICK from \in 1 .. n : s[from] = r
  <2>1. r \in Range(s)
    BY <1>1, <1>2, <1>4, <1>6
  <2>2. QED
    BY <1>3, <2>1, RangeProperties
<1>8. map[r] = from /\ FindResult(w.old, list[p]) = from
  <2>1. s[from] \in DOMAIN map /\ from \in 1 .. Len(s)
    BY <1>2, <1>3, <1>4, <1>6, <1>7
  <2>2. map[s[from]] = from
    BY <1>1, <1>2, <2>1
  <2>3. QED
    BY <1>2, <1>4, <1>6, <1>7, <2>2 DEF FindResult
<1>9. p <= from
  <2>1. SUFFICES ASSUME from < p PROVE FALSE
    BY <1>5
  <2>2. from \in 1 .. k /\ from \in 1 .. Len(list) /\ from # p
    BY <1>4, <1>5, <2>1, LenProperties
  <2>3. list[from] = list[p]
    BY <1>1, <1>2, <1>6, <1>7, <2>2
  <2>4. QED
    BY <1>5, <2>2, <2>3, RangeProperties
<1>10. CASE p = from
  <2>1. PlaceRow(w, list, p) = w
    BY <1>8, <1>10 DEF PlaceRow
  <2>2. p <= Len(w.rows)
    BY <1>2, <1>3, <1>10
  <2>3. \A i \in 1 .. p : w.rows[i] = list[i]
    <3>1. SUFFICES ASSUME NEW i \in 1 .. p PROVE w.rows[i] = list[i]
      OBVIOUS
    <3>2. CASE i = p
      BY <1>2, <1>6, <1>7, <1>10, <3>2
    <3>3. CASE i # p
      <4>1. i \in 1 .. k
        BY <1>4, <1>5, <3>3
      <4>2. QED
        BY <1>1, <4>1
    <3>4. QED
      BY <3>2, <3>3
  <2>4. OldKnows(w, p)
    <3>1. \A i \in p + 1 .. n : i \in k + 1 .. n
      BY <1>4, <1>5
    <3>2. QED
      BY <1>1, <1>2, <1>3, <3>1 DEF OldKnows
  <2>5. w \in PlacedFirst(S, list, base, p)
    BY <1>1, <2>2, <2>3, <2>4 DEF PlacedFirst
  <2>6. QED
    BY <1>4, <2>1, <2>5
<1>11. CASE p < from
  <2>1. p \in 1 .. n /\ p \in 1 .. Len(s) /\ from \in 1 .. Len(s) /\ from \in Nat /\ n \in Nat
    BY <1>3, <1>5, <1>11
  <2>2. PICK t : t = MovedRow(s, from, p)
    OBVIOUS
  <2>3. /\ t \in Seq(S) /\ Len(t) = n /\ Range(t) = Range(s) /\ IsInjective(t)
        /\ \A j \in 1 .. n : t[j] = IF j < p \/ j > from THEN s[j] ELSE IF j = p THEN r ELSE s[j - 1]
    <3>1. t = InsertAt(RemoveAt(s, from), p, s[from])
      BY <2>2 DEF MovedRow
    <3>2. /\ t \in Seq(S) /\ Len(t) = Len(s)
          /\ \A j \in 1 .. Len(s) : t[j] = IF j < p \/ j > from THEN s[j] ELSE IF j = p THEN s[from] ELSE s[j - 1]
      <4>1. PICK k1 \in 1 .. Len(s), k2 \in 1 .. Len(s) : k1 = from /\ k2 = p /\ k2 < k1
        BY ONLY <1>11, <2>1
      <4>2. t = InsertAt(RemoveAt(s, k1), k2, s[k1])
        BY ONLY <3>1, <4>1
      <4>3. /\ t \in Seq(S) /\ Len(t) = Len(s)
            /\ \A j \in 1 .. Len(s) : t[j] = IF j < k2 \/ j > k1 THEN s[j] ELSE IF j = k2 THEN s[k1] ELSE s[j - 1]
        BY ONLY s \in Seq(S), <4>1, <4>2, MovedUpProperties
      <4>4. QED
        BY ONLY <4>1, <4>3
    <3>3. Range(t) = Range(s) /\ IsInjective(t)
      <4>1. IsInjective(s)
        BY ONLY <1>1, <1>2
      <4>2. QED
        BY ONLY s \in Seq(S), <2>1, <3>1, <4>1, MovedRange
    <3>4. QED
      BY <1>3, <1>7, <3>2, <3>3
  <2>4. PICK moved : moved = UpdateIndices(map, t, p, from)
    OBVIOUS
  <2>5. /\ moved \in ResultMaps(S) /\ DOMAIN moved = DOMAIN map
        /\ \A i \in 1 .. n : t[i] \in DOMAIN map => moved[t[i]] = IF i \in p .. from THEN i ELSE map[t[i]]
    <3>1. p \in Nat \ {0} /\ from \in Nat
      BY <1>5, <2>1
    <3>2. moved \in ResultMaps(S) /\ IndicesFollow(moved, map, t, p, from)
      BY <2>3, <2>4, <3>1, UpdateIndicesProperties
    <3>3. QED
      BY <2>3, <3>2 DEF IndicesFollow
  <2>6. PICK v : v = WithRows(w, t, moved)
    OBVIOUS
  <2>7. PlaceRow(w, list, p) = v
    <3>1. Min({p, from}) = p /\ Max({p, from}) = from
      BY <1>5, <1>11, <2>1, PairProperties
    <3>2. from # p /\ from # 0 /\ from \notin {0, p} /\ ~(from < p)
      BY <1>5, <1>11, <2>1
    <3>3. w.movedDown \in BOOLEAN
      BY <1>1, RowModelFields
    <3>4. PlaceRow(w, list, p) = [w EXCEPT !.rows = t, !.old = moved, !.movedDown = w.movedDown \/ from < p]
      BY <1>2, <1>8, <2>2, <2>4, <3>1, <3>2 DEF PlaceRow
    <3>5. (w.movedDown \/ from < p) = w.movedDown
      BY <3>2, <3>3
    <3>6. [w EXCEPT !.rows = t, !.old = moved, !.movedDown = w.movedDown] = [w EXCEPT !.rows = t, !.old = moved]
      <4>1. w = [rows |-> w.rows, new |-> w.new, old |-> w.old, last |-> w.last,
                 purge |-> w.purge, silent |-> w.silent, movedDown |-> w.movedDown]
        BY <1>1, RowModelFields
      <4>2. QED
        BY <4>1
    <3>7. QED
      BY <2>6, <3>4, <3>5, <3>6 DEF WithRows
  <2>8. v \in RowModels(S) /\ v.rows = t /\ v.old = moved /\ SameBut(v, base)
    <3>1. v \in RowModels(S) /\ v.rows = t /\ v.old = moved /\ SameBut(v, w)
      <4>1. w \in RowModels(S) /\ t \in Seq(S) /\ moved \in ResultMaps(S)
        BY ONLY <1>1, <2>3, <2>5
      <4>2. /\ WithRows(w, t, moved) \in RowModels(S)
            /\ WithRows(w, t, moved).rows = t /\ WithRows(w, t, moved).old = moved
            /\ SameBut(WithRows(w, t, moved), w)
        BY ONLY <4>1, WithRowsProperties
      <4>3. QED
        BY ONLY <2>6, <4>2
    <3>2. QED
      BY <1>1, <3>1 DEF SameBut
  <2>9. \A i \in 1 .. p : t[i] = list[i]
    <3>1. SUFFICES ASSUME NEW i \in 1 .. p PROVE t[i] = list[i]
      OBVIOUS
    <3>2. i \in 1 .. n
      BY <2>1
    <3>3. CASE i = p
      BY <1>6, <1>11, <2>1, <2>3, <3>2, <3>3
    <3>4. CASE i # p
      <4>1. i < p /\ i \in 1 .. k
        BY <1>4, <1>5, <3>4
      <4>2. QED
        BY <1>1, <1>2, <2>3, <3>2, <4>1
    <3>5. QED
      BY <3>3, <3>4
  <2>10. ASSUME NEW i \in 1 .. n, t[i] \in DOMAIN moved PROVE moved[t[i]] = i
    <3>1. CASE i \in p .. from
      BY <2>5, <2>10, <3>1
    <3>2. CASE i \notin p .. from
      <4>1. i < p \/ i > from
        BY <2>1, <3>2
      <4>2. t[i] = s[i] /\ moved[t[i]] = map[t[i]] /\ map[s[i]] = i
        BY <1>1, <1>2, <1>3, <2>3, <2>5, <2>10, <3>2, <4>1
      <4>3. QED
        BY <4>2
    <3>3. QED
      BY <3>1, <3>2
  <2>11. ASSUME NEW i \in p + 1 .. n PROVE t[i] \in DOMAIN moved
    <3>1. i \in 1 .. n /\ i \in k + 1 .. n /\ i - 1 \in k + 1 .. n /\ ~(i < p) /\ i # p
      BY <1>4, <1>5, <2>1
    <3>2. t[i] = s[i] \/ t[i] = s[i - 1]
      BY <2>3, <3>1
    <3>3. s[i] \in DOMAIN map /\ s[i - 1] \in DOMAIN map
      BY <1>1, <1>2, <1>3, <3>1
    <3>4. QED
      BY <2>5, <3>2, <3>3
  <2>12. OldKnows(v, p)
    <3>1. DOMAIN moved \subseteq Range(t)
      BY <1>1, <1>2, <2>3, <2>5
    <3>2. QED
      BY <2>3, <2>8, <2>10, <2>11, <3>1 DEF OldKnows
  <2>13. v \in PlacedFirst(S, list, base, p)
    <3>1. p <= Len(t) /\ Range(t) \subseteq Range(list)
      BY <1>1, <1>2, <2>1, <2>3
    <3>2. QED
      BY <2>3, <2>8, <2>9, <2>12, <3>1 DEF PlacedFirst
  <2>14. QED
    BY <1>4, <2>7, <2>13
<1>12. QED
  BY <1>5, <1>7, <1>9, <1>10, <1>11

(* A later flush adds at the end.                                          *)
LEMMA PlaceLaterStep ==
  ASSUME NEW S, NEW list \in Seq(S), NEW base \in RowModels(S),
         \A i \in base.last + 1 .. Len(list) : list[i] \notin DOMAIN base.old,
         NEW k \in 0 .. Len(list) - base.last - 1, NEW w \in PlacedLater(S, list, base, k)
  PROVE  PlaceRow(w, list, base.last + k + 1) \in PlacedLater(S, list, base, k + 1)
<1>1. /\ w \in RowModels(S) /\ SameBut(w, base) /\ w.old = base.old
      /\ Len(w.rows) = base.last + k
      /\ \A i \in 1 .. base.last : w.rows[i] = base.rows[i]
      /\ \A i \in base.last + 1 .. base.last + k : w.rows[i] = list[i]
  BY DEF PlacedLater
<1>2. PICK s \in Seq(S), map \in ResultMaps(S) : s = w.rows /\ map = w.old
  BY <1>1, RowModelFields
<1>3. PICK m \in Nat : m = base.last
  BY RowModelFields
<1>4. PICK p : p = base.last + k + 1
  OBVIOUS
<1>5. /\ p \in 1 .. Len(list) /\ p \in Nat /\ p # 0 /\ p = Len(s) + 1 /\ p = m + (k + 1)
      /\ p \in m + 1 .. Len(list) /\ p \in 1 .. Len(s) + 1 /\ k \in Nat
  <2>1. PICK size \in Nat : size = Len(list)
    BY LenProperties
  <2>2. k \in 0 .. size - m - 1 /\ p = m + k + 1 /\ Len(s) = m + k
    BY <1>1, <1>2, <1>3, <1>4, <2>1
  <2>3. k \in Nat /\ p \in 1 .. size /\ p \in m + 1 .. size
    BY <2>2
  <2>4. QED
    BY <2>1, <2>2, <2>3
<1>6. PICK r \in S : r = list[p]
  BY <1>5, RangeProperties
<1>7. r \notin DOMAIN map
  BY <1>1, <1>2, <1>3, <1>5, <1>6
<1>8. PICK t \in Seq(S) : t = InsertAt(s, p, r)
  BY <1>5, InsertAtProperties
<1>9. Len(t) = p /\ \A j \in 1 .. p : t[j] = IF j = p THEN r ELSE s[j]
  <2>1. Len(t) = Len(s) + 1 /\ IsInserted(t, s, p, r)
    BY <1>5, <1>8, InsertAtProperties
  <2>2. \A j \in 1 .. p : t[j] = IF j < p THEN s[j] ELSE IF j = p THEN r ELSE s[j - 1]
    BY <1>5, <2>1 DEF IsInserted
  <2>3. \A j \in 1 .. p : j # p => j < p
    BY <1>5
  <2>4. QED
    BY <1>5, <2>1, <2>2, <2>3
<1>10. UpdateIndices(map, t, p + 1, p) = map
  <2>1. p + 1 .. p = {}
    BY <1>5
  <2>2. \A x : {i \in p + 1 .. p : i <= Len(t) /\ t[i] = x} = {}
    BY <2>1
  <2>3. UpdateIndices(map, t, p + 1, p) = [x \in DOMAIN map |-> map[x]]
    BY <2>2 DEF UpdateIndices
  <2>4. map \in [DOMAIN map -> Nat]
    BY MapsProperties
  <2>5. QED
    BY <2>3, <2>4
<1>11. PICK v : v = WithRows(w, t, map)
  OBVIOUS
<1>12. PlaceRow(w, list, p) = v
  <2>1. FindResult(w.old, list[p]) = 0 /\ 0 # p
    BY <1>2, <1>5, <1>6, <1>7 DEF FindResult
  <2>2. PlaceRow(w, list, p) = [w EXCEPT !.rows = InsertAt(w.rows, p, list[p]),
                                          !.old = UpdateIndices(w.old, InsertAt(w.rows, p, list[p]), p + 1,
                                                                Len(InsertAt(w.rows, p, list[p])))]
    BY <2>1 DEF PlaceRow
  <2>3. QED
    BY <1>2, <1>6, <1>8, <1>9, <1>10, <1>11, <2>2 DEF WithRows
<1>13. v \in RowModels(S) /\ v.rows = t /\ v.old = base.old /\ SameBut(v, base)
  <2>1. v \in RowModels(S) /\ v.rows = t /\ v.old = map /\ SameBut(v, w)
    <3>1. /\ WithRows(w, t, map) \in RowModels(S)
          /\ WithRows(w, t, map).rows = t /\ WithRows(w, t, map).old = map
          /\ SameBut(WithRows(w, t, map), w)
      BY ONLY <1>1, t \in Seq(S), map \in ResultMaps(S), WithRowsProperties
    <3>2. QED
      BY ONLY <1>11, <3>1
  <2>2. QED
    BY <1>1, <1>2, <2>1 DEF SameBut
<1>14. \A i \in 1 .. m : t[i] = base.rows[i]
  <2>1. \A i \in 1 .. m : i \in 1 .. p /\ i # p
    BY <1>5
  <2>2. QED
    BY <1>1, <1>2, <1>3, <1>9, <2>1
<1>15. \A i \in m + 1 .. m + (k + 1) : t[i] = list[i]
  <2>1. SUFFICES ASSUME NEW i \in m + 1 .. m + (k + 1) PROVE t[i] = list[i]
    OBVIOUS
  <2>2. CASE i = p
    BY <1>5, <1>6, <1>9, <2>2
  <2>3. CASE i # p
    <3>1. i \in 1 .. p /\ i \in m + 1 .. m + k
      BY <1>5, <2>3
    <3>2. QED
      BY <1>1, <1>2, <1>3, <1>9, <2>3, <3>1
  <2>4. QED
    BY <2>2, <2>3
<1>16. v \in PlacedLater(S, list, base, k + 1)
  BY <1>3, <1>5, <1>9, <1>13, <1>14, <1>15 DEF PlacedLater
<1>17. QED
  BY <1>4, <1>12, <1>16

LEMMA SelectedInjective ==
  ASSUME NEW S, NEW s \in Seq(S), IsInjective(s), NEW P
  PROVE  IsInjective(Selected(s, P))
<1>1. PICK t \in Seq(S) : t = Selected(s, P)
  BY SelectedProperties
<1>2. PICK m, n \in Nat : m = Len(t) /\ n = Len(s) /\ DOMAIN t = 1 .. m
  BY LenProperties
<1>3. \A i, j \in 1 .. m : i < j => \E a, b \in 1 .. n : a < b /\ t[i] = s[a] /\ t[j] = s[b]
  <2>1. \A i, j \in DOMAIN Selected(s, P) :
          i < j => \E a, b \in 1 .. Len(s) : a < b /\ Selected(s, P)[i] = s[a] /\ Selected(s, P)[j] = s[b]
    BY SelectedOrder
  <2>2. \A i, j \in DOMAIN t : i < j => \E a, b \in 1 .. Len(s) : a < b /\ t[i] = s[a] /\ t[j] = s[b]
    BY ONLY <1>1, <2>1
  <2>3. SUFFICES ASSUME NEW i \in 1 .. m, NEW j \in 1 .. m, i < j
                 PROVE  \E a, b \in 1 .. n : a < b /\ t[i] = s[a] /\ t[j] = s[b]
    OBVIOUS
  <2>4. i \in DOMAIN t /\ j \in DOMAIN t
    BY ONLY <1>2, i \in 1 .. m, j \in 1 .. m
  <2>5. PICK a, b \in 1 .. Len(s) : a < b /\ t[i] = s[a] /\ t[j] = s[b]
    BY ONLY <2>2, <2>3, <2>4
  <2>6. QED
    BY ONLY <1>2, <2>5
<1>4. \A a, b \in 1 .. n : s[a] = s[b] => a = b
  BY <1>2, RangeProperties
<1>5. ASSUME NEW i \in 1 .. m, NEW j \in 1 .. m, i < j PROVE t[i] # t[j]
  <2>1. PICK a, b \in 1 .. n : a < b /\ t[i] = s[a] /\ t[j] = s[b]
    BY <1>3, <1>5
  <2>2. a # b
    BY <2>1
  <2>3. QED
    BY <1>4, <2>1, <2>2
<1>6. ASSUME NEW i \in 1 .. m, NEW j \in 1 .. m, t[i] = t[j] PROVE i = j
  <2>1. i < j \/ j < i \/ i = j
    OBVIOUS
  <2>2. QED
    BY <1>5, <1>6, <2>1
<1>7. QED
  BY <1>1, <1>2, <1>6 DEF IsInjective

(* The rows of earlier searches are swept out.                             *)
LEMMA RemoveStaleProperties ==
  ASSUME NEW S, NEW list \in Seq(S), NEW m \in RowModels(S), Indexes(m.new, list)
  PROVE  LET w == RemoveStale(m)
         IN  /\ w \in RowModels(S) /\ Indexes(w.old, w.rows) /\ Range(w.rows) \subseteq Range(list)
             /\ w.new = m.new /\ w.last = m.last /\ w.purge = m.purge /\ w.movedDown = m.movedDown
             /\ IsInjective(m.rows) => w.silent = m.silent
<1>1. m.rows \in Seq(S) /\ m.new \in ResultMaps(S) /\ m.silent \in BOOLEAN
  BY RowModelFields
<1>2. PICK P : P = {r \in DOMAIN m.new : FindResult(m.new, r) # 0}
  OBVIOUS
<1>3. P \subseteq Range(list)
  BY <1>2 DEF Indexes
<1>4. PICK kept \in Seq(S) : kept = Selected(m.rows, P)
  BY <1>1, SelectedProperties
<1>5. Range(kept) \subseteq Range(list) /\ (IsInjective(m.rows) => IsInjective(kept))
  <2>1. Range(kept) = Range(m.rows) \cap P
    BY <1>1, <1>4, SelectedProperties
  <2>2. IsInjective(m.rows) => IsInjective(kept)
    BY <1>1, <1>4, SelectedInjective
  <2>3. QED
    BY <1>3, <2>1, <2>2
<1>6. PICK index : index = MapOf(kept)
  OBVIOUS
<1>7. /\ index \in Entered(S) /\ Indexes(index.map, index.list) /\ Range(index.list) = Range(kept)
      /\ IsInjective(kept) => index.list = kept
  BY <1>6, MapOfProperties
<1>8. index.list \in Seq(S) /\ index.map \in ResultMaps(S)
  BY <1>7 DEF Entered
<1>9. PICK t \in Seq(S), map \in ResultMaps(S), b \in BOOLEAN :
        t = index.list /\ map = index.map /\ b = (m.silent \/ index.list # kept)
  BY <1>8
<1>10. RemoveStale(m) = [m EXCEPT !.rows = t, !.old = map, !.silent = b]
  BY <1>2, <1>4, <1>6, <1>9 DEF RemoveStale
<1>11. PICK w : w = RemoveStale(m)
  OBVIOUS
<1>12. /\ w \in RowModels(S) /\ w.rows = t /\ w.old = map /\ w.silent = b
       /\ w.new = m.new /\ w.last = m.last /\ w.purge = m.purge /\ w.movedDown = m.movedDown
  BY <1>10, <1>11 DEF RowModels
<1>13. IsInjective(m.rows) => b = m.silent
  <2>1. SUFFICES ASSUME IsInjective(m.rows) PROVE b = m.silent
    OBVIOUS
  <2>2. index.list = kept
    BY <1>5, <1>7, <2>1
  <2>3. CASE m.silent
    BY ONLY <1>1, <1>9, <2>3
  <2>4. CASE ~m.silent
    BY ONLY <1>1, <1>9, <2>2, <2>4
  <2>5. QED
    BY <2>3, <2>4
<1>14. Indexes(w.old, w.rows) /\ Range(w.rows) \subseteq Range(list)
  BY <1>5, <1>7, <1>9, <1>12
<1>15. IsInjective(m.rows) => w.silent = m.silent
  <2>1. w.silent = b
    BY ONLY <1>12
  <2>2. QED
    BY ONLY <1>13, <2>1
<1>16. QED
  BY ONLY <1>11, <1>12, <1>14, <1>15

LEMMA SameLength ==
  ASSUME NEW S, NEW s \in Seq(S), NEW t \in Seq(S), IsInjective(s), Range(s) \subseteq Range(t),
         Len(t) <= Len(s), \A i \in 1 .. Len(t) : s[i] = t[i]
  PROVE  s = t
<1>1. Len(s) <= Len(t)
  BY RangePigeonhole
<1>2. Len(s) = Len(t)
  BY <1>1, LenProperties
<1>3. QED
  BY <1>2

(* After the first flush of a search that finds rows.                      *)
LEMMA PlaceRowsFirst ==
  ASSUME NEW S, NEW list \in Seq(S), IsInjective(list), NEW m \in RowModels(S), m.last = 0,
         Indexes(m.old, m.rows), Range(m.rows) \subseteq Range(list)
  PROVE  LET w == PlaceRows(m, list)
         IN  /\ w \in RowModels(S) /\ SameBut(w, m) /\ w.rows = list
             /\ DOMAIN w.old \subseteq Range(list)
<1>1. PICK n \in Nat : n = Len(list) /\ n = Len(list) - m.last
  BY LenProperties
<1>2. PICK Ok : Ok = [k \in 0 .. n |-> PlacedFirst(S, list, m, k)]
  OBVIOUS
<1>3. Ok \in [0 .. Len(list) - m.last -> SUBSET RowModels(S)]
  BY <1>1, <1>2 DEF PlacedFirst
<1>4. m \in Ok[0]
  <2>1. m.rows \in Seq(S) /\ m.old \in ResultMaps(S)
    BY RowModelFields
  <2>2. IsInjective(m.rows)
    BY <2>1, IndexesProperties
  <2>3. PICK l \in Nat : l = Len(m.rows)
    BY <2>1, LenProperties
  <2>4. 0 <= l /\ 1 .. 0 = {} /\ 0 + 1 .. l = 1 .. l
    OBVIOUS
  <2>5. \A i \in 1 .. l : m.rows[i] \in Range(m.rows)
    BY <2>1, <2>3, RangeProperties
  <2>6. OldKnows(m, 0)
    BY <2>3, <2>4, <2>5 DEF OldKnows, Indexes
  <2>7. m \in PlacedFirst(S, list, m, 0)
    BY <2>2, <2>3, <2>4, <2>6 DEF PlacedFirst, SameBut
  <2>8. 0 \in 0 .. n
    OBVIOUS
  <2>9. QED
    BY <1>2, <2>7, <2>8
<1>5. ASSUME NEW k \in 0 .. Len(list) - m.last - 1, NEW w \in Ok[k]
      PROVE  PlaceRow(w, list, m.last + k + 1) \in Ok[k + 1]
  <2>1. k \in 0 .. Len(list) - 1 /\ k \in 0 .. n /\ k + 1 \in 0 .. n /\ m.last + k + 1 = k + 1
    BY <1>1
  <2>2. w \in PlacedFirst(S, list, m, k)
    BY <1>2, <2>1
  <2>3. PlaceRow(w, list, k + 1) \in PlacedFirst(S, list, m, k + 1)
    <3>1. CASE list[k + 1] \in DOMAIN w.old
      BY <2>1, <2>2, <3>1, PlaceFirstMove
    <3>2. CASE list[k + 1] \notin DOMAIN w.old
      BY <2>1, <2>2, <3>2, PlaceFirstInsert
    <3>3. QED
      BY <3>1, <3>2
  <2>4. QED
    BY <1>2, <2>1, <2>3
<1>6. PlaceRows(m, list) \in Ok[Len(list) - m.last]
  <2>1. m.last <= Len(list)
    BY <1>1
  <2>2. QED
    BY <1>3, <1>4, <1>5, <2>1, PlaceRowsProperties
<1>7. PICK w : w = PlaceRows(m, list)
  OBVIOUS
<1>8. w \in PlacedFirst(S, list, m, n)
  BY <1>1, <1>2, <1>6, <1>7
<1>9. /\ w \in RowModels(S) /\ SameBut(w, m)
      /\ n <= Len(w.rows) /\ IsInjective(w.rows) /\ Range(w.rows) \subseteq Range(list)
      /\ \A i \in 1 .. n : w.rows[i] = list[i]
      /\ DOMAIN w.old \subseteq Range(w.rows)
  BY <1>8 DEF PlacedFirst, OldKnows
<1>10. w.rows = list
  <2>1. w.rows \in Seq(S)
    BY <1>9, RowModelFields
  <2>2. PICK s \in Seq(S) : s = w.rows
    BY <2>1
  <2>3. s = list
    BY <1>1, <1>9, <2>2, SameLength
  <2>4. QED
    BY <2>2, <2>3
<1>11. QED
  BY <1>7, <1>9, <1>10

(* After a later flush.                                                    *)
LEMMA PlaceRowsLater ==
  ASSUME NEW S, NEW list \in Seq(S), NEW m \in RowModels(S), m.last <= Len(list), Len(m.rows) = m.last,
         \A i \in m.last + 1 .. Len(list) : list[i] \notin DOMAIN m.old
  PROVE  LET w == PlaceRows(m, list)
         IN  /\ w \in RowModels(S) /\ SameBut(w, m) /\ w.old = m.old
             /\ Len(w.rows) = Len(list)
             /\ \A i \in 1 .. m.last : w.rows[i] = m.rows[i]
             /\ \A i \in m.last + 1 .. Len(list) : w.rows[i] = list[i]
<1>1. PICK n \in Nat : n = Len(list) - m.last
  BY LenProperties, RowModelFields
<1>2. m.last \in Nat /\ m.last + n = Len(list) /\ m.last + 0 = m.last
  BY <1>1, LenProperties, RowModelFields
<1>3. PICK Ok : Ok = [k \in 0 .. n |-> PlacedLater(S, list, m, k)]
  OBVIOUS
<1>4. Ok \in [0 .. Len(list) - m.last -> SUBSET RowModels(S)]
  BY <1>1, <1>3 DEF PlacedLater
<1>5. m \in Ok[0]
  <2>1. m.last + 1 .. m.last + 0 = {}
    BY <1>2
  <2>2. m \in PlacedLater(S, list, m, 0)
    BY <1>2, <2>1 DEF PlacedLater, SameBut
  <2>3. 0 \in 0 .. n
    OBVIOUS
  <2>4. QED
    BY <1>3, <2>2, <2>3
<1>6. ASSUME NEW k \in 0 .. Len(list) - m.last - 1, NEW w \in Ok[k]
      PROVE  PlaceRow(w, list, m.last + k + 1) \in Ok[k + 1]
  <2>1. k \in 0 .. n /\ k + 1 \in 0 .. n
    BY <1>1
  <2>2. w \in PlacedLater(S, list, m, k)
    BY <1>3, <2>1
  <2>3. PlaceRow(w, list, m.last + k + 1) \in PlacedLater(S, list, m, k + 1)
    BY <2>2, PlaceLaterStep
  <2>4. QED
    BY <1>3, <2>1, <2>3
<1>7. PlaceRows(m, list) \in Ok[Len(list) - m.last]
  BY <1>4, <1>5, <1>6, PlaceRowsProperties
<1>8. PICK w : w = PlaceRows(m, list)
  OBVIOUS
<1>9. w \in PlacedLater(S, list, m, n)
  BY <1>1, <1>3, <1>7, <1>8
<1>10. QED
  BY <1>2, <1>8, <1>9 DEF PlacedLater

(* Before the first results of a search, and after some of them came.      *)
NothingYet(m) == m.last = 0 /\ m.new = EmptyMap /\ m.purge

Shows(m, list) ==
  /\ m.last = Len(list) /\ Len(m.rows) = Len(list) /\ ~m.purge
  /\ Indexes(m.new, list) /\ DOMAIN m.old \subseteq Range(list)

(* The first results of a search become the rows.                          *)
FirstShown(S, m, chunk, u) ==
  /\ u.model \in RowModels(S) /\ u.results \in Seq(S)
  /\ u.results = MapOf(chunk).list /\ Range(u.results) = Range(chunk) /\ IsInjective(u.results)
  /\ Shows(u.model, u.results) /\ u.model.rows = u.results
  /\ u.model.movedDown = m.movedDown
  /\ IsInjective(m.rows) => u.model.silent = m.silent

LEMMA AddUpdateEmpty ==
  ASSUME NEW S, NEW chunk \in Seq(S), NEW m \in RowModels(S), m.rows = <<>>
  PROVE  FirstShown(S, m, chunk, AddUpdateResults(m, chunk))
<1>1. PICK k : k = MapOf(chunk)
  OBVIOUS
<1>2. /\ k \in Entered(S) /\ Indexes(k.map, k.list) /\ Range(k.list) = Range(chunk)
  BY <1>1, MapOfProperties
<1>3. PICK t \in Seq(S), map \in ResultMaps(S) : t = k.list /\ map = k.map
  BY <1>2 DEF Entered
<1>4. <<>> \o t = t
  OBVIOUS
<1>5. PICK n \in Nat : n = Len(t)
  BY LenProperties
<1>6. PICK v : v = [m EXCEPT !.rows = t, !.new = map, !.old = map, !.last = n, !.purge = FALSE]
  OBVIOUS
<1>7. PICK u : u = AddUpdateResults(m, chunk)
  OBVIOUS
<1>8. u = [model |-> v, results |-> t]
  BY <1>1, <1>3, <1>4, <1>5, <1>6, <1>7 DEF AddUpdateResults, AddResults
<1>9. u.model = v /\ u.results = t
  BY <1>8
<1>10. v \in RowModels(S)
  BY <1>3, <1>5, <1>6 DEF RowModels
<1>11. /\ v.rows = t /\ v.new = map /\ v.old = map /\ v.last = n /\ v.purge = FALSE
       /\ v.movedDown = m.movedDown /\ v.silent = m.silent
  BY <1>6 DEF RowModels
<1>12. IsInjective(t) /\ Indexes(map, t) /\ DOMAIN map = Range(t)
  <2>1. Indexes(map, t)
    BY <1>2, <1>3
  <2>2. QED
    BY <2>1, IndexesProperties DEF Indexes
<1>13. Shows(v, t)
  BY <1>5, <1>11, <1>12 DEF Shows
<1>14. QED
  BY <1>1, <1>2, <1>3, <1>7, <1>9, <1>10, <1>11, <1>12, <1>13 DEF FirstShown

LEMMA AddUpdateFirst ==
  ASSUME NEW S, NEW chunk \in Seq(S), NEW m \in RowModels(S), m.last = 0, m.new = EmptyMap, m.rows # <<>>
  PROVE  FirstShown(S, m, chunk, AddUpdateResults(m, chunk))
<1>1. PICK k : k = MapOf(chunk)
  OBVIOUS
<1>2. /\ k \in Entered(S) /\ Indexes(k.map, k.list) /\ Range(k.list) = Range(chunk)
  BY <1>1, MapOfProperties
<1>3. PICK t \in Seq(S), map \in ResultMaps(S) : t = k.list /\ map = k.map
  BY <1>2 DEF Entered
<1>4. UpdateMap(m.new, chunk, m.last) = k
  BY <1>1 DEF MapOf
<1>5. PICK n \in Nat : n = Len(t)
  BY LenProperties
<1>6. PICK started \in RowModels(S) : started = [m EXCEPT !.new = map, !.purge = FALSE]
  <2>1. PICK v : v = [m EXCEPT !.new = map, !.purge = FALSE]
    OBVIOUS
  <2>2. v \in RowModels(S)
    BY <1>3, <2>1 DEF RowModels
  <2>3. QED
    BY <2>1, <2>2
<1>7. /\ started.rows = m.rows /\ started.new = map /\ started.last = 0 /\ started.purge = FALSE
      /\ started.silent = m.silent /\ started.movedDown = m.movedDown
  BY <1>6 DEF RowModels
<1>8. Indexes(map, t) /\ IsInjective(t)
  <2>1. Indexes(map, t)
    BY <1>2, <1>3
  <2>2. QED
    BY <2>1, IndexesProperties
<1>9. PICK swept : swept = RemoveStale(started)
  OBVIOUS
<1>10. /\ swept \in RowModels(S) /\ Indexes(swept.old, swept.rows) /\ Range(swept.rows) \subseteq Range(t)
       /\ swept.new = map /\ swept.last = 0 /\ swept.purge = FALSE /\ swept.movedDown = m.movedDown
       /\ IsInjective(m.rows) => swept.silent = m.silent
  <2>1. Indexes(started.new, t)
    BY <1>7, <1>8
  <2>2. /\ swept \in RowModels(S) /\ Indexes(swept.old, swept.rows) /\ Range(swept.rows) \subseteq Range(t)
        /\ swept.new = started.new /\ swept.last = started.last
        /\ swept.purge = started.purge /\ swept.movedDown = started.movedDown
        /\ IsInjective(started.rows) => swept.silent = started.silent
    BY <1>9, <2>1, RemoveStaleProperties
  <2>3. QED
    BY <1>7, <2>2
<1>11. PICK placed : placed = PlaceRows(swept, t)
  OBVIOUS
<1>12. placed \in RowModels(S) /\ SameBut(placed, swept) /\ placed.rows = t /\ DOMAIN placed.old \subseteq Range(t)
  BY <1>8, <1>10, <1>11, PlaceRowsFirst
<1>13. PICK v : v = [placed EXCEPT !.last = n]
  OBVIOUS
<1>14. PICK u : u = AddUpdateResults(m, chunk)
  OBVIOUS
<1>15. u = [model |-> v, results |-> t]
  BY <1>3, <1>4, <1>5, <1>6, <1>9, <1>11, <1>13, <1>14 DEF AddUpdateResults
<1>16. u.model = v /\ u.results = t
  BY <1>15
<1>17. v \in RowModels(S)
  BY <1>5, <1>12, <1>13 DEF RowModels
<1>18. /\ v.rows = placed.rows /\ v.new = placed.new /\ v.old = placed.old /\ v.last = n
       /\ v.purge = placed.purge /\ v.movedDown = placed.movedDown /\ v.silent = placed.silent
  BY <1>12, <1>13 DEF RowModels
<1>19. Shows(v, t)
  BY <1>5, <1>8, <1>10, <1>12, <1>18 DEF Shows, SameBut
<1>20. v.rows = t /\ v.movedDown = m.movedDown
  BY <1>10, <1>12, <1>18 DEF SameBut
<1>21. IsInjective(m.rows) => v.silent = m.silent
  BY <1>10, <1>12, <1>18 DEF SameBut
<1>22. QED
  BY <1>1, <1>2, <1>3, <1>8, <1>14, <1>16, <1>17, <1>19, <1>20, <1>21 DEF FirstShown

(* Later results come after the rows of the search.                        *)
LaterShown(S, m, list, chunk, u) ==
  /\ u.model \in RowModels(S) /\ u.results \in Seq(S)
  /\ u.results = UpdateMap(m.new, list \o chunk, Len(list)).list
  /\ Range(u.results) = Range(list) \cup Range(chunk) /\ IsInjective(u.results)
  /\ Shows(u.model, u.results)
  /\ Len(list) <= Len(u.results)
  /\ \A i \in 1 .. Len(list) : u.results[i] = list[i] /\ u.model.rows[i] = m.rows[i]
  /\ \A i \in Len(list) + 1 .. Len(u.results) : u.model.rows[i] = u.results[i]
  /\ u.model.movedDown = m.movedDown /\ u.model.silent = m.silent

LEMMA AddUpdateLater ==
  ASSUME NEW S, NEW list \in Seq(S), list # <<>>, NEW chunk \in Seq(S), NEW m \in RowModels(S), Shows(m, list)
  PROVE  LaterShown(S, m, list, chunk, AddUpdateResults(m, list \o chunk))
<1>1. PICK all \in Seq(S) : all = list \o chunk
  BY ExtendedDomain
<1>2. PICK l \in Nat : l = Len(list) /\ DOMAIN list = 1 .. l
  BY LenProperties
<1>3. /\ l \in 0 .. Len(all) /\ SubSeq(all, 1, l) = list /\ Range(all) = Range(list) \cup Range(chunk)
      /\ \A i \in 1 .. l : all[i] = list[i]
  BY <1>1, <1>2, ExtendedDomain, ConcatRange
<1>4. m.last = l /\ Len(m.rows) = l /\ l # 0 /\ m.rows # <<>> /\ m.rows \in Seq(S)
  <2>1. m.rows \in Seq(S)
    BY RowModelFields
  <2>2. QED
    BY <1>2, <2>1 DEF Shows
<1>5. PICK k : k = UpdateMap(m.new, all, l)
  OBVIOUS
<1>6. /\ k \in Entered(S) /\ Indexes(k.map, k.list) /\ Range(k.list) = Range(all)
      /\ \A i \in 1 .. l : k.list[i] = all[i]
      /\ l <= Len(k.list)
  <2>1. m.new \in ResultMaps(S)
    BY RowModelFields
  <2>2. Sensible(S, m.new, all, l)
    BY <1>3, <2>1 DEF Sensible, Shows
  <2>3. QED
    BY <1>3, <1>5, <2>2, UpdateMapProperties
<1>7. PICK t \in Seq(S), map \in ResultMaps(S) : t = k.list /\ map = k.map
  BY <1>6 DEF Entered
<1>8. PICK n \in Nat : n = Len(t) /\ DOMAIN t = 1 .. n
  BY LenProperties
<1>9. l <= n /\ \A i \in 1 .. l : t[i] = list[i]
  BY <1>3, <1>6, <1>7, <1>8
<1>10. Indexes(map, t) /\ IsInjective(t)
  <2>1. Indexes(map, t)
    BY <1>6, <1>7
  <2>2. QED
    BY <2>1, IndexesProperties
<1>11. PICK started \in RowModels(S) : started = [m EXCEPT !.new = map, !.purge = FALSE]
  <2>1. PICK v : v = [m EXCEPT !.new = map, !.purge = FALSE]
    OBVIOUS
  <2>2. v \in RowModels(S)
    BY <1>7, <2>1 DEF RowModels
  <2>3. QED
    BY <2>1, <2>2
<1>12. /\ started.rows = m.rows /\ started.new = map /\ started.old = m.old /\ started.last = l
       /\ started.purge = FALSE /\ started.silent = m.silent /\ started.movedDown = m.movedDown
  BY <1>4, <1>11 DEF RowModels
<1>13. \A i \in l + 1 .. n : t[i] \notin DOMAIN started.old
  <2>1. SUFFICES ASSUME NEW i \in l + 1 .. n, t[i] \in DOMAIN started.old PROVE FALSE
    OBVIOUS
  <2>2. t[i] \in Range(list)
    BY <1>12, <2>1 DEF Shows
  <2>3. PICK j \in 1 .. l : list[j] = t[i]
    BY <1>2, <2>2, RangeProperties
  <2>4. i \in 1 .. n /\ j \in 1 .. n /\ i # j
    BY <1>9, <2>3
  <2>5. t[i] = t[j]
    BY <1>9, <2>3
  <2>6. QED
    BY <1>8, <1>10, <2>4, <2>5 DEF IsInjective
<1>14. PICK placed : placed = PlaceRows(started, t)
  OBVIOUS
<1>15. /\ placed \in RowModels(S) /\ SameBut(placed, started) /\ placed.old = started.old
       /\ Len(placed.rows) = n
       /\ \A i \in 1 .. l : placed.rows[i] = m.rows[i]
       /\ \A i \in l + 1 .. n : placed.rows[i] = t[i]
  <2>1. started.last <= Len(t) /\ Len(started.rows) = started.last
    BY <1>4, <1>8, <1>9, <1>12
  <2>2. \A i \in started.last + 1 .. Len(t) : t[i] \notin DOMAIN started.old
    BY <1>8, <1>12, <1>13
  <2>3. /\ placed \in RowModels(S) /\ SameBut(placed, started) /\ placed.old = started.old
        /\ Len(placed.rows) = Len(t)
        /\ \A i \in 1 .. started.last : placed.rows[i] = started.rows[i]
        /\ \A i \in started.last + 1 .. Len(t) : placed.rows[i] = t[i]
    BY <1>14, <2>1, <2>2, PlaceRowsLater
  <2>4. QED
    BY <1>8, <1>12, <2>3
<1>16. PICK v : v = [placed EXCEPT !.last = n]
  OBVIOUS
<1>17. PICK u : u = AddUpdateResults(m, all)
  OBVIOUS
<1>18. u = [model |-> v, results |-> t]
  BY <1>4, <1>5, <1>7, <1>8, <1>11, <1>14, <1>16, <1>17 DEF AddUpdateResults
<1>19. u.model = v /\ u.results = t
  BY <1>18
<1>20. v \in RowModels(S)
  BY <1>8, <1>15, <1>16 DEF RowModels
<1>21. /\ v.rows = placed.rows /\ v.new = placed.new /\ v.old = placed.old /\ v.last = n
       /\ v.purge = placed.purge /\ v.movedDown = placed.movedDown /\ v.silent = placed.silent
  BY <1>15, <1>16 DEF RowModels
<1>22. Range(t) = Range(list) \cup Range(chunk)
  BY <1>3, <1>6, <1>7
<1>23. Shows(v, t)
  <2>1. DOMAIN v.old \subseteq Range(t)
    BY <1>12, <1>15, <1>21, <1>22 DEF Shows
  <2>2. QED
    BY <1>8, <1>10, <1>12, <1>15, <1>21, <2>1 DEF Shows, SameBut
<1>24. v.movedDown = m.movedDown /\ v.silent = m.silent
  BY <1>12, <1>15, <1>21 DEF SameBut
<1>25. t = UpdateMap(m.new, list \o chunk, Len(list)).list
  BY <1>1, <1>2, <1>5, <1>7
<1>26. /\ Len(list) <= Len(t)
       /\ \A i \in 1 .. Len(list) : t[i] = list[i] /\ v.rows[i] = m.rows[i]
       /\ \A i \in Len(list) + 1 .. Len(t) : v.rows[i] = t[i]
  BY <1>2, <1>8, <1>9, <1>15, <1>21
<1>27. QED
  BY <1>1, <1>10, <1>17, <1>19, <1>20, <1>22, <1>23, <1>24, <1>25, <1>26 DEF LaterShown

-----------------------------------------------------------------------------
(* CategoryResults.                                                        *)

(* An update: the first row with r, if there is one, now holds u.          *)
RowUpdated(S, m, r, u, w) ==
  /\ w \in RowModels(S) /\ w.old = m.old /\ SameBut(w, m)
  /\ \/ w.rows = m.rows /\ ~Contains(m.rows, r)
     \/ \E p \in 1 .. Len(m.rows) : m.rows[p] = r /\ w.rows = [m.rows EXCEPT ![p] = u]

LEMMA UpdateResultProperties ==
  ASSUME NEW S, NEW m \in RowModels(S), NEW r \in S, NEW u \in S
  PROVE  RowUpdated(S, m, r, u, UpdateResult(m, r, u))
<1>1. PICK rr \in Seq(S) : rr = m.rows
  BY RowModelFields
<1>2. PICK n \in Nat : n = Len(rr) /\ DOMAIN rr = 1 .. n
  BY LenProperties
<1>3. PICK at : at = {i \in 1 .. n : rr[i] = r}
  OBVIOUS
<1>4. at = {i \in DOMAIN m.rows : m.rows[i] = r}
  BY <1>1, <1>2, <1>3
<1>5. CASE at = {}
  <2>1. UpdateResult(m, r, u) = m
    BY <1>4, <1>5 DEF UpdateResult
  <2>2. ~Contains(m.rows, r)
    BY <1>1, <1>2, <1>3, <1>5 DEF Contains
  <2>3. QED
    BY <2>1, <2>2 DEF RowUpdated, SameBut
<1>6. CASE at # {}
  <2>1. at \in SUBSET Nat
    BY <1>3
  <2>2. PICK p : p = Min(at)
    OBVIOUS
  <2>3. p \in at
    BY <1>6, <2>1, <2>2, LeastProperties
  <2>4. p \in 1 .. n /\ rr[p] = r
    BY <1>3, <2>3
  <2>5. PICK t \in Seq(S) : t = [rr EXCEPT ![p] = u]
    <3>1. PICK t : t = [rr EXCEPT ![p] = u]
      OBVIOUS
    <3>2. rr \in [1 .. n -> S]
      BY <1>2
    <3>3. t \in [1 .. n -> S]
      BY <3>1, <3>2
    <3>4. t \in Seq(S)
      BY <3>3
    <3>5. QED
      BY <3>1, <3>4
  <2>6. PICK w : w = UpdateResult(m, r, u)
    OBVIOUS
  <2>7. w = [m EXCEPT !.rows = t]
    BY <1>1, <1>4, <1>6, <2>2, <2>5, <2>6 DEF UpdateResult, RowModels
  <2>8. w \in RowModels(S)
    BY <2>5, <2>7 DEF RowModels
  <2>9. w.rows = t /\ w.old = m.old /\ SameBut(w, m)
    BY <2>7 DEF RowModels, SameBut
  <2>10. p \in 1 .. Len(m.rows) /\ m.rows[p] = r /\ w.rows = [m.rows EXCEPT ![p] = u]
    BY <1>1, <1>2, <2>4, <2>5, <2>9
  <2>11. QED
    BY <2>6, <2>8, <2>9, <2>10 DEF RowUpdated
<1>7. QED
  BY <1>5, <1>6

LEMMA RowChunkProperties ==
  ASSUME NEW chunk \in RowChunks
  PROVE  chunk \in Seq(RowResults)
<1>1. PICK n \in 0 .. MaxRowChunk : chunk \in [1 .. n -> RowResults]
  BY DEF RowChunks, BoundedSeq, SeqOf
<1>2. n \in Nat
  BY RowsAssumption
<1>3. QED
  BY <1>1, <1>2

(* Between two calls of the Scope: the maps and the list say what is       *)
(* shown, and only an update can have made two rows equal.                 *)
RowsInv ==
  /\ rowModel \in RowModels(RowResults) /\ rowResults \in Seq(RowResults)
  /\ rowSearching \in BOOLEAN /\ collided \in BOOLEAN
  /\ ~rowSearching => rowResults = <<>>
  /\ rowSearching /\ rowResults = <<>> => NothingYet(rowModel)
  /\ rowResults # <<>> => Shows(rowModel, rowResults)
  /\ ~collided => IsInjective(rowModel.rows)
  /\ NoSilentRemoval /\ NeverMovesDown

LEMMA EmptySequence ==
  ASSUME NEW S
  PROVE  /\ <<>> \in Seq(S) /\ Range(<<>>) = {} /\ IsInjective(<<>>) /\ Len(<<>>) = 0
         /\ \A s \in Seq(S) : <<>> \o s = s /\ (Len(s) = 0 <=> s = <<>>) /\ (Range(s) = {} <=> s = <<>>)
<1>1. <<>> \in Seq(S) /\ Len(<<>>) = 0 /\ DOMAIN <<>> = {}
  OBVIOUS
<1>2. Range(<<>>) = {} /\ IsInjective(<<>>)
  BY <1>1 DEF Range, IsInjective
<1>3. \A s \in Seq(S) : <<>> \o s = s /\ (Len(s) = 0 <=> s = <<>>)
  OBVIOUS
<1>4. \A s \in Seq(S) : Range(s) = {} => s = <<>>
  <2>1. SUFFICES ASSUME NEW s \in Seq(S), s # <<>> PROVE Range(s) # {}
    OBVIOUS
  <2>2. PICK n \in Nat : n = Len(s)
    BY LenProperties
  <2>3. n # 0
    BY <2>1, <2>2
  <2>4. 1 \in 1 .. n
    BY <2>3
  <2>5. QED
    BY <2>2, <2>4, RangeProperties
<1>5. QED
  BY <1>1, <1>2, <1>3, <1>4

LEMMA RowsStart == RowsInit => RowsInv
<1>1. SUFFICES ASSUME RowsInit PROVE RowsInv
  OBVIOUS
<1>2. PICK garbage \in 0 .. MaxRowChunk : rowModel = EmptyModel(garbage)
  BY <1>1 DEF RowsInit
<1>3. garbage \in Nat
  BY RowsAssumption
<1>4. PICK none \in Seq(RowResults) : none = <<>> /\ IsInjective(none)
  BY EmptySequence
<1>5. PICK map \in ResultMaps(RowResults) : map = EmptyMap
  BY MapsProperties
<1>6. rowModel = [rows |-> none, new |-> map, old |-> map, last |-> garbage, purge |-> TRUE,
                  silent |-> FALSE, movedDown |-> FALSE]
  BY <1>2, <1>4, <1>5 DEF EmptyModel
<1>7. rowModel \in RowModels(RowResults)
  BY <1>3, <1>6 DEF RowModels
<1>8. rowModel.rows = none /\ rowModel.silent = FALSE /\ rowModel.movedDown = FALSE
  BY <1>6
<1>9. QED
  BY <1>1, <1>4, <1>7, <1>8 DEF RowsInit, RowsInv, NoSilentRemoval, NeverMovesDown

LEMMA NewRowSearchInv == RowsInv /\ NewRowSearch => RowsInv'
<1>1. SUFFICES ASSUME RowsInv, NewRowSearch PROVE RowsInv'
  OBVIOUS
<1>2. PICK map \in ResultMaps(RowResults) : map = EmptyMap
  BY MapsProperties
<1>3. rowModel' = [rowModel EXCEPT !.purge = TRUE, !.last = 0, !.new = map]
  BY <1>1, <1>2 DEF NewRowSearch, MarkNewSearch
<1>4. rowModel' \in RowModels(RowResults)
  BY <1>1, <1>3 DEF RowsInv, RowModels
<1>5. /\ rowModel'.rows = rowModel.rows /\ rowModel'.new = map /\ rowModel'.last = 0 /\ rowModel'.purge = TRUE
      /\ rowModel'.silent = rowModel.silent /\ rowModel'.movedDown = rowModel.movedDown
  BY <1>1, <1>3 DEF RowsInv, RowModels
<1>6. rowResults' = <<>> /\ rowResults' \in Seq(RowResults) /\ rowSearching' = TRUE /\ collided' = collided
  BY <1>1, EmptySequence DEF NewRowSearch
<1>7. NothingYet(rowModel')
  BY <1>2, <1>5 DEF NothingYet
<1>8. QED
  BY <1>1, <1>4, <1>5, <1>6, <1>7 DEF RowsInv, NoSilentRemoval, NeverMovesDown

(* What a flush with results does, before the purge of the last one.       *)
Flushed(chunk, u) ==
  /\ rowResults = <<>> => FirstShown(RowResults, rowModel, chunk, u)
  /\ rowResults # <<>> => LaterShown(RowResults, rowModel, rowResults, chunk, u)

LEMMA FlushShows ==
  ASSUME RowsInv, rowSearching, NEW chunk \in Seq(RowResults)
  PROVE  Flushed(chunk, AddUpdateResults(rowModel, rowResults \o chunk))
<1>1. CASE rowResults = <<>>
  <2>1. rowResults \o chunk = chunk
    BY <1>1
  <2>2. rowModel \in RowModels(RowResults) /\ rowModel.last = 0 /\ rowModel.new = EmptyMap
    BY <1>1 DEF RowsInv, NothingYet
  <2>3. FirstShown(RowResults, rowModel, chunk, AddUpdateResults(rowModel, chunk))
    <3>1. CASE rowModel.rows = <<>>
      BY <2>2, <3>1, AddUpdateEmpty
    <3>2. CASE rowModel.rows # <<>>
      BY <2>2, <3>2, AddUpdateFirst
    <3>3. QED
      BY <3>1, <3>2
  <2>4. QED
    BY <1>1, <2>1, <2>3 DEF Flushed
<1>2. CASE rowResults # <<>>
  <2>1. rowModel \in RowModels(RowResults) /\ rowResults \in Seq(RowResults) /\ Shows(rowModel, rowResults)
    BY <1>2 DEF RowsInv
  <2>2. LaterShown(RowResults, rowModel, rowResults, chunk, AddUpdateResults(rowModel, rowResults \o chunk))
    BY <1>2, <2>1, AddUpdateLater
  <2>3. QED
    BY <1>2, <2>2 DEF Flushed
<1>3. QED
  BY <1>1, <1>2

(* The state of the rows after a flush with results.                       *)
AfterFlush(chunk, u) ==
  /\ u.model \in RowModels(RowResults) /\ u.results \in Seq(RowResults)
  /\ Range(u.results) = Range(rowResults) \cup Range(chunk)
  /\ Shows(u.model, u.results)
  /\ ~collided /\ ~ChunkCollides(chunk) => IsInjective(u.model.rows)
  /\ ~collided => u.model.silent = rowModel.silent
  /\ u.model.movedDown = rowModel.movedDown

LEMMA FlushProperties ==
  ASSUME RowsInv, rowSearching, NEW chunk \in Seq(RowResults)
  PROVE  AfterFlush(chunk, AddUpdateResults(rowModel, rowResults \o chunk))
<1>1. PICK u : u = AddUpdateResults(rowModel, rowResults \o chunk)
  OBVIOUS
<1>2. Flushed(chunk, u)
  BY <1>1, FlushShows
<1>3. CASE rowResults = <<>>
  <2>1. FirstShown(RowResults, rowModel, chunk, u)
    BY <1>2, <1>3 DEF Flushed
  <2>2. Range(u.results) = Range(rowResults) \cup Range(chunk)
    BY <1>3, <2>1, EmptySequence DEF FirstShown
  <2>3. ~collided => IsInjective(rowModel.rows)
    BY DEF RowsInv
  <2>4. QED
    BY <1>1, <2>1, <2>2, <2>3 DEF FirstShown, AfterFlush
<1>4. CASE rowResults # <<>>
  <2>1. LaterShown(RowResults, rowModel, rowResults, chunk, u)
    BY <1>2, <1>4 DEF Flushed
  <2>2. PICK list \in Seq(RowResults), t \in Seq(RowResults), was \in Seq(RowResults), after \in Seq(RowResults) :
          list = rowResults /\ t = u.results /\ was = rowModel.rows /\ after = u.model.rows
    BY <2>1, RowModelFields DEF RowsInv, LaterShown
  <2>3. PICK l, n \in Nat : /\ l = Len(list) /\ l = Len(was) /\ n = Len(t) /\ n = Len(after)
                            /\ l <= n
    <3>1. Shows(rowModel, rowResults)
      BY <1>4 DEF RowsInv
    <3>2. Len(list) \in Nat /\ Len(t) \in Nat
      BY <2>2, LenProperties
    <3>3. QED
      BY <2>1, <2>2, <3>1, <3>2 DEF LaterShown, Shows
  <2>4. /\ \A i \in 1 .. l : t[i] = list[i] /\ after[i] = was[i]
        /\ \A i \in l + 1 .. n : after[i] = t[i]
    BY <2>1, <2>2, <2>3 DEF LaterShown
  <2>5. ASSUME ~collided, ~ChunkCollides(chunk) PROVE IsInjective(after)
    <3>1. \A i, j \in 1 .. l : was[i] = was[j] => i = j
      <4>1. IsInjective(was)
        BY <2>2, <2>5 DEF RowsInv
      <4>2. QED
        BY <2>2, <2>3, <4>1, RangeProperties
    <3>2. \A i, j \in 1 .. n : t[i] = t[j] => i = j
      <4>1. IsInjective(t)
        BY <2>1, <2>2 DEF LaterShown
      <4>2. QED
        BY <2>2, <2>3, <4>1, RangeProperties
    <3>3. \A i \in l + 1 .. n, j \in 1 .. l : t[i] # was[j]
      <4>1. SUFFICES ASSUME NEW i \in l + 1 .. n, NEW j \in 1 .. l, t[i] = was[j] PROVE FALSE
        OBVIOUS
      <4>2. \A k \in 1 .. l : list[k] # t[i]
        <5>1. SUFFICES ASSUME NEW k \in 1 .. l, list[k] = t[i] PROVE FALSE
          OBVIOUS
        <5>2. i \in 1 .. n /\ k \in 1 .. n /\ i # k /\ t[k] = t[i]
          BY <2>3, <2>4, <5>1
        <5>3. QED
          BY <3>2, <5>2
      <4>3. t[i] \notin Range(list)
        <5>1. SUFFICES ASSUME t[i] \in Range(list) PROVE FALSE
          OBVIOUS
        <5>2. \A x \in Range(list) : \E k \in 1 .. Len(list) : list[k] = x
          BY <2>2, RangeProperties
        <5>3. QED
          BY ONLY <2>3, <4>2, <5>1, <5>2
      <4>4. t[i] \in Range(t)
        <5>1. i \in 1 .. Len(t)
          BY <2>3
        <5>2. QED
          BY <2>2, <5>1, RangeProperties
      <4>5. t[i] \in Range(chunk)
        BY <2>1, <2>2, <4>3, <4>4 DEF LaterShown
      <4>6. t[i] \in ToSet(chunk)
        BY <4>5 DEF ToSet, Range
      <4>7. Contains(rowModel.rows, t[i])
        BY <2>2, <2>3, <4>1 DEF Contains
      <4>8. ~Contains(rowResults, t[i])
        BY <2>2, <2>3, <4>2 DEF Contains
      <4>9. QED
        BY <1>4, <2>5, <4>6, <4>7, <4>8 DEF ChunkCollides
    <3>4. \A i \in 1 .. n : i \in 1 .. l \/ i \in l + 1 .. n
      BY <2>3
    <3>5. \A i, j \in 1 .. n : after[i] = after[j] => i = j
      <4>1. SUFFICES ASSUME NEW i \in 1 .. n, NEW j \in 1 .. n, after[i] = after[j] PROVE i = j
        OBVIOUS
      <4>2. CASE i \in 1 .. l /\ j \in 1 .. l
        BY <2>4, <3>1, <4>1, <4>2
      <4>3. CASE i \in l + 1 .. n /\ j \in l + 1 .. n
        BY <2>4, <3>2, <4>1, <4>3
      <4>4. CASE i \in l + 1 .. n /\ j \in 1 .. l
        BY <2>4, <3>3, <4>1, <4>4
      <4>5. CASE i \in 1 .. l /\ j \in l + 1 .. n
        BY <2>4, <3>3, <4>1, <4>5
      <4>6. QED
        BY <3>4, <4>2, <4>3, <4>4, <4>5
    <3>6. QED
      BY <2>2, <2>3, <3>5, RangeProperties
  <2>6. ~collided /\ ~ChunkCollides(chunk) => IsInjective(u.model.rows)
    BY <2>2, <2>5
  <2>7. QED
    BY <1>1, <2>1, <2>6 DEF LaterShown, AfterFlush
<1>5. QED
  BY <1>3, <1>4

LEMMA FlushRowsInv ==
  ASSUME RowsInv, NEW chunk \in RowChunks \ {<<>>}, FlushRows(chunk)
  PROVE  RowsInv'
<1>1. chunk \in Seq(RowResults) /\ chunk # <<>>
  BY RowChunkProperties
<1>2. PICK u : u = AddUpdateResults(rowModel, rowResults \o chunk)
  OBVIOUS
<1>3. rowSearching /\ rowModel' = u.model /\ rowResults' = u.results /\ rowSearching' = rowSearching
  BY <1>2 DEF FlushRows
<1>4. AfterFlush(chunk, u)
  BY <1>1, <1>2, <1>3, FlushProperties
<1>5. /\ rowModel' \in RowModels(RowResults) /\ rowResults' \in Seq(RowResults)
      /\ Shows(rowModel', rowResults') /\ Range(rowResults') # {}
  <2>1. Range(chunk) # {}
    BY <1>1, EmptySequence
  <2>2. QED
    BY <1>3, <1>4, <2>1 DEF AfterFlush
<1>6. rowResults' # <<>>
  BY <1>5, EmptySequence
<1>7. collided' \in BOOLEAN /\ (~collided' => ~collided /\ ~ChunkCollides(chunk))
  <2>1. collided' = (collided \/ ChunkCollides(chunk))
    BY DEF FlushRows
  <2>2. QED
    BY ONLY <2>1
<1>8. ~collided' => IsInjective(rowModel'.rows)
  BY <1>3, <1>4, <1>7 DEF AfterFlush
<1>9. NoSilentRemoval' /\ NeverMovesDown'
  <2>1. ~collided' => ~rowModel'.silent
    <3>1. SUFFICES ASSUME ~collided' PROVE ~rowModel'.silent
      OBVIOUS
    <3>2. ~collided
      BY <1>7, <3>1
    <3>3. u.model.silent = rowModel.silent
      BY <1>4, <3>2 DEF AfterFlush
    <3>4. ~rowModel.silent
      BY <3>2 DEF RowsInv, NoSilentRemoval
    <3>5. QED
      BY ONLY <1>3, <3>3, <3>4
  <2>2. ~rowModel'.movedDown
    <3>1. ~rowModel.movedDown
      BY DEF RowsInv, NeverMovesDown
    <3>2. u.model.movedDown = rowModel.movedDown
      BY <1>4 DEF AfterFlush
    <3>3. QED
      BY ONLY <1>3, <3>1, <3>2
  <2>3. QED
    BY <2>1, <2>2 DEF NoSilentRemoval, NeverMovesDown
<1>10. rowSearching' = TRUE
  BY <1>3 DEF RowsInv
<1>11. QED
  BY <1>5, <1>6, <1>7, <1>8, <1>9, <1>10 DEF RowsInv

(* A purge either leaves the model alone or takes its rows away.           *)
LEMMA PurgeProperties ==
  ASSUME NEW S, NEW m \in RowModels(S)
  PROVE  LET w == PurgeModel(m)
         IN  /\ w \in RowModels(S) /\ w.silent = m.silent /\ w.movedDown = m.movedDown
             /\ m.purge => w.rows = <<>>
             /\ ~m.purge => w = m
             /\ IsInjective(m.rows) => IsInjective(w.rows)
<1>1. CASE ~m.purge
  BY <1>1 DEF PurgeModel
<1>2. CASE m.purge /\ m.rows = <<>>
  BY <1>2 DEF PurgeModel, ClearResults
<1>3. CASE m.purge /\ m.rows # <<>>
  <2>1. PICK none \in Seq(S) : none = <<>> /\ IsInjective(none)
    BY EmptySequence
  <2>2. PICK map \in ResultMaps(S) : map = EmptyMap
    BY MapsProperties
  <2>3. PICK w : w = PurgeModel(m)
    OBVIOUS
  <2>4. w = [m EXCEPT !.rows = none, !.new = map, !.old = map, !.last = 0]
    BY <1>3, <2>1, <2>2, <2>3 DEF PurgeModel, ClearResults
  <2>5. w \in RowModels(S)
    BY <2>4 DEF RowModels
  <2>6. w.rows = none /\ w.silent = m.silent /\ w.movedDown = m.movedDown
    BY <2>4 DEF RowModels
  <2>7. QED
    BY <1>3, <2>1, <2>3, <2>5, <2>6
<1>4. QED
  BY <1>1, <1>2, <1>3

(* What the last flush hands to the purge.                                 *)
LastUpdated(chunk) ==
  IF chunk = <<>> THEN [model |-> rowModel]
  ELSE AddUpdateResults(rowModel, rowResults \o chunk)

LEMMA LastUpdatedProperties ==
  ASSUME RowsInv, rowSearching, NEW chunk \in Seq(RowResults)
  PROVE  LET u == LastUpdated(chunk)
         IN  /\ u.model \in RowModels(RowResults)
             /\ ~collided /\ ~ChunkCollides(chunk) => IsInjective(u.model.rows)
             /\ ~collided => u.model.silent = rowModel.silent
             /\ u.model.movedDown = rowModel.movedDown
<1>1. CASE chunk = <<>>
  BY <1>1 DEF LastUpdated, RowsInv
<1>2. CASE chunk # <<>>
  <2>1. PICK u : u = LastUpdated(chunk)
    OBVIOUS
  <2>2. AfterFlush(chunk, u)
    BY <1>2, <2>1, FlushProperties DEF LastUpdated
  <2>3. QED
    BY <2>1, <2>2 DEF AfterFlush
<1>3. QED
  BY <1>1, <1>2

LEMMA LastFlushRowsInv ==
  ASSUME RowsInv, NEW chunk \in RowChunks, LastFlushRows(chunk)
  PROVE  RowsInv'
<1>1. chunk \in Seq(RowResults)
  BY RowChunkProperties
<1>2. PICK u : u = LastUpdated(chunk)
  OBVIOUS
<1>3. rowSearching /\ rowModel' = PurgeModel(u.model) /\ rowResults' = <<>> /\ rowSearching' = FALSE
  BY <1>2 DEF LastFlushRows, LastUpdated
<1>4. /\ u.model \in RowModels(RowResults)
      /\ ~collided /\ ~ChunkCollides(chunk) => IsInjective(u.model.rows)
      /\ ~collided => u.model.silent = rowModel.silent
      /\ u.model.movedDown = rowModel.movedDown
  BY <1>1, <1>2, <1>3, LastUpdatedProperties
<1>5. /\ rowModel' \in RowModels(RowResults)
      /\ rowModel'.silent = u.model.silent /\ rowModel'.movedDown = u.model.movedDown
      /\ IsInjective(u.model.rows) => IsInjective(rowModel'.rows)
  BY <1>3, <1>4, PurgeProperties
<1>6. collided' \in BOOLEAN /\ (~collided' => ~collided /\ ~ChunkCollides(chunk))
  <2>1. collided' = (collided \/ ChunkCollides(chunk))
    BY DEF LastFlushRows
  <2>2. QED
    BY ONLY <2>1
<1>7. ~collided' => IsInjective(rowModel'.rows)
  BY <1>4, <1>5, <1>6
<1>8. NoSilentRemoval' /\ NeverMovesDown'
  <2>1. ~collided' => ~rowModel'.silent
    <3>1. SUFFICES ASSUME ~collided' PROVE ~rowModel'.silent
      OBVIOUS
    <3>2. ~collided
      BY <1>6, <3>1
    <3>3. u.model.silent = rowModel.silent
      BY <1>4, <3>2
    <3>4. ~rowModel.silent
      BY <3>2 DEF RowsInv, NoSilentRemoval
    <3>5. QED
      BY ONLY <1>5, <3>3, <3>4
  <2>2. ~rowModel'.movedDown
    <3>1. ~rowModel.movedDown
      BY DEF RowsInv, NeverMovesDown
    <3>2. QED
      BY ONLY <1>4, <1>5, <3>1
  <2>3. QED
    BY <2>1, <2>2 DEF NoSilentRemoval, NeverMovesDown
<1>9. rowResults' \in Seq(RowResults)
  BY <1>3, EmptySequence
<1>10. QED
  BY <1>3, <1>5, <1>6, <1>7, <1>8, <1>9 DEF RowsInv

LEMMA UpdateResultRowInv ==
  ASSUME RowsInv, NEW r \in RowResults, NEW u \in RowResults, UpdateResultRow(r, u)
  PROVE  RowsInv'
<1>0. PICK w : w = rowModel'
  OBVIOUS
<1>1. PICK m \in RowModels(RowResults) : m = rowModel /\ w = rowModel'
  BY <1>0 DEF RowsInv
<1>2. RowUpdated(RowResults, m, r, u, w)
  BY <1>1, UpdateResultProperties DEF UpdateResultRow
<1>3. PICK t \in Seq(RowResults), s \in Seq(RowResults) : t = w.rows /\ s = m.rows
  BY <1>2, RowModelFields DEF RowUpdated
<1>4. PICK n \in Nat : n = Len(s) /\ DOMAIN s = 1 .. n
  BY LenProperties
<1>5. \/ t = s
      \/ \E p \in 1 .. n : s[p] = r /\ t = [s EXCEPT ![p] = u]
  BY <1>2, <1>3, <1>4 DEF RowUpdated
<1>6. Len(t) = Len(s)
  <2>1. DOMAIN t = 1 .. n
    <3>1. CASE t = s
      BY <1>4, <3>1
    <3>2. CASE \E p \in 1 .. n : s[p] = r /\ t = [s EXCEPT ![p] = u]
      <4>1. PICK p \in 1 .. n : t = [s EXCEPT ![p] = u]
        BY <3>2
      <4>2. QED
        BY ONLY <1>4, <4>1
    <3>3. QED
      BY <1>5, <3>1, <3>2
  <2>2. PICK k \in Nat : k = Len(t) /\ DOMAIN t = 1 .. k
    BY LenProperties
  <2>3. 1 .. n = 1 .. k
    BY <2>1, <2>2
  <2>4. QED
    BY ONLY <1>4, <2>2, <2>3
<1>7. collided' \in BOOLEAN /\ (~collided' => ~collided /\ ~UpdateCollides(r, u))
  <2>1. collided' = (collided \/ UpdateCollides(r, u))
    BY DEF UpdateResultRow
  <2>2. QED
    BY ONLY <2>1
<1>8. ASSUME ~collided' PROVE IsInjective(t)
  <2>1. \A i, j \in 1 .. n : s[i] = s[j] => i = j
    <3>1. IsInjective(s)
      BY <1>1, <1>3, <1>7, <1>8 DEF RowsInv
    <3>2. QED
      BY <1>4, <3>1, RangeProperties
  <2>2. CASE t = s
    BY <1>1, <1>3, <1>7, <1>8, <2>2 DEF RowsInv
  <2>3. CASE \E p \in 1 .. n : s[p] = r /\ t = [s EXCEPT ![p] = u]
    <3>1. PICK p \in 1 .. n : s[p] = r /\ t = [s EXCEPT ![p] = u]
      BY <2>3
    <3>2. Contains(s, r)
      BY <1>4, <3>1 DEF Contains
    <3>3. r = u \/ ~Contains(s, u)
      BY <1>1, <1>3, <1>7, <1>8, <3>2 DEF UpdateCollides
    <3>4. \A i \in 1 .. n : i # p => s[i] # u
      <4>1. CASE r = u
        BY <2>1, <3>1, <4>1
      <4>2. CASE ~Contains(s, u)
        BY <1>4, <4>2 DEF Contains
      <4>3. QED
        BY <3>3, <4>1, <4>2
    <3>5. \A i, j \in 1 .. n : t[i] = t[j] => i = j
      BY <1>4, <2>1, <3>1, <3>4
    <3>6. QED
      BY <1>4, <1>6, <3>5, RangeProperties
  <2>4. QED
    BY <1>5, <2>2, <2>3
<1>9. rowResults' = rowResults /\ rowSearching' = rowSearching
  BY DEF UpdateResultRow
<1>10. w \in RowModels(RowResults) /\ w.old = m.old /\ SameBut(w, m)
  BY <1>2 DEF RowUpdated
<1>11. NothingYet(m) => NothingYet(w)
  BY <1>10 DEF NothingYet, SameBut
<1>12. Shows(m, rowResults) => Shows(w, rowResults)
  BY <1>3, <1>6, <1>10 DEF Shows, SameBut
<1>13. NoSilentRemoval' /\ NeverMovesDown'
  BY <1>1, <1>7, <1>10 DEF RowsInv, SameBut, NoSilentRemoval, NeverMovesDown
<1>14. ~collided' => IsInjective(w.rows)
  BY <1>3, <1>8
<1>15. QED
  BY <1>1, <1>7, <1>9, <1>10, <1>11, <1>12, <1>13, <1>14 DEF RowsInv

LEMMA RowsStep == RowsInv /\ [RowsNext]_rowVars => RowsInv'
<1>1. SUFFICES ASSUME RowsInv, [RowsNext]_rowVars PROVE RowsInv'
  OBVIOUS
<1>2. CASE NewRowSearch
  BY <1>1, <1>2, NewRowSearchInv
<1>3. ASSUME NEW chunk \in RowChunks \ {<<>>}, FlushRows(chunk) PROVE RowsInv'
  BY <1>1, <1>3, FlushRowsInv
<1>4. ASSUME NEW chunk \in RowChunks, LastFlushRows(chunk) PROVE RowsInv'
  BY <1>1, <1>4, LastFlushRowsInv
<1>5. ASSUME NEW r \in RowResults, NEW u \in RowResults, UpdateResultRow(r, u) PROVE RowsInv'
  BY <1>1, <1>5, UpdateResultRowInv
<1>6. CASE UNCHANGED rowVars
  BY <1>1, <1>6 DEF rowVars, RowsInv, NoSilentRemoval, NeverMovesDown
<1>7. QED
  BY <1>1, <1>2, <1>3, <1>4, <1>5, <1>6 DEF RowsNext

LEMMA RowsHold == RowsInv => RowsAreAccountedFor
<1>1. SUFFICES ASSUME RowsInv PROVE RowsAreAccountedFor
  OBVIOUS
<1>2. PICK m \in RowModels(RowResults) : m = rowModel
  BY <1>1 DEF RowsInv
<1>3. rowResults \in Seq(RowResults)
  BY <1>1 DEF RowsInv
<1>4. /\ m.rows \in Seq(RowResults) /\ m.new \in ResultMaps(RowResults) /\ m.old \in ResultMaps(RowResults)
      /\ m.last \in Nat /\ m.purge \in BOOLEAN /\ m.silent \in BOOLEAN /\ m.movedDown \in BOOLEAN
  BY RowModelFields
<1>5. \A map \in {m.new, m.old} : DOMAIN map \subseteq RowResults /\ \A r \in DOMAIN map : map[r] \in Nat
  <2>1. SUFFICES ASSUME NEW map \in ResultMaps(RowResults)
                 PROVE  DOMAIN map \subseteq RowResults /\ \A r \in DOMAIN map : map[r] \in Nat
    BY <1>4
  <2>2. QED
    BY MapsProperties
<1>6. ASSUME rowResults # <<>> PROVE NewMapIsExact /\ IsInjective(rowResults)
  <2>1. Shows(m, rowResults)
    BY <1>1, <1>2, <1>6 DEF RowsInv
  <2>2. /\ IsInjective(rowResults)
        /\ \A r : FindResult(m.new, r) # 0 <=> r \in Range(rowResults)
        /\ \A r \in Range(rowResults) : rowResults[FindResult(m.new, r)] = r
    BY <1>3, <1>4, <2>1, IndexesProperties DEF Shows
  <2>3. DOMAIN m.new = Range(rowResults) /\ m.last = Len(rowResults)
    BY <2>1 DEF Shows, Indexes
  <2>4. \A r \in DOMAIN m.new : rowResults[m.new[r]] = r
    BY <2>2, <2>3 DEF FindResult
  <2>5. NewMapIsExact
    BY <1>2, <2>3, <2>4 DEF NewMapIsExact, ToSet, Range
  <2>6. QED
    BY <2>2, <2>5
<1>7. NewMapIsExact /\ IsInjective(rowResults)
  <2>1. CASE rowResults # <<>>
    BY <1>6, <2>1
  <2>2. CASE rowResults = <<>>
    BY <2>2, EmptySequence DEF NewMapIsExact
  <2>3. QED
    BY <2>1, <2>2
<1>8. RowsTypeOK
  BY <1>1, <1>2, <1>3, <1>4, <1>5, <1>7 DEF RowsTypeOK, RowsInv
<1>9. QED
  BY <1>1, <1>7, <1>8 DEF RowsAreAccountedFor, RowsInv

(* The views hear of every row that goes away, rows only move up, and the  *)
(* map of the present search says where its results are, for any results,  *)
(* searches, flushes and updates in between (resultsmodel.cpp:111-235).    *)
THEOREM RowsAreAccountedForAlways == RowsSpec => []RowsAreAccountedFor
<1>1. RowsInv => RowsAreAccountedFor
  BY RowsHold
<1>2. QED
  BY <1>1, RowsStart, RowsStep, PTL DEF RowsSpec

-----------------------------------------------------------------------------
(* CategoryResults implements ResultList.                                  *)

LEMMA FreshIs ==
  ASSUME NEW chunk \in Seq(RowResults)
  PROVE  \E f : IsFresh(ToSet(rowResults), chunk, f) /\ List!Fresh(chunk) = f[Len(chunk)]
<1>1. \E f : IsFresh(ToSet(rowResults), chunk, f)
  BY FreshExists
<1>2. PICK f : f = [i \in 0 .. Len(chunk) |-> FreshTurn(ToSet(rowResults), chunk, f, i)]
               /\ List!Fresh(chunk) = f[Len(chunk)]
  BY <1>1 DEF IsFresh, FreshTurn, FirstTime, List!Fresh
<1>3. QED
  BY <1>2 DEF IsFresh

(* Rows that are known element by element.                                 *)
LEMMA RowsConcatenated ==
  ASSUME NEW S, NEW list \in Seq(S), NEW was \in Seq(S), NEW fresh \in Seq(S), NEW after \in Seq(S),
         Len(was) = Len(list), Len(after) = Len(list \o fresh),
         \A i \in 1 .. Len(list) : after[i] = was[i],
         \A i \in Len(list) + 1 .. Len(list \o fresh) : after[i] = (list \o fresh)[i]
  PROVE  after = was \o fresh
<1>1. PICK l \in Nat, k \in Nat : l = Len(list) /\ k = Len(fresh)
  BY LenProperties
<1>2. PICK t \in Seq(S), s \in Seq(S) : t = list \o fresh /\ s = was \o fresh
  BY ExtendedDomain
<1>3. Len(t) = l + k /\ \A i \in 1 .. l + k : t[i] = IF i <= l THEN list[i] ELSE fresh[i - l]
  BY <1>1, <1>2, ConcatProperties
<1>4. Len(s) = l + k /\ \A i \in 1 .. l + k : s[i] = IF i <= l THEN was[i] ELSE fresh[i - l]
  <2>1. PICK w \in Nat : w = Len(was) /\ w = l
    BY <1>1
  <2>2. Len(s) = w + k /\ \A i \in 1 .. w + k : s[i] = IF i <= w THEN was[i] ELSE fresh[i - w]
    BY <1>1, <1>2, <2>1, ConcatProperties
  <2>3. QED
    BY ONLY <2>1, <2>2
<1>5. ASSUME NEW i \in 1 .. l + k PROVE after[i] = s[i]
  <2>1. CASE i \in 1 .. l
    <3>1. i \in 1 .. Len(list) /\ i <= l
      BY <1>1, <2>1
    <3>2. QED
      BY <1>4, <3>1
  <2>2. CASE i \in l + 1 .. l + k
    <3>1. ~(i <= l) /\ i \in Len(list) + 1 .. Len(list \o fresh)
      BY <1>1, <1>2, <1>3, <2>2
    <3>2. after[i] = t[i]
      BY <1>2, <3>1
    <3>3. QED
      BY <1>3, <1>4, <3>1, <3>2
  <2>3. QED
    BY <2>1, <2>2
<1>6. Len(after) = l + k
  BY <1>2, <1>3
<1>7. after = s
  BY <1>4, <1>5, <1>6
<1>8. QED
  BY <1>2, <1>7

LEMMA FlushExtends ==
  ASSUME RowsInv, rowSearching, NEW chunk \in Seq(RowResults)
  PROVE  AddUpdateResults(rowModel, rowResults \o chunk).model.rows = List!Extended(chunk)
<1>1. PICK u : u = AddUpdateResults(rowModel, rowResults \o chunk)
  OBVIOUS
<1>2. Flushed(chunk, u)
  BY <1>1, FlushShows
<1>3. PICK f : IsFresh(ToSet(rowResults), chunk, f) /\ List!Fresh(chunk) = f[Len(chunk)]
  BY FreshIs
<1>4. ToSet(rowResults) = Range(rowResults)
  BY DEF ToSet, Range
<1>5. IsFresh(Range(rowResults), chunk, f)
  BY <1>3, <1>4
<1>6. rowResults \in Seq(RowResults)
  BY DEF RowsInv
<1>7. CASE rowResults = <<>>
  <2>1. PICK none \in Seq(RowResults), map \in ResultMaps(RowResults) :
          none = <<>> /\ map = EmptyMap /\ Len(none) = 0 /\ Range(none) = {} /\ DOMAIN map = {}
    BY EmptySequence, MapsProperties
  <2>2. Indexes(map, none)
    BY <2>1 DEF Indexes
  <2>3. /\ UpdateMap(map, none \o chunk, Len(none)).list = none \o f[Len(chunk)]
        /\ f[Len(chunk)] \in Seq(RowResults)
    <3>1. IsFresh(Range(none), chunk, f)
      BY ONLY <1>5, <1>7, <2>1
    <3>2. QED
      BY <2>2, <3>1, UpdateMapIsFresh
  <2>4. none \o chunk = chunk /\ none \o f[Len(chunk)] = f[Len(chunk)]
    BY <2>1, <2>3, EmptySequence
  <2>5. MapOf(chunk).list = f[Len(chunk)]
    BY <2>1, <2>3, <2>4 DEF MapOf
  <2>6. FirstShown(RowResults, rowModel, chunk, u)
    BY <1>2, <1>7 DEF Flushed
  <2>7. u.model.rows = List!Fresh(chunk)
    BY <1>3, <2>5, <2>6 DEF FirstShown
  <2>8. ToSet(rowResults) = {}
    BY <1>4, <1>7, <2>1
  <2>9. List!Extended(chunk) = List!Fresh(chunk)
    BY <2>8 DEF List!Extended
  <2>10. QED
    BY <1>1, <2>7, <2>9
<1>8. CASE rowResults # <<>>
  <2>1. LaterShown(RowResults, rowModel, rowResults, chunk, u)
    BY <1>2, <1>8 DEF Flushed
  <2>2. Shows(rowModel, rowResults) /\ rowModel \in RowModels(RowResults)
    BY <1>8 DEF RowsInv
  <2>3. rowModel.new \in ResultMaps(RowResults) /\ rowModel.rows \in Seq(RowResults)
    BY <2>2, RowModelFields
  <2>4. /\ UpdateMap(rowModel.new, rowResults \o chunk, Len(rowResults)).list = rowResults \o f[Len(chunk)]
        /\ f[Len(chunk)] \in Seq(RowResults)
    BY <1>5, <1>6, <2>2, <2>3, UpdateMapIsFresh DEF Shows
  <2>5. PICK fresh \in Seq(RowResults) : fresh = f[Len(chunk)]
    BY <2>4
  <2>6. u.results = rowResults \o fresh
    BY <2>1, <2>4, <2>5 DEF LaterShown
  <2>7. PICK after \in Seq(RowResults) : after = u.model.rows
    BY <2>1, RowModelFields DEF LaterShown
  <2>8. /\ Len(rowModel.rows) = Len(rowResults) /\ Len(after) = Len(rowResults \o fresh)
        /\ \A i \in 1 .. Len(rowResults) : after[i] = rowModel.rows[i]
        /\ \A i \in Len(rowResults) + 1 .. Len(rowResults \o fresh) : after[i] = (rowResults \o fresh)[i]
    BY <2>1, <2>2, <2>6, <2>7 DEF LaterShown, Shows
  <2>9. after = rowModel.rows \o fresh
    BY <1>6, <2>3, <2>8, RowsConcatenated
  <2>10. ToSet(rowResults) # {}
    BY <1>4, <1>6, <1>8, EmptySequence
  <2>11. List!Extended(chunk) = rowModel.rows \o List!Fresh(chunk)
    BY <2>10 DEF List!Extended
  <2>12. QED
    BY <1>1, <1>3, <2>5, <2>7, <2>9, <2>11
<1>9. QED
  BY <1>7, <1>8

LEMMA FlushRowsImplements ==
  ASSUME RowsInv, NEW chunk \in RowChunks \ {<<>>}, FlushRows(chunk)
  PROVE  List!Extend(chunk)
<1>1. chunk \in Seq(RowResults)
  BY RowChunkProperties
<1>2. PICK u : u = AddUpdateResults(rowModel, rowResults \o chunk)
  OBVIOUS
<1>3. rowSearching /\ rowModel' = u.model /\ rowResults' = u.results /\ rowSearching' = rowSearching
  BY <1>2 DEF FlushRows
<1>4. rowModel'.rows = List!Extended(chunk)
  BY <1>1, <1>2, <1>3, FlushExtends
<1>5. Range(u.results) = Range(rowResults) \cup Range(chunk)
  BY <1>1, <1>2, <1>3, FlushProperties DEF AfterFlush
<1>6. ToSet(rowResults') = ToSet(rowResults) \cup ToSet(chunk)
  BY <1>3, <1>5 DEF ToSet, Range
<1>7. QED
  BY <1>3, <1>4, <1>6 DEF List!Extend, List!ToSet, ToSet

LEMMA LastFlushRowsImplements ==
  ASSUME RowsInv, NEW chunk \in RowChunks, LastFlushRows(chunk)
  PROVE  List!Finish(chunk)
<1>1. chunk \in Seq(RowResults)
  BY RowChunkProperties
<1>2. PICK u : u = LastUpdated(chunk)
  OBVIOUS
<1>3. rowSearching /\ rowModel' = PurgeModel(u.model) /\ rowResults' = <<>> /\ rowSearching' = FALSE
  BY <1>2 DEF LastFlushRows, LastUpdated
<1>4. u.model \in RowModels(RowResults)
  BY <1>1, <1>2, <1>3, LastUpdatedProperties
<1>5. ToSet(rowResults') = {}
  BY <1>3, EmptySequence DEF ToSet, Range
<1>6. ToSet(rowResults) = {} <=> rowResults = <<>>
  <2>1. ToSet(rowResults) = Range(rowResults) /\ rowResults \in Seq(RowResults)
    BY DEF ToSet, Range, RowsInv
  <2>2. QED
    BY <2>1, EmptySequence
<1>7. CASE chunk = <<>> /\ rowResults # <<>>
  <2>1. u.model = rowModel
    BY <1>2, <1>7 DEF LastUpdated
  <2>2. ~rowModel.purge
    BY <1>7 DEF RowsInv, Shows
  <2>3. rowModel' = rowModel
    BY <1>3, <1>4, <2>1, <2>2, PurgeProperties
  <2>4. QED
    BY <1>3, <1>5, <1>6, <1>7, <2>3 DEF List!Finish
<1>8. CASE chunk = <<>> /\ rowResults = <<>>
  <2>1. u.model = rowModel
    BY <1>2, <1>8 DEF LastUpdated
  <2>2. rowModel.purge
    BY <1>3, <1>8 DEF RowsInv, NothingYet
  <2>3. rowModel'.rows = <<>>
    BY <1>3, <1>4, <2>1, <2>2, PurgeProperties
  <2>4. PICK f : IsFresh(ToSet(rowResults), chunk, f) /\ List!Fresh(chunk) = f[Len(chunk)]
    BY <1>1, FreshIs
  <2>5. f[0] = <<>>
    <3>1. Len(chunk) = 0 /\ 0 \in 0 .. 0
      BY <1>8
    <3>2. QED
      BY <2>4, <3>1 DEF IsFresh, FreshTurn
  <2>6. Len(chunk) = 0
    BY <1>8
  <2>7. List!Extended(chunk) = <<>>
    BY <1>6, <1>8, <2>4, <2>5, <2>6 DEF List!Extended
  <2>8. QED
    BY <1>3, <1>5, <1>6, <1>8, <2>3, <2>7 DEF List!Finish
<1>9. CASE chunk # <<>>
  <2>1. u = AddUpdateResults(rowModel, rowResults \o chunk)
    BY <1>2, <1>9 DEF LastUpdated
  <2>2. u.model.rows = List!Extended(chunk)
    BY <1>1, <1>3, <2>1, FlushExtends
  <2>3. ~u.model.purge
    BY <1>1, <1>3, <2>1, FlushProperties DEF AfterFlush, Shows
  <2>4. rowModel' = u.model
    BY <1>3, <1>4, <2>3, PurgeProperties
  <2>5. QED
    BY <1>3, <1>5, <1>9, <2>2, <2>4 DEF List!Finish
<1>10. QED
  BY <1>7, <1>8, <1>9

LEMMA UpdateResultRowImplements ==
  ASSUME RowsInv, NEW r \in RowResults, NEW u \in RowResults, UpdateResultRow(r, u)
  PROVE  (\E i \in DOMAIN rowModel.rows : List!Update(i, u)) \/ UNCHANGED List!vars
<1>0. PICK w : w = rowModel'
  OBVIOUS
<1>1. PICK m \in RowModels(RowResults) : m = rowModel /\ w = rowModel'
  BY <1>0 DEF RowsInv
<1>2. RowUpdated(RowResults, m, r, u, w)
  BY <1>1, UpdateResultProperties DEF UpdateResultRow
<1>3. rowResults' = rowResults /\ rowSearching' = rowSearching
  BY DEF UpdateResultRow
<1>4. CASE w.rows = m.rows
  BY <1>1, <1>3, <1>4 DEF List!vars
<1>5. CASE \E p \in 1 .. Len(m.rows) : w.rows = [m.rows EXCEPT ![p] = u]
  <2>1. PICK p \in 1 .. Len(m.rows) : w.rows = [m.rows EXCEPT ![p] = u]
    BY <1>5
  <2>2. p \in DOMAIN rowModel.rows
    <3>1. m.rows \in Seq(RowResults)
      BY RowModelFields
    <3>2. QED
      BY <1>1, <2>1, <3>1, LenProperties
  <2>3. rowModel'.rows = ReplaceAt(rowModel.rows, p, u)
    BY <1>1, <2>1 DEF ReplaceAt
  <2>4. List!Update(p, u)
    BY <1>3, <2>3 DEF List!Update, List!ReplaceAt, ReplaceAt, ToSet
  <2>5. QED
    BY <2>2, <2>4
<1>6. QED
  BY <1>2, <1>4, <1>5 DEF RowUpdated

LEMMA RowsImplementList == RowsInv /\ [RowsNext]_rowVars => [List!Next]_(List!vars)
<1>1. SUFFICES ASSUME RowsInv, [RowsNext]_rowVars PROVE List!Next \/ UNCHANGED List!vars
  OBVIOUS
<1>2. List!Chunks = RowChunks
  BY DEF List!Chunks, List!BoundedSeq, List!SeqOf, RowChunks, BoundedSeq, SeqOf
<1>3. CASE NewRowSearch
  <2>1. rowModel'.rows = rowModel.rows /\ rowResults' = <<>> /\ rowSearching' = TRUE
    BY <1>1, <1>3 DEF NewRowSearch, MarkNewSearch, RowsInv, RowModels
  <2>2. ToSet(rowResults') = {}
    BY <2>1, EmptySequence DEF ToSet, Range
  <2>3. List!NewSearch
    BY <2>1, <2>2 DEF List!NewSearch
  <2>4. QED
    BY <2>3 DEF List!Next
<1>4. ASSUME NEW chunk \in RowChunks \ {<<>>}, FlushRows(chunk) PROVE List!Next
  <2>1. List!Extend(chunk)
    BY <1>1, <1>4, FlushRowsImplements
  <2>2. QED
    BY <1>2, <2>1 DEF List!Next
<1>5. ASSUME NEW chunk \in RowChunks, LastFlushRows(chunk) PROVE List!Next
  <2>1. List!Finish(chunk)
    BY <1>1, <1>5, LastFlushRowsImplements
  <2>2. QED
    BY <1>2, <2>1 DEF List!Next
<1>6. ASSUME NEW r \in RowResults, NEW u \in RowResults, UpdateResultRow(r, u)
      PROVE  List!Next \/ UNCHANGED List!vars
  <2>1. (\E i \in DOMAIN rowModel.rows : List!Update(i, u)) \/ UNCHANGED List!vars
    BY <1>1, <1>6, UpdateResultRowImplements
  <2>2. QED
    BY <2>1 DEF List!Next
<1>7. CASE UNCHANGED rowVars
  BY <1>7 DEF rowVars, List!vars
<1>8. QED
  BY <1>1, <1>3, <1>4, <1>5, <1>6, <1>7 DEF RowsNext

LEMMA RowsStartList == RowsInit => List!Init
<1>1. SUFFICES ASSUME RowsInit PROVE List!Init
  OBVIOUS
<1>2. PICK garbage \in 0 .. MaxRowChunk : rowModel = EmptyModel(garbage)
  BY <1>1 DEF RowsInit
<1>3. rowModel.rows = <<>>
  BY <1>2 DEF EmptyModel
<1>4. ToSet(rowResults) = {}
  BY <1>1, EmptySequence DEF RowsInit, ToSet, Range
<1>5. QED
  BY <1>1, <1>3, <1>4 DEF RowsInit, List!Init

(* The maps and the row moves leave the rows that the list of results      *)
(* says: each result of a search once, in the order in which it first      *)
(* came, nothing of an earlier search (resultsmodel.cpp:111-235, 305-322). *)
THEOREM RowsImplementResultList == RowsSpec => ImplementsResultList
<1>1. RowsInit => RowsInv /\ List!Init
  BY RowsStart, RowsStartList
<1>2. QED
  BY <1>1, RowsStep, RowsImplementList, PTL DEF RowsSpec, ImplementsResultList, List!Spec

-----------------------------------------------------------------------------
(* Categories: what placing one does to the list of them.                  *)

(* The elements of s stand at the top of t.                                *)
AtTop(s, t) == Len(s) <= Len(t) /\ \A i \in 1 .. Len(s) : s[i] = t[i]

LEMMA AtTopRange ==
  ASSUME NEW S, NEW s \in Seq(S), NEW t \in Seq(S), AtTop(s, t)
  PROVE  Range(s) \subseteq Range(t)
<1>1. PICK m \in Nat, n \in Nat : m = Len(s) /\ n = Len(t) /\ m <= n
  BY LenProperties DEF AtTop
<1>2. ASSUME NEW x \in Range(s) PROVE x \in Range(t)
  <2>1. PICK i \in 1 .. m : s[i] = x
    BY <1>1, <1>2, RangeProperties
  <2>2. t[i] = x /\ i \in 1 .. n
    BY <1>1, <2>1 DEF AtTop
  <2>3. QED
    BY <1>1, <2>2, RangeProperties
<1>3. QED
  BY <1>2

IsAppended(S, s, e, t) ==
  /\ t \in Seq(S) /\ Len(t) = Len(s) + 1
  /\ \A i \in 1 .. Len(s) : t[i] = s[i]
  /\ t[Len(s) + 1] = e
  /\ Range(t) = Range(s) \cup {e}
  /\ IsInjective(s) /\ e \notin Range(s) => IsInjective(t)

LEMMA AppendedProperties ==
  ASSUME NEW S, NEW s \in Seq(S), NEW e \in S
  PROVE  IsAppended(S, s, e, Append(s, e))
<1>0. PICK t : t = Append(s, e)
  OBVIOUS
<1>1. PICK n \in Nat : n = Len(s)
  BY LenProperties
<1>2. t \in Seq(S)
  BY <1>0
<1>3. Len(t) = n + 1 /\ t[n + 1] = e /\ \A i \in 1 .. n : t[i] = s[i]
  BY <1>0, <1>1, <1>2
<1>4. \A i \in 1 .. n + 1 : i \in 1 .. n \/ i = n + 1
  BY <1>1
<1>5. /\ \A i \in 1 .. n + 1 : t[i] \in Range(t)
      /\ \A x \in Range(t) : \E i \in 1 .. n + 1 : t[i] = x
      /\ (\A i, j \in 1 .. n + 1 : t[i] = t[j] => i = j) => IsInjective(t)
  <2>1. PICK m : m = n + 1 /\ Len(t) = m
    BY <1>3
  <2>2. /\ \A i \in 1 .. m : t[i] \in Range(t)
        /\ \A x \in Range(t) : \E i \in 1 .. m : t[i] = x
        /\ (\A i, j \in 1 .. m : t[i] = t[j] => i = j) => IsInjective(t)
    BY <1>2, <2>1, RangeProperties
  <2>3. QED
    BY <2>1, <2>2
<1>6. ASSUME NEW x \in Range(t) PROVE x \in Range(s) \cup {e}
  <2>1. PICK i \in 1 .. n + 1 : t[i] = x
    BY <1>6, <1>5
  <2>2. QED
    BY <1>1, <1>3, <1>4, <2>1, RangeProperties
<1>7. ASSUME NEW x \in Range(s) PROVE x \in Range(t)
  <2>1. PICK i \in 1 .. n : s[i] = x
    BY <1>1, <1>7, RangeProperties
  <2>2. i \in 1 .. n + 1 /\ t[i] = x
    BY <1>1, <1>3, <2>1
  <2>3. QED
    BY <1>5, <2>2
<1>8. e \in Range(t)
  <2>1. n + 1 \in 1 .. n + 1
    BY <1>1
  <2>2. QED
    BY <1>3, <1>5, <2>1
<1>9. ASSUME IsInjective(s), e \notin Range(s) PROVE IsInjective(t)
  <2>1. \A i \in 1 .. n : s[i] # e
    BY <1>1, <1>9, RangeProperties
  <2>2. \A i, j \in 1 .. n : s[i] = s[j] => i = j
    BY <1>1, <1>9, RangeProperties
  <2>3. \A i, j \in 1 .. n + 1 : t[i] = t[j] => i = j
    BY <1>3, <1>4, <2>1, <2>2
  <2>4. QED
    BY <1>5, <2>3
<1>10. Range(t) = Range(s) \cup {e}
  BY <1>6, <1>7, <1>8
<1>11. Len(t) = Len(s) + 1 /\ t[Len(s) + 1] = e /\ \A i \in 1 .. Len(s) : t[i] = s[i]
  BY <1>1, <1>3
<1>12. IsInjective(s) /\ e \notin Range(s) => IsInjective(t)
  BY ONLY <1>9
<1>13. QED
  BY ONLY <1>0, <1>2, <1>10, <1>11, <1>12 DEF IsAppended

(* The list t when c has come to the place after those of s at its top.    *)
IsPlaced(S, t, s, c, placed) ==
  /\ placed \in Seq(S) /\ IsInjective(placed) /\ Range(placed) = Range(t) \cup {c}
  /\ Len(s) < Len(placed) /\ placed[Len(s) + 1] = c
  /\ \A i \in 1 .. Len(s) : placed[i] = s[i]
  /\ c \in Range(t) /\ Len(placed) = Len(s) + 1 => placed = t

LEMMA PlaceProperties ==
  ASSUME NEW S, NEW p, NEW t \in Seq(S), p.categories = t, NEW c
  PROVE  /\ Place(p, c) = 0 <=> c \notin Range(t)
         /\ c \in Range(t) => Place(p, c) \in 1 .. Len(t) /\ t[Place(p, c)] = c
<1>1. PICK n \in Nat : n = Len(t) /\ DOMAIN t = 1 .. n
  BY LenProperties
<1>2. PICK at \in SUBSET Nat : at = {i \in 1 .. n : t[i] = c}
  <2>1. 1 .. n \subseteq Nat
    OBVIOUS
  <2>2. {i \in 1 .. n : t[i] = c} \in SUBSET Nat
    BY <2>1
  <2>3. QED
    BY <2>2
<1>3. Place(p, c) = IF at = {} THEN 0 ELSE Min(at)
  BY <1>1, <1>2 DEF Place
<1>4. at = {} <=> c \notin Range(t)
  <2>1. ASSUME at # {} PROVE c \in Range(t)
    BY <1>1, <1>2, <2>1, RangeProperties
  <2>2. ASSUME c \in Range(t) PROVE at # {}
    BY <1>1, <1>2, <2>2, RangeProperties
  <2>3. QED
    BY <2>1, <2>2
<1>5. ASSUME at # {} PROVE Min(at) \in 1 .. n /\ t[Min(at)] = c
  <2>1. Min(at) \in at
    BY <1>5, LeastProperties
  <2>2. QED
    BY <1>2, <2>1
<1>6. QED
  BY <1>1, <1>3, <1>4, <1>5

LEMMA PlacedProperties ==
  ASSUME NEW S, NEW p, NEW t \in Seq(S), p.categories = t, IsInjective(t),
         NEW s \in Seq(S), AtTop(s, t), p.categoryIndex = Len(s),
         NEW c \in S, c \notin Range(s)
  PROVE  IsPlaced(S, t, s, c, Placed(p, c))
<1>1. PICK m \in Nat, n \in Nat : m = Len(s) /\ n = Len(t) /\ m <= n
  BY LenProperties DEF AtTop
<1>2. PICK first \in Nat : first = m + 1 /\ p.categoryIndex + 1 = first
  BY <1>1
<1>3. \A i \in 1 .. m : t[i] = s[i] /\ t[i] # c
  BY <1>1, RangeProperties DEF AtTop
<1>4. PICK at : at = Place(p, c)
  OBVIOUS
<1>5. PICK placed : placed = Placed(p, c)
  OBVIOUS
<1>6. CASE at = 0
  <2>1. c \notin Range(t)
    BY <1>4, <1>6, PlaceProperties
  <2>2. placed = InsertAt(t, first, c)
    BY <1>2, <1>4, <1>5, <1>6 DEF Placed
  <2>3. first \in 1 .. Len(t) + 1
    BY <1>1, <1>2
  <2>4. /\ placed \in Seq(S) /\ Len(placed) = n + 1 /\ IsInserted(placed, t, first, c)
        /\ Range(placed) = Range(t) \cup {c} /\ IsInjective(placed)
    BY <1>1, <2>1, <2>2, <2>3, InsertAtProperties, InsertAtRange
  <2>5. placed[m + 1] = c /\ \A i \in 1 .. m : placed[i] = s[i]
    <3>1. \A j \in 1 .. n + 1 : placed[j] = IF j < first THEN t[j] ELSE IF j = first THEN c ELSE t[j - 1]
      BY ONLY <1>1, <2>4 DEF IsInserted
    <3>2. first \in 1 .. n + 1 /\ \A i \in 1 .. m : i \in 1 .. n + 1 /\ i < first
      BY <1>1, <1>2
    <3>3. QED
      BY ONLY <1>2, <1>3, <3>1, <3>2
  <2>6. QED
    BY <1>1, <1>5, <2>1, <2>4, <2>5 DEF IsPlaced
<1>7. CASE at # 0
  <2>1. c \in Range(t) /\ at \in 1 .. n /\ t[at] = c
    BY <1>1, <1>4, <1>7, PlaceProperties
  <2>2. at >= first
    BY <1>1, <1>2, <1>3, <2>1
  <2>3. CASE at = first
    <3>1. at \in 1 .. first
      BY <1>2, <2>3
    <3>2. at # 0 /\ ~(at > first)
      BY <1>1, <2>1, <2>3
    <3>3. placed = t
      BY <1>2, <1>4, <1>5, <3>1, <3>2 DEF Placed
    <3>4. Range(t) = Range(t) \cup {c}
      BY <2>1
    <3>5. QED
      BY <1>1, <1>2, <1>3, <1>5, <2>1, <2>3, <3>3, <3>4 DEF IsPlaced
  <2>4. CASE at > first
    <3>1. at # 0 /\ at \notin 1 .. first
      BY <1>1, <1>2, <2>1, <2>4
    <3>2. placed = InsertAt(RemoveAt(t, at), first, t[at])
      BY <1>2, <1>4, <1>5, <2>1, <2>4, <3>1 DEF Placed
    <3>3. first \in 1 .. Len(t) /\ at \in 1 .. Len(t)
      BY <1>1, <1>2, <2>1, <2>4
    <3>4. placed \in Seq(S) /\ Len(placed) = n /\ Range(placed) = Range(t) /\ IsInjective(placed)
      <4>1. LET moved == InsertAt(RemoveAt(t, at), first, t[at])
            IN  moved \in Seq(S) /\ Len(moved) = Len(t) /\ Range(moved) = Range(t) /\ IsInjective(moved)
        BY ONLY t \in Seq(S), IsInjective(t), <3>3, MovedRange
      <4>2. QED
        BY <1>1, <3>2, <4>1
    <3>5. \A j \in 1 .. n :
            placed[j] = IF j < first \/ j > at THEN t[j] ELSE IF j = first THEN t[at] ELSE t[j - 1]
      <4>1. first < at
        BY <1>1, <1>2, <2>1, <2>4
      <4>2. \A j \in 1 .. Len(t) :
              placed[j] = IF j < first \/ j > at THEN t[j] ELSE IF j = first THEN t[at] ELSE t[j - 1]
        BY ONLY t \in Seq(S), <3>2, <3>3, <4>1, MovedUpProperties
      <4>3. QED
        BY ONLY <1>1, <4>2
    <3>6. placed[m + 1] = c /\ \A i \in 1 .. m : placed[i] = s[i]
      <4>1. first \in 1 .. n /\ first = m + 1 /\ \A i \in 1 .. m : i \in 1 .. n /\ i < first
        BY <1>1, <1>2, <2>1, <2>4
      <4>2. ~(first > at) /\ \A i \in 1 .. m : ~(i = first)
        BY ONLY m \in Nat, n \in Nat, <2>1, <2>4, <4>1
      <4>3. placed[first] = t[at] /\ \A i \in 1 .. m : placed[i] = t[i]
        BY ONLY <3>5, <4>1, <4>2
      <4>4. QED
        BY ONLY <1>3, <2>1, <4>1, <4>3
    <3>7. Range(t) = Range(t) \cup {c} /\ m + 1 < n
      BY <1>1, <1>2, <2>1, <2>4
    <3>8. QED
      BY <1>1, <1>5, <3>4, <3>6, <3>7 DEF IsPlaced
  <2>5. QED
    BY <1>1, <1>2, <2>1, <2>2, <2>3, <2>4
<1>8. QED
  BY <1>6, <1>7

(* A list without repetitions is not longer than the set it is from.       *)
LEMMA LengthBound ==
  ASSUME NEW S, IsFiniteSet(S), NEW s \in Seq(S), IsInjective(s)
  PROVE  Len(s) <= Cardinality(S)
<1>1. PICK n \in Nat : n = Len(s) /\ DOMAIN s = 1 .. n
  BY LenProperties
<1>2. s \in [1 .. n -> S] /\ \A i, j \in 1 .. n : s[i] = s[j] => i = j
  <2>1. \A i \in 1 .. n : s[i] \in S
    BY <1>1, RangeProperties
  <2>2. s \in [1 .. n -> S]
    BY <1>1, <2>1
  <2>3. QED
    BY <1>1, <2>2, RangeProperties
<1>3. s \in Injection(1 .. n, S)
  BY <1>2 DEF Injection, IsInjective
<1>4. Cardinality(1 .. n) <= Cardinality(S)
  BY <1>3, FS_Injection
<1>5. 1 \in Int /\ n \in Int
  BY <1>1
<1>6. Cardinality(1 .. n) = IF 1 > n THEN 0 ELSE n - 1 + 1
  BY <1>5, FS_Interval
<1>7. Cardinality(1 .. n) = n
  BY <1>1, <1>6
<1>8. QED
  BY <1>1, <1>4, <1>7

LEMMA ContainsRange ==
  ASSUME NEW S, NEW s \in Seq(S), NEW e
  PROVE  Contains(s, e) <=> e \in Range(s)
BY RangeProperties DEF Contains

LEMMA FrontProperties ==
  ASSUME NEW S, NEW t \in Seq(S), t # <<>>
  PROVE  /\ Front(t) \in Seq(S) /\ Len(Front(t)) = Len(t) - 1
         /\ \A i \in 1 .. Len(t) - 1 : Front(t)[i] = t[i]
         /\ Last(t) \in Range(t) /\ Last(t) = t[Len(t)]
         /\ IsInjective(t) => IsInjective(Front(t)) /\ Range(Front(t)) = Range(t) \ {Last(t)}
<1>1. PICK n \in Nat : n = Len(t) /\ n # 0
  BY EmptySequence
<1>2. PICK m \in Nat : m = n - 1 /\ m + 1 = n
  BY <1>1
<1>3. PICK front : front = Front(t)
  OBVIOUS
<1>4. front \in Seq(S) /\ Len(front) = m /\ \A i \in 1 .. m : front[i] = t[i]
  BY <1>1, <1>2, <1>3 DEF Front
<1>5. Last(t) = t[n] /\ n \in 1 .. n
  BY <1>1 DEF Last
<1>6. Last(t) \in Range(t)
  BY <1>1, <1>5, RangeProperties
<1>7. ASSUME IsInjective(t) PROVE IsInjective(front) /\ Range(front) = Range(t) \ {Last(t)}
  <2>1. \A i, j \in 1 .. n : t[i] = t[j] => i = j
    BY <1>1, <1>7, RangeProperties
  <2>2. \A i \in 1 .. m : i \in 1 .. n /\ i # n
    BY <1>2
  <2>3. \A i, j \in 1 .. m : front[i] = front[j] => i = j
    BY <1>4, <2>1, <2>2
  <2>4. IsInjective(front)
    BY <1>4, <2>3, RangeProperties
  <2>5. ASSUME NEW x \in Range(front) PROVE x \in Range(t) \ {Last(t)}
    <3>1. PICK i \in 1 .. m : front[i] = x
      BY <1>4, <2>5, RangeProperties
    <3>2. i \in 1 .. n /\ i # n /\ t[i] = x
      BY <1>4, <2>2, <3>1
    <3>3. QED
      BY <1>1, <1>5, <2>1, <3>2, RangeProperties
  <2>6. ASSUME NEW x \in Range(t), x # Last(t) PROVE x \in Range(front)
    <3>1. PICK i \in 1 .. n : t[i] = x
      BY <1>1, <2>6, RangeProperties
    <3>2. i \in 1 .. m
      BY <1>2, <1>5, <2>6, <3>1
    <3>3. QED
      BY <1>4, <3>2, <3>1, RangeProperties
  <2>7. QED
    BY <2>4, <2>5, <2>6
<1>8. Len(front) = Len(t) - 1 /\ Last(t) = t[Len(t)] /\ \A i \in 1 .. Len(t) - 1 : front[i] = t[i]
  BY <1>1, <1>2, <1>4, <1>5
<1>9. QED
  BY <1>3, <1>4, <1>6, <1>7, <1>8

-----------------------------------------------------------------------------
(* Categories: registering one.                                            *)

Pages ==
  [categories : Seq(CategoryIds), entries : SUBSET CategoryIds,
   model : [CategoryIds -> RowModels(Results)], registered : SUBSET CategoryIds,
   categoryIndex : Nat, results : [CategoryIds -> Seq(Results)]]

(* There are not more categories than the page has room for.               *)
FewCategories == IsFiniteSet(CategoryIds) /\ Cardinality(CategoryIds) <= MaxCategories

(* The categories of s, those registered, stand at the top of the page.    *)
InOrder(p, s) ==
  /\ s \in Seq(CategoryIds) /\ IsInjective(s) /\ IsInjective(p.categories)
  /\ p.registered = Range(s) /\ p.categoryIndex = Len(s)
  /\ AtTop(s, p.categories)

(* The last category is not one that the next registration could remove.   *)
KeepsLast(p, s) ==
  s # <<>> => Len(p.categories) < MaxCategories \/ p.model[Last(p.categories)].rows # <<>>

AppendNew(s, c) == IF c \in Range(s) THEN s ELSE Append(s, c)

LEMMA AppendNewProperties ==
  ASSUME NEW S, NEW s \in Seq(S), NEW c \in S
  PROVE  /\ AppendNew(s, c) \in Seq(S) /\ Range(AppendNew(s, c)) = Range(s) \cup {c}
         /\ IsInjective(s) => IsInjective(AppendNew(s, c))
<1>1. PICK t : t = Append(s, c)
  OBVIOUS
<1>2. /\ t \in Seq(S) /\ Range(t) = Range(s) \cup {c}
      /\ IsInjective(s) /\ c \notin Range(s) => IsInjective(t)
  BY <1>1, AppendedProperties DEF IsAppended
<1>3. CASE c \in Range(s)
  BY <1>3 DEF AppendNew
<1>4. CASE c \notin Range(s)
  BY <1>1, <1>2, <1>4 DEF AppendNew
<1>5. QED
  BY <1>3, <1>4

LEMMA PageFields ==
  ASSUME NEW p \in Pages
  PROVE  /\ p.categories \in Seq(CategoryIds) /\ p.entries \subseteq CategoryIds
         /\ p.model \in [CategoryIds -> RowModels(Results)] /\ p.registered \subseteq CategoryIds
         /\ p.categoryIndex \in Nat /\ p.results \in [CategoryIds -> Seq(Results)]
         /\ p = [categories |-> p.categories, entries |-> p.entries, model |-> p.model,
                 registered |-> p.registered, categoryIndex |-> p.categoryIndex, results |-> p.results]
BY DEF Pages

(* A page that is p but for what is named.                                 *)
WithCategories(p, t, keys) == [p EXCEPT !.categories = t, !.entries = keys]

LEMMA WithCategoriesProperties ==
  ASSUME NEW p \in Pages, NEW t \in Seq(CategoryIds), NEW keys \in SUBSET CategoryIds
  PROVE  LET q == WithCategories(p, t, keys)
         IN  /\ q \in Pages /\ q.categories = t /\ q.entries = keys
             /\ q.model = p.model /\ q.registered = p.registered
             /\ q.categoryIndex = p.categoryIndex /\ q.results = p.results
BY DEF Pages, WithCategories

(* What is left when the last category has gone, or stayed.                *)
Purged(p, s, q) ==
  /\ q \in Pages /\ IsInjective(q.categories) /\ AtTop(s, q.categories)
  /\ q.entries = Range(q.categories) /\ Range(q.categories) \subseteq Range(p.categories)
  /\ Len(q.categories) < MaxCategories \/ q.model[Last(q.categories)].rows # <<>>
  /\ q.model = p.model /\ q.registered = p.registered
  /\ q.categoryIndex = p.categoryIndex /\ q.results = p.results

LEMMA PurgeExcessProperties ==
  ASSUME NEW p \in Pages, NEW s \in Seq(CategoryIds), IsInjective(p.categories), AtTop(s, p.categories),
         p.entries = Range(p.categories), Len(p.categories) <= MaxCategories,
         Len(p.categories) = MaxCategories /\ p.model[Last(p.categories)].rows = <<>>
           => Last(p.categories) \notin Range(s)
  PROVE  Purged(p, s, PurgeExcess(p))
<1>1. PICK t \in Seq(CategoryIds) : t = p.categories
  BY PageFields
<1>2. PICK m \in Nat, n \in Nat : m = Len(s) /\ n = Len(t) /\ m <= n
  BY <1>1, LenProperties DEF AtTop
<1>3. MaxCategories \in Nat /\ MaxCategories # 0
  BY CategoriesAssumption
<1>4. CASE Len(t) >= MaxCategories /\ p.model[Last(t)].rows = <<>>
  <2>1. n = MaxCategories /\ t # <<>>
    BY <1>1, <1>2, <1>3, <1>4, EmptySequence
  <2>2. PICK front : front = Front(t)
    OBVIOUS
  <2>3. /\ front \in Seq(CategoryIds) /\ Len(front) = n - 1 /\ \A i \in 1 .. n - 1 : front[i] = t[i]
        /\ Last(t) = t[n] /\ IsInjective(front) /\ Range(front) = Range(t) \ {Last(t)}
    BY <1>1, <1>2, <2>1, <2>2, FrontProperties
  <2>4. PICK keys \in SUBSET CategoryIds : keys = p.entries \ {Last(t)} /\ keys = Range(front)
    BY <1>1, <2>3, RangeProperties
  <2>5. PurgeExcess(p) = WithCategories(p, front, keys)
    BY <1>1, <1>4, <2>2, <2>4 DEF PurgeExcess, WithCategories
  <2>6. PICK q : q = PurgeExcess(p)
    OBVIOUS
  <2>7. /\ q \in Pages /\ q.categories = front /\ q.entries = keys /\ q.model = p.model
        /\ q.registered = p.registered /\ q.categoryIndex = p.categoryIndex /\ q.results = p.results
    BY <2>3, <2>5, <2>6, WithCategoriesProperties
  <2>8. Last(t) \notin Range(s)
    BY <1>1, <1>2, <1>4, <2>1
  <2>9. m # n
    <3>1. SUFFICES ASSUME m = n PROVE FALSE
      OBVIOUS
    <3>2. n \in 1 .. m
      BY <1>3, <2>1, <3>1
    <3>3. s[n] = t[n]
      BY <1>1, <1>2, <3>2 DEF AtTop
    <3>4. s[n] \in Range(s)
      BY <1>2, <3>2, RangeProperties
    <3>5. QED
      BY <2>3, <2>8, <3>3, <3>4
  <2>10. AtTop(s, front)
    BY <1>1, <1>2, <2>3, <2>9 DEF AtTop
  <2>11. Len(front) < MaxCategories
    BY <1>2, <2>1, <2>3
  <2>12. QED
    BY <1>1, <2>3, <2>4, <2>6, <2>7, <2>10, <2>11 DEF Purged
<1>5. CASE ~(Len(t) >= MaxCategories /\ p.model[Last(t)].rows = <<>>)
  <2>1. PurgeExcess(p) = p
    BY <1>1, <1>5 DEF PurgeExcess
  <2>2. Len(p.categories) < MaxCategories \/ p.model[Last(p.categories)].rows # <<>>
    BY <1>1, <1>2, <1>3, <1>5
  <2>3. QED
    BY <2>1, <2>2 DEF Purged
<1>6. QED
  BY <1>4, <1>5

WithRegistered(p, ids, n, t, keys, models) ==
  [p EXCEPT !.registered = ids, !.categoryIndex = n, !.categories = t, !.entries = keys, !.model = models]

LEMMA WithRegisteredProperties ==
  ASSUME NEW p \in Pages, NEW ids \in SUBSET CategoryIds, NEW n \in Nat, NEW t \in Seq(CategoryIds),
         NEW keys \in SUBSET CategoryIds, NEW models \in [CategoryIds -> RowModels(Results)]
  PROVE  LET q == WithRegistered(p, ids, n, t, keys, models)
         IN  /\ q \in Pages /\ q.categories = t /\ q.entries = keys /\ q.model = models
             /\ q.registered = ids /\ q.categoryIndex = n /\ q.results = p.results
BY DEF Pages, WithRegistered

(* The models when c is registered, with the model a new one gets.         *)
ModelsWith(p, c, m) == IF c \in Range(p.categories) THEN p.model ELSE [p.model EXCEPT ![c] = m]

Registers(p, s, c, m, q) ==
  /\ q \in Pages /\ InOrder(q, AppendNew(s, c)) /\ KeepsLast(q, AppendNew(s, c))
  /\ q.entries = Range(q.categories) /\ Range(q.categories) \subseteq Range(p.categories) \cup {c}
  /\ q.model = ModelsWith(p, c, m) /\ q.results = p.results

LEMMA RegisterNew ==
  ASSUME FewCategories,
         NEW p \in Pages, NEW s, InOrder(p, s), KeepsLast(p, s), NEW c \in CategoryIds, c \notin Range(s),
         NEW m \in RowModels(Results), c \notin Range(p.categories) => m.rows # <<>>,
         p.entries = Range(p.categories) \cup {c},
         \A d \in Range(s) : p.model[d].rows # <<>>
  PROVE  Registers(p, s, c, m, RegisterCategory(p, c, m))
<1>1. PICK t \in Seq(CategoryIds) : t = p.categories /\ IsInjective(t)
  BY PageFields DEF InOrder
<1>2. s \in Seq(CategoryIds) /\ IsInjective(s) /\ p.registered = Range(s) /\ p.categoryIndex = Len(s) /\ AtTop(s, t)
  BY <1>1 DEF InOrder
<1>3. PICK k \in Nat, n \in Nat : k = Len(s) /\ n = Len(t) /\ k <= n
  BY <1>1, <1>2, LenProperties DEF AtTop
<1>4. PICK placed : placed = Placed(p, c)
  OBVIOUS
<1>5. IsPlaced(CategoryIds, t, s, c, placed)
  BY <1>1, <1>2, <1>4, PlacedProperties
<1>6. PICK l \in Nat : l = Len(placed) /\ k < l
  BY <1>3, <1>5, LenProperties DEF IsPlaced
<1>7. /\ placed \in Seq(CategoryIds) /\ IsInjective(placed) /\ Range(placed) = Range(t) \cup {c}
      /\ placed[k + 1] = c /\ \A i \in 1 .. k : placed[i] = s[i]
  BY <1>3, <1>5 DEF IsPlaced
<1>8. PICK b : b = Append(s, c)
  OBVIOUS
<1>9. /\ b \in Seq(CategoryIds) /\ Len(b) = k + 1 /\ Range(b) = Range(s) \cup {c} /\ IsInjective(b)
      /\ b[k + 1] = c /\ \A i \in 1 .. k : b[i] = s[i]
  <2>1. /\ b \in Seq(CategoryIds) /\ Len(b) = Len(s) + 1 /\ Range(b) = Range(s) \cup {c}
        /\ b[Len(s) + 1] = c /\ \A i \in 1 .. Len(s) : b[i] = s[i]
        /\ IsInjective(s) /\ c \notin Range(s) => IsInjective(b)
    BY <1>2, <1>8, AppendedProperties DEF IsAppended
  <2>2. QED
    BY ONLY <1>2, <1>3, <2>1, c \notin Range(s)
<1>10. AtTop(b, placed)
  <2>1. \A i \in 1 .. k + 1 : i \in 1 .. k \/ i = k + 1
    BY <1>3
  <2>2. QED
    BY <1>6, <1>7, <1>9, <2>1 DEF AtTop
<1>11. AppendNew(s, c) = b
  BY <1>8 DEF AppendNew
<1>12. PICK keys \in SUBSET CategoryIds : keys = Range(placed) /\ keys = p.entries
  <2>1. Range(placed) = p.entries /\ p.entries \subseteq CategoryIds
    BY <1>1, <1>7, PageFields
  <2>2. QED
    BY <2>1
<1>13. PICK models \in [CategoryIds -> RowModels(Results)] : models = ModelsWith(p, c, m)
  <2>1. p.model \in [CategoryIds -> RowModels(Results)]
    BY PageFields
  <2>2. [p.model EXCEPT ![c] = m] \in [CategoryIds -> RowModels(Results)]
    BY <2>1
  <2>3. QED
    BY <2>1, <2>2 DEF ModelsWith
<1>14. PICK ids \in SUBSET CategoryIds, place \in Nat :
         /\ ids = Range(b) /\ ids = p.registered \cup {c}
         /\ place = k + 1 /\ place = p.categoryIndex + 1
  <2>1. Range(b) = p.registered \cup {c} /\ Range(b) \subseteq CategoryIds
    BY <1>2, <1>9, RangeProperties
  <2>2. k + 1 = p.categoryIndex + 1 /\ k + 1 \in Nat
    BY <1>2, <1>3
  <2>3. QED
    BY <2>1, <2>2
<1>15. PICK r : r = WithRegistered(p, ids, place, placed, keys, models)
  OBVIOUS
<1>16. /\ r \in Pages /\ r.categories = placed /\ r.entries = keys /\ r.model = models
       /\ r.registered = Range(b) /\ r.categoryIndex = k + 1 /\ r.results = p.results
  <2>1. /\ r \in Pages /\ r.categories = placed /\ r.entries = keys /\ r.model = models
        /\ r.registered = ids /\ r.categoryIndex = place /\ r.results = p.results
    BY <1>7, <1>15, WithRegisteredProperties
  <2>2. QED
    BY <1>14, <2>1
<1>17. RegisterCategory(p, c, m) = PurgeExcess(r)
  <2>1. c \notin p.registered
    BY <1>2
  <2>2. Place(p, c) = 0 <=> c \notin Range(p.categories)
    BY <1>1, PlaceProperties
  <2>3. c \in p.entries
    BY <1>12, <1>7
  <2>4. CASE c \in Range(p.categories)
    <3>1. Place(p, c) # 0 /\ models = p.model
      BY <1>13, <2>2, <2>4 DEF ModelsWith
    <3>2. r = [p EXCEPT !.registered = @ \cup {c}, !.categoryIndex = @ + 1, !.categories = placed,
                        !.entries = @, !.model[c] = @]
      BY ONLY p \in Pages, <1>12, <1>14, <1>15, <3>1, PageFields DEF WithRegistered
    <3>3. QED
      BY <1>4, <2>1, <3>1, <3>2 DEF RegisterCategory
  <2>5. CASE c \notin Range(p.categories)
    <3>1. Place(p, c) = 0 /\ models = [p.model EXCEPT ![c] = m]
      BY <1>13, <2>2, <2>5 DEF ModelsWith
    <3>2. keys = p.entries \cup {c}
      BY <1>12, <2>3
    <3>3. r = [p EXCEPT !.registered = @ \cup {c}, !.categoryIndex = @ + 1, !.categories = placed,
                        !.entries = @ \cup {c}, !.model[c] = m]
      BY ONLY p \in Pages, <1>14, <1>15, <3>1, <3>2, PageFields DEF WithRegistered
    <3>4. QED
      BY <1>4, <2>1, <3>1, <3>3 DEF RegisterCategory
  <2>6. QED
    BY <2>4, <2>5
<1>18. Len(placed) <= MaxCategories
  <2>1. Len(placed) <= Cardinality(CategoryIds) /\ Cardinality(CategoryIds) <= MaxCategories
    BY <1>7, LengthBound DEF FewCategories
  <2>2. Cardinality(CategoryIds) \in Nat /\ MaxCategories \in Nat
    BY CategoriesAssumption, FS_CardinalityType DEF FewCategories
  <2>3. QED
    BY <1>6, <2>1, <2>2
<1>19. ASSUME Len(placed) = MaxCategories, models[Last(placed)].rows = <<>>
       PROVE  Last(placed) \notin Range(b)
  <2>1. PICK d : d = Last(placed) /\ d = placed[l]
    BY <1>6 DEF Last
  <2>2. d \in Range(placed)
    BY <1>6, <1>7, <2>1, RangeProperties
  <2>3. ASSUME d \in Range(s) PROVE FALSE
    <3>1. p.model[d].rows # <<>> /\ d # c
      BY <2>3
    <3>2. models[d] = p.model[d]
      BY <1>13, <3>1, PageFields DEF ModelsWith
    <3>3. QED
      BY <1>19, <2>1, <3>1, <3>2
  <2>4. ASSUME d = c PROVE FALSE
    <3>1. CASE c \notin Range(t)
      <4>1. models[c] = m /\ m.rows # <<>>
        BY <1>1, <1>13, <3>1, PageFields DEF ModelsWith
      <4>2. QED
        BY <1>19, <2>1, <2>4, <4>1
    <3>2. CASE c \in Range(t)
      <4>1. placed[l] = placed[k + 1] /\ l \in 1 .. l /\ k + 1 \in 1 .. l
        BY <1>6, <1>7, <2>1, <2>4
      <4>2. l = k + 1
        BY <1>6, <1>7, <4>1, RangeProperties
      <4>3. placed = t
        BY <1>3, <1>5, <1>6, <3>2, <4>2 DEF IsPlaced
      <4>4. models = p.model /\ Len(p.categories) = MaxCategories /\ p.model[Last(p.categories)].rows = <<>>
        BY <1>1, <1>13, <1>19, <3>2, <4>3 DEF ModelsWith
      <4>5. CASE s = <<>>
        <5>1. k = 0
          BY <1>3, <4>5
        <5>2. MaxCategories = 1
          BY <1>6, <1>19, <4>2, <5>1
        <5>3. QED
          BY <5>2, CategoriesAssumption
      <4>6. CASE s # <<>>
        <5>1. Len(p.categories) < MaxCategories
          BY <4>4, <4>6 DEF KeepsLast
        <5>2. QED
          BY <4>4, <5>1, CategoriesAssumption
      <4>7. QED
        BY <4>5, <4>6
    <3>3. QED
      BY <3>1, <3>2
  <2>5. QED
    BY <1>9, <2>1, <2>3, <2>4
<1>20. PICK q : q = PurgeExcess(r)
  OBVIOUS
<1>21. Purged(r, b, q)
  BY <1>7, <1>9, <1>10, <1>12, <1>16, <1>18, <1>19, <1>20, PurgeExcessProperties
<1>22. InOrder(q, b) /\ KeepsLast(q, b)
  BY <1>9, <1>16, <1>21 DEF InOrder, KeepsLast, Purged
<1>23. Range(q.categories) \subseteq Range(p.categories) \cup {c}
  BY <1>1, <1>7, <1>16, <1>21 DEF Purged
<1>24. QED
  BY <1>11, <1>13, <1>16, <1>17, <1>20, <1>21, <1>22, <1>23 DEF Registers, Purged

LEMMA RegisterProperties ==
  ASSUME FewCategories,
         NEW p \in Pages, NEW s, InOrder(p, s), KeepsLast(p, s), NEW c \in CategoryIds,
         NEW m \in RowModels(Results), c \notin Range(p.categories) => m.rows # <<>>,
         p.entries = Range(p.categories) \cup {c},
         \A d \in Range(s) : p.model[d].rows # <<>>
  PROVE  Registers(p, s, c, m, RegisterCategory(p, c, m))
<1>1. CASE c \notin Range(s)
  BY <1>1, RegisterNew
<1>2. CASE c \in Range(s)
  <2>1. s \in Seq(CategoryIds) /\ AtTop(s, p.categories) /\ p.categories \in Seq(CategoryIds) /\ c \in p.registered
    BY <1>2, PageFields DEF InOrder
  <2>2. c \in Range(p.categories)
    BY <1>2, <2>1, AtTopRange
  <2>3. RegisterCategory(p, c, m) = p
    BY <2>1 DEF RegisterCategory
  <2>4. AppendNew(s, c) = s /\ ModelsWith(p, c, m) = p.model /\ p.entries = Range(p.categories)
    BY <1>2, <2>2 DEF AppendNew, ModelsWith
  <2>5. QED
    BY <2>3, <2>4 DEF Registers
<1>3. QED
  BY <1>1, <1>2

-----------------------------------------------------------------------------
(* Categories: showing the results of one.                                 *)

Grown(S, u) ==
  /\ u.model \in RowModels(S) /\ u.results \in Seq(S) /\ u.results # <<>>
  /\ Shows(u.model, u.results) /\ u.model.rows = u.results

LEMMA RowsGrow ==
  ASSUME NEW S, NEW m \in RowModels(S), NEW list \in Seq(S), NEW extra \in Seq(S), extra # <<>>,
         list = <<>> => NothingYet(m), list # <<>> => Shows(m, list) /\ m.rows = list
  PROVE  Grown(S, AddUpdateResults(m, list \o extra))
<1>1. PICK u : u = AddUpdateResults(m, list \o extra)
  OBVIOUS
<1>2. CASE list = <<>>
  <2>1. list \o extra = extra
    BY <1>2
  <2>2. m.last = 0 /\ m.new = EmptyMap
    BY <1>2 DEF NothingYet
  <2>3. FirstShown(S, m, extra, AddUpdateResults(m, extra))
    <3>1. CASE m.rows = <<>>
      BY <3>1, AddUpdateEmpty
    <3>2. CASE m.rows # <<>>
      BY <2>2, <3>2, AddUpdateFirst
    <3>3. QED
      BY <3>1, <3>2
  <2>4. FirstShown(S, m, extra, u)
    BY <1>1, <2>1, <2>3
  <2>5. u.results \in Seq(S) /\ Range(u.results) = Range(extra)
    BY <2>4 DEF FirstShown
  <2>6. Range(extra) # {}
    BY EmptySequence
  <2>7. u.results # <<>>
    BY <2>5, <2>6, EmptySequence
  <2>8. QED
    BY <1>1, <2>4, <2>7 DEF Grown, FirstShown
<1>3. CASE list # <<>>
  <2>1. Shows(m, list) /\ m.rows = list
    BY <1>3
  <2>2. LaterShown(S, m, list, extra, u)
    BY <1>1, <1>3, <2>1, AddUpdateLater
  <2>3. PICK after \in RowModels(S), t \in Seq(S) : t = u.results /\ after = u.model
    BY <2>2 DEF LaterShown
  <2>4. after \in RowModels(S) /\ Shows(after, t)
    BY <2>2, <2>3 DEF LaterShown
  <2>5. PICK rr \in Seq(S) : rr = after.rows
    BY <2>4, RowModelFields
  <2>6. PICK k, n \in Nat : k = Len(list) /\ n = Len(t) /\ k <= n /\ Len(rr) = n
    BY <2>2, <2>3, <2>4, <2>5, LenProperties DEF LaterShown, Shows
  <2>7. \A i \in 1 .. k : rr[i] = t[i]
    BY <2>1, <2>2, <2>3, <2>5, <2>6 DEF LaterShown
  <2>8. \A i \in k + 1 .. n : rr[i] = t[i]
    BY <2>2, <2>3, <2>5, <2>6 DEF LaterShown
  <2>9. \A i \in 1 .. n : rr[i] = t[i]
    <3>1. SUFFICES ASSUME NEW i \in 1 .. n PROVE rr[i] = t[i]
      OBVIOUS
    <3>2. i \in 1 .. k \/ i \in k + 1 .. n
      BY <2>6
    <3>3. QED
      BY <2>7, <2>8, <3>2
  <2>10. rr = t
    BY <2>6, <2>9
  <2>11. t # <<>>
    <3>1. k # 0 /\ n # 0
      BY <1>3, <2>6, EmptySequence
    <3>2. QED
      BY <2>6, <3>1
  <2>12. QED
    BY <1>1, <2>3, <2>4, <2>5, <2>10, <2>11 DEF Grown
<1>4. QED
  BY <1>2, <1>3

LEMMA EmptyModelProperties ==
  ASSUME NEW S
  PROVE  EmptyModel(0) \in RowModels(S) /\ NothingYet(EmptyModel(0)) /\ EmptyModel(0).rows = <<>>
<1>1. PICK rr \in Seq(S) : rr = <<>>
  BY EmptySequence
<1>2. PICK map \in ResultMaps(S) : map = EmptyMap
  BY MapsProperties
<1>3. PICK none : none = EmptyModel(0)
  OBVIOUS
<1>4. none = [rows |-> rr, new |-> map, old |-> map, last |-> 0, purge |-> TRUE,
              silent |-> FALSE, movedDown |-> FALSE]
  BY <1>1, <1>2, <1>3 DEF EmptyModel
<1>5. none \in RowModels(S)
  BY <1>4 DEF RowModels
<1>6. none.rows = rr /\ none.last = 0 /\ none.new = map /\ none.purge = TRUE
  BY <1>4
<1>7. NothingYet(none)
  BY <1>2, <1>6 DEF NothingYet
<1>8. QED
  BY <1>1, <1>3, <1>5, <1>6, <1>7

(* Category c shows its list: the results of the search if it is one of    *)
(* those in s, and otherwise it waits for them.                            *)
CategoryShown(p, s, c, list) ==
  /\ c \in Range(s) => list # <<>> /\ Shows(p.model[c], list) /\ p.model[c].rows = list
  /\ c \notin Range(s) => list = <<>>
  /\ c \in Range(p.categories) \ Range(s) => NothingYet(p.model[c])

(* The page is q when category c got its results.                          *)
Turned(p, s, lists, c, q) ==
  LET b == AppendNew(s, c)
  IN  /\ q \in Pages /\ InOrder(q, b) /\ KeepsLast(q, b) /\ q.entries = Range(q.categories)
      /\ \A d \in CategoryIds \ {c} : q.results[d] = p.results[d] /\ CategoryShown(q, b, d, lists[d])
      /\ CategoryShown(q, b, c, q.results[c])

LEMMA TurnedBy ==
  ASSUME NEW p \in Pages, NEW s \in Seq(CategoryIds), NEW c \in CategoryIds,
         NEW lists, \A d \in CategoryIds : CategoryShown(p, s, d, lists[d]),
         NEW u, Grown(Results, u), NEW q \in Pages,
         InOrder(q, AppendNew(s, c)), KeepsLast(q, AppendNew(s, c)), q.entries = Range(q.categories),
         Range(q.categories) \subseteq Range(p.categories) \cup {c},
         q.model = [p.model EXCEPT ![c] = u.model], q.results = [p.results EXCEPT ![c] = u.results]
  PROVE  Turned(p, s, lists, c, q)
<1>1. PICK b : b = AppendNew(s, c) /\ Range(b) = Range(s) \cup {c}
  BY AppendNewProperties
<1>2. /\ \A d \in CategoryIds \ {c} : q.model[d] = p.model[d] /\ q.results[d] = p.results[d]
      /\ q.model[c] = u.model /\ q.results[c] = u.results
  BY PageFields
<1>3. ASSUME NEW d \in CategoryIds \ {c} PROVE CategoryShown(q, b, d, lists[d])
  <2>1. CategoryShown(p, s, d, lists[d]) /\ q.model[d] = p.model[d]
    BY <1>2, <1>3
  <2>2. d \in Range(b) <=> d \in Range(s)
    BY <1>1, <1>3
  <2>3. d \in Range(q.categories) => d \in Range(p.categories)
    BY <1>3
  <2>4. QED
    BY ONLY <2>1, <2>2, <2>3 DEF CategoryShown
<1>4. CategoryShown(q, b, c, q.results[c])
  BY ONLY <1>1, <1>2, Grown(Results, u) DEF CategoryShown, Grown
<1>5. QED
  BY <1>1, <1>2, <1>3, <1>4 DEF Turned

LEMMA TurnNew ==
  ASSUME FewCategories,
         NEW p \in Pages, NEW s, InOrder(p, s), KeepsLast(p, s), p.entries = Range(p.categories),
         NEW lists \in [CategoryIds -> Seq(Results)],
         \A d \in CategoryIds : CategoryShown(p, s, d, lists[d]),
         NEW c \in CategoryIds, c \notin Range(p.categories),
         NEW extra \in Seq(Results), extra # <<>>, p.results[c] = lists[c] \o extra
  PROVE  Turned(p, s, lists, c, ShowCategory(p, c))
<1>1. s \in Seq(CategoryIds) /\ p.categories \in Seq(CategoryIds) /\ Range(s) \subseteq Range(p.categories)
  BY PageFields, AtTopRange DEF InOrder
<1>2. lists[c] = <<>>
  BY <1>1 DEF CategoryShown
<1>3. PICK none \in RowModels(Results) : none = EmptyModel(0) /\ NothingYet(none) /\ none.rows = <<>>
  BY EmptyModelProperties
<1>4. PICK u : u = AddUpdateResults(none, p.results[c])
  OBVIOUS
<1>5. Grown(Results, u)
  BY <1>2, <1>3, <1>4, RowsGrow
<1>6. AddResults(EmptyModel(0), p.results[c]) = u
  BY <1>3, <1>4 DEF AddUpdateResults
<1>7. PICK m \in RowModels(Results), t \in Seq(Results) : m = u.model /\ t = u.results /\ m.rows # <<>>
  BY <1>5 DEF Grown
<1>8. PICK keys \in SUBSET CategoryIds : keys = p.entries \cup {c}
  BY PageFields
<1>9. PICK shown \in [CategoryIds -> Seq(Results)] : shown = [p.results EXCEPT ![c] = t]
  BY PageFields
<1>10. PICK r : r = [p EXCEPT !.entries = keys, !.results = shown]
  OBVIOUS
<1>11. /\ r \in Pages /\ r.categories = p.categories /\ r.entries = keys /\ r.model = p.model
       /\ r.registered = p.registered /\ r.categoryIndex = p.categoryIndex /\ r.results = shown
  BY <1>8, <1>9, <1>10 DEF Pages
<1>12. InOrder(r, s) /\ KeepsLast(r, s)
  BY <1>11 DEF InOrder, KeepsLast
<1>13. \A d \in Range(s) : r.model[d].rows # <<>>
  <2>1. \A d \in Range(s) : d \in CategoryIds
    BY <1>1, RangeProperties
  <2>2. QED
    BY <1>11, <2>1 DEF CategoryShown
<1>14. PICK q : q = RegisterCategory(r, c, m)
  OBVIOUS
<1>15. Registers(r, s, c, m, q)
  <2>1. r.entries = Range(r.categories) \cup {c}
    BY <1>8, <1>11
  <2>2. QED
    BY <1>7, <1>11, <1>12, <1>13, <1>14, <2>1, RegisterProperties
<1>16. ShowCategory(p, c) = q
  <2>1. c \notin p.entries
    OBVIOUS
  <2>2. r = [p EXCEPT !.entries = @ \cup {c}, !.results[c] = u.results]
    BY <1>7, <1>8, <1>9, <1>10, PageFields
  <2>3. QED
    BY <1>6, <1>7, <1>14, <2>1, <2>2 DEF ShowCategory
<1>17. /\ q \in Pages /\ InOrder(q, AppendNew(s, c)) /\ KeepsLast(q, AppendNew(s, c))
       /\ q.entries = Range(q.categories) /\ Range(q.categories) \subseteq Range(p.categories) \cup {c}
       /\ q.model = [p.model EXCEPT ![c] = u.model] /\ q.results = [p.results EXCEPT ![c] = u.results]
  BY <1>7, <1>9, <1>11, <1>15 DEF Registers, ModelsWith
<1>18. QED
  BY <1>1, <1>5, <1>16, <1>17, TurnedBy

LEMMA TurnKnown ==
  ASSUME FewCategories,
         NEW p \in Pages, NEW s, InOrder(p, s), KeepsLast(p, s), p.entries = Range(p.categories),
         NEW lists \in [CategoryIds -> Seq(Results)],
         \A d \in CategoryIds : CategoryShown(p, s, d, lists[d]),
         NEW c \in CategoryIds, c \in Range(p.categories),
         NEW extra \in Seq(Results), extra # <<>>, p.results[c] = lists[c] \o extra
  PROVE  Turned(p, s, lists, c, ShowCategory(p, c))
<1>1. s \in Seq(CategoryIds) /\ p.categories \in Seq(CategoryIds)
  BY PageFields DEF InOrder
<1>2. PICK list \in Seq(Results), m \in RowModels(Results) :
        list = lists[c] /\ m = p.model[c] /\ p.results[c] = list \o extra
  BY PageFields
<1>3. CategoryShown(p, s, c, list)
  BY <1>2
<1>4. list = <<>> => NothingYet(m)
  BY <1>2, <1>3 DEF CategoryShown
<1>5. list # <<>> => Shows(m, list) /\ m.rows = list
  BY <1>2, <1>3 DEF CategoryShown
<1>6. PICK u : u = AddUpdateResults(m, p.results[c])
  OBVIOUS
<1>7. Grown(Results, u)
  BY <1>2, <1>4, <1>5, <1>6, RowsGrow
<1>8. PICK none \in RowModels(Results) : none = EmptyModel(0)
  BY EmptyModelProperties
<1>9. \A d \in Range(s) : p.model[d].rows # <<>>
  <2>1. \A d \in Range(s) : d \in CategoryIds
    BY <1>1, RangeProperties
  <2>2. QED
    BY <2>1 DEF CategoryShown
<1>10. PICK r : r = RegisterCategory(p, c, none)
  OBVIOUS
<1>11. Registers(p, s, c, none, r)
  <2>1. p.entries = Range(p.categories) \cup {c}
    OBVIOUS
  <2>2. QED
    BY <1>9, <1>10, <2>1, RegisterProperties
<1>12. PICK b \in Seq(CategoryIds) : b = AppendNew(s, c) /\ Range(b) = Range(s) \cup {c}
  BY <1>1, AppendNewProperties
<1>13. /\ r \in Pages /\ InOrder(r, b) /\ KeepsLast(r, b) /\ r.entries = Range(r.categories)
       /\ Range(r.categories) \subseteq Range(p.categories) \cup {c}
       /\ r.model = p.model /\ r.results = p.results
  BY <1>11, <1>12 DEF Registers, ModelsWith
<1>14. r.categories \in Seq(CategoryIds) /\ c \in Range(r.categories)
  BY <1>12, <1>13, PageFields, AtTopRange DEF InOrder
<1>15. PICK after \in RowModels(Results), t \in Seq(Results) : after = u.model /\ t = u.results /\ after.rows # <<>>
  BY <1>7 DEF Grown
<1>16. PICK shown \in [CategoryIds -> Seq(Results)] : shown = [p.results EXCEPT ![c] = t]
  BY PageFields
<1>17. PICK models \in [CategoryIds -> RowModels(Results)] : models = [p.model EXCEPT ![c] = after]
  BY PageFields
<1>18. PICK q : q = [r EXCEPT !.results = shown, !.model = models]
  OBVIOUS
<1>19. /\ q \in Pages /\ q.categories = r.categories /\ q.entries = r.entries /\ q.model = models
       /\ q.registered = r.registered /\ q.categoryIndex = r.categoryIndex /\ q.results = shown
  BY <1>13, <1>16, <1>17, <1>18 DEF Pages
<1>20. ShowCategory(p, c) = q
  <2>1. c \in p.entries /\ Contains(p.categories, c) /\ c \in r.entries
    BY <1>1, <1>13, <1>14, ContainsRange
  <2>2. q = [r EXCEPT !.results[c] = u.results, !.model[c] = u.model]
    BY <1>13, <1>15, <1>16, <1>17, <1>18, PageFields
  <2>3. AddUpdateResults(p.model[c], p.results[c]) = u
    BY <1>2, <1>6
  <2>4. RegisterCategory(p, c, EmptyModel(0)) = r
    BY <1>8, <1>10
  <2>5. QED
    BY <2>1, <2>2, <2>3, <2>4 DEF ShowCategory
<1>21. InOrder(q, b)
  BY <1>13, <1>19 DEF InOrder
<1>22. KeepsLast(q, b)
  <2>1. PICK d : d = Last(r.categories)
    OBVIOUS
  <2>2. d \in CategoryIds
    <3>1. r.categories # <<>>
      BY <1>14, EmptySequence
    <3>2. d \in Range(r.categories)
      BY <1>14, <2>1, <3>1, FrontProperties
    <3>3. QED
      BY <1>14, <3>2, RangeProperties
  <2>3. models[d].rows # <<>> \/ models[d] = r.model[d]
    BY <1>13, <1>15, <1>17, <2>2, PageFields
  <2>4. QED
    BY <1>13, <1>19, <2>1, <2>3 DEF KeepsLast
<1>23. /\ q.entries = Range(q.categories) /\ Range(q.categories) \subseteq Range(p.categories) \cup {c}
       /\ q.model = [p.model EXCEPT ![c] = u.model] /\ q.results = [p.results EXCEPT ![c] = u.results]
  BY <1>13, <1>15, <1>16, <1>17, <1>19
<1>24. QED
  BY <1>1, <1>7, <1>12, <1>19, <1>20, <1>21, <1>22, <1>23, TurnedBy

LEMMA TurnProperties ==
  ASSUME FewCategories,
         NEW p \in Pages, NEW s, InOrder(p, s), KeepsLast(p, s), p.entries = Range(p.categories),
         NEW lists \in [CategoryIds -> Seq(Results)],
         \A d \in CategoryIds : CategoryShown(p, s, d, lists[d]),
         NEW c \in CategoryIds,
         NEW extra \in Seq(Results), extra # <<>>, p.results[c] = lists[c] \o extra
  PROVE  Turned(p, s, lists, c, ShowCategory(p, c))
<1>1. CASE c \in Range(p.categories)
  BY <1>1, TurnKnown
<1>2. CASE c \notin Range(p.categories)
  BY <1>2, TurnNew
<1>3. QED
  BY <1>1, <1>2

-----------------------------------------------------------------------------
(* Categories: the categories of a chunk, one after the other.             *)

JoinTurn(s, t, g, i) ==
  IF i = 0 THEN s ELSE IF Contains(g[i - 1], t[i]) THEN g[i - 1] ELSE Append(g[i - 1], t[i])

(* s, and the first k elements of t.                                       *)
Joined(S, s, t, k) ==
  {v \in Seq(S) : /\ Range(v) = Range(s) \cup {t[j] : j \in 1 .. k}
                  /\ IsInjective(s) => IsInjective(v)}

LEMMA JoinStep ==
  ASSUME NEW S, NEW s \in Seq(S), NEW t \in Seq(S), NEW k \in 0 .. Len(t) - 1, NEW v \in Joined(S, s, t, k)
  PROVE  /\ AppendNew(v, t[k + 1]) \in Joined(S, s, t, k + 1)
         /\ AppendNew(v, t[k + 1]) = IF Contains(v, t[k + 1]) THEN v ELSE Append(v, t[k + 1])
<1>1. v \in Seq(S) /\ Range(v) = Range(s) \cup {t[j] : j \in 1 .. k} /\ (IsInjective(s) => IsInjective(v))
  BY DEF Joined
<1>2. k \in Nat /\ k + 1 \in 1 .. Len(t)
  BY LenProperties
<1>3. PICK e \in S : e = t[k + 1]
  BY <1>2, RangeProperties
<1>4. PICK w : w = AppendNew(v, e)
  OBVIOUS
<1>5. w \in Seq(S) /\ Range(w) = Range(v) \cup {e} /\ (IsInjective(v) => IsInjective(w))
  <2>1. v \in Seq(S)
    BY <1>1
  <2>2. /\ AppendNew(v, e) \in Seq(S) /\ Range(AppendNew(v, e)) = Range(v) \cup {e}
        /\ IsInjective(v) => IsInjective(AppendNew(v, e))
    BY ONLY <2>1, e \in S, AppendNewProperties
  <2>3. QED
    BY ONLY <1>4, <2>2
<1>6. {t[j] : j \in 1 .. k + 1} = {t[j] : j \in 1 .. k} \cup {e}
  <2>1. \A j : j \in 1 .. k + 1 <=> j \in 1 .. k \/ j = k + 1
    BY <1>2
  <2>2. QED
    BY ONLY <1>3, <2>1
<1>7. Range(w) = Range(s) \cup {t[j] : j \in 1 .. k + 1}
  BY ONLY <1>1, <1>5, <1>6
<1>8. w = IF Contains(v, e) THEN v ELSE Append(v, e)
  BY <1>1, <1>4, ContainsRange DEF AppendNew
<1>9. QED
  BY ONLY <1>1, <1>3, <1>4, <1>5, <1>7, <1>8 DEF Joined

IsJoining(S, s, t, g) ==
  /\ g[0] = s
  /\ \A k \in 0 .. Len(t) - 1 : g[k + 1] = AppendNew(g[k], t[k + 1])
  /\ \A k \in 0 .. Len(t) : g[k] \in Joined(S, s, t, k)

LEMMA WithNewDef ==
  ASSUME NEW S, NEW s \in Seq(S), NEW t \in Seq(S)
  PROVE  \E g : IsJoining(S, s, t, g) /\ WithNew(s, t) = g[Len(t)]
<1> DEFINE n == Len(t)
           V == Seq(S)
           Ok == [k \in 0 .. n |-> Joined(S, s, t, k)]
           H == [k \in 0 .. n - 1 |-> [v \in V |-> AppendNew(v, t[k + 1])]]
<1>1. n \in Nat
  BY LenProperties
<1>2. Ok \in [0 .. n -> SUBSET V] /\ s \in Ok[0]
  <2>1. \A k : Joined(S, s, t, k) \in SUBSET V
    BY DEF Joined
  <2>2. {t[j] : j \in 1 .. 0} = {}
    OBVIOUS
  <2>3. 0 \in 0 .. n /\ s \in Joined(S, s, t, 0)
    BY <1>1, <2>2 DEF Joined
  <2>4. QED
    BY <2>1, <2>3
<1>3. ASSUME NEW k \in 0 .. n - 1, NEW v \in Ok[k]
      PROVE  /\ H[k][v] = AppendNew(v, t[k + 1]) /\ AppendNew(v, t[k + 1]) \in Ok[k + 1]
             /\ AppendNew(v, t[k + 1]) = IF Contains(v, t[k + 1]) THEN v ELSE Append(v, t[k + 1])
  <2>1. k \in 0 .. n /\ k + 1 \in 0 .. n
    BY <1>1
  <2>2. v \in Joined(S, s, t, k)
    BY <2>1
  <2>3. v \in V
    BY <2>2 DEF Joined
  <2>4. H[k][v] = AppendNew(v, t[k + 1])
    BY <2>3
  <2>5. /\ AppendNew(v, t[k + 1]) \in Joined(S, s, t, k + 1)
        /\ AppendNew(v, t[k + 1]) = IF Contains(v, t[k + 1]) THEN v ELSE Append(v, t[k + 1])
    BY <2>2, JoinStep
  <2>6. QED
    BY <2>1, <2>4, <2>5
<1>4. \E g : IsRun(n, Ok, s, H, g)
  <2>1. \A k \in 0 .. n - 1 : \A v \in Ok[k] : H[k][v] \in Ok[k + 1]
    BY <1>3
  <2> HIDE DEF n, V, Ok, H
  <2>2. IsLoop(V, n, Ok, s, H)
    BY <1>2, <2>1 DEF IsLoop
  <2>3. QED
    BY <1>1, <2>2, LoopExists
<1>5. PICK f : /\ f = [k \in 0 .. n |-> IF k = 0 THEN s ELSE H[k - 1][f[k - 1]]]
               /\ \A k \in 0 .. n : f[k] \in Ok[k]
  BY <1>4 DEF IsRun
<1>6. ASSUME NEW k \in 0 .. n
      PROVE  (IF k = 0 THEN s ELSE H[k - 1][f[k - 1]]) = JoinTurn(s, t, f, k)
  <2>1. CASE k = 0
    BY <2>1 DEF JoinTurn
  <2>2. CASE k # 0
    <3>1. PICK j : j = k - 1
      OBVIOUS
    <3>2. j \in 0 .. n - 1 /\ j \in 0 .. n /\ j + 1 = k
      BY <1>1, <2>2, <3>1
    <3>3. f[j] \in Ok[j]
      BY <1>5, <3>2
    <3>4. H[j][f[j]] = IF Contains(f[j], t[k]) THEN f[j] ELSE Append(f[j], t[k])
      BY ONLY <1>3, <3>2, <3>3
    <3>5. QED
      BY ONLY <2>2, <3>1, <3>4 DEF JoinTurn
  <2>3. QED
    BY <2>1, <2>2
<1>7. \E g : g = [k \in 0 .. Len(t) |-> JoinTurn(s, t, g, k)]
  <2>1. f = [k \in 0 .. n |-> JoinTurn(s, t, f, k)]
    BY <1>5, <1>6
  <2>2. QED
    BY <2>1
<1>8. PICK g : g = [k \in 0 .. Len(t) |-> JoinTurn(s, t, g, k)] /\ WithNew(s, t) = g[Len(t)]
  BY <1>7 DEF WithNew, JoinTurn
<1>9. g[0] = s
  BY <1>1, <1>8 DEF JoinTurn
<1>10. ASSUME NEW k \in 0 .. n - 1, g[k] \in Ok[k]
       PROVE  g[k + 1] = AppendNew(g[k], t[k + 1]) /\ g[k + 1] \in Ok[k + 1]
  <2>1. k + 1 \in 0 .. Len(t) /\ k + 1 # 0 /\ (k + 1) - 1 = k
    BY <1>1
  <2>2. g[k + 1] = IF Contains(g[k], t[k + 1]) THEN g[k] ELSE Append(g[k], t[k + 1])
    BY <1>8, <2>1 DEF JoinTurn
  <2>3. QED
    BY ONLY <1>3, <1>10, <2>2
<1>11. \A k \in 0 .. n : g[k] \in Ok[k]
  <2>1. g[0] \in Ok[0]
    BY ONLY <1>2, <1>9
  <2> HIDE DEF n, Ok
  <2>2. QED
    BY ONLY <1>1, <1>10, <2>1, LoopInvariant
<1>12. \A k \in 0 .. n - 1 : g[k + 1] = AppendNew(g[k], t[k + 1])
  <2>1. \A k \in 0 .. n - 1 : k \in 0 .. n
    BY <1>1
  <2>2. QED
    BY ONLY <1>10, <1>11, <2>1
<1>13. QED
  BY <1>8, <1>9, <1>11, <1>12 DEF IsJoining

LEMMA WithNewProperties ==
  ASSUME NEW S, NEW s \in Seq(S), NEW t \in Seq(S)
  PROVE  WithNew(s, t) \in Seq(S) /\ Range(WithNew(s, t)) = Range(s) \cup Range(t)
         /\ (IsInjective(s) => IsInjective(WithNew(s, t)))
<1>1. PICK g : IsJoining(S, s, t, g) /\ WithNew(s, t) = g[Len(t)]
  BY WithNewDef
<1>2. WithNew(s, t) \in Joined(S, s, t, Len(t))
  <2>1. Len(t) \in 0 .. Len(t)
    BY LenProperties
  <2>2. QED
    BY <1>1, <2>1 DEF IsJoining
<1>3. Range(t) = {t[j] : j \in 1 .. Len(t)}
  BY LenProperties DEF Range
<1>4. QED
  BY <1>2, <1>3 DEF Joined

(* The state of the page as far as the types go.                           *)
PageTypes ==
  /\ categories \in Seq(CategoryIds) /\ entries \subseteq CategoryIds
  /\ model \in [CategoryIds -> RowModels(Results)] /\ registered \subseteq CategoryIds
  /\ categoryIndex \in Nat /\ results \in [CategoryIds -> Seq(Results)]
  /\ searching \in BOOLEAN

LEMMA ChunkProperties ==
  ASSUME NEW chunk \in Chunks
  PROVE  chunk \in Seq(Results)
<1>1. PICK n \in 0 .. MaxChunk : chunk \in [1 .. n -> Results]
  BY DEF Chunks, BoundedSeq, SeqOf
<1>2. n \in Nat
  BY CategoriesAssumption
<1>3. QED
  BY <1>1, <1>2

(* The results of category c in the chunk.                                 *)
Part(chunk, c) == Selected(chunk, {r \in Results : CategoryOf(r) = c})

LEMMA OrderProperties ==
  ASSUME NEW chunk \in Seq(Results)
  PROVE  /\ CategoriesOf(chunk) \in Seq(CategoryIds) /\ IsInjective(CategoriesOf(chunk))
         /\ \A c \in CategoryIds : Part(chunk, c) \in Seq(Results)
         /\ \A c \in CategoryIds : c \in Range(CategoriesOf(chunk)) <=> Part(chunk, c) # <<>>
<1>1. PICK n \in Nat : n = Len(chunk) /\ DOMAIN chunk = 1 .. n
  BY LenProperties
<1>2. \A r \in Results : CategoryOf(r) \in CategoryIds
  BY CategoriesAssumption DEF CategoryOf
<1>3. PICK ids \in Seq(CategoryIds) : ids = [i \in 1 .. Len(chunk) |-> CategoryOf(chunk[i])]
  <2>1. \A i \in 1 .. n : CategoryOf(chunk[i]) \in CategoryIds
    BY <1>1, <1>2, RangeProperties
  <2>2. [i \in 1 .. n |-> CategoryOf(chunk[i])] \in Seq(CategoryIds)
    BY <1>1, <2>1
  <2>3. QED
    BY <1>1, <2>2
<1>4. Len(ids) = n /\ \A i \in 1 .. n : ids[i] = CategoryOf(chunk[i])
  BY <1>1, <1>3
<1>5. PICK none \in Seq(CategoryIds) : none = <<>> /\ Range(none) = {} /\ IsInjective(none)
  BY EmptySequence
<1>6. PICK order : order = CategoriesOf(chunk)
  OBVIOUS
<1>7. order \in Seq(CategoryIds) /\ IsInjective(order) /\ Range(order) = Range(ids)
  <2>1. order = WithNew(none, ids)
    BY <1>3, <1>5, <1>6 DEF CategoriesOf
  <2>2. QED
    <3>1. /\ WithNew(none, ids) \in Seq(CategoryIds)
          /\ Range(WithNew(none, ids)) = Range(none) \cup Range(ids)
          /\ IsInjective(none) => IsInjective(WithNew(none, ids))
      BY ONLY none \in Seq(CategoryIds), ids \in Seq(CategoryIds), WithNewProperties
    <3>2. QED
      BY ONLY <1>5, <2>1, <3>1
<1>8. ASSUME NEW c \in CategoryIds
      PROVE  Part(chunk, c) \in Seq(Results) /\ (c \in Range(order) <=> Part(chunk, c) # <<>>)
  <2>1. PICK P : P = {r \in Results : CategoryOf(r) = c}
    OBVIOUS
  <2>2. PICK t \in Seq(Results) : t = Part(chunk, c) /\ Range(t) = Range(chunk) \cap P
    BY <2>1, SelectedProperties DEF Part
  <2>3. t # <<>> <=> \E i \in 1 .. n : chunk[i] \in P
    <3>1. t # <<>> <=> Range(t) # {}
      BY EmptySequence
    <3>2. Range(t) # {} <=> \E i \in 1 .. n : chunk[i] \in P
      BY <1>1, <2>2, RangeProperties
    <3>3. QED
      BY ONLY <3>1, <3>2
  <2>4. \A i \in 1 .. n : chunk[i] \in P <=> ids[i] = c
    BY <1>1, <1>4, <2>1, RangeProperties
  <2>5. c \in Range(order) <=> \E i \in 1 .. n : ids[i] = c
    <3>1. c \in Range(ids) <=> \E i \in 1 .. Len(ids) : ids[i] = c
      BY ONLY ids \in Seq(CategoryIds), RangeProperties
    <3>2. QED
      BY ONLY <1>4, <1>7, <3>1
  <2>6. c \in Range(order) <=> t # <<>>
    BY ONLY <2>3, <2>4, <2>5
  <2>7. QED
    BY ONLY <2>2, <2>6
<1>9. QED
  BY <1>6, <1>7, <1>8

LEMMA FilledProperties ==
  ASSUME PageTypes, NEW chunk \in Seq(Results)
  PROVE  LET p == Filled(chunk)
         IN  /\ p \in Pages
             /\ p.categories = categories /\ p.entries = entries /\ p.model = model
             /\ p.registered = registered /\ p.categoryIndex = categoryIndex
             /\ \A c \in CategoryIds : p.results[c] = results[c] \o Part(chunk, c)
<1>1. \A c \in CategoryIds : results[c] \o Part(chunk, c) \in Seq(Results)
  <2>1. \A c \in CategoryIds : results[c] \in Seq(Results) /\ Part(chunk, c) \in Seq(Results)
    BY OrderProperties DEF PageTypes
  <2>2. QED
    BY <2>1
<1>2. PICK lists \in [CategoryIds -> Seq(Results)] : lists = [c \in CategoryIds |-> results[c] \o Part(chunk, c)]
  BY <1>1
<1>3. PICK p : p = Filled(chunk)
  OBVIOUS
<1>4. p = [categories |-> categories, entries |-> entries, model |-> model,
           registered |-> registered, categoryIndex |-> categoryIndex, results |-> lists]
  BY <1>2, <1>3 DEF Filled, Part
<1>5. p \in Pages
  BY <1>2, <1>4 DEF Pages, PageTypes
<1>6. QED
  BY <1>2, <1>3, <1>4, <1>5

ShowTurn(chunk, order, g, i) == IF i = 0 THEN Filled(chunk) ELSE ShowCategory(g[i - 1], order[i])

(* An invariant of the loop of processResultSet() is established by it.    *)
LEMMA ProcessProperties ==
  ASSUME NEW chunk, NEW order, order = CategoriesOf(chunk), NEW n \in Nat, n = Len(order),
         NEW Ok \in [0 .. n -> SUBSET Pages], Filled(chunk) \in Ok[0],
         \A k \in 0 .. n - 1 : \A p \in Ok[k] : ShowCategory(p, order[k + 1]) \in Ok[k + 1]
  PROVE  ProcessResultSet(chunk) \in Ok[n]
<1> DEFINE V == Pages
           first == Filled(chunk)
           H == [k \in 0 .. n - 1 |-> [p \in V |-> ShowCategory(p, order[k + 1])]]
<1>1. ASSUME NEW k \in 0 .. n - 1, NEW p \in Ok[k]
      PROVE  H[k][p] = ShowCategory(p, order[k + 1]) /\ H[k][p] \in Ok[k + 1]
  <2>1. k \in 0 .. n
    OBVIOUS
  <2>2. Ok[k] \in SUBSET V
    BY <2>1
  <2>3. H[k][p] = ShowCategory(p, order[k + 1])
    BY <2>2
  <2>4. QED
    BY <2>3
<1>2. \E g : IsRun(n, Ok, first, H, g)
  <2>1. Ok \in [0 .. n -> SUBSET V] /\ first \in Ok[0]
    OBVIOUS
  <2>2. \A k \in 0 .. n - 1 : \A p \in Ok[k] : H[k][p] \in Ok[k + 1]
    BY ONLY <1>1
  <2> HIDE DEF H, V, first
  <2>3. IsLoop(V, n, Ok, first, H)
    BY <2>1, <2>2 DEF IsLoop
  <2>4. QED
    BY <2>3, LoopExists
<1>3. PICK f : /\ f = [k \in 0 .. n |-> IF k = 0 THEN first ELSE H[k - 1][f[k - 1]]]
               /\ \A k \in 0 .. n : f[k] \in Ok[k]
  BY <1>2 DEF IsRun
<1>4. ASSUME NEW k \in 0 .. n
      PROVE  (IF k = 0 THEN first ELSE H[k - 1][f[k - 1]]) = ShowTurn(chunk, order, f, k)
  <2>1. CASE k = 0
    BY <2>1 DEF ShowTurn
  <2>2. CASE k # 0
    <3>1. PICK j : j = k - 1
      OBVIOUS
    <3>2. j \in 0 .. n - 1 /\ j \in 0 .. n /\ j + 1 = k
      BY <2>2, <3>1
    <3>3. f[j] \in Ok[j]
      BY <1>3, <3>2
    <3>4. H[j][f[j]] = ShowCategory(f[j], order[k])
      BY ONLY <1>1, <3>2, <3>3
    <3>5. QED
      BY ONLY <2>2, <3>1, <3>4 DEF ShowTurn
  <2>3. QED
    BY <2>1, <2>2
<1>5. \E g : g = [k \in 0 .. Len(order) |-> ShowTurn(chunk, order, g, k)]
  <2>1. f = [k \in 0 .. n |-> ShowTurn(chunk, order, f, k)]
    BY <1>3, <1>4
  <2>2. QED
    BY <2>1
<1>6. PICK g : g = [k \in 0 .. Len(order) |-> ShowTurn(chunk, order, g, k)] /\ ProcessResultSet(chunk) = g[Len(order)]
  BY ONLY <1>5, order = CategoriesOf(chunk) DEF ProcessResultSet, ShowTurn
<1>7. g[0] \in Ok[0]
  <2>1. 0 \in 0 .. n
    OBVIOUS
  <2>2. g[0] = first
    BY <1>6, <2>1 DEF ShowTurn
  <2>3. QED
    BY <2>2
<1>8. ASSUME NEW k \in 0 .. n - 1, g[k] \in Ok[k] PROVE g[k + 1] \in Ok[k + 1]
  <2>1. k + 1 \in 0 .. n /\ k + 1 # 0 /\ (k + 1) - 1 = k
    OBVIOUS
  <2>2. g[k + 1] = ShowCategory(g[k], order[k + 1])
    BY <1>6, <2>1 DEF ShowTurn
  <2>3. QED
    BY ONLY <1>1, <1>8, <2>2
<1>9. \A k \in 0 .. n : g[k] \in Ok[k]
  BY ONLY n \in Nat, <1>7, <1>8, LoopInvariant
<1>10. QED
  BY <1>6, <1>9

-----------------------------------------------------------------------------
(* Categories: a flush.                                                    *)

(* The page as it is.                                                      *)
Now ==
  [categories |-> categories, entries |-> entries, model |-> model,
   registered |-> registered, categoryIndex |-> categoryIndex, results |-> results]

ShowsAll(p, s) ==
  /\ p \in Pages /\ InOrder(p, s) /\ KeepsLast(p, s) /\ p.entries = Range(p.categories)
  /\ \A c \in CategoryIds : CategoryShown(p, s, c, p.results[c])

(* The categories registered stand at the top of the page.  During a       *)
(* search they show its results and the others wait for theirs; afterwards *)
(* the others have no rows.                                                *)
PageInv ==
  /\ PageTypes /\ InOrder(Now, appeared) /\ entries = Range(categories)
  /\ searching =>
       KeepsLast(Now, appeared) /\ \A c \in CategoryIds : CategoryShown(Now, appeared, c, results[c])
  /\ ~searching =>
       /\ \A c \in CategoryIds : results[c] = <<>>
       /\ \A c \in Range(categories) : model[c].rows # <<>> <=> c \in Range(appeared)

(* Category c is one of those whose turn comes after the first k.          *)
Pending(order, k, c) == \E i \in k + 1 .. Len(order) : order[i] = c

(* The pages there can be after k turns, when those of s are registered:   *)
(* pending categories show what they did before the chunk came.            *)
Between(chunk, order, s, k) ==
  {p \in Pages :
     /\ InOrder(p, s) /\ KeepsLast(p, s) /\ p.entries = Range(p.categories)
     /\ \A c \in CategoryIds :
          /\ CategoryShown(p, s, c, IF Pending(order, k, c) THEN results[c] ELSE p.results[c])
          /\ Pending(order, k, c) => p.results[c] = results[c] \o Part(chunk, c)}

LEMMA BetweenStep ==
  ASSUME FewCategories, PageTypes, NEW chunk \in Seq(Results), NEW order, order = CategoriesOf(chunk),
         NEW k \in 0 .. Len(order) - 1, NEW s, NEW p \in Between(chunk, order, s, k)
  PROVE  ShowCategory(p, order[k + 1]) \in Between(chunk, order, AppendNew(s, order[k + 1]), k + 1)
<1>1. /\ order \in Seq(CategoryIds) /\ IsInjective(order)
      /\ \A c \in CategoryIds : Part(chunk, c) \in Seq(Results) /\ (c \in Range(order) => Part(chunk, c) # <<>>)
  BY OrderProperties
<1>2. PICK n \in Nat : n = Len(order)
  BY <1>1, LenProperties
<1>3. PICK next \in Nat : next = k + 1 /\ next \in 1 .. n
  BY <1>2
<1>4. PICK c \in CategoryIds : c = order[next] /\ c \in Range(order)
  BY <1>1, <1>2, <1>3, RangeProperties
<1>5. PICK extra \in Seq(Results) : extra = Part(chunk, c) /\ extra # <<>>
  BY <1>1, <1>4
<1>6. /\ p \in Pages /\ InOrder(p, s) /\ KeepsLast(p, s) /\ p.entries = Range(p.categories)
      /\ \A d \in CategoryIds :
           /\ CategoryShown(p, s, d, IF Pending(order, k, d) THEN results[d] ELSE p.results[d])
           /\ Pending(order, k, d) => p.results[d] = results[d] \o Part(chunk, d)
  BY DEF Between
<1>7. /\ Pending(order, k, c) /\ ~Pending(order, next, c)
      /\ \A d \in CategoryIds \ {c} : Pending(order, k, d) <=> Pending(order, next, d)
  <2>1. \A i, j \in 1 .. n : order[i] = order[j] => i = j
    BY <1>1, <1>2, RangeProperties
  <2>2. Pending(order, k, c)
    BY <1>2, <1>3, <1>4 DEF Pending
  <2>3. ~Pending(order, next, c)
    <3>1. SUFFICES ASSUME NEW i \in next + 1 .. n, order[i] = c PROVE FALSE
      BY <1>2 DEF Pending
    <3>2. i \in 1 .. n /\ i # next
      BY <1>3
    <3>3. QED
      BY <1>3, <1>4, <2>1, <3>1, <3>2
  <2>4. ASSUME NEW d \in CategoryIds \ {c} PROVE Pending(order, k, d) <=> Pending(order, next, d)
    <3>1. \A i : i \in k + 1 .. n <=> i = next \/ i \in next + 1 .. n
      BY <1>2, <1>3
    <3>2. order[next] # d
      BY <1>4
    <3>3. QED
      BY <1>2, <3>1, <3>2 DEF Pending
  <2>5. QED
    BY <2>2, <2>3, <2>4
<1>8. PICK lists \in [CategoryIds -> Seq(Results)] :
        \A d \in CategoryIds : lists[d] = IF Pending(order, k, d) THEN results[d] ELSE p.results[d]
  <2>1. \A d \in CategoryIds : results[d] \in Seq(Results) /\ p.results[d] \in Seq(Results)
    BY <1>6, PageFields DEF PageTypes
  <2>2. \A d \in CategoryIds : (IF Pending(order, k, d) THEN results[d] ELSE p.results[d]) \in Seq(Results)
    BY ONLY <2>1
  <2>3. PICK lists : lists = [d \in CategoryIds |-> IF Pending(order, k, d) THEN results[d] ELSE p.results[d]]
    OBVIOUS
  <2>4. lists \in [CategoryIds -> Seq(Results)]
    BY ONLY <2>2, <2>3
  <2>5. QED
    BY ONLY <2>3, <2>4
<1>9. p.results[c] = lists[c] \o extra
  BY <1>5, <1>6, <1>7, <1>8
<1>10. \A d \in CategoryIds : CategoryShown(p, s, d, lists[d])
  BY ONLY <1>6, <1>8
<1>11. PICK q : q = ShowCategory(p, c)
  OBVIOUS
<1>12. Turned(p, s, lists, c, q)
  BY <1>5, <1>6, <1>9, <1>10, <1>11, TurnProperties
<1>13. PICK b : b = AppendNew(s, c)
  OBVIOUS
<1>14. /\ q \in Pages /\ InOrder(q, b) /\ KeepsLast(q, b) /\ q.entries = Range(q.categories)
       /\ \A d \in CategoryIds \ {c} : q.results[d] = p.results[d] /\ CategoryShown(q, b, d, lists[d])
       /\ CategoryShown(q, b, c, q.results[c])
  BY ONLY <1>12, <1>13 DEF Turned
<1>15. ASSUME NEW d \in CategoryIds
       PROVE  /\ CategoryShown(q, b, d, IF Pending(order, next, d) THEN results[d] ELSE q.results[d])
              /\ Pending(order, next, d) => q.results[d] = results[d] \o Part(chunk, d)
  <2>1. CASE d = c
    BY ONLY <1>7, <1>14, <2>1
  <2>2. CASE d # c
    <3>1. d \in CategoryIds \ {c}
      BY <2>2
    <3>2. q.results[d] = p.results[d] /\ CategoryShown(q, b, d, lists[d])
      BY ONLY <1>14, <3>1
    <3>3. Pending(order, next, d) <=> Pending(order, k, d)
      BY ONLY <1>7, <3>1
    <3>4. lists[d] = IF Pending(order, next, d) THEN results[d] ELSE q.results[d]
      BY ONLY <1>8, <3>2, <3>3, d \in CategoryIds
    <3>5. Pending(order, k, d) => p.results[d] = results[d] \o Part(chunk, d)
      BY ONLY <1>6, d \in CategoryIds
    <3>6. QED
      BY ONLY <3>2, <3>3, <3>4, <3>5
  <2>3. QED
    BY ONLY <2>1, <2>2
<1>16. q \in Between(chunk, order, b, next)
  BY ONLY <1>14, <1>15 DEF Between
<1>17. QED
  BY ONLY <1>3, <1>4, <1>11, <1>13, <1>16

LEMMA ProcessShows ==
  ASSUME FewCategories, PageInv, searching, NEW chunk \in Seq(Results)
  PROVE  ShowsAll(ProcessResultSet(chunk), WithNew(appeared, CategoriesOf(chunk)))
<1>1. PICK order : order = CategoriesOf(chunk)
  OBVIOUS
<1>2. /\ order \in Seq(CategoryIds)
      /\ \A c \in CategoryIds : Part(chunk, c) \in Seq(Results) /\ (c \notin Range(order) => Part(chunk, c) = <<>>)
  BY <1>1, OrderProperties
<1>3. PICK n \in Nat : n = Len(order)
  BY <1>2, LenProperties
<1>4. appeared \in Seq(CategoryIds) /\ PageTypes
  BY DEF PageInv, InOrder
<1>5. PICK g : IsJoining(CategoryIds, appeared, order, g) /\ WithNew(appeared, order) = g[n]
  BY <1>2, <1>3, <1>4, WithNewDef
<1>6. g[0] = appeared /\ \A k \in 0 .. n - 1 : g[k + 1] = AppendNew(g[k], order[k + 1])
  BY <1>3, <1>5 DEF IsJoining
<1>7. PICK Ok \in [0 .. n -> SUBSET Pages] : \A k \in 0 .. n : Ok[k] = Between(chunk, order, g[k], k)
  <2>1. \A k : Between(chunk, order, g[k], k) \in SUBSET Pages
    BY DEF Between
  <2>2. PICK Ok : Ok = [k \in 0 .. n |-> Between(chunk, order, g[k], k)]
    OBVIOUS
  <2>3. Ok \in [0 .. n -> SUBSET Pages]
    BY ONLY <2>1, <2>2
  <2>4. QED
    BY ONLY <2>2, <2>3
<1>8. Filled(chunk) \in Ok[0]
  <2>1. PICK p : p = Filled(chunk)
    OBVIOUS
  <2>2. /\ p \in Pages
        /\ p.categories = categories /\ p.entries = entries /\ p.model = model
        /\ p.registered = registered /\ p.categoryIndex = categoryIndex
        /\ \A c \in CategoryIds : p.results[c] = results[c] \o Part(chunk, c)
    BY <1>4, <2>1, FilledProperties
  <2>3. InOrder(p, appeared) /\ KeepsLast(p, appeared) /\ p.entries = Range(p.categories)
    BY <2>2 DEF PageInv, InOrder, KeepsLast, Now
  <2>4. ASSUME NEW c \in CategoryIds
        PROVE  CategoryShown(p, appeared, c, IF Pending(order, 0, c) THEN results[c] ELSE p.results[c])
    <3>1. CategoryShown(Now, appeared, c, results[c])
      BY DEF PageInv
    <3>2. CategoryShown(p, appeared, c, results[c])
      BY <2>2, <3>1 DEF CategoryShown, Now
    <3>3. ~Pending(order, 0, c) => p.results[c] = results[c]
      <4>1. SUFFICES ASSUME ~Pending(order, 0, c) PROVE p.results[c] = results[c]
        OBVIOUS
      <4>2. c \notin Range(order)
        BY <1>2, <4>1, RangeProperties DEF Pending
      <4>3. Part(chunk, c) = <<>> /\ results[c] \in Seq(Results)
        BY <1>2, <1>4, <4>2 DEF PageTypes
      <4>4. PICK list \in Seq(Results) : list = results[c] /\ list \o <<>> = list
        BY <4>3
      <4>5. QED
        BY ONLY <2>2, <4>3, <4>4, c \in CategoryIds
    <3>4. QED
      BY ONLY <3>2, <3>3
  <2>5. p \in Between(chunk, order, appeared, 0)
    BY ONLY <2>2, <2>3, <2>4 DEF Between
  <2>6. 0 \in 0 .. n
    OBVIOUS
  <2>7. QED
    BY ONLY <1>6, <1>7, <2>1, <2>5, <2>6
<1>9. ASSUME NEW k \in 0 .. n - 1, NEW p \in Ok[k] PROVE ShowCategory(p, order[k + 1]) \in Ok[k + 1]
  <2>1. k \in 0 .. n /\ k + 1 \in 0 .. n /\ k \in 0 .. Len(order) - 1
    BY <1>3
  <2>2. p \in Between(chunk, order, g[k], k)
    BY ONLY <1>7, <1>9, <2>1
  <2>3. ShowCategory(p, order[k + 1]) \in Between(chunk, order, AppendNew(g[k], order[k + 1]), k + 1)
    BY <1>1, <1>4, <2>1, <2>2, BetweenStep
  <2>4. QED
    BY ONLY <1>6, <1>7, <1>9, <2>1, <2>3
<1>10. PICK q : q = ProcessResultSet(chunk)
  OBVIOUS
<1>11. q \in Between(chunk, order, g[n], n)
  <2>1. q \in Ok[n]
    BY ONLY <1>1, <1>3, <1>7, <1>8, <1>9, <1>10, ProcessProperties
  <2>2. n \in 0 .. n
    OBVIOUS
  <2>3. QED
    BY ONLY <1>7, <2>1, <2>2
<1>12. \A c \in CategoryIds : ~Pending(order, n, c)
  BY <1>3 DEF Pending
<1>13. ShowsAll(q, g[n])
  BY ONLY <1>11, <1>12 DEF ShowsAll, Between
<1>14. QED
  BY ONLY <1>1, <1>5, <1>10, <1>13

LEMMA PageStart == Init => PageInv
<1>1. SUFFICES ASSUME Init PROVE PageInv
  OBVIOUS
<1>2. PICK none \in RowModels(Results) : none = EmptyModel(0)
  BY EmptyModelProperties
<1>3. PICK nobody \in Seq(CategoryIds), nothing \in Seq(Results) : nobody = <<>> /\ nothing = <<>>
  BY EmptySequence
<1>4. Range(nobody) = {} /\ IsInjective(nobody) /\ Len(nobody) = 0
  BY <1>3, EmptySequence
<1>5. PageTypes
  BY <1>1, <1>2, <1>3 DEF Init, PageTypes
<1>6. AtTop(nobody, nobody)
  BY <1>4 DEF AtTop
<1>7. InOrder(Now, appeared)
  BY <1>1, <1>3, <1>4, <1>6 DEF Init, InOrder, Now
<1>8. /\ entries = Range(categories) /\ searching = FALSE /\ Range(categories) = {}
      /\ \A c \in CategoryIds : results[c] = <<>>
  BY <1>1, <1>3, <1>4 DEF Init
<1>9. QED
  BY <1>5, <1>7, <1>8 DEF PageInv

LEMMA MarkProperties ==
  ASSUME NEW m \in RowModels(Results)
  PROVE  MarkNewSearch(m) \in RowModels(Results) /\ NothingYet(MarkNewSearch(m))
<1>1. PICK map \in ResultMaps(Results) : map = EmptyMap
  BY MapsProperties
<1>2. PICK w : w = MarkNewSearch(m)
  OBVIOUS
<1>3. w = [m EXCEPT !.purge = TRUE, !.last = 0, !.new = map]
  BY <1>1, <1>2 DEF MarkNewSearch
<1>4. w \in RowModels(Results) /\ w.purge = TRUE /\ w.last = 0 /\ w.new = map
  BY <1>3 DEF RowModels
<1>5. QED
  BY <1>1, <1>2, <1>4 DEF NothingYet

LEMMA NewSearchInv == PageInv /\ NewSearch => PageInv'
<1>1. SUFFICES ASSUME PageInv, NewSearch PROVE PageInv'
  OBVIOUS
<1>2. /\ PageTypes /\ entries = Range(categories) /\ IsInjective(categories)
  BY <1>1 DEF PageInv, InOrder, Now
<1>3. PICK nobody \in Seq(CategoryIds), nothing \in Seq(Results) : nobody = <<>> /\ nothing = <<>>
  BY EmptySequence
<1>4. Range(nobody) = {} /\ IsInjective(nobody) /\ Len(nobody) = 0
  BY <1>3, EmptySequence
<1>5. /\ searching' = TRUE /\ registered' = {} /\ categoryIndex' = 0 /\ appeared' = nobody
      /\ results' = [c \in CategoryIds |-> nothing] /\ categories' = categories /\ entries' = entries
      /\ model' = [c \in CategoryIds |-> IF c \in entries THEN MarkNewSearch(model[c]) ELSE model[c]]
  BY <1>1, <1>3 DEF NewSearch
<1>6. \A c \in CategoryIds : model[c] \in RowModels(Results)
  BY <1>2 DEF PageTypes
<1>7. model' \in [CategoryIds -> RowModels(Results)]
  BY <1>5, <1>6, MarkProperties
<1>8. PageTypes'
  BY <1>2, <1>3, <1>5, <1>7 DEF PageTypes
<1>9. AtTop(nobody, categories)
  BY <1>2, <1>4, LenProperties DEF AtTop, PageTypes
<1>10. InOrder(Now, appeared)'
  BY <1>2, <1>3, <1>4, <1>5, <1>9 DEF InOrder, Now
<1>11. ASSUME NEW c \in CategoryIds PROVE CategoryShown(Now, appeared, c, results[c])'
  <2>1. results'[c] = <<>> /\ c \notin Range(nobody)
    BY <1>3, <1>4, <1>5
  <2>2. c \in Range(categories) => NothingYet(model'[c])
    BY <1>2, <1>5, <1>6, MarkProperties
  <2>3. QED
    BY <1>5, <2>1, <2>2 DEF CategoryShown, Now
<1>12. KeepsLast(Now, appeared)'
  BY <1>3, <1>5 DEF KeepsLast
<1>13. QED
  BY <1>2, <1>5, <1>8, <1>10, <1>11, <1>12 DEF PageInv

LEMMA FlushInv ==
  ASSUME FewCategories, PageInv, NEW chunk \in Chunks, Flush(chunk)
  PROVE  PageInv'
<1>1. PICK p : p = ProcessResultSet(chunk)
  OBVIOUS
<1>2. chunk \in Seq(Results) /\ searching
  BY ChunkProperties DEF Flush
<1>3. ShowsAll(p, appeared')
  BY <1>1, <1>2, ProcessShows DEF Flush, NoteCategories
<1>4. /\ categories' = p.categories /\ entries' = p.entries /\ registered' = p.registered
      /\ categoryIndex' = p.categoryIndex /\ model' = p.model /\ results' = p.results /\ searching' = searching
  BY <1>1 DEF Flush, SetPage
<1>5. p \in Pages /\ Now' = p
  BY <1>3, <1>4, PageFields DEF ShowsAll, Now
<1>6. PageTypes'
  BY <1>2, <1>4, <1>5, PageFields DEF PageTypes, PageInv
<1>7. InOrder(Now', appeared') /\ KeepsLast(Now', appeared') /\ entries' = Range(categories')
  BY <1>3, <1>4, <1>5 DEF ShowsAll
<1>8. \A c \in CategoryIds : CategoryShown(Now', appeared', c, results'[c])
  BY <1>3, <1>4, <1>5 DEF ShowsAll
<1>9. QED
  BY <1>2, <1>4, <1>6, <1>7, <1>8 DEF PageInv

LEMMA LastFlushInv ==
  ASSUME FewCategories, PageInv, NEW chunk \in Chunks, LastFlush(chunk)
  PROVE  PageInv'
<1>1. PICK p : p = ProcessResultSet(chunk)
  OBVIOUS
<1>2. chunk \in Seq(Results) /\ searching
  BY ChunkProperties DEF LastFlush
<1>3. ShowsAll(p, appeared')
  BY <1>1, <1>2, ProcessShows DEF LastFlush, NoteCategories
<1>4. PICK nothing \in Seq(Results) : nothing = <<>>
  BY EmptySequence
<1>5. /\ categories' = p.categories /\ entries' = p.entries /\ registered' = p.registered
      /\ categoryIndex' = p.categoryIndex /\ model' = PurgeResults(p)
      /\ results' = [c \in CategoryIds |-> nothing] /\ searching' = FALSE
  BY <1>1, <1>4 DEF LastFlush, SetPage
<1>6. /\ p \in Pages /\ InOrder(p, appeared') /\ p.entries = Range(p.categories)
      /\ \A c \in CategoryIds : CategoryShown(p, appeared', c, p.results[c])
  BY <1>3 DEF ShowsAll
<1>7. \A c \in CategoryIds : p.model[c] \in RowModels(Results)
  BY <1>6, PageFields
<1>8. \A c \in CategoryIds : model'[c] = IF c \in p.entries THEN PurgeModel(p.model[c]) ELSE p.model[c]
  BY <1>5 DEF PurgeResults
<1>9. model' \in [CategoryIds -> RowModels(Results)]
  <2>1. \A c \in CategoryIds : PurgeModel(p.model[c]) \in RowModels(Results)
    BY <1>7, PurgeProperties
  <2>2. QED
    BY <1>5, <1>7, <2>1 DEF PurgeResults
<1>10. PageTypes'
  BY <1>4, <1>5, <1>6, <1>9, PageFields DEF PageTypes
<1>11. InOrder(Now, appeared)'
  BY <1>5, <1>6 DEF InOrder, Now
<1>12. ASSUME NEW c \in Range(categories') PROVE model'[c].rows # <<>> <=> c \in Range(appeared')
  <2>1. c \in CategoryIds /\ c \in p.entries /\ c \in Range(p.categories)
    BY <1>5, <1>6, <1>12, PageFields
  <2>2. PICK m \in RowModels(Results) : m = p.model[c] /\ model'[c] = PurgeModel(m)
    BY <1>7, <1>8, <2>1
  <2>3. CategoryShown(p, appeared', c, p.results[c])
    BY <1>6, <2>1
  <2>4. CASE c \in Range(appeared')
    <3>1. ~m.purge /\ m.rows # <<>>
      BY <2>2, <2>3, <2>4 DEF CategoryShown, Shows
    <3>2. model'[c] = m
      BY <2>2, <3>1, PurgeProperties
    <3>3. QED
      BY <2>4, <3>1, <3>2
  <2>5. CASE c \notin Range(appeared')
    <3>1. m.purge
      BY <2>1, <2>2, <2>3, <2>5 DEF CategoryShown, NothingYet
    <3>2. model'[c].rows = <<>>
      BY <2>2, <3>1, PurgeProperties
    <3>3. QED
      BY <2>5, <3>2
  <2>6. QED
    BY <2>4, <2>5
<1>13. \A c \in CategoryIds : results'[c] = <<>>
  BY <1>4, <1>5
<1>14. QED
  BY <1>5, <1>6, <1>10, <1>11, <1>12, <1>13 DEF PageInv

LEMMA PageStep ==
  ASSUME FewCategories
  PROVE  PageInv /\ [Next]_vars => PageInv'
<1>1. SUFFICES ASSUME PageInv, [Next]_vars PROVE PageInv'
  OBVIOUS
<1>2. CASE NewSearch
  BY <1>1, <1>2, NewSearchInv
<1>3. ASSUME NEW chunk \in Chunks, Flush(chunk) PROVE PageInv'
  BY <1>1, <1>3, FlushInv
<1>4. ASSUME NEW chunk \in Chunks, LastFlush(chunk) PROVE PageInv'
  BY <1>1, <1>4, LastFlushInv
<1>5. CASE UNCHANGED vars
  <2>1. Now' = Now
    BY <1>5 DEF vars, pageVars, Now
  <2>2. QED
    BY <1>1, <1>5, <2>1 DEF vars, pageVars, PageInv, PageTypes
<1>6. QED
  BY <1>1, <1>2, <1>3, <1>4, <1>5 DEF Next

LEMMA PageHolds == PageInv => PageShowsSearch
<1>1. SUFFICES ASSUME PageInv PROVE PageShowsSearch
  OBVIOUS
<1>2. /\ PageTypes /\ entries = Range(categories) /\ IsInjective(categories)
      /\ appeared \in Seq(CategoryIds) /\ categoryIndex = Len(appeared) /\ AtTop(appeared, categories)
  BY <1>1 DEF PageInv, InOrder, Now
<1>3. PICK k \in Nat, n \in Nat : k = Len(appeared) /\ n = Len(categories) /\ k <= n
  BY <1>2, LenProperties DEF AtTop, PageTypes
<1>4. TypeOK
  <2>1. \A c \in CategoryIds : model[c].rows \in Seq(Results) /\ model[c].last \in Nat
    BY <1>2, RowModelFields DEF PageTypes
  <2>2. categoryIndex \in 0 .. Len(categories)
    BY <1>2, <1>3
  <2>3. QED
    BY <1>2, <2>1, <2>2 DEF TypeOK, PageTypes
<1>5. EntriesAreRows
  BY <1>2, <1>4 DEF EntriesAreRows, ToSet, Range
<1>6. TopOfPage
  <2>1. SubSeq(appeared, 1, k) = SubSeq(categories, 1, k)
    BY <1>2, <1>3 DEF AtTop, PageTypes
  <2>2. QED
    BY <1>2, <1>3, <2>1 DEF TopOfPage, IsPrefix
<1>7. NothingHidden
  <2>1. SUFFICES ASSUME NEW c \in CategoryIds, results[c] # <<>>
                 PROVE  Contains(categories, c) /\ model[c].rows = results[c]
    BY DEF NothingHidden
  <2>2. CategoryShown(Now, appeared, c, results[c])
    BY <1>1, <1>2, <2>1 DEF PageInv, PageTypes
  <2>3. c \in Range(appeared) /\ model[c].rows = results[c]
    BY <2>1, <2>2 DEF CategoryShown, Now
  <2>4. c \in Range(categories)
    BY <1>2, <2>3, AtTopRange DEF PageTypes
  <2>5. QED
    BY <1>2, <2>3, <2>4, ContainsRange DEF PageTypes
<1>8. EndedShowsOnlyItsOwn
  <2>1. SUFFICES ASSUME ~searching, NEW c \in ToSet(categories)
                 PROVE  model[c].rows # <<>> <=> Contains(appeared, c)
    BY DEF EndedShowsOnlyItsOwn
  <2>2. c \in Range(categories)
    BY <2>1 DEF ToSet, Range
  <2>3. QED
    BY <1>1, <1>2, <2>1, <2>2, ContainsRange DEF PageInv
<1>9. QED
  BY <1>5, <1>6, <1>7, <1>8 DEF PageShowsSearch

(* The page has the categories it has rows for, those of the search stand  *)
(* at its top and show all that it returned, and when it has ended there   *)
(* is nothing else, for any results, searches and flushes, as long as      *)
(* there are not more categories than the page has room for                *)
(* (categories.cpp:307-407, 446-469).                                      *)
THEOREM PageShowsSearchAlways ==
  ASSUME FewCategories
  PROVE  Spec => []PageShowsSearch
<1>1. PageInv => PageShowsSearch
  BY PageHolds
<1>2. PageInv /\ [Next]_vars => PageInv'
  BY PageStep
<1>3. QED
  BY <1>1, <1>2, PageStart, PTL DEF Spec

-----------------------------------------------------------------------------
(* The departments of a page.                                              *)

(* A function on a part of a tree that is what G makes of the values below: *)
(* kids are the ids that an id depends on.                                 *)
Coherent(D, V, kids, G, E, p) ==
  /\ E \in SUBSET D /\ p \in [E -> V]
  /\ \A id \in E : kids[id] \subseteq E /\ p[id] = G[<<id, {p[kid] : kid \in kids[id]}>>]
ValueAt(D, V, kids, G, id, v) == \E E, p : Coherent(D, V, kids, G, E, p) /\ id \in E /\ v = p[id]

LEMMA CoherentAgree ==
  ASSUME NEW D, NEW V, NEW kids \in [D -> SUBSET D], NEW G,
         \A S \in SUBSET D : S # {} => \E id \in S : kids[id] \cap S = {},
         NEW E, NEW F, NEW p, NEW q, Coherent(D, V, kids, G, E, p), Coherent(D, V, kids, G, F, q)
  PROVE  \A id \in E \cap F : p[id] = q[id]
<1> DEFINE S == {id \in E \cap F : p[id] # q[id]}
<1>1. SUFFICES ASSUME S # {} PROVE FALSE
  OBVIOUS
<1>2. S \in SUBSET D
  BY DEF Coherent
<1>3. PICK id \in S : kids[id] \cap S = {}
  BY <1>1, <1>2
<1>4. kids[id] \subseteq E /\ kids[id] \subseteq F
  BY DEF Coherent
<1>5. \A kid \in kids[id] : p[kid] = q[kid]
  BY <1>3, <1>4
<1>6. {p[kid] : kid \in kids[id]} = {q[kid] : kid \in kids[id]}
  BY <1>5
<1>7. p[id] = G[<<id, {p[kid] : kid \in kids[id]}>>] /\ q[id] = G[<<id, {q[kid] : kid \in kids[id]}>>]
  BY DEF Coherent
<1> QED BY <1>6, <1>7

TreeShaped(D, V, kids, G) ==
  /\ kids \in [D -> SUBSET D] /\ G \in [D \X SUBSET V -> V]
  /\ \A S \in SUBSET D : S # {} => \E id \in S : kids[id] \cap S = {}
Defines(D, V, kids, G, f) ==
  f \in [D -> V] /\ \A id \in D : f[id] = G[<<id, {f[kid] : kid \in kids[id]}>>]

(* A recursive function on a tree exists, if every set has an id that      *)
(* depends on none of them.                                                *)
LEMMA TreeRecursion ==
  ASSUME NEW D, NEW V, NEW kids, NEW G, TreeShaped(D, V, kids, G)
  PROVE  \E f : Defines(D, V, kids, G, f)
<1>a. /\ kids \in [D -> SUBSET D] /\ G \in [D \X SUBSET V -> V]
      /\ \A S \in SUBSET D : S # {} => \E id \in S : kids[id] \cap S = {}
  BY DEF TreeShaped
<1> DEFINE Piece(E, p) == Coherent(D, V, kids, G, E, p)
           Holds(id, v) == ValueAt(D, V, kids, G, id, v)
<1>1. PICK Good : Good = {id \in D : \E v \in V : Holds(id, v)}
  OBVIOUS
<1>2. PICK f : f = [id \in D |-> CHOOSE v \in V : Holds(id, v)]
  OBVIOUS
<1>3. \A id \in Good : id \in D /\ f[id] \in V /\ Holds(id, f[id])
  BY <1>1, <1>2
<1>4. ASSUME NEW E, NEW p, Piece(E, p), NEW id \in E
      PROVE  id \in Good /\ f[id] = p[id]
  <2>1. p[id] \in V /\ id \in D /\ Holds(id, p[id])
    BY <1>4, <1>a DEF Coherent, ValueAt
  <2>2. id \in Good
    BY <1>1, <2>1
  <2>3. PICK F, q : Piece(F, q) /\ id \in F /\ f[id] = q[id]
    BY <1>3, <2>2 DEF ValueAt
  <2>4. \A x \in E \cap F : p[x] = q[x]
    <3>1. Coherent(D, V, kids, G, E, p) /\ Coherent(D, V, kids, G, F, q)
      BY <1>4, <2>3
    <3> QED BY ONLY <3>1, <1>a, CoherentAgree
  <2> QED BY <2>2, <2>3, <2>4
<1>5. ASSUME NEW id \in Good
      PROVE  kids[id] \subseteq Good /\ f[id] = G[<<id, {f[kid] : kid \in kids[id]}>>]
  <2>1. PICK E, p : Piece(E, p) /\ id \in E /\ f[id] = p[id]
    BY <1>3 DEF ValueAt
  <2>2. \A x \in E : x \in Good /\ f[x] = p[x]
    BY <1>4, <2>1
  <2>3. kids[id] \subseteq E /\ p[id] = G[<<id, {p[kid] : kid \in kids[id]}>>]
    BY <2>1 DEF Coherent
  <2>4. {p[kid] : kid \in kids[id]} = {f[kid] : kid \in kids[id]}
    BY <2>2, <2>3
  <2> QED BY <2>1, <2>2, <2>3, <2>4
<1>6. Good = D
  <2>1. SUFFICES ASSUME D \ Good # {} PROVE FALSE
    BY <1>3
  <2>2. PICK id \in D \ Good : kids[id] \cap (D \ Good) = {}
    BY <1>a, <2>1
  <2>3. kids[id] \subseteq Good /\ id \in D /\ id \notin Good
    BY <1>a, <2>2
  <2>4. PICK v : v = G[<<id, {f[kid] : kid \in kids[id]}>>]
    OBVIOUS
  <2>5. {f[kid] : kid \in kids[id]} \in SUBSET V
    BY <1>3, <2>3, <1>a
  <2>6. v \in V
    BY <1>a, <2>3, <2>4, <2>5
  <2>7. PICK E : E = Good \cup {id}
    OBVIOUS
  <2>8. PICK p : p = [x \in E |-> IF x = id THEN v ELSE f[x]]
    OBVIOUS
  <2>9. E \in SUBSET D /\ p \in [E -> V] /\ id \in E
    BY <1>3, <2>3, <2>6, <2>7, <2>8
  <2>10. ASSUME NEW x \in E PROVE kids[x] \subseteq E /\ p[x] = G[<<x, {p[kid] : kid \in kids[x]}>>]
    <3>1. kids[x] \subseteq Good
      BY <1>5, <2>3, <2>7
    <3>2. \A kid \in kids[x] : p[kid] = f[kid]
      BY <2>3, <2>7, <2>8, <3>1
    <3>3. {p[kid] : kid \in kids[x]} = {f[kid] : kid \in kids[x]}
      BY ONLY <3>2
    <3>4. p[x] = G[<<x, {f[kid] : kid \in kids[x]}>>]
      BY <1>5, <2>3, <2>4, <2>7, <2>8
    <3> QED BY <2>7, <3>1, <3>3, <3>4
  <2>11. Piece(E, p)
    BY <2>9, <2>10 DEF Coherent
  <2> QED BY <1>4, <2>3, <2>9, <2>11
<1>7. f \in [D -> V]
  BY <1>2, <1>3, <1>6
<1> QED BY <1>5, <1>6, <1>7 DEF Defines

(* Ancestors.                                                              *)

LEMMA AncestorsAre ==
  /\ \A id \in Ids : Ancestors[id] = {id} \cup (IF id = Root THEN {} ELSE Ancestors[Parent[id]])
  /\ \A id \in Ids : Ancestors[id] \subseteq Ids
<1> USE ParentAssumption
<1>v. PICK V : V = SUBSET Ids
  OBVIOUS
<1>u. PICK ups : ups = [id \in Ids |-> IF id = Root THEN {} ELSE {Parent[id]}]
  OBVIOUS
<1>g. PICK G : G = [q \in Ids \X SUBSET V |-> {q[1]} \cup UNION q[2]]
  OBVIOUS
<1>1. ups \in [Ids -> SUBSET Ids]
  BY <1>u
<1>2. G \in [Ids \X SUBSET V -> V]
  BY <1>v, <1>g
<1>3. ASSUME NEW S \in SUBSET Ids, S # {} PROVE \E id \in S : ups[id] \cap S = {}
  <2>1. CASE Root \in S
    BY <2>1, <1>u
  <2>2. CASE Root \notin S
    <3>1. S \in SUBSET (Ids \ {Root})
      BY <2>2
    <3>2. PICK id \in S : Parent[id] \notin S
      BY <1>3, <3>1
    <3> QED BY <3>1, <3>2, <1>u
  <2> QED BY <2>1, <2>2
<1>4. PICK f \in [Ids -> V] : \A id \in Ids : f[id] = G[<<id, {f[up] : up \in ups[id]}>>]
  <2>1. TreeShaped(Ids, V, ups, G)
    BY <1>1, <1>2, <1>3 DEF TreeShaped
  <2>2. PICK f : Defines(Ids, V, ups, G, f)
    BY <2>1, TreeRecursion
  <2> QED BY <2>2 DEF Defines
<1>5. ASSUME NEW id \in Ids PROVE f[id] = {id} \cup (IF id = Root THEN {} ELSE f[Parent[id]])
  <2>1. {f[up] : up \in ups[id]} \in SUBSET V
    BY <1>1
  <2>2. f[id] = {id} \cup UNION {f[up] : up \in ups[id]}
    BY <1>4, <1>g, <2>1
  <2>3. CASE id = Root
    BY <1>u, <2>2, <2>3
  <2>4. CASE id # Root
    <3>1. {f[up] : up \in ups[id]} = {f[Parent[id]]}
      BY <1>u, <2>4
    <3> QED BY <2>2, <2>4, <3>1
  <2> QED BY <2>3, <2>4
<1>6. f = [id \in Ids |-> {id} \cup (IF id = Root THEN {} ELSE f[Parent[id]])]
  BY <1>5
<1>7. Ancestors = [id \in Ids |-> {id} \cup (IF id = Root THEN {} ELSE Ancestors[Parent[id]])]
  <2> HIDE DEF Ids
  <2> QED BY <1>6 DEF Ancestors
<1>8. \A id \in Ids : Ancestors[id] = {id} \cup (IF id = Root THEN {} ELSE Ancestors[Parent[id]])
  BY <1>7
<1>9. \A id \in Ids : Ancestors[id] \subseteq Ids
  <2> DEFINE S == {id \in Ids : ~(Ancestors[id] \subseteq Ids)}
  <2>1. SUFFICES ASSUME S # {} PROVE FALSE
    OBVIOUS
  <2>2. S \in SUBSET (Ids \ {Root})
    BY <1>8
  <2>3. PICK id \in S : Parent[id] \notin S
    BY <2>1, <2>2
  <2>4. id # Root /\ Ancestors[Parent[id]] \subseteq Ids
    BY <2>2, <2>3
  <2>5. Ancestors[id] = {id} \cup Ancestors[Parent[id]]
    BY <1>8, <2>4
  <2> QED BY <2>4, <2>5
<1> QED BY <1>8, <1>9

LEMMA AncestorsOf ==
  /\ \A id \in Ids : id \in Ancestors[id] /\ Ancestors[id] \subseteq Ids
  /\ Ancestors[Root] = {Root}
  /\ \A id \in Ids : id # Root => Ancestors[id] = {id} \cup Ancestors[Parent[id]] /\ Parent[id] # id
<1>1. \A id \in Ids : id # Root => Parent[id] # id
  <2> SUFFICES ASSUME NEW id \in Ids, id # Root PROVE Parent[id] # id
    OBVIOUS
  <2>1. {id} \in SUBSET (Ids \ {Root}) /\ {id} # {}
    OBVIOUS
  <2>2. \E x \in {id} : Parent[x] \notin {id}
    BY ONLY <2>1, ParentAssumption
  <2> QED BY <2>2
<1> QED BY <1>1, AncestorsAre, ParentAssumption

LEMMA AncestorsTransitive ==
  ASSUME NEW a \in Ids, NEW b \in Ids, a \in Ancestors[b]
  PROVE  Ancestors[a] \subseteq Ancestors[b]
<1> USE ParentAssumption
<1> DEFINE S == {x \in Ids : a \in Ancestors[x] /\ ~(Ancestors[a] \subseteq Ancestors[x])}
<1>1. SUFFICES ASSUME S # {} PROVE FALSE
  OBVIOUS
<1>2. Root \notin S
  BY AncestorsOf
<1>3. S \in SUBSET (Ids \ {Root})
  BY <1>2
<1>4. PICK x \in S : Parent[x] \notin S
  BY <1>1, <1>3
<1>5. x \in Ids /\ x # Root /\ Parent[x] \in Ids /\ a \in Ancestors[x] /\ ~(Ancestors[a] \subseteq Ancestors[x])
  BY <1>2, <1>4
<1>6. Ancestors[x] = {x} \cup Ancestors[Parent[x]]
  BY <1>5, AncestorsOf
<1>7. a # x
  BY <1>5
<1>8. a \in Ancestors[Parent[x]]
  BY <1>5, <1>6, <1>7
<1>9. Ancestors[a] \subseteq Ancestors[Parent[x]]
  BY <1>4, <1>5, <1>8
<1> QED BY <1>5, <1>6, <1>9

LEMMA AncestorsAcyclic ==
  ASSUME NEW a \in Ids, NEW b \in Ids, a \in Ancestors[b], b \in Ancestors[a]
  PROVE  a = b
<1> USE ParentAssumption
<1> SUFFICES ASSUME a # b PROVE FALSE
  OBVIOUS
<1> DEFINE S == {x \in Ids : a \in Ancestors[x] /\ x \in Ancestors[a]}
<1>1. Root \notin S
  <2> SUFFICES ASSUME Root \in S PROVE FALSE
    OBVIOUS
  <2>1. a = Root
    BY AncestorsOf
  <2> QED BY <2>1, AncestorsOf
<1>2. S \in SUBSET (Ids \ {Root}) /\ a \in S
  BY <1>1, AncestorsOf
<1>3. PICK x \in S : Parent[x] \notin S
  BY <1>2
<1>4. x \in Ids /\ x # Root /\ Parent[x] \in Ids /\ a \in Ancestors[x] /\ x \in Ancestors[a]
  BY <1>1, <1>3
<1>5. Ancestors[x] = {x} \cup Ancestors[Parent[x]] /\ Parent[x] \in Ancestors[Parent[x]]
  BY <1>4, AncestorsOf
<1>6. Parent[x] \in Ancestors[a]
  BY <1>4, <1>5, AncestorsTransitive
<1>7. CASE x # a
  BY <1>3, <1>4, <1>5, <1>6, <1>7
<1>8. CASE x = a
  <2>1. b \in Ancestors[Parent[x]]
    BY <1>5, <1>8
  <2>2. a \in Ancestors[Parent[x]]
    BY <1>4, <2>1, AncestorsTransitive
  <2> QED BY <1>3, <1>4, <1>6, <2>2
<1> QED BY <1>7, <1>8

(* Trees.                                                                  *)

LEMMA TopUnique ==
  ASSUME NEW t, IsTree(t)
  PROVE  /\ TopOf(t) \in DOMAIN t /\ DOMAIN t \subseteq Ids
         /\ \A id \in DOMAIN t : t[id] = id <=> id = TopOf(t)
         /\ \A id \in DOMAIN t : id # TopOf(t) => t[id] = Parent[id] /\ Parent[id] \in DOMAIN t /\ Parent[id] # id
<1>1. PICK top \in DOMAIN t : \A id \in DOMAIN t : t[id] = id <=> id = top
  BY DEF IsTree
<1>2. TopOf(t) = top
  BY <1>1 DEF TopOf
<1> QED BY <1>1, <1>2 DEF IsTree

LEMMA RootIsTop ==
  ASSUME NEW t, IsTree(t), Root \in DOMAIN t
  PROVE  TopOf(t) = Root
<1>1. t[Root] \in {Root, Parent[Root]}
  BY DEF IsTree
<1> QED BY <1>1, TopUnique, ParentAssumption

LEMMA KidsOf ==
  ASSUME NEW t, IsTree(t), NEW id
  PROVE  /\ Kids(t, id) \subseteq DOMAIN t \ {TopOf(t)}
         /\ \A kid : kid \in Kids(t, id) <=> kid \in DOMAIN t /\ kid # TopOf(t) /\ Parent[kid] = id
         /\ \A kid \in Kids(t, id) : kid \in Ids /\ kid # id /\ kid # Root /\ id \in Ids /\ id \in DOMAIN t
<1>1. \A kid : kid \in Kids(t, id) <=> kid \in DOMAIN t /\ t[kid] = id /\ kid # id
  BY DEF Kids
<1>2. ASSUME NEW kid, kid \in Kids(t, id) PROVE kid \in DOMAIN t /\ kid # TopOf(t) /\ Parent[kid] = id
  BY <1>1, <1>2, TopUnique
<1>3. ASSUME NEW kid \in DOMAIN t, kid # TopOf(t), Parent[kid] = id PROVE kid \in Kids(t, id)
  BY <1>1, <1>3, TopUnique
<1>4. ASSUME NEW kid \in Kids(t, id) PROVE kid \in Ids /\ kid # id /\ kid # Root /\ id \in Ids /\ id \in DOMAIN t
  BY <1>1, <1>2, TopUnique, RootIsTop, ParentAssumption
<1> QED BY <1>2, <1>3, <1>4

(* From the top downwards: a set that has the top of a tree, and with      *)
(* each department its children, has them all.                             *)
LEMMA Downwards ==
  ASSUME NEW t, IsTree(t), NEW S, TopOf(t) \in S,
         \A id \in DOMAIN t : id # TopOf(t) /\ Parent[id] \in DOMAIN t /\ Parent[id] \in S => id \in S
  PROVE  DOMAIN t \subseteq S
<1> DEFINE B == DOMAIN t \ S
<1> SUFFICES ASSUME B # {} PROVE FALSE
  OBVIOUS
<1>1. Root \notin B
  BY RootIsTop
<1>2. B \in SUBSET (Ids \ {Root})
  BY <1>1, TopUnique
<1>3. PICK id \in B : Parent[id] \notin B
  BY <1>2, ParentAssumption
<1>4. id \in DOMAIN t /\ id # TopOf(t) /\ Parent[id] \in DOMAIN t
  BY <1>3, TopUnique
<1> QED BY <1>3, <1>4

LEMMA TopIsAbove ==
  ASSUME NEW t, IsTree(t)
  PROVE  \A id \in DOMAIN t : TopOf(t) \in Ancestors[id]
<1> DEFINE S == {id \in Ids : TopOf(t) \in Ancestors[id]}
<1>1. TopOf(t) \in S
  BY TopUnique, AncestorsOf
<1>2. ASSUME NEW id \in DOMAIN t, id # TopOf(t), Parent[id] \in DOMAIN t, Parent[id] \in S PROVE id \in S
  <2>1. id \in Ids /\ id # Root
    BY <1>2, TopUnique, RootIsTop
  <2> QED BY <1>2, <2>1, AncestorsOf
<1>3. DOMAIN t \subseteq S
  <2> HIDE DEF S
  <2> QED BY <1>1, <1>2, Downwards
<1> QED BY <1>3

LEMMA BelowIs ==
  ASSUME NEW t, IsTree(t), NEW id \in Ids
  PROVE  /\ \A n : n \in Below(t, id) <=> n \in DOMAIN t /\ n # id /\ id \in Ancestors[n]
         /\ \A n \in Below(t, id) : n \in Ids /\ n # Root
  BY TopUnique, AncestorsOf DEF Below

(* findUpdateNode().                                                       *)

(* What it finds for each department of the view.                          *)
Found(t, view, id, below) ==
  IF ~(Kids(view, id) \subseteq Kids(t, id)) \/ Cardinality(below) > 1 THEN id
  ELSE IF below # {} THEN CHOOSE n \in below : TRUE
  ELSE IF Kids(view, id) # Kids(t, id) /\ current = id THEN id
  ELSE None
MismatchOf(t, view, m) ==
  m = [id \in DOMAIN view |-> Found(t, view, id, {m[kid] : kid \in Kids(view, id)} \ {None})]

LEMMA MismatchExists ==
  ASSUME NEW t, NEW view, IsTree(view)
  PROVE  \E m : MismatchOf(t, view, m)
<1>d. PICK D : D = DOMAIN view
  OBVIOUS
<1>v. PICK V : V = Ids \cup {None}
  OBVIOUS
<1>k. PICK kids : kids = [id \in D |-> Kids(view, id)]
  OBVIOUS
<1>g. PICK G : G = [q \in D \X SUBSET V |-> Found(t, view, q[1], q[2] \ {None})]
  OBVIOUS
<1>1. kids \in [D -> SUBSET D]
  BY <1>d, <1>k, KidsOf
<1>2. G \in [D \X SUBSET V -> V]
  <2>1. \A id \in D, B \in SUBSET V : Found(t, view, id, B \ {None}) \in V
    BY <1>d, <1>v, TopUnique DEF Found
  <2> HIDE DEF Ids
  <2> QED BY <1>g, <2>1
<1>3. ASSUME NEW S \in SUBSET D, S # {} PROVE \E id \in S : kids[id] \cap S = {}
  <2>1. S \in SUBSET Ids
    BY <1>d, TopUnique
  <2>2. PICK id \in S : \A kid \in S \ {Root} : Parent[kid] # id
    BY <1>3, <2>1, ParentAssumption
  <2>3. \A kid \in Kids(view, id) : kid # Root /\ Parent[kid] = id
    BY KidsOf
  <2> QED BY <1>k, <2>2, <2>3
<1>4. TreeShaped(D, V, kids, G)
  BY <1>1, <1>2, <1>3 DEF TreeShaped
<1>5. PICK m : Defines(D, V, kids, G, m)
  BY <1>4, TreeRecursion
<1>6. m \in [D -> V] /\ \A id \in D : m[id] = G[<<id, {m[kid] : kid \in kids[id]}>>]
  BY <1>5 DEF Defines
<1>7. ASSUME NEW id \in D PROVE m[id] = Found(t, view, id, {m[kid] : kid \in Kids(view, id)} \ {None})
  <2>1. kids[id] = Kids(view, id) /\ kids[id] \subseteq D
    BY <1>1, <1>k
  <2>2. PICK B : B = {m[kid] : kid \in kids[id]}
    OBVIOUS
  <2>3. B \in SUBSET V
    BY <1>6, <2>1, <2>2
  <2>4. m[id] = G[<<id, B>>]
    BY <1>6, <2>2
  <2>5. m[id] = Found(t, view, id, B \ {None})
    BY <1>g, <2>3, <2>4
  <2> QED BY <2>1, <2>2, <2>5
<1>8. m = [id \in DOMAIN view |-> Found(t, view, id, {m[kid] : kid \in Kids(view, id)} \ {None})]
  BY <1>d, <1>6, <1>7
<1> QED BY <1>8 DEF MismatchOf

LEMMA MismatchTyped ==
  ASSUME NEW t, NEW view, IsTree(view), NEW m, MismatchOf(t, view, m)
  PROVE  m \in [DOMAIN view -> Ids \cup {None}]
<1>0. \A id \in DOMAIN view : m[id] = Found(t, view, id, {m[kid] : kid \in Kids(view, id)} \ {None})
  BY DEF MismatchOf
<1> DEFINE S == {id \in DOMAIN view : m[id] \notin Ids \cup {None}}
<1>1. S = {}
  <2> SUFFICES ASSUME S # {} PROVE FALSE
    OBVIOUS
  <2>1. S \in SUBSET Ids
    BY TopUnique
  <2>2. PICK id \in S : \A kid \in S \ {Root} : Parent[kid] # id
    BY <2>1, ParentAssumption
  <2>3. id \in DOMAIN view /\ id \in Ids /\ m[id] \notin Ids \cup {None}
    BY <2>1, <2>2
  <2>4. \A kid \in Kids(view, id) : kid \in DOMAIN view /\ kid \notin S
    BY <2>2, KidsOf
  <2>5. \A kid \in Kids(view, id) : m[kid] \in Ids \cup {None}
    BY <2>4
  <2>6. PICK below : below = {m[kid] : kid \in Kids(view, id)} \ {None}
    OBVIOUS
  <2>7. below \subseteq Ids
    BY <2>5, <2>6
  <2>8. m[id] = Found(t, view, id, below)
    BY <1>0, <2>3, <2>6
  <2> QED BY <2>3, <2>7, <2>8 DEF Found
<1>2. \A id \in DOMAIN view : m[id] \in Ids \cup {None}
  BY <1>1
<1>3. m = [id \in DOMAIN view |-> m[id]]
  BY DEF MismatchOf
<1> QED BY <1>2, <1>3

(* m says for every department what the search finds there.                *)
LEMMA FindUpdateNodeIs ==
  ASSUME NEW t, NEW view, IsTree(view)
  PROVE  \E m : MismatchOf(t, view, m) /\ findUpdateNode(t, view) = m[TopOf(view)]
<1> DEFINE m == CHOOSE f : MismatchOf(t, view, f)
<1>1. MismatchOf(t, view, m)
  BY MismatchExists
<1>2. findUpdateNode(t, view) = m[TopOf(view)]
  BY DEF findUpdateNode, MismatchOf, Found
<1> QED BY <1>1, <1>2

LEMMA AtMostOne ==
  ASSUME NEW S, IsFiniteSet(S), ~(Cardinality(S) > 1), NEW a \in S, NEW b \in S
  PROVE  a = b
<1>1. Cardinality(S) \in Nat
  BY FS_CardinalityType
<1>2. Cardinality(S) # 0
  BY FS_EmptySet
<1>3. Cardinality(S) = 1
  BY <1>1, <1>2
<1>4. PICK x : S = {x}
  BY <1>3, FS_Singleton
<1> QED BY <1>4

(* Where nothing differs the children are those of the cached tree and     *)
(* nothing differs at them; and what differs further down is all that      *)
(* differs.                                                                *)
Differs(t, view, m, id) ==
  /\ m[id] = None => /\ Kids(view, id) \subseteq Kids(t, id)
                     /\ \A kid \in Kids(view, id) : m[kid] = None
                     /\ current = id => Kids(view, id) = Kids(t, id)
  /\ m[id] # None /\ m[id] # id =>
       /\ Kids(view, id) \subseteq Kids(t, id)
       /\ \A kid \in Kids(view, id) : m[kid] \in {None, m[id]}
       /\ \E kid \in Kids(view, id) : m[kid] = m[id]

LEMMA MismatchCases ==
  ASSUME NEW t, NEW view, IsTree(view), NEW m, MismatchOf(t, view, m),
         NEW id \in DOMAIN view
  PROVE  Differs(t, view, m, id)
<1>b. PICK below : below = {m[kid] : kid \in Kids(view, id)} \ {None}
  OBVIOUS
<1>m. m \in [DOMAIN view -> Ids \cup {None}]
  BY MismatchTyped
<1>0. id \in Ids /\ id # None /\ Kids(view, id) \subseteq DOMAIN view
  BY TopUnique, KidsOf, ParentAssumption
<1>1. m[id] = Found(t, view, id, below)
  BY <1>b DEF MismatchOf
<1>2. below \subseteq Ids /\ None \notin below
  BY <1>0, <1>b, <1>m
<1>3. IsFiniteSet(below)
  BY <1>2, FS_Subset, ParentAssumption
<1>4. \A kid \in Kids(view, id) : m[kid] = None \/ m[kid] \in below
  BY <1>b
<1>5. \A n \in below : \E kid \in Kids(view, id) : m[kid] = n
  BY <1>b
<1>6. CASE ~(Kids(view, id) \subseteq Kids(t, id)) \/ Cardinality(below) > 1
  <2>1. m[id] = id
    BY <1>1, <1>6 DEF Found
  <2> QED BY <1>0, <2>1 DEF Differs
<1>7. CASE Kids(view, id) \subseteq Kids(t, id) /\ ~(Cardinality(below) > 1) /\ below # {}
  <2>1. m[id] = CHOOSE n \in below : TRUE
    BY <1>1, <1>7 DEF Found
  <2>2. m[id] \in below
    BY <1>7, <2>1
  <2>3. \A n \in below : n = m[id]
    BY <1>3, <1>7, <2>2, AtMostOne
  <2>4. m[id] # None /\ \A kid \in Kids(view, id) : m[kid] \in {None, m[id]}
    BY <1>2, <1>4, <2>2, <2>3
  <2> QED BY <1>5, <1>7, <2>2, <2>4 DEF Differs
<1>8. CASE Kids(view, id) \subseteq Kids(t, id) /\ ~(Cardinality(below) > 1) /\ below = {}
  <2>1. m[id] = IF Kids(view, id) # Kids(t, id) /\ current = id THEN id ELSE None
    BY <1>1, <1>8 DEF Found
  <2>2. \A kid \in Kids(view, id) : m[kid] = None
    BY <1>4, <1>8
  <2> QED BY <1>0, <1>8, <2>1, <2>2 DEF Differs
<1> QED BY <1>6, <1>7, <1>8

(* The node that is found is one of the view and below the departments     *)
(* where it is found, and it is found at itself.                           *)
LEMMA FoundIsBelow ==
  ASSUME NEW t, NEW view, IsTree(view), NEW m, MismatchOf(t, view, m)
  PROVE  \A id \in DOMAIN view : m[id] # None =>
           m[id] \in DOMAIN view /\ id \in Ancestors[m[id]] /\ m[m[id]] = m[id]
<1> DEFINE Right(id) == m[id] \in DOMAIN view /\ id \in Ancestors[m[id]] /\ m[m[id]] = m[id]
           S == {id \in DOMAIN view : m[id] # None /\ ~Right(id)}
<1> SUFFICES ASSUME S # {} PROVE FALSE
  OBVIOUS
<1>1. S \in SUBSET Ids
  BY TopUnique
<1>2. PICK id \in S : \A kid \in S \ {Root} : Parent[kid] # id
  BY <1>1, ParentAssumption
<1>3. id \in DOMAIN view /\ id \in Ids /\ m[id] # None /\ ~Right(id)
  BY <1>1, <1>2
<1>4. m[id] # id
  BY <1>3, AncestorsOf
<1>d. Differs(t, view, m, id)
  BY <1>3, MismatchCases
<1>c. \E kid \in Kids(view, id) : m[kid] = m[id]
  BY <1>3, <1>4, <1>d DEF Differs
<1>5. PICK kid \in Kids(view, id) : m[kid] = m[id]
  BY <1>c
<1>6. kid \in DOMAIN view /\ kid \in Ids /\ kid # Root /\ Parent[kid] = id
  BY <1>5, KidsOf
<1>7. kid \notin S
  BY <1>2, <1>6
<1>8. m[kid] \in DOMAIN view /\ kid \in Ancestors[m[kid]] /\ m[m[kid]] = m[kid]
  BY <1>3, <1>5, <1>6, <1>7
<1>9. id \in Ancestors[kid]
  BY <1>3, <1>6, AncestorsOf
<1>10. m[kid] \in Ids
  BY <1>8, TopUnique
<1>11. id \in Ancestors[m[kid]]
  BY <1>6, <1>8, <1>9, <1>10, AncestorsTransitive
<1> QED BY <1>3, <1>5, <1>8, <1>11

(* If nothing differs the cached tree has the view, and the children of    *)
(* the current department are the same.                                    *)
LEMMA NothingDiffers ==
  ASSUME NEW t, IsTree(t), NEW view, IsTree(view), TopOf(view) \in DOMAIN t, findUpdateNode(t, view) = None
  PROVE  /\ \A id \in DOMAIN view : id \in DOMAIN t /\ (id # TopOf(view) => t[id] = view[id])
         /\ current \in DOMAIN view => Kids(t, current) = Kids(view, current)
<1>1. PICK m : MismatchOf(t, view, m) /\ findUpdateNode(t, view) = m[TopOf(view)]
  BY FindUpdateNodeIs
<1> DEFINE S == {id \in DOMAIN view : m[id] = None /\ id \in DOMAIN t /\ (id # TopOf(view) => id # TopOf(t))}
<1>2. TopOf(view) \in S
  BY <1>1, TopUnique
<1>3. ASSUME NEW id \in DOMAIN view, id # TopOf(view), Parent[id] \in DOMAIN view, Parent[id] \in S PROVE id \in S
  <2>1. id \in Kids(view, Parent[id])
    BY <1>3, KidsOf
  <2>2. m[Parent[id]] = None
    BY <1>3
  <2>d. Differs(t, view, m, Parent[id])
    BY <1>1, <1>3, MismatchCases
  <2>3. Kids(view, Parent[id]) \subseteq Kids(t, Parent[id]) /\ m[id] = None
    BY <2>1, <2>2, <2>d DEF Differs
  <2>4. id \in DOMAIN t /\ id # TopOf(t)
    BY <2>1, <2>3, KidsOf
  <2> QED BY <1>3, <2>3, <2>4
<1>4. DOMAIN view \subseteq S
  <2> HIDE DEF S
  <2> QED BY <1>2, <1>3, Downwards
<1>5. ASSUME NEW id \in DOMAIN view PROVE id \in DOMAIN t /\ (id # TopOf(view) => t[id] = view[id])
  BY <1>4, TopUnique
<1>6. ASSUME current \in DOMAIN view PROVE Kids(t, current) = Kids(view, current)
  <2>1. m[current] = None
    BY <1>4, <1>6
  <2>2. Differs(t, view, m, current)
    BY <1>1, <1>6, MismatchCases
  <2> QED BY <2>1, <2>2 DEF Differs
<1> QED BY <1>5, <1>6

(* Otherwise every department of the view is on the way to the node that   *)
(* is found, at a place where nothing differs, or below the node.          *)
Way(t, view, m, node, id) == id \in DOMAIN t /\ m[id] = node
Same(t, view, m, node, id) == id \in DOMAIN t /\ m[id] = None /\ node \notin Ancestors[id]
Under(t, view, m, node, id) == id # node /\ node \in Ancestors[id]
Lies(t, view, m, node, id) ==
  /\ Way(t, view, m, node, id) \/ Same(t, view, m, node, id) \/ Under(t, view, m, node, id)
  /\ id # TopOf(view) => id # TopOf(t)

LEMMA NodeFound ==
  ASSUME NEW t, IsTree(t), NEW view, IsTree(view), TopOf(view) \in DOMAIN t,
         NEW node, node = findUpdateNode(t, view), node # None
  PROVE  \E m : /\ MismatchOf(t, view, m) /\ m[TopOf(view)] = node
                /\ node \in Ids /\ node \in DOMAIN view /\ node \in DOMAIN t /\ m[node] = node
                /\ \A id \in DOMAIN view : Lies(t, view, m, node, id)
<1>1. PICK m : MismatchOf(t, view, m) /\ node = m[TopOf(view)]
  BY FindUpdateNodeIs
<1>2. node \in DOMAIN view /\ node \in Ids /\ m[node] = node /\ TopOf(view) \in DOMAIN view
  BY <1>1, FoundIsBelow, TopUnique
(* The top is in the cached tree, and what is on the way from there.       *)
<1>n. node \in DOMAIN t
  <2> DEFINE W == {id \in DOMAIN view : m[id] = node /\ id \in DOMAIN t}
  <2>1. W # {} /\ W \in SUBSET Ids
    BY <1>1, TopUnique
  <2>2. PICK id \in W : \A kid \in W \ {Root} : Parent[kid] # id
    BY <2>1, ParentAssumption
  <2>3. id \in DOMAIN view /\ m[id] = node /\ id \in DOMAIN t
    OBVIOUS
  <2>4. CASE id = node
    BY <2>3, <2>4
  <2>5. CASE id # node
    <3>d. Differs(t, view, m, id)
      BY <1>1, <2>3, MismatchCases
    <3>1. /\ Kids(view, id) \subseteq Kids(t, id)
          /\ \E kid \in Kids(view, id) : m[kid] = node
      BY <2>3, <2>5, <3>d DEF Differs
    <3>2. PICK kid \in Kids(view, id) : m[kid] = node
      BY <3>1
    <3>3. kid \in DOMAIN view /\ kid \in DOMAIN t /\ kid # Root /\ Parent[kid] = id
      BY <3>1, <3>2, KidsOf
    <3> QED BY <2>2, <3>2, <3>3
  <2> QED BY <2>4, <2>5
<1> DEFINE S == {id \in DOMAIN view : Lies(t, view, m, node, id)}
<1>3. TopOf(view) \in S
  BY <1>1, <1>2 DEF Lies, Way
<1>4. ASSUME NEW id \in DOMAIN view, id # TopOf(view), Parent[id] \in DOMAIN view, Parent[id] \in S PROVE id \in S
  <2>p. PICK p : p = Parent[id]
    OBVIOUS
  <2>0. /\ p \in DOMAIN view /\ p \in Ids /\ id \in Ids /\ id # Root /\ p # id
        /\ Ancestors[id] = {id} \cup Ancestors[p] /\ p \in Ancestors[p]
    BY <1>4, <2>p, TopUnique, RootIsTop, AncestorsOf
  <2>k. id \in Kids(view, p)
    BY <1>4, <2>p, KidsOf
  <2>d. Differs(t, view, m, p)
    BY <1>1, <2>0, MismatchCases
  <2>c. /\ m[p] = None => Kids(view, p) \subseteq Kids(t, p) /\ m[id] = None
        /\ m[p] # None /\ m[p] # p => Kids(view, p) \subseteq Kids(t, p) /\ m[id] \in {None, m[p]}
    BY <2>d, <2>k DEF Differs
  <2>t. Kids(view, p) \subseteq Kids(t, p) => id \in DOMAIN t /\ id # TopOf(t)
    BY <2>k, KidsOf
  <2>u. node \in Ancestors[p] => Lies(t, view, m, node, id)
    <3> SUFFICES ASSUME node \in Ancestors[p] PROVE Lies(t, view, m, node, id)
      OBVIOUS
    <3>1. id # node
      BY <1>2, <2>0, AncestorsAcyclic
    <3>2. node \in Ancestors[id]
      BY <2>0
    <3>3. id # TopOf(t)
      <4> SUFFICES ASSUME id = TopOf(t) PROVE FALSE
        OBVIOUS
      <4>1. id \in Ancestors[node]
        BY <1>n, TopIsAbove
      <4> QED BY <1>2, <2>0, <3>1, <3>2, <4>1, AncestorsAcyclic
    <3> QED BY <3>1, <3>2, <3>3 DEF Lies, Under
  <2>1. CASE Under(t, view, m, node, p)
    BY <1>4, <2>1, <2>u DEF Under
  <2>2. CASE Way(t, view, m, node, p) /\ p = node
    BY <1>4, <2>0, <2>2, <2>u
  <2>3. CASE Way(t, view, m, node, p) /\ p # node
    <3>1. m[p] # None /\ m[p] # p /\ m[p] = node
      BY <2>3 DEF Way
    <3>2. id \in DOMAIN t /\ id # TopOf(t) /\ m[id] \in {None, node}
      BY <2>c, <2>t, <3>1
    <3>3. CASE m[id] = node
      BY <1>4, <3>2, <3>3 DEF Lies, Way
    <3>4. CASE m[id] = None
      <4>1. id # node
        BY <1>2, <3>4
      <4>2. p \in Ancestors[node]
        BY <1>1, <2>0, <3>1, FoundIsBelow
      <4>3. node \notin Ancestors[p]
        BY <1>2, <2>0, <2>3, <4>2, AncestorsAcyclic
      <4>4. node \notin Ancestors[id]
        BY <2>0, <4>1, <4>3
      <4> QED BY <1>4, <3>2, <3>4, <4>4 DEF Lies, Same
    <3> QED BY <3>2, <3>3, <3>4
  <2>4. CASE Same(t, view, m, node, p)
    <3>1. m[p] = None /\ node \notin Ancestors[p]
      BY <2>4 DEF Same
    <3>2. id \in DOMAIN t /\ id # TopOf(t) /\ m[id] = None
      BY <2>c, <2>t, <3>1
    <3>3. id # node
      BY <1>2, <3>2
    <3>4. node \notin Ancestors[id]
      BY <2>0, <3>1, <3>3
    <3> QED BY <1>4, <3>2, <3>4 DEF Lies, Same
  <2> QED BY <1>4, <2>p, <2>1, <2>2, <2>3, <2>4 DEF Lies
<1>5. DOMAIN view \subseteq S
  <2> HIDE DEF S
  <2> QED BY <1>3, <1>4, Downwards
<1> QED BY <1>1, <1>2, <1>n, <1>5

(* The tree with the part below one node replaced.                         *)

LEMMA ReplacedHas ==
  ASSUME NEW t, IsTree(t), NEW view, IsTree(view), NEW node \in Ids, NEW u, u = Replaced(t, view, node)
  PROVE  /\ \A n : n \in DOMAIN u <=>
                \/ n \in DOMAIN t /\ (n = node \/ node \notin Ancestors[n])
                \/ n \in DOMAIN view /\ n # node /\ node \in Ancestors[n]
         /\ DOMAIN u \subseteq Ids
         /\ \A n \in DOMAIN u : u[n] = IF n = TopOf(t) THEN n ELSE Parent[n]
<1>1. DOMAIN u = (DOMAIN t \ Below(t, node)) \cup Below(view, node)
  BY DEF Replaced
<1>2. \A n \in DOMAIN u : u[n] = IF n = TopOf(t) THEN n ELSE Parent[n]
  BY DEF Replaced
<1>3. \A n : n \in DOMAIN u <=>
                \/ n \in DOMAIN t /\ (n = node \/ node \notin Ancestors[n])
                \/ n \in DOMAIN view /\ n # node /\ node \in Ancestors[n]
  BY <1>1, BelowIs
<1> QED BY <1>2, <1>3, TopUnique

(* What is below a node is not the top of a tree that has the node.        *)
LEMMA BelowIsNotTop ==
  ASSUME NEW t, IsTree(t), NEW node \in DOMAIN t, NEW n \in Ids, n # node, node \in Ancestors[n]
  PROVE  n # TopOf(t)
<1> SUFFICES ASSUME n = TopOf(t) PROVE FALSE
  OBVIOUS
<1>1. n \in Ancestors[node] /\ node \in Ids
  BY TopIsAbove, TopUnique
<1> QED BY <1>1, AncestorsAcyclic

LEMMA ReplacedIsTree ==
  ASSUME NEW t, IsTree(t), NEW view, IsTree(view), NEW node \in DOMAIN t, node \in DOMAIN view,
         NEW u, u = Replaced(t, view, node)
  PROVE  IsTree(u) /\ TopOf(u) = TopOf(t)
<1>0. node \in Ids
  BY TopUnique
<1>1. /\ \A n : n \in DOMAIN u <=>
                \/ n \in DOMAIN t /\ (n = node \/ node \notin Ancestors[n])
                \/ n \in DOMAIN view /\ n # node /\ node \in Ancestors[n]
      /\ DOMAIN u \subseteq Ids
      /\ \A n \in DOMAIN u : u[n] = IF n = TopOf(t) THEN n ELSE Parent[n]
  BY <1>0, ReplacedHas
<1>2. TopOf(t) \in DOMAIN u
  <2>1. TopOf(t) \in DOMAIN t /\ TopOf(t) \in Ids
    BY TopUnique
  <2>2. TopOf(t) = node \/ node \notin Ancestors[TopOf(t)]
    BY <2>1, BelowIsNotTop
  <2> QED BY <1>1, <2>1, <2>2
<1>3. ASSUME NEW n \in DOMAIN u, n # TopOf(t)
      PROVE  Parent[n] \in DOMAIN u /\ Parent[n] # n
  <2>1. CASE n \in DOMAIN t /\ (n = node \/ node \notin Ancestors[n])
    <3>1. Parent[n] \in DOMAIN t /\ Parent[n] # n /\ n \in Ids /\ n # Root /\ Parent[n] \in Ids
      BY <1>3, <2>1, TopUnique, RootIsTop
    <3>2. Ancestors[n] = {n} \cup Ancestors[Parent[n]] /\ Parent[n] \in Ancestors[Parent[n]]
      BY <3>1, AncestorsOf
    <3>3. Parent[n] = node \/ node \notin Ancestors[Parent[n]]
      <4>1. CASE n = node
        BY <3>1, <3>2, <4>1, AncestorsAcyclic
      <4>2. CASE node \notin Ancestors[n]
        BY <3>2, <4>2
      <4> QED BY <2>1, <4>1, <4>2
    <3> QED BY <1>1, <3>1, <3>3
  <2>2. CASE n \in DOMAIN view /\ n # node /\ node \in Ancestors[n]
    <3>1. n \in Ids /\ n # TopOf(view)
      BY <2>2, TopUnique, BelowIsNotTop
    <3>2. Parent[n] \in DOMAIN view /\ Parent[n] # n /\ n # Root /\ Parent[n] \in Ids
      BY <2>2, <3>1, TopUnique, RootIsTop
    <3>3. node \in Ancestors[Parent[n]]
      BY <2>2, <3>1, <3>2, AncestorsOf
    <3> QED BY <1>0, <1>1, <3>2, <3>3, AncestorsOf
  <2> QED BY <1>1, <2>1, <2>2
<1>4. \A n \in DOMAIN u : u[n] \in {n, Parent[n]} \cap DOMAIN u
  BY <1>1, <1>3
<1>5. \A n \in DOMAIN u : u[n] = n <=> n = TopOf(t)
  BY <1>1, <1>3
<1>6. IsTree(u)
  BY <1>1, <1>2, <1>4, <1>5 DEF IsTree
<1> QED BY <1>2, <1>5, <1>6, TopUnique

(* After the replacement the tree has the view, and the current department *)
(* its children unless the node is below it.                               *)
LEMMA ReplacedHolds ==
  ASSUME NEW t, IsTree(t), NEW view, IsTree(view), TopOf(view) \in DOMAIN t,
         NEW node, node = findUpdateNode(t, view), node # None, NEW u, u = Replaced(t, view, node)
  PROVE  /\ IsTree(u) /\ node \in DOMAIN view
         /\ \A id \in DOMAIN view : id \in DOMAIN u /\ (id # TopOf(view) => u[id] = view[id])
         /\ current \in DOMAIN view /\ current \notin Ancestors[node] \ {node} => Kids(u, current) = Kids(view, current)
<1>1. PICK m : /\ MismatchOf(t, view, m) /\ m[TopOf(view)] = node
               /\ node \in Ids /\ node \in DOMAIN view /\ node \in DOMAIN t /\ m[node] = node
               /\ \A id \in DOMAIN view : Lies(t, view, m, node, id)
  BY NodeFound
<1>2. IsTree(u) /\ TopOf(u) = TopOf(t)
  BY <1>1, ReplacedIsTree
<1>3. /\ \A n : n \in DOMAIN u <=>
                \/ n \in DOMAIN t /\ (n = node \/ node \notin Ancestors[n])
                \/ n \in DOMAIN view /\ n # node /\ node \in Ancestors[n]
      /\ DOMAIN u \subseteq Ids
      /\ \A n \in DOMAIN u : u[n] = IF n = TopOf(t) THEN n ELSE Parent[n]
  BY <1>1, ReplacedHas
<1>4. ASSUME NEW id \in DOMAIN view, Way(t, view, m, node, id) PROVE id = node \/ node \notin Ancestors[id]
  <2>1. m[id] = node /\ id \in Ids
    BY <1>4, TopUnique DEF Way
  <2>2. node # None
    OBVIOUS
  <2>3. id \in Ancestors[m[id]]
    BY <1>1, <2>1, <2>2, FoundIsBelow
  <2> QED BY <1>1, <2>1, <2>3, AncestorsAcyclic
<1>5. ASSUME NEW id \in DOMAIN view PROVE id \in DOMAIN u /\ (id # TopOf(view) => u[id] = view[id])
  <2>1. Lies(t, view, m, node, id)
    BY <1>1
  <2>2. id \in DOMAIN u
    BY <1>3, <1>4, <2>1 DEF Lies, Way, Same, Under
  <2>3. ASSUME id # TopOf(view) PROVE u[id] = view[id]
    BY <1>3, <2>1, <2>2, <2>3, TopUnique DEF Lies
  <2> QED BY <2>2, <2>3
<1>6. ASSUME current \in DOMAIN view, current \notin Ancestors[node] \ {node}
      PROVE  Kids(u, current) = Kids(view, current)
  <2>0. current \in Ids
    BY <1>6, TopUnique
  <2>1. ASSUME NEW kid \in Kids(view, current) PROVE kid \in Kids(u, current)
    <3>1. kid \in DOMAIN view /\ kid # TopOf(view) /\ Parent[kid] = current
      BY KidsOf
    <3>2. kid \in DOMAIN u /\ kid # TopOf(t)
      BY <1>1, <1>5, <3>1 DEF Lies
    <3> QED BY <1>2, <3>1, <3>2, KidsOf
  <2>2. ASSUME NEW kid \in Kids(u, current) PROVE kid \in Kids(view, current)
    <3>1. kid \in DOMAIN u /\ kid # TopOf(t) /\ Parent[kid] = current /\ kid \in Ids /\ kid # Root /\ kid # current
      BY <1>2, KidsOf
    <3>2. Ancestors[kid] = {kid} \cup Ancestors[current] /\ current \in Ancestors[current]
      BY <2>0, <3>1, AncestorsOf
    <3>3. CASE kid \in DOMAIN view /\ kid # node /\ node \in Ancestors[kid]
      <4>1. kid # TopOf(view)
        BY <1>1, <3>1, <3>3, BelowIsNotTop
      <4> QED BY <3>1, <3>3, <4>1, KidsOf
    <3>4. CASE kid \in DOMAIN t /\ (kid = node \/ node \notin Ancestors[kid])
      <4>1. kid \in Kids(t, current)
        BY <3>1, <3>4, KidsOf
      <4>2. kid # node
        <5> SUFFICES ASSUME kid = node PROVE FALSE
          OBVIOUS
        <5> QED BY <1>6, <3>1, <3>2
      <4>3. node \notin Ancestors[current] /\ current # node
        BY <3>2, <3>4, <4>2
      <4>4. ~Way(t, view, m, node, current)
        <5> SUFFICES ASSUME Way(t, view, m, node, current) PROVE FALSE
          OBVIOUS
        <5>1. m[current] = node /\ node # None
          BY DEF Way
        <5>2. current \in Ancestors[m[current]]
          BY <1>1, <1>6, <5>1, FoundIsBelow
        <5> QED BY <1>6, <4>3, <5>1, <5>2
      <4>5. Same(t, view, m, node, current)
        BY <1>1, <1>6, <4>3, <4>4 DEF Lies, Under
      <4>6. m[current] = None
        BY <4>5 DEF Same
      <4>7. Differs(t, view, m, current)
        BY <1>1, <1>6, MismatchCases
      <4>8. Kids(view, current) = Kids(t, current)
        BY <4>6, <4>7 DEF Differs
      <4> QED BY <4>1, <4>8
    <3> QED BY <1>3, <3>1, <3>3, <3>4
  <2> QED BY <2>1, <2>2
<1> QED BY <1>1, <1>2, <1>5, <1>6

-----------------------------------------------------------------------------
(* The inductive invariant: as long as there is no tree nothing is open.   *)
Models == [kids : SUBSET Ids, active : SUBSET Ids, parent : Ids]
NavigationInv ==
  /\ NavigationFollows
  /\ \A id \in DOMAIN departmentModels : departmentModels[id] \in Models
  /\ tree = NoTree => DOMAIN departmentModels = {}

ModelOK(entry) == entry \in Models /\ entry.active \subseteq entry.kids /\ Cardinality(entry.active) <= 1

Shape ==
  /\ world \in Worlds /\ current \in Ids /\ updated \in Ids \cup {None}
  /\ tree = NoTree \/ IsTree(tree)
  /\ has \subseteq DOMAIN tree
  /\ DOMAIN departmentModels \subseteq Ids /\ Cardinality(DOMAIN departmentModels) <= MaxModels
  /\ \A id \in DOMAIN departmentModels : ModelOK(departmentModels[id])
  /\ tree = NoTree => DOMAIN departmentModels = {}

LEMMA NavigationTyped ==
  /\ NavigationInv <=> Shape /\ TreeHoldsWhatCame /\ ModelsFollowTree
  /\ NavigationInv' <=> Shape' /\ TreeHoldsWhatCame' /\ ModelsFollowTree'
<1>1. NavigationInv <=> Shape /\ TreeHoldsWhatCame /\ ModelsFollowTree
  BY DEF NavigationInv, NavigationFollows, NavigationTypeOK, ModelOK, Shape
<1>2. NavigationInv' <=> Shape' /\ TreeHoldsWhatCame' /\ ModelsFollowTree'
  BY DEF NavigationInv, NavigationFollows, NavigationTypeOK, ModelOK, Shape
<1> QED BY <1>1, <1>2

LEMMA NoTreeIsEmpty ==
  /\ DOMAIN NoTree = {}
  /\ \A t : IsTree(t) => t # NoTree
<1>1. DOMAIN NoTree = {}
  BY DEF NoTree
<1>2. \A t : IsTree(t) => DOMAIN t # {}
  BY DEF IsTree
<1> QED BY <1>1, <1>2

LEMMA LoadedIsOK ==
  ASSUME NEW t, IsTree(t), NEW id \in DOMAIN t
  PROVE  ModelOK(Loaded(t, id)) /\ Loaded(t, id).kids = Kids(t, id)
<1>1. PICK entry : entry = Loaded(t, id)
  OBVIOUS
<1>2. Kids(t, id) \subseteq Ids /\ t[id] \in Ids
  BY KidsOf, TopUnique DEF IsTree
<1>3. entry \in Models /\ entry.kids = Kids(t, id) /\ entry.active = {}
  BY <1>1, <1>2 DEF Loaded, Models
<1>4. Cardinality({}) = 0
  BY FS_EmptySet
<1> QED BY <1>1, <1>3, <1>4 DEF ModelOK

LEMMA MarkedIsOK ==
  ASSUME NEW entry, ModelOK(entry), NEW id
  PROVE  /\ ModelOK(MarkedActive(entry, id))
         /\ MarkedActive(entry, id).kids = entry.kids /\ MarkedActive(entry, id).active = {id} \cap entry.kids
<1>1. PICK marked : marked = MarkedActive(entry, id)
  OBVIOUS
<1>2. PICK S : S = {id} \cap entry.kids
  OBVIOUS
<1>3. marked = [entry EXCEPT !.active = S]
  BY <1>1, <1>2 DEF MarkedActive
<1>4. entry \in Models
  BY DEF ModelOK
<1>5. S \subseteq Ids
  BY <1>2, <1>4 DEF Models
<1>6. marked \in Models /\ marked.active = S /\ marked.kids = entry.kids
  BY <1>3, <1>4, <1>5 DEF Models
<1>7. S = {} \/ S = {id}
  BY <1>2
<1>8. Cardinality(S) <= 1
  <2>1. Cardinality({}) = 0 /\ Cardinality({id}) = 1
    BY FS_EmptySet, FS_Singleton
  <2>2. CASE S = {}
    BY <2>1, <2>2
  <2>3. CASE S = {id}
    BY <2>1, <2>3
  <2> QED BY <1>7, <2>2, <2>3
<1> QED BY <1>1, <1>2, <1>6, <1>8 DEF ModelOK

(* Steps that receive nothing.                                             *)
LEMMA NothingToFollow ==
  ASSUME NothingReceived
  PROVE  TreeHoldsWhatCame' /\ ModelsFollowTree' /\ updated' \in Ids \cup {None}
<1>1. received' = NoTree /\ updated' = None
  BY DEF NothingReceived
<1>2. DOMAIN received' = {}
  BY <1>1, NoTreeIsEmpty
<1>3. TreeHoldsWhatCame'
  BY <1>2 DEF TreeHoldsWhatCame
<1>4. ModelsFollowTree'
  BY <1>1 DEF ModelsFollowTree, NoTree
<1> QED BY <1>1, <1>3, <1>4

LEMMA FlushWithoutStep ==
  ASSUME NavigationInv, FlushWithoutDepartments
  PROVE  NavigationInv'
<1>1. Shape
  BY NavigationTyped
<1>2. current' = Root /\ NothingReceived /\ UNCHANGED <<world, tree, has, departmentModels>>
  BY DEF FlushWithoutDepartments
<1>3. Shape'
  BY <1>1, <1>2, NothingToFollow, ParentAssumption DEF Shape, ModelOK, IsTree, NoTree
<1> QED BY <1>2, <1>3, NothingToFollow, NavigationTyped

LEMMA SetCurrentStep ==
  ASSUME NavigationInv, NEW id \in Ids, SetCurrentNavigationId(id)
  PROVE  NavigationInv'
<1>1. Shape
  BY NavigationTyped
<1>2. current' = id /\ NothingReceived /\ UNCHANGED <<world, tree, has, departmentModels>>
  BY DEF SetCurrentNavigationId
<1>3. Shape'
  BY <1>1, <1>2, NothingToFollow DEF Shape, ModelOK, IsTree, NoTree
<1> QED BY <1>2, <1>3, NothingToFollow, NavigationTyped

LEMMA WorldStep ==
  ASSUME NavigationInv, NEW w \in Worlds, WorldChanges(w)
  PROVE  NavigationInv'
<1>1. Shape
  BY NavigationTyped
<1>2. world' = w /\ NothingReceived /\ UNCHANGED <<tree, has, current, departmentModels>>
  BY DEF WorldChanges
<1>3. Shape'
  BY <1>1, <1>2, NothingToFollow DEF Shape, ModelOK, IsTree, NoTree
<1> QED BY <1>2, <1>3, NothingToFollow, NavigationTyped

LEMMA GetNavigationStep ==
  ASSUME NavigationInv, NEW id \in Ids, GetNavigation(id)
  PROVE  NavigationInv'
<1>1. Shape
  BY NavigationTyped
<1>2. /\ id \in DOMAIN tree /\ id \notin DOMAIN departmentModels /\ Cardinality(DOMAIN departmentModels) < MaxModels
      /\ NothingReceived /\ UNCHANGED <<world, tree, has, current>>
  BY DEF GetNavigation
<1>3. tree # NoTree /\ IsTree(tree)
  BY <1>1, <1>2, NoTreeIsEmpty DEF Shape
<1>4. PICK entry : entry = MarkedActive(Loaded(tree, id), current)
  OBVIOUS
<1>5. ModelOK(entry)
  BY <1>2, <1>3, <1>4, LoadedIsOK, MarkedIsOK
<1>6. departmentModels' = [n \in DOMAIN departmentModels \cup {id} |-> IF n = id THEN entry ELSE departmentModels[n]]
  BY <1>4 DEF GetNavigation
<1>7. PICK D : D = DOMAIN departmentModels
  OBVIOUS
<1>8. D \subseteq Ids /\ id \notin D /\ Cardinality(D) < MaxModels
  BY <1>1, <1>2, <1>7 DEF Shape
<1>9. IsFiniteSet(D)
  BY <1>8, FS_Subset, ParentAssumption
<1>10. Cardinality(D \cup {id}) = Cardinality(D) + 1 /\ Cardinality(D) \in Nat
  BY <1>8, <1>9, FS_AddElement, FS_CardinalityType
<1>11. DOMAIN departmentModels' = D \cup {id}
  BY <1>6, <1>7
<1>12. DOMAIN departmentModels' \subseteq Ids /\ Cardinality(DOMAIN departmentModels') <= MaxModels
  BY <1>8, <1>10, <1>11, NavigationBounds
<1>13. \A n \in DOMAIN departmentModels' : ModelOK(departmentModels'[n])
  <2>1. \A n \in D : ModelOK(departmentModels[n])
    BY <1>1, <1>7 DEF Shape
  <2> QED BY <1>5, <1>6, <1>7, <1>11, <2>1
<1>14. Shape'
  BY <1>1, <1>2, <1>3, <1>12, <1>13, NothingToFollow DEF Shape
<1> QED BY <1>2, <1>14, NothingToFollow, NavigationTyped

LEMMA DestroyedStep ==
  ASSUME NavigationInv, NEW id \in Ids, DepartmentModelDestroyed(id)
  PROVE  NavigationInv'
<1>1. Shape
  BY NavigationTyped
<1>2. /\ departmentModels' = Restrict(departmentModels, DOMAIN departmentModels \ {id})
      /\ NothingReceived /\ UNCHANGED <<world, tree, has, current>>
  BY DEF DepartmentModelDestroyed
<1>3. PICK D : D = DOMAIN departmentModels
  OBVIOUS
<1>4. departmentModels' = [n \in D \ {id} |-> departmentModels[n]]
  BY <1>2, <1>3 DEF Restrict
<1>5. DOMAIN departmentModels' = D \ {id} /\ D \subseteq Ids
  BY <1>1, <1>3, <1>4 DEF Shape
<1>6. Cardinality(D \ {id}) <= Cardinality(D)
  <2>1. IsFiniteSet(D) /\ D \ {id} \subseteq D
    BY <1>5, FS_Subset, ParentAssumption
  <2> QED BY <2>1, FS_Subset
<1>7. Cardinality(D) <= MaxModels /\ Cardinality(D) \in Nat /\ Cardinality(D \ {id}) \in Nat
  BY <1>1, <1>3, <1>5, FS_Subset, FS_CardinalityType, ParentAssumption DEF Shape
<1>8. Cardinality(DOMAIN departmentModels') <= MaxModels
  BY <1>5, <1>6, <1>7, NavigationBounds
<1>9. \A n \in DOMAIN departmentModels' : ModelOK(departmentModels'[n])
  <2>1. \A n \in D : ModelOK(departmentModels[n])
    BY <1>1, <1>3 DEF Shape
  <2> QED BY <1>4, <1>5, <2>1
<1>10. tree' = NoTree => DOMAIN departmentModels' = {}
  BY <1>1, <1>2, <1>3, <1>5 DEF Shape, NoTree
<1>a. /\ world' \in Worlds /\ current' \in Ids
      /\ tree' = NoTree \/ IsTree(tree')
      /\ has' \subseteq DOMAIN tree'
  BY <1>1, <1>2 DEF Shape
<1>b. DOMAIN departmentModels' \subseteq Ids
  BY <1>5
<1>11. Shape'
  <2>1. updated' \in Ids \cup {None}
    BY <1>2, NothingToFollow
  <2> QED BY <1>8, <1>9, <1>10, <1>a, <1>b, <2>1 DEF Shape
<1> QED BY <1>2, <1>11, NothingToFollow, NavigationTyped

(* The models after an update are as they should be, and the ones of the   *)
(* current department and of the parent of a leaf follow the tree.         *)
LEMMA ModelsAfter ==
  ASSUME NEW t, IsTree(t), NEW flagged, NEW after, after = updateNavigationModels(t, flagged),
         \A id \in DOMAIN departmentModels : ModelOK(departmentModels[id])
  PROVE  /\ DOMAIN after = DOMAIN departmentModels
         /\ \A id \in DOMAIN after : ModelOK(after[id])
         /\ current \in DOMAIN t =>
              /\ current \in DOMAIN after => after[current].kids = Kids(t, current)
              /\ IsLeaf(t, flagged, current) /\ t[current] \in DOMAIN after \ {current}
                   => after[t[current]].active = {current} \cap after[t[current]].kids
<1>1. DOMAIN after = DOMAIN departmentModels
  BY DEF updateNavigationModels
<1>2. \A id \in DOMAIN after :
        after[id] = IF id = current /\ id \in DOMAIN t THEN Loaded(t, id)
                    ELSE IF current \in DOMAIN t /\ IsLeaf(t, flagged, current) /\ t[current] = id
                         THEN MarkedActive(departmentModels[id], current)
                    ELSE departmentModels[id]
  BY DEF updateNavigationModels
<1>3. ASSUME NEW id \in DOMAIN after PROVE ModelOK(after[id])
  <2>1. ModelOK(departmentModels[id]) /\ ModelOK(MarkedActive(departmentModels[id], current))
    BY <1>1, MarkedIsOK
  <2>2. id \in DOMAIN t => ModelOK(Loaded(t, id))
    BY LoadedIsOK
  <2> QED BY <1>2, <2>1, <2>2
<1>4. ASSUME current \in DOMAIN t, current \in DOMAIN after PROVE after[current].kids = Kids(t, current)
  <2>1. after[current] = Loaded(t, current)
    BY <1>2, <1>4
  <2> QED BY <1>4, <2>1, LoadedIsOK
<1>5. ASSUME current \in DOMAIN t, IsLeaf(t, flagged, current), t[current] \in DOMAIN after \ {current}
      PROVE  after[t[current]].active = {current} \cap after[t[current]].kids
  <2>1. PICK id : id = t[current]
    OBVIOUS
  <2>2. id \in DOMAIN after /\ id # current
    BY <1>5, <2>1
  <2>3. after[id] = MarkedActive(departmentModels[id], current)
    BY <1>2, <1>5, <2>1, <2>2
  <2>4. after[id].active = {current} \cap after[id].kids
    BY <1>1, <2>2, <2>3, MarkedIsOK
  <2> QED BY <2>1, <2>4
<1> QED BY <1>1, <1>3, <1>4, <1>5

(* The tree after a flush, in the three ways it may go.                    *)
FlushHolds(t, flagged, node, view) ==
  /\ IsTree(t) /\ flagged \subseteq DOMAIN t /\ node \in Ids \cup {None}
  /\ \A id \in DOMAIN view : id \in DOMAIN t /\ (id # TopOf(view) => t[id] = view[id])
  /\ current \in DOMAIN view /\ (node = None \/ current \notin Ancestors[node] \ {node}) =>
       Kids(t, current) = Kids(view, current)

LEMMA FlushTree ==
  ASSUME NavigationInv, NEW view \in Views[world], FlushDepartments(view)
  PROVE  /\ IsTree(tree') /\ has' \subseteq DOMAIN tree' /\ updated' \in Ids \cup {None}
         /\ received' = view /\ IsTree(view) /\ TreeHoldsWhatCame'
<1>1. Shape
  BY NavigationTyped
<1>2. IsTree(view)
  BY <1>1, ViewsAssumption DEF Shape
<1>n. PICK node : node = IF TopOf(view) \in DOMAIN tree THEN findUpdateNode(tree, view) ELSE TopOf(view)
  OBVIOUS
<1>t. PICK there : there = IF TopOf(view) \in DOMAIN tree THEN DOMAIN tree \ (Below(tree, node) \cup {node}) ELSE {}
  OBVIOUS
<1>3. /\ tree' = (IF TopOf(view) \notin DOMAIN tree THEN view ELSE IF node = None THEN tree ELSE Replaced(tree, view, node))
      /\ has' = (IF node = None THEN has
                 ELSE (has \cap there) \cup (Flagged(view) \cap ({node} \cup Below(view, node))))
      /\ received' = view /\ updated' = node /\ current' = current
  BY <1>n, <1>t DEF FlushDepartments
<1>4. TopOf(view) \in DOMAIN view /\ DOMAIN view \subseteq Ids /\ None \notin Ids
  BY <1>2, TopUnique, ParentAssumption
<1>5. Flagged(view) \subseteq DOMAIN view
  BY DEF Flagged
<1>6. ASSUME TopOf(view) \notin DOMAIN tree PROVE FlushHolds(tree', has', updated', view)
  <2>1. node = TopOf(view) /\ node # None /\ node \in Ids /\ there = {}
    BY <1>n, <1>t, <1>4, <1>6
  <2>2. tree' = view
    BY <1>3, <1>6
  <2>3. has' \subseteq DOMAIN view
    BY <1>3, <1>5, <2>1
  <2>4. FlushHolds(view, has', node, view)
    BY <1>2, <2>1, <2>3 DEF FlushHolds
  <2> QED BY <1>3, <2>2, <2>4
<1>7. ASSUME TopOf(view) \in DOMAIN tree, node = None PROVE FlushHolds(tree', has', updated', view)
  <2>1. TopOf(view) \in DOMAIN tree /\ findUpdateNode(tree, view) = None
    BY <1>n, <1>7
  <2>2. IsTree(tree)
    BY <1>1, <2>1, NoTreeIsEmpty DEF Shape
  <2>3. /\ \A id \in DOMAIN view : id \in DOMAIN tree /\ (id # TopOf(view) => tree[id] = view[id])
        /\ current \in DOMAIN view => Kids(tree, current) = Kids(view, current)
    BY <1>2, <2>1, <2>2, NothingDiffers
  <2>4. tree' = tree /\ has' = has /\ updated' = None /\ has \subseteq DOMAIN tree
    BY <1>1, <1>3, <1>7 DEF Shape
  <2>5. FlushHolds(tree, has, None, view)
    BY <2>2, <2>3, <2>4 DEF FlushHolds
  <2> QED BY <2>4, <2>5
<1>8. ASSUME TopOf(view) \in DOMAIN tree, node # None PROVE FlushHolds(tree', has', updated', view)
  <2>1. TopOf(view) \in DOMAIN tree /\ node = findUpdateNode(tree, view)
    BY <1>n, <1>8
  <2>2. IsTree(tree)
    BY <1>1, <2>1, NoTreeIsEmpty DEF Shape
  <2>3. PICK u : u = Replaced(tree, view, node)
    OBVIOUS
  <2>4. /\ IsTree(u) /\ node \in DOMAIN view
        /\ \A id \in DOMAIN view : id \in DOMAIN u /\ (id # TopOf(view) => u[id] = view[id])
        /\ current \in DOMAIN view /\ current \notin Ancestors[node] \ {node} => Kids(u, current) = Kids(view, current)
    BY <1>2, <1>8, <2>1, <2>2, <2>3, ReplacedHolds
  <2>5. tree' = u /\ updated' = node /\ node \in Ids
    BY <1>3, <1>4, <1>8, <2>3, <2>4
  <2>6. there \subseteq DOMAIN u
    <3>1. there = DOMAIN tree \ (Below(tree, node) \cup {node})
      BY <1>t, <1>8
    <3>2. DOMAIN u = (DOMAIN tree \ Below(tree, node)) \cup Below(view, node)
      BY <2>3 DEF Replaced
    <3> QED BY <3>1, <3>2
  <2>7. has' \subseteq DOMAIN u
    BY <1>3, <1>5, <1>8, <2>4, <2>6
  <2>8. FlushHolds(u, has', node, view)
    BY <1>8, <2>4, <2>5, <2>7 DEF FlushHolds
  <2> QED BY <2>5, <2>8
<1>9. FlushHolds(tree', has', updated', view)
  BY <1>6, <1>7, <1>8
<1>10. TreeHoldsWhatCame'
  BY <1>3, <1>9 DEF TreeHoldsWhatCame, FlushHolds
<1> QED BY <1>2, <1>3, <1>9, <1>10 DEF FlushHolds

LEMMA FlushStep ==
  ASSUME NavigationInv, NEW view \in Views[world], FlushDepartments(view)
  PROVE  NavigationInv'
<1>1. Shape
  BY NavigationTyped
<1>2. /\ IsTree(tree') /\ has' \subseteq DOMAIN tree' /\ updated' \in Ids \cup {None}
      /\ received' = view /\ IsTree(view) /\ TreeHoldsWhatCame'
  BY FlushTree
<1>3. /\ departmentModels' = (IF tree = NoTree THEN departmentModels ELSE updateNavigationModels(tree', has'))
      /\ world' = world /\ current' = current
  BY DEF FlushDepartments
<1>4. tree' # NoTree
  BY <1>2, NoTreeIsEmpty
<1>5. PICK t, flagged, after : t = tree' /\ flagged = has' /\ after = departmentModels'
  OBVIOUS
<1>6. /\ DOMAIN after = DOMAIN departmentModels
      /\ \A id \in DOMAIN after : ModelOK(after[id])
      /\ current \in DOMAIN t =>
           /\ current \in DOMAIN after => after[current].kids = Kids(t, current)
           /\ IsLeaf(t, flagged, current) /\ t[current] \in DOMAIN after \ {current}
                => after[t[current]].active = {current} \cap after[t[current]].kids
  <2>1. CASE tree = NoTree
    <3>1. after = departmentModels /\ DOMAIN departmentModels = {}
      BY <1>1, <1>3, <1>5, <2>1 DEF Shape
    <3> QED BY <3>1
  <2>2. CASE tree # NoTree
    <3>1. after = updateNavigationModels(t, flagged)
      BY <1>3, <1>5, <2>2
    <3>2. IsTree(t) /\ \A id \in DOMAIN departmentModels : ModelOK(departmentModels[id])
      BY <1>1, <1>2, <1>5 DEF Shape
    <3> QED BY <3>1, <3>2, ModelsAfter
  <2> QED BY <2>1, <2>2
<1>7. Shape'
  <2>1. DOMAIN departmentModels' \subseteq Ids /\ Cardinality(DOMAIN departmentModels') <= MaxModels
    BY <1>1, <1>5, <1>6 DEF Shape
  <2>2. \A id \in DOMAIN departmentModels' : ModelOK(departmentModels'[id])
    BY <1>5, <1>6
  <2>3. world' \in Worlds /\ current' \in Ids
    BY <1>1, <1>3 DEF Shape
  <2>4. tree' = NoTree => DOMAIN departmentModels' = {}
    BY <1>4
  <2> QED BY <1>2, <2>1, <2>2, <2>3, <2>4 DEF Shape
<1>8. ModelsFollowTree'
  BY <1>3, <1>5, <1>6 DEF ModelsFollowTree
<1> QED BY <1>2, <1>7, <1>8, NavigationTyped

LEMMA NavigationStep ==
  ASSUME NavigationInv, [NavigationNext]_navigationVars
  PROVE  NavigationInv'
<1>1. CASE UNCHANGED navigationVars
  BY <1>1 DEF navigationVars, NavigationInv, NavigationFollows, NavigationTypeOK, TreeHoldsWhatCame, ModelsFollowTree,
              IsLeaf
<1> QED BY <1>1, FlushStep, FlushWithoutStep, SetCurrentStep, GetNavigationStep, DestroyedStep, WorldStep
           DEF NavigationNext

(* The cached departments have what the scope sent last, in its place,     *)
(* although findUpdateNode() has only the smallest subtree replaced, and   *)
(* the models that the shell has open show the cached tree (scope.cpp:     *)
(* 386-546), for any departments and any parts of them that a scope sends. *)
THEOREM NavigationFollowsAlways == NavigationSpec => []NavigationFollows
<1>1. NavigationInit => NavigationInv
  <2> SUFFICES ASSUME NavigationInit PROVE NavigationInv
    OBVIOUS
  <2>1. /\ world \in Worlds /\ tree = NoTree /\ has = {} /\ current = Root
        /\ departmentModels = NoTree /\ received = NoTree /\ updated = None
    BY DEF NavigationInit
  <2>2. DOMAIN NoTree = {} /\ Cardinality({}) = 0
    BY NoTreeIsEmpty, FS_EmptySet
  <2>3. Shape
    BY <2>1, <2>2, ParentAssumption, NavigationBounds DEF Shape
  <2>4. TreeHoldsWhatCame /\ ModelsFollowTree
    BY <2>1, <2>2 DEF TreeHoldsWhatCame, ModelsFollowTree
  <2> QED BY <2>3, <2>4, NavigationTyped
<1>2. NavigationInv /\ [NavigationNext]_navigationVars => NavigationInv'
  BY NavigationStep
<1>3. NavigationInv => NavigationFollows
  BY DEF NavigationInv
<1> QED BY <1>1, <1>2, <1>3, PTL DEF NavigationSpec
=============================================================================
