---------------------------- MODULE ModelsProofs ----------------------------
(***************************************************************************)
(* syncModel() does what its callers expect, for any items and any lists   *)
(* of items with distinct keys: views follow, the model shows the input    *)
(* with the objects that were there, and the loop of the third pass ends.  *)
(* The settings sheet keeps what the user chose, for any settings and any  *)
(* children the aggregator may get.                                        *)
(* Filters, their state and the Scope agree, for any lists of filters.     *)
(* A match of the test harness says that what is expected is shown.        *)
(***************************************************************************)
EXTENDS SyncModel, SettingsModel, Filters, Matchers, ListProofs


Rows(s) == 1 .. Len(s)
KeysOf(s) == {s[i].key : i \in Rows(s)}
ItemKeys(s) == {KeyOf(s[i]) : i \in Rows(s)}
FirstKeys(s, n) == {KeyOf(s[i]) : i \in 1 .. n}
DistinctKeys(s) == \A i, j \in Rows(s) : s[i].key = s[j].key => i = j

-----------------------------------------------------------------------------
(* The inductive invariant.                                                *)

(* An object is one of those from before, or made for an item for which    *)
(* there was none.                                                         *)
Origin(o, was, items) ==
  \/ o.kept /\ \E j \in Rows(was) : was[j] = o
  \/ /\ ~o.kept /\ \E i \in Rows(items) : o = Create(items[i])
     /\ \A j \in Rows(was) : was[j].key = o.key => was[j].type # o.type
Origins == \A i \in Rows(model) : Origin(model[i], before, input)

SyncType ==
  /\ input \in Inputs \cup {<<>>}
  /\ model \in Seq(Objects) /\ before \in Seq(Objects)
  /\ DistinctKeys(model) /\ DistinctKeys(before)
  /\ pass \in {"remove", "insert", "move", "update", "done"}
  /\ row \in Nat \ {0} /\ old \in SUBSET Keys /\ moves \in Nat

(* The objects from before whose key is still asked for are the ones that  *)
(* stay; old has those that have been seen to.                             *)
Removing ==
  /\ row <= Len(model) + 1 /\ moves = 0
  /\ old = {model[i].key : i \in 1 .. row - 1} /\ old \subseteq ItemKeys(input)
  /\ \A j \in Rows(before) : before[j].key \in ItemKeys(input) => before[j].key \in KeysOf(model)

Inserting ==
  /\ row <= Len(input) + 1 /\ moves = 0
  /\ old \subseteq ItemKeys(input)
  /\ KeysOf(model) = old \cup FirstKeys(input, row - 1)
  /\ \A j \in Rows(before) : before[j].key \in ItemKeys(input) => before[j].key \in old

AtHome(i) == model[i].key = KeyOf(input[i])
Home == {i \in Rows(model) : AtHome(i)}

(* Every move adds to the weight of the rows at home.                      *)
Moving ==
  /\ Len(model) = Len(input) /\ KeysOf(model) = ItemKeys(input)
  /\ row <= Len(model) + 1 /\ 1 .. row - 1 \subseteq Home
  /\ moves <= Weight(Home)[Len(model)]

Updating ==
  /\ Len(model) = Len(input) /\ row <= Len(input) + 1 /\ MovesBounded
  /\ \A i \in Rows(model) : AtHome(i)
  /\ \A i \in 1 .. row - 1 : model[i].type = TypeOf(input[i])

SyncInv ==
  /\ SyncType /\ ViewMatches
  /\ Origins
  /\ pass = "remove" => Removing
  /\ pass = "insert" => Inserting
  /\ pass = "move" => Moving
  /\ pass = "update" => Updating
  /\ pass = "done" => ShowsInput /\ MovesBounded

-----------------------------------------------------------------------------
(* The operators.                                                          *)

LEMMA InputProperties ==
  ASSUME SyncType
  PROVE  /\ input \in Seq(Items) /\ Len(input) \in Nat /\ DOMAIN input = Rows(input)
         /\ \A i \in Rows(input) : input[i] \in Items
         /\ \A i, j \in Rows(input) : KeyOf(input[i]) = KeyOf(input[j]) => i = j
<1>1. input \in Seq(Items) /\ \A i, j \in DOMAIN input : KeyOf(input[i]) = KeyOf(input[j]) => i = j
  <2>1. CASE input = <<>>
    BY <2>1
  <2>2. CASE input \in Inputs
    BY <2>2, InputsAssumption
  <2>3. QED
    BY <2>1, <2>2 DEF SyncType
<1>2. DOMAIN input = Rows(input) /\ Len(input) \in Nat /\ input \in [1 .. Len(input) -> Items]
  BY <1>1, LenProperties DEF Rows
<1>3. QED
  BY <1>1, <1>2 DEF Rows

LEMMA ModelProperties ==
  ASSUME SyncType
  PROVE  /\ Len(model) \in Nat /\ DOMAIN model = Rows(model)
         /\ \A i \in Rows(model) : model[i] \in Objects
         /\ Len(before) \in Nat /\ DOMAIN before = Rows(before)
         /\ \A i \in Rows(before) : before[i] \in Objects
BY LenProperties DEF SyncType, Rows

LEMMA CreateProperties ==
  ASSUME NEW item \in Items
  PROVE  /\ Create(item) \in Objects
         /\ Create(item).key = KeyOf(item) /\ Create(item).type = TypeOf(item) /\ ~Create(item).kept
BY DEF Create, Objects, Keys

(* newItems: the row of the input with the key, if there is one.           *)
LEMMA DesiredRowProperties ==
  ASSUME SyncType
  PROVE  /\ \A key : key \notin ItemKeys(input) => DesiredRow(key) = 0
         /\ \A i \in Rows(input) : DesiredRow(KeyOf(input[i])) = i
<1> DEFINE I(key) == {i \in 1 .. Len(input) : KeyOf(input[i]) = key}
<1>1. \A key : DesiredRow(key) = IF I(key) # {} THEN Min(I(key)) ELSE 0
  BY DEF DesiredRow, SelectInSeq
<1>2. \A key : key \notin ItemKeys(input) => I(key) = {}
  BY DEF ItemKeys, Rows
<1>3. ASSUME NEW i \in Rows(input) PROVE DesiredRow(KeyOf(input[i])) = i
  <2>1. I(KeyOf(input[i])) = {i}
    BY InputProperties DEF Rows
  <2>2. Min({i}) = i
    BY DEF Min, Rows
  <2>3. QED
    BY <1>1, <2>1, <2>2
<1>4. QED
  BY <1>1, <1>2, <1>3

LEMMA KeyInInput ==
  ASSUME SyncType, NEW key
  PROVE  /\ key \in ItemKeys(input) <=> DesiredRow(key) # 0
         /\ DesiredRow(key) # 0 => DesiredRow(key) \in Rows(input) /\ KeyOf(input[DesiredRow(key)]) = key
<1>1. CASE key \in ItemKeys(input)
  <2>1. PICK i \in Rows(input) : key = KeyOf(input[i])
    BY <1>1 DEF ItemKeys
  <2>2. DesiredRow(key) = i /\ i # 0
    BY <2>1, DesiredRowProperties DEF Rows
  <2>3. QED
    BY <1>1, <2>1, <2>2
<1>2. CASE key \notin ItemKeys(input)
  BY <1>2, DesiredRowProperties
<1>3. QED
  BY <1>1, <1>2

-----------------------------------------------------------------------------
(* The keys of the rows through insertion, removal and moves.              *)

LEMMA RemovedKeys ==
  ASSUME NEW s \in Seq(Objects), DistinctKeys(s), NEW i \in Rows(s)
  PROVE  LET t == RemoveAt(s, i)
         IN  /\ t \in Seq(Objects) /\ Len(t) = Len(s) - 1 /\ DistinctKeys(t)
             /\ KeysOf(t) = KeysOf(s) \ {s[i].key}
             /\ \A j \in Rows(t) : \E k \in Rows(s) : t[j] = s[k]
             /\ \A j \in 1 .. i - 1 : t[j] = s[j]
<1>1. PICK t : t = RemoveAt(s, i)
  OBVIOUS
<1>2. /\ t \in Seq(Objects) /\ Len(t) = Len(s) - 1 /\ Len(s) \in Nat
      /\ \A j \in 1 .. Len(s) - 1 : t[j] = IF j < i THEN s[j] ELSE s[j + 1]
  BY <1>1, RemoveAtProperties, LenProperties DEF Rows
<1>3. \A j \in Rows(t) : t[j] = s[IF j < i THEN j ELSE j + 1]
  BY <1>2 DEF Rows
<1>4. \A j \in Rows(t) : (IF j < i THEN j ELSE j + 1) \in Rows(s) \ {i}
  BY <1>2 DEF Rows
<1>5. DistinctKeys(t)
  BY <1>3, <1>4 DEF DistinctKeys, Rows
<1>6. \A j \in Rows(t) : \E k \in Rows(s) : t[j] = s[k] /\ k # i
  BY <1>3, <1>4
<1>7. ASSUME NEW k \in Rows(s), k # i PROVE \E j \in Rows(t) : t[j] = s[k]
  <2>1. CASE k < i
    <3>1. k \in Rows(t) /\ t[k] = s[k]
      BY <1>2, <1>3, <2>1 DEF Rows
    <3>2. QED
      BY <3>1
  <2>2. CASE k > i
    <3>1. k - 1 \in Rows(t) /\ ~(k - 1 < i) /\ (k - 1) + 1 = k
      BY <1>2, <2>2 DEF Rows
    <3>2. t[k - 1] = s[k]
      BY <1>3, <3>1
    <3>3. QED
      BY <3>1, <3>2
  <2>3. QED
    BY <1>7, <2>1, <2>2 DEF Rows
<1>8. \A k \in Rows(s) : s[k].key = s[i].key => k = i
  BY DEF DistinctKeys
<1>9. KeysOf(t) = KeysOf(s) \ {s[i].key}
  BY <1>6, <1>7, <1>8 DEF KeysOf
<1>10. \A j \in 1 .. i - 1 : t[j] = s[j]
  BY <1>2 DEF Rows
<1>11. QED
  BY <1>1, <1>2, <1>5, <1>6, <1>9, <1>10

LEMMA InsertedKeys ==
  ASSUME NEW s \in Seq(Objects), DistinctKeys(s), NEW i \in 1 .. Len(s) + 1,
         NEW e \in Objects, e.key \notin KeysOf(s)
  PROVE  LET t == InsertAt(s, i, e)
         IN  /\ t \in Seq(Objects) /\ Len(t) = Len(s) + 1 /\ DistinctKeys(t)
             /\ KeysOf(t) = KeysOf(s) \cup {e.key}
             /\ \A j \in Rows(t) : t[j] = e \/ \E k \in Rows(s) : t[j] = s[k]
<1>1. PICK t : t = InsertAt(s, i, e)
  OBVIOUS
<1>2. /\ t \in Seq(Objects) /\ Len(t) = Len(s) + 1 /\ Len(s) \in Nat
      /\ \A j \in 1 .. Len(s) + 1 : t[j] = IF j < i THEN s[j] ELSE IF j = i THEN e ELSE s[j - 1]
  <2>1. /\ InsertAt(s, i, e) \in Seq(Objects) /\ Len(InsertAt(s, i, e)) = Len(s) + 1
        /\ IsInserted(InsertAt(s, i, e), s, i, e)
    BY InsertAtProperties
  <2>2. QED
    BY <1>1, <2>1, LenProperties DEF IsInserted
<1>3. \A j \in Rows(t) : j # i => t[j] = s[IF j < i THEN j ELSE j - 1]
  BY <1>2 DEF Rows
<1>4. \A j \in Rows(t) : j # i => (IF j < i THEN j ELSE j - 1) \in Rows(s)
  BY <1>2 DEF Rows
<1>5. i \in Rows(t) /\ t[i] = e
  BY <1>2 DEF Rows
<1>6. \A j \in Rows(t) : j # i => \E k \in Rows(s) : t[j] = s[k]
  BY <1>3, <1>4
<1>7. DistinctKeys(t)
  <2>1. ASSUME NEW j \in Rows(t), NEW k \in Rows(t), t[j].key = t[k].key, j # i, k # i PROVE j = k
    <3>1. PICK a \in Rows(s) : a = IF j < i THEN j ELSE j - 1
      BY <1>4, <2>1
    <3>2. PICK b \in Rows(s) : b = IF k < i THEN k ELSE k - 1
      BY <1>4, <2>1
    <3>3. t[j] = s[a] /\ t[k] = s[b]
      BY <1>3, <2>1, <3>1, <3>2
    <3>4. a = b
      BY <2>1, <3>3 DEF DistinctKeys
    <3>5. QED
      BY <2>1, <3>1, <3>2, <3>4 DEF Rows
  <2>2. \A j \in Rows(t) : j # i => t[j].key # e.key
    BY <1>6 DEF KeysOf
  <2>3. QED
    BY <1>5, <2>1, <2>2 DEF DistinctKeys
<1>8. ASSUME NEW k \in Rows(s) PROVE \E j \in Rows(t) : t[j] = s[k]
  <2>1. CASE k < i
    <3>1. k \in Rows(t) /\ k # i /\ t[k] = s[k]
      BY <1>2, <1>3, <2>1 DEF Rows
    <3>2. QED
      BY <3>1
  <2>2. CASE k >= i
    <3>1. k + 1 \in Rows(t) /\ ~(k + 1 < i) /\ k + 1 # i /\ (k + 1) - 1 = k
      BY <1>2, <2>2 DEF Rows
    <3>2. t[k + 1] = s[k]
      BY <1>3, <3>1
    <3>3. QED
      BY <3>1, <3>2
  <2>3. QED
    BY <2>1, <2>2 DEF Rows
<1>9. KeysOf(t) = KeysOf(s) \cup {e.key}
  <2>1. ASSUME NEW j \in Rows(t) PROVE t[j].key \in KeysOf(s) \cup {e.key}
    BY <1>5, <1>6 DEF KeysOf
  <2>2. \A k \in Rows(s) : s[k].key \in KeysOf(t)
    BY <1>8 DEF KeysOf
  <2>3. e.key \in KeysOf(t)
    BY <1>5 DEF KeysOf
  <2>4. QED
    BY <2>1, <2>2, <2>3 DEF KeysOf
<1>10. \A j \in Rows(t) : t[j] = e \/ \E k \in Rows(s) : t[j] = s[k]
  BY <1>5, <1>6
<1>11. QED
  BY <1>1, <1>2, <1>7, <1>9, <1>10

LEMMA MovedKeys ==
  ASSUME NEW s \in Seq(Objects), DistinctKeys(s), NEW from \in Rows(s), NEW to \in Rows(s), from < to
  PROVE  LET t == InsertAt(RemoveAt(s, from), to, s[from])
         IN  /\ t \in Seq(Objects) /\ Len(t) = Len(s) /\ DistinctKeys(t) /\ KeysOf(t) = KeysOf(s)
             /\ \A j \in Rows(t) : \E k \in Rows(s) : t[j] = s[k]
             /\ \A j \in Rows(s) :
                  t[j] = IF j < from \/ j > to THEN s[j] ELSE IF j = to THEN s[from] ELSE s[j + 1]
<1>1. PICK t : t = InsertAt(RemoveAt(s, from), to, s[from])
  OBVIOUS
<1>2. Len(s) \in Nat /\ s[from] \in Objects /\ from \in 1 .. Len(s) /\ to \in 1 .. Len(s)
  BY LenProperties DEF Rows
<1>3. /\ t \in Seq(Objects) /\ Len(t) = Len(s)
      /\ \A j \in 1 .. Len(s) :
           t[j] = IF j < from \/ j > to THEN s[j] ELSE IF j = to THEN s[from] ELSE s[j + 1]
  <2>1. LET u == InsertAt(RemoveAt(s, from), to, s[from])
        IN  /\ u \in Seq(Objects) /\ Len(u) = Len(s)
            /\ \A j \in 1 .. Len(s) :
                 u[j] = IF j < from \/ j > to THEN s[j] ELSE IF j = to THEN s[from] ELSE s[j + 1]
    BY <1>2, MovedDownProperties
  <2>2. QED
    BY ONLY <1>1, <2>1
<1>4. PICK r \in Seq(Objects) : r = RemoveAt(s, from)
  BY <1>2, RemoveAtProperties
<1>5. /\ Len(r) = Len(s) - 1 /\ DistinctKeys(r) /\ KeysOf(r) = KeysOf(s) \ {s[from].key}
      /\ \A j \in Rows(r) : \E k \in Rows(s) : r[j] = s[k]
  BY <1>4, RemovedKeys
<1>6. to \in 1 .. Len(r) + 1 /\ s[from].key \notin KeysOf(r)
  BY <1>2, <1>5
<1>7. /\ DistinctKeys(t) /\ KeysOf(t) = KeysOf(r) \cup {s[from].key}
      /\ \A j \in Rows(t) : t[j] = s[from] \/ \E k \in Rows(r) : t[j] = r[k]
  <2>1. PICK e \in Objects : e = s[from]
    BY <1>2
  <2>2. DistinctKeys(r) /\ to \in 1 .. Len(r) + 1 /\ e.key \notin KeysOf(r)
    BY <1>5, <1>6, <2>1
  <2>3. LET u == InsertAt(r, to, e)
        IN  /\ u \in Seq(Objects) /\ Len(u) = Len(r) + 1 /\ DistinctKeys(u)
            /\ KeysOf(u) = KeysOf(r) \cup {e.key}
            /\ \A j \in Rows(u) : u[j] = e \/ \E k \in Rows(r) : u[j] = r[k]
    BY ONLY <2>2, r \in Seq(Objects), e \in Objects, InsertedKeys
  <2>4. t = InsertAt(r, to, e)
    BY <1>1, <1>4, <2>1
  <2>5. QED
    BY <2>1, <2>3, <2>4
<1>8. s[from].key \in KeysOf(s)
  BY DEF KeysOf
<1>9. KeysOf(t) = KeysOf(s)
  BY <1>5, <1>7, <1>8
<1>10. \A j \in Rows(t) : \E k \in Rows(s) : t[j] = s[k]
  BY <1>5, <1>7
<1>11. QED
  BY <1>1, <1>3, <1>7, <1>9, <1>10 DEF Rows

-----------------------------------------------------------------------------
(* The steps.                                                              *)

LEMMA SyncInit == Init => SyncInv
<1> SUFFICES ASSUME Init PROVE SyncInv
  OBVIOUS
<1>1. Len(<<>>) = 0 /\ Rows(<<>>) = {} /\ Power[0] \in Nat \ {0}
  BY PowerDef DEF Rows
<1>2. SyncType /\ ViewMatches
  BY <1>1 DEF Init, SyncType, ViewMatches, DistinctKeys
<1>3. ShowsInput /\ MovesBounded
  BY <1>1 DEF Init, ShowsInput, MovesBounded
<1>4. QED
  BY <1>1, <1>2, <1>3 DEF Init, SyncInv, Origins

LEMMA BeginInv ==
  ASSUME SyncInv, NEW items \in Inputs, Begin(items)
  PROVE  SyncInv'
<1>1. SyncType
  BY DEF SyncInv
<1>2. /\ model \in Seq(Objects) /\ Len(model) \in Nat
      /\ model' = [i \in 1 .. Len(model) |-> [model[i] EXCEPT !.kept = TRUE]]
      /\ \A i \in 1 .. Len(model) : model[i] \in Objects
  BY <1>1, ModelProperties DEF SyncType, Begin, Rows
<1>3. ASSUME NEW i \in 1 .. Len(model)
      PROVE  [model[i] EXCEPT !.kept = TRUE] \in Objects /\ [model[i] EXCEPT !.kept = TRUE].key = model[i].key
               /\ [model[i] EXCEPT !.kept = TRUE].kept
  BY <1>2 DEF Objects
<1>4. model' \in [1 .. Len(model) -> Objects]
  BY <1>2, <1>3
<1>5. model' \in Seq(Objects) /\ Len(model') = Len(model)
  BY <1>2, <1>4
<1>6. \A i \in Rows(model') : model'[i].key = model[i].key /\ model'[i].kept
  BY <1>2, <1>3, <1>5 DEF Rows
<1>7. DistinctKeys(model')
  BY <1>1, <1>5, <1>6 DEF DistinctKeys, SyncType, Rows
<1>8. SyncType' /\ ViewMatches'
  BY <1>1, <1>5, <1>7 DEF SyncType, ViewMatches, Begin
<1>9. Origins'
  BY <1>6 DEF Origins, Origin, Begin
<1>10. Removing'
  <2>1. row' = 1 /\ old' = {} /\ moves' = 0 /\ before' = model'
    BY DEF Begin
  <2>2. {model'[i].key : i \in 1 .. row' - 1} = {}
    BY <2>1
  <2>3. \A j \in Rows(before') : before'[j].key \in KeysOf(model')
    BY <2>1 DEF KeysOf
  <2>4. QED
    BY <1>2, <1>5, <2>1, <2>2, <2>3 DEF Removing
<1>11. QED
  BY <1>8, <1>9, <1>10 DEF SyncInv, Begin

LEMMA RemoveRowInv ==
  ASSUME SyncInv, RemoveRow
  PROVE  SyncInv'
<1>1. SyncType /\ Removing /\ pass = "remove" /\ model \in Seq(Objects) /\ DistinctKeys(model) /\ row \in Rows(model)
      /\ Len(model) \in Nat
  BY ModelProperties DEF SyncInv, RemoveRow, SyncType, Rows
<1>2. model[row] \in Objects /\ model[row].key \in Keys
  BY <1>1, ModelProperties DEF Objects
<1>3. UNCHANGED <<before, input>>
  BY DEF RemoveRow
<1>4. CASE DesiredRow(model[row].key) = 0
  <2>1. /\ model' = RemoveAt(model, row) /\ view' = RemoveAt(view, row)
        /\ UNCHANGED <<row, old, input, pass, before, moves>>
    BY <1>4 DEF RemoveRow, RowRemoved
  <2>2. /\ model' \in Seq(Objects) /\ Len(model') = Len(model) - 1 /\ DistinctKeys(model')
        /\ KeysOf(model') = KeysOf(model) \ {model[row].key}
        /\ \A j \in Rows(model') : \E k \in Rows(model) : model'[j] = model[k]
        /\ \A j \in 1 .. row - 1 : model'[j] = model[j]
    BY <1>1, <2>1, RemovedKeys
  <2>3. model[row].key \notin ItemKeys(input)
    BY <1>1, <1>4, KeyInInput
  <2>4. SyncType' /\ ViewMatches'
    BY <1>1, <2>1, <2>2 DEF SyncType, ViewMatches, SyncInv
  <2>5. Origins'
    BY <1>3, <2>2 DEF SyncInv, Origins
  <2>6. Removing'
    <3>1. row' <= Len(model') + 1 /\ moves' = 0
      BY <1>1, <2>1, <2>2 DEF Removing, Rows
    <3>2. old' = {model'[i].key : i \in 1 .. row' - 1} /\ old' \subseteq ItemKeys(input')
      BY <1>1, <2>1, <2>2 DEF Removing
    <3>3. \A j \in Rows(before') : before'[j].key \in ItemKeys(input') => before'[j].key \in KeysOf(model')
      BY <1>1, <2>1, <2>2, <2>3 DEF Removing
    <3>4. QED
      BY <3>1, <3>2, <3>3 DEF Removing
  <2>7. QED
    BY <1>1, <2>1, <2>4, <2>5, <2>6 DEF SyncInv
<1>5. CASE DesiredRow(model[row].key) # 0
  <2>1. /\ old' = old \cup {model[row].key} /\ row' = row + 1
        /\ UNCHANGED <<model, view, input, pass, before, moves>>
    BY <1>5 DEF RemoveRow
  <2>2. model[row].key \in ItemKeys(input)
    BY <1>1, <1>5, KeyInInput
  <2>3. SyncType' /\ ViewMatches'
    BY <1>1, <1>2, <2>1 DEF SyncType, ViewMatches, SyncInv
  <2>4. Removing'
    <3>1. 1 .. (row + 1) - 1 = (1 .. row - 1) \cup {row}
      BY <1>1 DEF Rows
    <3>2. old' = {model[i].key : i \in 1 .. (row + 1) - 1}
      BY <1>1, <2>1, <3>1 DEF Removing
    <3>3. row' <= Len(model') + 1
      BY <1>1, <2>1 DEF Rows
    <3>4. QED
      BY <1>1, <2>1, <2>2, <3>2, <3>3 DEF Removing
  <2>5. QED
    BY <1>1, <1>3, <2>1, <2>3, <2>4 DEF SyncInv, Origins
<1>6. QED
  BY <1>4, <1>5

LEMMA EndRemoveInv ==
  ASSUME SyncInv, EndRemove
  PROVE  SyncInv'
<1>1. SyncType /\ Removing /\ pass = "remove" /\ row = Len(model) + 1 /\ Len(model) \in Nat
  BY ModelProperties DEF SyncInv, EndRemove, Removing, SyncType
<1>2. UNCHANGED <<input, model, view, old, before, moves>> /\ pass' = "insert" /\ row' = 1
  BY DEF EndRemove, NextPass
<1>3. KeysOf(model) = old
  BY <1>1 DEF Removing, KeysOf, Rows
<1>4. SyncType' /\ ViewMatches'
  BY <1>1, <1>2 DEF SyncType, ViewMatches, SyncInv
<1>5. UNCHANGED <<before, input>>
  BY <1>2 DEF EndRemove
<1>6. Inserting'
  <2>1. Len(input) \in Nat
    BY <1>1, InputProperties
  <2>2. KeysOf(model') = old' \cup FirstKeys(input', row' - 1)
    BY <1>2, <1>3 DEF FirstKeys
  <2>3. QED
    BY <1>1, <1>2, <1>3, <2>1, <2>2 DEF Removing, Inserting
<1>7. QED
  BY <1>2, <1>4, <1>5, <1>6 DEF SyncInv, Origins

(* The items up to the row are all in the model, so the row is within it.  *)
LEMMA RowInModel ==
  ASSUME SyncType, Inserting
  PROVE  row - 1 <= Len(model)
<1> DEFINE at(i) == CHOOSE j \in Rows(model) : model[j].key = KeyOf(input[i])
           f == [i \in 1 .. row - 1 |-> at(i)]
<1>1. /\ Len(model) \in Nat /\ Len(input) \in Nat /\ row - 1 \in Nat /\ row - 1 <= Len(input)
  BY ModelProperties, InputProperties DEF SyncType, Inserting
<1>2. ASSUME NEW i \in 1 .. row - 1 PROVE at(i) \in Rows(model) /\ model[at(i)].key = KeyOf(input[i])
  <2>1. KeyOf(input[i]) \in KeysOf(model)
    BY DEF Inserting, FirstKeys
  <2>2. \E j \in Rows(model) : model[j].key = KeyOf(input[i])
    BY <2>1 DEF KeysOf
  <2>3. QED
    BY <2>2
<1> HIDE DEF at
<1>3. f \in [1 .. row - 1 -> 1 .. Len(model)]
  BY <1>2 DEF Rows
<1>4. ASSUME NEW i \in 1 .. row - 1, NEW j \in 1 .. row - 1, f[i] = f[j] PROVE i = j
  <2>1. KeyOf(input[i]) = KeyOf(input[j]) /\ i \in Rows(input) /\ j \in Rows(input)
    BY <1>1, <1>2, <1>4 DEF Rows
  <2>2. QED
    BY <2>1, InputProperties
<1> HIDE DEF f
<1>5. QED
  BY <1>1, <1>3, <1>4, Pigeonhole

LEMMA InsertRowInv ==
  ASSUME SyncInv, InsertRow
  PROVE  SyncInv'
<1>1. /\ SyncType /\ Inserting /\ pass = "insert" /\ model \in Seq(Objects) /\ DistinctKeys(model)
      /\ row \in Rows(input) /\ row \in Nat \ {0} /\ Len(model) \in Nat /\ Len(input) \in Nat
  BY ModelProperties, InputProperties DEF SyncInv, InsertRow, SyncType, Rows
<1>2. PICK item \in Items : item = input[row]
  BY <1>1, InputProperties
<1>3. UNCHANGED <<before, input>>
  BY DEF InsertRow
<1>4. /\ row' = row + 1 /\ UNCHANGED <<input, pass, old, before, moves>>
  BY DEF InsertRow
<1>5. 1 .. row' - 1 = (1 .. row - 1) \cup {row} /\ row' <= Len(input) + 1 /\ row' \in Nat \ {0}
  BY <1>1, <1>4 DEF Rows
<1>6. FirstKeys(input, row' - 1) = FirstKeys(input, row - 1) \cup {KeyOf(item)}
  BY <1>2, <1>5 DEF FirstKeys
<1>7. CASE KeyOf(item) \notin old
  <2>1. model' = InsertAt(model, row, Create(item)) /\ view' = InsertAt(view, row, model'[row])
    BY <1>2, <1>7 DEF InsertRow, RowInserted
  <2>2. KeyOf(item) \notin KeysOf(model)
    <3>1. \A i \in 1 .. row - 1 : KeyOf(input[i]) # KeyOf(item)
      BY <1>1, <1>2, InputProperties DEF Rows
    <3>2. QED
      BY <1>1, <1>7, <3>1 DEF Inserting, FirstKeys
  <2>3. PICK e \in Objects : e = Create(item) /\ e.key = KeyOf(item)
    BY CreateProperties
  <2>4. row \in 1 .. Len(model) + 1
    BY <1>1, RowInModel
  <2>5. /\ model' \in Seq(Objects) /\ Len(model') = Len(model) + 1 /\ DistinctKeys(model')
        /\ KeysOf(model') = KeysOf(model) \cup {e.key}
        /\ \A j \in Rows(model') : model'[j] = e \/ \E k \in Rows(model) : model'[j] = model[k]
    BY <1>1, <2>1, <2>2, <2>3, <2>4, InsertedKeys
  <2>6. model'[row] = e
    <3>1. \A j \in 1 .. Len(model) + 1 :
            InsertAt(model, row, e)[j] = IF j < row THEN model[j] ELSE IF j = row THEN e ELSE model[j - 1]
      <4>1. IsInserted(InsertAt(model, row, e), model, row, e)
        BY <1>1, <2>4, e \in Objects, InsertAtProperties
      <4>2. QED
        BY <4>1 DEF IsInserted
    <3>2. InsertAt(model, row, e)[row] = e
      BY <1>1, <2>4, <3>1
    <3>3. QED
      BY <2>1, <2>3, <3>2
  <2>7. SyncType' /\ ViewMatches'
    BY <1>1, <1>4, <1>5, <2>1, <2>3, <2>5, <2>6 DEF SyncType, ViewMatches, SyncInv
  <2>8. Origin(e, before, input)
    <3>1. ~e.kept /\ \E i \in Rows(input) : e = Create(input[i])
      BY <1>1, <1>2, <2>3, CreateProperties
    <3>2. e.key \in ItemKeys(input)
      BY <1>1, <1>2, <2>3 DEF ItemKeys
    <3>3. \A j \in Rows(before) : before[j].key # e.key
      BY <1>1, <1>7, <2>3, <3>2 DEF Inserting
    <3>4. QED
      BY <3>1, <3>3 DEF Origin
  <2>9. Origins'
    BY <1>3, <2>5, <2>8 DEF SyncInv, Origins
  <2>10. Inserting'
    <3>1. KeysOf(model') = old' \cup FirstKeys(input', row' - 1)
      BY <1>1, <1>4, <1>6, <2>3, <2>5 DEF Inserting
    <3>2. QED
      BY <1>1, <1>4, <1>5, <3>1 DEF Inserting
  <2>11. QED
    BY <1>1, <1>4, <2>7, <2>9, <2>10 DEF SyncInv
<1>8. CASE KeyOf(item) \in old
  <2>1. UNCHANGED <<model, view>>
    BY <1>2, <1>8 DEF InsertRow
  <2>2. SyncType' /\ ViewMatches'
    BY <1>1, <1>4, <1>5, <2>1 DEF SyncType, ViewMatches, SyncInv
  <2>3. Inserting'
    <3>1. KeysOf(model') = old' \cup FirstKeys(input', row' - 1)
      BY <1>1, <1>4, <1>6, <1>8, <2>1 DEF Inserting
    <3>2. QED
      BY <1>1, <1>4, <1>5, <2>1, <3>1 DEF Inserting
  <2>4. QED
    BY <1>1, <1>3, <1>4, <2>1, <2>2, <2>3 DEF SyncInv, Origins
<1>9. QED
  BY <1>7, <1>8

(* Lists with the same keys have the same length.                          *)
LEMMA SameKeysSameLength ==
  ASSUME SyncType, Inserting, row = Len(input) + 1
  PROVE  KeysOf(model) = ItemKeys(input) /\ Len(model) = Len(input)
<1>1. Len(model) \in Nat /\ Len(input) \in Nat
  BY ModelProperties, InputProperties
<1>2. KeysOf(model) = ItemKeys(input)
  <2>1. FirstKeys(input, row - 1) = ItemKeys(input)
    BY <1>1 DEF FirstKeys, ItemKeys, Rows
  <2>2. QED
    BY <2>1 DEF Inserting
<1>3. Len(input) <= Len(model)
  BY <1>1, RowInModel
<1> DEFINE f == [i \in 1 .. Len(model) |-> DesiredRow(model[i].key)]
<1>4. ASSUME NEW i \in Rows(model) PROVE f[i] \in Rows(input) /\ KeyOf(input[f[i]]) = model[i].key
  <2>1. model[i].key \in ItemKeys(input)
    BY <1>2 DEF KeysOf
  <2>2. QED
    BY <2>1, KeyInInput DEF Rows
<1>5. f \in [1 .. Len(model) -> 1 .. Len(input)]
  BY <1>4 DEF Rows
<1>6. ASSUME NEW i \in 1 .. Len(model), NEW j \in 1 .. Len(model), f[i] = f[j] PROVE i = j
  <2>1. i \in Rows(model) /\ j \in Rows(model)
    BY DEF Rows
  <2>2. model[i].key = model[j].key
    BY <1>4, <1>6, <2>1
  <2>3. QED
    BY <2>1, <2>2 DEF SyncType, DistinctKeys
<1> HIDE DEF f
<1>7. Len(model) <= Len(input)
  BY <1>1, <1>5, <1>6, Pigeonhole
<1>8. QED
  BY <1>1, <1>2, <1>3, <1>7

LEMMA EndInsertInv ==
  ASSUME SyncInv, EndInsert
  PROVE  SyncInv'
<1>1. /\ SyncType /\ Inserting /\ row = Len(input) + 1
      /\ Len(model) \in Nat /\ Len(input) \in Nat
  BY ModelProperties, InputProperties DEF SyncInv, EndInsert, Inserting, SyncType
<1>2. UNCHANGED <<input, model, view, old, before, moves>> /\ pass' = "move" /\ row' = 1
  BY DEF EndInsert, NextPass
<1>3. SyncType' /\ ViewMatches' /\ Origins'
  BY <1>1, <1>2 DEF SyncType, ViewMatches, SyncInv, Origins
<1>4. Moving'
  <2>1. Len(model) = Len(input) /\ KeysOf(model) = ItemKeys(input)
    BY <1>1, SameKeysSameLength
  <2>2. moves' = 0 /\ Weight(Home')[Len(model')] \in Nat
    BY <1>1, <1>2, WeightDef DEF IsWeight, Inserting
  <2>3. 1 .. row' - 1 = {}
    BY <1>2
  <2>4. QED
    BY <1>1, <1>2, <2>1, <2>2, <2>3 DEF Moving
<1>5. QED
  BY <1>2, <1>3, <1>4 DEF SyncInv

(* A row that is not at home goes down: the rows above it are at home, so  *)
(* the home of its key is not among them.                                  *)
LEMMA MoveRowDown ==
  ASSUME SyncType, Moving, row \in Rows(model), NEW to, to = DesiredRow(model[row].key)
  PROVE  /\ to \in Rows(model) /\ to >= row /\ KeyOf(input[to]) = model[row].key
         /\ to = row => AtHome(row)
         /\ to # row => to \notin Home
<1>1. Len(model) \in Nat /\ Rows(input) = Rows(model)
  BY ModelProperties DEF Moving, Rows
<1>2. model[row].key \in ItemKeys(input)
  BY DEF Moving, KeysOf
<1>3. to \in Rows(model) /\ KeyOf(input[to]) = model[row].key
  BY <1>1, <1>2, KeyInInput
<1>4. to \in Home => to = row
  BY <1>3 DEF Home, AtHome, SyncType, DistinctKeys
<1>5. to >= row
  <2>1. SUFFICES ASSUME to < row PROVE FALSE
    BY <1>3 DEF Rows
  <2>2. to \in 1 .. row - 1
    BY <1>3, <2>1 DEF Rows
  <2>3. QED
    BY <1>4, <2>1, <2>2 DEF Moving, Rows
<1>6. QED
  BY <1>3, <1>4, <1>5 DEF AtHome

LEMMA MoveRowInv ==
  ASSUME SyncInv, MoveRow
  PROVE  SyncInv'
<1>1. /\ SyncType /\ Moving /\ pass = "move" /\ model \in Seq(Objects) /\ DistinctKeys(model)
      /\ row \in Rows(model) /\ row \in Nat \ {0} /\ Len(model) \in Nat /\ moves \in Nat /\ view = model
  BY ModelProperties DEF SyncInv, MoveRow, SyncType, Rows, ViewMatches
<1>2. PICK to : to = DesiredRow(model[row].key)
  OBVIOUS
<1>3. /\ to \in Rows(model) /\ to >= row /\ KeyOf(input[to]) = model[row].key
      /\ to = row => AtHome(row)
      /\ to # row => to \notin Home
  BY <1>1, <1>2, MoveRowDown
<1>4. UNCHANGED <<input, pass, old, before>> /\ to \in Nat /\ to # 0
  BY <1>3 DEF MoveRow, Rows
<1>5. CASE to # row
  <2>1. /\ model' = InsertAt(RemoveAt(model, row), to, model[row])
        /\ view' = RowMoved(row, to + IF to > row THEN 1 ELSE 0)
        /\ moves' = moves + 1 /\ row' = row
    BY <1>2, <1>4, <1>5 DEF MoveRow
  <2>2. to > row /\ (to + 1) - 1 = to
    BY <1>1, <1>3, <1>4, <1>5
  <2>3. view' = model'
    BY <1>1, <1>4, <2>1, <2>2 DEF RowMoved
  <2>4. /\ model' \in Seq(Objects) /\ Len(model') = Len(model) /\ DistinctKeys(model')
        /\ KeysOf(model') = KeysOf(model)
        /\ \A j \in Rows(model') : \E k \in Rows(model) : model'[j] = model[k]
        /\ \A j \in Rows(model) :
             model'[j] = IF j < row \/ j > to THEN model[j] ELSE IF j = to THEN model[row] ELSE model[j + 1]
    BY <1>1, <1>3, <2>1, <2>2, MovedKeys
  <2>5. SyncType' /\ ViewMatches'
    BY <1>1, <1>4, <2>1, <2>3, <2>4 DEF SyncType, ViewMatches
  <2>6. Origins'
    BY <1>4, <2>4 DEF SyncInv, Origins
  <2>7. Home' = {i \in Rows(model) : model'[i].key = KeyOf(input[i])}
    BY <1>4, <2>4 DEF Home, AtHome, Rows
  <2>8. to \in Home' /\ to \notin Home
    <3>1. model'[to] = model[row]
      <4>1. ~(to < row \/ to > to)
        BY <1>1, <1>4, <2>2
      <4>2. QED
        BY <1>3, <2>4, <4>1
    <3>2. QED
      BY <1>3, <1>5, <2>7, <3>1
  <2>9. \A p \in Nat : p > to => (p \in Home <=> p \in Home')
    <3>1. \A p \in Rows(model) : p > to => model'[p] = model[p]
      BY <2>4
    <3>2. QED
      BY <2>7, <3>1 DEF Home, AtHome
  <2>10. Weight(Home)[Len(model)] < Weight(Home')[Len(model)]
    <3>1. to >= 2 /\ Len(model) >= to
      BY <1>1, <1>3, <1>4, <2>2 DEF Rows
    <3>2. PICK H, K : H = Home /\ K = Home'
      OBVIOUS
    <3>3. to \in K /\ to \notin H /\ \A p \in Nat : p > to => (p \in H <=> p \in K)
      BY <2>8, <2>9, <3>2
    <3>4. \A n \in Nat : n >= to => Weight(H)[n] < Weight(K)[n]
      BY <1>4, <3>1, <3>3, WeightGains
    <3>5. QED
      BY <1>1, <3>1, <3>2, <3>4
  <2>11. Moving'
    <3>1. 1 .. row - 1 \subseteq Home'
      <4>1. ASSUME NEW j \in 1 .. row - 1 PROVE j \in Home'
        <5>1. j \in Home /\ j \in Rows(model) /\ j < row
          BY <1>1 DEF Moving, Home, Rows
        <5>2. model'[j] = model[j]
          BY <2>4, <5>1
        <5>3. QED
          BY <2>7, <5>1, <5>2 DEF Home, AtHome
      <4>2. QED
        BY <4>1
    <3>2. moves' <= Weight(Home')[Len(model')]
      <4>1. Weight(Home)[Len(model)] \in Nat /\ Weight(Home')[Len(model)] \in Nat
        BY <1>1, WeightDef DEF IsWeight
      <4>2. QED
        BY <1>1, <2>1, <2>4, <2>10, <4>1 DEF Moving
    <3>3. QED
      BY <1>1, <1>4, <2>1, <2>4, <3>1, <3>2 DEF Moving
  <2>12. QED
    BY <1>1, <1>4, <2>5, <2>6, <2>11 DEF SyncInv
<1>6. CASE to = row
  <2>1. row' = row + 1 /\ UNCHANGED <<model, view, moves>>
    BY <1>2, <1>4, <1>6 DEF MoveRow
  <2>2. SyncType' /\ ViewMatches' /\ Origins'
    BY <1>1, <1>4, <2>1 DEF SyncType, ViewMatches, SyncInv, Origins
  <2>3. Home' = Home
    BY <1>4, <2>1 DEF Home, AtHome
  <2>4. 1 .. row' - 1 \subseteq Home
    <3>1. row \in Home
      BY <1>1, <1>3, <1>6 DEF Home
    <3>2. 1 .. (row + 1) - 1 = (1 .. row - 1) \cup {row}
      BY <1>1
    <3>3. QED
      BY <1>1, <2>1, <3>1, <3>2 DEF Moving
  <2>5. row' <= Len(model') + 1
    BY <1>1, <2>1 DEF Rows
  <2>6. Moving'
    BY <1>1, <1>4, <2>1, <2>3, <2>4, <2>5 DEF Moving
  <2>7. QED
    BY <1>1, <1>4, <2>2, <2>6 DEF SyncInv
<1>7. QED
  BY <1>5, <1>6

LEMMA MovesBoundedDef ==
  ASSUME SyncType
  PROVE  MovesBounded <=> moves < Power[IF Len(model) = 0 THEN 0 ELSE Len(model) - 1]
<1>1. model = <<>> <=> Len(model) = 0
  BY EmptySeq DEF SyncType
<1>2. QED
  BY <1>1 DEF MovesBounded

LEMMA FewMoves ==
  ASSUME SyncType, moves = 0
  PROVE  MovesBounded
<1>1. (IF Len(model) = 0 THEN 0 ELSE Len(model) - 1) \in Nat
  BY ModelProperties
<1>2. Power[IF Len(model) = 0 THEN 0 ELSE Len(model) - 1] \in Nat \ {0}
  BY <1>1, PowerDef
<1>3. QED
  BY <1>2, MovesBoundedDef

LEMMA MovingBound ==
  ASSUME SyncType, Moving
  PROVE  MovesBounded
<1>1. moves <= Weight(Home)[Len(model)] /\ moves \in Nat /\ Len(model) \in Nat
  BY ModelProperties DEF Moving, SyncType
<1>2. CASE Len(model) = 0
  <2>1. Weight(Home)[0] = 0
    BY WeightDef DEF IsWeight
  <2>2. QED
    BY <1>1, <1>2, <2>1, FewMoves
<1>3. CASE Len(model) # 0
  <2>1. Len(model) - 1 \in Nat /\ Len(model) \in Nat \ {0}
    BY <1>1, <1>3
  <2>2. Weight(Home)[Len(model)] \in Nat /\ Weight(Home)[Len(model)] < Power[Len(model) - 1]
    BY <2>1, WeightBound
  <2>3. Power[Len(model) - 1] \in Nat
    BY <2>1, PowerDef
  <2>4. moves < Power[Len(model) - 1]
    BY <1>1, <2>2, <2>3
  <2>5. QED
    BY <1>3, <2>4, MovesBoundedDef
<1>4. QED
  BY <1>2, <1>3

LEMMA EndMoveInv ==
  ASSUME SyncInv, EndMove
  PROVE  SyncInv'
<1>1. /\ SyncType /\ Moving /\ row = Len(model) + 1
      /\ Len(model) \in Nat /\ Len(input) \in Nat /\ moves \in Nat
  BY ModelProperties, InputProperties DEF SyncInv, EndMove, Moving, SyncType
<1>2. UNCHANGED <<input, model, view, old, before, moves>> /\ pass' = "update" /\ row' = 1
  BY DEF EndMove, NextPass
<1>3. SyncType' /\ ViewMatches' /\ Origins'
  BY <1>1, <1>2 DEF SyncType, ViewMatches, SyncInv, Origins
<1>4. \A i \in Rows(model) : AtHome(i)
  BY <1>1 DEF Moving, Home, Rows
<1>5. MovesBounded
  BY <1>1, MovingBound
<1>6. Updating'
  <2>1. 1 .. row' - 1 = {}
    BY <1>2
  <2>2. QED
    BY <1>1, <1>2, <1>4, <1>5, <2>1 DEF Moving, Updating, AtHome, MovesBounded
<1>7. QED
  BY <1>2, <1>3, <1>6 DEF SyncInv

LEMMA UpdateRowInv ==
  ASSUME SyncInv, UpdateRow
  PROVE  SyncInv'
<1>1. /\ SyncType /\ Updating /\ pass = "update" /\ model \in Seq(Objects) /\ DistinctKeys(model)
      /\ row \in Rows(input) /\ row \in Rows(model) /\ row \in Nat \ {0}
      /\ Len(model) \in Nat /\ Len(input) \in Nat /\ view = model
  BY ModelProperties, InputProperties DEF SyncInv, UpdateRow, SyncType, Rows, Updating, ViewMatches
<1>2. PICK item \in Items : item = input[row]
  BY <1>1, InputProperties
<1>3. model[row].key = KeyOf(item) /\ model[row] \in Objects
  BY <1>1, <1>2, ModelProperties DEF Updating, AtHome
<1>4. row' = row + 1 /\ UNCHANGED <<input, pass, old, before, moves>>
  BY DEF UpdateRow
<1>5. 1 .. row' - 1 = (1 .. row - 1) \cup {row} /\ row' <= Len(input) + 1 /\ row' \in Nat \ {0}
  BY <1>1, <1>4 DEF Rows
<1>6. CASE model[row].type = TypeOf(item)
  <2>1. UNCHANGED <<model, view>>
    BY <1>2, <1>3, <1>6 DEF UpdateRow
  <2>2. SyncType' /\ ViewMatches' /\ Origins'
    BY <1>1, <1>4, <1>5, <2>1 DEF SyncType, ViewMatches, SyncInv, Origins
  <2>3. \A i \in 1 .. row' - 1 : model[i].type = TypeOf(input[i])
    BY <1>1, <1>2, <1>5, <1>6 DEF Updating
  <2>4. Updating'
    BY <1>1, <1>4, <1>5, <2>1, <2>3 DEF Updating, AtHome, MovesBounded
  <2>5. QED
    BY <1>1, <1>4, <2>2, <2>4 DEF SyncInv
<1>7. CASE model[row].type # TypeOf(item)
  <2>1. PICK e \in Objects : /\ e = Create(item) /\ e.key = KeyOf(item) /\ e.type = TypeOf(item)
                             /\ ~e.kept
    BY CreateProperties
  <2>2. model' = [model EXCEPT ![row] = e] /\ view' = [view EXCEPT ![row] = model'[row]]
    BY <1>2, <1>7, <2>1 DEF UpdateRow, DataChanged, ReplaceAt
  <2>3. /\ model' \in Seq(Objects) /\ Len(model') = Len(model)
        /\ \A j \in Rows(model) : model'[j] = IF j = row THEN e ELSE model[j]
    <3>1. row \in 1 .. Len(model)
      BY <1>1 DEF Rows
    <3>2. /\ [model EXCEPT ![row] = e] \in Seq(Objects)
          /\ Len([model EXCEPT ![row] = e]) = Len(model)
          /\ \A j \in 1 .. Len(model) : [model EXCEPT ![row] = e][j] = IF j = row THEN e ELSE model[j]
      BY <1>1, <3>1, ExceptSeq
    <3>3. QED
      BY <2>2, <3>2 DEF Rows
  <2>4. view' = model'
    BY <1>1, <2>2, <2>3
  <2>5. Rows(model') = Rows(model) /\ \A j \in Rows(model) : model'[j].key = model[j].key
    BY <1>3, <2>1, <2>3 DEF Rows
  <2>6. SyncType' /\ ViewMatches'
    BY <1>1, <1>4, <1>5, <2>3, <2>4, <2>5 DEF SyncType, ViewMatches, DistinctKeys
  <2>7. Origin(e, before, input)
    <3>1. \E i \in Rows(input) : e = Create(input[i])
      BY <1>1, <1>2, <2>1
    <3>2. Origin(model[row], before, input)
      BY <1>1 DEF SyncInv, Origins
    <3>3. PICK j \in Rows(before) : before[j] = model[row]
      <4>1. SUFFICES ASSUME NEW i \in Rows(input), model[row] = Create(input[i]) PROVE FALSE
        BY <3>2 DEF Origin
      <4>2. KeyOf(input[i]) = KeyOf(item) /\ TypeOf(input[i]) = model[row].type
        BY <1>1, <1>3, <4>1, InputProperties, CreateProperties
      <4>3. i = row
        BY <1>1, <1>2, <4>2, InputProperties
      <4>4. QED
        BY <1>2, <1>7, <4>2, <4>3
    <3>4. \A k \in Rows(before) : before[k].key = e.key => before[k].type # e.type
      BY <1>1, <1>3, <1>7, <2>1, <3>3 DEF SyncType, DistinctKeys
    <3>5. QED
      BY <2>1, <3>1, <3>4 DEF Origin
  <2>8. Origins'
    BY <1>4, <2>3, <2>5, <2>7 DEF SyncInv, Origins
  <2>9. MovesBounded'
    BY <1>1, <1>4, <2>2, <2>3, EmptySeq DEF Updating, MovesBounded
  <2>10. \A i \in 1 .. row' - 1 : model'[i].type = TypeOf(input[i])
    <3>1. ASSUME NEW i \in 1 .. row' - 1 PROVE model'[i].type = TypeOf(input[i])
      <4>1. CASE i = row
        BY <1>1, <1>2, <2>1, <2>3, <4>1
      <4>2. CASE i # row
        <5>1. i \in 1 .. row - 1 /\ i \in Rows(model)
          BY <1>1, <1>4, <4>2 DEF Rows
        <5>2. QED
          BY <1>1, <2>3, <4>2, <5>1 DEF Updating
      <4>3. QED
        BY <4>1, <4>2
    <3>2. QED
      BY <3>1
  <2>11. \A i \in Rows(model') : model'[i].key = KeyOf(input[i])
    BY <1>1, <2>5 DEF Updating, AtHome
  <2>12. Updating'
    BY <1>1, <1>4, <1>5, <2>3, <2>9, <2>10, <2>11 DEF Updating, AtHome
  <2>13. QED
    BY <1>1, <1>4, <2>6, <2>8, <2>12 DEF SyncInv
<1>8. QED
  BY <1>6, <1>7

LEMMA EndUpdateInv ==
  ASSUME SyncInv, EndUpdate
  PROVE  SyncInv'
<1>1. /\ SyncType /\ Updating /\ row = Len(input) + 1
      /\ Len(model) \in Nat /\ Len(input) \in Nat /\ DOMAIN input = Rows(input)
  BY ModelProperties, InputProperties DEF SyncInv, EndUpdate, Updating, SyncType
<1>2. UNCHANGED <<input, model, view, old, before, moves>> /\ pass' = "done" /\ row' = 1
  BY DEF EndUpdate, NextPass
<1>3. SyncType' /\ ViewMatches' /\ Origins'
  BY <1>1, <1>2 DEF SyncType, ViewMatches, SyncInv, Origins
<1>4. Len(model) = Len(input) /\ \A i \in DOMAIN input :
         model[i].key = KeyOf(input[i]) /\ model[i].type = TypeOf(input[i])
  BY <1>1 DEF Updating, AtHome, Rows
<1>5. ShowsInput' /\ MovesBounded'
  BY <1>1, <1>2, <1>4 DEF ShowsInput, MovesBounded, Updating
<1>6. QED
  BY <1>2, <1>3, <1>5 DEF SyncInv

LEMMA ClearInv ==
  ASSUME SyncInv, Clear
  PROVE  SyncInv'
<1>1. Len(<<>>) = 0 /\ Rows(<<>>) = {} /\ Power[0] \in Nat \ {0}
  BY PowerDef DEF Rows
<1>2. model' = <<>> /\ view' = <<>> /\ input' = <<>> /\ before' = <<>> /\ moves' = 0 /\ pass' = "done"
  BY DEF Clear
<1>3. SyncType' /\ ViewMatches'
  BY <1>1, <1>2 DEF SyncInv, SyncType, ViewMatches, DistinctKeys, Clear
<1>4. ShowsInput' /\ MovesBounded'
  BY <1>1, <1>2 DEF ShowsInput, MovesBounded
<1>5. QED
  BY <1>1, <1>2, <1>3, <1>4 DEF SyncInv, Origins

LEMMA SyncStep == SyncInv /\ [Next]_vars => SyncInv'
<1> SUFFICES ASSUME SyncInv, [Next]_vars PROVE SyncInv'
  OBVIOUS
<1>1. CASE UNCHANGED vars
  <2>1. UNCHANGED <<input, model, view, pass, row, old, before, moves>>
    BY <1>1 DEF vars
  <2>2. SyncType' /\ ViewMatches' /\ Origins'
    BY <2>1 DEF SyncInv, SyncType, ViewMatches, Origins
  <2>3. /\ pass' = "remove" => Removing'
        /\ pass' = "insert" => Inserting'
    BY <2>1 DEF SyncInv, Removing, Inserting
  <2>4. Home' = Home
    BY <2>1 DEF Home, AtHome
  <2>5. /\ pass' = "move" => Moving'
        /\ pass' = "update" => Updating'
    BY <2>1, <2>4 DEF SyncInv, Moving, Updating, AtHome, MovesBounded
  <2>6. pass' = "done" => ShowsInput' /\ MovesBounded'
    BY <2>1 DEF SyncInv, ShowsInput, MovesBounded
  <2>7. QED
    BY <2>2, <2>3, <2>5, <2>6 DEF SyncInv
<1>2. QED
  BY <1>1, BeginInv, RemoveRowInv, EndRemoveInv, InsertRowInv, EndInsertInv, MoveRowInv, EndMoveInv,
     UpdateRowInv, EndUpdateInv, ClearInv DEF Next

-----------------------------------------------------------------------------
LEMMA OriginsKeep == SyncInv => ObjectsKept
<1> SUFFICES ASSUME SyncInv, NEW i \in DOMAIN model
             PROVE  model[i].kept <=> \E j \in DOMAIN before : before[j] = [model[i] EXCEPT !.kept = TRUE]
  BY DEF ObjectsKept
<1> DEFINE o == [model[i] EXCEPT !.kept = TRUE]
<1>1. SyncType /\ i \in Rows(model) /\ DOMAIN before = Rows(before) /\ model[i] \in Objects
  BY ModelProperties DEF SyncInv
<1>2. o.key = model[i].key /\ o.type = model[i].type /\ (model[i].kept => o = model[i])
  BY <1>1 DEF Objects
<1>3. Origin(model[i], before, input)
  BY <1>1 DEF SyncInv, Origins
<1> HIDE DEF o
<1>4. model[i].kept => \E j \in DOMAIN before : before[j] = o
  BY <1>1, <1>2, <1>3 DEF Origin
<1>5. ~model[i].kept => ~\E j \in DOMAIN before : before[j] = o
  BY <1>1, <1>2, <1>3 DEF Origin
<1>6. QED
  BY <1>4, <1>5 DEF o

(* After a call, and for the views within it, the model is the input with  *)
(* the objects that were there before, and the moves come to an end: for   *)
(* any items and any lists of them with distinct keys                      *)
(* (modelupdate.h:36-143).                                                 *)
THEOREM SynchronisedAlways == Spec => []Synchronised
<1>1. SyncInv => TypeOK
  <2> SUFFICES ASSUME SyncInv PROVE TypeOK
    OBVIOUS
  <2>1. SyncType /\ view = model /\ DOMAIN model = Rows(model)
    BY ModelProperties DEF SyncInv, ViewMatches
  <2>2. /\ pass \in {"remove", "move"} => row <= Len(model) + 1
        /\ pass \in {"insert", "update"} => row <= Len(input) + 1
    BY DEF SyncInv, Removing, Inserting, Moving, Updating
  <2>3. QED
    BY <2>1, <2>2 DEF SyncType, TypeOK, DistinctKeys
<1>2. SyncInv => MovesBounded
  <2> SUFFICES ASSUME SyncInv PROVE MovesBounded
    OBVIOUS
  <2>1. CASE pass \in {"remove", "insert"}
    BY <2>1, FewMoves DEF SyncInv, Removing, Inserting
  <2>2. CASE pass = "move"
    BY <2>2, MovingBound DEF SyncInv
  <2>3. QED
    BY <2>1, <2>2 DEF SyncInv, SyncType, Updating
<1>3. SyncInv => Synchronised
  BY <1>1, <1>2, OriginsKeep DEF SyncInv, Synchronised, ShowsInput
<1>4. QED
  BY SyncInit, SyncStep, <1>3, PTL DEF Spec

-----------------------------------------------------------------------------
(* The settings sheet: the inductive invariant.                            *)

Timers == [index : Nat, value : BOOLEAN]

(* The list of children is a list of some the aggregator has; it is not    *)
(* older than the aggregator's in what the user chose, unless a write      *)
(* failed.                                                                 *)
KidsStored ==
  /\ IsInjective(IdsOf(kids)) /\ Range(IdsOf(kids)) \subseteq Range(IdsOf(stored))
  /\ ~spoiled => Range(kids) \subseteq Range(stored)

(* Rows of children are in the order of the list, without those that were  *)
(* skipped.                                                                *)
KidRowsFollow ==
  /\ Range(kidRows) \subseteq Range(IdsOf(kids)) /\ Len(kidRows) <= Len(kids)
  /\ ~stale => kidRows = IdsOf(kids)

(* A timer of a child holds what was chosen, and the place of the child    *)
(* unless its row was toggled while another had none.                      *)
KidTimers ==
  \A c \in Children : kidPending[c] # NoValue =>
    /\ kidPending[c].index \in 1 .. Len(kids)
    /\ c \in Range(kidRows) /\ chosen[c] = kidPending[c].value
    /\ ~spoiled => kids[kidPending[c].index].id = c

(* So does a timer of a setting.                                           *)
SettingTimers == \A s \in Range(Settings) : pending[s] # NoValue => chosen[s] = pending[s]

(* Only a child the aggregator has can be chosen.                          *)
ChosenChildren == \A c \in Children : chosen[c] # NoValue => c \in Range(IdsOf(stored))

(* Once it is loaded the parser has what the file has.                     *)
ParserFollows == parser # NoFile /\ ~spoiled => parser = file

SettingsInv ==
  /\ SheetTypeOK /\ rows \in Seq(Range(Settings)) /\ kidPending \in [Children -> Timers \cup {NoValue}]
  /\ used \in [changes : Nat, faults : Nat]
  /\ KidsStored /\ KidRowsFollow /\ KidTimers /\ SettingTimers /\ ChosenChildren /\ ParserFollows
  /\ ChosenIsKept /\ KnownChildrenHaveRows

-----------------------------------------------------------------------------
(* Lists of children.                                                      *)
KidsHave(list, c) == \E i \in 1 .. Len(list) : list[i].id = c

LEMMA IdsOfProperties ==
  ASSUME NEW list \in Seq(Kids)
  PROVE  /\ IdsOf(list) \in Seq(Children) /\ Len(IdsOf(list)) = Len(list) /\ Len(list) \in Nat
         /\ \A i \in 1 .. Len(list) : /\ IdsOf(list)[i] = list[i].id /\ list[i].id \in Range(IdsOf(list))
                                      /\ list[i].id \in Children /\ list[i].enabled \in BOOLEAN
                                      /\ list[i] \in Range(list)
         /\ \A c : c \in Range(IdsOf(list)) <=> KidsHave(list, c)
         /\ Range(IdsOf(list)) \subseteq Children
         /\ IsInjective(IdsOf(list)) <=>
              \A i, j \in 1 .. Len(list) : list[i].id = list[j].id => i = j
<1>1. Len(list) \in Nat /\ DOMAIN list = 1 .. Len(list) /\ \A i \in 1 .. Len(list) : list[i] \in Kids
  BY LenProperties
<1>2. \A i \in 1 .. Len(list) : list[i].id \in Children /\ list[i].enabled \in BOOLEAN
  BY <1>1 DEF Kids
<1>3. PICK ids : ids = IdsOf(list)
  OBVIOUS
<1>4. DOMAIN ids = 1 .. Len(list) /\ \A i \in 1 .. Len(list) : ids[i] = list[i].id
  BY <1>3 DEF IdsOf
<1>5. ids \in Seq(Children) /\ Len(ids) = Len(list)
  <2>1. IdsOf(list) \in Seq(Children)
    BY <1>1, <1>2 DEF IdsOf
  <2>2. QED
    BY <1>1, <1>3, <1>4, <2>1, LenProperties
<1>6. /\ \A c : c \in Range(ids) <=> KidsHave(list, c)
      /\ \A i \in 1 .. Len(list) : list[i].id \in Range(ids) /\ list[i] \in Range(list)
  BY <1>1, <1>4 DEF Range, KidsHave
<1>7. Range(ids) \subseteq Children
  BY <1>2, <1>4 DEF Range
<1>8. IsInjective(ids) <=> \A i, j \in 1 .. Len(list) : list[i].id = list[j].id => i = j
  BY <1>4 DEF IsInjective
<1>9. QED
  BY <1>1, <1>2, <1>3, <1>4, <1>5, <1>6, <1>7, <1>8

(* A list that names no child twice says one thing of each.                *)
LEMMA EnabledInProperties ==
  ASSUME NEW list \in Seq(Kids), IsInjective(IdsOf(list))
  PROVE  /\ \A i \in 1 .. Len(list) : EnabledIn(list, list[i].id) = list[i].enabled
         /\ \A k \in Range(list), l \in Range(list) : k.id = l.id => k = l
<1>1. /\ Len(list) \in Nat /\ DOMAIN list = 1 .. Len(list)
      /\ \A i \in 1 .. Len(list) : list[i] \in Kids /\ list[i] \in Range(list)
      /\ \A i, j \in 1 .. Len(list) : list[i].id = list[j].id => i = j
      /\ \A k \in Range(list) : \E i \in 1 .. Len(list) : list[i] = k
  BY IdsOfProperties, RangeProperties
<1>2. ASSUME NEW k \in Range(list), NEW l \in Range(list), k.id = l.id PROVE k = l
  <2>1. PICK i \in 1 .. Len(list), j \in 1 .. Len(list) : list[i] = k /\ list[j] = l
    BY <1>1
  <2>2. QED
    BY <1>1, <1>2, <2>1
<1>3. ASSUME NEW i \in 1 .. Len(list) PROVE EnabledIn(list, list[i].id) = list[i].enabled
  <2>1. list[i] \in Kids /\ list[i] \in Range(list)
    BY <1>1
  <2>2. CASE list[i].enabled = TRUE
    <3>1. list[i] = [id |-> list[i].id, enabled |-> TRUE]
      BY <2>1, <2>2 DEF Kids
    <3>2. QED
      BY <2>1, <2>2, <3>1 DEF EnabledIn
  <2>3. CASE list[i].enabled = FALSE
    <3>1. ASSUME NEW k \in Range(list), k = [id |-> list[i].id, enabled |-> TRUE] PROVE FALSE
      <4>1. k.id = list[i].id /\ k.enabled = TRUE
        BY <3>1
      <4>2. k = list[i]
        BY <1>2, <2>1, <4>1
      <4>3. QED
        BY <2>3, <4>1, <4>2
    <3>2. EnabledIn(list, list[i].id) = FALSE
      BY <3>1 DEF EnabledIn
    <3>3. QED
      BY <2>3, <3>2
  <2>4. list[i].enabled \in BOOLEAN
    BY <2>1 DEF Kids
  <2>5. QED
    BY <2>2, <2>3, <2>4
<1>4. QED
  BY <1>2, <1>3

-----------------------------------------------------------------------------
(* Steps in general.                                                       *)
LEMMA UseProperties ==
  ASSUME used \in [changes : Nat, faults : Nat]
  PROVE  /\ Use("changes") => used' \in [changes : Nat, faults : Nat] /\ used'.faults = used.faults
         /\ Use("faults") => used' \in [changes : Nat, faults : Nat] /\ used'.faults # 0
<1>1. QED
  BY DEF Use

LEMMA FaultsProperties ==
  ASSUME SettingsInv, NEW throws \in BOOLEAN, FaultsOf(throws)
  PROVE  /\ used' \in [changes : Nat, faults : Nat]
         /\ used'.faults = 0 => used.faults = 0 /\ ~throws
<1>1. used \in [changes : Nat, faults : Nat]
  BY DEF SettingsInv
<1>2. CASE throws
  BY <1>1, <1>2, UseProperties DEF FaultsOf
<1>3. CASE ~throws
  BY <1>1, <1>3 DEF FaultsOf
<1>4. QED
  BY <1>2, <1>3

(* The aggregator's list taken over, with rows for those in metadata.      *)
ListTaken(metadata) ==
  /\ kids' = stored /\ kidRows' = Selected(IdsOf(stored), metadata)
  /\ stale' = (\E c \in Range(IdsOf(stored)) : c \notin metadata)
  /\ stored' = stored

LEMMA ListTakenInv ==
  ASSUME SettingsInv, NEW metadata, ListTaken(metadata)
  PROVE  /\ kids' \in Seq(Kids) /\ kidRows' \in Seq(Children) /\ stale' \in BOOLEAN
         /\ stored' \in Seq(Kids) /\ IsInjective(IdsOf(stored'))
         /\ KidsStored' /\ KidRowsFollow'
         /\ \A i \in 1 .. Len(kids') : kids'[i].id \in metadata => kids'[i].id \in Range(kidRows')
<1>1. stored \in Seq(Kids) /\ IsInjective(IdsOf(stored))
  BY DEF SettingsInv, SheetTypeOK
<1>2. PICK ids : ids = IdsOf(stored)
  OBVIOUS
<1>3. /\ ids \in Seq(Children) /\ Len(ids) = Len(stored)
      /\ \A i \in 1 .. Len(stored) : ids[i] = stored[i].id /\ stored[i].id \in Range(ids)
  BY <1>1, <1>2, IdsOfProperties
<1>4. PICK chosenRows : chosenRows = Selected(ids, metadata)
  OBVIOUS
<1>5. /\ chosenRows \in Seq(Children) /\ Len(chosenRows) <= Len(ids)
      /\ Range(chosenRows) = Range(ids) \cap metadata
  BY <1>3, <1>4, SelectedProperties
<1>6. Range(ids) \subseteq metadata => chosenRows = ids
  BY <1>3, <1>4, SelectedAll
<1>7. /\ kids' = stored /\ stored' = stored /\ kidRows' = chosenRows /\ stale' \in BOOLEAN
      /\ ~stale' => Range(ids) \subseteq metadata
  BY <1>2, <1>4 DEF ListTaken
<1>8. IdsOf(kids)' = ids /\ IdsOf(stored)' = ids /\ IdsOf(stored') = ids
  BY <1>2, <1>7 DEF IdsOf
<1>9. KidsStored'
  BY <1>1, <1>2, <1>7, <1>8 DEF KidsStored
<1>10. KidRowsFollow'
  BY <1>3, <1>5, <1>6, <1>7, <1>8 DEF KidRowsFollow
<1>11. QED
  BY <1>1, <1>2, <1>3, <1>5, <1>7, <1>8, <1>9, <1>10

(* With the list the timers of its rows go, and the choices they held.     *)
LEMMA UpdateInv ==
  ASSUME SettingsInv, NEW metadata \in SUBSET Children, NEW throws \in BOOLEAN,
         update_child_scopes(throws, metadata, kidPending, chosen), FaultsOf(throws), known' = metadata,
         UNCHANGED <<denied, rows, parser, file, pending, stored, spoiled>>
  PROVE  SettingsInv'
<1>1. /\ used' \in [changes : Nat, faults : Nat]
      /\ used'.faults = 0 => used.faults = 0 /\ ~throws
  BY FaultsProperties
<1>2. CASE throws
  <2>1. UNCHANGED <<kids, kidRows, stale, kidPending, chosen>> /\ dirty' = FALSE
    BY <1>2 DEF update_child_scopes
  <2>2. SheetTypeOK'
    BY <2>1 DEF SettingsInv, SheetTypeOK, IdsOf
  <2>3. KidsStored' /\ KidRowsFollow' /\ KidTimers' /\ SettingTimers' /\ ChosenChildren' /\ ParserFollows'
    BY <2>1 DEF SettingsInv, KidsStored, KidRowsFollow, KidTimers, SettingTimers, ChosenChildren,
                ParserFollows, IdsOf
  <2>4. ChosenIsKept'
    BY <2>1 DEF SettingsInv, ChosenIsKept, EnabledIn
  <2>5. KnownChildrenHaveRows'
    BY <1>1, <1>2 DEF KnownChildrenHaveRows
  <2>6. QED
    BY <1>1, <2>1, <2>2, <2>3, <2>4, <2>5 DEF SettingsInv
<1>3. CASE ~throws
  <2>1. /\ ListTaken(metadata) /\ kidPending' = Idle /\ dirty' = FALSE
        /\ chosen' = [id \in Ids |-> IF id \in Children /\ kidPending[id] # NoValue
                                     THEN NoValue ELSE chosen[id]]
    BY <1>3 DEF update_child_scopes, ListTaken
  <2>2. /\ kids' \in Seq(Kids) /\ kidRows' \in Seq(Children) /\ stale' \in BOOLEAN
        /\ stored' \in Seq(Kids) /\ IsInjective(IdsOf(stored'))
        /\ KidsStored' /\ KidRowsFollow'
        /\ \A i \in 1 .. Len(kids') : kids'[i].id \in metadata => kids'[i].id \in Range(kidRows')
    BY <2>1, ListTakenInv
  <2>3. \A c \in Children : kidPending'[c] = NoValue
    BY <2>1 DEF Idle
  <2>4. /\ chosen' \in [Ids -> MaybeValues]
        /\ \A id \in Ids : chosen'[id] # NoValue =>
             chosen'[id] = chosen[id] /\ (id \in Children => kidPending[id] = NoValue)
        /\ \A s \in Range(Settings) : chosen'[s] = chosen[s]
    <3>1. chosen \in [Ids -> MaybeValues] /\ NoValue \in MaybeValues
      BY DEF SettingsInv, SheetTypeOK, MaybeValues
    <3>2. \A s \in Range(Settings) : s \in Ids /\ s \notin Children
      BY SettingsAssumption DEF Ids
    <3>3. QED
      BY <2>1, <3>1, <3>2
  <2>5. IdsOf(stored)' = IdsOf(stored') /\ \A c : EnabledIn(stored, c)' = EnabledIn(stored, c)
    BY DEF IdsOf, EnabledIn
  <2>6. SheetTypeOK'
    BY <2>1, <2>2, <2>3, <2>4, <2>5 DEF SettingsInv, SheetTypeOK
  <2>7. KidTimers' /\ ParserFollows'
    BY <2>3 DEF SettingsInv, KidTimers, ParserFollows
  <2>8. SettingTimers'
    BY <2>4 DEF SettingsInv, SettingTimers
  <2>9. ChosenChildren'
    BY <2>4, <2>5 DEF SettingsInv, ChosenChildren, Ids, IdsOf
  <2>10. ChosenIsKept'
    BY <2>3, <2>4, <2>5 DEF SettingsInv, ChosenIsKept
  <2>11. KnownChildrenHaveRows'
    BY <2>2 DEF KnownChildrenHaveRows
  <2>12. kidPending' \in [Children -> Timers \cup {NoValue}]
    BY <2>1 DEF Idle
  <2>13. QED
    BY <1>1, <2>2, <2>6, <2>7, <2>8, <2>9, <2>10, <2>11, <2>12 DEF SettingsInv
<1>4. QED
  BY <1>2, <1>3

LEMMA DispatchInv ==
  ASSUME SettingsInv, NEW throws \in BOOLEAN, Dispatch(throws)
  PROVE  SettingsInv'
<1>1. known \in SUBSET Children
  BY DEF SettingsInv, SheetTypeOK
<1>2. QED
  BY <1>1, UpdateInv DEF Dispatch

(* The metadata come: skipped children get their rows.                     *)
LEMMA MetadataRefreshedInv ==
  ASSUME SettingsInv, NEW found \in SUBSET Children, NEW throws \in BOOLEAN, MetadataRefreshed(found, throws)
  PROVE  SettingsInv'
<1>1. /\ known' = found /\ UNCHANGED <<denied, rows, parser, file, pending, stored, spoiled>>
  BY DEF MetadataRefreshed
<1>2. CASE stale
  BY <1>1, <1>2, UpdateInv DEF MetadataRefreshed
<1>3. CASE ~stale
  <2>1. UNCHANGED <<kids, kidRows, stale, kidPending, dirty, chosen, used>>
    BY <1>3 DEF MetadataRefreshed
  <2>2. SheetTypeOK'
    BY <1>1, <2>1 DEF SettingsInv, SheetTypeOK, IdsOf
  <2>3. KidsStored' /\ KidRowsFollow' /\ KidTimers' /\ SettingTimers' /\ ChosenChildren' /\ ParserFollows'
    BY <1>1, <2>1 DEF SettingsInv, KidsStored, KidRowsFollow, KidTimers, SettingTimers, ChosenChildren,
                      ParserFollows, IdsOf
  <2>4. ChosenIsKept'
    BY <1>1, <2>1 DEF SettingsInv, ChosenIsKept, EnabledIn
  <2>5. KnownChildrenHaveRows'
    <3>1. kids \in Seq(Kids) /\ kidRows = IdsOf(kids)
      BY <1>3 DEF SettingsInv, SheetTypeOK, KidRowsFollow
    <3>2. \A i \in 1 .. Len(kids) : kids[i].id \in Range(kidRows)
      BY <3>1, IdsOfProperties
    <3>3. QED
      BY <2>1, <3>2 DEF KnownChildrenHaveRows
  <2>6. QED
    BY <1>1, <2>1, <2>2, <2>3, <2>4, <2>5 DEF SettingsInv
<1>4. QED
  BY <1>2, <1>3

LEMMA KidInserted ==
  ASSUME NEW list \in Seq(Kids), NEW at \in 1 .. Len(list) + 1, NEW k \in Kids
  PROVE  Range(InsertAt(list, at, k)) = Range(list) \cup {k}
BY InsertAtRange

(* A new child has not been chosen, nor is it in the list yet.             *)
LEMMA NewChildInv ==
  ASSUME SettingsInv, NEW c \in Children, NewChild(c)
  PROVE  SettingsInv'
<1>1. /\ c \notin Range(IdsOf(stored)) /\ Use("changes")
      /\ UNCHANGED <<rows, parser, pending, kids, kidRows, stale, kidPending, denied, file, dirty, known,
                     chosen, spoiled>>
  BY DEF NewChild, sheet
<1>2. stored \in Seq(Kids) /\ IsInjective(IdsOf(stored))
  BY DEF SettingsInv, SheetTypeOK
<1>3. PICK k \in Kids : k = [id |-> c, enabled |-> TRUE]
  BY DEF Kids
<1>4. k.id = c
  BY <1>3
<1>5. PICK at \in 1 .. Len(stored) + 1 : stored' = InsertAt(stored, at, k)
  <2>1. Len(stored) \in Nat
    BY <1>2, LenProperties
  <2>2. 1 \in 1 .. Len(stored) + 1 /\ Len(stored) + 1 \in 1 .. Len(stored) + 1
    BY <2>1
  <2>3. PICK at \in {1, Len(stored) + 1} : stored' = InsertAt(stored, at, [id |-> c, enabled |-> TRUE])
    BY DEF NewChild
  <2>4. QED
    BY <1>3, <2>2, <2>3
<1>6. PICK new : new = stored'
  OBVIOUS
<1>7. /\ new \in Seq(Kids) /\ Len(new) = Len(stored) + 1 /\ Range(new) = Range(stored) \cup {k}
      /\ Len(stored) \in Nat /\ IsInserted(new, stored, at, k)
  <2>1. /\ InsertAt(stored, at, k) \in Seq(Kids) /\ Len(InsertAt(stored, at, k)) = Len(stored) + 1
        /\ IsInserted(InsertAt(stored, at, k), stored, at, k)
    BY <1>2, <1>3, InsertAtProperties
  <2>2. Range(InsertAt(stored, at, k)) = Range(stored) \cup {k}
    BY <1>2, <1>3, KidInserted
  <2>3. QED
    BY <1>2, <1>5, <1>6, <2>1, <2>2, LenProperties
<1>8. \A x : KidsHave(new, x) <=> KidsHave(stored, x) \/ x = c
  <2>1. \A list \in Seq(Kids) : \A x : KidsHave(list, x) <=> \E l \in Range(list) : l.id = x
    BY RangeProperties DEF KidsHave
  <2>2. QED
    BY <1>2, <1>4, <1>7, <2>1
<1>9. Range(IdsOf(new)) = Range(IdsOf(stored)) \cup {c}
  BY <1>2, <1>7, <1>8, IdsOfProperties
<1>10. IsInjective(IdsOf(new))
  <2>1. /\ \A i, j \in 1 .. Len(stored) : stored[i].id = stored[j].id => i = j
        /\ \A i \in 1 .. Len(stored) : stored[i].id # c
    BY <1>1, <1>2, IdsOfProperties
  <2>2. \A j \in 1 .. Len(stored) + 1 : new[j] = IF j < at THEN stored[j] ELSE IF j = at THEN k ELSE stored[j - 1]
    BY <1>7 DEF IsInserted
  <2>3. ASSUME NEW i \in 1 .. Len(stored) + 1
        PROVE  \/ i = at /\ new[i].id = c
               \/ \E a \in 1 .. Len(stored) : /\ new[i] = stored[a] /\ i # at
                                              /\ a = (IF i < at THEN i ELSE i - 1)
    <3>1. CASE i < at
      BY <1>7, <2>2, <3>1
    <3>2. CASE i = at
      BY <1>4, <2>2, <3>2
    <3>3. CASE i > at
      <4>1. i - 1 \in 1 .. Len(stored) /\ new[i] = stored[i - 1] /\ i # at /\ ~(i < at)
        BY <1>7, <2>2, <3>3
      <4>2. QED
        BY <4>1
    <3>4. QED
      BY <1>7, <3>1, <3>2, <3>3
  <2>4. ASSUME NEW i \in 1 .. Len(new), NEW j \in 1 .. Len(new), new[i].id = new[j].id PROVE i = j
    <3>1. CASE i = at /\ j = at
      BY <3>1
    <3>2. CASE i # at /\ j # at
      <4>1. PICK a \in 1 .. Len(stored) : new[i] = stored[a] /\ a = (IF i < at THEN i ELSE i - 1)
        BY <1>7, <2>3, <3>2
      <4>2. PICK b \in 1 .. Len(stored) : new[j] = stored[b] /\ b = (IF j < at THEN j ELSE j - 1)
        BY <1>7, <2>3, <3>2
      <4>3. a = b
        BY <2>1, <2>4, <4>1, <4>2
      <4>4. QED
        BY <3>2, <4>1, <4>2, <4>3
    <3>3. CASE i = at /\ j # at
      BY <1>7, <2>1, <2>3, <2>4, <3>3
    <3>4. CASE i # at /\ j = at
      BY <1>7, <2>1, <2>3, <2>4, <3>4
    <3>5. QED
      BY <3>1, <3>2, <3>3, <3>4
  <2>5. QED
    BY <1>7, <2>4, IdsOfProperties
<1>11. IdsOf(stored)' = IdsOf(new) /\ Range(stored)' = Range(new) /\ IdsOf(stored') = IdsOf(new)
  BY <1>6 DEF IdsOf
<1>12. \A d \in Children \ {c} : EnabledIn(stored, d)' = EnabledIn(stored, d)
  BY <1>3, <1>6, <1>7 DEF EnabledIn
<1>13. /\ used' \in [changes : Nat, faults : Nat] /\ used'.faults = used.faults
  BY <1>1, UseProperties DEF SettingsInv
<1>14. SheetTypeOK'
  BY <1>1, <1>6, <1>7, <1>10, <1>11 DEF SettingsInv, SheetTypeOK
<1>15. KidsStored'
  <2>1. IdsOf(kids)' = IdsOf(kids)
    BY <1>1 DEF IdsOf
  <2>2. QED
    BY <1>1, <1>7, <1>9, <1>11, <2>1 DEF SettingsInv, KidsStored
<1>16. KidRowsFollow' /\ KidTimers' /\ SettingTimers' /\ ParserFollows'
  BY <1>1 DEF SettingsInv, KidRowsFollow, KidTimers, SettingTimers, ParserFollows, IdsOf
<1>17. ChosenChildren'
  BY <1>1, <1>9, <1>11 DEF SettingsInv, ChosenChildren
<1>18. ChosenIsKept'
  <2>1. chosen[c] = NoValue
    BY <1>1 DEF SettingsInv, ChosenChildren
  <2>2. QED
    BY <1>1, <1>12, <2>1 DEF SettingsInv, ChosenIsKept
<1>19. KnownChildrenHaveRows'
  BY <1>1, <1>13 DEF SettingsInv, KnownChildrenHaveRows
<1>20. QED
  BY <1>1, <1>13, <1>14, <1>15, <1>16, <1>17, <1>18, <1>19 DEF SettingsInv

LEMMA InvalidateChildScopesInv ==
  ASSUME SettingsInv, InvalidateChildScopes
  PROVE  SettingsInv'
<1>1. /\ UNCHANGED <<rows, parser, pending, kids, kidRows, stale, kidPending, denied, file, stored, known,
                     chosen, spoiled, used>>
      /\ dirty' = TRUE
  BY DEF InvalidateChildScopes, sheet
<1>2. SheetTypeOK'
  BY <1>1 DEF SettingsInv, SheetTypeOK, IdsOf
<1>3. KidsStored' /\ KidRowsFollow' /\ KidTimers' /\ SettingTimers' /\ ChosenChildren' /\ ParserFollows'
  BY <1>1 DEF SettingsInv, KidsStored, KidRowsFollow, KidTimers, SettingTimers, ChosenChildren,
              ParserFollows, IdsOf
<1>4. ChosenIsKept' /\ KnownChildrenHaveRows'
  BY <1>1 DEF SettingsInv, ChosenIsKept, EnabledIn, KnownChildrenHaveRows
<1>5. QED
  BY <1>1, <1>2, <1>3, <1>4 DEF SettingsInv

(* A new model forgets all that waits.                                     *)
LEMMA LocationAccessChangedInv ==
  ASSUME SettingsInv, NEW throws \in BOOLEAN, LocationAccessChanged(throws)
  PROVE  SettingsInv'
<1>1. /\ used' \in [changes : Nat, faults : Nat]
      /\ used'.faults = 0 => used.faults = 0 /\ ~throws
  BY FaultsProperties DEF LocationAccessChanged
<1>2. /\ parser' = file /\ UNCHANGED <<file, stored, known, spoiled>> /\ dirty' = FALSE /\ kidPending' = Idle
      /\ denied' = ~denied
      /\ chosen' = [id \in Ids |-> IF (IF id \in Children THEN kidPending[id] ELSE pending[id]) # NoValue
                                   THEN NoValue ELSE chosen[id]]
      /\ pending' = [s \in Range(Settings) |-> NoValue] /\ rows' = RowsWith(denied)
  BY DEF LocationAccessChanged, NewModel
<1>3. rows' \in Seq(Range(Settings)) /\ Range(rows') \subseteq Range(Settings)
  <2>1. PICK P : rows' = Selected(Settings, P)
    BY <1>2 DEF RowsWith
  <2>2. QED
    BY <2>1, SelectedProperties, SettingsAssumption, Zenon
<1>4. /\ kids' \in Seq(Kids) /\ kidRows' \in Seq(Children) /\ stale' \in BOOLEAN
      /\ stored' \in Seq(Kids) /\ IsInjective(IdsOf(stored'))
      /\ KidsStored' /\ KidRowsFollow'
      /\ ~throws => \A i \in 1 .. Len(kids') : kids'[i].id \in known => kids'[i].id \in Range(kidRows')
  <2>1. CASE ~throws
    <3>1. ListTaken(known)
      BY <2>1 DEF LocationAccessChanged, ListTaken
    <3>2. QED
      BY <3>1, ListTakenInv
  <2>2. CASE throws
    <3>1. kids' = <<>> /\ kidRows' = <<>> /\ stale' = FALSE
      BY <2>2 DEF LocationAccessChanged
    <3>2. IdsOf(kids)' = <<>> /\ IdsOf(stored)' = IdsOf(stored) /\ IdsOf(stored') = IdsOf(stored)
      BY <1>2, <3>1 DEF IdsOf
    <3>3. IsInjective(<<>>) /\ Range(<<>>) = {}
      BY DEF IsInjective, Range
    <3>4. kids' \in Seq(Kids) /\ kidRows' \in Seq(Children) /\ Len(kidRows') <= Len(kids')
      BY <3>1, EmptySeq
    <3>5. KidsStored'
      BY <3>1, <3>2, <3>3 DEF KidsStored
    <3>6. KidRowsFollow'
      BY <3>1, <3>2, <3>3, <3>4 DEF KidRowsFollow
    <3>7. stored' \in Seq(Kids) /\ IsInjective(IdsOf(stored'))
      BY <1>2, <3>2 DEF SettingsInv, SheetTypeOK
    <3>8. QED
      BY <2>2, <3>1, <3>4, <3>5, <3>6, <3>7
  <2>3. QED
    BY <2>1, <2>2
<1>5. \A c \in Children : kidPending'[c] = NoValue
  BY <1>2 DEF Idle
<1>6. /\ chosen' \in [Ids -> MaybeValues]
      /\ \A id \in Ids : chosen'[id] # NoValue =>
           chosen'[id] = chosen[id] /\ (IF id \in Children THEN kidPending[id] ELSE pending[id]) = NoValue
  <2>1. chosen \in [Ids -> MaybeValues] /\ NoValue \in MaybeValues
    BY DEF SettingsInv, SheetTypeOK, MaybeValues
  <2>2. QED
    BY <1>2, <2>1
<1>7. IdsOf(stored)' = IdsOf(stored) /\ IdsOf(stored') = IdsOf(stored) /\ \A c : EnabledIn(stored, c)' = EnabledIn(stored, c)
  BY <1>2 DEF IdsOf, EnabledIn
<1>8. SheetTypeOK'
  <2>1. pending' \in [Range(Settings) -> MaybeValues]
    BY <1>2 DEF MaybeValues
  <2>2. QED
    BY <1>2, <1>3, <1>4, <1>5, <1>6, <2>1 DEF SettingsInv, SheetTypeOK
<1>9. KidTimers' /\ SettingTimers' /\ ParserFollows'
  BY <1>2, <1>5 DEF KidTimers, SettingTimers, ParserFollows
<1>10. ChosenChildren'
  BY <1>6, <1>7 DEF SettingsInv, ChosenChildren, Ids
<1>11. ChosenIsKept'
  BY <1>2, <1>6, <1>7 DEF SettingsInv, ChosenIsKept
<1>12. KnownChildrenHaveRows'
  BY <1>1, <1>2, <1>4 DEF KnownChildrenHaveRows
<1>13. kidPending' \in [Children -> Timers \cup {NoValue}]
  BY <1>2 DEF Idle
<1>14. QED
  BY <1>1, <1>3, <1>4, <1>8, <1>9, <1>10, <1>11, <1>12, <1>13 DEF SettingsInv

-----------------------------------------------------------------------------
(* Writes.                                                                 *)

(* The user chooses for a setting ...                                      *)
LEMMA SetSettingInv ==
  ASSUME SettingsInv, NEW at \in 1 .. Len(rows) + Len(kidRows), NEW v \in BOOLEAN, setData(at, v),
         at <= Len(rows)
  PROVE  SettingsInv'
<1>1. PICK s \in Range(Settings) : s = rows[at]
  <2>1. rows \in Seq(Range(Settings)) /\ Len(rows) \in Nat
    BY LenProperties DEF SettingsInv
  <2>2. QED
    BY <2>1, LenProperties
<1>2. /\ pending' = [pending EXCEPT ![s] = v] /\ chosen' = [chosen EXCEPT ![s] = v]
      /\ UNCHANGED <<kidPending, spoiled, denied, rows, parser, file, kids, kidRows, stale, dirty, stored, known>>
      /\ Use("changes")
  BY <1>1 DEF setData
<1>3. /\ s \in Ids /\ s \notin Children /\ v # NoValue /\ v \in MaybeValues
      /\ \A id \in Ids : id \in Children \/ id \in Range(Settings)
  BY SettingsAssumption DEF Ids, MaybeValues
<1>4. /\ pending \in [Range(Settings) -> MaybeValues] /\ chosen \in [Ids -> MaybeValues]
      /\ used \in [changes : Nat, faults : Nat]
  BY DEF SettingsInv, SheetTypeOK
<1>5. /\ pending' \in [Range(Settings) -> MaybeValues] /\ chosen' \in [Ids -> MaybeValues]
      /\ \A t \in Range(Settings) : pending'[t] = IF t = s THEN v ELSE pending[t]
      /\ \A id \in Ids : chosen'[id] = IF id = s THEN v ELSE chosen[id]
  BY <1>2, <1>3, <1>4
<1>6. /\ used' \in [changes : Nat, faults : Nat] /\ used'.faults = used.faults
  BY <1>2, <1>4, UseProperties
<1>7. \A c \in Children : c \in Ids /\ chosen'[c] = chosen[c]
  BY <1>3, <1>5 DEF Ids
<1>8. \A t \in Range(Settings) : t \in Ids /\ chosen'[t] = IF t = s THEN v ELSE chosen[t]
  BY <1>5 DEF Ids
<1>9. SheetTypeOK'
  BY <1>2, <1>5 DEF SettingsInv, SheetTypeOK, IdsOf
<1>10. KidsStored' /\ KidRowsFollow' /\ ParserFollows'
  BY <1>2 DEF SettingsInv, KidsStored, KidRowsFollow, ParserFollows, IdsOf
<1>11. KidTimers' /\ ChosenChildren'
  BY <1>2, <1>7 DEF SettingsInv, KidTimers, ChosenChildren, IdsOf
<1>12. SettingTimers'
  BY <1>5, <1>8 DEF SettingsInv, SettingTimers
<1>13. ChosenIsKept'
  <2>1. ASSUME ~spoiled, NEW id \in Ids, chosen'[id] # NoValue
        PROVE  IF id \in Children THEN kidPending[id] # NoValue \/ EnabledIn(stored, id) = chosen'[id]
               ELSE pending'[id] # NoValue \/ (file # NoFile /\ file[id] = chosen'[id])
    BY <1>3, <1>5, <2>1 DEF SettingsInv, ChosenIsKept
  <2>2. QED
    BY <1>2, <2>1 DEF ChosenIsKept, EnabledIn
<1>14. KnownChildrenHaveRows'
  BY <1>2, <1>6 DEF SettingsInv, KnownChildrenHaveRows
<1>15. QED
  BY <1>2, <1>6, <1>9, <1>10, <1>11, <1>12, <1>13, <1>14 DEF SettingsInv

(* ... or for a child, by its row, which is its place in the list only     *)
(* when none was skipped.                                                  *)
LEMMA SetChildInv ==
  ASSUME SettingsInv, NEW at \in 1 .. Len(rows) + Len(kidRows), NEW v \in BOOLEAN, setData(at, v),
         ~(at <= Len(rows))
  PROVE  SettingsInv'
<1>1. /\ rows \in Seq(Range(Settings)) /\ kidRows \in Seq(Children) /\ kids \in Seq(Kids)
      /\ Range(kidRows) \subseteq Range(IdsOf(kids)) /\ Len(kidRows) <= Len(kids)
  BY DEF SettingsInv, SheetTypeOK, KidRowsFollow
<1>2. Len(rows) \in Nat /\ Len(kidRows) \in Nat /\ Len(kids) \in Nat
  BY <1>1, LenProperties
<1>3. PICK i \in 1 .. Len(kidRows) : i = at - Len(rows)
  <2>1. PICK m \in Nat, n \in Nat : m = Len(rows) /\ n = Len(kidRows)
    BY <1>2
  <2>2. at \in 1 .. m + n /\ ~(at <= m)
    BY <2>1
  <2>3. at - m \in 1 .. n
    BY <2>2
  <2>4. QED
    BY <2>1, <2>3
<1>4. PICK c \in Children : c = kidRows[i]
  BY <1>1, <1>3, RangeProperties
<1>5. c \in Range(kidRows) /\ c \in Range(IdsOf(kids)) /\ i \in 1 .. Len(kids) /\ i \in Nat
  BY <1>1, <1>2, <1>3, <1>4, RangeProperties
<1>6. PICK t \in Timers : t = [index |-> i, value |-> v]
  BY <1>5 DEF Timers
<1>7. t # NoValue /\ t.index = i /\ t.value = v
  BY <1>6, SettingsAssumption DEF Timers
<1>8. /\ kidPending' = [kidPending EXCEPT ![c] = t] /\ chosen' = [chosen EXCEPT ![c] = v]
      /\ spoiled' = (spoiled \/ stale)
      /\ UNCHANGED <<pending, denied, rows, parser, file, kids, kidRows, stale, dirty, stored, known>>
      /\ Use("changes")
  BY <1>3, <1>4, <1>6 DEF setData
<1>9. /\ c \in Ids /\ c \notin Range(Settings) /\ v # NoValue /\ v \in MaybeValues
      /\ \A s \in Range(Settings) : s \in Ids /\ s \notin Children
  BY SettingsAssumption DEF Ids, MaybeValues
<1>10. /\ kidPending \in [Children -> Timers \cup {NoValue}] /\ chosen \in [Ids -> MaybeValues]
       /\ used \in [changes : Nat, faults : Nat] /\ spoiled \in BOOLEAN /\ stale \in BOOLEAN
  BY DEF SettingsInv, SheetTypeOK
<1>11. /\ kidPending' \in [Children -> Timers \cup {NoValue}] /\ chosen' \in [Ids -> MaybeValues]
       /\ \A d \in Children : kidPending'[d] = IF d = c THEN t ELSE kidPending[d]
       /\ \A id \in Ids : chosen'[id] = IF id = c THEN v ELSE chosen[id]
  BY <1>8, <1>9, <1>10
<1>12. /\ used' \in [changes : Nat, faults : Nat] /\ used'.faults = used.faults
  BY <1>8, <1>10, UseProperties
<1>13. \A s \in Range(Settings) : chosen'[s] = chosen[s]
  BY <1>9, <1>11
<1>14. \A d \in Children : d \in Ids
  BY DEF Ids
<1>15. spoiled' \in BOOLEAN /\ (~spoiled' => ~spoiled /\ ~stale)
  BY <1>8, <1>10
<1>16. ~stale => kids[i].id = c
  <2>1. ~stale => kidRows = IdsOf(kids)
    BY DEF SettingsInv, KidRowsFollow
  <2>2. IdsOf(kids)[i] = kids[i].id
    BY <1>1, <1>5, IdsOfProperties
  <2>3. QED
    BY <1>4, <2>1, <2>2
<1>17. SheetTypeOK'
  BY <1>5, <1>7, <1>8, <1>11, <1>15 DEF SettingsInv, SheetTypeOK, IdsOf
<1>18. KidsStored' /\ KidRowsFollow' /\ ParserFollows'
  BY <1>8, <1>15 DEF SettingsInv, KidsStored, KidRowsFollow, ParserFollows, IdsOf
<1>19. KidTimers'
  BY <1>5, <1>7, <1>8, <1>11, <1>14, <1>15, <1>16 DEF SettingsInv, KidTimers
<1>20. ChosenChildren'
  <2>1. Range(IdsOf(kids)) \subseteq Range(IdsOf(stored))
    BY DEF SettingsInv, KidsStored
  <2>2. QED
    BY <1>5, <1>8, <1>11, <1>14, <2>1 DEF SettingsInv, ChosenChildren, IdsOf
<1>21. SettingTimers'
  BY <1>8, <1>13 DEF SettingsInv, SettingTimers
<1>22. ChosenIsKept'
  <2>1. ASSUME ~spoiled', NEW id \in Ids, chosen'[id] # NoValue
        PROVE  IF id \in Children THEN kidPending'[id] # NoValue \/ EnabledIn(stored, id) = chosen'[id]
               ELSE pending[id] # NoValue \/ (file # NoFile /\ file[id] = chosen'[id])
    BY <1>7, <1>11, <1>15, <2>1 DEF SettingsInv, ChosenIsKept
  <2>2. QED
    BY <1>8, <2>1 DEF ChosenIsKept, EnabledIn
<1>23. KnownChildrenHaveRows'
  BY <1>8, <1>12 DEF SettingsInv, KnownChildrenHaveRows
<1>24. QED
  BY <1>8, <1>11, <1>12, <1>17, <1>18, <1>19, <1>20, <1>21, <1>22, <1>23 DEF SettingsInv

(* What is chosen goes into the list ...                                   *)
IsKidSet(new, list, i, v) == new = [list EXCEPT ![i].enabled = v]

LEMMA KidSet ==
  ASSUME NEW list \in Seq(Kids), NEW i \in 1 .. Len(list), NEW v \in BOOLEAN,
         NEW new, IsKidSet(new, list, i, v)
  PROVE  /\ new \in Seq(Kids) /\ Len(new) = Len(list) /\ Len(list) \in Nat
         /\ \A j \in 1 .. Len(list) : new[j].id = list[j].id /\ (j # i => new[j] = list[j])
         /\ new[i].enabled = v
         /\ IdsOf(new) = IdsOf(list)
<1>1. Len(list) \in Nat /\ DOMAIN list = 1 .. Len(list) /\ \A j \in 1 .. Len(list) : list[j] \in Kids
  BY LenProperties
<1>2. [list[i] EXCEPT !.enabled = v] \in Kids /\ [list[i] EXCEPT !.enabled = v].id = list[i].id
      /\ [list[i] EXCEPT !.enabled = v].enabled = v
  BY <1>1 DEF Kids
<1>3. PICK k \in Kids : k = [list[i] EXCEPT !.enabled = v] /\ k.id = list[i].id /\ k.enabled = v
  BY <1>2
<1>4. new = [list EXCEPT ![i] = k]
  BY <1>3 DEF IsKidSet
<1>5. new \in Seq(Kids) /\ Len(new) = Len(list)
  BY <1>4, ExceptSeq
<1>6. \A j \in 1 .. Len(list) : new[j] = IF j = i THEN k ELSE list[j]
  BY <1>1, <1>4
<1>7. \A j \in 1 .. Len(list) : new[j].id = list[j].id
  BY <1>3, <1>6
<1>8. IdsOf(new) = IdsOf(list)
  BY <1>5, <1>7 DEF IdsOf
<1>9. QED
  BY <1>1, <1>3, <1>5, <1>6, <1>7, <1>8

(* ... and the list to the aggregator, which has those children then and   *)
(* all that it had besides.                                                *)
LEMMA WithAllProperties ==
  ASSUME NEW list \in Seq(Kids), IsInjective(IdsOf(list)),
         stored \in Seq(Kids), IsInjective(IdsOf(stored)), NEW new, new = WithAll(list)
  PROVE  /\ new \in Seq(Kids) /\ IsInjective(IdsOf(new))
         /\ Range(new) = Range(list) \cup {k \in Range(stored) : k.id \notin Range(IdsOf(list))}
<1>1. PICK P : P = {k \in Range(stored) : k.id \notin Range(IdsOf(list))}
  OBVIOUS
<1>2. PICK rest : rest = Selected(stored, P)
  OBVIOUS
<1>3. new = list \o rest
  BY <1>1, <1>2 DEF WithAll
<1>4. rest \in Seq(Kids) /\ Range(rest) = Range(stored) \cap P
  BY <1>2, SelectedProperties
<1>5. \A j, k \in DOMAIN rest : j < k => \E a, b \in 1 .. Len(stored) : a < b /\ rest[j] = stored[a] /\ rest[k] = stored[b]
  BY <1>2, SelectedOrder
<1>6. /\ new \in Seq(Kids) /\ Len(new) = Len(list) + Len(rest)
      /\ \A i \in 1 .. Len(list) + Len(rest) : new[i] = IF i <= Len(list) THEN list[i] ELSE rest[i - Len(list)]
  BY <1>3, <1>4, ConcatProperties
<1>7. /\ Len(list) \in Nat /\ Len(rest) \in Nat /\ Len(stored) \in Nat /\ DOMAIN rest = 1 .. Len(rest)
      /\ DOMAIN list = 1 .. Len(list) /\ DOMAIN new = 1 .. Len(new)
  BY <1>4, <1>6, LenProperties
<1>8. PICK m \in Nat, n \in Nat : m = Len(list) /\ n = Len(rest)
  BY <1>7
<1>9. ASSUME NEW i \in 1 .. m + n
      PROVE  \/ i \in 1 .. m /\ new[i] = list[i]
             \/ i > m /\ i - m \in 1 .. n /\ new[i] = rest[i - m]
  <2>1. CASE i <= m
    <3>1. i \in 1 .. m
      BY <2>1
    <3>2. QED
      BY <1>6, <1>8, <2>1, <3>1
  <2>2. CASE ~(i <= m)
    <3>1. i > m /\ i - m \in 1 .. n
      BY <2>2
    <3>2. QED
      BY <1>6, <1>8, <2>2, <3>1
  <2>3. QED
    BY <2>1, <2>2
<1>10. /\ \A i \in 1 .. m : i \in 1 .. m + n /\ new[i] = list[i]
       /\ \A i \in 1 .. n : m + i \in 1 .. m + n /\ new[m + i] = rest[i]
  <2>1. ASSUME NEW i \in 1 .. m PROVE i \in 1 .. m + n /\ i <= m
    OBVIOUS
  <2>2. ASSUME NEW i \in 1 .. n PROVE m + i \in 1 .. m + n /\ ~(m + i <= m) /\ (m + i) - m = i
    OBVIOUS
  <2>3. ASSUME NEW i \in 1 .. m PROVE new[i] = list[i]
    BY <1>6, <1>8, <2>1
  <2>4. ASSUME NEW i \in 1 .. n PROVE new[m + i] = rest[i]
    <3>1. PICK j \in 1 .. m + n : j = m + i
      BY <2>2
    <3>2. new[j] = rest[j - m]
      BY <1>6, <1>8, <2>2, <3>1
    <3>3. QED
      BY ONLY <2>2, <3>1, <3>2, i \in 1 .. n
  <2>5. QED
    BY ONLY <2>1, <2>2, <2>3, <2>4
<1>11. Range(new) = Range(list) \cup P
  <2>1. Range(new) \subseteq Range(list) \cup Range(rest)
    BY <1>6, <1>7, <1>8, <1>9 DEF Range
  <2>2. Range(list) \subseteq Range(new) /\ Range(rest) \subseteq Range(new)
    <3>1. \A i \in 1 .. m + n : new[i] \in Range(new)
      BY <1>6, <1>7, <1>8 DEF Range
    <3>2. ASSUME NEW x \in Range(list) PROVE x \in Range(new)
      BY <1>7, <1>8, <1>10, <3>1 DEF Range
    <3>3. ASSUME NEW x \in Range(rest) PROVE x \in Range(new)
      <4>1. PICK i \in 1 .. n : x = rest[i]
        BY <1>7, <1>8 DEF Range
      <4>2. m + i \in 1 .. m + n /\ new[m + i] = rest[i]
        BY <1>10
      <4>3. QED
        BY ONLY <3>1, <4>1, <4>2
    <3>4. QED
      BY <3>2, <3>3
  <2>3. QED
    BY <1>1, <1>4, <2>1, <2>2
<1>12. ASSUME NEW j \in 1 .. n, NEW k \in 1 .. n, rest[j].id = rest[k].id PROVE ~(j < k)
  <2> SUFFICES ASSUME j < k PROVE FALSE
    OBVIOUS
  <2>1. PICK a \in 1 .. Len(stored), b \in 1 .. Len(stored) : a < b /\ rest[j] = stored[a] /\ rest[k] = stored[b]
    <3>1. j \in DOMAIN rest /\ k \in DOMAIN rest
      BY <1>7, <1>8
    <3>2. QED
      BY <1>5, <3>1
  <2>2. a = b
    BY <1>12, <2>1, IdsOfProperties
  <2>3. QED
    BY <1>7, <2>1, <2>2
<1>13. \A j \in 1 .. n, k \in 1 .. m : rest[j].id # list[k].id
  <2>1. ASSUME NEW j \in 1 .. n PROVE rest[j].id \notin Range(IdsOf(list))
    <3>1. rest[j] \in Range(rest)
      BY <1>4, <1>8, RangeProperties
    <3>2. QED
      BY <1>1, <1>4, <3>1
  <2>2. \A k \in 1 .. m : list[k].id \in Range(IdsOf(list))
    BY <1>8, IdsOfProperties
  <2>3. QED
    BY <2>1, <2>2
<1>14. \A i, j \in 1 .. m : list[i].id = list[j].id => i = j
  BY <1>8, IdsOfProperties
<1>15. ASSUME NEW i \in 1 .. m + n, NEW j \in 1 .. m + n, new[i].id = new[j].id PROVE i = j
  <2>1. CASE i \in 1 .. m /\ j \in 1 .. m
    BY <1>10, <1>14, <1>15, <2>1
  <2>2. CASE i \in 1 .. m /\ j \notin 1 .. m
    BY <1>9, <1>13, <1>15, <2>2
  <2>3. CASE i \notin 1 .. m /\ j \in 1 .. m
    BY <1>9, <1>13, <1>15, <2>3
  <2>4. CASE i \notin 1 .. m /\ j \notin 1 .. m
    <3>1. i - m \in 1 .. n /\ new[i] = rest[i - m] /\ j - m \in 1 .. n /\ new[j] = rest[j - m]
      BY <1>9, <2>4
    <3>2. ~(i - m < j - m) /\ ~(j - m < i - m)
      BY <1>12, <1>15, <3>1
    <3>3. QED
      BY <3>1, <3>2
  <2>5. QED
    BY <2>1, <2>2, <2>3, <2>4
<1>16. IsInjective(IdsOf(new))
  BY <1>6, <1>8, <1>15, IdsOfProperties
<1>17. QED
  BY <1>1, <1>6, <1>11, <1>16

(* The timer of a child writes: what is stored of other children stays as  *)
(* it is, since the list had it too.                                       *)
LEMMA ChildTimeoutInv ==
  ASSUME SettingsInv, NEW c \in Children, NEW throws \in BOOLEAN, ChildTimeout(c, throws)
  PROVE  SettingsInv'
<1>1. PICK t : t = kidPending[c]
  OBVIOUS
<1>2. /\ stored \in Seq(Kids) /\ IsInjective(IdsOf(stored)) /\ kids \in Seq(Kids) /\ IsInjective(IdsOf(kids))
      /\ Range(IdsOf(kids)) \subseteq Range(IdsOf(stored)) /\ (~spoiled => Range(kids) \subseteq Range(stored))
      /\ kidPending \in [Children -> Timers \cup {NoValue}] /\ spoiled \in BOOLEAN
  BY DEF SettingsInv, SheetTypeOK, KidsStored
<1>3. t # NoValue /\ t \in Timers /\ t.index \in 1 .. Len(kids)
  BY <1>1, <1>2 DEF ChildTimeout, SettingsInv, KidTimers
<1>4. PICK i \in 1 .. Len(kids), v \in BOOLEAN : i = t.index /\ v = t.value
  BY <1>3 DEF Timers
<1>5. chosen[c] = v /\ (~spoiled => kids[i].id = c)
  BY <1>1, <1>3, <1>4 DEF SettingsInv, KidTimers
<1>6. /\ kidPending' = [kidPending EXCEPT ![c] = NoValue] /\ kids' = [kids EXCEPT ![i].enabled = v]
      /\ FaultsOf(throws) /\ spoiled' = (spoiled \/ throws)
      /\ IF throws THEN stored' = stored ELSE stored' = WithAll(kids')
      /\ UNCHANGED <<denied, rows, parser, file, pending, kidRows, stale, dirty, known, chosen>>
  BY <1>1, <1>4 DEF ChildTimeout, WriteKids
<1>7. PICK new : new = kids'
  OBVIOUS
<1>8. /\ new \in Seq(Kids) /\ Len(new) = Len(kids) /\ Len(kids) \in Nat
      /\ \A j \in 1 .. Len(kids) : new[j].id = kids[j].id /\ (j # i => new[j] = kids[j])
      /\ new[i].enabled = v /\ IdsOf(new) = IdsOf(kids)
  <2>1. IsKidSet(new, kids, i, v)
    BY <1>6, <1>7 DEF IsKidSet
  <2>2. kids \in Seq(Kids)
    BY <1>2
  <2>3. QED
    BY <2>1, <2>2, KidSet
<1>9. PICK kept : kept = stored'
  OBVIOUS
<1>10. ~throws => /\ kept \in Seq(Kids) /\ IsInjective(IdsOf(kept))
                  /\ Range(kept) = Range(new) \cup {k \in Range(stored) : k.id \notin Range(IdsOf(new))}
  <2>1. ~throws => kept = WithAll(new)
    BY <1>6, <1>7, <1>9
  <2>2. QED
    BY <1>2, <1>8, <2>1, WithAllProperties
<1>11. throws => kept = stored
  BY <1>6, <1>9
<1>12. kept \in Seq(Kids) /\ IsInjective(IdsOf(kept))
  BY <1>2, <1>10, <1>11
<1>13. \A x : x \in Range(IdsOf(kept)) <=> x \in Range(IdsOf(stored))
  <2>1. CASE throws
    BY <1>11, <2>1
  <2>2. CASE ~throws
    <3>1. \A list \in Seq(Kids) : \A x : x \in Range(IdsOf(list)) <=> \E l \in Range(list) : l.id = x
      <4>1. ASSUME NEW list \in Seq(Kids), NEW x PROVE x \in Range(IdsOf(list)) <=> \E l \in Range(list) : l.id = x
        <5>1. x \in Range(IdsOf(list)) <=> KidsHave(list, x)
          BY IdsOfProperties
        <5>2. KidsHave(list, x) <=> \E l \in Range(list) : l.id = x
          BY RangeProperties DEF KidsHave
        <5>3. QED
          BY <5>1, <5>2
      <4>2. QED
        BY <4>1
    <3>2. ASSUME NEW x PROVE x \in Range(IdsOf(kept)) <=> x \in Range(IdsOf(stored))
      <4>1. x \in Range(IdsOf(kept)) <=> \E l \in Range(kept) : l.id = x
        BY <1>12, <3>1
      <4>2. x \in Range(IdsOf(stored)) <=> \E l \in Range(stored) : l.id = x
        BY <1>2, <3>1
      <4>3. x \in Range(IdsOf(new)) <=> \E l \in Range(new) : l.id = x
        BY <1>8, <3>1
      <4>4. x \in Range(IdsOf(new)) => x \in Range(IdsOf(stored))
        BY <1>2, <1>8
      <4>5. QED
        BY <1>10, <2>2, <4>1, <4>2, <4>3, <4>4
    <3>3. QED
      BY <3>2
  <2>3. QED
    BY <2>1, <2>2
<1>14. IdsOf(stored)' = IdsOf(kept) /\ IdsOf(stored') = IdsOf(kept) /\ IdsOf(kids)' = IdsOf(kids)
  BY <1>7, <1>8, <1>9 DEF IdsOf
<1>15. ASSUME ~spoiled, ~throws, NEW d \in Children, d # c
       PROVE  EnabledIn(kept, d) <=> EnabledIn(stored, d)
  <2>1. PICK k \in Kids : k = [id |-> d, enabled |-> TRUE]
    BY DEF Kids
  <2>2. k.id = d
    BY <2>1
  <2>3. ASSUME NEW j \in 1 .. Len(kids), kids[j].id = d PROVE j # i /\ new[j] = kids[j] /\ kids[j] \in Range(stored)
    <3>1. kids[j] \in Range(kids)
      BY <1>2, RangeProperties
    <3>2. QED
      BY <1>2, <1>5, <1>8, <1>15, <2>3, <3>1
  <2>4. ASSUME k \in Range(kept) PROVE k \in Range(stored)
    <3>1. CASE k \in Range(new)
      <4>1. PICK j \in 1 .. Len(kids) : new[j] = k
        BY <1>8, <3>1, RangeProperties
      <4>2. QED
        BY <1>8, <2>2, <2>3, <4>1
    <3>2. QED
      BY <1>10, <1>15, <2>4, <3>1
  <2>5. ASSUME k \in Range(stored) PROVE k \in Range(kept)
    <3>1. CASE d \in Range(IdsOf(kids))
      <4>1. PICK j \in 1 .. Len(kids) : kids[j].id = d
        BY <1>2, <3>1, IdsOfProperties DEF KidsHave
      <4>2. kids[j] = k
        BY <1>2, <2>2, <2>3, <2>5, <4>1, EnabledInProperties
      <4>3. k \in Range(new)
        BY <1>8, <2>3, <4>1, <4>2, RangeProperties
      <4>4. QED
        BY <1>10, <1>15, <4>3
    <3>2. CASE d \notin Range(IdsOf(kids))
      BY <1>8, <1>10, <1>15, <2>2, <2>5, <3>2
    <3>3. QED
      BY <3>1, <3>2
  <2>6. QED
    BY <2>1, <2>4, <2>5 DEF EnabledIn
<1>16. ASSUME ~spoiled, ~throws PROVE EnabledIn(kept, c) = v
  <2>1. EnabledIn(new, new[i].id) = new[i].enabled /\ new[i].id = c
    BY <1>2, <1>5, <1>8, <1>16, EnabledInProperties
  <2>2. c \in Range(IdsOf(new))
    BY <1>8, <2>1, IdsOfProperties
  <2>3. \A k : k = [id |-> c, enabled |-> TRUE] => (k \in Range(kept) <=> k \in Range(new))
    BY <1>10, <1>16, <2>2
  <2>4. EnabledIn(kept, c) = EnabledIn(new, c)
    BY <2>3 DEF EnabledIn
  <2>5. QED
    BY <1>8, <2>1, <2>4
<1>17. /\ used' \in [changes : Nat, faults : Nat]
       /\ used'.faults = 0 => used.faults = 0 /\ ~throws
  BY <1>6, FaultsProperties
<1>18. /\ kidPending' \in [Children -> Timers \cup {NoValue}]
       /\ \A d \in Children : kidPending'[d] = IF d = c THEN NoValue ELSE kidPending[d]
  BY <1>2, <1>6
<1>19. spoiled' \in BOOLEAN /\ (~spoiled' => ~spoiled /\ ~throws)
  BY <1>2, <1>6
<1>20. SheetTypeOK'
  <2>1. Len(kids') = Len(kids) /\ kids' \in Seq(Kids) /\ stored' \in Seq(Kids) /\ IsInjective(IdsOf(stored)')
    BY <1>7, <1>8, <1>9, <1>12, <1>14
  <2>2. QED
    BY <1>6, <1>18, <1>19, <2>1 DEF SettingsInv, SheetTypeOK
<1>21. KidsStored'
  <2>1. ~throws => Range(new) \subseteq Range(kept)
    BY <1>10
  <2>2. QED
    BY <1>2, <1>7, <1>9, <1>13, <1>14, <1>19, <2>1 DEF KidsStored
<1>22. KidRowsFollow'
  BY <1>6, <1>7, <1>8, <1>14 DEF SettingsInv, KidRowsFollow
<1>23. KidTimers'
  <2>1. ASSUME NEW d \in Children, kidPending'[d] # NoValue
        PROVE  /\ kidPending'[d] = kidPending[d] /\ kidPending[d].index \in 1 .. Len(kids)
               /\ d \in Range(kidRows) /\ chosen[d] = kidPending[d].value
               /\ ~spoiled' => new[kidPending[d].index].id = d
    <3>1. kidPending'[d] = kidPending[d] /\ kidPending[d] # NoValue
      BY <1>18, <2>1
    <3>2. QED
      BY <1>8, <1>19, <3>1 DEF SettingsInv, KidTimers
  <2>2. QED
    BY <1>6, <1>7, <1>8, <2>1 DEF KidTimers
<1>24. SettingTimers' /\ ParserFollows'
  BY <1>6, <1>19 DEF SettingsInv, SettingTimers, ParserFollows
<1>25. ChosenChildren'
  BY <1>6, <1>13, <1>14 DEF SettingsInv, ChosenChildren
<1>26. ChosenIsKept'
  <2>1. ASSUME ~spoiled', NEW id \in Ids, chosen[id] # NoValue
        PROVE  IF id \in Children THEN kidPending'[id] # NoValue \/ EnabledIn(kept, id) = chosen[id]
               ELSE pending[id] # NoValue \/ (file # NoFile /\ file[id] = chosen[id])
    <3>1. ~spoiled /\ ~throws
      BY <1>19, <2>1
    <3>2. CASE id = c
      BY <1>5, <1>16, <3>1, <3>2
    <3>3. CASE id # c /\ id \in Children
      <4>1. EnabledIn(kept, id) = EnabledIn(stored, id)
        <5>1. EnabledIn(kept, id) \in BOOLEAN /\ EnabledIn(stored, id) \in BOOLEAN
          BY DEF EnabledIn
        <5>2. QED
          BY <1>15, <3>1, <3>3, <5>1
      <4>2. kidPending'[id] = kidPending[id]
        BY <1>18, <3>3
      <4>3. QED
        BY <2>1, <3>1, <3>3, <4>1, <4>2 DEF SettingsInv, ChosenIsKept
    <3>4. CASE id \notin Children
      BY <2>1, <3>1, <3>4 DEF SettingsInv, ChosenIsKept
    <3>5. QED
      BY <3>2, <3>3, <3>4
  <2>2. \A id : EnabledIn(stored, id)' = EnabledIn(kept, id)
    BY <1>9 DEF EnabledIn
  <2>3. QED
    BY <1>6, <2>1, <2>2 DEF ChosenIsKept
<1>27. KnownChildrenHaveRows'
  BY <1>6, <1>7, <1>8, <1>17 DEF SettingsInv, KnownChildrenHaveRows
<1>28. QED
  BY <1>6, <1>17, <1>18, <1>20, <1>21, <1>22, <1>23, <1>24, <1>25, <1>26, <1>27 DEF SettingsInv

(* The timer of a setting writes: other values come from the file or from  *)
(* the parser, which are the same.                                         *)
LEMMA SettingTimeoutInv ==
  ASSUME SettingsInv, NEW s \in Range(Settings), NEW outcome \in {"written", "unloaded", "unsynced"},
         SettingTimeout(s, outcome)
  PROVE  SettingsInv'
<1> DEFINE Values == [Range(Settings) -> MaybeValues]
<1>1. PICK v : v = pending[s]
  OBVIOUS
<1>2. /\ pending \in Values /\ parser \in Values \cup {NoFile} /\ file \in Values \cup {NoFile}
      /\ spoiled \in BOOLEAN /\ (parser # NoFile /\ ~spoiled => parser = file)
  BY DEF SettingsInv, SheetTypeOK, ParserFollows
<1>3. v # NoValue /\ v \in MaybeValues /\ chosen[s] = v
  BY <1>1, <1>2 DEF SettingTimeout, SettingsInv, SettingTimers
<1>4. PICK created : created = IF file = NoFile THEN EmptyFile ELSE file
  OBVIOUS
<1>5. PICK changed : changed = [(IF parser = NoFile THEN created ELSE parser) EXCEPT ![s] = v]
  OBVIOUS
<1>6. \/ outcome = "written" /\ parser' = changed /\ file' = changed
      \/ outcome = "unloaded" /\ parser' = parser /\ file' = created
      \/ outcome = "unsynced" /\ parser' = changed /\ file' = created
  <2>1. ASSUME outcome = "written" PROVE parser' = changed /\ file' = changed
    BY <1>1, <1>4, <1>5, <2>1 DEF SettingTimeout
  <2>2. ASSUME outcome = "unloaded" PROVE parser' = parser /\ file' = created
    BY <1>1, <1>4, <1>5, <2>2 DEF SettingTimeout
  <2>3. ASSUME outcome = "unsynced" PROVE parser' = changed /\ file' = created
    BY <1>1, <1>4, <1>5, <2>3 DEF SettingTimeout
  <2>4. outcome = "written" \/ outcome = "unloaded" \/ outcome = "unsynced"
    OBVIOUS
  <2>5. QED
    BY <2>1, <2>2, <2>3, <2>4, Zenon
<1>7. /\ pending' = [pending EXCEPT ![s] = NoValue] /\ FaultsOf(outcome # "written")
      /\ spoiled' = (spoiled \/ outcome # "written")
      /\ UNCHANGED <<denied, rows, kids, kidRows, stale, kidPending, dirty, stored, known, chosen>>
  BY DEF SettingTimeout
<1>8. created \in Values
  <2>1. EmptyFile \in Values
    BY DEF EmptyFile, MaybeValues
  <2>2. QED
    BY <1>2, <1>4, <2>1
<1>9. /\ changed \in Values /\ changed # NoFile
      /\ changed[s] = v
      /\ \A t \in Range(Settings) : t # s => changed[t] = (IF parser = NoFile THEN created ELSE parser)[t]
  <2>1. PICK base \in Values : base = IF parser = NoFile THEN created ELSE parser
    BY <1>2, <1>8
  <2>2. changed = [base EXCEPT ![s] = v]
    BY <1>5, <2>1
  <2>3. changed \in Values /\ changed[s] = v /\ \A t \in Range(Settings) : t # s => changed[t] = base[t]
    BY <1>3, <2>2
  <2>4. changed # NoFile
    <3>1. DOMAIN changed = Range(Settings) /\ DOMAIN NoFile = {}
      BY <2>3 DEF NoFile
    <3>2. QED
      BY <3>1
  <2>5. QED
    BY <2>1, <2>3, <2>4
<1>10. /\ parser' \in Values \cup {NoFile} /\ file' \in Values \cup {NoFile}
       /\ pending' \in Values
       /\ \A t \in Range(Settings) : pending'[t] = IF t = s THEN NoValue ELSE pending[t]
  <2>1. NoValue \in MaybeValues
    BY DEF MaybeValues
  <2>2. parser' \in Values \cup {NoFile} /\ file' \in Values \cup {NoFile}
    BY <1>2, <1>6, <1>8, <1>9
  <2>3. QED
    BY <1>2, <1>7, <2>1, <2>2
<1>11. /\ spoiled' \in BOOLEAN
       /\ ~spoiled' => ~spoiled /\ parser' = changed /\ file' = changed
  BY <1>2, <1>6, <1>7, Zenon
<1>12. /\ used' \in [changes : Nat, faults : Nat]
       /\ used'.faults = 0 => used.faults = 0
  <2>1. (outcome # "written") \in BOOLEAN
    OBVIOUS
  <2>2. QED
    BY <1>7, <2>1, FaultsProperties
<1>13. SheetTypeOK'
  BY <1>7, <1>10, <1>11 DEF SettingsInv, SheetTypeOK, IdsOf
<1>14. KidsStored' /\ KidRowsFollow' /\ KidTimers' /\ ChosenChildren'
  <2>1. ~spoiled' => ~spoiled
    BY <1>11
  <2>2. QED
    BY <1>7, <2>1 DEF SettingsInv, KidsStored, KidRowsFollow, KidTimers, ChosenChildren, IdsOf
<1>15. ParserFollows'
  BY <1>11 DEF ParserFollows
<1>16. SettingTimers'
  BY <1>7, <1>10 DEF SettingsInv, SettingTimers
<1>17. ChosenIsKept'
  <2>1. ASSUME ~spoiled', NEW id \in Ids, chosen[id] # NoValue
        PROVE  IF id \in Children THEN kidPending[id] # NoValue \/ EnabledIn(stored, id) = chosen[id]
               ELSE pending'[id] # NoValue \/ (file' # NoFile /\ file'[id] = chosen[id])
    <3>1. ~spoiled /\ file' = changed /\ file' # NoFile
      BY <1>9, <1>11, <2>1
    <3>2. CASE id \in Children
      BY <2>1, <3>1, <3>2 DEF SettingsInv, ChosenIsKept
    <3>3. CASE id = s /\ id \notin Children
      BY <1>3, <1>9, <3>1, <3>3
    <3>4. CASE id # s /\ id \notin Children
      <4>1. id \in Range(Settings)
        BY <2>1, <3>4 DEF Ids
      <4>2. pending[id] # NoValue \/ (file # NoFile /\ file[id] = chosen[id])
        BY <2>1, <3>1, <3>4 DEF SettingsInv, ChosenIsKept
      <4>3. file # NoFile => changed[id] = file[id]
        BY <1>2, <1>4, <1>9, <3>1, <3>4, <4>1
      <4>4. QED
        BY <1>10, <3>1, <3>4, <4>1, <4>2, <4>3
    <3>5. QED
      BY <3>2, <3>3, <3>4
  <2>2. QED
    BY <1>7, <2>1 DEF ChosenIsKept, EnabledIn
<1>18. KnownChildrenHaveRows'
  BY <1>7, <1>12 DEF SettingsInv, KnownChildrenHaveRows
<1>19. QED
  BY <1>7, <1>10, <1>11, <1>12, <1>13, <1>14, <1>15, <1>16, <1>17, <1>18 DEF SettingsInv

-----------------------------------------------------------------------------
(* The sheet at the start: nothing is written, chosen or listed yet.       *)
LEMMA SheetInitInv == SheetInit => SettingsInv
<1> SUFFICES ASSUME SheetInit PROVE SettingsInv
  OBVIOUS
<1>1. FirstChildren \in Seq(Children) /\ IsInjective(FirstChildren) /\ Settings \in Seq(Range(Settings))
  BY SettingsAssumption
<1>2. /\ Len(FirstChildren) \in Nat /\ DOMAIN FirstChildren = 1 .. Len(FirstChildren)
      /\ \A i \in 1 .. Len(FirstChildren) : FirstChildren[i] \in Children
      /\ Range(FirstChildren) \subseteq Children
  BY <1>1, RangeProperties
<1>3. stored \in Seq(Kids) /\ Len(stored) = Len(FirstChildren)
      /\ \A i \in 1 .. Len(stored) : stored[i].id = FirstChildren[i]
  <2>1. stored = [i \in 1 .. Len(FirstChildren) |-> [id |-> FirstChildren[i], enabled |-> TRUE]]
    BY DEF SheetInit
  <2>2. \A i \in 1 .. Len(FirstChildren) : [id |-> FirstChildren[i], enabled |-> TRUE] \in Kids
    BY <1>2 DEF Kids
  <2>3. stored \in Seq(Kids)
    BY <1>2, <2>1, <2>2
  <2>4. Len(stored) = Len(FirstChildren)
    BY <1>2, <2>1, <2>3, LenProperties
  <2>5. QED
    BY <2>1, <2>3, <2>4
<1>4. IdsOf(stored) = FirstChildren
  <2>1. IdsOf(stored) \in Seq(Children) /\ Len(IdsOf(stored)) = Len(stored)
        /\ \A i \in 1 .. Len(stored) : IdsOf(stored)[i] = stored[i].id
    BY <1>3, IdsOfProperties
  <2>2. QED
    BY <1>1, <1>3, <2>1, SeqEqual
<1>5. rows \in Seq(Range(Settings)) /\ Range(rows) \subseteq Range(Settings)
  <2>1. PICK P : rows = Selected(Settings, P)
    BY DEF SheetInit, RowsWith
  <2>2. QED
    BY <1>1, <2>1, SelectedProperties
<1>6. /\ kids = <<>> /\ kidRows = <<>> /\ stale = FALSE /\ kidPending = Idle /\ chosen = [id \in Ids |-> NoValue]
      /\ parser = NoFile /\ file = NoFile /\ pending = EmptyFile /\ denied = TRUE /\ dirty = TRUE
      /\ spoiled = FALSE /\ known = Range(FirstChildren)
      /\ used = [changes |-> 0, faults |-> 0]
  BY DEF SheetInit
<1>7. /\ \A c \in Children : kidPending[c] = NoValue /\ c \in Ids
      /\ \A s \in Range(Settings) : pending[s] = NoValue
      /\ \A id \in Ids : chosen[id] = NoValue
      /\ kidPending \in [Children -> Timers \cup {NoValue}]
      /\ pending \in [Range(Settings) -> MaybeValues] /\ chosen \in [Ids -> MaybeValues]
  BY <1>6 DEF Idle, EmptyFile, Ids, MaybeValues
<1>8. /\ kids \in Seq(Kids) /\ kidRows \in Seq(Children) /\ Len(kids) = 0 /\ IdsOf(kids) = <<>>
      /\ Range(kids) = {} /\ Range(kidRows) = {} /\ Range(IdsOf(kids)) = {} /\ IsInjective(IdsOf(kids))
  BY <1>6 DEF IdsOf, Range, IsInjective
<1>9. SheetTypeOK
  BY <1>1, <1>2, <1>3, <1>4, <1>5, <1>6, <1>7, <1>8 DEF SheetTypeOK
<1>10. KidsStored /\ KidRowsFollow /\ KidTimers /\ SettingTimers /\ ChosenChildren /\ ParserFollows
  BY <1>6, <1>7, <1>8 DEF KidsStored, KidRowsFollow, KidTimers, SettingTimers, ChosenChildren, ParserFollows
<1>11. ChosenIsKept /\ KnownChildrenHaveRows
  BY <1>6, <1>7, <1>8 DEF ChosenIsKept, KnownChildrenHaveRows
<1>12. used \in [changes : Nat, faults : Nat]
  BY <1>6
<1>13. QED
  BY <1>5, <1>7, <1>9, <1>10, <1>11, <1>12 DEF SettingsInv

LEMMA SettingsStep == SettingsInv /\ [SheetNext]_sheetVars => SettingsInv'
<1> SUFFICES ASSUME SettingsInv, [SheetNext]_sheetVars PROVE SettingsInv'
  OBVIOUS
<1>1. CASE UNCHANGED sheetVars
  <2>1. UNCHANGED <<rows, parser, pending, kids, kidRows, stale, kidPending, denied, file, dirty, stored, known,
                    chosen, spoiled, used>>
    BY <1>1 DEF sheetVars, sheet
  <2>2. SheetTypeOK'
    BY <2>1 DEF SettingsInv, SheetTypeOK, IdsOf
  <2>3. KidsStored' /\ KidRowsFollow' /\ KidTimers' /\ SettingTimers' /\ ChosenChildren' /\ ParserFollows'
    BY <2>1 DEF SettingsInv, KidsStored, KidRowsFollow, KidTimers, SettingTimers, ChosenChildren,
                ParserFollows, IdsOf
  <2>4. ChosenIsKept' /\ KnownChildrenHaveRows'
    BY <2>1 DEF SettingsInv, ChosenIsKept, EnabledIn, KnownChildrenHaveRows
  <2>5. QED
    BY <2>1, <2>2, <2>3, <2>4 DEF SettingsInv
<1>2. CASE \E throws \in BOOLEAN : Dispatch(throws)
  BY <1>2, DispatchInv
<1>3. CASE \E throws \in BOOLEAN : LocationAccessChanged(throws)
  BY <1>3, LocationAccessChangedInv
<1>4. CASE \E c \in Children : NewChild(c)
  BY <1>4, NewChildInv
<1>5. CASE InvalidateChildScopes
  BY <1>5, InvalidateChildScopesInv
<1>6. CASE \E found \in SUBSET Children, throws \in BOOLEAN : MetadataRefreshed(found, throws)
  BY <1>6, MetadataRefreshedInv
<1>7. CASE \E at \in 1 .. Len(rows) + Len(kidRows), v \in BOOLEAN : setData(at, v)
  BY <1>7, SetSettingInv, SetChildInv
<1>8. CASE \E c \in Children, throws \in BOOLEAN : ChildTimeout(c, throws)
  BY <1>8, ChildTimeoutInv
<1>9. CASE \E s \in Range(Settings), outcome \in {"written", "unloaded", "unsynced"} : SettingTimeout(s, outcome)
  BY <1>9, SettingTimeoutInv
<1>10. QED
  BY <1>1, <1>2, <1>3, <1>4, <1>5, <1>6, <1>7, <1>8, <1>9 DEF SheetNext

(* When no child was skipped the row of a child is its place in the list.  *)
LEMMA ReadsAgreeHolds == SettingsInv => ReadsAgree
<1> SUFFICES ASSUME SettingsInv, ~stale, NEW i \in 1 .. Len(rows) + Len(kidRows)
             PROVE  data(i) = value(IF i <= Len(rows) THEN rows[i] ELSE kidRows[i - Len(rows)])
  BY DEF ReadsAgree
<1>1. /\ rows \in Seq(Range(Settings)) /\ kids \in Seq(Kids) /\ IsInjective(IdsOf(kids)) /\ kidRows = IdsOf(kids)
      /\ kidRows \in Seq(Children)
  BY DEF SettingsInv, SheetTypeOK, KidsStored, KidRowsFollow
<1>2. PICK m \in Nat, n \in Nat : m = Len(rows) /\ n = Len(kidRows)
  BY <1>1, LenProperties
<1>3. CASE i <= m
  <2>1. i \in 1 .. m
    BY <1>2, <1>3
  <2>2. rows[i] \in Range(rows) /\ rows[i] \in Range(Settings)
    BY <1>1, <1>2, <2>1, RangeProperties
  <2>3. rows[i] \notin Range(kidRows)
    BY <1>1, <2>2, SettingsAssumption, RangeProperties
  <2>4. QED
    BY <1>2, <1>3, <2>2, <2>3 DEF data, value
<1>4. CASE ~(i <= m)
  <2>1. PICK j \in 1 .. n : j = i - Len(rows)
    <3>1. i \in 1 .. m + n
      BY <1>2
    <3>2. i - m \in 1 .. n
      BY <1>4, <3>1
    <3>3. QED
      BY <1>2, <3>2
  <2>2. j \in 1 .. Len(kids) /\ kidRows[j] = kids[j].id
    BY <1>1, <1>2, IdsOfProperties
  <2>3. EnabledIn(kids, kids[j].id) = kids[j].enabled
    BY <1>1, <2>2, EnabledInProperties
  <2>4. kidRows[j] \in Range(kidRows)
    BY <1>1, <1>2, RangeProperties
  <2>5. QED
    BY <1>2, <1>4, <2>1, <2>2, <2>3, <2>4 DEF data, value
<1>5. QED
  BY <1>3, <1>4

(* What the user chose is stored and kept, a child with metadata has a row *)
(* unless a call failed, and both ways to read a row say the same, for any *)
(* settings, children and bounds (settingsmodel.cpp:159-518).              *)
THEOREM SheetHoldsAlways == SheetSpec => []SheetHolds
<1>1. SettingsInv => SheetHolds
  BY ReadsAgreeHolds DEF SettingsInv, SheetHolds
<1>2. QED
  BY <1>1, SheetInitInv, SettingsStep, PTL DEF SheetSpec
-----------------------------------------------------------------------------
(* One widget of the filters.                                              *)

(* A scope that sends a slider again leaves its bounds.                    *)
SlidersKeepBounds ==
  \A d, e \in Definitions :
    d.id = e.id /\ d.kind = "slider" /\ e.kind = "slider" => d.min = e.min /\ d.max = e.max

(* A scope that sends a filter again leaves it of its type.                *)
KindsStay == \A d, e \in Definitions : d.id = e.id => d.kind = e.kind

IsWidget(w) == w = [def |-> w.def, row |-> w.row, linked |-> w.linked, marked |-> w.marked, shown |-> w.shown]
WidgetOk(w) ==
  /\ IsWidget(w) /\ w.def \in Definitions /\ w.linked \in BOOLEAN
  /\ w.def.kind = "option" => w.shown \subseteq w.def.options /\ w.marked \subseteq w.def.options

(* The options that part of a state, the one of the filter, makes active.  *)
Active(def, part) == IF part = None THEN def.defaults ELSE part \cap def.options

(* A widget shows its part of the state.                                   *)
ShowsPart(w, part) ==
  w.linked /\ part # None =>
    IF w.def.kind = "option" THEN w.shown = Active(w.def, part) \/ Active(w.def, part) = {}
    ELSE w.shown = part \/ ~Accepts(w.def, w.shown)

(* Another version of w.                                                   *)
SamePlace(u, w) == u.row = w.row /\ u.linked = w.linked

(* The parts of a widget.                                                  *)
LEMMA WidgetFields ==
  ASSUME NEW def, NEW r, NEW marked, NEW shown
  PROVE  LET w == Widget(def, r, marked, shown)
         IN  /\ IsWidget(w) /\ w.def = def /\ w.row = r /\ w.linked = TRUE /\ w.marked = marked
             /\ w.shown = shown
BY DEF Widget, IsWidget

(* A widget with something else to show.                                   *)
LEMMA ShownChanged ==
  ASSUME NEW w, IsWidget(w), NEW x
  PROVE  LET u == [w EXCEPT !.shown = x]
         IN  /\ IsWidget(u) /\ u.def = w.def /\ u.row = w.row /\ u.linked = w.linked
             /\ u.marked = w.marked /\ u.shown = x
<1>1. PICK d, r, l, m, y : w = [def |-> d, row |-> r, linked |-> l, marked |-> m, shown |-> y]
  BY DEF IsWidget
<1>2. PICK u : u = [w EXCEPT !.shown = x]
  OBVIOUS
<1>3. u = [def |-> d, row |-> r, linked |-> l, marked |-> m, shown |-> x]
  BY <1>1, <1>2
<1>4. IsWidget(u) /\ u.def = w.def /\ u.row = w.row /\ u.linked = w.linked /\ u.marked = w.marked /\ u.shown = x
  BY ONLY <1>1, <1>3 DEF IsWidget
<1>5. QED
  BY <1>2, <1>4

(* A widget with the state, and what it shows of that.                     *)
LEMMA RelinkedFields ==
  ASSUME NEW w, IsWidget(w), NEW x
  PROVE  LET u == [w EXCEPT !.linked = TRUE, !.shown = x]
         IN  /\ IsWidget(u) /\ u.def = w.def /\ u.row = w.row /\ u.linked = TRUE
             /\ u.marked = w.marked /\ u.shown = x
<1>1. PICK d, r, l, m, y : w = [def |-> d, row |-> r, linked |-> l, marked |-> m, shown |-> y]
  BY DEF IsWidget
<1>2. PICK u : u = [w EXCEPT !.linked = TRUE, !.shown = x]
  OBVIOUS
<1>3. u = [def |-> d, row |-> r, linked |-> TRUE, marked |-> m, shown |-> x]
  BY <1>1, <1>2
<1>4. IsWidget(u) /\ u.def = w.def /\ u.row = w.row /\ u.linked = TRUE /\ u.marked = w.marked /\ u.shown = x
  BY ONLY <1>1, <1>3 DEF IsWidget
<1>5. QED
  BY <1>2, <1>4

(* What the scopes library says of a filter it accepts.                    *)
LEMMA DefinitionProperties ==
  ASSUME NEW def \in Definitions
  PROVE  /\ def.kind = "option" \/ def.kind = "range" \/ def.kind = "slider"
         /\ def.kind = "option" => def.defaults \subseteq def.options
         /\ def.id \in FilterIds
BY FiltersAssumption DEF FilterIds

(* Active options exist.                                                   *)
LEMMA ActiveIs ==
  ASSUME NEW def \in Definitions, def.kind = "option", NEW st
  PROVE  ActiveOptions(def, st) = Active(def, st[def.id]) /\ ActiveOptions(def, st) \subseteq def.options
BY DefinitionProperties DEF ActiveOptions, Active

LEMMA ActiveExist ==
  ASSUME NEW def \in Definitions, def.kind = "option", NEW part
  PROVE  Active(def, part) \subseteq def.options
BY DefinitionProperties DEF Active

(* A new widget.                                                           *)
IsNew(u, def, r, part) == WidgetOk(u) /\ u.def = def /\ u.row = r /\ u.linked = TRUE /\ ShowsPart(u, part)

LEMMA FreshOk ==
  ASSUME NEW def \in Definitions, NEW r, NEW st
  PROVE  IsNew(Fresh(def, r, st), def, r, st[def.id])
<1>1. PICK u : u = Fresh(def, r, st)
  OBVIOUS
<1>2. CASE def.kind = "option"
  <2>1. u = Widget(def, r, def.defaults, OptionsShown(def, def.defaults, st))
    BY <1>1, <1>2 DEF Fresh, NewOptionSelector
  <2>2. PICK x : x = OptionsShown(def, def.defaults, st)
    OBVIOUS
  <2>3. /\ IsWidget(u) /\ u.def = def /\ u.row = r /\ u.linked = TRUE /\ u.marked = def.defaults
        /\ u.shown = x
    <3>1. PICK m : m = def.defaults
      OBVIOUS
    <3>2. u = Widget(def, r, m, x)
      BY ONLY <2>1, <2>2, <3>1
    <3>3. QED
      BY ONLY <3>1, <3>2 DEF Widget, IsWidget
  <2>4. ActiveOptions(def, st) = Active(def, st[def.id]) /\ ActiveOptions(def, st) \subseteq def.options
    BY <1>2, ActiveIs
  <2>5. x = (IF ActiveOptions(def, st) = {} THEN def.defaults ELSE ActiveOptions(def, st))
    BY <2>2 DEF OptionsShown
  <2>6. x \subseteq def.options /\ def.defaults \subseteq def.options
    BY <1>2, <2>4, <2>5, DefinitionProperties
  <2>7. x = Active(def, st[def.id]) \/ Active(def, st[def.id]) = {}
    BY ONLY <2>4, <2>5
  <2>8. WidgetOk(u)
    BY ONLY def \in Definitions, <2>3, <2>6 DEF WidgetOk
  <2>9. ShowsPart(u, st[def.id])
    BY ONLY <1>2, <2>3, <2>7 DEF ShowsPart
  <2>10. QED
    BY <1>1, <2>3, <2>8, <2>9 DEF IsNew
<1>3. CASE def.kind # "option"
  <2>1. u = Widget(def, r, {}, Shown(def, st))
    <3>1. CASE def.kind = "range"
      BY <1>1, <3>1 DEF Fresh, NewRangeInput
    <3>2. CASE def.kind = "slider"
      BY <1>1, <3>2 DEF Fresh, NewValueSlider
    <3>3. QED
      BY <1>3, <3>1, <3>2, DefinitionProperties
  <2>2. PICK x : x = Shown(def, st)
    OBVIOUS
  <2>3. IsWidget(u) /\ u.def = def /\ u.row = r /\ u.linked = TRUE /\ u.shown = x
    <3>1. PICK m : m = {}
      OBVIOUS
    <3>2. u = Widget(def, r, m, x)
      BY ONLY <2>1, <2>2, <3>1
    <3>3. QED
      BY ONLY <3>2 DEF Widget, IsWidget
  <2>4. WidgetOk(u)
    BY <1>3, <2>3 DEF WidgetOk
  <2>5. ShowsPart(u, st[def.id])
    BY <1>3, <2>2, <2>3 DEF ShowsPart, Shown
  <2>6. QED
    BY <1>1, <2>3, <2>4, <2>5 DEF IsNew
<1>4. QED
  BY <1>2, <1>3

(* A widget is given a state that has nothing.                             *)
LEMMA RelinkedOk ==
  ASSUME NEW w, WidgetOk(w), NEW st, st[w.def.id] = None
  PROVE  LET u == Relinked(w, st)
         IN  WidgetOk(u) /\ u.def = w.def /\ u.row = w.row /\ u.linked = TRUE
<1>1. PICK u : u = Relinked(w, st)
  OBVIOUS
<1>2. w.def \in Definitions /\ IsWidget(w) /\ w.linked \in BOOLEAN
  BY DEF WidgetOk
<1>3. CASE w.def.kind = "option"
  <2>1. PICK x : x = OptionsShown(w.def, w.marked, st)
    OBVIOUS
  <2>2. u = [w EXCEPT !.linked = TRUE, !.shown = x]
    BY <1>1, <1>3, <2>1 DEF Relinked, RelinkedOptions
  <2>3. IsWidget(u) /\ u.def = w.def /\ u.row = w.row /\ u.linked = TRUE /\ u.marked = w.marked /\ u.shown = x
    BY ONLY <1>2, <2>2, RelinkedFields
  <2>4. x \subseteq w.def.options /\ w.marked \subseteq w.def.options
    <3>1. ActiveOptions(w.def, st) \subseteq w.def.options
      BY <1>2, <1>3, ActiveIs
    <3>2. QED
      BY <1>3, <2>1, <3>1 DEF OptionsShown, WidgetOk
  <2>5. QED
    BY <1>1, <1>2, <2>3, <2>4 DEF WidgetOk
<1>4. CASE w.def.kind # "option"
  <2>1. PICK x : x = Shown(w.def, st)
    OBVIOUS
  <2>2. u = [w EXCEPT !.linked = TRUE, !.shown = x]
    <3>1. CASE w.def.kind = "range"
      BY <1>1, <2>1, <3>1 DEF Relinked, RelinkedRange
    <3>2. CASE w.def.kind = "slider"
      BY <1>1, <2>1, <3>2 DEF Relinked, RelinkedSlider
    <3>3. QED
      BY <1>2, <1>4, <3>1, <3>2, DefinitionProperties
  <2>3. IsWidget(u) /\ u.def = w.def /\ u.row = w.row /\ u.linked = TRUE
    BY ONLY <1>2, <2>2, RelinkedFields
  <2>4. QED
    BY <1>1, <1>2, <1>4, <2>3 DEF WidgetOk
<1>5. QED
  BY <1>3, <1>4

(* A widget is given another definition of its filter.                     *)
LEMMA RedefinedOk ==
  ASSUME SlidersKeepBounds, NEW w, WidgetOk(w), NEW def \in Definitions, w.def.id = def.id, w.def.kind = def.kind,
         NEW st
  PROVE  LET u == Redefined(w, def, st)
         IN  /\ WidgetOk(u) /\ u.def = def /\ SamePlace(u, w)
             /\ ShowsPart(w, st[def.id]) => ShowsPart(u, st[def.id])
<1>1. PICK u : u = Redefined(w, def, st)
  OBVIOUS
<1>2. w.def \in Definitions /\ IsWidget(w) /\ w.linked \in BOOLEAN
  BY DEF WidgetOk
<1>3. PICK d, r, l, m, y : w = [def |-> d, row |-> r, linked |-> l, marked |-> m, shown |-> y]
  BY <1>2 DEF IsWidget
<1>4. d \in Definitions /\ d.id = def.id /\ d.kind = def.kind
  BY <1>2, <1>3
<1>5. CASE def.kind = "option"
  <2>1. PICK x, z : /\ x = (IF w.linked THEN ActiveOptions(def, st) ELSE w.shown \cap def.options)
                    /\ z = RemarkedOptions(w, def)
    OBVIOUS
  <2>2. u = [w EXCEPT !.def = def, !.marked = z, !.shown = x]
    BY <1>1, <1>5, <2>1 DEF Redefined, RedefinedOptions
  <2>3. u = [def |-> def, row |-> r, linked |-> l, marked |-> z, shown |-> x]
    BY ONLY <1>3, <2>2
  <2>4. ActiveOptions(def, st) = Active(def, st[def.id]) /\ ActiveOptions(def, st) \subseteq def.options
    BY <1>5, ActiveIs
  <2>5. x \subseteq def.options /\ z \subseteq def.options
    <3>1. def.defaults \subseteq def.options
      BY <1>5, DefinitionProperties
    <3>2. x \subseteq def.options
      BY ONLY <2>1, <2>4
    <3>3. z \subseteq def.options
      BY ONLY <2>1, <3>1 DEF RemarkedOptions
    <3>4. QED
      BY <3>2, <3>3
  <2>6. /\ IsWidget(u) /\ u.def = def /\ u.row = w.row /\ u.linked = w.linked /\ u.marked = z /\ u.shown = x
    BY ONLY <1>3, <2>3 DEF IsWidget
  <2>7. WidgetOk(u)
    BY ONLY def \in Definitions, <1>2, <2>5, <2>6 DEF WidgetOk
  <2>8. ShowsPart(u, st[def.id])
    BY ONLY <1>5, <2>1, <2>4, <2>6 DEF ShowsPart
  <2>9. QED
    BY <1>1, <2>6, <2>7, <2>8 DEF SamePlace
<1>6. CASE def.kind # "option"
  <2>1. u = [w EXCEPT !.def = def]
    <3>1. CASE def.kind = "range"
      BY <1>1, <3>1 DEF Redefined, RedefinedRange
    <3>2. CASE def.kind = "slider"
      BY <1>1, <3>2 DEF Redefined, RedefinedSlider
    <3>3. QED
      BY <1>6, <3>1, <3>2, DefinitionProperties
  <2>2. u = [def |-> def, row |-> r, linked |-> l, marked |-> m, shown |-> y]
    BY ONLY <1>3, <2>1
  <2>3. IsWidget(u) /\ u.def = def /\ u.row = w.row /\ u.linked = w.linked /\ u.shown = w.shown
    BY ONLY <1>3, <2>2 DEF IsWidget
  <2>4. WidgetOk(u)
    BY ONLY def \in Definitions, <1>2, <1>6, <2>3 DEF WidgetOk
  <2>5. Accepts(d, w.shown) <=> Accepts(def, w.shown)
    <3>1. CASE def.kind = "range"
      BY <1>4, <3>1 DEF Accepts
    <3>2. CASE def.kind # "range"
      <4>1. def.kind = "slider" /\ d.kind = "slider"
        BY <1>4, <1>6, <3>2, DefinitionProperties
      <4>2. d.min = def.min /\ d.max = def.max
        BY <1>4, <4>1 DEF SlidersKeepBounds
      <4>3. QED
        BY <4>1, <4>2 DEF Accepts
    <3>3. QED
      BY <3>1, <3>2
  <2>6. ShowsPart(w, st[def.id]) => ShowsPart(u, st[def.id])
    <3>1. w.def = d
      BY <1>3
    <3>2. QED
      BY ONLY <1>4, <1>6, <2>3, <2>5, <3>1 DEF ShowsPart
  <2>7. QED
    BY <1>1, <2>3, <2>4, <2>6 DEF SamePlace
<1>7. QED
  BY <1>5, <1>6

-----------------------------------------------------------------------------
(* What a change leaves of a widget w that had this part of the state.     *)
StepOk(s, w, part) ==
  /\ WidgetOk(s.widget) /\ s.widget.def = w.def /\ SamePlace(s.widget, w)
  /\ ShowsPart(w, part) => ShowsPart(s.widget, s.part)
  /\ s.emits \in BOOLEAN
  /\ ~s.emits => s.part = part

LEMMA StepFields ==
  ASSUME NEW u, NEW p, NEW e
  PROVE  LET s == Step(u, p, e) IN s.widget = u /\ s.part = p /\ s.emits = e
BY DEF Step

(* No change.                                                              *)
LEMMA SameStepOk ==
  ASSUME NEW w, WidgetOk(w), NEW part
  PROVE  StepOk(Step(w, part, FALSE), w, part)
<1>1. PICK s : s = Step(w, part, FALSE)
  OBVIOUS
<1>2. s.widget = w /\ s.part = part /\ s.emits = FALSE
  BY <1>1 DEF Step
<1>3. QED
  BY <1>1, <1>2 DEF StepOk, SamePlace

(* A range or a slider gets a value.                                       *)
LEMMA SetShownOk ==
  ASSUME NEW w, WidgetOk(w), w.def.kind # "option", NEW part, NEW x
  PROVE  StepOk(SetShown(w, part, x), w, part)
<1>1. PICK s : s = SetShown(w, part, x)
  OBVIOUS
<1>2. IsWidget(w) /\ w.def \in Definitions /\ w.linked \in BOOLEAN
  BY DEF WidgetOk
<1>3. CASE x = w.shown \/ ~w.linked
  BY <1>3, SameStepOk DEF SetShown
<1>4. CASE ~(x = w.shown \/ ~w.linked)
  <2>1. PICK u : u = [w EXCEPT !.shown = x]
    OBVIOUS
  <2>2. /\ IsWidget(u) /\ u.def = w.def /\ u.row = w.row /\ u.linked = w.linked
        /\ u.marked = w.marked /\ u.shown = x
    BY ONLY <1>2, <2>1, ShownChanged
  <2>3. s = IF Accepts(w.def, x) THEN Step(u, x, TRUE) ELSE Step(u, part, FALSE)
    BY ONLY <1>1, <1>4, <2>1 DEF SetShown
  <2>4. WidgetOk(u) /\ SamePlace(u, w)
    BY ONLY w.def.kind # "option", <1>2, <2>2 DEF WidgetOk, SamePlace
  <2>5. CASE Accepts(w.def, x)
    <3>1. s.widget = u /\ s.part = x /\ s.emits = TRUE
      BY ONLY <2>3, <2>5 DEF Step
    <3>2. ShowsPart(u, x)
      BY ONLY w.def.kind # "option", <2>2 DEF ShowsPart
    <3>3. QED
      BY ONLY <1>1, <2>2, <2>4, <3>1, <3>2 DEF StepOk
  <2>6. CASE ~Accepts(w.def, x)
    <3>1. s.widget = u /\ s.part = part /\ s.emits = FALSE
      BY ONLY <2>3, <2>6 DEF Step
    <3>2. ShowsPart(u, part)
      BY ONLY w.def.kind # "option", <2>2, <2>6 DEF ShowsPart
    <3>3. QED
      BY ONLY <1>1, <2>2, <2>4, <3>1, <3>2 DEF StepOk
  <2>7. QED
    BY <2>5, <2>6
<1>5. QED
  BY <1>3, <1>4

(* An option is chosen or not.                                             *)
LEMMA SetCheckedOk ==
  ASSUME NEW w, WidgetOk(w), w.def.kind = "option", NEW o \in w.def.options, NEW c \in BOOLEAN
  PROVE  StepOk(setChecked(w, o, c), w, state[w.def.id])
<1>1. PICK s : s = setChecked(w, o, c)
  OBVIOUS
<1>2. IsWidget(w) /\ w.def \in Definitions /\ w.linked \in BOOLEAN /\ w.marked \subseteq w.def.options
  BY DEF WidgetOk
<1>3. PICK part : part = WithOption(w.def, state, o, c)
  OBVIOUS
<1>4. CASE w.linked /\ (o \in w.shown) # c
  <2>1. PICK u : u = [w EXCEPT !.shown = part]
    OBVIOUS
  <2>2. /\ IsWidget(u) /\ u.def = w.def /\ u.row = w.row /\ u.linked = w.linked
        /\ u.marked = w.marked /\ u.shown = part
    BY ONLY <1>2, <2>1, ShownChanged
  <2>3. s = Step(u, part, TRUE)
    BY <1>1, <1>3, <1>4, <2>1 DEF setChecked
  <2>4. s.widget = u /\ s.part = part /\ s.emits = TRUE
    BY ONLY <2>3 DEF Step
  <2>5. part \subseteq w.def.options
    <3>1. ActiveOptions(w.def, state) \subseteq w.def.options
      BY <1>2, ActiveIs
    <3>2. QED
      BY ONLY o \in w.def.options, <1>3, <3>1 DEF WithOption
  <2>6. WidgetOk(u) /\ SamePlace(u, w)
    BY ONLY <1>2, <2>2, <2>5 DEF WidgetOk, SamePlace
  <2>7. ShowsPart(u, part)
    BY ONLY w.def.kind = "option", <2>2, <2>5 DEF ShowsPart, Active
  <2>8. QED
    BY ONLY <1>1, <2>2, <2>4, <2>6, <2>7 DEF StepOk
<1>5. CASE ~(w.linked /\ (o \in w.shown) # c)
  <2>1. PICK p : p = state[w.def.id]
    OBVIOUS
  <2>2. s = Step(w, p, FALSE)
    BY <1>1, <1>5, <2>1 DEF setChecked
  <2>3. StepOk(Step(w, p, FALSE), w, p)
    BY SameStepOk
  <2>4. QED
    BY <1>1, <2>1, <2>2, <2>3
<1>6. QED
  BY <1>4, <1>5

(* One change after another.                                               *)
LEMMA StepsOk ==
  ASSUME NEW w, NEW part, NEW s, NEW t, StepOk(s, w, part), StepOk(t, s.widget, s.part)
  PROVE  StepOk(Step(t.widget, t.part, s.emits \/ t.emits), w, part)
<1>1. PICK r : r = Step(t.widget, t.part, s.emits \/ t.emits)
  OBVIOUS
<1>2. r.widget = t.widget /\ r.part = t.part /\ r.emits = (s.emits \/ t.emits)
  BY <1>1 DEF Step
<1>3. s.emits \in BOOLEAN /\ t.emits \in BOOLEAN
  BY DEF StepOk
<1>4. QED
  BY <1>1, <1>2, <1>3 DEF StepOk, SamePlace

(* Whatever the user does to a widget.                                     *)
LEMMA UserStepsOk ==
  ASSUME NEW w, WidgetOk(w), NEW s \in UserSteps(w)
  PROVE  StepOk(s, w, state[w.def.id])
<1>1. w.def \in Definitions
  BY DEF WidgetOk
<1>2. CASE w.def.kind = "option"
  <2>1. PICK o \in w.def.options, c \in BOOLEAN : s = setChecked(w, o, c)
    BY <1>2 DEF UserSteps
  <2>2. QED
    BY <1>2, <2>1, SetCheckedOk
<1>3. CASE w.def.kind # "option"
  <2>1. PICK p : p = state[w.def.id]
    OBVIOUS
  <2>2. \E x : s = SetShown(w, p, x)
    <3>1. CASE w.def.kind = "range"
      <4>1. \E v \in FilterValues \cup {None} : s = setStartValue(w, p, v) \/ s = setEndValue(w, p, v)
        BY <2>1, <3>1 DEF UserSteps
      <4>2. PICK v : s = setStartValue(w, p, v) \/ s = setEndValue(w, p, v)
        BY <4>1
      <4>3. PICK x, y : x = <<v, w.shown[2]>> /\ y = <<w.shown[1], v>>
        OBVIOUS
      <4>4. s = SetShown(w, p, x) \/ s = SetShown(w, p, y)
        BY ONLY <4>2, <4>3 DEF setStartValue, setEndValue
      <4>5. QED
        BY ONLY <4>4
    <3>2. CASE w.def.kind = "slider"
      BY <2>1, <3>2 DEF UserSteps, setValue
    <3>3. QED
      BY <1>1, <1>3, <3>1, <3>2, DefinitionProperties
  <2>3. PICK x : s = SetShown(w, p, x)
    BY <2>2
  <2>4. StepOk(SetShown(w, p, x), w, p)
    BY <1>3, SetShownOk
  <2>5. QED
    BY <2>1, <2>3, <2>4
<1>4. QED
  BY <1>2, <1>3

(* reset() of a widget.                                                    *)
LEMMA ResetWidgetOk ==
  ASSUME NEW w, WidgetOk(w)
  PROVE  StepOk(ResetWidget(w), w, state[w.def.id])
<1>1. w.def \in Definitions /\ w.linked \in BOOLEAN
  BY DEF WidgetOk
<1>2. PICK p : p = state[w.def.id]
  OBVIOUS
<1>3. PICK s : s = ResetWidget(w)
  OBVIOUS
<1>4. CASE w.def.kind = "option"
  <2>1. s = ResetOptions(w)
    BY <1>3, <1>4 DEF ResetWidget
  <2>2. CASE w.linked
    <3>1. NoState[w.def.id] = None
      BY <1>1, DefinitionProperties DEF NoState
    <3>2. PICK u : u = Relinked(w, NoState)
      OBVIOUS
    <3>3. WidgetOk(u) /\ u.def = w.def /\ u.row = w.row /\ u.linked = TRUE
      BY <3>1, <3>2, RelinkedOk
    <3>4. s = Step(u, None, TRUE)
      BY <2>1, <2>2, <3>2 DEF ResetOptions
    <3>5. s.widget = u /\ s.part = None /\ s.emits = TRUE
      BY ONLY <3>4 DEF Step
    <3>6. ShowsPart(u, None)
      BY DEF ShowsPart
    <3>7. StepOk(s, w, p)
      BY ONLY <1>1, <2>2, <3>3, <3>5, <3>6 DEF StepOk, SamePlace
    <3>8. QED
      BY <1>2, <1>3, <3>7
  <2>3. CASE ~w.linked
    <3>1. s = Step(w, p, FALSE)
      BY <1>2, <2>1, <2>3 DEF ResetOptions
    <3>2. StepOk(Step(w, p, FALSE), w, p)
      BY SameStepOk
    <3>3. QED
      BY <1>2, <1>3, <3>1, <3>2
  <2>4. QED
    BY <2>2, <2>3
<1>5. CASE w.def.kind = "range"
  <2>1. PICK x : x = <<w.def.defaults[1], w.shown[2]>>
    OBVIOUS
  <2>2. PICK a : a = SetShown(w, p, x)
    OBVIOUS
  <2>3. StepOk(SetShown(w, p, x), w, p)
    BY <1>5, SetShownOk
  <2>4. PICK v, q : v = a.widget /\ q = a.part
    OBVIOUS
  <2>5. WidgetOk(v) /\ v.def.kind # "option"
    BY <1>5, <2>2, <2>3, <2>4 DEF StepOk
  <2>6. PICK y : y = <<v.shown[1], w.def.defaults[2]>>
    OBVIOUS
  <2>7. PICK b : b = SetShown(v, q, y)
    OBVIOUS
  <2>8. StepOk(SetShown(v, q, y), v, q)
    BY <2>5, SetShownOk
  <2>9. StepOk(a, w, p) /\ StepOk(b, a.widget, a.part)
    BY ONLY <2>2, <2>3, <2>4, <2>7, <2>8
  <2>10. StepOk(Step(b.widget, b.part, a.emits \/ b.emits), w, p)
    BY ONLY <2>9, StepsOk
  <2>11. a = setStartValue(w, p, w.def.defaults[1])
    BY ONLY <2>1, <2>2 DEF setStartValue
  <2>12. b = setEndValue(a.widget, a.part, w.def.defaults[2])
    BY ONLY <2>4, <2>6, <2>7 DEF setEndValue
  <2>13. s = Step(b.widget, b.part, a.emits \/ b.emits)
    BY ONLY <1>2, <1>3, <1>5, <2>11, <2>12 DEF ResetWidget, ResetRange
  <2>14. QED
    BY ONLY <1>2, <1>3, <2>10, <2>13
<1>6. CASE w.def.kind = "slider"
  <2>1. PICK x : x = w.def.defaults
    OBVIOUS
  <2>2. s = SetShown(w, p, x)
    BY <1>2, <1>3, <1>6, <2>1 DEF ResetWidget, ResetSlider, setValue
  <2>3. StepOk(SetShown(w, p, x), w, p)
    BY <1>6, SetShownOk
  <2>4. QED
    BY <1>2, <1>3, <2>2, <2>3
<1>7. QED
  BY <1>1, <1>4, <1>5, <1>6, DefinitionProperties

-----------------------------------------------------------------------------
(* preprocessFilters().                                                    *)
DistinctIds(s) == \A i, j \in 1 .. Len(s) : s[i].id = s[j].id => i = j
RowMates(list, d) == {e \in Range(list) : RowOf(list, e) = RowOf(list, d)}
RowSeen(list, i) == \E j \in 1 .. i - 1 : RowOf(list, list[j]) = RowOf(list, list[i])

(* Filters of list, from the rows of its first k.                          *)
PartOf(s, list, k) ==
  /\ Range(s) \subseteq Range(list) /\ DistinctIds(s)
  /\ \A i \in 1 .. Len(s) : \E j \in 1 .. k : RowOf(list, s[i]) = RowOf(list, list[j])

GroupTurn(list, f, i) ==
  IF i = 0 THEN <<>> ELSE IF RowSeen(list, i) THEN f[i - 1] ELSE f[i - 1] \o Selected(list, RowMates(list, list[i]))
GroupStep(list, k, v) == IF RowSeen(list, k + 1) THEN v ELSE v \o Selected(list, RowMates(list, list[k + 1]))

(* A selection has no id twice either.                                     *)
LEMMA SelectedIds ==
  ASSUME NEW list \in Seq(Definitions), DistinctIds(list), NEW P
  PROVE  LET s == Selected(list, P)
         IN  s \in Seq(Definitions) /\ DistinctIds(s) /\ Range(s) = Range(list) \cap P
<1>1. PICK s : s = Selected(list, P)
  OBVIOUS
<1>2. s \in Seq(Definitions) /\ Range(s) = Range(list) \cap P
  BY <1>1, SelectedProperties
<1>3. Len(s) \in Nat /\ DOMAIN s = 1 .. Len(s)
  BY <1>2, LenProperties
<1>4. ASSUME NEW i \in 1 .. Len(s), NEW j \in 1 .. Len(s), i < j PROVE s[i].id # s[j].id
  <2>1. \E a, b \in 1 .. Len(list) : a < b /\ s[i] = list[a] /\ s[j] = list[b]
    <3>1. \A p, q \in DOMAIN Selected(list, P) :
            p < q => \E a, b \in 1 .. Len(list) :
                       a < b /\ Selected(list, P)[p] = list[a] /\ Selected(list, P)[q] = list[b]
      BY SelectedOrder
    <3>2. PICK t : t = Selected(list, P)
      OBVIOUS
    <3>3. \A p, q \in DOMAIN t : p < q => \E a, b \in 1 .. Len(list) : a < b /\ t[p] = list[a] /\ t[q] = list[b]
      BY ONLY <3>1, <3>2
    <3>4. s = t /\ i \in DOMAIN s /\ j \in DOMAIN s
      BY <1>1, <1>3, <3>2
    <3>5. QED
      BY ONLY <1>4, <3>3, <3>4
  <2>2. PICK a \in 1 .. Len(list), b \in 1 .. Len(list) : a < b /\ s[i] = list[a] /\ s[j] = list[b]
    BY <2>1
  <2>3. Len(list) \in Nat
    BY LenProperties
  <2>4. QED
    BY <2>2, <2>3 DEF DistinctIds
<1>5. DistinctIds(s)
  <2>1. SUFFICES ASSUME NEW i \in 1 .. Len(s), NEW j \in 1 .. Len(s), s[i].id = s[j].id PROVE i = j
    BY DEF DistinctIds
  <2>2. ~(i < j) /\ ~(j < i)
    BY <1>4, <2>1
  <2>3. QED
    BY <1>3, <2>2
<1>6. QED
  BY <1>1, <1>2, <1>5

(* Filters of one list with one id are the same.                           *)
LEMMA SameIdSameFilter ==
  ASSUME NEW list \in Seq(Definitions), DistinctIds(list), NEW d \in Range(list), NEW e \in Range(list), d.id = e.id
  PROVE  d = e
<1>1. PICK i \in 1 .. Len(list), j \in 1 .. Len(list) : list[i] = d /\ list[j] = e
  BY RangeProperties
<1>2. QED
  BY <1>1 DEF DistinctIds

(* One turn of the loop.                                                   *)
LEMMA GroupStepKeeps ==
  ASSUME NEW list \in Seq(Definitions), DistinctIds(list), NEW k \in 0 .. Len(list) - 1,
         NEW v \in Seq(Definitions), PartOf(v, list, k)
  PROVE  GroupStep(list, k, v) \in Seq(Definitions) /\ PartOf(GroupStep(list, k, v), list, k + 1)
<1>1. Len(list) \in Nat /\ k \in Nat /\ k + 1 \in 1 .. Len(list)
  BY LenProperties
<1>2. PICK n \in 1 .. Len(list) : n = k + 1
  BY <1>1
<1>3. PICK e : e = list[n]
  OBVIOUS
<1>4. PICK P : P = RowMates(list, e)
  OBVIOUS
<1>5. PICK s : s = Selected(list, P)
  OBVIOUS
<1>6. PICK u : u = GroupStep(list, k, v)
  OBVIOUS
<1>7. s \in Seq(Definitions) /\ DistinctIds(s) /\ Range(s) = Range(list) \cap P
  BY <1>5, SelectedIds
<1>8. CASE RowSeen(list, n)
  <2>1. u = v
    BY ONLY <1>2, <1>6, <1>8 DEF GroupStep
  <2>2. PartOf(v, list, n)
    <3>1. 1 .. k \subseteq 1 .. n
      BY <1>1, <1>2
    <3>2. QED
      BY <3>1 DEF PartOf
  <2>3. QED
    BY <1>2, <1>6, <2>1, <2>2
<1>9. CASE ~RowSeen(list, n)
  <2>1. u = v \o s
    BY ONLY <1>2, <1>3, <1>4, <1>5, <1>6, <1>9 DEF GroupStep
  <2>2. /\ u \in Seq(Definitions) /\ Len(u) = Len(v) + Len(s)
        /\ \A i \in 1 .. Len(u) : u[i] = IF i <= Len(v) THEN v[i] ELSE s[i - Len(v)]
    BY <1>7, <2>1, ConcatProperties
  <2>3. Len(u) \in Nat /\ Len(v) \in Nat /\ Len(s) \in Nat
    BY <1>7, <2>2, LenProperties
  <2>4. ASSUME NEW i \in 1 .. Len(u)
        PROVE  \/ i <= Len(v) /\ i \in 1 .. Len(v) /\ u[i] = v[i]
               \/ i > Len(v) /\ i - Len(v) \in 1 .. Len(s) /\ u[i] = s[i - Len(v)]
    BY <2>2, <2>3
  <2>5. \A i \in 1 .. Len(v) : v[i] \in Range(list) /\ \E j \in 1 .. k : RowOf(list, v[i]) = RowOf(list, list[j])
    <3>1. \A i \in 1 .. Len(v) : v[i] \in Range(v)
      BY RangeProperties
    <3>2. QED
      BY <3>1 DEF PartOf
  <2>6. \A i \in 1 .. Len(s) : s[i] \in Range(list) /\ RowOf(list, s[i]) = RowOf(list, e)
    <3>1. \A i \in 1 .. Len(s) : s[i] \in Range(s)
      BY <1>7, RangeProperties
    <3>2. QED
      BY <1>4, <1>7, <3>1 DEF RowMates
  <2>7. ASSUME NEW i \in 1 .. Len(v), NEW j \in 1 .. Len(s) PROVE v[i].id # s[j].id
    <3>1. SUFFICES ASSUME v[i].id = s[j].id PROVE FALSE
      OBVIOUS
    <3>2. PICK a, b : a = v[i] /\ b = s[j]
      OBVIOUS
    <3>3. a \in Range(list) /\ b \in Range(list) /\ a.id = b.id
      BY <2>5, <2>6, <3>1, <3>2
    <3>4. a = b
      BY <3>3, SameIdSameFilter
    <3>5. PICK m \in 1 .. k : RowOf(list, v[i]) = RowOf(list, list[m])
      BY <2>5
    <3>6. RowOf(list, list[m]) = RowOf(list, list[n])
      BY ONLY <1>3, <2>6, <3>2, <3>4, <3>5, j \in 1 .. Len(s)
    <3>7. m \in 1 .. n - 1
      BY <1>1, <1>2
    <3>8. QED
      BY <1>9, <3>6, <3>7 DEF RowSeen
  <2>8. DistinctIds(u)
    <3>1. SUFFICES ASSUME NEW i \in 1 .. Len(u), NEW j \in 1 .. Len(u), u[i].id = u[j].id PROVE i = j
      BY DEF DistinctIds
    <3>2. CASE i <= Len(v) /\ j <= Len(v)
      <4>1. i \in 1 .. Len(v) /\ j \in 1 .. Len(v) /\ v[i].id = v[j].id
        BY <2>4, <3>1, <3>2
      <4>2. QED
        BY <4>1 DEF PartOf, DistinctIds
    <3>3. CASE i > Len(v) /\ j > Len(v)
      <4>0. PICK a, b : a = i - Len(v) /\ b = j - Len(v)
        OBVIOUS
      <4>1. a \in 1 .. Len(s) /\ b \in 1 .. Len(s) /\ s[a].id = s[b].id
        <5>1. ~(i <= Len(v)) /\ ~(j <= Len(v))
          BY ONLY <2>3, <3>3, i \in 1 .. Len(u), j \in 1 .. Len(u)
        <5>2. i - Len(v) \in 1 .. Len(s) /\ u[i] = s[i - Len(v)]
          BY <2>4, <5>1
        <5>3. j - Len(v) \in 1 .. Len(s) /\ u[j] = s[j - Len(v)]
          BY <2>4, <5>1
        <5>4. QED
          BY ONLY <3>1, <4>0, <5>2, <5>3
      <4>2. a = b
        BY <1>7, <4>1 DEF DistinctIds
      <4>3. QED
        BY <2>3, <4>0, <4>2
    <3>4. CASE i <= Len(v) /\ j > Len(v)
      <4>1. PICK b \in 1 .. Len(s) : u[j] = s[b] /\ i \in 1 .. Len(v) /\ u[i] = v[i]
        <5>1. i \in 1 .. Len(v) /\ u[i] = v[i]
          BY <2>3, <2>4, <3>4
        <5>2. j - Len(v) \in 1 .. Len(s) /\ u[j] = s[j - Len(v)]
          BY <2>3, <2>4, <3>4
        <5>3. QED
          BY ONLY <5>1, <5>2
      <4>2. QED
        BY <2>7, <3>1, <4>1
    <3>5. CASE i > Len(v) /\ j <= Len(v)
      <4>1. PICK b \in 1 .. Len(s) : u[i] = s[b] /\ j \in 1 .. Len(v) /\ u[j] = v[j]
        BY <2>3, <2>4, <3>5
      <4>2. QED
        BY <2>7, <3>1, <4>1
    <3>6. QED
      BY <2>3, <3>2, <3>3, <3>4, <3>5
  <2>9. ASSUME NEW i \in 1 .. Len(u)
        PROVE  u[i] \in Range(list) /\ \E j \in 1 .. n : RowOf(list, u[i]) = RowOf(list, list[j])
    <3>1. CASE i <= Len(v)
      <4>1. i \in 1 .. Len(v) /\ u[i] = v[i]
        BY <2>3, <2>4, <3>1
      <4>2. PICK j \in 1 .. k : RowOf(list, v[i]) = RowOf(list, list[j])
        BY <2>5, <4>1
      <4>3. j \in 1 .. n
        BY <1>1, <1>2
      <4>4. QED
        BY <2>5, <4>1, <4>2, <4>3
    <3>2. CASE i > Len(v)
      <4>1. PICK a \in 1 .. Len(s) : u[i] = s[a]
        BY <2>3, <2>4, <3>2
      <4>2. n \in 1 .. n
        BY <1>1, <1>2
      <4>3. QED
        BY <1>3, <2>6, <4>1, <4>2
    <3>3. QED
      BY <2>3, <3>1, <3>2
  <2>10. Range(u) \subseteq Range(list)
    BY <2>2, <2>9, RangeProperties
  <2>11. PartOf(u, list, n)
    BY <2>8, <2>9, <2>10 DEF PartOf
  <2>12. QED
    BY <1>2, <1>6, <2>2, <2>11
<1>10. QED
  BY <1>2, <1>8, <1>9

(* All of them.                                                            *)
LEMMA GroupedIds ==
  ASSUME NEW list \in Seq(Definitions), DistinctIds(list)
  PROVE  /\ Grouped(list) \in Seq(Definitions) /\ DistinctIds(Grouped(list))
         /\ Range(Grouped(list)) \subseteq Range(list)
<1> DEFINE n == Len(list)
           a == <<>>
           Ok == [k \in 0 .. n |-> {v \in Seq(Definitions) : PartOf(v, list, k)}]
           H == [k \in 0 .. n - 1 |-> [v \in Seq(Definitions) |-> GroupStep(list, k, v)]]
<1>1. n \in Nat
  BY LenProperties
<1>2. Ok \in [0 .. n -> SUBSET Seq(Definitions)] /\ a \in Ok[0]
  <2>1. a \in Seq(Definitions) /\ Len(a) = 0
    OBVIOUS
  <2>2. Range(a) = {}
    BY DEF Range
  <2>3. PartOf(a, list, 0)
    BY <2>1, <2>2 DEF PartOf, DistinctIds
  <2>4. 0 \in 0 .. n
    BY <1>1
  <2>5. QED
    BY <2>1, <2>3, <2>4
<1>3. ASSUME NEW k \in 0 .. n - 1, NEW v \in Ok[k]
      PROVE  /\ H[k][v] = GroupStep(list, k, v) /\ GroupStep(list, k, v) \in Ok[k + 1]
  <2>1. k \in 0 .. n /\ k + 1 \in 0 .. n
    BY <1>1
  <2>2. v \in Seq(Definitions) /\ PartOf(v, list, k)
    BY <2>1
  <2>3. GroupStep(list, k, v) \in Seq(Definitions) /\ PartOf(GroupStep(list, k, v), list, k + 1)
    BY <2>2, GroupStepKeeps
  <2>4. QED
    BY <2>1, <2>2, <2>3
<1>4. \E g : IsRun(n, Ok, a, H, g)
  <2>1. \A k \in 0 .. n - 1 : \A v \in Ok[k] : H[k][v] \in Ok[k + 1]
    BY <1>3
  <2>2. PICK V : V = Seq(Definitions)
    OBVIOUS
  <2>3. Ok \in [0 .. n -> SUBSET V] /\ a \in Ok[0]
    BY <1>2, <2>2
  <2> HIDE DEF n, Ok, H, a
  <2>4. IsLoop(V, n, Ok, a, H)
    BY <2>1, <2>3 DEF IsLoop
  <2>5. QED
    BY <1>1, <2>4, LoopExists
<1>5. PICK f : /\ f = [k \in 0 .. n |-> IF k = 0 THEN a ELSE H[k - 1][f[k - 1]]]
               /\ \A k \in 0 .. n : f[k] \in Ok[k]
  BY <1>4 DEF IsRun
<1>6. ASSUME NEW k \in 0 .. n
      PROVE  (IF k = 0 THEN a ELSE H[k - 1][f[k - 1]]) = GroupTurn(list, f, k)
  <2>1. CASE k = 0
    BY <2>1 DEF GroupTurn
  <2>2. CASE k # 0
    <3>1. PICK j : j = k - 1
      OBVIOUS
    <3>2. j \in 0 .. n - 1 /\ j \in 0 .. n /\ j + 1 = k
      BY <1>1, <2>2, <3>1
    <3>3. f[j] \in Ok[j]
      BY <1>5, <3>2
    <3>4. H[j][f[j]] = GroupStep(list, j, f[j])
      BY ONLY <1>3, <3>2, <3>3
    <3>5. QED
      BY ONLY <2>2, <3>1, <3>2, <3>4 DEF GroupTurn, GroupStep
  <2>3. QED
    BY <2>1, <2>2
<1>7. \E g : g = [k \in 0 .. n |-> GroupTurn(list, g, k)]
  <2>1. f = [k \in 0 .. n |-> GroupTurn(list, f, k)]
    BY <1>5, <1>6
  <2>2. QED
    BY <2>1
<1>8. PICK g : g = [k \in 0 .. n |-> GroupTurn(list, g, k)] /\ Grouped(list) = g[n]
  BY <1>7 DEF Grouped, GroupTurn, RowSeen, RowMates
<1>9. g[0] = a
  BY <1>1, <1>8 DEF GroupTurn
<1>10. ASSUME NEW k \in 0 .. n - 1, g[k] \in Ok[k]
       PROVE  g[k + 1] \in Ok[k + 1]
  <2>1. PICK j : j = k + 1
    OBVIOUS
  <2>2. j \in 0 .. n /\ j # 0 /\ j - 1 = k
    BY <1>1, <2>1
  <2>3. g[j] = GroupStep(list, k, g[k])
    BY <1>8, <2>1, <2>2 DEF GroupTurn, GroupStep
  <2>4. QED
    BY ONLY <1>3, <1>10, <2>1, <2>3, k \in 0 .. n - 1
<1>11. \A k \in 0 .. n : g[k] \in Ok[k]
  <2>1. g[0] \in Ok[0]
    BY ONLY <1>2, <1>9
  <2> HIDE DEF n, Ok
  <2>2. QED
    BY ONLY <1>1, <1>10, <2>1, LoopInvariant
<1>12. g[n] \in Ok[n] /\ n \in 0 .. n
  BY <1>1, <1>11
<1>13. g[n] \in Seq(Definitions) /\ PartOf(g[n], list, n)
  BY <1>12
<1>14. QED
  BY <1>8, <1>13 DEF PartOf

-----------------------------------------------------------------------------
(* The invariant.                                                          *)
IsList(ws) == Len(ws) \in Nat /\ ws = [i \in 1 .. Len(ws) |-> ws[i]]
DistinctFilters(ws) == \A i, j \in 1 .. Len(ws) : ws[i].def.id = ws[j].def.id => i = j
WidgetsOk(ws) == \A i \in 1 .. Len(ws) : WidgetOk(ws[i]) /\ ws[i].linked = TRUE
ListOk(ws) == IsList(ws) /\ WidgetsOk(ws) /\ DistinctFilters(ws)
Shows(ws, st) == \A i \in 1 .. Len(ws) : ShowsPart(ws[i], st[ws[i].def.id])

OthersShow(ws, st) == \A i \in 1 .. Len(ws) : ws[i].def.kind # "option" => ShowsPart(ws[i], st[ws[i].def.id])

PrimaryOk(p) == p # None => WidgetOk(p) /\ p.def.kind = "option"
PrimaryShows(p, st) == p # None => ShowsPart(p, st[p.def.id])
PrimaryApart(p, ws) == p # None => \A i \in 1 .. Len(ws) : ws[i].def.id # p.def.id
Agree(ws, p, st) == Shows(ws, st) /\ PrimaryShows(p, st) /\ PrimaryApart(p, ws)

IsState(st) == st = [id \in FilterIds |-> st[id]]
RowsOf(ws) == {w.row : w \in Range(ws)}

FiltersInv ==
  /\ timer \in BOOLEAN /\ dropped \in BOOLEAN /\ doubled \in BOOLEAN /\ changes \in 0 .. MaxFilterChanges
  /\ IsState(state)
  /\ ListOk(filters) /\ PrimaryOk(primary)
  /\ doubled \/ Agree(filters, primary, state)
  /\ KindsStay => OthersShow(filters, state)
  /\ groupTimers \subseteq RowsOf(filters)
  /\ ChangesAreAnnounced

LEMMA BuiltList ==
  ASSUME NEW n \in Nat, NEW ws, ws = [i \in 1 .. n |-> ws[i]]
  PROVE  Len(ws) = n /\ IsList(ws)
<1>1. PICK S : S = Range(ws)
  OBVIOUS
<1>2. DOMAIN ws = 1 .. n
  OBVIOUS
<1>3. \A i \in 1 .. n : ws[i] \in S
  BY <1>1, <1>2 DEF Range
<1>4. ws \in [1 .. n -> S]
  BY <1>3
<1>5. ws \in Seq(S) /\ Len(ws) = n
  BY <1>4
<1>6. QED
  BY <1>5 DEF IsList

LEMMA ListRange ==
  ASSUME NEW ws, IsList(ws)
  PROVE  /\ \A i \in 1 .. Len(ws) : ws[i] \in Range(ws)
         /\ \A w \in Range(ws) : \E i \in 1 .. Len(ws) : w = ws[i]
<1>1. DOMAIN ws = 1 .. Len(ws)
  BY DEF IsList
<1>2. QED
  BY <1>1 DEF Range

(* What a merge makes of one definition.                                   *)
MergedWidget(was, list, st, def) ==
  LET place == RowOf(list, def)
      kept == {w \in Range(was) : SameWidget(w, def, place)}
  IN IF kept = {} THEN Fresh(def, place, st) ELSE Redefined(CHOOSE w \in kept : TRUE, def, st)

LEMMA MergedWidgetOk ==
  ASSUME SlidersKeepBounds, NEW was, ListOk(was), NEW list, NEW st, NEW def \in Definitions
  PROVE  LET u == MergedWidget(was, list, st, def)
         IN  /\ WidgetOk(u) /\ u.def = def /\ u.linked = TRUE
             /\ Shows(was, st) => ShowsPart(u, st[def.id])
             /\ OthersShow(was, st) => (def.kind # "option" => ShowsPart(u, st[def.id]))
<1>1. PICK r : r = RowOf(list, def)
  OBVIOUS
<1>2. PICK kept : kept = {w \in Range(was) : SameWidget(w, def, r)}
  OBVIOUS
<1>3. PICK u : u = MergedWidget(was, list, st, def)
  OBVIOUS
<1>4. u = IF kept = {} THEN Fresh(def, r, st) ELSE Redefined(CHOOSE w \in kept : TRUE, def, st)
  BY ONLY <1>1, <1>2, <1>3 DEF MergedWidget
<1>5. CASE kept = {}
  <2>1. u = Fresh(def, r, st)
    BY ONLY <1>4, <1>5
  <2>2. WidgetOk(u) /\ u.def = def /\ u.linked = TRUE /\ ShowsPart(u, st[def.id])
    <3>1. IsNew(Fresh(def, r, st), def, r, st[def.id])
      BY FreshOk
    <3>2. QED
      BY ONLY <2>1, <3>1 DEF IsNew
  <2>3. QED
    BY ONLY <1>3, <2>2
<1>6. CASE kept # {}
  <2>1. PICK w : w = (CHOOSE x \in kept : TRUE)
    OBVIOUS
  <2>2. w \in kept
    BY <1>6, <2>1
  <2>3. PICK i \in 1 .. Len(was) : w = was[i]
    BY <1>2, <2>2, ListRange DEF ListOk
  <2>4. WidgetOk(w) /\ w.linked = TRUE
    BY <2>3 DEF ListOk, WidgetsOk
  <2>5. w.def.id = def.id /\ w.def.kind = def.kind
    BY <1>2, <2>2 DEF SameWidget
  <2>6. u = Redefined(w, def, st)
    BY ONLY <1>4, <1>6, <2>1
  <2>7. /\ WidgetOk(u) /\ u.def = def /\ SamePlace(u, w)
        /\ ShowsPart(w, st[def.id]) => ShowsPart(u, st[def.id])
    BY <2>4, <2>5, <2>6, RedefinedOk
  <2>8. Shows(was, st) => ShowsPart(w, st[w.def.id])
    BY <2>3 DEF Shows
  <2>9. OthersShow(was, st) => (w.def.kind # "option" => ShowsPart(w, st[w.def.id]))
    BY <2>3 DEF OthersShow
  <2>10. QED
    BY <1>3, <2>4, <2>5, <2>7, <2>8, <2>9 DEF SamePlace
<1>7. QED
  BY <1>5, <1>6

LEMMA MergedOk ==
  ASSUME SlidersKeepBounds, NEW was, ListOk(was), NEW list \in Seq(Definitions), DistinctIds(list), NEW st
  PROVE  LET m == Merged(was, list, st)
         IN  /\ ListOk(m)
             /\ Shows(was, st) => Shows(m, st)
             /\ OthersShow(was, st) => OthersShow(m, st)
             /\ \A i \in 1 .. Len(m) : m[i].def \in Range(list)
<1>1. PICK g : g = Grouped(list)
  OBVIOUS
<1>2. g \in Seq(Definitions) /\ DistinctIds(g) /\ Range(g) \subseteq Range(list)
  BY <1>1, GroupedIds
<1>3. PICK m : m = Merged(was, list, st)
  OBVIOUS
<1>4. m = [i \in 1 .. Len(g) |-> MergedWidget(was, list, st, g[i])]
  BY ONLY <1>1, <1>3 DEF Merged, MergedWidget
<1>5. PICK n \in Nat : n = Len(g)
  BY <1>2, LenProperties
<1>6. \A i \in 1 .. n : g[i] \in Definitions /\ g[i] \in Range(list)
  BY <1>2, <1>5, RangeProperties
<1>7. ASSUME NEW i \in 1 .. n
      PROVE  /\ WidgetOk(m[i]) /\ m[i].def = g[i] /\ m[i].linked = TRUE
             /\ Shows(was, st) => ShowsPart(m[i], st[m[i].def.id])
             /\ OthersShow(was, st) => (m[i].def.kind # "option" => ShowsPart(m[i], st[m[i].def.id]))
  <2>1. PICK d \in Definitions : d = g[i]
    BY <1>6
  <2>2. m[i] = MergedWidget(was, list, st, d)
    BY <1>4, <1>5, <2>1
  <2>3. PICK u : u = MergedWidget(was, list, st, d)
    OBVIOUS
  <2>4. /\ WidgetOk(u) /\ u.def = d /\ u.linked = TRUE
        /\ Shows(was, st) => ShowsPart(u, st[d.id])
        /\ OthersShow(was, st) => (d.kind # "option" => ShowsPart(u, st[d.id]))
    BY <2>3, MergedWidgetOk
  <2>5. QED
    BY ONLY <2>1, <2>2, <2>3, <2>4
<1>8. Len(m) = n /\ IsList(m)
  <2>1. m = [i \in 1 .. n |-> m[i]]
    BY ONLY <1>4, <1>5
  <2>2. QED
    BY <2>1, BuiltList
<1>9. WidgetsOk(m) /\ DistinctFilters(m)
  <2>1. WidgetsOk(m)
    BY <1>7, <1>8 DEF WidgetsOk
  <2>2. DistinctFilters(m)
    <3>1. \A i \in 1 .. n : m[i].def = g[i]
      BY <1>7
    <3>2. QED
      BY ONLY <1>2, <1>5, <1>8, <3>1 DEF DistinctFilters, DistinctIds
  <2>3. QED
    BY <2>1, <2>2
<1>10. ListOk(m)
  BY <1>8, <1>9 DEF ListOk
<1>11. Shows(was, st) => Shows(m, st)
  BY ONLY <1>7, <1>8 DEF Shows
<1>12. OthersShow(was, st) => OthersShow(m, st)
  <2>1. SUFFICES ASSUME OthersShow(was, st) PROVE OthersShow(m, st)
    OBVIOUS
  <2>2. \A i \in 1 .. n : m[i].def.kind # "option" => ShowsPart(m[i], st[m[i].def.id])
    BY <1>7, <2>1
  <2>3. QED
    BY ONLY <1>8, <2>2 DEF OthersShow
<1>13. \A i \in 1 .. Len(m) : m[i].def \in Range(list)
  BY ONLY <1>6, <1>7, <1>8
<1>14. QED
  BY ONLY <1>3, <1>10, <1>11, <1>12, <1>13

(* The primary filter of a new list.                                       *)
FromList(p, list, departments) == \E i \in 1 .. Len(list) : IsPrimary(list, departments, i) /\ p.def = list[i]

LEMMA NewPrimaryOk ==
  ASSUME SlidersKeepBounds, PrimaryOk(primary), NEW list \in Seq(Definitions), NEW departments \in BOOLEAN
  PROVE  LET p == NewPrimary(list, departments)
         IN  /\ PrimaryOk(p)
             /\ PrimaryShows(primary, state) => PrimaryShows(p, state)
             /\ p = None \/ (departments /\ p = primary) \/ FromList(p, list, departments)
<1>1. PICK p : p = NewPrimary(list, departments)
  OBVIOUS
<1>2. PICK first : first = {i \in 1 .. Len(list) : IsPrimary(list, departments, i)}
  OBVIOUS
<1>3. CASE first = {}
  <2>1. p = IF departments THEN primary ELSE None
    BY <1>1, <1>2, <1>3 DEF NewPrimary
  <2>2. PrimaryOk(None) /\ PrimaryShows(None, state)
    BY DEF PrimaryOk, PrimaryShows
  <2>3. (departments /\ p = primary) \/ p = None
    BY <2>1
  <2>4. QED
    <3>1. p = None \/ p = primary
      BY <2>3
    <3>2. PrimaryOk(p)
      BY ONLY PrimaryOk(primary), <2>2, <3>1
    <3>3. PrimaryShows(primary, state) => PrimaryShows(p, state)
      BY ONLY <2>2, <3>1
    <3>4. p = None \/ (departments /\ p = primary) \/ FromList(p, list, departments)
      <4>1. CASE departments
        BY ONLY <2>3, <4>1
      <4>2. CASE ~departments
        BY ONLY <2>3, <4>2
      <4>3. QED
        BY ONLY <4>1, <4>2
    <3>5. QED
      BY ONLY <1>1, <3>2, <3>3, <3>4
<1>4. CASE first # {}
  <2>1. PICK i : i = (CHOOSE x \in first : TRUE)
    OBVIOUS
  <2>2. i \in first
    BY <1>4, <2>1
  <2>3. i \in 1 .. Len(list) /\ IsPrimary(list, departments, i)
    BY <1>2, <2>2
  <2>4. PICK d \in Definitions : d = list[i]
    BY <2>3, LenProperties
  <2>5. d.kind = "option"
    BY <2>3, <2>4 DEF IsPrimary, Candidates
  <2>6. p = IF primary # None /\ primary.def.id = d.id THEN Redefined(primary, d, state)
            ELSE Fresh(d, PrimaryRow, state)
    BY <1>1, <1>2, <1>4, <2>1, <2>4 DEF NewPrimary
  <2>7. CASE primary # None /\ primary.def.id = d.id
    <3>1. PICK u : u = Redefined(primary, d, state)
      OBVIOUS
    <3>2. WidgetOk(primary) /\ primary.def.kind = d.kind
      BY <2>5, <2>7 DEF PrimaryOk
    <3>3. /\ WidgetOk(u) /\ u.def = d
          /\ ShowsPart(primary, state[d.id]) => ShowsPart(u, state[d.id])
      BY <2>7, <3>1, <3>2, RedefinedOk
    <3>4. p = u
      BY <2>6, <2>7, <3>1
    <3>5. PrimaryOk(p)
      BY ONLY <2>5, <3>3, <3>4 DEF PrimaryOk
    <3>6. PrimaryShows(primary, state) => PrimaryShows(p, state)
      BY ONLY <2>7, <3>3, <3>4 DEF PrimaryShows
    <3>7. FromList(p, list, departments)
      BY ONLY <2>3, <2>4, <3>3, <3>4 DEF FromList
    <3>8. QED
      BY ONLY <1>1, <3>5, <3>6, <3>7
  <2>8. CASE ~(primary # None /\ primary.def.id = d.id)
    <3>1. PICK r : r = PrimaryRow
      OBVIOUS
    <3>2. PICK u : u = Fresh(d, r, state)
      OBVIOUS
    <3>3. WidgetOk(u) /\ u.def = d /\ ShowsPart(u, state[d.id])
      <4>1. IsNew(Fresh(d, r, state), d, r, state[d.id])
        BY FreshOk
      <4>2. QED
        BY ONLY <3>2, <4>1 DEF IsNew
    <3>4. p = u
      BY ONLY <2>6, <2>8, <3>1, <3>2
    <3>5. PrimaryOk(p) /\ PrimaryShows(p, state)
      BY ONLY <2>5, <3>3, <3>4 DEF PrimaryOk, PrimaryShows
    <3>6. FromList(p, list, departments)
      BY ONLY <2>3, <2>4, <3>3, <3>4 DEF FromList
    <3>7. QED
      BY ONLY <1>1, <3>5, <3>6
  <2>9. QED
    BY <2>7, <2>8
<1>5. QED
  BY <1>3, <1>4

-----------------------------------------------------------------------------
(* Every action keeps the invariant.                                       *)

LEMMA FiltersInitInv == FiltersInit => FiltersInv
<1> SUFFICES ASSUME FiltersInit PROVE FiltersInv
  OBVIOUS
<1> USE DEF FiltersInit
<1>1. IsState(state)
  BY DEF IsState, NoState
<1>2. Len(filters) = 0 /\ filters = [i \in 1 .. 0 |-> filters[i]]
  OBVIOUS
<1>3. IsList(filters)
  BY <1>2 DEF IsList
<1>4. ListOk(filters) /\ Shows(filters, state) /\ OthersShow(filters, state) /\ PrimaryApart(primary, filters)
  BY <1>2, <1>3 DEF ListOk, WidgetsOk, DistinctFilters, Shows, OthersShow, PrimaryApart
<1>5. PrimaryOk(primary) /\ PrimaryShows(primary, state)
  BY DEF PrimaryOk, PrimaryShows
<1>6. ChangesAreAnnounced
  BY DEF ChangesAreAnnounced
<1>7. 0 \in 0 .. MaxFilterChanges
  BY FiltersAssumption
<1>8. QED
  BY <1>1, <1>4, <1>5, <1>6, <1>7 DEF FiltersInv, Agree

(* Timers of groups go with their rows.                                    *)
LEMMA DropTimersInv ==
  ASSUME FiltersInv, NEW ws, DropTimers(ws), UNCHANGED <<state, timer, announced>>
  PROVE  groupTimers' \subseteq RowsOf(ws) /\ dropped' \in BOOLEAN /\ ChangesAreAnnounced'
<1>1. groupTimers' \subseteq RowsOf(ws)
  BY DEF DropTimers, RowsOf
<1>2. dropped \in BOOLEAN /\ ChangesAreAnnounced
  BY DEF FiltersInv
<1>3. dropped' = (dropped \/ groupTimers' # groupTimers)
  BY DEF DropTimers
<1>4. CASE groupTimers' = groupTimers
  BY <1>1, <1>2, <1>3, <1>4 DEF ChangesAreAnnounced
<1>5. CASE groupTimers' # groupTimers
  BY <1>1, <1>3, <1>5 DEF ChangesAreAnnounced
<1>6. QED
  BY <1>4, <1>5

LEMMA UpdateFiltersInv ==
  ASSUME SlidersKeepBounds, FiltersInv, NEW list \in Lists, NEW departments \in BOOLEAN,
         UpdateFilters(list, departments)
  PROVE  FiltersInv'
<1>1. list \in Seq(Definitions) /\ DistinctIds(list)
  BY FiltersAssumption DEF DistinctIds
<1>2. PICK P : P = {def \in Range(list) : \A i \in 1 .. Len(list) : list[i] = def => ~IsPrimary(list, departments, i)}
  OBVIOUS
<1>3. PICK rest : rest = Selected(list, P)
  OBVIOUS
<1>4. rest \in Seq(Definitions) /\ DistinctIds(rest) /\ Range(rest) = Range(list) \cap P
  BY <1>1, <1>3, SelectedIds
<1>5. ListOk(filters) /\ PrimaryOk(primary) /\ doubled \in BOOLEAN
  BY DEF FiltersInv
<1>6. filters' = Merged(filters, rest, state) /\ state' = state
  BY <1>2, <1>3 DEF UpdateFilters
<1>7. /\ ListOk(filters')
      /\ Shows(filters, state) => Shows(filters', state)
      /\ OthersShow(filters, state) => OthersShow(filters', state)
      /\ \A i \in 1 .. Len(filters') : filters'[i].def \in Range(rest)
  BY <1>4, <1>5, <1>6, MergedOk
<1>8. primary' = NewPrimary(list, departments) /\ doubled' = (doubled \/ (departments /\ primary # None))
  BY DEF UpdateFilters
<1>9. /\ PrimaryOk(primary')
      /\ PrimaryShows(primary, state) => PrimaryShows(primary', state)
      /\ primary' = None \/ (departments /\ primary' = primary) \/ FromList(primary', list, departments)
  BY <1>1, <1>5, <1>8, NewPrimaryOk
<1>10. FromList(primary', list, departments) => PrimaryApart(primary', filters')
  <2>1. SUFFICES ASSUME FromList(primary', list, departments), NEW j \in 1 .. Len(filters')
                 PROVE  filters'[j].def.id # primary'.def.id
    BY DEF PrimaryApart
  <2>2. PICK i \in 1 .. Len(list) : IsPrimary(list, departments, i) /\ primary'.def = list[i]
    BY <2>1 DEF FromList
  <2>3. PICK d, e : d = filters'[j].def /\ e = list[i]
    OBVIOUS
  <2>4. d \in Range(list) /\ d \in P
    BY <1>4, <1>7, <2>3
  <2>5. e \in Range(list)
    BY <1>1, <2>3, RangeProperties
  <2>6. d # e
    BY <1>2, <2>2, <2>3, <2>4
  <2>7. d.id # e.id
    BY <1>1, <2>4, <2>5, <2>6, SameIdSameFilter
  <2>8. QED
    BY ONLY <2>2, <2>3, <2>7
<1>11. doubled' \/ Agree(filters', primary', state')
  <2>1. CASE doubled'
    BY <2>1
  <2>2. CASE ~doubled'
    <3>1. ~doubled /\ ~(departments /\ primary # None)
      BY <1>5, <1>8, <2>2
    <3>2. Agree(filters, primary, state)
      BY <3>1 DEF FiltersInv
    <3>3. primary' = None \/ FromList(primary', list, departments)
      BY <1>9, <3>1
    <3>4. PrimaryApart(primary', filters')
      BY <1>10, <3>3 DEF PrimaryApart
    <3>5. QED
      BY <1>6, <1>7, <1>9, <3>2, <3>4 DEF Agree
  <2>3. QED
    BY <2>1, <2>2
<1>12. DropTimers(filters') /\ UNCHANGED <<state, timer, announced, changes>>
  BY DEF UpdateFilters
<1>13. groupTimers' \subseteq RowsOf(filters') /\ dropped' \in BOOLEAN /\ ChangesAreAnnounced'
  <2>1. PICK ws : ws = filters'
    OBVIOUS
  <2>2. DropTimers(ws)
    BY <1>12, <2>1
  <2>3. groupTimers' \subseteq RowsOf(ws) /\ dropped' \in BOOLEAN /\ ChangesAreAnnounced'
    BY <1>12, <2>2, DropTimersInv
  <2>4. QED
    BY <2>1, <2>3
<1>14. doubled' \in BOOLEAN
  BY <1>5, <1>8
<1>15. timer' \in BOOLEAN /\ changes' \in 0 .. MaxFilterChanges /\ IsState(state')
  BY <1>12 DEF FiltersInv
<1>16. KindsStay => OthersShow(filters', state')
  BY <1>6, <1>7 DEF FiltersInv
<1>17. QED
  BY ONLY <1>7, <1>9, <1>11, <1>13, <1>14, <1>15, <1>16 DEF FiltersInv

LEMMA ClearFiltersInv ==
  ASSUME FiltersInv, ClearFilters
  PROVE  FiltersInv'
<1>1. filters' = <<>> /\ state' = NoState /\ UNCHANGED <<timer, announced, doubled, changes>> /\ DropTimers(<<>>)
  BY DEF ClearFilters
<1>2. primary' = IF primary = None THEN None ELSE [primary EXCEPT !.linked = FALSE]
  BY DEF ClearFilters
<1>3. IsState(state')
  BY <1>1 DEF IsState, NoState
<1>4. Len(filters') = 0 /\ IsList(filters')
  BY <1>1 DEF IsList
<1>5. ListOk(filters') /\ Shows(filters', state') /\ OthersShow(filters', state') /\ PrimaryApart(primary', filters')
  BY <1>4 DEF ListOk, WidgetsOk, DistinctFilters, Shows, OthersShow, PrimaryApart
<1>6. PrimaryOk(primary') /\ PrimaryShows(primary', state')
  <2>1. CASE primary = None
    BY <1>2, <2>1 DEF PrimaryOk, PrimaryShows
  <2>2. CASE primary # None
    <3>1. WidgetOk(primary) /\ primary.def.kind = "option"
      BY <2>2 DEF FiltersInv, PrimaryOk
    <3>2. PICK d, r, l, m, y : primary = [def |-> d, row |-> r, linked |-> l, marked |-> m, shown |-> y]
      BY <3>1 DEF WidgetOk, IsWidget
    <3>3. PICK u : u = [primary EXCEPT !.linked = FALSE]
      OBVIOUS
    <3>4. u = [def |-> d, row |-> r, linked |-> FALSE, marked |-> m, shown |-> y]
      BY ONLY <3>2, <3>3
    <3>5. /\ IsWidget(u) /\ u.def = primary.def /\ u.linked = FALSE
          /\ u.marked = primary.marked /\ u.shown = primary.shown
      BY ONLY <3>2, <3>4 DEF IsWidget
    <3>6. WidgetOk(u)
      BY ONLY <3>1, <3>5 DEF WidgetOk
    <3>7. primary' = u
      BY ONLY <1>2, <2>2, <3>3
    <3>8. PrimaryOk(primary')
      BY ONLY <3>1, <3>5, <3>6, <3>7 DEF PrimaryOk
    <3>9. PrimaryShows(primary', state')
      BY ONLY <3>5, <3>7 DEF PrimaryShows, ShowsPart
    <3>10. QED
      BY ONLY <3>8, <3>9
  <2>3. QED
    BY <2>1, <2>2
<1>7. groupTimers' = {}
  BY <1>1 DEF DropTimers, Range
<1>8. dropped' \in BOOLEAN
  BY <1>1 DEF DropTimers, FiltersInv
<1>9. ChangesAreAnnounced'
  BY <1>1 DEF ChangesAreAnnounced, NoState
<1>10. timer' \in BOOLEAN /\ doubled' \in BOOLEAN /\ changes' \in 0 .. MaxFilterChanges
  BY <1>1 DEF FiltersInv
<1>11. QED
  BY ONLY <1>3, <1>5, <1>6, <1>7, <1>8, <1>9, <1>10 DEF FiltersInv, Agree

LEMMA UpdateStateInv ==
  ASSUME FiltersInv, UpdateState
  PROVE  FiltersInv'
<1>1. state' = NoState /\ announced' = NoState /\ UNCHANGED <<timer, groupTimers, dropped, doubled, changes>>
  BY DEF UpdateState
<1>2. PICK n \in Nat : n = Len(filters)
  BY DEF FiltersInv, ListOk, IsList
<1>3. ListOk(filters) /\ PrimaryOk(primary)
  BY DEF FiltersInv
<1>4. filters' = [i \in 1 .. n |-> Relinked(filters[i], NoState)]
  BY <1>2 DEF UpdateState
<1>5. Len(filters') = n /\ IsList(filters')
  <2>1. PICK ws : ws = filters'
    OBVIOUS
  <2>2. ws = [i \in 1 .. n |-> ws[i]]
    BY <1>4, <2>1
  <2>3. Len(ws) = n /\ IsList(ws)
    BY ONLY n \in Nat, <2>2, BuiltList
  <2>4. QED
    BY <2>1, <2>3
<1>6. \A d \in Definitions : NoState[d.id] = None
  BY DefinitionProperties DEF NoState
<1>7. ASSUME NEW i \in 1 .. n
      PROVE  /\ WidgetOk(filters'[i]) /\ filters'[i].linked = TRUE /\ filters'[i].def = filters[i].def
             /\ filters'[i].row = filters[i].row /\ NoState[filters[i].def.id] = None
  <2>1. PICK w : w = filters[i]
    OBVIOUS
  <2>2. WidgetOk(w)
    BY <1>2, <1>3, <2>1 DEF ListOk, WidgetsOk
  <2>3. NoState[w.def.id] = None
    BY <1>6, <2>2 DEF WidgetOk
  <2>4. PICK st : st = NoState
    OBVIOUS
  <2>5. PICK u : u = Relinked(w, st)
    OBVIOUS
  <2>6. WidgetOk(u) /\ u.def = w.def /\ u.row = w.row /\ u.linked = TRUE
    BY <2>2, <2>3, <2>4, <2>5, RelinkedOk
  <2>7. filters'[i] = u
    BY <1>4, <2>1, <2>4, <2>5
  <2>8. QED
    BY ONLY <2>1, <2>3, <2>6, <2>7
<1>8. WidgetsOk(filters') /\ DistinctFilters(filters')
  <2>1. WidgetsOk(filters')
    BY ONLY <1>5, <1>7 DEF WidgetsOk
  <2>2. \A i \in 1 .. n : filters'[i].def = filters[i].def
    BY <1>7
  <2>3. DistinctFilters(filters')
    BY ONLY <1>2, <1>3, <1>5, <2>2 DEF ListOk, DistinctFilters
  <2>4. QED
    BY <2>1, <2>3
<1>9. Shows(filters', state') /\ OthersShow(filters', state')
  BY ONLY <1>1, <1>5, <1>7 DEF Shows, OthersShow, ShowsPart
<1>10. /\ PrimaryOk(primary') /\ PrimaryShows(primary', state')
       /\ PrimaryApart(primary, filters) => PrimaryApart(primary', filters')
  <2>1. CASE primary = None
    BY <2>1 DEF UpdateState, PrimaryOk, PrimaryShows, PrimaryApart
  <2>2. CASE primary # None
    <3>1. WidgetOk(primary) /\ primary.def.kind = "option"
      BY <1>3, <2>2 DEF PrimaryOk
    <3>2. NoState[primary.def.id] = None
      BY <1>6, <3>1 DEF WidgetOk
    <3>3. PICK w, st : w = primary /\ st = NoState
      OBVIOUS
    <3>4. PICK u : u = Relinked(w, st)
      OBVIOUS
    <3>5. WidgetOk(u) /\ u.def = w.def
      BY <3>1, <3>2, <3>3, <3>4, RelinkedOk
    <3>6. primary' = u
      BY <2>2, <3>3, <3>4 DEF UpdateState
    <3>7. PrimaryOk(primary')
      BY ONLY <3>1, <3>3, <3>5, <3>6 DEF PrimaryOk
    <3>8. PrimaryShows(primary', state')
      BY ONLY <1>1, <3>2, <3>3, <3>5, <3>6 DEF PrimaryShows, ShowsPart
    <3>9. PrimaryApart(primary, filters) => PrimaryApart(primary', filters')
      <4>1. \A i \in 1 .. n : filters'[i].def = filters[i].def
        BY <1>7
      <4>2. QED
        BY ONLY <1>2, <1>5, <2>2, <3>3, <3>5, <3>6, <4>1 DEF PrimaryApart
    <3>10. QED
      BY ONLY <3>7, <3>8, <3>9
  <2>3. QED
    BY <2>1, <2>2
<1>11. groupTimers' \subseteq RowsOf(filters')
  <2>1. \A i \in 1 .. n : filters'[i].row = filters[i].row
    BY <1>7
  <2>2. DOMAIN filters' = 1 .. n /\ DOMAIN filters = 1 .. n
    BY <1>2, <1>3, <1>4 DEF ListOk, IsList
  <2>3. RowsOf(filters) \subseteq RowsOf(filters')
    BY ONLY <2>1, <2>2 DEF RowsOf, Range
  <2>4. QED
    BY <1>1, <2>3 DEF FiltersInv
<1>12. ChangesAreAnnounced'
  BY <1>1 DEF ChangesAreAnnounced
<1>13. /\ timer' \in BOOLEAN /\ dropped' \in BOOLEAN /\ doubled' \in BOOLEAN /\ changes' \in 0 .. MaxFilterChanges
       /\ doubled \/ Agree(filters, primary, state)
       /\ doubled' = doubled
  BY <1>1 DEF FiltersInv
<1>14. doubled' \/ Agree(filters', primary', state')
  BY <1>9, <1>10, <1>13 DEF Agree
<1>15. IsState(state')
  BY <1>1 DEF IsState, NoState
<1>16. QED
  BY ONLY <1>5, <1>8, <1>9, <1>10, <1>11, <1>12, <1>13, <1>14, <1>15 DEF FiltersInv, ListOk

(* A change starts a timer.                                                *)
LEMMA EmitInv ==
  ASSUME FiltersInv, NEW told, told \subseteq RowsOf(filters) \cup {PrimaryRow}, Emit(told),
         UNCHANGED <<announced, dropped>>, told = {} => state' = state
  PROVE  timer' \in BOOLEAN /\ groupTimers' \subseteq RowsOf(filters) /\ ChangesAreAnnounced'
<1>1. /\ timer' = (timer \/ \E r \in told : r[1] # "group")
      /\ groupTimers' = groupTimers \cup {r \in told : r[1] = "group"}
  BY DEF Emit
<1>2. timer \in BOOLEAN /\ groupTimers \subseteq RowsOf(filters) /\ ChangesAreAnnounced
  BY DEF FiltersInv
<1>3. timer' \in BOOLEAN
  BY <1>1
<1>4. groupTimers' \subseteq RowsOf(filters)
  <2>1. PrimaryRow[1] # "group"
    BY DEF PrimaryRow
  <2>2. QED
    BY <1>1, <1>2, <2>1
<1>5. ChangesAreAnnounced'
  <2>1. CASE told = {}
    <3>1. timer' = timer /\ groupTimers' = groupTimers /\ state' = state
      BY <1>1, <1>2, <2>1
    <3>2. QED
      BY <1>2, <3>1 DEF ChangesAreAnnounced
  <2>2. CASE told # {}
    <3>1. PICK r \in told : TRUE
      BY <2>2
    <3>2. CASE r[1] = "group"
      <4>1. groupTimers' # {}
        BY <1>1, <3>2
      <4>2. QED
        BY <4>1 DEF ChangesAreAnnounced
    <3>3. CASE r[1] # "group"
      <4>1. timer'
        BY <1>1, <3>3
      <4>2. QED
        BY <4>1 DEF ChangesAreAnnounced
    <3>4. QED
      BY <3>2, <3>3
  <2>3. QED
    BY <2>1, <2>2
<1>6. QED
  BY <1>3, <1>4, <1>5

(* The user changes a widget of the list.                                  *)
ChangeInList ==
  \E i \in 1 .. Len(filters) : \E step \in UserSteps(filters[i]) :
    /\ filters' = [filters EXCEPT ![i] = step.widget] /\ UNCHANGED primary
    /\ state' = [state EXCEPT ![filters[i].def.id] = step.part]
    /\ Emit(IF step.emits THEN {filters[i].row} ELSE {})

LEMMA ChangeInListInv ==
  ASSUME FiltersInv, ChangeInList, changes' \in 0 .. MaxFilterChanges, UNCHANGED <<announced, dropped, doubled>>
  PROVE  FiltersInv'
<1>1. PICK i \in 1 .. Len(filters) : \E step \in UserSteps(filters[i]) :
        /\ filters' = [filters EXCEPT ![i] = step.widget] /\ UNCHANGED primary
        /\ state' = [state EXCEPT ![filters[i].def.id] = step.part]
        /\ Emit(IF step.emits THEN {filters[i].row} ELSE {})
  BY DEF ChangeInList
<1>2. PICK s \in UserSteps(filters[i]) :
        /\ filters' = [filters EXCEPT ![i] = s.widget] /\ UNCHANGED primary
        /\ state' = [state EXCEPT ![filters[i].def.id] = s.part]
        /\ Emit(IF s.emits THEN {filters[i].row} ELSE {})
  BY <1>1
<1>3. PICK n \in Nat : n = Len(filters)
  BY DEF FiltersInv, ListOk, IsList
<1>4. ListOk(filters) /\ PrimaryOk(primary) /\ IsState(state)
  BY DEF FiltersInv
<1>5. PICK w : w = filters[i]
  OBVIOUS
<1>6. WidgetOk(w) /\ w.linked = TRUE
  BY <1>4, <1>5 DEF ListOk, WidgetsOk
<1>7. PICK id : id = w.def.id
  OBVIOUS
<1>8. id \in FilterIds
  BY <1>6, <1>7, DefinitionProperties DEF WidgetOk
<1>9. StepOk(s, w, state[w.def.id])
  <2>1. s \in UserSteps(w)
    BY <1>5
  <2>2. QED
    BY <1>6, <2>1, UserStepsOk
<1>10. /\ WidgetOk(s.widget) /\ s.widget.def = w.def /\ s.widget.row = w.row /\ s.widget.linked = w.linked
       /\ ShowsPart(w, state[id]) => ShowsPart(s.widget, s.part)
       /\ s.emits \in BOOLEAN
       /\ ~s.emits => s.part = state[id]
  BY ONLY <1>7, <1>9 DEF StepOk, SamePlace
<1>11. DOMAIN filters = 1 .. n /\ i \in 1 .. n
  BY <1>3, <1>4 DEF ListOk, IsList
<1>12. \A j \in 1 .. n : filters'[j] = IF j = i THEN s.widget ELSE filters[j]
  BY <1>2, <1>11
<1>13. Len(filters') = n /\ IsList(filters')
  <2>1. PICK ws : ws = filters'
    OBVIOUS
  <2>2. ws = [j \in 1 .. n |-> ws[j]]
    BY <1>2, <1>11, <2>1
  <2>3. Len(ws) = n /\ IsList(ws)
    BY ONLY n \in Nat, <2>2, BuiltList
  <2>4. QED
    BY <2>1, <2>3
<1>14. \A j \in 1 .. n : filters'[j].def = filters[j].def /\ filters'[j].row = filters[j].row
  BY ONLY <1>5, <1>10, <1>12
<1>15. WidgetsOk(filters') /\ DistinctFilters(filters')
  <2>1. WidgetsOk(filters')
    BY ONLY <1>3, <1>4, <1>6, <1>10, <1>12, <1>13 DEF ListOk, WidgetsOk
  <2>2. DistinctFilters(filters')
    BY ONLY <1>3, <1>4, <1>13, <1>14 DEF ListOk, DistinctFilters
  <2>3. QED
    BY <2>1, <2>2
<1>16. IsState(state') /\ state'[id] = s.part /\ \A e \in FilterIds : e # id => state'[e] = state[e]
  BY <1>2, <1>4, <1>5, <1>7, <1>8 DEF IsState
<1>17. ASSUME NEW j \in 1 .. n, ShowsPart(filters[j], state[filters[j].def.id])
       PROVE  ShowsPart(filters'[j], state'[filters'[j].def.id])
  <2>2. ShowsPart(filters[j], state[filters[j].def.id])
    BY <1>17
  <2>3. CASE j = i
    <3>1. ShowsPart(s.widget, s.part)
      BY ONLY <1>5, <1>7, <1>10, <2>2, <2>3
    <3>2. filters'[j] = s.widget /\ filters'[j].def.id = id
      BY ONLY <1>7, <1>10, <1>12, <2>3, j \in 1 .. n
    <3>3. QED
      BY ONLY <1>16, <3>1, <3>2
  <2>4. CASE j # i
    <3>1. PICK v : v = filters[j]
      OBVIOUS
    <3>2. v.def.id # id
      BY <1>3, <1>4, <1>5, <1>7, <2>4, <3>1 DEF ListOk, DistinctFilters
    <3>3. v.def.id \in FilterIds
      <4>1. WidgetOk(v)
        BY <1>3, <1>4, <3>1 DEF ListOk, WidgetsOk
      <4>2. QED
        BY <4>1, DefinitionProperties DEF WidgetOk
    <3>4. filters'[j] = v
      BY <1>12, <2>4, <3>1
    <3>5. state'[v.def.id] = state[v.def.id]
      BY <1>16, <3>2, <3>3
    <3>6. QED
      BY ONLY <2>2, <3>1, <3>4, <3>5
  <2>5. QED
    BY <2>3, <2>4
<1>17a. /\ Shows(filters, state) => Shows(filters', state')
        /\ OthersShow(filters, state) => OthersShow(filters', state')
  BY ONLY <1>3, <1>13, <1>14, <1>17 DEF Shows, OthersShow
<1>18. primary' = primary
  BY <1>2
<1>19. Agree(filters, primary, state) => Agree(filters', primary', state')
  <2>1. SUFFICES ASSUME Agree(filters, primary, state) PROVE Agree(filters', primary', state')
    OBVIOUS
  <2>2. PrimaryApart(primary, filters) /\ PrimaryShows(primary, state) /\ Shows(filters, state)
    BY <2>1 DEF Agree
  <2>3. PrimaryApart(primary', filters')
    BY ONLY <1>3, <1>13, <1>14, <1>18, <2>2 DEF PrimaryApart
  <2>4. PrimaryShows(primary', state')
    <3>1. SUFFICES ASSUME primary # None PROVE ShowsPart(primary, state'[primary.def.id])
      BY <1>18 DEF PrimaryShows
    <3>2. primary.def.id # id
      BY <1>5, <1>7, <2>2, <3>1 DEF PrimaryApart
    <3>3. primary.def.id \in FilterIds
      BY <1>4, <3>1, DefinitionProperties DEF PrimaryOk, WidgetOk
    <3>4. state'[primary.def.id] = state[primary.def.id]
      BY <1>16, <3>2, <3>3
    <3>5. QED
      BY <2>2, <3>1, <3>4 DEF PrimaryShows
  <2>5. QED
    BY <1>17a, <2>2, <2>3, <2>4 DEF Agree
<1>20. PICK emitted : emitted = IF s.emits THEN {filters[i].row} ELSE {}
  OBVIOUS
<1>21. timer' \in BOOLEAN /\ groupTimers' \subseteq RowsOf(filters) /\ ChangesAreAnnounced'
  <2>1. filters[i].row \in RowsOf(filters)
    BY <1>4, ListRange DEF ListOk, RowsOf
  <2>2. emitted \subseteq RowsOf(filters) \cup {PrimaryRow}
    BY <1>20, <2>1
  <2>3. Emit(emitted)
    BY <1>2, <1>20
  <2>4. emitted = {} => state' = state
    <3>1. SUFFICES ASSUME emitted = {} PROVE state' = state
      OBVIOUS
    <3>2. s.part = state[id]
      BY <1>10, <1>20, <3>1
    <3>3. QED
      BY <1>2, <1>4, <1>5, <1>7, <1>8, <3>2 DEF IsState
  <2>5. QED
    BY <2>2, <2>3, <2>4, EmitInv
<1>22. RowsOf(filters) \subseteq RowsOf(filters')
  <2>1. DOMAIN filters' = 1 .. n
    BY <1>13 DEF IsList
  <2>2. QED
    BY ONLY <1>11, <1>14, <2>1 DEF RowsOf, Range
<1>23. /\ dropped' \in BOOLEAN /\ doubled' \in BOOLEAN /\ doubled' = doubled
       /\ doubled \/ Agree(filters, primary, state)
       /\ KindsStay => OthersShow(filters, state)
  BY DEF FiltersInv
<1>24. QED
  BY ONLY <1>4, <1>13, <1>15, <1>16, <1>18, <1>19, <1>21, <1>22, <1>23, <1>17a, changes' \in 0 .. MaxFilterChanges
     DEF FiltersInv, ListOk

(* The user changes the primary filter.                                    *)
ChangePrimary ==
  /\ primary # None
  /\ \E step \in UserSteps(primary) :
       /\ primary' = step.widget /\ UNCHANGED filters
       /\ state' = [state EXCEPT ![primary.def.id] = step.part]
       /\ Emit(IF step.emits THEN {PrimaryRow} ELSE {})

LEMMA ChangePrimaryInv ==
  ASSUME FiltersInv, ChangePrimary, changes' \in 0 .. MaxFilterChanges, UNCHANGED <<announced, dropped, doubled>>
  PROVE  FiltersInv'
<1>1. PICK s \in UserSteps(primary) :
        /\ primary' = s.widget /\ UNCHANGED filters
        /\ state' = [state EXCEPT ![primary.def.id] = s.part]
        /\ Emit(IF s.emits THEN {PrimaryRow} ELSE {})
  BY DEF ChangePrimary
<1>2. PICK w : w = primary
  OBVIOUS
<1>3. w # None /\ WidgetOk(w) /\ w.def.kind = "option" /\ IsState(state) /\ ListOk(filters)
  BY <1>2 DEF ChangePrimary, FiltersInv, PrimaryOk
<1>4. PICK id : id = w.def.id
  OBVIOUS
<1>5. id \in FilterIds
  BY <1>3, <1>4, DefinitionProperties DEF WidgetOk
<1>6. StepOk(s, w, state[w.def.id])
  <2>1. s \in UserSteps(w)
    BY <1>2
  <2>2. QED
    BY <1>3, <2>1, UserStepsOk
<1>7. /\ WidgetOk(s.widget) /\ s.widget.def = w.def
      /\ ShowsPart(w, state[id]) => ShowsPart(s.widget, s.part)
      /\ s.emits \in BOOLEAN
      /\ ~s.emits => s.part = state[id]
  BY ONLY <1>4, <1>6 DEF StepOk
<1>8. IsState(state') /\ state'[id] = s.part /\ \A e \in FilterIds : e # id => state'[e] = state[e]
  BY <1>1, <1>2, <1>3, <1>4, <1>5 DEF IsState
<1>9. primary' = s.widget /\ filters' = filters
  BY <1>1
<1>10. PrimaryOk(primary')
  BY ONLY <1>3, <1>7, <1>9 DEF PrimaryOk
<1>11. Agree(filters, primary, state) => Agree(filters', primary', state')
  <2>1. SUFFICES ASSUME Agree(filters, primary, state) PROVE Agree(filters', primary', state')
    OBVIOUS
  <2>2. PrimaryApart(w, filters) /\ PrimaryShows(w, state) /\ Shows(filters, state)
    BY <1>2, <2>1 DEF Agree
  <2>3. PrimaryApart(primary', filters')
    BY ONLY <1>3, <1>7, <1>9, <2>2 DEF PrimaryApart
  <2>4. PrimaryShows(primary', state')
    BY ONLY <1>3, <1>4, <1>7, <1>8, <1>9, <2>2 DEF PrimaryShows
  <2>5. Shows(filters', state')
    <3>1. SUFFICES ASSUME NEW j \in 1 .. Len(filters) PROVE ShowsPart(filters[j], state'[filters[j].def.id])
      BY <1>9 DEF Shows
    <3>2. filters[j].def.id # id
      BY <1>3, <1>4, <2>2 DEF PrimaryApart
    <3>3. filters[j].def.id \in FilterIds
      <4>1. PICK v : v = filters[j]
        OBVIOUS
      <4>2. WidgetOk(v)
        BY <1>3, <4>1 DEF ListOk, WidgetsOk
      <4>3. QED
        BY <4>1, <4>2, DefinitionProperties DEF WidgetOk
    <3>4. state'[filters[j].def.id] = state[filters[j].def.id]
      BY <1>8, <3>2, <3>3
    <3>5. QED
      BY <2>2, <3>4 DEF Shows
  <2>6. QED
    BY <2>3, <2>4, <2>5 DEF Agree
<1>12. PICK emitted : emitted = IF s.emits THEN {PrimaryRow} ELSE {}
  OBVIOUS
<1>13. timer' \in BOOLEAN /\ groupTimers' \subseteq RowsOf(filters) /\ ChangesAreAnnounced'
  <2>1. emitted \subseteq RowsOf(filters) \cup {PrimaryRow}
    BY <1>12
  <2>2. Emit(emitted)
    BY <1>1, <1>12
  <2>3. emitted = {} => state' = state
    <3>1. SUFFICES ASSUME emitted = {} PROVE state' = state
      OBVIOUS
    <3>2. s.part = state[id]
      BY <1>7, <1>12, <3>1
    <3>3. QED
      BY <1>1, <1>2, <1>3, <1>4, <1>5, <3>2 DEF IsState
  <2>4. QED
    BY <2>1, <2>2, <2>3, EmitInv
<1>14. /\ dropped' \in BOOLEAN /\ doubled' \in BOOLEAN /\ doubled' = doubled
       /\ doubled \/ Agree(filters, primary, state)
  BY DEF FiltersInv
<1>15. KindsStay => OthersShow(filters', state')
  <2>1. SUFFICES ASSUME KindsStay, NEW j \in 1 .. Len(filters), filters[j].def.kind # "option"
                 PROVE  ShowsPart(filters[j], state'[filters[j].def.id])
    BY <1>9 DEF OthersShow
  <2>2. PICK v : v = filters[j]
    OBVIOUS
  <2>3. WidgetOk(v)
    BY <1>3, <2>2 DEF ListOk, WidgetsOk
  <2>4. v.def \in Definitions /\ w.def \in Definitions
    BY <1>3, <2>3 DEF WidgetOk
  <2>5. v.def.id # id
    BY <1>3, <1>4, <2>1, <2>2, <2>4 DEF KindsStay
  <2>6. state'[v.def.id] = state[v.def.id]
    BY <1>8, <2>4, <2>5, DefinitionProperties
  <2>7. ShowsPart(v, state[v.def.id])
    BY <2>1, <2>2 DEF FiltersInv, OthersShow
  <2>8. QED
    BY ONLY <2>2, <2>6, <2>7
<1>16. QED
  BY ONLY <1>3, <1>8, <1>9, <1>10, <1>11, <1>13, <1>14, <1>15, changes' \in 0 .. MaxFilterChanges DEF FiltersInv

LEMMA UserChangeInv ==
  ASSUME FiltersInv, UserChange
  PROVE  FiltersInv'
<1>1. changes' \in 0 .. MaxFilterChanges
  BY FiltersAssumption DEF UserChange, FiltersInv
<1>2. UNCHANGED <<announced, dropped, doubled>> /\ (ChangeInList \/ ChangePrimary)
  BY DEF UserChange, ChangeInList, ChangePrimary
<1>3. QED
  BY <1>1, <1>2, ChangeInListInv, ChangePrimaryInv

(* What a reset leaves of a filter and of its part of the state.           *)
LEMMA ResetEach ==
  ASSUME FiltersInv, ResetFilters
  PROVE  /\ Len(filters') = Len(filters) /\ IsList(filters')
         /\ \A i \in 1 .. Len(filters) :
              /\ filters'[i] = ResetWidget(filters[i]).widget
              /\ state'[filters[i].def.id] = ResetWidget(filters[i]).part
<1>1. PICK n \in Nat : n = Len(filters)
  BY DEF FiltersInv, ListOk, IsList
<1>2. ListOk(filters)
  BY DEF FiltersInv
<1>3. PICK steps : steps = [i \in 1 .. n |-> ResetWidget(filters[i])]
  OBVIOUS
<1>4. /\ filters' = [i \in 1 .. n |-> steps[i].widget]
      /\ state' = [id \in FilterIds |->
           IF {i \in 1 .. n : filters[i].def.id = id} = {} THEN state[id]
           ELSE steps[CHOOSE i \in {j \in 1 .. n : filters[j].def.id = id} : TRUE].part]
  BY <1>1, <1>3 DEF ResetFilters
<1>5. ASSUME NEW i \in 1 .. n
      PROVE  filters'[i] = steps[i].widget /\ state'[filters[i].def.id] = steps[i].part
  <2>1. filters[i].def.id \in FilterIds
    <3>1. PICK w : w = filters[i]
      OBVIOUS
    <3>2. WidgetOk(w)
      BY <1>1, <1>2, <3>1 DEF ListOk, WidgetsOk
    <3>3. QED
      BY <3>1, <3>2, DefinitionProperties DEF WidgetOk
  <2>2. PICK id \in FilterIds : id = filters[i].def.id
    BY <2>1
  <2>3. PICK I : I = {j \in 1 .. n : filters[j].def.id = id}
    OBVIOUS
  <2>4. i \in I /\ \A j \in I : j = i
    BY <1>1, <1>2, <2>2, <2>3 DEF ListOk, DistinctFilters
  <2>5. (CHOOSE j \in I : TRUE) = i
    BY <2>4
  <2>6. state'[id] = IF I = {} THEN state[id] ELSE steps[CHOOSE j \in I : TRUE].part
    BY ONLY <1>4, <2>3, id \in FilterIds
  <2>7. filters'[i] = steps[i].widget
    BY ONLY <1>4, i \in 1 .. n
  <2>8. QED
    BY ONLY <2>2, <2>4, <2>5, <2>6, <2>7
<1>6. Len(filters') = n /\ IsList(filters')
  <2>1. PICK ws : ws = filters'
    OBVIOUS
  <2>2. ws = [j \in 1 .. n |-> ws[j]]
    BY ONLY <1>4, <2>1
  <2>3. Len(ws) = n /\ IsList(ws)
    BY ONLY n \in Nat, <2>2, BuiltList
  <2>4. QED
    BY <2>1, <2>3
<1>7. QED
  BY ONLY <1>1, <1>3, <1>5, <1>6

(* All filters of the list at once.                                        *)
LEMMA ResetFiltersInv ==
  ASSUME FiltersInv, ResetFilters
  PROVE  FiltersInv'
<1>1. PICK n \in Nat : n = Len(filters)
  BY DEF FiltersInv, ListOk, IsList
<1>2. ListOk(filters) /\ PrimaryOk(primary) /\ IsState(state)
  BY DEF FiltersInv
<1>3. PICK steps : steps = [i \in 1 .. n |-> ResetWidget(filters[i])]
  OBVIOUS
<1>4. /\ Len(filters') = n /\ IsList(filters')
      /\ \A i \in 1 .. n : filters'[i] = steps[i].widget /\ state'[filters[i].def.id] = steps[i].part
  BY <1>1, <1>3, ResetEach
<1>5. /\ filters' = [i \in 1 .. n |-> steps[i].widget]
      /\ state' = [id \in FilterIds |->
           IF {i \in 1 .. n : filters[i].def.id = id} = {} THEN state[id]
           ELSE steps[CHOOSE i \in {j \in 1 .. n : filters[j].def.id = id} : TRUE].part]
      /\ Emit({filters[i].row : i \in {j \in 1 .. n : steps[j].emits}})
      /\ UNCHANGED <<primary, announced, dropped, doubled, changes>>
  BY <1>1, <1>3 DEF ResetFilters
<1>6. ASSUME NEW i \in 1 .. n
      PROVE  /\ WidgetOk(steps[i].widget) /\ steps[i].widget.def = filters[i].def
             /\ steps[i].widget.row = filters[i].row /\ steps[i].widget.linked = TRUE
             /\ ShowsPart(filters[i], state[filters[i].def.id]) => ShowsPart(steps[i].widget, steps[i].part)
             /\ ~steps[i].emits => steps[i].part = state[filters[i].def.id]
             /\ filters[i].def.id \in FilterIds
  <2>1. PICK w : w = filters[i]
    OBVIOUS
  <2>2. WidgetOk(w) /\ w.linked = TRUE
    BY <1>1, <1>2, <2>1 DEF ListOk, WidgetsOk
  <2>3. PICK s : s = ResetWidget(w)
    OBVIOUS
  <2>4. StepOk(s, w, state[w.def.id])
    BY <2>2, <2>3, ResetWidgetOk
  <2>5. steps[i] = s
    BY <1>3, <2>1, <2>3
  <2>6. w.def.id \in FilterIds
    BY <2>2, DefinitionProperties DEF WidgetOk
  <2>7. QED
    BY ONLY <2>1, <2>2, <2>4, <2>5, <2>6 DEF StepOk, SamePlace
<1>7. ASSUME NEW i \in 1 .. n PROVE state'[filters[i].def.id] = steps[i].part
  BY <1>4
<1>8. ASSUME NEW id \in FilterIds, \A i \in 1 .. n : filters[i].def.id # id PROVE state'[id] = state[id]
  BY <1>5, <1>8
<1>9. IsState(state')
  BY <1>5 DEF IsState
<1>10. Len(filters') = n /\ IsList(filters')
  BY <1>4
<1>11. \A i \in 1 .. n : filters'[i] = steps[i].widget
  BY ONLY <1>4
<1>12. \A i \in 1 .. n : filters'[i].def = filters[i].def /\ filters'[i].row = filters[i].row
  BY ONLY <1>6, <1>11
<1>13. WidgetsOk(filters') /\ DistinctFilters(filters')
  <2>1. WidgetsOk(filters')
    BY ONLY <1>6, <1>10, <1>11 DEF WidgetsOk
  <2>2. DistinctFilters(filters')
    BY ONLY <1>1, <1>2, <1>10, <1>12 DEF ListOk, DistinctFilters
  <2>3. QED
    BY <2>1, <2>2
<1>14. ASSUME NEW i \in 1 .. n, ShowsPart(filters[i], state[filters[i].def.id])
       PROVE  ShowsPart(filters'[i], state'[filters'[i].def.id])
  <2>3. ShowsPart(steps[i].widget, steps[i].part)
    BY <1>6, <1>14
  <2>4. filters'[i] = steps[i].widget /\ filters'[i].def = filters[i].def
    BY <1>11, <1>12
  <2>5. state'[filters[i].def.id] = steps[i].part
    BY <1>7
  <2>6. QED
    BY ONLY <2>3, <2>4, <2>5
<1>14a. /\ Shows(filters, state) => Shows(filters', state')
        /\ OthersShow(filters, state) => OthersShow(filters', state')
  BY ONLY <1>1, <1>10, <1>12, <1>14 DEF Shows, OthersShow
<1>15. Agree(filters, primary, state) => Agree(filters', primary', state')
  <2>1. SUFFICES ASSUME Agree(filters, primary, state) PROVE Agree(filters', primary', state')
    OBVIOUS
  <2>2. PrimaryApart(primary, filters) /\ PrimaryShows(primary, state) /\ Shows(filters, state)
    BY <2>1 DEF Agree
  <2>3. primary' = primary
    BY <1>5
  <2>4. PrimaryApart(primary', filters')
    BY ONLY <1>1, <1>10, <1>12, <2>2, <2>3 DEF PrimaryApart
  <2>5. PrimaryShows(primary', state')
    <3>1. SUFFICES ASSUME primary # None PROVE ShowsPart(primary, state'[primary.def.id])
      BY <2>3 DEF PrimaryShows
    <3>2. \A i \in 1 .. n : filters[i].def.id # primary.def.id
      BY <1>1, <2>2, <3>1 DEF PrimaryApart
    <3>3. primary.def.id \in FilterIds
      BY <1>2, <3>1, DefinitionProperties DEF PrimaryOk, WidgetOk
    <3>4. PICK id \in FilterIds : id = primary.def.id
      BY <3>3
    <3>5. state'[id] = state[id]
      BY <1>8, <3>2, <3>4
    <3>6. QED
      BY <2>2, <3>1, <3>4, <3>5 DEF PrimaryShows
  <2>6. QED
    BY <1>14a, <2>2, <2>4, <2>5 DEF Agree
<1>16. PICK emitted : emitted = {filters[i].row : i \in {j \in 1 .. n : steps[j].emits}}
  OBVIOUS
<1>17. timer' \in BOOLEAN /\ groupTimers' \subseteq RowsOf(filters) /\ ChangesAreAnnounced'
  <2>1. \A i \in 1 .. n : filters[i].row \in RowsOf(filters)
    BY <1>1, <1>2, ListRange DEF ListOk, RowsOf
  <2>2. emitted \subseteq RowsOf(filters) \cup {PrimaryRow}
    BY <1>16, <2>1
  <2>3. Emit(emitted) /\ UNCHANGED <<announced, dropped>>
    BY <1>5, <1>16
  <2>4. emitted = {} => state' = state
    <3>1. SUFFICES ASSUME emitted = {} PROVE state' = state
      OBVIOUS
    <3>2. \A i \in 1 .. n : ~steps[i].emits
      BY <1>16, <3>1
    <3>3. ASSUME NEW id \in FilterIds PROVE state'[id] = state[id]
      <4>1. CASE \E i \in 1 .. n : filters[i].def.id = id
        <5>1. PICK i \in 1 .. n : filters[i].def.id = id
          BY <4>1
        <5>2. steps[i].part = state[filters[i].def.id]
          BY <1>6, <3>2
        <5>3. state'[filters[i].def.id] = steps[i].part
          BY <1>7
        <5>4. QED
          BY ONLY <5>1, <5>2, <5>3
      <4>2. CASE ~(\E i \in 1 .. n : filters[i].def.id = id)
        BY <1>8, <4>2
      <4>3. QED
        BY <4>1, <4>2
    <3>4. QED
      BY ONLY <1>2, <1>9, <3>3 DEF IsState
  <2>5. QED
    BY <2>2, <2>3, <2>4, EmitInv
<1>18. RowsOf(filters) \subseteq RowsOf(filters')
  <2>1. DOMAIN filters' = 1 .. n /\ DOMAIN filters = 1 .. n
    BY <1>1, <1>2, <1>10 DEF ListOk, IsList
  <2>2. QED
    BY ONLY <1>12, <2>1 DEF RowsOf, Range
<1>19. /\ dropped' \in BOOLEAN /\ doubled' \in BOOLEAN /\ doubled' = doubled /\ primary' = primary
       /\ changes' \in 0 .. MaxFilterChanges
       /\ doubled \/ Agree(filters, primary, state)
       /\ KindsStay => OthersShow(filters, state)
  BY <1>5 DEF FiltersInv
<1>20. QED
  BY ONLY <1>2, <1>9, <1>10, <1>13, <1>15, <1>17, <1>18, <1>19, <1>14a DEF FiltersInv, ListOk

LEMMA GroupTimeoutInv ==
  ASSUME FiltersInv, NEW r \in groupTimers, GroupTimeout(r)
  PROVE  FiltersInv'
<1>1. /\ timer' = TRUE /\ groupTimers' \subseteq groupTimers
      /\ UNCHANGED <<filters, primary, state, announced, dropped, doubled, changes>>
  BY DEF GroupTimeout
<1>2. ChangesAreAnnounced'
  BY <1>1 DEF ChangesAreAnnounced
<1>3. QED
  BY <1>1, <1>2 DEF FiltersInv

LEMMA DelayedFilterStateChangeInv ==
  ASSUME FiltersInv, DelayedFilterStateChange
  PROVE  FiltersInv'
<1>1. /\ timer' = FALSE /\ announced' = state
      /\ UNCHANGED <<filters, primary, state, groupTimers, dropped, doubled, changes>>
  BY DEF DelayedFilterStateChange
<1>2. ChangesAreAnnounced'
  BY <1>1 DEF ChangesAreAnnounced
<1>3. QED
  BY <1>1, <1>2 DEF FiltersInv

LEMMA FiltersStep ==
  ASSUME SlidersKeepBounds, FiltersInv, [FiltersNext]_filterVars
  PROVE  FiltersInv'
<1>1. CASE \E list \in Lists, departments \in BOOLEAN : UpdateFilters(list, departments)
  BY <1>1, UpdateFiltersInv
<1>2. CASE ClearFilters
  BY <1>2, ClearFiltersInv
<1>3. CASE UpdateState
  BY <1>3, UpdateStateInv
<1>4. CASE UserChange
  BY <1>4, UserChangeInv
<1>5. CASE ResetFilters
  BY <1>5, ResetFiltersInv
<1>6. CASE \E r \in groupTimers : GroupTimeout(r)
  BY <1>6, GroupTimeoutInv
<1>7. CASE DelayedFilterStateChange
  BY <1>7, DelayedFilterStateChangeInv
<1>8. CASE UNCHANGED filterVars
  <2>1. /\ filters' = filters /\ primary' = primary /\ state' = state /\ timer' = timer
        /\ groupTimers' = groupTimers /\ announced' = announced /\ dropped' = dropped
        /\ doubled' = doubled /\ changes' = changes
    BY <1>8 DEF filterVars
  <2>2. ChangesAreAnnounced'
    BY <2>1 DEF ChangesAreAnnounced, FiltersInv
  <2>3. QED
    BY <2>1, <2>2 DEF FiltersInv
<1>9. QED
  BY <1>1, <1>2, <1>3, <1>4, <1>5, <1>6, <1>7, <1>8 DEF FiltersNext

(* The widgets of the list and the primary one.                            *)
LEMMA WidgetsHold ==
  ASSUME FiltersInv, NEW w \in Widgets
  PROVE  WidgetOk(w) /\ (doubled \/ ShowsPart(w, state[w.def.id]))
<1>1. CASE w \in Range(filters)
  <2>1. PICK i \in 1 .. Len(filters) : w = filters[i]
    BY <1>1, ListRange DEF FiltersInv, ListOk
  <2>2. WidgetOk(w)
    BY <2>1 DEF FiltersInv, ListOk, WidgetsOk
  <2>3. doubled \/ ShowsPart(w, state[w.def.id])
    BY <2>1 DEF FiltersInv, Agree, Shows
  <2>4. QED
    BY <2>2, <2>3
<1>2. CASE w \notin Range(filters)
  <2>1. primary # None /\ w = primary
    BY <1>2 DEF Widgets
  <2>2. WidgetOk(w)
    BY <2>1 DEF FiltersInv, PrimaryOk
  <2>3. doubled \/ ShowsPart(w, state[w.def.id])
    BY <2>1 DEF FiltersInv, Agree, PrimaryShows
  <2>4. QED
    BY <2>2, <2>3
<1>3. QED
  BY <1>1, <1>2

LEMMA FiltersInvAgrees == FiltersInv => FiltersAgree
<1> SUFFICES ASSUME FiltersInv PROVE FiltersAgree
  OBVIOUS
<1>1. FiltersTypeOK
  <2>1. {timer, dropped, doubled} \subseteq BOOLEAN /\ changes \in 0 .. MaxFilterChanges
    BY DEF FiltersInv
  <2>2. ASSUME NEW w \in Widgets
        PROVE  /\ w.def \in Definitions
               /\ w.def.kind = "option" => w.shown \subseteq w.def.options /\ w.marked \subseteq w.def.options
    BY <2>2, WidgetsHold DEF WidgetOk
  <2>3. \A w \in Range(filters) : w.linked
    BY ListRange DEF FiltersInv, ListOk, WidgetsOk
  <2>4. \A i, j \in 1 .. Len(filters) : filters[i].def.id = filters[j].def.id => i = j
    BY DEF FiltersInv, ListOk, DistinctFilters
  <2>5. groupTimers \subseteq {w.row : w \in Range(filters)}
    BY DEF FiltersInv, RowsOf
  <2>6. QED
    BY <2>1, <2>2, <2>3, <2>4, <2>5 DEF FiltersTypeOK
<1>2. WidgetsShowState
  <2>1. SUFFICES ASSUME ~doubled, NEW w \in Widgets, w.linked, state[w.def.id] # None
                 PROVE  IF w.def.kind = "option"
                        THEN w.shown = ActiveOptions(w.def, state) \/ ActiveOptions(w.def, state) = {}
                        ELSE w.shown = state[w.def.id] \/ ~Accepts(w.def, w.shown)
    BY DEF WidgetsShowState
  <2>2. ShowsPart(w, state[w.def.id]) /\ w.def \in Definitions
    BY <2>1, WidgetsHold DEF WidgetOk
  <2>3. CASE w.def.kind = "option"
    <3>1. ActiveOptions(w.def, state) = Active(w.def, state[w.def.id])
      BY <2>2, <2>3, ActiveIs
    <3>2. QED
      BY <2>1, <2>2, <2>3, <3>1 DEF ShowsPart
  <2>4. CASE w.def.kind # "option"
    BY <2>1, <2>2, <2>4 DEF ShowsPart
  <2>5. QED
    BY <2>3, <2>4
<1>3. ChangesAreAnnounced
  BY DEF FiltersInv
<1>4. QED
  BY <1>1, <1>2, <1>3 DEF FiltersAgree

(* Widgets, state and Scope agree (filters.cpp:139-278), whatever filters  *)
(* the scope sends and the user changes, if a slider that is sent again    *)
(* has the bounds it had: a widget may show a value that the state has     *)
(* refused, and ValueSliderFilter::update() with other bounds does not     *)
(* look at that again.                                                     *)
THEOREM FiltersAgreeAlways ==
  ASSUME SlidersKeepBounds
  PROVE  FiltersSpec => []FiltersAgree
<1>1. FiltersInit => FiltersInv
  BY FiltersInitInv
<1>2. FiltersInv /\ [FiltersNext]_filterVars => FiltersInv'
  BY FiltersStep
<1>3. FiltersInv => FiltersAgree
  BY FiltersInvAgrees
<1>4. QED
  BY <1>1, <1>2, <1>3, PTL DEF FiltersSpec

-----------------------------------------------------------------------------
(* Filters::reset().                                                       *)

(* The scopes library refuses a filter whose defaults it would refuse in a *)
(* state.                                                                  *)
DefaultsAccepted ==
  \A def \in Definitions :
    /\ def.kind # "option" => Accepts(def, def.defaults)
    /\ def.kind = "range" => def.defaults = <<def.defaults[1], def.defaults[2]>>

(* Accepted or not, the widget has the value.                              *)
HasShown(s, x) == s.widget.shown = x

LEMMA SetShownShows ==
  ASSUME NEW w, WidgetOk(w), w.linked = TRUE, w.def.kind # "option", NEW part, NEW x
  PROVE  HasShown(SetShown(w, part, x), x)
<1>1. PICK s : s = SetShown(w, part, x)
  OBVIOUS
<1>2. IsWidget(w)
  BY DEF WidgetOk
<1>3. CASE x = w.shown
  <2>1. s = Step(w, part, FALSE)
    BY <1>1, <1>3 DEF SetShown
  <2>2. s.widget = w
    BY ONLY <2>1 DEF Step
  <2>3. QED
    BY <1>1, <1>3, <2>2 DEF HasShown
<1>4. CASE x # w.shown
  <2>1. PICK u : u = [w EXCEPT !.shown = x]
    OBVIOUS
  <2>2. u.shown = x
    BY ONLY <1>2, <2>1, ShownChanged
  <2>3. s = IF Accepts(w.def, x) THEN Step(u, x, TRUE) ELSE Step(u, part, FALSE)
    BY ONLY w.linked = TRUE, <1>1, <1>4, <2>1 DEF SetShown
  <2>4. s.widget = u
    BY ONLY <2>3 DEF Step
  <2>5. QED
    BY <1>1, <2>2, <2>4 DEF HasShown
<1>5. QED
  BY <1>3, <1>4

(* reset() of a widget leaves it with the defaults, and options without a  *)
(* state.                                                                  *)
LEMMA ResetWidgetRestores ==
  ASSUME DefaultsAccepted, NEW w, WidgetOk(w), w.linked = TRUE
  PROVE  LET s == ResetWidget(w)
         IN  /\ w.def.kind = "option" => s.part = None
             /\ w.def.kind # "option" => s.widget.shown = w.def.defaults
<1>1. PICK s : s = ResetWidget(w)
  OBVIOUS
<1>2. w.def \in Definitions
  BY DEF WidgetOk
<1>3. CASE w.def.kind = "option"
  <2>1. s = Step(Relinked(w, NoState), None, TRUE)
    BY <1>1, <1>3 DEF ResetWidget, ResetOptions
  <2>2. s.part = None
    BY ONLY <2>1 DEF Step
  <2>3. QED
    BY ONLY <1>1, <1>3, <2>2
<1>4. CASE w.def.kind = "range"
  <2>1. PICK p, x : p = state[w.def.id] /\ x = <<w.def.defaults[1], w.shown[2]>>
    OBVIOUS
  <2>2. PICK a : a = SetShown(w, p, x)
    OBVIOUS
  <2>3. StepOk(a, w, p) /\ HasShown(a, x)
    <3>1. StepOk(SetShown(w, p, x), w, p)
      BY <1>4, SetShownOk
    <3>2. HasShown(SetShown(w, p, x), x)
      BY <1>4, SetShownShows
    <3>3. QED
      BY ONLY <2>2, <3>1, <3>2
  <2>4. PICK v, q : v = a.widget /\ q = a.part
    OBVIOUS
  <2>5. WidgetOk(v) /\ v.def = w.def /\ v.linked = TRUE /\ v.shown = x
    BY ONLY w.linked = TRUE, <2>3, <2>4 DEF StepOk, SamePlace, HasShown
  <2>6. PICK y : y = <<v.shown[1], w.def.defaults[2]>>
    OBVIOUS
  <2>7. PICK b : b = SetShown(v, q, y)
    OBVIOUS
  <2>8. HasShown(SetShown(v, q, y), y)
    BY <1>4, <2>5, SetShownShows
  <2>9. y = w.def.defaults
    <3>1. w.def.defaults = <<w.def.defaults[1], w.def.defaults[2]>>
      BY <1>2, <1>4 DEF DefaultsAccepted
    <3>2. PICK c, d : c = w.def.defaults[1] /\ d = w.def.defaults[2]
      OBVIOUS
    <3>3. v.shown[1] = c
      BY <2>1, <2>5, <3>2
    <3>4. QED
      BY ONLY <2>6, <3>1, <3>2, <3>3
  <2>10. a = setStartValue(w, p, w.def.defaults[1])
    BY ONLY <2>1, <2>2 DEF setStartValue
  <2>11. b = setEndValue(a.widget, a.part, w.def.defaults[2])
    BY ONLY <2>4, <2>6, <2>7 DEF setEndValue
  <2>12. s = Step(b.widget, b.part, a.emits \/ b.emits)
    BY ONLY <1>1, <1>4, <2>1, <2>10, <2>11 DEF ResetWidget, ResetRange
  <2>13. s.widget = b.widget
    BY ONLY <2>12 DEF Step
  <2>14. s.widget.shown = w.def.defaults
    BY ONLY <2>7, <2>8, <2>9, <2>13 DEF HasShown
  <2>15. QED
    BY ONLY <1>1, <1>4, <2>14
<1>5. CASE w.def.kind = "slider"
  <2>1. PICK p, x : p = state[w.def.id] /\ x = w.def.defaults
    OBVIOUS
  <2>2. s = SetShown(w, p, x)
    BY <1>1, <1>5, <2>1 DEF ResetWidget, ResetSlider, setValue
  <2>3. HasShown(SetShown(w, p, x), x)
    BY <1>5, SetShownShows
  <2>4. s.widget.shown = w.def.defaults
    BY ONLY <2>1, <2>2, <2>3 DEF HasShown
  <2>5. QED
    BY ONLY <1>1, <1>5, <2>4
<1>6. QED
  BY <1>2, <1>3, <1>4, <1>5, DefinitionProperties

LEMMA ResetRestores ==
  ASSUME KindsStay, DefaultsAccepted, FiltersInv, FiltersInv', ResetFilters
  PROVE  \A w \in Range(filters') : ~IsActive(w)' /\ (w.def.kind # "option" => w.shown = w.def.defaults)
<1>1. PICK n \in Nat : n = Len(filters)
  BY DEF FiltersInv, ListOk, IsList
<1>2. ListOk(filters) /\ ListOk(filters') /\ OthersShow(filters', state')
  BY DEF FiltersInv
<1>3. /\ Len(filters') = n
      /\ \A i \in 1 .. n : /\ filters'[i] = ResetWidget(filters[i]).widget
                           /\ state'[filters[i].def.id] = ResetWidget(filters[i]).part
  BY <1>1, ResetEach
<1>4. SUFFICES ASSUME NEW w \in Range(filters')
               PROVE  ~IsActive(w)' /\ (w.def.kind # "option" => w.shown = w.def.defaults)
  OBVIOUS
<1>5. PICK i \in 1 .. n : w = filters'[i]
  <2>1. PICK ws : ws = filters'
    OBVIOUS
  <2>2. \A v \in Range(ws) : \E i \in 1 .. Len(ws) : v = ws[i]
    BY <1>2, <2>1, ListRange DEF ListOk
  <2>3. QED
    BY <1>3, <1>4, <2>1, <2>2
<1>6. PICK u : u = filters[i]
  OBVIOUS
<1>7. WidgetOk(u) /\ u.linked = TRUE
  BY <1>1, <1>2, <1>6 DEF ListOk, WidgetsOk
<1>8. PICK s : s = ResetWidget(u)
  OBVIOUS
<1>9. w = s.widget /\ state'[u.def.id] = s.part
  BY ONLY <1>3, <1>5, <1>6, <1>8, i \in 1 .. n
<1>10. w.def = u.def /\ w.def \in Definitions
  <2>1. StepOk(s, u, state[u.def.id])
    BY <1>7, <1>8, ResetWidgetOk
  <2>2. QED
    BY <1>7, <1>9, <2>1 DEF StepOk, WidgetOk
<1>11. /\ u.def.kind = "option" => s.part = None
       /\ u.def.kind # "option" => s.widget.shown = u.def.defaults
  BY <1>7, <1>8, ResetWidgetRestores
<1>12. CASE w.def.kind = "option"
  <2>1. state'[w.def.id] = None
    BY ONLY <1>9, <1>10, <1>11, <1>12
  <2>2. ~IsActive(w)'
    BY <2>1 DEF IsActive
  <2>3. QED
    BY <1>12, <2>2
<1>13. CASE w.def.kind # "option"
  <2>1. w.shown = w.def.defaults
    BY ONLY <1>9, <1>10, <1>11, <1>13
  <2>2. Accepts(w.def, w.def.defaults)
    BY <1>10, <1>13 DEF DefaultsAccepted
  <2>3. ShowsPart(w, state'[w.def.id])
    BY <1>2, <1>3, <1>5, <1>13 DEF OthersShow
  <2>4. w.linked => state'[w.def.id] = None \/ state'[w.def.id] = w.def.defaults
    BY ONLY <1>13, <2>1, <2>2, <2>3 DEF ShowsPart
  <2>5. ~IsActive(w)'
    <3>1. CASE w.def.kind = "range"
      BY <2>4, <3>1 DEF IsActive, RangeActive
    <3>2. CASE w.def.kind = "slider"
      BY <2>4, <3>2 DEF IsActive, SliderActive
    <3>3. QED
      BY <1>10, <1>13, <3>1, <3>2, DefinitionProperties
  <2>6. QED
    BY <2>1, <2>5
<1>14. QED
  BY <1>12, <1>13

(* Filters::reset() leaves no filter of the list active, from whatever the *)
(* user entered before and whatever the state refused of it, if filters    *)
(* keep their types and have defaults that the state accepts: a range goes *)
(* back in two steps, the first of which may be refused                    *)
(* (rangeinputfilter.cpp, comment in reset()).                             *)
THEOREM ResetRestoresDefaultsAlways ==
  ASSUME SlidersKeepBounds, KindsStay, DefaultsAccepted
  PROVE  FiltersSpec => ResetRestoresDefaults
<1>1. FiltersInit => FiltersInv
  BY FiltersInitInv
<1>2. FiltersInv /\ [FiltersNext]_filterVars => FiltersInv'
  BY FiltersStep
<1>3. FiltersInv /\ [FiltersNext]_filterVars
        => [ResetFilters => \A w \in Range(filters') :
              ~IsActive(w)' /\ (w.def.kind # "option" => w.shown = w.def.defaults)]_filterVars
  BY <1>2, ResetRestores
<1>4. QED
  BY <1>1, <1>2, <1>3, PTL DEF FiltersSpec, ResetRestoresDefaults

-----------------------------------------------------------------------------
(* The matchers of the scope harness.                                      *)

(* Rows shown, and rows that a test can expect.                            *)
ShownRows == [id : RowIds, attribute : Attributes, rows : Below]
WantedRows ==
  [id : Patterns, attribute : Attributes \cup {Unmentioned},
   atLeast : IF kind = "categories" THEN {0, 1} ELSE {0}, rows : WantedBelow]

LEMMA BoundedByLength ==
  ASSUME NEW S, NEW n \in Nat, NEW s
  PROVE  s \in BoundedSeq(S, n) <=> s \in Seq(S) /\ Len(s) <= n
<1>1. ASSUME s \in BoundedSeq(S, n) PROVE s \in Seq(S) /\ Len(s) <= n
  <2>1. PICK m \in 0 .. n : s \in [1 .. m -> S]
    BY <1>1 DEF BoundedSeq, SeqOf
  <2>2. m \in Nat
    BY <2>1
  <2>3. s \in Seq(S) /\ Len(s) = m
    BY ONLY <2>1, <2>2
  <2> QED BY <2>1, <2>3
<1>2. ASSUME s \in Seq(S), Len(s) <= n PROVE s \in BoundedSeq(S, n)
  <2>1. Len(s) \in 0 .. n /\ s \in [1 .. Len(s) -> S]
    BY <1>2
  <2> QED BY <2>1 DEF BoundedSeq, SeqOf
<1> QED BY <1>1, <1>2

LEMMA MatchersTyped ==
  MatchersTypeOK <=> /\ kind \in Kinds /\ lengths \subseteq 0 .. MaxRows
                     /\ viewRows \in Seq(ShownRows) /\ Len(viewRows) <= MaxRows
                     /\ expected \in Seq(WantedRows) /\ Len(expected) <= MaxRows
<1>1. viewRows \in BoundedSeq(ShownRows, MaxRows) <=> viewRows \in Seq(ShownRows) /\ Len(viewRows) <= MaxRows
  BY BoundedByLength, MatchersAssumption
<1>2. expected \in BoundedSeq(WantedRows, MaxRows) <=> expected \in Seq(WantedRows) /\ Len(expected) <= MaxRows
  BY BoundedByLength, MatchersAssumption
<1> QED BY <1>1, <1>2 DEF MatchersTypeOK, ShownRows, WantedRows

LEMMA MatchersTypedNext ==
  ASSUME kind' \in Kinds, lengths' \subseteq 0 .. MaxRows,
         viewRows' \in Seq(ShownRows'), Len(viewRows') <= MaxRows,
         expected' \in Seq(WantedRows'), Len(expected') <= MaxRows
  PROVE  MatchersTypeOK'
<1>1. viewRows' \in BoundedSeq(ShownRows', MaxRows)
  BY BoundedByLength, MatchersAssumption
<1>2. expected' \in BoundedSeq(WantedRows', MaxRows)
  BY BoundedByLength, MatchersAssumption
<1> QED BY <1>1, <1>2 DEF MatchersTypeOK, ShownRows, WantedRows

LEMMA OneMore ==
  ASSUME NEW S, NEW s \in Seq(S), NEW e \in S, NEW n \in Nat, Len(s) < n
  PROVE  Append(s, e) \in Seq(S) /\ Len(Append(s, e)) <= n
<1>1. Append(s, e) \in Seq(S) /\ Len(Append(s, e)) = Len(s) + 1
  OBVIOUS
<1> QED BY <1>1

LEMMA MatchersTypeStep ==
  ASSUME MatchersTypeOK, [MatchersNext]_matcherVars
  PROVE  MatchersTypeOK'
<1> USE MatchersAssumption
<1>1. /\ kind \in Kinds /\ lengths \subseteq 0 .. MaxRows
      /\ viewRows \in Seq(ShownRows) /\ Len(viewRows) <= MaxRows
      /\ expected \in Seq(WantedRows) /\ Len(expected) <= MaxRows
  BY MatchersTyped
<1>2. kind' = kind
  BY DEF MatchersNext, NextView, ExpectLength, ShowRow, ExpectRow, matcherVars
<1>3. ShownRows' = ShownRows /\ WantedRows' = WantedRows
  BY <1>2 DEF ShownRows, WantedRows, Below, WantedBelow, Patterns
<1>e. <<>> \in Seq(ShownRows) /\ <<>> \in Seq(WantedRows) /\ Len(<<>>) <= MaxRows
  OBVIOUS
<1>4. CASE NextView
  <2>1. viewRows' = <<>> /\ expected' = <<>> /\ lengths' = 0 .. MaxRows
    BY <1>4 DEF NextView
  <2> QED BY <2>1, <1>1, <1>2, <1>3, <1>e, MatchersTypedNext
<1>5. ASSUME NEW allowed, allowed \subseteq 0 .. MaxRows, ExpectLength(allowed) PROVE MatchersTypeOK'
  <2>1. viewRows' = viewRows /\ expected' = expected /\ lengths' = allowed
    BY <1>5 DEF ExpectLength
  <2> QED BY <2>1, <1>1, <1>2, <1>3, <1>5, MatchersTypedNext
<1>6. ASSUME NEW id \in RowIds, NEW attribute \in Attributes, NEW below \in Below, ShowRow(id, attribute, below)
      PROVE  MatchersTypeOK'
  <2>1. PICK e : e = [id |-> id, attribute |-> attribute, rows |-> below]
    OBVIOUS
  <2>2. e \in ShownRows
    BY <2>1 DEF ShownRows
  <2>3. Len(viewRows) < MaxRows /\ viewRows' = Append(viewRows, e) /\ expected' = expected /\ lengths' = lengths
    BY <1>6, <2>1 DEF ShowRow
  <2>4. Append(viewRows, e) \in Seq(ShownRows) /\ Len(Append(viewRows, e)) <= MaxRows
    BY <1>1, <2>2, <2>3, OneMore
  <2> QED BY <2>3, <2>4, <1>1, <1>2, <1>3, MatchersTypedNext
<1>7. ASSUME NEW id \in Patterns, NEW attribute \in Attributes \cup {Unmentioned}, NEW below \in WantedBelow,
             NEW atLeast \in IF kind = "categories" /\ below = <<>> THEN {0, 1} ELSE {0},
             ExpectRow(id, attribute, atLeast, below)
      PROVE  MatchersTypeOK'
  <2>1. PICK e : e = [id |-> id, attribute |-> attribute, atLeast |-> atLeast, rows |-> below]
    OBVIOUS
  <2>0. atLeast \in IF kind = "categories" THEN {0, 1} ELSE {0}
    OBVIOUS
  <2>2. e \in WantedRows
    BY <2>0, <2>1 DEF WantedRows
  <2>3. Len(expected) < MaxRows /\ expected' = Append(expected, e) /\ viewRows' = viewRows /\ lengths' = lengths
    BY <1>7, <2>1 DEF ExpectRow
  <2>4. Append(expected, e) \in Seq(WantedRows) /\ Len(Append(expected, e)) <= MaxRows
    BY <1>1, <2>2, <2>3, OneMore
  <2> QED BY <2>3, <2>4, <1>1, <1>2, <1>3, MatchersTypedNext
<1>8. CASE UNCHANGED matcherVars
  BY <1>8, <1>1, <1>2, <1>3, MatchersTypedNext DEF matcherVars
<1>9. 1 .. MaxRows \subseteq 0 .. MaxRows /\ {1} \subseteq 0 .. MaxRows
  OBVIOUS
<1> QED BY <1>4, <1>5, <1>6, <1>7, <1>8, <1>9 DEF MatchersNext

(* What the modes say of the pairs that match.                             *)

LEMMA ModeFinds ==
  ASSUME NEW mode, NEW hits, NEW S, NEW T, NEW wanted \in Seq(S), NEW shown \in Seq(T),
         InMode(mode, hits, wanted, shown)
  PROVE  \A n \in 1 .. Len(wanted) : \E at \in 1 .. Len(shown) : <<n, at>> \in hits
<1> SUFFICES ASSUME NEW n \in 1 .. Len(wanted) PROVE \E at \in 1 .. Len(shown) : <<n, at>> \in hits
  OBVIOUS
<1>1. DOMAIN wanted = 1 .. Len(wanted) /\ DOMAIN shown = 1 .. Len(shown) /\ Len(wanted) \in Nat /\ Len(shown) \in Nat
  OBVIOUS
<1>2. wanted # <<>>
  BY <1>1
<1>3. CASE All(hits, wanted, shown)
  <2>1. Len(shown) = Len(wanted) /\ <<n, n>> \in hits
    BY <1>1, <1>3 DEF All
  <2> QED BY <2>1
<1>4. CASE StartsWith(hits, wanted, shown)
  <2>1. Len(shown) >= Len(wanted) /\ <<n, n>> \in hits
    BY <1>1, <1>4 DEF StartsWith
  <2>2. n \in 1 .. Len(shown)
    BY <2>1, <1>1
  <2> QED BY <2>1, <2>2
<1>5. CASE ById(hits, wanted, shown)
  BY <1>1, <1>5 DEF ById
<1> QED BY <1>2, <1>3, <1>4, <1>5 DEF InMode

LEMMA ModePrefix ==
  ASSUME NEW mode, NEW hits, NEW fewer, NEW S, NEW T, NEW wanted \in Seq(S), NEW shown \in Seq(T),
         NEW n \in 1 .. Len(wanted), NEW few \in Seq(S),
         Len(few) = n, \A k \in 1 .. n : few[k] = wanted[k],
         \A k \in 1 .. n, at \in 1 .. Len(shown) : <<k, at>> \in hits => <<k, at>> \in fewer,
         mode # "all", InMode(mode, hits, wanted, shown)
  PROVE  InMode(mode, fewer, few, shown)
<1>1. /\ DOMAIN wanted = 1 .. Len(wanted) /\ DOMAIN shown = 1 .. Len(shown) /\ DOMAIN few = 1 .. n
      /\ Len(wanted) \in Nat /\ Len(shown) \in Nat
  OBVIOUS
<1>2. wanted # <<>>
  BY <1>1
<1>3. \A k \in 1 .. n : k \in 1 .. Len(wanted)
  BY <1>1
<1>4. CASE mode = "starts_with" /\ StartsWith(hits, wanted, shown)
  <2>1. Len(shown) >= Len(wanted) /\ \A k \in 1 .. Len(wanted) : <<k, k>> \in hits
    BY <1>1, <1>4 DEF StartsWith
  <2>2. \A k \in 1 .. n : k \in 1 .. Len(shown)
    BY <1>1, <2>1
  <2>3. \A k \in 1 .. n : <<k, k>> \in fewer
    BY <2>1, <2>2, <1>3
  <2>4. Len(shown) >= Len(few)
    BY <2>1, <1>1
  <2> QED BY <1>1, <1>4, <2>3, <2>4 DEF StartsWith, InMode
<1>5. CASE mode = "by_id" /\ ById(hits, wanted, shown)
  <2>1. ASSUME NEW k \in 1 .. n
        PROVE  \E at \in 1 .. Len(shown) :
                 /\ shown[at].id \in few[k].id /\ \A j \in 1 .. at - 1 : shown[j].id \notin few[k].id
                 /\ <<k, at>> \in fewer
    <3>1. PICK at \in 1 .. Len(shown) :
            /\ shown[at].id \in wanted[k].id /\ \A j \in 1 .. at - 1 : shown[j].id \notin wanted[k].id
            /\ <<k, at>> \in hits
      BY <1>1, <1>3, <1>5 DEF ById
    <3>2. few[k] = wanted[k] /\ <<k, at>> \in fewer
      BY <3>1
    <3> QED BY <3>1, <3>2
  <2>2. ById(fewer, few, shown)
    BY <1>1, <2>1 DEF ById
  <2> QED BY <1>5, <2>2 DEF InMode
<1> QED BY <1>2, <1>4, <1>5 DEF InMode

LEMMA AllStartsWith ==
  ASSUME NEW hits, NEW S, NEW T, NEW wanted \in Seq(S), NEW shown \in Seq(T),
         InMode("all", hits, wanted, shown)
  PROVE  InMode("starts_with", hits, wanted, shown)
<1>1. CASE wanted = <<>>
  BY <1>1 DEF InMode
<1>2. CASE All(hits, wanted, shown)
  <2>1. Len(shown) >= Len(wanted) /\ \A n \in DOMAIN wanted : <<n, n>> \in hits
    BY <1>2 DEF All
  <2> QED BY <2>1 DEF StartsWith, InMode
<1> QED BY <1>1, <1>2 DEF InMode

LEMMA StartsWithById ==
  ASSUME NEW hits, NEW S, NEW T, NEW wanted \in Seq(S), NEW shown \in Seq(T),
         \A n \in 1 .. Len(wanted) : \A a, b \in 1 .. Len(shown) :
           shown[a].id \in wanted[n].id /\ shown[b].id \in wanted[n].id => a = b,
         \A n \in 1 .. Len(wanted), at \in 1 .. Len(shown) : <<n, at>> \in hits => shown[at].id \in wanted[n].id,
         InMode("starts_with", hits, wanted, shown)
  PROVE  InMode("by_id", hits, wanted, shown)
<1>1. DOMAIN wanted = 1 .. Len(wanted) /\ DOMAIN shown = 1 .. Len(shown) /\ Len(wanted) \in Nat /\ Len(shown) \in Nat
  OBVIOUS
<1>2. CASE wanted = <<>>
  BY <1>2 DEF InMode
<1>3. CASE StartsWith(hits, wanted, shown)
  <2>1. Len(shown) >= Len(wanted) /\ \A n \in 1 .. Len(wanted) : <<n, n>> \in hits
    BY <1>1, <1>3 DEF StartsWith
  <2>2. ASSUME NEW n \in 1 .. Len(wanted)
        PROVE  \E at \in 1 .. Len(shown) :
                 /\ shown[at].id \in wanted[n].id /\ \A j \in 1 .. at - 1 : shown[j].id \notin wanted[n].id
                 /\ <<n, at>> \in hits
    <3>1. n \in 1 .. Len(shown)
      BY <2>1, <1>1
    <3>2. <<n, n>> \in hits /\ shown[n].id \in wanted[n].id
      BY <2>1, <3>1
    <3>3. \A j \in 1 .. n - 1 : j \in 1 .. Len(shown) /\ j # n
      BY <3>1, <1>1
    <3>4. \A j \in 1 .. n - 1 : shown[j].id \notin wanted[n].id
      BY <3>1, <3>2, <3>3
    <3> QED BY <3>1, <3>2, <3>4
  <2>3. ById(hits, wanted, shown)
    BY <1>1, <2>2 DEF ById
  <2> QED BY <2>3 DEF InMode
<1> QED BY <1>2, <1>3 DEF InMode

(* Whether a row that is shown is as the test expects, in a view of this   *)
(* kind, and the pairs of such rows.                                       *)
PairMatches(wanted, shown) ==
  CASE kind = "categories" -> CategoryMatches(wanted, shown)
    [] kind = "results"    -> ResultMatches(wanted, shown)
    [] kind = "department" -> ChildDepartmentMatches(wanted, shown)
    [] kind = "settings"   -> OptionMatches(wanted, shown)
    [] kind = "preview"    -> WidgetMatches(wanted, shown)
Hits(wanted, shown) == {p \in Pairs(wanted, shown) : PairMatches(wanted[p[1]], shown[p[2]])}

LEMMA MatchesInMode ==
  ASSUME kind \in Kinds, kind # "preview", NEW mode, NEW wanted, NEW shown
  PROVE  Matches(mode, wanted, shown) <=> Len(shown) \in lengths /\ InMode(mode, Hits(wanted, shown), wanted, shown)
<1>1. CASE kind = "categories"
  <2>1. Matches(mode, wanted, shown) <=> CategoryListMatches(mode, wanted, shown)
    BY <1>1 DEF Matches
  <2>2. Hits(wanted, shown) = {p \in Pairs(wanted, shown) : CategoryMatches(wanted[p[1]], shown[p[2]])}
    BY <1>1 DEF Hits, PairMatches
  <2> QED BY <2>1, <2>2 DEF CategoryListMatches, CategoriesMatch
<1>2. CASE kind = "results"
  <2>1. Matches(mode, wanted, shown) <=> Len(shown) \in lengths /\ ResultsMatch(mode, wanted, shown)
    BY <1>2 DEF Matches
  <2>2. Hits(wanted, shown) = {p \in Pairs(wanted, shown) : ResultMatches(wanted[p[1]], shown[p[2]])}
    BY <1>2 DEF Hits, PairMatches
  <2> QED BY <2>1, <2>2 DEF ResultsMatch
<1>3. CASE kind = "department"
  <2>1. Matches(mode, wanted, shown) <=> DepartmentMatches(mode, wanted, shown)
    BY <1>3 DEF Matches
  <2>2. Hits(wanted, shown) = {p \in Pairs(wanted, shown) : ChildDepartmentMatches(wanted[p[1]], shown[p[2]])}
    BY <1>3 DEF Hits, PairMatches
  <2> QED BY <2>1, <2>2 DEF DepartmentMatches, ChildrenMatch
<1>4. CASE kind = "settings"
  <2>1. Matches(mode, wanted, shown) <=> SettingsMatch(mode, wanted, shown)
    BY <1>4 DEF Matches
  <2>2. Hits(wanted, shown) = {p \in Pairs(wanted, shown) : OptionMatches(wanted[p[1]], shown[p[2]])}
    BY <1>4 DEF Hits, PairMatches
  <2> QED BY <2>1, <2>2 DEF SettingsMatch, OptionsMatch
<1> QED BY <1>1, <1>2, <1>3, <1>4 DEF Kinds

LEMMA MatchesPreview ==
  ASSUME kind = "preview", NEW mode, NEW S, NEW T, NEW wanted \in Seq(S), NEW shown \in Seq(T)
  PROVE  Matches(mode, wanted, shown) <=>
           Len(wanted) = Len(shown) /\ \A n \in 1 .. Len(wanted) : PairMatches(wanted[n], shown[n])
<1>1. Matches(mode, wanted, shown) <=> ColumnsMatch(<<wanted>>, <<shown>>)
  BY DEF Matches
<1>2. ColumnsMatch(<<wanted>>, <<shown>>) <=> PreviewMatches(wanted, shown)
  BY DEF ColumnsMatch
<1>3. \A n : PairMatches(wanted[n], shown[n]) <=> WidgetMatches(wanted[n], shown[n])
  BY DEF PairMatches
<1>4. DOMAIN wanted = 1 .. Len(wanted)
  OBVIOUS
<1> QED BY <1>1, <1>2, <1>3, <1>4 DEF PreviewMatches

LEMMA HitsMatch ==
  ASSUME NEW wanted, NEW shown, NEW n, NEW at
  PROVE  <<n, at>> \in Hits(wanted, shown) <=>
           n \in DOMAIN wanted /\ at \in DOMAIN shown /\ PairMatches(wanted[n], shown[at])
<1>1. \A p \in Pairs(wanted, shown) : p \in Hits(wanted, shown) <=> PairMatches(wanted[p[1]], shown[p[2]])
  BY DEF Hits
<1>2. <<n, at>> \in Pairs(wanted, shown) <=> n \in DOMAIN wanted /\ at \in DOMAIN shown
  BY DEF Pairs
<1>3. Hits(wanted, shown) \subseteq Pairs(wanted, shown)
  BY DEF Hits
<1>4. <<n, at>>[1] = n /\ <<n, at>>[2] = at
  OBVIOUS
<1> QED BY <1>1, <1>2, <1>3, <1>4

(* The results that are expected of a category are there.                  *)
LEMMA BelowFound ==
  ASSUME kind = "categories", NEW wanted \in WantedBelow, NEW shown \in Below,
         ResultsMatch("by_id", wanted, shown)
  PROVE  \A r \in Range(wanted) : \E below \in Range(shown) : below.id \in r.id
<1>1. wanted \in {<<>>} \cup {<<[id |-> {k}, attribute |-> Unmentioned]>> : k \in RowIds}
  BY DEF WantedBelow
<1>2. CASE wanted = <<>>
  <2>1. Range(wanted) = {}
    BY <1>2 DEF Range
  <2> QED BY <2>1
<1>3. CASE wanted # <<>>
  <2>1. PICK H : ById(H, wanted, shown)
    BY <1>3 DEF ResultsMatch, InMode
  <2>2. \A n \in DOMAIN wanted : \E at \in DOMAIN shown : shown[at].id \in wanted[n].id
    BY <2>1 DEF ById
  <2> SUFFICES ASSUME NEW r \in Range(wanted) PROVE \E below \in Range(shown) : below.id \in r.id
    OBVIOUS
  <2>3. PICK n \in DOMAIN wanted : r = wanted[n]
    BY DEF Range
  <2>4. PICK at \in DOMAIN shown : shown[at].id \in wanted[n].id
    BY <2>2
  <2>5. shown[at] \in Range(shown)
    BY DEF Range
  <2> QED BY <2>3, <2>4, <2>5
<1> QED BY <1>2, <1>3

LEMMA PairSatisfies ==
  ASSUME kind \in Kinds, NEW wanted \in WantedRows, NEW shown \in ShownRows, PairMatches(wanted, shown)
  PROVE  Satisfies(wanted, shown)
<1>1. /\ wanted.atLeast \in (IF kind = "categories" THEN {0, 1} ELSE {0})
      /\ wanted.rows \in WantedBelow /\ shown.rows \in Below
  BY DEF WantedRows, ShownRows
<1>2. CASE kind = "categories"
  <2>1. CategoryMatches(wanted, shown)
    BY <1>2 DEF PairMatches
  <2>2. /\ shown.id \in wanted.id /\ Given(wanted.attribute, shown.attribute)
        /\ Len(shown.rows) >= wanted.atLeast /\ ResultsMatch("by_id", wanted.rows, shown.rows)
    BY <2>1 DEF CategoryMatches
  <2>3. \A r \in Range(wanted.rows) : \E below \in Range(shown.rows) : below.id \in r.id
    BY <1>1, <1>2, <2>2, BelowFound
  <2> QED BY <2>2, <2>3 DEF Satisfies, Given
<1>3. CASE kind # "categories"
  <2>1. wanted.atLeast = 0 /\ wanted.rows = <<>> /\ shown.rows = <<>>
    BY <1>1, <1>3 DEF WantedBelow, Below
  <2>2. (wanted.id = {} \/ shown.id \in wanted.id) /\ Given(wanted.attribute, shown.attribute)
    BY <1>3 DEF PairMatches, Kinds, ResultMatches, ChildDepartmentMatches, OptionMatches, WidgetMatches
  <2>3. Range(wanted.rows) = {}
    BY <2>1 DEF Range
  <2>4. Len(shown.rows) >= wanted.atLeast
    BY <2>1
  <2> QED BY <2>2, <2>3, <2>4 DEF Satisfies, Given
<1> QED BY <1>2, <1>3

LEMMA MatchFinds ==
  ASSUME MatchersTypeOK, NEW mode \in Modes, Matches(mode, expected, viewRows)
  PROVE  \A n \in 1 .. Len(expected) :
           \E at \in 1 .. Len(viewRows) : PairMatches(expected[n], viewRows[at])
<1>1. kind \in Kinds /\ viewRows \in Seq(ShownRows) /\ expected \in Seq(WantedRows)
  BY MatchersTyped
<1>2. CASE kind = "preview"
  BY <1>1, <1>2, MatchesPreview
<1>3. CASE kind # "preview"
  <2>1. InMode(mode, Hits(expected, viewRows), expected, viewRows)
    BY <1>1, <1>3, MatchesInMode
  <2>2. \A n \in 1 .. Len(expected) : \E at \in 1 .. Len(viewRows) : <<n, at>> \in Hits(expected, viewRows)
    BY <1>1, <2>1, ModeFinds
  <2> QED BY <2>2, HitsMatch
<1> QED BY <1>2, <1>3

(* A match says that each row is there, that the length is allowed, and    *)
(* that it was a match before the last rows were expected.                 *)
LEMMA MatchMeans ==
  ASSUME MatchersTypeOK, NEW mode \in Modes, Matches(mode, expected, viewRows)
  PROVE  /\ \A wanted \in Range(expected) : \E shown \in Range(viewRows) : Satisfies(wanted, shown)
         /\ kind # "preview" => Len(viewRows) \in lengths
         /\ mode # "all" /\ kind # "preview" =>
              \A n \in DOMAIN expected : Matches(mode, SubSeq(expected, 1, n), viewRows)
<1>1. kind \in Kinds /\ viewRows \in Seq(ShownRows) /\ expected \in Seq(WantedRows)
  BY MatchersTyped
<1>2. /\ DOMAIN expected = 1 .. Len(expected) /\ DOMAIN viewRows = 1 .. Len(viewRows)
      /\ \A n \in DOMAIN expected : expected[n] \in WantedRows
      /\ \A n \in DOMAIN viewRows : viewRows[n] \in ShownRows
  BY <1>1
<1>3. ASSUME NEW wanted \in Range(expected) PROVE \E shown \in Range(viewRows) : Satisfies(wanted, shown)
  <2>1. PICK n \in DOMAIN expected : wanted = expected[n]
    BY DEF Range
  <2>2. PICK at \in DOMAIN viewRows : PairMatches(expected[n], viewRows[at])
    BY <1>2, MatchFinds
  <2>3. Satisfies(expected[n], viewRows[at])
    BY <1>1, <1>2, <2>2, PairSatisfies
  <2>4. viewRows[at] \in Range(viewRows)
    BY DEF Range
  <2> QED BY <2>1, <2>3, <2>4
<1>4. ASSUME kind # "preview" PROVE Len(viewRows) \in lengths
  BY <1>1, <1>4, MatchesInMode
<1>5. ASSUME mode # "all", kind # "preview", NEW n \in DOMAIN expected
      PROVE  Matches(mode, SubSeq(expected, 1, n), viewRows)
  <2>1. PICK few : few = SubSeq(expected, 1, n)
    OBVIOUS
  <2>2. n \in 1 .. Len(expected)
    BY <1>2
  <2>3. few \in Seq(WantedRows) /\ Len(few) = n /\ \A k \in 1 .. n : few[k] = expected[k]
    BY <1>1, <2>1, <2>2
  <2>4. \A k \in 1 .. n : k \in DOMAIN expected /\ k \in DOMAIN few
    BY <1>1, <2>2, <2>3
  <2>5. \A k \in 1 .. n, at \in 1 .. Len(viewRows) :
          <<k, at>> \in Hits(expected, viewRows) => <<k, at>> \in Hits(few, viewRows)
    BY <2>3, <2>4, HitsMatch
  <2>6. InMode(mode, Hits(expected, viewRows), expected, viewRows)
    BY <1>1, <1>5, MatchesInMode
  <2>7. InMode(mode, Hits(few, viewRows), few, viewRows)
    BY ONLY ModePrefix, <1>1, <1>5, <2>2, <2>3, <2>5, <2>6
  <2>8. Matches(mode, few, viewRows)
    BY <1>1, <1>4, <1>5, <2>7, MatchesInMode
  <2> QED BY <2>1, <2>8
<1> QED BY <1>3, <1>4, <1>5

LEMMA ModesOrdered ==
  ASSUME MatchersTypeOK
  PROVE  /\ Matches("all", expected, viewRows) => Matches("starts_with", expected, viewRows)
         /\ Literal /\ (\A n \in DOMAIN expected : expected[n].id # {})
              /\ Matches("starts_with", expected, viewRows) => Matches("by_id", expected, viewRows)
<1>1. kind \in Kinds /\ viewRows \in Seq(ShownRows) /\ expected \in Seq(WantedRows)
  BY MatchersTyped
<1>2. CASE kind = "preview"
  BY <1>1, <1>2, MatchesPreview
<1>3. CASE kind # "preview"
  <2> DEFINE hits == Hits(expected, viewRows)
  <2>1. \A mode : Matches(mode, expected, viewRows) <=> Len(viewRows) \in lengths /\ InMode(mode, hits, expected, viewRows)
    BY <1>1, <1>3, MatchesInMode
  <2>2. InMode("all", hits, expected, viewRows) => InMode("starts_with", hits, expected, viewRows)
    BY <1>1, AllStartsWith
  <2>3. ASSUME Literal, \A n \in DOMAIN expected : expected[n].id # {},
               InMode("starts_with", hits, expected, viewRows)
        PROVE  InMode("by_id", hits, expected, viewRows)
    <3>1. DOMAIN expected = 1 .. Len(expected) /\ DOMAIN viewRows = 1 .. Len(viewRows)
      BY <1>1
    <3>2. \A n \in 1 .. Len(expected) : \A a, b \in 1 .. Len(viewRows) :
            viewRows[a].id \in expected[n].id /\ viewRows[b].id \in expected[n].id => a = b
      BY <2>3, <3>1 DEF Literal
    <3>3. ASSUME NEW n \in 1 .. Len(expected), NEW at \in 1 .. Len(viewRows), <<n, at>> \in hits
          PROVE  viewRows[at].id \in expected[n].id
      <4>1. PairMatches(expected[n], viewRows[at])
        BY <3>3, HitsMatch
      <4>2. expected[n] \in WantedRows /\ viewRows[at] \in ShownRows
        BY <1>1
      <4>3. Satisfies(expected[n], viewRows[at])
        BY <1>1, <4>1, <4>2, PairSatisfies
      <4>4. expected[n].id # {}
        BY <2>3, <3>1
      <4> QED BY <4>3, <4>4 DEF Satisfies
    <3>4. InMode("starts_with", hits, expected, viewRows)
      BY <2>3
    <3> HIDE DEF hits
    <3> QED BY ONLY StartsWithById, <1>1, <3>2, <3>3, <3>4
  <2> QED BY <2>1, <2>2, <2>3
<1> QED BY <1>2, <1>3

(* A test that passes has seen what it asks for: in every mode a match     *)
(* finds for each expected row one that is shown and satisfies it, it is   *)
(* a match for what was expected before, and all, starts_with and by_id    *)
(* ask less and less (scope-harness/matcher), for any rows and             *)
(* expectations of any length.                                             *)
THEOREM ModesAgreeAlways == MatchersSpec => []ModesAgree
<1>1. MatchersInit => MatchersTypeOK
  BY MatchersTyped, MatchersAssumption DEF MatchersInit
<1>2. MatchersTypeOK /\ [MatchersNext]_matcherVars => MatchersTypeOK'
  BY MatchersTypeStep
<1>3. MatchersTypeOK => ModesAgree
  <2> SUFFICES ASSUME MatchersTypeOK PROVE ModesAgree
    OBVIOUS
  <2>1. \A mode \in Modes :
          Matches(mode, expected, viewRows) =>
            /\ \A wanted \in Range(expected) : \E shown \in Range(viewRows) : Satisfies(wanted, shown)
            /\ kind # "preview" => Len(viewRows) \in lengths
            /\ mode # "all" /\ kind # "preview" =>
                 \A n \in DOMAIN expected : Matches(mode, SubSeq(expected, 1, n), viewRows)
    BY MatchMeans
  <2> QED BY <2>1, ModesOrdered DEF ModesAgree
<1> QED BY <1>1, <1>2, <1>3, PTL DEF MatchersSpec
=============================================================================
