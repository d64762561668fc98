----------------------------- MODULE ListProofs -----------------------------
(***************************************************************************)
(* Lemmas about lists, for any list: what ListOperators' operators return, *)
(* what insertion and removal do to the rows, and how many moves it takes  *)
(* to bring each row to its home.                                          *)
(*                                                                         *)
(* Induction over the natural numbers is done for sets in place of         *)
(* predicates.                                                             *)
(***************************************************************************)
EXTENDS ListOperators, SequencesExt, SequenceTheorems, FiniteSetTheorems, WellFoundedInduction, TLAPS

(* A set that has 0 and with each number the next has them all: otherwise  *)
(* there were a least number that it lacks.  A predicate P is dealt with   *)
(* by the set {n \in Nat : P(n)}.                                          *)
LEMMA SetInduction ==
  ASSUME NEW T, 0 \in T, \A n \in Nat : n \in T => n + 1 \in T
  PROVE  \A n \in Nat : n \in T
<1> DEFINE R == OpToRel(<, Nat)
           U == Nat \ T
<1>1. SUFFICES ASSUME U # {} PROVE FALSE
  OBVIOUS
<1>2. IsWellFoundedOn(R, Nat)
  BY NatLessThanWellFounded
<1>3. \A x, y \in Nat : x < y => <<x, y>> \in R
  BY DEF OpToRel
<1> HIDE DEF R
<1>4. PICK m \in U : \A y \in U : ~(<<y, m>> \in R)
  BY <1>1, <1>2, WFMin
<1>5. m # 0 /\ m - 1 \in Nat /\ m - 1 < m
  BY <1>4
<1>6. m - 1 \in T
  BY <1>3, <1>4, <1>5
<1>7. QED
  BY <1>4, <1>5, <1>6

-----------------------------------------------------------------------------
(* One turn of the selection, from what came before it.                    *)
Turn(s, P, f, i) ==
  IF i = 0 THEN <<>> ELSE IF s[i] \in P THEN Append(f[i - 1], s[i]) ELSE f[i - 1]

(* There is a function as the recursive definition says ...                *)
LEMMA SelectedExists ==
  ASSUME NEW s, NEW P
  PROVE  \A n \in Nat : \E f : f = [i \in 0 .. n |-> Turn(s, P, f, i)]
<1> DEFINE Good(k) == \E f : f = [i \in 0 .. k |-> Turn(s, P, f, i)]
           T == {k \in Nat : Good(k)}
<1>1. Good(0)
  <2> DEFINE f == [i \in 0 .. 0 |-> <<>>]
  <2>1. f = [i \in 0 .. 0 |-> Turn(s, P, f, i)]
    BY DEF Turn
  <2>2. QED
    BY <2>1
<1>2. ASSUME NEW k \in Nat, Good(k) PROVE Good(k + 1)
  <2>1. PICK f : f = [i \in 0 .. k |-> Turn(s, P, f, i)]
    BY <1>2
  <2> DEFINE g == [i \in 0 .. k + 1 |-> IF i = k + 1 THEN Turn(s, P, f, i) ELSE f[i]]
  <2>2. ASSUME NEW i \in 0 .. k + 1 PROVE g[i] = Turn(s, P, g, i)
    <3>1. i # 0 => i - 1 \in 0 .. k /\ g[i - 1] = f[i - 1]
      OBVIOUS
    <3>2. Turn(s, P, g, i) = Turn(s, P, f, i)
      BY <3>1 DEF Turn
    <3>3. i # k + 1 => f[i] = Turn(s, P, f, i)
      <4>1. i # k + 1 => i \in 0 .. k
        OBVIOUS
      <4>2. QED
        BY <2>1, <4>1
    <3>4. QED
      BY <3>2, <3>3
  <2>3. g = [i \in 0 .. k + 1 |-> Turn(s, P, g, i)]
    BY <2>2
  <2> HIDE DEF g
  <2>4. QED
    BY <2>3
<1> HIDE DEF Good
<1>3. \A k \in Nat : k \in T
  <2>1. 0 \in T /\ \A k \in Nat : k \in T => k + 1 \in T
    BY <1>1, <1>2
  <2> HIDE DEF T
  <2>2. QED
    BY <2>1, SetInduction
<1>4. QED
  BY <1>3 DEF Good

(* ... and SelectedUpTo is one.                                            *)
LEMMA SelectedUpToDef ==
  ASSUME NEW S, NEW s \in Seq(S), NEW P
  PROVE  SelectedUpTo(s, P) = [i \in 0 .. Len(s) |-> Turn(s, P, SelectedUpTo(s, P), i)]
<1>1. Len(s) \in Nat
  BY LenProperties
<1>2. \E f : f = [i \in 0 .. Len(s) |-> Turn(s, P, f, i)]
  BY <1>1, SelectedExists
<1>3. QED
  BY <1>2 DEF SelectedUpTo, Turn

LEMMA SelectedUpToProperties ==
  ASSUME NEW S, NEW s \in Seq(S), NEW P
  PROVE  \A i \in 0 .. Len(s) :
           /\ SelectedUpTo(s, P)[i] \in Seq(S)
           /\ Len(SelectedUpTo(s, P)[i]) <= i
           /\ \A x : (\E j \in DOMAIN SelectedUpTo(s, P)[i] : SelectedUpTo(s, P)[i][j] = x)
                       <=> \E j \in 1 .. i : s[j] = x /\ x \in P
<1> DEFINE f == SelectedUpTo(s, P)
           Good(i) == /\ f[i] \in Seq(S) /\ Len(f[i]) <= i
                      /\ \A x : (\E j \in DOMAIN f[i] : f[i][j] = x) <=> \E j \in 1 .. i : s[j] = x /\ x \in P
           T == {i \in Nat : i <= Len(s) => Good(i)}
<1>1. f = [i \in 0 .. Len(s) |-> Turn(s, P, f, i)] /\ Len(s) \in Nat
  BY SelectedUpToDef, LenProperties
<1> HIDE DEF f
<1>2. Good(0)
  <2>1. f[0] = <<>>
    BY <1>1 DEF Turn
  <2>2. QED
    BY <2>1, EmptySeq
<1>3. ASSUME NEW i \in Nat, i <= Len(s) => Good(i), i + 1 <= Len(s) PROVE Good(i + 1)
  <2>0. i <= Len(s) /\ i + 1 \in 1 .. Len(s) /\ i + 1 \in 0 .. Len(s) /\ i + 1 # 0 /\ (i + 1) - 1 = i
    BY <1>1, <1>3
  <2>1. Good(i) /\ i + 1 \in 1 .. Len(s)
    BY <1>3, <2>0
  <2>2. f[i + 1] = IF s[i + 1] \in P THEN Append(f[i], s[i + 1]) ELSE f[i]
    BY <1>1, <2>0 DEF Turn
  <2>3. \A x : (\E j \in 1 .. i + 1 : s[j] = x /\ x \in P)
               <=> (\E j \in 1 .. i : s[j] = x /\ x \in P) \/ (x = s[i + 1] /\ x \in P)
    <3>1. \A j : j \in 1 .. i + 1 <=> j \in 1 .. i \/ j = i + 1
      OBVIOUS
    <3>2. QED
      BY <3>1
  <2>4. s[i + 1] \in S
    BY <2>1
  <2>5. CASE s[i + 1] \in P
    <3> DEFINE t == f[i]
               u == Append(t, s[i + 1])
    <3>1. t \in Seq(S) /\ u = f[i + 1]
      BY <2>1, <2>2, <2>5
    <3>2. /\ u \in Seq(S) /\ Len(u) = Len(t) + 1 /\ Len(t) \in Nat
          /\ DOMAIN t = 1 .. Len(t) /\ DOMAIN u = 1 .. Len(t) + 1
          /\ \A j \in 1 .. Len(t) : u[j] = t[j]
          /\ u[Len(t) + 1] = s[i + 1]
      <4>1. t \in Seq(S) /\ s[i + 1] \in S
        BY <2>4, <3>1
      <4> HIDE DEF t
      <4>2. QED
        BY <4>1, AppendProperties, LenProperties
    <3> HIDE DEF t, u
    <3>3. \A x : (\E j \in DOMAIN u : u[j] = x) <=> (\E j \in DOMAIN t : t[j] = x) \/ x = s[i + 1]
      <4>1. \A j : j \in 1 .. Len(t) + 1 <=> j \in 1 .. Len(t) \/ j = Len(t) + 1
        BY <3>2
      <4>2. QED
        BY <3>2, <4>1
    <3>4. \A x : (\E j \in DOMAIN t : t[j] = x) <=> \E j \in 1 .. i : s[j] = x /\ x \in P
      BY <2>1 DEF t
    <3>5. Len(u) <= i + 1
      BY <2>1, <3>2 DEF t
    <3>6. QED
      BY <2>3, <2>5, <3>1, <3>2, <3>3, <3>4, <3>5
  <2>6. CASE s[i + 1] \notin P
    <3>1. f[i + 1] = f[i]
      BY <2>2, <2>6
    <3>2. Len(f[i]) <= i + 1
      BY <2>1, LenProperties
    <3>3. QED
      BY <2>1, <2>3, <2>6, <3>1, <3>2
  <2>7. QED
    BY <2>5, <2>6
<1> HIDE DEF Good
<1>4. \A i \in Nat : i \in T
  <2>1. 0 \in T /\ \A i \in Nat : i \in T => i + 1 \in T
    BY <1>2, <1>3
  <2> HIDE DEF T
  <2>2. QED
    BY <2>1, SetInduction
<1>5. \A i \in 0 .. Len(s) : Good(i)
  BY <1>4
<1>6. QED
  BY <1>5 DEF Good, f

(* A selection is a sequence of the elements that are in the set.          *)
LEMMA SelectedProperties ==
  ASSUME NEW S, NEW s \in Seq(S), NEW P
  PROVE  /\ Selected(s, P) \in Seq(S)
         /\ Len(Selected(s, P)) <= Len(s)
         /\ Range(Selected(s, P)) = Range(s) \cap P
<1>1. Len(s) \in 0 .. Len(s) /\ DOMAIN s = 1 .. Len(s)
  BY LenProperties
<1>2. /\ Selected(s, P) \in Seq(S) /\ Len(Selected(s, P)) <= Len(s)
      /\ \A x : (\E j \in DOMAIN Selected(s, P) : Selected(s, P)[j] = x)
                  <=> \E j \in 1 .. Len(s) : s[j] = x /\ x \in P
  BY <1>1, SelectedUpToProperties DEF Selected
<1>3. \A x : x \in Range(Selected(s, P)) <=> x \in Range(s) /\ x \in P
  BY <1>1, <1>2 DEF Range
<1>4. QED
  BY <1>2, <1>3

(* A selection keeps the order: two of its elements stand for two rows.    *)
LEMMA SelectedUpToOrder ==
  ASSUME NEW S, NEW s \in Seq(S), NEW P
  PROVE  \A i \in 0 .. Len(s) :
           \A j, k \in DOMAIN SelectedUpTo(s, P)[i] :
             j < k => \E a, b \in 1 .. i : /\ a < b /\ SelectedUpTo(s, P)[i][j] = s[a]
                                           /\ SelectedUpTo(s, P)[i][k] = s[b]
<1> DEFINE f == SelectedUpTo(s, P)
           Good(i) == \A j, k \in DOMAIN f[i] :
                        j < k => \E a, b \in 1 .. i : a < b /\ f[i][j] = s[a] /\ f[i][k] = s[b]
           T == {i \in Nat : i <= Len(s) => Good(i)}
<1>1. f = [i \in 0 .. Len(s) |-> Turn(s, P, f, i)] /\ Len(s) \in Nat
  BY SelectedUpToDef, LenProperties
<1>2. \A i \in 0 .. Len(s) :
        /\ f[i] \in Seq(S)
        /\ \A x : (\E j \in DOMAIN f[i] : f[i][j] = x) <=> \E j \in 1 .. i : s[j] = x /\ x \in P
  BY SelectedUpToProperties
<1> HIDE DEF f
<1>3. Good(0)
  BY <1>1, EmptySeq DEF Turn
<1>4. ASSUME NEW i \in Nat, i <= Len(s) => Good(i), i + 1 <= Len(s) PROVE Good(i + 1)
  <2>1. i \in 0 .. Len(s) /\ i + 1 \in 1 .. Len(s) /\ i + 1 \in 0 .. Len(s) /\ i + 1 # 0 /\ (i + 1) - 1 = i
    BY <1>1, <1>4
  <2>2. Good(i)
    BY <1>4, <2>1
  <2>3. f[i + 1] = IF s[i + 1] \in P THEN Append(f[i], s[i + 1]) ELSE f[i]
    BY <1>1, <2>1 DEF Turn
  <2>4. CASE s[i + 1] \in P
    <3> DEFINE t == f[i]
               u == Append(t, s[i + 1])
    <3>1. t \in Seq(S) /\ u = f[i + 1] /\ s[i + 1] \in S
      BY <1>2, <2>1, <2>3, <2>4, LenProperties
    <3>2. \A j \in DOMAIN t : \E a \in 1 .. i : t[j] = s[a]
      BY <1>2, <2>1
    <3>3. \A j, k \in DOMAIN t : j < k => \E a, b \in 1 .. i : a < b /\ t[j] = s[a] /\ t[k] = s[b]
      BY <2>2
    <3> HIDE DEF t
    <3>4. /\ Len(t) \in Nat /\ DOMAIN t = 1 .. Len(t) /\ DOMAIN u = 1 .. Len(t) + 1
          /\ \A j \in 1 .. Len(t) : u[j] = t[j]
          /\ u[Len(t) + 1] = s[i + 1]
      BY <3>1, AppendProperties, LenProperties
    <3> HIDE DEF u
    <3>5. ASSUME NEW j \in DOMAIN u, NEW k \in DOMAIN u, j < k
          PROVE  \E a, b \in 1 .. i + 1 : a < b /\ u[j] = s[a] /\ u[k] = s[b]
      <4>1. j \in DOMAIN t /\ u[j] = t[j]
        BY <3>4, <3>5
      <4>2. CASE k \in DOMAIN t
        <5>1. PICK a \in 1 .. i, b \in 1 .. i : a < b /\ t[j] = s[a] /\ t[k] = s[b]
          BY <3>3, <3>5, <4>1, <4>2
        <5>2. a \in 1 .. i + 1 /\ b \in 1 .. i + 1 /\ u[k] = t[k]
          BY <3>4, <4>2, <5>1
        <5>3. QED
          BY <4>1, <5>1, <5>2
      <4>3. CASE k \notin DOMAIN t
        <5>1. u[k] = s[i + 1]
          BY <3>4, <3>5, <4>3
        <5>2. PICK a \in 1 .. i : t[j] = s[a]
          BY <3>2, <4>1
        <5>3. a \in 1 .. i + 1 /\ i + 1 \in 1 .. i + 1 /\ a < i + 1
          BY <5>2
        <5>4. QED
          BY <4>1, <5>1, <5>2, <5>3
      <4>4. QED
        BY <4>2, <4>3
    <3>6. QED
      BY <3>1, <3>5
  <2>5. CASE s[i + 1] \notin P
    <3>1. f[i + 1] = f[i]
      BY <2>3, <2>5
    <3>2. \A a \in 1 .. i : a \in 1 .. i + 1
      OBVIOUS
    <3>3. QED
      BY <2>2, <3>1, <3>2
  <2>6. QED
    BY <2>4, <2>5
<1> HIDE DEF Good
<1>5. \A i \in Nat : i \in T
  <2>1. 0 \in T /\ \A i \in Nat : i \in T => i + 1 \in T
    BY <1>3, <1>4
  <2> HIDE DEF T
  <2>2. QED
    BY <2>1, SetInduction
<1>6. \A i \in 0 .. Len(s) : Good(i)
  BY <1>5
<1>7. QED
  BY <1>6 DEF Good, f

LEMMA SelectedOrder ==
  ASSUME NEW S, NEW s \in Seq(S), NEW P
  PROVE  \A j, k \in DOMAIN Selected(s, P) :
           j < k => \E a, b \in 1 .. Len(s) : a < b /\ Selected(s, P)[j] = s[a] /\ Selected(s, P)[k] = s[b]
<1>1. Len(s) \in 0 .. Len(s)
  BY LenProperties
<1>2. QED
  BY <1>1, SelectedUpToOrder DEF Selected

-----------------------------------------------------------------------------
(* Rows inserted, removed and moved.                                       *)

IsInserted(t, s, i, e) ==
  \A j \in 1 .. Len(s) + 1 : t[j] = IF j < i THEN s[j] ELSE IF j = i THEN e ELSE s[j - 1]

LEMMA InsertAtProperties ==
  ASSUME NEW S, NEW s \in Seq(S), NEW i \in 1 .. Len(s) + 1, NEW e \in S
  PROVE  /\ InsertAt(s, i, e) \in Seq(S) /\ Len(InsertAt(s, i, e)) = Len(s) + 1
         /\ IsInserted(InsertAt(s, i, e), s, i, e)
<1> DEFINE a == SubSeq(s, 1, i - 1)
           b == SubSeq(s, i, Len(s))
           ae == a \o <<e>>
<1>1. Len(s) \in Nat /\ i \in Int /\ i - 1 \in Int /\ \A j \in 1 .. Len(s) : s[j] \in S
  BY LenProperties
<1>2. /\ a \in Seq(S) /\ Len(a) = i - 1 /\ \A j \in 1 .. i - 1 : a[j] = s[j]
      /\ b \in Seq(S) /\ Len(b) = Len(s) - i + 1 /\ \A j \in 1 .. Len(s) - i + 1 : b[j] = s[i + j - 1]
  <2>1. \A j \in 1 .. i - 1 : s[j] \in S
    BY <1>1
  <2>2. \A j \in i .. Len(s) : s[j] \in S
    BY <1>1
  <2>3. /\ a \in Seq(S) /\ Len(a) = (IF 1 <= i - 1 THEN (i - 1) - 1 + 1 ELSE 0)
        /\ \A j \in 1 .. (i - 1) - 1 + 1 : a[j] = s[1 + j - 1]
    BY <1>1, <2>1, SubSeqProperties
  <2>4. /\ b \in Seq(S) /\ Len(b) = (IF i <= Len(s) THEN Len(s) - i + 1 ELSE 0)
        /\ \A j \in 1 .. Len(s) - i + 1 : b[j] = s[i + j - 1]
    BY <1>1, <2>2, SubSeqProperties
  <2> HIDE DEF a, b
  <2>5. QED
    BY <1>1, <2>3, <2>4
<1>3. <<e>> \in Seq(S) /\ Len(<<e>>) = 1 /\ <<e>>[1] = e
  OBVIOUS
<1> HIDE DEF a, b
<1>4. /\ ae \in Seq(S) /\ Len(ae) = i
      /\ \A j \in 1 .. i : ae[j] = IF j < i THEN s[j] ELSE e
  <2>1. /\ ae \in Seq(S) /\ Len(ae) = Len(a) + Len(<<e>>)
        /\ \A j \in 1 .. Len(a) + Len(<<e>>) : ae[j] = IF j <= Len(a) THEN a[j] ELSE <<e>>[j - Len(a)]
    BY <1>2, <1>3, ConcatProperties
  <2> HIDE DEF ae
  <2>2. Len(a) + Len(<<e>>) = i
    BY <1>1, <1>2, <1>3
  <2>3. ASSUME NEW j \in 1 .. i PROVE ae[j] = IF j < i THEN s[j] ELSE e
    <3>1. CASE j < i
      <4>1. j <= Len(a) /\ j \in 1 .. i - 1
        BY <1>1, <1>2, <3>1
      <4>2. QED
        BY <1>2, <2>1, <2>2, <3>1, <4>1
    <3>2. CASE j = i
      <4>1. ~(j <= Len(a)) /\ j - Len(a) = 1
        BY <1>1, <1>2, <3>2
      <4>2. QED
        BY <1>3, <2>1, <2>2, <3>2, <4>1
    <3>3. QED
      BY <1>1, <3>1, <3>2
  <2>4. QED
    BY <2>1, <2>2, <2>3
<1> HIDE DEF ae
<1>5. /\ ae \o b \in Seq(S) /\ Len(ae \o b) = Len(s) + 1
      /\ \A j \in 1 .. Len(s) + 1 : (ae \o b)[j] = IF j <= i THEN ae[j] ELSE b[j - i]
  <2>1. /\ ae \o b \in Seq(S) /\ Len(ae \o b) = Len(ae) + Len(b)
        /\ \A j \in 1 .. Len(ae) + Len(b) : (ae \o b)[j] = IF j <= Len(ae) THEN ae[j] ELSE b[j - Len(ae)]
    BY <1>2, <1>4, ConcatProperties
  <2>2. QED
    BY <1>1, <1>2, <1>4, <2>1
<1>6. InsertAt(s, i, e) = ae \o b
  BY DEF InsertAt, a, b, ae
<1>7. ASSUME NEW j \in 1 .. Len(s) + 1
      PROVE  (ae \o b)[j] = IF j < i THEN s[j] ELSE IF j = i THEN e ELSE s[j - 1]
  <2>1. CASE j <= i
    BY <1>1, <1>4, <1>5, <2>1
  <2>2. CASE j > i
    <3>1. j - i \in 1 .. Len(s) - i + 1 /\ i + (j - i) - 1 = j - 1
      BY <1>1, <2>2
    <3>2. QED
      BY <1>1, <1>2, <1>5, <2>2, <3>1
  <2>3. j <= i \/ j > i
    BY <1>1
  <2>4. QED
    BY <2>1, <2>2, <2>3, Zenon
<1>8. QED
  BY <1>5, <1>6, <1>7 DEF IsInserted

LEMMA RemoveAtProperties ==
  ASSUME NEW S, NEW s \in Seq(S), NEW i \in 1 .. Len(s)
  PROVE  /\ RemoveAt(s, i) \in Seq(S) /\ Len(RemoveAt(s, i)) = Len(s) - 1
         /\ \A j \in 1 .. Len(s) - 1 : RemoveAt(s, i)[j] = IF j < i THEN s[j] ELSE s[j + 1]
<1> DEFINE a == SubSeq(s, 1, i - 1)
           b == SubSeq(s, i + 1, Len(s))
<1>1. Len(s) \in Nat /\ i \in Int /\ i - 1 \in Int /\ i + 1 \in Int /\ \A j \in 1 .. Len(s) : s[j] \in S
  BY LenProperties
<1>2. /\ a \in Seq(S) /\ Len(a) = i - 1 /\ \A j \in 1 .. i - 1 : a[j] = s[j]
      /\ b \in Seq(S) /\ Len(b) = Len(s) - i /\ \A j \in 1 .. Len(s) - i : b[j] = s[i + j]
  <2>1. \A j \in 1 .. i - 1 : s[j] \in S
    BY <1>1
  <2>2. \A j \in i + 1 .. Len(s) : s[j] \in S
    BY <1>1
  <2>3. /\ a \in Seq(S) /\ Len(a) = (IF 1 <= i - 1 THEN (i - 1) - 1 + 1 ELSE 0)
        /\ \A j \in 1 .. (i - 1) - 1 + 1 : a[j] = s[1 + j - 1]
    BY <1>1, <2>1, SubSeqProperties
  <2>4. /\ b \in Seq(S) /\ Len(b) = (IF i + 1 <= Len(s) THEN Len(s) - (i + 1) + 1 ELSE 0)
        /\ \A j \in 1 .. Len(s) - (i + 1) + 1 : b[j] = s[(i + 1) + j - 1]
    BY <1>1, <2>2, SubSeqProperties
  <2> HIDE DEF a, b
  <2>5. /\ a \in Seq(S) /\ Len(a) = i - 1 /\ \A j \in 1 .. i - 1 : a[j] = s[j]
    BY <1>1, <2>3
  <2>6. b \in Seq(S) /\ Len(b) = Len(s) - i
    BY <1>1, <2>4
  <2>7. ASSUME NEW j \in 1 .. Len(s) - i PROVE b[j] = s[i + j]
    <3>1. j \in 1 .. Len(s) - (i + 1) + 1 /\ (i + 1) + j - 1 = i + j
      BY <1>1
    <3>2. QED
      BY <2>4, <3>1
  <2>8. QED
    BY <2>5, <2>6, <2>7
<1> HIDE DEF a, b
<1>3. /\ a \o b \in Seq(S) /\ Len(a \o b) = Len(s) - 1
      /\ \A j \in 1 .. Len(s) - 1 : (a \o b)[j] = IF j < i THEN a[j] ELSE b[j - (i - 1)]
  <2>1. /\ a \o b \in Seq(S) /\ Len(a \o b) = Len(a) + Len(b)
        /\ \A j \in 1 .. Len(a) + Len(b) : (a \o b)[j] = IF j <= Len(a) THEN a[j] ELSE b[j - Len(a)]
    BY <1>2, ConcatProperties
  <2>2. QED
    BY <1>1, <1>2, <2>1
<1>4. RemoveAt(s, i) = a \o b
  BY DEF RemoveAt, a, b
<1>5. ASSUME NEW j \in 1 .. Len(s) - 1
      PROVE  (a \o b)[j] = IF j < i THEN s[j] ELSE s[j + 1]
  <2>1. CASE j < i
    BY <1>1, <1>2, <1>3, <2>1
  <2>2. CASE ~(j < i)
    <3>1. j - (i - 1) \in 1 .. Len(s) - i /\ i + (j - (i - 1)) = j + 1
      BY <1>1, <2>2
    <3>2. QED
      BY <1>1, <1>2, <1>3, <2>2, <3>1
  <2>3. QED
    BY <2>1, <2>2
<1>6. QED
  BY <1>3, <1>4, <1>5

(* A row moved down: those in between move up.                             *)
LEMMA MovedDownProperties ==
  ASSUME NEW S, NEW s \in Seq(S), NEW from \in 1 .. Len(s), NEW to \in 1 .. Len(s), from < to
  PROVE  LET t == InsertAt(RemoveAt(s, from), to, s[from])
         IN  /\ t \in Seq(S) /\ Len(t) = Len(s)
             /\ \A j \in 1 .. Len(s) :
                  t[j] = IF j < from \/ j > to THEN s[j] ELSE IF j = to THEN s[from] ELSE s[j + 1]
<1>1. Len(s) \in Nat /\ s[from] \in S
  BY LenProperties
<1>2. PICK r : r = RemoveAt(s, from)
  OBVIOUS
<1>3. /\ r \in Seq(S) /\ Len(r) = Len(s) - 1
      /\ \A j \in 1 .. Len(s) - 1 : r[j] = IF j < from THEN s[j] ELSE s[j + 1]
  BY <1>2, RemoveAtProperties
<1>4. to \in 1 .. Len(r) + 1 /\ Len(r) + 1 = Len(s)
  BY <1>1, <1>3
<1>5. PICK t : t = InsertAt(r, to, s[from])
  OBVIOUS
<1>6. /\ t \in Seq(S) /\ Len(t) = Len(s)
      /\ \A j \in 1 .. Len(s) : t[j] = IF j < to THEN r[j] ELSE IF j = to THEN s[from] ELSE r[j - 1]
  <2>1. PICK e \in S : e = s[from]
    BY <1>1
  <2>2. /\ InsertAt(r, to, e) \in Seq(S) /\ Len(InsertAt(r, to, e)) = Len(r) + 1
        /\ IsInserted(InsertAt(r, to, e), r, to, e)
    <3>1. r \in Seq(S) /\ to \in 1 .. Len(r) + 1
      BY <1>3, <1>4
    <3>2. QED
      BY <3>1, InsertAtProperties
  <2>3. QED
    BY <1>4, <1>5, <2>1, <2>2 DEF IsInserted
<1>7. ASSUME NEW j \in 1 .. Len(s)
      PROVE  t[j] = IF j < from \/ j > to THEN s[j] ELSE IF j = to THEN s[from] ELSE s[j + 1]
  <2>1. CASE j < to
    <3>1. j \in 1 .. Len(s) - 1
      BY <1>1, <2>1
    <3>2. QED
      BY <1>1, <1>3, <1>6, <2>1, <3>1
  <2>2. CASE j = to
    BY <1>6, <2>2
  <2>3. CASE j > to
    <3>1. j - 1 \in 1 .. Len(s) - 1 /\ ~(j - 1 < from) /\ (j - 1) + 1 = j
      BY <1>1, <2>3
    <3>2. QED
      BY <1>1, <1>3, <1>6, <2>3, <3>1
  <2>4. QED
    BY <1>1, <2>1, <2>2, <2>3
<1>8. QED
  BY <1>2, <1>5, <1>6, <1>7

(* Numbers that differ, of the first n, are at most n.                     *)
LEMMA Pigeonhole ==
  ASSUME NEW m \in Nat, NEW n \in Nat, NEW f \in [1 .. m -> 1 .. n],
         \A i, j \in 1 .. m : f[i] = f[j] => i = j
  PROVE  m <= n
<1>1. IsFiniteSet(1 .. m) /\ IsFiniteSet(1 .. n)
  BY FS_Interval, m \in Int, n \in Int, 1 \in Int
<1>2. Cardinality(1 .. m) = m /\ Cardinality(1 .. n) = n
  <2>1. Cardinality(1 .. m) = IF 1 > m THEN 0 ELSE m - 1 + 1
    BY FS_Interval, m \in Int, 1 \in Int
  <2>2. Cardinality(1 .. n) = IF 1 > n THEN 0 ELSE n - 1 + 1
    BY FS_Interval, n \in Int, 1 \in Int
  <2>3. QED
    BY <2>1, <2>2
<1>3. SUFFICES ASSUME n < m PROVE FALSE
  OBVIOUS
<1>4. \E x, y \in 1 .. m : x # y /\ f[x] = f[y]
  BY <1>1, <1>2, <1>3, FS_PigeonHole
<1>5. QED
  BY <1>4

-----------------------------------------------------------------------------
(* Functions defined by recursion over the natural numbers.                *)

(* g is the function so far, up to k.                                      *)
UpTo(V, a, G, g, k) ==
  g \in [0 .. k -> V] /\ g[0] = a /\ \A i \in 0 .. k - 1 : g[i + 1] = G[i][g[i]]

LEMMA RecursionUpTo ==
  ASSUME NEW V, NEW a \in V, NEW G \in [Nat -> [V -> V]]
  PROVE  \A k \in Nat : \E g : UpTo(V, a, G, g, k)
<1> DEFINE T == {k \in Nat : \E g : UpTo(V, a, G, g, k)}
<1>1. 0 \in T
  <2> DEFINE g == [i \in 0 .. 0 |-> a]
  <2>1. UpTo(V, a, G, g, 0)
    BY DEF UpTo
  <2>2. QED
    BY <2>1
<1>2. ASSUME NEW k \in Nat, k \in T PROVE k + 1 \in T
  <2>1. PICK g : UpTo(V, a, G, g, k)
    BY <1>2
  <2> DEFINE h == [i \in 0 .. k + 1 |-> IF i = k + 1 THEN G[k][g[k]] ELSE g[i]]
  <2>2. g[k] \in V /\ G[k][g[k]] \in V
    BY <2>1 DEF UpTo
  <2>3. ASSUME NEW i \in 0 .. k + 1 PROVE h[i] \in V
    <3>1. CASE i = k + 1
      BY <2>2, <3>1
    <3>2. CASE i # k + 1
      <4>1. i \in 0 .. k
        BY <3>2
      <4>2. QED
        BY <2>1, <3>2, <4>1 DEF UpTo
    <3>3. QED
      BY <3>1, <3>2
  <2>4. h \in [0 .. k + 1 -> V] /\ h[0] = a
    <3>1. h[0] = g[0]
      OBVIOUS
    <3>2. QED
      BY <2>1, <2>3, <3>1 DEF UpTo
  <2>5. ASSUME NEW i \in 0 .. (k + 1) - 1 PROVE h[i + 1] = G[i][h[i]]
    <3>1. h[i] = g[i]
      OBVIOUS
    <3>2. CASE i = k
      BY <3>1, <3>2
    <3>3. CASE i # k
      <4>1. i \in 0 .. k - 1 /\ h[i + 1] = g[i + 1]
        BY <3>3
      <4>2. QED
        BY <2>1, <3>1, <4>1 DEF UpTo
    <3>4. QED
      BY <3>2, <3>3
  <2> HIDE DEF h
  <2>6. UpTo(V, a, G, h, k + 1)
    BY <2>4, <2>5 DEF UpTo
  <2>7. QED
    BY <2>6
<1> HIDE DEF T
<1>3. \A k \in Nat : k \in T
  BY <1>1, <1>2, SetInduction
<1>4. QED
  BY <1>3 DEF T

LEMMA RecursionAgrees ==
  ASSUME NEW V, NEW a, NEW G,
         NEW k \in Nat, NEW l \in Nat, NEW g, NEW h, UpTo(V, a, G, g, k), UpTo(V, a, G, h, l)
  PROVE  \A i \in Nat : i <= k /\ i <= l => g[i] = h[i]
<1> DEFINE T == {i \in Nat : i <= k /\ i <= l => g[i] = h[i]}
<1>1. 0 \in T
  BY DEF UpTo
<1>2. ASSUME NEW i \in Nat, i \in T PROVE i + 1 \in T
  <2>1. SUFFICES ASSUME i + 1 <= k, i + 1 <= l PROVE g[i + 1] = h[i + 1]
    OBVIOUS
  <2>2. i \in 0 .. k - 1 /\ i \in 0 .. l - 1 /\ g[i] = h[i]
    BY <1>2, <2>1
  <2>3. QED
    BY <2>2 DEF UpTo
<1> HIDE DEF T
<1>3. \A i \in Nat : i \in T
  BY <1>1, <1>2, SetInduction
<1>4. QED
  BY <1>3 DEF T

(* The function whose value at n + 1 is G[n] of the value at n.            *)
IsStep(V, G) == G \in [Nat -> [V -> V]]
Recursive(V, a, G, f) == f \in [Nat -> V] /\ f[0] = a /\ \A n \in Nat : f[n + 1] = G[n][f[n]]

LEMMA Recursion ==
  ASSUME NEW V, NEW a \in V, NEW G, IsStep(V, G)
  PROVE  \E f : Recursive(V, a, G, f)
<1> DEFINE g(k) == CHOOSE x : UpTo(V, a, G, x, k)
           f == [n \in Nat |-> g(n)[n]]
<1>1. \A k \in Nat : UpTo(V, a, G, g(k), k)
  BY RecursionUpTo DEF IsStep
<1> HIDE DEF g
<1>2. f \in [Nat -> V] /\ f[0] = a
  BY <1>1 DEF UpTo
<1>3. ASSUME NEW n \in Nat PROVE f[n + 1] = G[n][f[n]]
  <2>1. UpTo(V, a, G, g(n), n) /\ UpTo(V, a, G, g(n + 1), n + 1)
    BY <1>1
  <2>2. g(n + 1)[n + 1] = G[n][g(n + 1)[n]]
    BY <2>1 DEF UpTo
  <2>3. g(n + 1)[n] = g(n)[n]
    <3>1. \A i \in Nat : i <= n + 1 /\ i <= n => g(n + 1)[i] = g(n)[i]
      BY <2>1, n + 1 \in Nat, RecursionAgrees
    <3>2. QED
      BY <3>1
  <2>4. QED
    BY <2>2, <2>3
<1> HIDE DEF f
<1>4. QED
  BY <1>2, <1>3 DEF Recursive

LEMMA PowerDef ==
  /\ Power \in [Nat -> Nat \ {0}]
  /\ Power[0] = 1 /\ \A n \in Nat : Power[n + 1] = 2 * Power[n]
<1> DEFINE V == Nat \ {0}
           Def(f) == [n \in Nat |-> IF n = 0 THEN 1 ELSE 2 * f[n - 1]]
           G == [n \in Nat |-> [v \in V |-> 2 * v]]
<1>1. PICK f : f \in [Nat -> V] /\ f[0] = 1 /\ \A n \in Nat : f[n + 1] = G[n][f[n]]
  <2>1. PICK one : one = 1
    OBVIOUS
  <2>2. one \in V /\ IsStep(V, G)
    BY <2>1 DEF IsStep
  <2> HIDE DEF G, V
  <2>3. \E f : Recursive(V, one, G, f)
    BY <2>2, Recursion
  <2>4. QED
    BY <2>1, <2>3 DEF Recursive
<1>2. \A n \in Nat : f[n + 1] = 2 * f[n]
  BY <1>1
<1>3. \A n \in Nat : f[n] = Def(f)[n]
  <2> TAKE n \in Nat
  <2>1. CASE n = 0
    BY <1>1, <2>1
  <2>2. CASE n # 0
    <3>1. n - 1 \in Nat /\ (n - 1) + 1 = n
      BY <2>2
    <3>2. QED
      BY <1>2, <2>2, <3>1
  <2>3. QED
    BY <2>1, <2>2
<1>4. f = Def(f)
  BY <1>1, <1>3
<1>5. Power = Def(Power)
  BY <1>4 DEF Power
<1> DEFINE T == {n \in Nat : Power[n] = f[n]}
<1>6. Power[0] = 1 /\ \A n \in Nat : Power[n + 1] = 2 * Power[n]
  <2>1. Power[0] = 1
    BY <1>5
  <2>2. ASSUME NEW n \in Nat PROVE Power[n + 1] = 2 * Power[n]
    <3>1. Power[n + 1] = IF n + 1 = 0 THEN 1 ELSE 2 * Power[(n + 1) - 1]
      BY <1>5
    <3>2. QED
      BY <3>1
  <2>3. QED
    BY <2>1, <2>2
<1>7. \A n \in Nat : n \in T
  <2>1. 0 \in T /\ \A n \in Nat : n \in T => n + 1 \in T
    BY <1>1, <1>2, <1>6
  <2> HIDE DEF T
  <2>2. QED
    BY <2>1, SetInduction
<1>8. Power \in [Nat -> V]
  <2>1. DOMAIN Power = Nat /\ Power = [n \in Nat |-> Power[n]]
    BY <1>5
  <2>2. QED
    BY <1>1, <1>7, <2>1
<1>9. QED
  BY <1>6, <1>8

-----------------------------------------------------------------------------
(* How many moves bring every row home.  The first row that is not at home *)
(* is moved there; the rows in between move up, and some may be displaced  *)
(* from their homes.  H is the set of rows at home; weighing row p with    *)
(* 2 ^ (p - 2), each move makes the weight of H greater.                   *)

Gain(H, n) == IF n >= 1 /\ n + 1 \in H THEN Power[n - 1] ELSE 0
IsWeight(H, f) == f \in [Nat -> Nat] /\ f[0] = 0 /\ \A n \in Nat : f[n + 1] = f[n] + Gain(H, n)
Weight(H) == CHOOSE f : IsWeight(H, f)

LEMMA GainType == \A H : \A n \in Nat : Gain(H, n) \in Nat
BY PowerDef DEF Gain

LEMMA WeightDef == \A H : IsWeight(H, Weight(H))
<1> TAKE H
<1> DEFINE G == [n \in Nat |-> [v \in Nat |-> v + Gain(H, n)]]
<1>1. \E f : Recursive(Nat, 0, G, f)
  <2>1. IsStep(Nat, G) /\ 0 \in Nat
    BY GainType DEF IsStep
  <2>2. PICK zero \in Nat : zero = 0
    OBVIOUS
  <2> HIDE DEF G
  <2>3. \E f : Recursive(Nat, zero, G, f)
    BY <2>1, Recursion
  <2>4. QED
    BY <2>2, <2>3
<1>2. PICK f : Recursive(Nat, 0, G, f)
  BY <1>1
<1>3. IsWeight(H, f)
  BY <1>2 DEF Recursive, IsWeight
<1>4. QED
  BY <1>3 DEF Weight

LEMMA WeightBound ==
  \A H : \A n \in Nat \ {0} : Weight(H)[n] \in Nat /\ Weight(H)[n] < Power[n - 1]
<1> TAKE H
<1> DEFINE f == Weight(H)
           T == {n \in Nat : f[n + 1] < Power[n]}
<1>1. /\ f \in [Nat -> Nat] /\ f[0] = 0 /\ \A n \in Nat : f[n + 1] = f[n] + Gain(H, n)
  BY WeightDef DEF IsWeight
<1> HIDE DEF f
<1>2. 0 \in T
  <2>1. Gain(H, 0) = 0
    BY DEF Gain
  <2>2. QED
    BY <1>1, <2>1, PowerDef
<1>3. ASSUME NEW n \in Nat, n \in T PROVE n + 1 \in T
  <2>1. f[(n + 1) + 1] = f[n + 1] + Gain(H, n + 1)
    BY <1>1
  <2>2. Gain(H, n + 1) \in Nat /\ Gain(H, n + 1) <= Power[n]
    <3>1. (n + 1) - 1 = n /\ Power[n] \in Nat
      BY PowerDef
    <3>2. QED
      BY <3>1 DEF Gain
  <2>3. f[n + 1] < Power[n] /\ f[n + 1] \in Nat /\ Power[n] \in Nat
    BY <1>1, <1>3, PowerDef
  <2>4. Power[n + 1] = 2 * Power[n]
    BY PowerDef
  <2>5. QED
    BY <2>1, <2>2, <2>3, <2>4
<1> HIDE DEF T
<1>4. \A n \in Nat : n \in T
  BY <1>2, <1>3, SetInduction
<1>5. ASSUME NEW n \in Nat \ {0} PROVE f[n] \in Nat /\ f[n] < Power[n - 1]
  <2>1. n - 1 \in Nat /\ (n - 1) + 1 = n
    OBVIOUS
  <2>2. n - 1 \in T
    BY <1>4, <2>1
  <2>3. QED
    BY <1>1, <2>1, <2>2 DEF T
<1>6. QED
  BY <1>5 DEF f

(* Row to came home, whatever happened to the rows before it.              *)
LEMMA WeightGains ==
  ASSUME NEW H, NEW K, NEW to \in Nat, to >= 2, to \in K, to \notin H,
         \A p \in Nat : p > to => (p \in H <=> p \in K)
  PROVE  \A n \in Nat : n >= to => Weight(H)[n] < Weight(K)[n]
<1> DEFINE f == Weight(H)
           g == Weight(K)
           T == {n \in Nat : n >= to => f[n] < g[n]}
<1>1. /\ f \in [Nat -> Nat] /\ \A n \in Nat : f[n + 1] = f[n] + Gain(H, n)
      /\ g \in [Nat -> Nat] /\ \A n \in Nat : g[n + 1] = g[n] + Gain(K, n)
  BY WeightDef DEF IsWeight
<1>2. f[to - 1] < Power[to - 2]
  <2>1. to - 1 \in Nat \ {0} /\ (to - 1) - 1 = to - 2
    OBVIOUS
  <2>2. QED
    BY <2>1, WeightBound
<1> HIDE DEF f, g
<1>3. f[to] < g[to]
  <2>1. to - 1 \in Nat /\ (to - 1) + 1 = to /\ to - 1 >= 1 /\ (to - 1) - 1 = to - 2 /\ to - 2 \in Nat
    OBVIOUS
  <2>2. f[to] = f[to - 1] + Gain(H, to - 1) /\ g[to] = g[to - 1] + Gain(K, to - 1)
    BY <1>1, <2>1
  <2>3. Gain(H, to - 1) = 0 /\ Gain(K, to - 1) = Power[to - 2]
    BY <2>1 DEF Gain
  <2>4. f[to - 1] \in Nat /\ g[to - 1] \in Nat /\ Power[to - 2] \in Nat
    BY <1>1, <2>1, PowerDef
  <2>5. QED
    BY <1>2, <2>2, <2>3, <2>4
<1>4. 0 \in T
  OBVIOUS
<1>5. ASSUME NEW n \in Nat, n \in T PROVE n + 1 \in T
  <2>1. CASE n + 1 < to
    BY <2>1
  <2>2. CASE n + 1 = to
    BY <1>3, <2>2
  <2>3. CASE n + 1 > to
    <3>1. f[n] < g[n]
      BY <1>5, <2>3
    <3>2. Gain(H, n) = Gain(K, n)
      BY <2>3 DEF Gain
    <3>3. Gain(H, n) \in Nat /\ f[n] \in Nat /\ g[n] \in Nat
      BY <1>1, GainType
    <3>4. QED
      BY <1>1, <3>1, <3>2, <3>3
  <2>4. QED
    BY <2>1, <2>2, <2>3
<1> HIDE DEF T
<1>6. \A n \in Nat : n \in T
  BY <1>4, <1>5, SetInduction
<1>7. QED
  BY <1>6 DEF T, f, g

-----------------------------------------------------------------------------
(* The elements of a list, and whether they are distinct, as rows come, go *)
(* and move.                                                               *)

LEMMA RangeProperties ==
  ASSUME NEW S, NEW s \in Seq(S)
  PROVE  /\ Len(s) \in Nat /\ DOMAIN s = 1 .. Len(s) /\ Range(s) \subseteq S
         /\ \A i \in 1 .. Len(s) : s[i] \in S /\ s[i] \in Range(s)
         /\ \A x \in Range(s) : \E i \in 1 .. Len(s) : s[i] = x
         /\ IsInjective(s) <=> \A i, j \in 1 .. Len(s) : s[i] = s[j] => i = j
BY LenProperties DEF Range, IsInjective

(* The selection of a list whose elements are all in the set is the list.  *)
LEMMA SelectedAll ==
  ASSUME NEW S, NEW s \in Seq(S), NEW P, Range(s) \subseteq P
  PROVE  Selected(s, P) = s
<1> DEFINE f == SelectedUpTo(s, P)
           Good(i) == Len(f[i]) = i /\ \A j \in 1 .. i : f[i][j] = s[j]
           T == {i \in Nat : i <= Len(s) => Good(i)}
<1>1. f = [i \in 0 .. Len(s) |-> Turn(s, P, f, i)] /\ Len(s) \in Nat
  BY SelectedUpToDef, LenProperties
<1>2. \A i \in 0 .. Len(s) : f[i] \in Seq(S)
  BY SelectedUpToProperties
<1>3. \A i \in 1 .. Len(s) : s[i] \in P /\ s[i] \in S
  BY RangeProperties
<1> HIDE DEF f
<1>4. Good(0)
  BY <1>1, EmptySeq DEF Turn
<1>5. ASSUME NEW i \in Nat, i <= Len(s) => Good(i), i + 1 <= Len(s) PROVE Good(i + 1)
  <2>1. i \in 0 .. Len(s) /\ i + 1 \in 1 .. Len(s) /\ i + 1 \in 0 .. Len(s) /\ i + 1 # 0 /\ (i + 1) - 1 = i
    BY <1>1, <1>5
  <2>2. Good(i)
    BY <1>5, <2>1
  <2>3. PICK t : t = f[i]
    OBVIOUS
  <2>4. f[i + 1] = Append(t, s[i + 1])
    BY <1>1, <1>3, <2>1, <2>3 DEF Turn
  <2>5. t \in Seq(S) /\ s[i + 1] \in S /\ Len(t) = i /\ \A j \in 1 .. i : t[j] = s[j]
    BY <1>2, <1>3, <2>1, <2>2, <2>3
  <2>6. Len(f[i + 1]) = i + 1 /\ \A j \in 1 .. i + 1 : f[i + 1][j] = s[j]
    BY <2>4, <2>5, AppendProperties
  <2>7. QED
    BY <2>6
<1> HIDE DEF Good
<1>6. \A i \in Nat : i \in T
  <2>1. 0 \in T /\ \A i \in Nat : i \in T => i + 1 \in T
    BY <1>4, <1>5
  <2> HIDE DEF T
  <2>2. QED
    BY <2>1, SetInduction
<1>7. Good(Len(s)) /\ f[Len(s)] \in Seq(S)
  BY <1>1, <1>2, <1>6
<1>8. QED
  BY <1>7, SeqEqual DEF Good, f, Selected

LEMMA RemoveAtRange ==
  ASSUME NEW S, NEW s \in Seq(S), NEW i \in 1 .. Len(s)
  PROVE  LET t == RemoveAt(s, i)
         IN  /\ Range(t) \cup {s[i]} = Range(s)
             /\ IsInjective(s) => IsInjective(t) /\ s[i] \notin Range(t)
<1>1. PICK t : t = RemoveAt(s, i)
  OBVIOUS
<1>2. /\ t \in Seq(S) /\ Len(t) = Len(s) - 1 /\ Len(s) \in Nat
      /\ \A j \in 1 .. Len(s) - 1 : t[j] = IF j < i THEN s[j] ELSE s[j + 1]
  BY <1>1, RemoveAtProperties, LenProperties
<1>3. ASSUME NEW j \in 1 .. Len(t) PROVE \E k \in 1 .. Len(s) : k # i /\ k = (IF j < i THEN j ELSE j + 1) /\ t[j] = s[k]
  <2>1. (IF j < i THEN j ELSE j + 1) \in 1 .. Len(s)
    BY <1>2
  <2>2. t[j] = s[IF j < i THEN j ELSE j + 1]
    BY <1>2
  <2>3. (IF j < i THEN j ELSE j + 1) # i
    BY <1>2
  <2>4. QED
    BY <2>1, <2>2, <2>3
<1>4. ASSUME NEW k \in 1 .. Len(s), k # i PROVE \E j \in 1 .. Len(t) : t[j] = s[k]
  <2>1. CASE k < i
    <3>1. k \in 1 .. Len(t) /\ t[k] = s[k]
      BY <1>2, <2>1
    <3>2. QED
      BY <3>1
  <2>2. CASE k > i
    <3>1. k - 1 \in 1 .. Len(t) /\ ~(k - 1 < i) /\ (k - 1) + 1 = k
      BY <1>2, <2>2
    <3>2. t[k - 1] = s[k]
      BY <1>2, <3>1
    <3>3. QED
      BY <3>1, <3>2
  <2>3. QED
    BY <1>2, <1>4, <2>1, <2>2
<1>5. /\ DOMAIN s = 1 .. Len(s) /\ DOMAIN t = 1 .. Len(t)
  BY <1>2, LenProperties
<1>6. Range(t) \cup {s[i]} = Range(s)
  <2>1. Range(t) \subseteq Range(s)
    BY <1>3, <1>5 DEF Range
  <2>2. \A k \in 1 .. Len(s) : s[k] \in Range(t) \cup {s[i]}
    BY <1>4, <1>5 DEF Range
  <2>3. QED
    BY <1>5, <2>1, <2>2 DEF Range
<1>7. ASSUME IsInjective(s) PROVE IsInjective(t) /\ s[i] \notin Range(t)
  <2>1. \A a, b \in 1 .. Len(s) : s[a] = s[b] => a = b
    BY <1>5, <1>7 DEF IsInjective
  <2>2. s[i] \notin Range(t)
    BY <1>3, <1>5, <2>1 DEF Range
  <2>3. ASSUME NEW a \in 1 .. Len(t), NEW b \in 1 .. Len(t), t[a] = t[b] PROVE a = b
    <3>1. PICK k \in 1 .. Len(s) : k = (IF a < i THEN a ELSE a + 1) /\ t[a] = s[k]
      BY <1>3
    <3>2. PICK l \in 1 .. Len(s) : l = (IF b < i THEN b ELSE b + 1) /\ t[b] = s[l]
      BY <1>3
    <3>3. k = l
      BY <2>1, <2>3, <3>1, <3>2
    <3>4. QED
      BY <1>2, <3>1, <3>2, <3>3
  <2>4. QED
    BY <1>5, <2>2, <2>3 DEF IsInjective
<1>8. QED
  BY <1>1, <1>6, <1>7

LEMMA InsertAtRange ==
  ASSUME NEW S, NEW s \in Seq(S), NEW i \in 1 .. Len(s) + 1, NEW e \in S
  PROVE  LET t == InsertAt(s, i, e)
         IN  /\ Range(t) = Range(s) \cup {e}
             /\ IsInjective(s) /\ e \notin Range(s) => IsInjective(t)
<1>1. PICK t : t = InsertAt(s, i, e)
  OBVIOUS
<1>2. /\ t \in Seq(S) /\ Len(t) = Len(s) + 1 /\ Len(s) \in Nat
      /\ \A j \in 1 .. Len(s) + 1 : t[j] = IF j < i THEN s[j] ELSE IF j = i THEN e ELSE s[j - 1]
  <2>1. /\ InsertAt(s, i, e) \in Seq(S) /\ Len(InsertAt(s, i, e)) = Len(s) + 1
        /\ IsInserted(InsertAt(s, i, e), s, i, e)
    BY InsertAtProperties
  <2>2. QED
    BY <1>1, <2>1, LenProperties DEF IsInserted
<1>3. ASSUME NEW j \in 1 .. Len(t), j # i
      PROVE  \E k \in 1 .. Len(s) : k = (IF j < i THEN j ELSE j - 1) /\ t[j] = s[k]
  <2>1. (IF j < i THEN j ELSE j - 1) \in 1 .. Len(s)
    BY <1>2, <1>3
  <2>2. t[j] = s[IF j < i THEN j ELSE j - 1]
    BY <1>2, <1>3
  <2>3. QED
    BY <2>1, <2>2
<1>4. i \in 1 .. Len(t) /\ t[i] = e
  BY <1>2
<1>5. ASSUME NEW k \in 1 .. Len(s) PROVE \E j \in 1 .. Len(t) : t[j] = s[k]
  <2>1. CASE k < i
    <3>1. k \in 1 .. Len(t) /\ t[k] = s[k]
      BY <1>2, <2>1
    <3>2. QED
      BY <3>1
  <2>2. CASE k >= i
    <3>1. k + 1 \in 1 .. Len(t) /\ ~(k + 1 < i) /\ k + 1 # i /\ (k + 1) - 1 = k
      BY <1>2, <2>2
    <3>2. t[k + 1] = s[k]
      BY <1>2, <3>1
    <3>3. QED
      BY <3>1, <3>2
  <2>3. QED
    BY <1>2, <2>1, <2>2
<1>6. /\ DOMAIN s = 1 .. Len(s) /\ DOMAIN t = 1 .. Len(t)
  BY <1>2, LenProperties
<1>7. Range(t) = Range(s) \cup {e}
  <2>1. \A j \in 1 .. Len(t) : t[j] \in Range(s) \cup {e}
    BY <1>3, <1>4, <1>6 DEF Range
  <2>2. \A k \in 1 .. Len(s) : s[k] \in Range(t)
    BY <1>5, <1>6 DEF Range
  <2>3. QED
    BY <1>4, <1>6, <2>1, <2>2 DEF Range
<1>8. ASSUME IsInjective(s), e \notin Range(s) PROVE IsInjective(t)
  <2>1. \A a, b \in 1 .. Len(s) : s[a] = s[b] => a = b
    BY <1>6, <1>8 DEF IsInjective
  <2>2. \A a \in 1 .. Len(s) : s[a] # e
    BY <1>6, <1>8 DEF Range
  <2>3. ASSUME NEW a \in 1 .. Len(t), NEW b \in 1 .. Len(t), t[a] = t[b] PROVE a = b
    <3>1. CASE a = i \/ b = i
      BY <1>3, <1>4, <2>2, <2>3, <3>1
    <3>2. CASE a # i /\ b # i
      <4>1. PICK k \in 1 .. Len(s) : k = (IF a < i THEN a ELSE a - 1) /\ t[a] = s[k]
        BY <1>3, <3>2
      <4>2. PICK l \in 1 .. Len(s) : l = (IF b < i THEN b ELSE b - 1) /\ t[b] = s[l]
        BY <1>3, <3>2
      <4>3. k = l
        BY <2>1, <2>3, <4>1, <4>2
      <4>4. QED
        BY <1>2, <3>2, <4>1, <4>2, <4>3
    <3>3. QED
      BY <3>1, <3>2
  <2>4. QED
    BY <1>6, <2>3 DEF IsInjective
<1>9. QED
  BY <1>1, <1>7, <1>8

(* A row that is taken out and put in somewhere else.                      *)
LEMMA MovedRange ==
  ASSUME NEW S, NEW s \in Seq(S), NEW from \in 1 .. Len(s), NEW to \in 1 .. Len(s)
  PROVE  LET t == InsertAt(RemoveAt(s, from), to, s[from])
         IN  /\ t \in Seq(S) /\ Len(t) = Len(s) /\ Range(t) = Range(s)
             /\ IsInjective(s) => IsInjective(t)
<1>1. PICK e \in S : e = s[from]
  BY LenProperties
<1>2. PICK r : r = RemoveAt(s, from)
  OBVIOUS
<1>3. /\ r \in Seq(S) /\ Len(r) = Len(s) - 1 /\ Len(s) \in Nat
      /\ Range(r) \cup {e} = Range(s)
      /\ IsInjective(s) => IsInjective(r) /\ e \notin Range(r)
  BY <1>1, <1>2, RemoveAtProperties, RemoveAtRange, LenProperties
<1>4. to \in 1 .. Len(r) + 1
  BY <1>3
<1>5. /\ InsertAt(r, to, e) \in Seq(S) /\ Len(InsertAt(r, to, e)) = Len(r) + 1
  BY <1>3, <1>4, InsertAtProperties
<1>6. /\ Range(InsertAt(r, to, e)) = Range(r) \cup {e}
      /\ IsInjective(r) /\ e \notin Range(r) => IsInjective(InsertAt(r, to, e))
  BY <1>3, <1>4, InsertAtRange
<1>7. QED
  BY <1>1, <1>2, <1>3, <1>5, <1>6

(* Distinct numbers that are in a list make it at least as long.           *)
LEMMA RangePigeonhole ==
  ASSUME NEW S, NEW s \in Seq(S), NEW t \in Seq(S), IsInjective(s), Range(s) \subseteq Range(t)
  PROVE  Len(s) <= Len(t)
<1> DEFINE at(x) == CHOOSE j \in 1 .. Len(t) : t[j] = x
           f == [i \in 1 .. Len(s) |-> at(s[i])]
<1>1. Len(s) \in Nat /\ Len(t) \in Nat
  BY LenProperties
<1>2. ASSUME NEW i \in 1 .. Len(s) PROVE at(s[i]) \in 1 .. Len(t) /\ t[at(s[i])] = s[i]
  <2>1. s[i] \in Range(t)
    BY RangeProperties
  <2>2. \E j \in 1 .. Len(t) : t[j] = s[i]
    BY <2>1, RangeProperties
  <2>3. QED
    BY <2>2
<1> HIDE DEF at
<1>3. f \in [1 .. Len(s) -> 1 .. Len(t)]
  BY <1>2
<1>4. ASSUME NEW i \in 1 .. Len(s), NEW j \in 1 .. Len(s), f[i] = f[j] PROVE i = j
  <2>1. s[i] = s[j]
    BY <1>2, <1>4
  <2>2. QED
    BY <2>1, RangeProperties
<1> HIDE DEF f
<1>5. QED
  BY <1>1, <1>3, <1>4, Pigeonhole

(* A loop of n turns that starts with a: after k of them its state is in   *)
(* Ok[k], and H[k] leads to the next.                                      *)
IsLoop(V, n, Ok, a, H) ==
  /\ Ok \in [0 .. n -> SUBSET V] /\ a \in Ok[0]
  /\ \A k \in 0 .. n - 1 : \A v \in Ok[k] : H[k][v] \in Ok[k + 1]

IsRun(n, Ok, a, H, g) ==
  /\ g = [k \in 0 .. n |-> IF k = 0 THEN a ELSE H[k - 1][g[k - 1]]]
  /\ \A k \in 0 .. n : g[k] \in Ok[k]

LEMMA LoopExists ==
  ASSUME NEW V, NEW n \in Nat, NEW Ok, NEW a, NEW H, IsLoop(V, n, Ok, a, H)
  PROVE  \E g : IsRun(n, Ok, a, H, g)
<1>0. /\ Ok \in [0 .. n -> SUBSET V] /\ a \in Ok[0]
      /\ \A k \in 0 .. n - 1 : \A v \in Ok[k] : H[k][v] \in Ok[k + 1]
  BY DEF IsLoop
<1> DEFINE step(k, v) == IF k \in 0 .. n - 1 /\ v \in Ok[k] THEN H[k][v] ELSE v
           G == [k \in Nat |-> [v \in V |-> step(k, v)]]
<1>1. ASSUME NEW k \in Nat, NEW v \in V PROVE step(k, v) \in V
  <2>1. CASE k \in 0 .. n - 1 /\ v \in Ok[k]
    <3>1. H[k][v] \in Ok[k + 1] /\ k + 1 \in 0 .. n
      BY <1>0, <2>1
    <3>2. Ok[k + 1] \in SUBSET V
      BY <1>0, <3>1
    <3>3. QED
      BY <2>1, <3>1, <3>2
  <2>2. CASE ~(k \in 0 .. n - 1 /\ v \in Ok[k])
    BY <2>2
  <2>3. QED
    BY <2>1, <2>2
<1> HIDE DEF step
<1>2. IsStep(V, G)
  BY <1>1 DEF IsStep
<1>3. a \in V
  <2>1. 0 \in 0 .. n
    OBVIOUS
  <2>2. QED
    BY <1>0, <2>1
<1>4. \E f : Recursive(V, a, G, f)
  <2> HIDE DEF G
  <2>1. QED
    BY <1>2, <1>3, Recursion
<1>5. PICK f : f \in [Nat -> V] /\ f[0] = a /\ \A k \in Nat : f[k + 1] = step(k, f[k])
  BY <1>4 DEF Recursive
<1> DEFINE T == {k \in Nat : k <= n => f[k] \in Ok[k]}
<1>6. 0 \in T
  BY <1>0, <1>5
<1>7. ASSUME NEW k \in Nat, k \in T PROVE k + 1 \in T
  <2>1. SUFFICES ASSUME k + 1 <= n PROVE f[k + 1] \in Ok[k + 1]
    OBVIOUS
  <2>2. k \in 0 .. n - 1 /\ f[k] \in Ok[k]
    BY <1>7, <2>1
  <2>3. f[k + 1] = H[k][f[k]]
    BY <1>5, <2>2 DEF step
  <2>4. QED
    BY <1>0, <2>2, <2>3
<1> HIDE DEF T
<1>8. \A k \in Nat : k \in T
  BY <1>6, <1>7, SetInduction
<1>9. PICK g : g = [k \in 0 .. n |-> f[k]]
  OBVIOUS
<1>10. ASSUME NEW k \in 0 .. n PROVE f[k] = IF k = 0 THEN a ELSE H[k - 1][g[k - 1]]
  <2>1. CASE k = 0
    BY <1>5, <2>1
  <2>2. CASE k # 0
    <3>1. PICK j \in Nat : k = j + 1 /\ j = k - 1 /\ j \in 0 .. n - 1 /\ j \in 0 .. n
      BY <2>2
    <3>2. f[j] \in Ok[j]
      BY <1>8, <3>1 DEF T
    <3>3. f[k] = H[j][f[j]] /\ g[j] = f[j]
      BY <1>5, <1>9, <3>1, <3>2 DEF step
    <3>4. QED
      BY <2>2, <3>1, <3>3
  <2>3. QED
    BY <2>1, <2>2
<1>11. g = [k \in 0 .. n |-> IF k = 0 THEN a ELSE H[k - 1][g[k - 1]]]
  BY <1>9, <1>10
<1>12. \A k \in 0 .. n : g[k] \in Ok[k]
  BY <1>8, <1>9 DEF T
<1>13. QED
  BY <1>11, <1>12 DEF IsRun

LEMMA LoopInvariant ==
  ASSUME NEW n \in Nat, NEW Ok, NEW g, g[0] \in Ok[0],
         \A k \in 0 .. n - 1 : g[k] \in Ok[k] => g[k + 1] \in Ok[k + 1]
  PROVE  \A k \in 0 .. n : g[k] \in Ok[k]
<1> DEFINE T == {k \in Nat : k <= n => g[k] \in Ok[k]}
<1>1. 0 \in T
  OBVIOUS
<1>2. ASSUME NEW k \in Nat, k \in T PROVE k + 1 \in T
  <2>1. SUFFICES ASSUME k + 1 <= n PROVE g[k + 1] \in Ok[k + 1]
    OBVIOUS
  <2>2. k \in 0 .. n - 1 /\ g[k] \in Ok[k]
    BY <1>2, <2>1
  <2>3. QED
    BY <2>2
<1> HIDE DEF T
<1>3. \A k \in Nat : k \in T
  BY <1>1, <1>2, SetInduction
<1>4. QED
  BY <1>3 DEF T

(* The least of a set of natural numbers.                                  *)
LEMMA LeastProperties ==
  ASSUME NEW I \in SUBSET Nat, I # {}
  PROVE  Min(I) \in I /\ \A i \in I : Min(I) <= i
<1>1. IsWellFoundedOn(OpToRel(<, Nat), Nat)
  BY NatLessThanWellFounded
<1>2. \E x \in I : \A y \in I : ~(<<y, x>> \in OpToRel(<, Nat))
  BY <1>1, WFMin
<1>3. PICK x \in I : \A y \in I : ~(y < x)
  BY <1>2 DEF OpToRel
<1>4. \A y \in I : x <= y
  BY <1>3
<1>5. \E z \in I : \A y \in I : z =< y
  BY <1>4
<1>6. QED
  BY <1>5 DEF Min
=============================================================================
