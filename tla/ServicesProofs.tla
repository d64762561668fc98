---------------------------- MODULE ServicesProofs ----------------------------
(***************************************************************************)
(* Proofs about what the pages share, for any pages, settings, scopes,     *)
(* favourites and bounds: the location with its tokens and the consent of  *)
(* the user (Location and LocationSettings), and the registry of scopes    *)
(* (Registry): the canned queries that wait for a listing, then what the   *)
(* loops over rows do, and the lists of the dash and of the overview.      *)
(***************************************************************************)
EXTENDS LocationSettings, Registry, ListProofs, FiniteSetTheorems, TLAPS

-----------------------------------------------------------------------------
(* The location: the inductive invariant.                                  *)

Moves == {"activate", "deactivate"}
Fixes == {"none", "approximate", "exact"}

LocationType ==
  /\ active \in [Pages -> BOOLEAN] /\ dirty \in [Pages -> BOOLEAN]
  /\ tokens \in SUBSET Pages /\ direct \in SUBSET Pages
  /\ queue \in Seq(Moves) /\ Len(queue) <= MaxEvents
  /\ count \in Nat
  /\ session \in BOOLEAN /\ stopTimer \in BOOLEAN /\ updating \in BOOLEAN /\ requested \in BOOLEAN
  /\ geoTimer \in BOOLEAN /\ geoRunning \in BOOLEAN /\ geo \in BOOLEAN /\ located \in BOOLEAN
  /\ dotFile \in BOOLEAN /\ denied \in BOOLEAN
  /\ sent \in [Pages -> Fixes]

(* The count once the first k events of a queue have been handled.         *)
Of(s, x, k) == Cardinality({i \in 1 .. k : s[i] = x})
Net(c, s, k) == c + Of(s, "activate", k) - Of(s, "deactivate", k)

(* Whatever part of the queue is handled, the count is one of tokens.      *)
CountFollows ==
  /\ Net(count, queue, Len(queue)) = Cardinality(tokens)
  /\ \A k \in 0 .. Len(queue) : Net(count, queue, k) \in 0 .. Cardinality(Pages)

SessionRuns ==
  /\ updating <=> (count > 0 \/ stopTimer)
  /\ session <=> updating
  /\ \A p \in tokens : active[p]

(* Before the prompt was shown, a page waits for a search only because of a *)
(* request that was not programmatic.                                      *)
DirtyIsDirect == \A p \in Pages : dirty[p] /\ ~dotFile => p \in direct

LocationInv == LocationType /\ CountFollows /\ SessionRuns /\ DirtyIsDirect

(* The sheet: it has no children; the location's row is there only with    *)
(* the access, and the parser holds what the file holds unless a write     *)
(* failed.                                                                 *)
Values == BOOLEAN \cup {NoValue}
SheetType ==
  /\ sheetRows \in Seq(Range(Settings))
  /\ parser \in [Range(Settings) -> Values] \cup {<<>>} /\ file \in [Range(Settings) -> Values] \cup {<<>>}
  /\ pending \in [Range(Settings) -> Values] /\ chosen \in [Range(Settings) -> Values]
  /\ kids = <<>> /\ kidRows = <<>> /\ saved = <<>> /\ known = {}
  /\ stale \in BOOLEAN /\ childrenDirty \in BOOLEAN /\ spoiled \in BOOLEAN
SheetInv ==
  /\ SheetType
  /\ LocationRow \in Range(sheetRows) => ~denied
  /\ parser # <<>> /\ ~spoiled => parser = file

-----------------------------------------------------------------------------
(* Counting events.                                                        *)

LEMMA OfProperties ==
  ASSUME NEW s, NEW x, NEW k \in Nat
  PROVE  /\ Of(s, x, k) \in Nat
         /\ Of(s, x, 0) = 0
         /\ Of(s, x, k + 1) = Of(s, x, k) + (IF s[k + 1] = x THEN 1 ELSE 0)
<1> DEFINE A == {i \in 1 .. k : s[i] = x}
           B == {i \in 1 .. k + 1 : s[i] = x}
<1>1. IsFiniteSet(A)
  BY FS_Interval, FS_Subset, k \in Int, 1 \in Int
<1>2. Cardinality(A) \in Nat
  BY <1>1, FS_CardinalityType
<1>3. {i \in 1 .. 0 : s[i] = x} = {}
  OBVIOUS
<1>4. CASE s[k + 1] = x
  <2>1. B = A \cup {k + 1} /\ k + 1 \notin A
    BY <1>4
  <2>2. Cardinality(B) = Cardinality(A) + 1
    BY <1>1, <2>1, FS_AddElement
  <2>3. QED
    BY <1>2, <1>3, <1>4, <2>2, FS_EmptySet DEF Of
<1>5. CASE s[k + 1] # x
  <2>1. B = A
    BY <1>5
  <2>2. QED
    BY <1>2, <1>3, <1>5, <2>1, FS_EmptySet DEF Of
<1>6. QED
  BY <1>4, <1>5

Counts(s, x) == \A k \in Nat : Of(s, x, k + 1) = Of(s, x, k) + (IF s[k + 1] = x THEN 1 ELSE 0)
LEMMA OfNext == \A s, x : Counts(s, x)
  BY OfProperties DEF Counts

(* Two sequences whose first k elements agree; one that is the tail of     *)
(* another.                                                                *)
LEMMA OfSame ==
  ASSUME NEW s, NEW t, NEW x, NEW k \in Nat, \A i \in 1 .. k : s[i] = t[i]
  PROVE  Of(s, x, k) = Of(t, x, k)
<1>1. {i \in 1 .. k : s[i] = x} = {i \in 1 .. k : t[i] = x}
  OBVIOUS
<1>2. QED
  BY <1>1 DEF Of

Follows(s, t, n) == \A i \in 1 .. n : t[i] = s[i + 1]

LEMMA OfTail ==
  ASSUME NEW s, NEW t, NEW x, NEW n \in Nat, Follows(s, t, n)
  PROVE  \A k \in 0 .. n : Of(s, x, k + 1) = Of(t, x, k) + (IF s[1] = x THEN 1 ELSE 0)
<1> DEFINE d == IF s[1] = x THEN 1 ELSE 0
           T == {k \in Nat : k <= n => Of(s, x, k + 1) = Of(t, x, k) + d}
<1>1. 0 \in T
  <2>1. Of(s, x, 0 + 1) = 0 + d /\ Of(t, x, 0) = 0
    BY OfProperties, 0 \in Nat
  <2>2. QED
    BY <2>1
<1>2. ASSUME NEW k \in Nat, k \in T PROVE k + 1 \in T
  <2> SUFFICES ASSUME k + 1 <= n PROVE Of(s, x, (k + 1) + 1) = Of(t, x, k + 1) + d
    OBVIOUS
  <2>1. Of(s, x, k + 1) = Of(t, x, k) + d
    BY <1>2
  <2>2. Of(s, x, (k + 1) + 1) = Of(s, x, k + 1) + (IF s[(k + 1) + 1] = x THEN 1 ELSE 0)
    BY OfProperties, k + 1 \in Nat
  <2>3. Of(t, x, k + 1) = Of(t, x, k) + (IF t[k + 1] = x THEN 1 ELSE 0)
    BY OfProperties
  <2>4. t[k + 1] = s[(k + 1) + 1]
    BY DEF Follows
  <2>5. Of(t, x, k) \in Nat
    BY OfProperties
  <2>6. QED
    BY <2>1, <2>2, <2>3, <2>4, <2>5
<1> HIDE DEF T
<1>3. \A k \in Nat : k \in T
  BY <1>1, <1>2, SetInduction
<1>4. QED
  BY <1>3 DEF T

LEMMA NetProperties ==
  ASSUME NEW c \in Int, NEW s
  PROVE  /\ \A k \in Nat : Net(c, s, k) \in Int
         /\ Net(c, s, 0) = c
  BY OfProperties DEF Net

(* An event that is posted counts at the end, one that is handled no more. *)
LEMMA NetAppend ==
  ASSUME NEW c \in Int, NEW s \in Seq(Moves), NEW e \in Moves
  PROVE  /\ \A k \in 0 .. Len(s) : Net(c, Append(s, e), k) = Net(c, s, k)
         /\ Net(c, Append(s, e), Len(s) + 1) = Net(c, s, Len(s)) + (IF e = "activate" THEN 1 ELSE -1)
<1> DEFINE t == Append(s, e)
           n == Len(s)
<1>1. n \in Nat /\ t[n + 1] = e /\ \A i \in 1 .. n : t[i] = s[i]
  BY AppendProperties, LenProperties
<1> HIDE DEF t, n
<1>2. \A x : \A k \in 0 .. n : Of(t, x, k) = Of(s, x, k)
  BY <1>1, OfSame
<1>3. \A x : Of(t, x, n + 1) = Of(s, x, n) + (IF e = x THEN 1 ELSE 0)
  <2> TAKE x
  <2>1. Of(t, x, n + 1) = Of(t, x, n) + (IF t[n + 1] = x THEN 1 ELSE 0)
    BY <1>1, OfNext DEF Counts
  <2>2. n \in 0 .. n
    BY <1>1
  <2>3. QED
    BY <1>1, <1>2, <2>1, <2>2
<1>4. \A x : Of(s, x, n) \in Nat
  BY <1>1, OfProperties
<1>5. e = "activate" \/ e = "deactivate"
  BY DEF Moves
<1>6. Net(c, t, n + 1) = Net(c, s, n) + (IF e = "activate" THEN 1 ELSE -1)
  <2>1. CASE e = "activate"
    BY <1>3, <1>4, <2>1 DEF Net
  <2>2. CASE e = "deactivate"
    BY <1>3, <1>4, <2>2 DEF Net
  <2>3. QED
    BY <1>5, <2>1, <2>2
<1>7. \A k \in 0 .. n : Net(c, t, k) = Net(c, s, k)
  BY <1>2 DEF Net
<1>8. QED
  BY <1>6, <1>7 DEF t, n

LEMMA NetTail ==
  ASSUME NEW c \in Int, NEW s \in Seq(Moves), s # <<>>
  PROVE  /\ Len(Tail(s)) = Len(s) - 1 /\ Len(s) \in Nat /\ Len(s) > 0
         /\ \A k \in 0 .. Len(Tail(s)) :
              Net(c, s, k + 1) = Net(c + (IF Head(s) = "activate" THEN 1 ELSE -1), Tail(s), k)
         /\ Net(c, s, 1) = c + (IF Head(s) = "activate" THEN 1 ELSE -1)
<1> DEFINE t == Tail(s)
           n == Len(t)
<1>1. /\ n \in Nat /\ \A i \in 1 .. n : t[i] = s[i + 1]
      /\ Head(s) = s[1] /\ Head(s) \in Moves
      /\ n = Len(s) - 1 /\ Len(s) \in Nat /\ Len(s) > 0
  BY HeadTailProperties, LenProperties, EmptySeq
<1> HIDE DEF t, n
<1>2. \A x : \A k \in 0 .. n : Of(s, x, k + 1) = Of(t, x, k) + (IF s[1] = x THEN 1 ELSE 0)
  <2> TAKE x
  <2>1. n \in Nat /\ Follows(s, t, n)
    BY <1>1 DEF Follows
  <2>2. QED
    BY <2>1, OfTail
<1>3. \A x : \A k \in 0 .. n : Of(t, x, k) \in Nat
  BY OfProperties
<1>4. s[1] = "activate" \/ s[1] = "deactivate"
  BY <1>1 DEF Moves
<1>5. \A k \in 0 .. n : Net(c, s, k + 1) = Net(c + (IF s[1] = "activate" THEN 1 ELSE -1), t, k)
  <2> TAKE k \in 0 .. n
  <2>1. /\ Of(s, "activate", k + 1) = Of(t, "activate", k) + (IF s[1] = "activate" THEN 1 ELSE 0)
        /\ Of(s, "deactivate", k + 1) = Of(t, "deactivate", k) + (IF s[1] = "deactivate" THEN 1 ELSE 0)
        /\ Of(t, "activate", k) \in Nat /\ Of(t, "deactivate", k) \in Nat
    BY <1>2, <1>3
  <2>2. CASE s[1] = "activate"
    BY <2>1, <2>2 DEF Net
  <2>3. CASE s[1] = "deactivate"
    BY <2>1, <2>3 DEF Net
  <2>4. QED
    BY <1>4, <2>2, <2>3
<1>6. Net(c, s, 0 + 1) = c + (IF s[1] = "activate" THEN 1 ELSE -1)
  <2>1. 0 \in 0 .. n /\ c + (IF s[1] = "activate" THEN 1 ELSE -1) \in Int
    BY <1>1
  <2>2. QED
    BY <1>5, <2>1, NetProperties
<1>7. QED
  BY <1>1, <1>5, <1>6 DEF t, n

-----------------------------------------------------------------------------
(* The location: the steps.                                                *)

(* What may become of the token of a page.                                 *)
Kept == UNCHANGED <<tokens, queue>>
Taken(p) ==
  /\ p \notin tokens /\ tokens' = tokens \cup {p}
  /\ Len(queue) < MaxEvents /\ queue' = Append(queue, "activate")
GivenBack(p) ==
  /\ p \in tokens /\ tokens' = tokens \ {p}
  /\ Len(queue) < MaxEvents /\ queue' = Append(queue, "deactivate")

LEMMA TokensFinite ==
  ASSUME NEW T \in SUBSET Pages
  PROVE  /\ IsFiniteSet(T) /\ Cardinality(T) \in 0 .. Cardinality(Pages) /\ Cardinality(Pages) \in Nat
         /\ \A p \in Pages : Cardinality(T \cup {p}) = Cardinality(T) + (IF p \in T THEN 0 ELSE 1)
         /\ \A p \in Pages : Cardinality(T \ {p}) = Cardinality(T) - (IF p \in T THEN 1 ELSE 0)
<1>1. IsFiniteSet(Pages)
  BY LocationAssumption
<1>2. IsFiniteSet(T) /\ Cardinality(T) <= Cardinality(Pages)
  BY <1>1, FS_Subset
<1>3. Cardinality(T) \in Nat /\ Cardinality(Pages) \in Nat
  BY <1>1, <1>2, FS_CardinalityType
<1>4. \A p \in Pages : Cardinality(T \cup {p}) = Cardinality(T) + (IF p \in T THEN 0 ELSE 1)
  BY <1>2, <1>3, FS_AddElement
<1>5. \A p \in Pages : Cardinality(T \ {p}) = Cardinality(T) - (IF p \in T THEN 1 ELSE 0)
  <2> TAKE p \in Pages
  <2>1. Cardinality(T \ {p}) = IF p \in T THEN Cardinality(T) - 1 ELSE Cardinality(T)
    BY <1>2, FS_RemoveElement
  <2>2. QED
    BY <1>3, <2>1
<1>6. QED
  BY <1>2, <1>3, <1>4, <1>5

(* A posted event is the change of the number of tokens.                   *)
Posted(c, s, n, t, m) == 
  \E e \in Moves : t = Append(s, e) /\ m = n + (IF e = "activate" THEN 1 ELSE -1)
Follow(c, s, n) ==
  /\ Net(c, s, Len(s)) = n
  /\ \A k \in 0 .. Len(s) : Net(c, s, k) \in 0 .. Cardinality(Pages)

LEMMA PostedFollows ==
  ASSUME NEW c \in Nat, NEW s \in Seq(Moves), NEW n \in Nat, NEW t, NEW m \in 0 .. Cardinality(Pages),
         Follow(c, s, n), Posted(c, s, n, t, m)
  PROVE  /\ Follow(c, t, m)
         /\ t \in Seq(Moves) /\ Len(t) = Len(s) + 1
<1>1. PICK e \in Moves : t = Append(s, e) /\ m = n + (IF e = "activate" THEN 1 ELSE -1)
  BY DEF Posted
<1>2. t \in Seq(Moves) /\ Len(t) = Len(s) + 1 /\ Len(s) \in Nat
  BY <1>1, AppendProperties, LenProperties
<1>3. /\ \A k \in 0 .. Len(s) : Net(c, t, k) = Net(c, s, k)
      /\ Net(c, t, Len(s) + 1) = Net(c, s, Len(s)) + (IF e = "activate" THEN 1 ELSE -1)
  BY <1>1, NetAppend
<1>4. Net(c, t, Len(t)) = m
  BY <1>1, <1>2, <1>3 DEF Follow
<1>5. ASSUME NEW k \in 0 .. Len(t) PROVE Net(c, t, k) \in 0 .. Cardinality(Pages)
  <2>1. k \in 0 .. Len(s) \/ k = Len(t)
    BY <1>2
  <2>2. QED
    BY <1>3, <1>4, <2>1 DEF Follow
<1>6. QED
  BY <1>2, <1>4, <1>5 DEF Follow

LEMMA TokensMove ==
  ASSUME LocationType, CountFollows, count' = count, NEW p \in Pages, Kept \/ Taken(p) \/ GivenBack(p)
  PROVE  /\ CountFollows'
         /\ tokens' \in SUBSET Pages /\ queue' \in Seq(Moves) /\ Len(queue') <= MaxEvents
<1>1. CASE Kept
  BY <1>1 DEF Kept, CountFollows, LocationType
<1>2. CASE Taken(p) \/ GivenBack(p)
  <2>1. tokens' \in SUBSET Pages /\ Cardinality(tokens) \in Nat /\ Cardinality(tokens') \in 0 .. Cardinality(Pages)
    BY <1>2, TokensFinite DEF Taken, GivenBack, LocationType
  <2>2. Posted(count, queue, Cardinality(tokens), queue', Cardinality(tokens'))
    <3>1. CASE Taken(p)
      <4>1. Cardinality(tokens') = Cardinality(tokens) + 1
        BY <3>1, TokensFinite DEF Taken, LocationType
      <4>2. QED
        BY <3>1, <4>1 DEF Taken, Posted, Moves
    <3>2. CASE GivenBack(p)
      <4>1. Cardinality(tokens') = Cardinality(tokens) - 1
        BY <3>2, TokensFinite DEF GivenBack, LocationType
      <4>2. Cardinality(tokens') = Cardinality(tokens) + (-1)
        BY <2>1, <4>1
      <4>3. QED
        BY <3>2, <4>2 DEF GivenBack, Posted, Moves
    <3>3. QED
      BY <1>2, <3>1, <3>2
  <2>3. Follow(count, queue, Cardinality(tokens))
    BY DEF CountFollows, Follow
  <2>4. /\ Follow(count, queue', Cardinality(tokens')) 
        /\ queue' \in Seq(Moves) /\ Len(queue') = Len(queue) + 1
    BY <2>1, <2>2, <2>3, PostedFollows DEF LocationType
  <2>5. Len(queue') <= MaxEvents
    BY <1>2, <2>4, LenProperties, LocationAssumption DEF Taken, GivenBack, LocationType
  <2>6. QED
    BY <2>1, <2>4, <2>5 DEF Follow, CountFollows
<1>3. QED
  BY <1>1, <1>2

(* What the handlers of a page have in common.                             *)
PageStep(p, willing) ==
  /\ UNCHANGED <<source, position>>
  /\ active' \in [Pages -> BOOLEAN] /\ dirty' \in [Pages -> BOOLEAN]
  /\ direct' \in SUBSET Pages /\ sent' \in [Pages -> Fixes]
  /\ \A q \in Pages : q # p => active'[q] = active[q]
  /\ \A q \in Pages : dirty'[q] /\ ~dotFile => q \in direct'
  /\ \A q \in Pages : sent'[q] # sent[q] /\ sent'[q] # "none" => q = p /\ willing
  /\ \/ Kept /\ (p \in tokens => active'[p])
     \/ Taken(p) /\ active'[p] /\ (dotFile \/ p \in direct')
     \/ GivenBack(p)

LEMMA DispatchSearchStep ==
  ASSUME LocationType, NEW p \in Pages, NEW isActive, NEW programmatic, NEW willing,
         DispatchSearch(p, isActive, programmatic, willing)
  PROVE  /\ dirty' = [dirty EXCEPT ![p] = FALSE] /\ dirty' \in [Pages -> BOOLEAN]
         /\ sent' \in [Pages -> Fixes]
         /\ \A q \in Pages : sent'[q] # sent[q] /\ sent'[q] # "none" => q = p /\ willing
         /\ Kept \/ (Taken(p) /\ isActive /\ (~programmatic \/ dotFile))
<1>1. dirty' = [dirty EXCEPT ![p] = FALSE] /\ dirty' \in [Pages -> BOOLEAN]
  BY DEF DispatchSearch, LocationType
<1>2. sent' = [sent EXCEPT ![p] = IF willing THEN Fix ELSE "none"]
  BY DEF DispatchSearch
<1>3. Fix \in Fixes /\ "none" \in Fixes
  BY DEF Fix, Fixes
<1>4. sent \in [Pages -> Fixes]
  BY DEF LocationType
<1>5. sent' \in [Pages -> Fixes]
  BY <1>2, <1>3, <1>4
<1>6. \A q \in Pages : sent'[q] # sent[q] /\ sent'[q] # "none" => q = p /\ willing
  BY <1>2, <1>4
<1>7. Kept \/ (Taken(p) /\ isActive /\ (~programmatic \/ dotFile))
  BY DEF DispatchSearch, Takes, Kept, Taken
<1>8. QED
  BY <1>1, <1>5, <1>6, <1>7

LEMMA SetActiveStep ==
  ASSUME LocationInv, NEW p \in Pages, NEW willing, SetActive(p, willing)
  PROVE  PageStep(p, willing)
<1>1. /\ UNCHANGED <<source, position>> /\ direct' = direct
      /\ active' = [active EXCEPT ![p] = ~active[p]]
  BY DEF SetActive
<1>2. /\ active' \in [Pages -> BOOLEAN] /\ active'[p] = ~active[p]
      /\ \A q \in Pages : q # p => active'[q] = active[q]
  BY <1>1 DEF LocationInv, LocationType
<1>3. CASE active[p]
  <2>1. UNCHANGED <<dirty, sent>> /\ (GivenBack(p) \/ (p \notin tokens /\ Kept))
    BY <1>3 DEF SetActive, GivenBack, Kept
  <2>2. QED
    BY <1>1, <1>2, <2>1 DEF PageStep, LocationInv, LocationType, DirtyIsDirect
<1>4. CASE ~active[p] /\ dirty[p]
  <2>1. DispatchSearch(p, TRUE, FALSE, willing)
    BY <1>4 DEF SetActive
  <2>2. LocationType
    BY DEF LocationInv
  <2>3. /\ dirty' = [dirty EXCEPT ![p] = FALSE] /\ dirty' \in [Pages -> BOOLEAN]
        /\ sent' \in [Pages -> Fixes]
        /\ \A q \in Pages : sent'[q] # sent[q] /\ sent'[q] # "none" => q = p /\ willing
        /\ Kept \/ Taken(p)
    <3>1. PICK yes, no : yes = TRUE /\ no = FALSE
      OBVIOUS
    <3>2. DispatchSearch(p, yes, no, willing)
      BY <2>1, <3>1
    <3>3. QED
      BY <2>2, <3>2, DispatchSearchStep
  <2>4. \A q \in Pages : dirty'[q] => dirty[q]
    BY <2>2, <2>3 DEF LocationType
  <2>5. active'[p]
    BY <1>2, <1>4
  <2>6. dotFile \/ p \in direct'
    BY <1>1, <1>4 DEF LocationInv, DirtyIsDirect
  <2>7. \A q \in Pages : dirty'[q] /\ ~dotFile => q \in direct'
    BY <1>1, <2>4 DEF LocationInv, DirtyIsDirect
  <2>8. direct' \in SUBSET Pages
    BY <1>1, <2>2 DEF LocationType
  <2>9. QED
    BY <1>1, <1>2, <2>3, <2>5, <2>6, <2>7, <2>8 DEF PageStep
<1>5. CASE ~active[p] /\ ~dirty[p]
  <2>1. UNCHANGED <<dirty, sent>> /\ Kept
    BY <1>5 DEF SetActive, Kept
  <2>2. QED
    BY <1>1, <1>2, <1>5, <2>1 DEF PageStep, LocationInv, LocationType, DirtyIsDirect
<1>6. QED
  BY <1>3, <1>4, <1>5

(* A search, which also ends the waiting of the page for one.              *)
LEMMA SearchingStep ==
  ASSUME LocationInv, NEW p \in Pages, NEW programmatic \in BOOLEAN, NEW willing,
         DispatchSearch(p, active[p], programmatic, willing), Requests(p, programmatic),
         UNCHANGED <<active, source, position>>
  PROVE  PageStep(p, willing)
<1>1. LocationType
  BY DEF LocationInv
<1>2. /\ dirty' = [dirty EXCEPT ![p] = FALSE] /\ dirty' \in [Pages -> BOOLEAN]
      /\ sent' \in [Pages -> Fixes]
      /\ \A q \in Pages : sent'[q] # sent[q] /\ sent'[q] # "none" => q = p /\ willing
      /\ Kept \/ (Taken(p) /\ active[p] /\ (~programmatic \/ dotFile))
  BY <1>1, DispatchSearchStep
<1>3. /\ direct' \in SUBSET Pages /\ \A q \in direct \ {p} : q \in direct'
      /\ ~programmatic => p \in direct'
  BY <1>1 DEF Requests, LocationType
<1>4. \A q \in Pages : dirty'[q] /\ ~dotFile => q \in direct'
  BY <1>1, <1>2, <1>3 DEF LocationInv, LocationType, DirtyIsDirect
<1>5. p \in tokens => active[p]
  BY DEF LocationInv, SessionRuns
<1>6. QED
  BY <1>1, <1>2, <1>3, <1>4, <1>5 DEF PageStep, LocationType

LEMMA InvalidateResultsStep ==
  ASSUME LocationInv, NEW p \in Pages, NEW programmatic \in BOOLEAN, NEW willing,
         InvalidateResults(p, programmatic, willing)
  PROVE  PageStep(p, willing)
<1>1. Requests(p, programmatic) /\ UNCHANGED <<active, source, position>>
  BY DEF InvalidateResults
<1>2. CASE active[p] \/ (programmatic /\ ~dotFile)
  BY <1>1, <1>2, SearchingStep DEF InvalidateResults
<1>3. CASE ~(active[p] \/ (programmatic /\ ~dotFile))
  <2>1. dirty' = [dirty EXCEPT ![p] = TRUE] /\ Kept /\ sent' = sent
    BY <1>3 DEF InvalidateResults, Kept
  <2>2. /\ direct' \in SUBSET Pages /\ \A q \in direct \ {p} : q \in direct'
        /\ ~programmatic => p \in direct'
    BY <1>1 DEF Requests, LocationInv, LocationType
  <2>3. \A q \in Pages : dirty'[q] /\ ~dotFile => q \in direct'
    BY <1>3, <2>1, <2>2 DEF LocationInv, LocationType, DirtyIsDirect
  <2>4. p \in tokens => active[p]
    BY DEF LocationInv, SessionRuns
  <2>5. dirty' \in [Pages -> BOOLEAN]
    BY <2>1 DEF LocationInv, LocationType
  <2>6. QED
    BY <1>1, <2>1, <2>2, <2>3, <2>4, <2>5 DEF PageStep, LocationInv, LocationType
<1>4. QED
  BY <1>2, <1>3

LEMMA PagesInv ==
  ASSUME LocationInv, NEW p \in Pages, NEW willing, PageStep(p, willing)
  PROVE  LocationInv'
<1>1. UNCHANGED <<source, position>> /\ (Kept \/ Taken(p) \/ GivenBack(p))
  BY DEF PageStep
<1>2. /\ CountFollows'
      /\ tokens' \in SUBSET Pages /\ queue' \in Seq(Moves) /\ Len(queue') <= MaxEvents
  BY <1>1, TokensMove DEF LocationInv, source
<1>3. LocationType'
  BY <1>1, <1>2 DEF PageStep, LocationInv, LocationType, source, position
<1>4. SessionRuns'
  <2>1. \A q \in tokens' : active'[q]
    <3> SUFFICES ASSUME NEW q \in tokens' PROVE active'[q]
      OBVIOUS
    <3>1. q \in Pages
      BY <1>2
    <3>2. CASE q = p
      BY <3>2 DEF PageStep, Kept, GivenBack
    <3>3. CASE q # p
      BY <3>1, <3>3 DEF PageStep, Kept, Taken, GivenBack, LocationInv, SessionRuns
    <3>4. QED
      BY <3>2, <3>3
  <2>2. QED
    BY <1>1, <2>1 DEF LocationInv, SessionRuns, source
<1>5. DirtyIsDirect'
  BY <1>1 DEF PageStep, DirtyIsDirect, position
<1>6. QED
  BY <1>2, <1>3, <1>4, <1>5 DEF LocationInv

LEMMA HandledFollows ==
  ASSUME LocationType, CountFollows, queue # <<>>
  PROVE  LET c == count + (IF Head(queue) = "activate" THEN 1 ELSE -1)
         IN  /\ c \in Nat /\ Tail(queue) \in Seq(Moves) /\ Len(Tail(queue)) <= MaxEvents
             /\ Net(c, Tail(queue), Len(Tail(queue))) = Cardinality(tokens)
             /\ \A k \in 0 .. Len(Tail(queue)) : Net(c, Tail(queue), k) \in 0 .. Cardinality(Pages)
<1> DEFINE d == IF Head(queue) = "activate" THEN 1 ELSE -1
           t == Tail(queue)
<1>1. /\ Len(t) = Len(queue) - 1 /\ Len(queue) \in Nat /\ Len(queue) > 0
      /\ \A k \in 0 .. Len(t) : Net(count, queue, k + 1) = Net(count + d, t, k)
      /\ Net(count, queue, 1) = count + d
  <2>1. count \in Int /\ queue \in Seq(Moves)
    BY DEF LocationType
  <2>2. QED
    BY <2>1, NetTail
<1>2. t \in Seq(Moves)
  BY HeadTailProperties DEF LocationType
<1> HIDE DEF t, d
<1>3. \A k \in 0 .. Len(t) : k + 1 \in 0 .. Len(queue)
  BY <1>1
<1>4. 1 \in 0 .. Len(queue) /\ Len(t) \in 0 .. Len(t) /\ Len(t) + 1 = Len(queue)
  BY <1>1
<1>5. count + d \in 0 .. Cardinality(Pages)
  BY <1>1, <1>4 DEF CountFollows
<1>6. Net(count + d, t, Len(t)) = Cardinality(tokens)
  BY <1>1, <1>4 DEF CountFollows
<1>7. \A k \in 0 .. Len(t) : Net(count + d, t, k) \in 0 .. Cardinality(Pages)
  BY <1>1, <1>3 DEF CountFollows
<1>8. Len(t) <= MaxEvents
  BY <1>1, LocationAssumption DEF LocationType
<1>9. count + d \in Nat
  BY <1>5
<1>10. QED
  BY <1>2, <1>6, <1>7, <1>8, <1>9 DEF t, d

LEMMA DoActivateInv ==
  ASSUME LocationInv, DoActivate
  PROVE  LocationInv'
<1>1. /\ queue # <<>> /\ Head(queue) = "activate" /\ queue' = Tail(queue) /\ count' = count + 1
      /\ UNCHANGED <<pages, tokens, requested, position>>
  BY DEF DoActivate
<1>2. count \in Nat
  BY DEF LocationInv, LocationType
<1>3. session' = TRUE /\ stopTimer' = FALSE /\ updating' = TRUE /\ geoTimer' = TRUE /\ geoRunning' = TRUE
  <2>1. count + 1 > 0
    BY <1>2
  <2>2. QED
    BY <2>1 DEF DoActivate, Update
<1>4. CountFollows' /\ queue' \in Seq(Moves) /\ Len(queue') <= MaxEvents
  BY <1>1, HandledFollows DEF LocationInv, CountFollows
<1>5. LocationType'
  <2>1. /\ session' \in BOOLEAN /\ stopTimer' \in BOOLEAN /\ updating' \in BOOLEAN
        /\ geoTimer' \in BOOLEAN /\ geoRunning' \in BOOLEAN
    BY <1>3
  <2>2. count' \in Nat
    BY <1>1, <1>2
  <2>3. QED
    BY <1>1, <1>4, <2>1, <2>2 DEF LocationInv, LocationType, pages, position
<1>6. SessionRuns'
  BY <1>1, <1>2, <1>3 DEF LocationInv, SessionRuns, pages
<1>7. DirtyIsDirect'
  BY <1>1 DEF LocationInv, DirtyIsDirect, pages, position
<1>8. QED
  BY <1>4, <1>5, <1>6, <1>7 DEF LocationInv

(* A token that is given back was counted: the count is positive.          *)
LEMMA DoDeactivateInv ==
  ASSUME LocationInv, DoDeactivate
  PROVE  LocationInv'
<1>1. /\ queue # <<>> /\ Head(queue) = "deactivate" /\ queue' = Tail(queue)
      /\ count' = (IF count > 0 THEN count - 1 ELSE 0) /\ stopTimer' = TRUE
      /\ UNCHANGED <<pages, tokens, session, updating, requested, geoTimer, geoRunning, position>>
  BY DEF DoDeactivate
<1>2. count \in Nat
  BY DEF LocationInv, LocationType
<1>3. Head(queue) # "activate"
  BY <1>1
<1>4. /\ count + (-1) \in Nat /\ queue' \in Seq(Moves) /\ Len(queue') <= MaxEvents
      /\ Net(count + (-1), queue', Len(queue')) = Cardinality(tokens)
      /\ \A k \in 0 .. Len(queue') : Net(count + (-1), queue', k) \in 0 .. Cardinality(Pages)
  BY <1>1, <1>3, HandledFollows DEF LocationInv
<1>5. count > 0 /\ count' = count + (-1) /\ count' \in Nat
  BY <1>1, <1>2, <1>4
<1>6. CountFollows'
  BY <1>1, <1>4, <1>5 DEF CountFollows
<1>7. LocationType'
  BY <1>1, <1>4, <1>5 DEF LocationInv, LocationType, pages, position
<1>8. SessionRuns'
  BY <1>1, <1>2, <1>5 DEF LocationInv, SessionRuns, pages
<1>9. DirtyIsDirect'
  BY <1>1 DEF LocationInv, DirtyIsDirect, pages, position
<1>10. QED
  BY <1>6, <1>7, <1>8, <1>9 DEF LocationInv

LEMMA DeactivateTimeoutInv ==
  ASSUME LocationInv, DeactivateTimeout
  PROVE  LocationInv'
<1>1. /\ stopTimer /\ stopTimer' = FALSE /\ updating' = (count > 0) /\ geoTimer' = (count > 0)
      /\ geoRunning' = (geoRunning \/ count > 0) /\ session' = (session /\ count > 0)
      /\ UNCHANGED <<pages, tokens, queue, count, requested, position>>
  BY DEF DeactivateTimeout, Update
<1>2. CountFollows'
  BY <1>1 DEF LocationInv, CountFollows
<1>3. LocationType'
  <2>1. /\ session' \in BOOLEAN /\ stopTimer' \in BOOLEAN /\ updating' \in BOOLEAN
        /\ geoTimer' \in BOOLEAN /\ geoRunning' \in BOOLEAN
    <3>1. CASE count > 0
      <4>1. (count > 0) = TRUE
        BY <3>1
      <4>2. QED
        BY <1>1, <4>1 DEF LocationInv, LocationType
    <3>2. CASE ~(count > 0)
      <4>1. (count > 0) = FALSE
        BY <3>2
      <4>2. QED
        BY <1>1, <4>1 DEF LocationInv, LocationType
    <3>3. QED
      BY <3>1, <3>2
  <2>2. QED
    BY <1>1, <2>1 DEF LocationInv, LocationType, pages, position
<1>4. SessionRuns'
  BY <1>1 DEF LocationInv, SessionRuns, pages
<1>5. DirtyIsDirect'
  BY <1>1 DEF LocationInv, DirtyIsDirect, pages, position
<1>6. QED
  BY <1>2, <1>3, <1>4, <1>5 DEF LocationInv

(* The other handlers leave tokens, count and session alone, and the file  *)
(* that says that the prompt was shown is never removed.                   *)
Aside ==
  /\ UNCHANGED <<pages, tokens, queue, count, session, stopTimer, updating, geoTimer>>
  /\ requested' \in BOOLEAN /\ geoRunning' \in BOOLEAN /\ geo' \in BOOLEAN /\ located' \in BOOLEAN
  /\ denied' \in BOOLEAN /\ dotFile' \in BOOLEAN /\ (dotFile => dotFile')

LEMMA AsideInv ==
  ASSUME LocationInv, Aside
  PROVE  LocationInv'
<1>1. CountFollows'
  BY DEF LocationInv, CountFollows, Aside
<1>2. LocationType'
  BY DEF LocationInv, LocationType, Aside, pages
<1>3. SessionRuns'
  BY DEF LocationInv, SessionRuns, Aside, pages
<1>4. DirtyIsDirect'
  BY DEF LocationInv, DirtyIsDirect, Aside, pages
<1>5. QED
  BY <1>1, <1>2, <1>3, <1>4 DEF LocationInv

LEMMA ServiceInv ==
  ASSUME LocationInv, ServiceNext
  PROVE  LocationInv' /\ UNCHANGED <<pages, tokens, denied, dotFile>>
<1> USE DEF position
<1>1. CASE DoActivate
  BY <1>1, DoActivateInv DEF DoActivate
<1>2. CASE DoDeactivate
  BY <1>2, DoDeactivateInv DEF DoDeactivate
<1>3. CASE DeactivateTimeout
  BY <1>3, DeactivateTimeoutInv DEF DeactivateTimeout
<1>4. CASE GeoIpTimeout
  <2>1. Aside /\ UNCHANGED <<pages, tokens, denied, dotFile>>
    BY <1>4 DEF GeoIpTimeout, Aside, LocationInv, LocationType
  <2>2. QED
    BY <2>1, AsideInv
<1>5. ASSUME NEW valid \in BOOLEAN, GeoIpResponse(valid)
      PROVE  LocationInv' /\ UNCHANGED <<pages, tokens, denied, dotFile>>
  <2>1. Aside /\ UNCHANGED <<pages, tokens, denied, dotFile>>
    BY <1>5 DEF GeoIpResponse, Aside, LocationInv, LocationType
  <2>2. QED
    BY <2>1, AsideInv
<1>6. CASE UpdateTimeout
  <2>1. Aside /\ UNCHANGED <<pages, tokens, denied, dotFile>>
    BY <1>6 DEF UpdateTimeout, Aside, LocationInv, LocationType
  <2>2. QED
    BY <2>1, AsideInv
<1>7. QED
  BY <1>1, <1>2, <1>3, <1>4, <1>5, <1>6 DEF ServiceNext

LEMMA AnswerInv ==
  ASSUME LocationInv, AnswerNext
  PROVE  LocationInv' /\ UNCHANGED <<pages, tokens>> /\ denied' \in BOOLEAN
<1>1. CASE PositionChanged
  <2>1. Aside
    BY <1>1 DEF PositionChanged, Answered, Aside, LocationInv, LocationType
  <2>2. QED
    BY <2>1, AsideInv DEF Aside
<1>2. CASE AccessError
  <2>1. Aside
    BY <1>2 DEF AccessError, Answered, Aside, LocationInv, LocationType
  <2>2. QED
    BY <2>1, AsideInv DEF Aside
<1>3. QED
  BY <1>1, <1>2 DEF AnswerNext

LEMMA LocationInitInv == LocationInit => LocationInv
<1> SUFFICES ASSUME LocationInit PROVE LocationInv
  OBVIOUS
<1>1. LocationType
  <2>1. <<>> \in Seq(Moves) /\ Len(<<>>) = 0
    OBVIOUS
  <2>2. "none" \in Fixes
    BY DEF Fixes
  <2>3. 0 <= MaxEvents
    BY LocationAssumption
  <2>4. QED
    BY <2>1, <2>2, <2>3 DEF LocationInit, LocationType
<1>2. CountFollows
  <2>1. /\ count = 0 /\ queue = <<>> /\ Len(queue) = 0 /\ tokens = {}
    BY DEF LocationInit
  <2>2. Net(0, queue, 0) = 0
    BY NetProperties
  <2>3. Cardinality(tokens) = 0 /\ Cardinality(Pages) \in Nat
    BY <2>1, FS_EmptySet, TokensFinite
  <2>4. QED
    BY <2>1, <2>2, <2>3 DEF CountFollows
<1>3. SessionRuns /\ DirtyIsDirect
  BY DEF LocationInit, SessionRuns, DirtyIsDirect
<1>4. QED
  BY <1>1, <1>2, <1>3 DEF LocationInv

-----------------------------------------------------------------------------
(* The sheet beside the location.                                          *)

LEMMA SheetOperators ==
  /\ \A f : Sheet!Range(f) = Range(f)
  /\ \A s, P : Sheet!Selected(s, P) = Selected(s, P)
  /\ Sheet!Ids = Range(Settings) /\ Sheet!MaybeValues = Values
<1>1. \A f : Sheet!Range(f) = Range(f)
  BY DEF Sheet!Range, Range
<1>2. \A s, P : Sheet!Selected(s, P) = Selected(s, P)
  BY DEF Sheet!Selected, Sheet!SelectedUpTo, Selected, SelectedUpTo
<1>3. Sheet!Ids = Range(Settings) /\ Sheet!MaybeValues = Values
  BY <1>1 DEF Sheet!Ids, Sheet!MaybeValues, Values
<1>4. QED
  BY <1>1, <1>2, <1>3

LEMMA RowsWithProperties ==
  ASSUME NEW access \in BOOLEAN
  PROVE  /\ Sheet!RowsWith(access) \in Seq(Range(Settings))
         /\ ~access => LocationRow \notin Range(Sheet!RowsWith(access))
<1> DEFINE P == IF access THEN Range(Settings) ELSE Range(Settings) \ {LocationRow}
<1>1. Sheet!RowsWith(access) = Selected(Settings, P)
  BY SheetOperators DEF Sheet!RowsWith
<1>2. Settings \in Seq(Range(Settings))
  BY SheetAssumption
<1>3. /\ Selected(Settings, P) \in Seq(Range(Settings))
      /\ Range(Selected(Settings, P)) = Range(Settings) \cap P
  BY <1>2, SelectedProperties
<1>4. QED
  BY <1>1, <1>3

(* A page without child scopes.                                            *)
LEMMA NoKids ==
  ASSUME saved = <<>>
  PROVE  /\ Sheet!IdsOf(saved) = <<>>
         /\ \A P : Sheet!Selected(Sheet!IdsOf(saved), P) = <<>>
<1>1. Sheet!IdsOf(saved) \in Seq({}) /\ Len(Sheet!IdsOf(saved)) = 0
  <2> DEFINE none == [i \in 1 .. 0 |-> saved[i].id]
  <2>1. Len(saved) = 0
    OBVIOUS
  <2>2. Sheet!IdsOf(saved) = none
    BY <2>1 DEF Sheet!IdsOf
  <2>3. none \in Seq({}) /\ Len(none) = 0
    <3>1. none \in [1 .. 0 -> {}]
      OBVIOUS
    <3>2. 0 \in Nat /\ DOMAIN none = 1 .. 0
      OBVIOUS
    <3> HIDE DEF none
    <3>3. QED
      BY <3>1, <3>2, IsASeq, LenProperties
  <2> HIDE DEF none
  <2>4. QED
    BY <2>2, <2>3
<1>2. \A s \in Seq({}) : Len(s) = 0 => s = <<>>
  BY EmptySeq
<1>3. \A P : Selected(Sheet!IdsOf(saved), P) \in Seq({}) /\ Len(Selected(Sheet!IdsOf(saved), P)) = 0
  <2> TAKE P
  <2>1. /\ Selected(Sheet!IdsOf(saved), P) \in Seq({})
        /\ Len(Selected(Sheet!IdsOf(saved), P)) <= 0
    BY <1>1, SelectedProperties
  <2>2. QED
    BY <2>1, LenProperties
<1>4. QED
  BY <1>1, <1>2, <1>3, SheetOperators

LEMMA SheetInitInv == LocatedInit => SheetInv
<1> SUFFICES ASSUME LocatedInit PROVE SheetInv
  OBVIOUS
<1>1. Sheet!SheetInit
  BY DEF LocatedInit
<1>2. /\ denied = TRUE /\ sheetRows = Sheet!RowsWith(FALSE) /\ parser = <<>> /\ file = <<>>
      /\ pending = [s \in Range(Settings) |-> NoValue] /\ chosen = [id \in Range(Settings) |-> NoValue]
      /\ kids = <<>> /\ kidRows = <<>> /\ stale = FALSE /\ childrenDirty = TRUE /\ spoiled = FALSE
  BY <1>1, SheetOperators DEF Sheet!SheetInit, Sheet!NoFile, Sheet!EmptyFile
<1>3. saved = <<>>
  <2>1. saved = [i \in 1 .. 0 |-> [id |-> <<>>[i], enabled |-> TRUE]]
    BY <1>1 DEF Sheet!SheetInit
  <2>2. [i \in 1 .. 0 |-> [id |-> <<>>[i], enabled |-> TRUE]] = <<>>
    OBVIOUS
  <2>3. QED
    BY <2>1, <2>2
<1>4. known = {}
  BY <1>1, SheetOperators DEF Sheet!SheetInit, Range
<1>5. sheetRows \in Seq(Range(Settings)) /\ LocationRow \notin Range(sheetRows)
  BY <1>2, RowsWithProperties
<1>6. QED
  BY <1>2, <1>3, <1>4, <1>5 DEF SheetInv, SheetType, Values

LEMMA AccessChangedInv ==
  ASSUME SheetInv, denied \in BOOLEAN, Sheet!LocationAccessChanged(FALSE)
  PROVE  SheetInv'
<1>1. /\ denied' = ~denied /\ sheetRows' = Sheet!RowsWith(denied) /\ parser' = file
      /\ pending' = [s \in Range(Settings) |-> NoValue]
      /\ kids' = saved /\ kidRows' = Sheet!Selected(Sheet!IdsOf(saved), known)
      /\ stale' = (\E c \in Range(Sheet!IdsOf(saved)) : c \notin known)
      /\ childrenDirty' = FALSE
      /\ UNCHANGED <<file, saved, known, spoiled>>
  BY SheetOperators DEF Sheet!LocationAccessChanged, Sheet!NewModel
<1>2. chosen' \in [Range(Settings) -> Values]
  <2>1. chosen' = [id \in Range(Settings) |->
                     IF (IF id \in {} THEN kidPending[id] ELSE pending[id]) # NoValue THEN NoValue
                     ELSE chosen[id]]
    BY SheetOperators DEF Sheet!LocationAccessChanged
  <2>2. chosen \in [Range(Settings) -> Values]
    BY DEF SheetInv, SheetType
  <2>3. QED
    BY <2>1, <2>2 DEF Values
<1>3. kids' = <<>> /\ kidRows' = <<>> /\ saved' = <<>> /\ known' = {}
  BY <1>1, NoKids DEF SheetInv, SheetType
<1>4. stale' \in BOOLEAN /\ childrenDirty' \in BOOLEAN /\ spoiled' \in BOOLEAN
  BY <1>1 DEF SheetInv, SheetType
<1>5. sheetRows' \in Seq(Range(Settings)) /\ (LocationRow \in Range(sheetRows') => ~denied')
  BY <1>1, RowsWithProperties
<1>6. pending' \in [Range(Settings) -> Values]
  BY <1>1 DEF Values
<1>7. SheetType'
  BY <1>1, <1>2, <1>3, <1>4, <1>5, <1>6 DEF SheetInv, SheetType
<1>8. QED
  BY <1>1, <1>5, <1>7 DEF SheetInv

LEMMA SetDataInv ==
  ASSUME SheetInv, NEW i \in 1 .. Len(sheetRows), NEW v \in BOOLEAN, Sheet!setData(i, v)
  PROVE  SheetInv'
<1>1. /\ UNCHANGED <<denied, sheetRows, parser, file, kids, kidRows, stale, childrenDirty, saved, known, spoiled>>
      /\ pending' = [pending EXCEPT ![sheetRows[i]] = v]
      /\ chosen' = [chosen EXCEPT ![sheetRows[i]] = v]
  <2>1. i <= Len(sheetRows)
    BY DEF SheetInv, SheetType
  <2>2. QED
    BY <2>1 DEF Sheet!setData
<1>2. v \in Values
  BY DEF Values
<1>3. pending' \in [Range(Settings) -> Values] /\ chosen' \in [Range(Settings) -> Values]
  BY <1>1, <1>2 DEF SheetInv, SheetType
<1>4. QED
  BY <1>1, <1>3 DEF SheetInv, SheetType

(* A write: parser and file get the same value, or the write has failed.   *)
LEMMA SettingTimeoutInv ==
  ASSUME SheetInv, NEW s \in Range(Settings), NEW outcome \in {"written", "unloaded", "unsynced"},
         Sheet!SettingTimeout(s, outcome)
  PROVE  SheetInv' /\ denied' = denied
<1> DEFINE created == IF file = <<>> THEN [id \in Range(Settings) |-> NoValue] ELSE file
           changed == [(IF parser = <<>> THEN created ELSE parser) EXCEPT ![s] = pending[s]]
<1>1. /\ UNCHANGED <<denied, sheetRows, kids, kidRows, stale, childrenDirty, saved, known, chosen>>
      /\ pending' = [pending EXCEPT ![s] = NoValue]
      /\ spoiled' = (spoiled \/ outcome # "written")
  BY DEF Sheet!SettingTimeout
<1>2. \/ outcome = "written" /\ parser' = changed /\ file' = changed
      \/ outcome # "written" /\ parser' \in {parser, changed} /\ file' = created
  <2>1. CASE outcome = "written"
    BY <2>1, SheetOperators DEF Sheet!SettingTimeout, Sheet!NoFile, Sheet!EmptyFile
  <2>2. CASE outcome = "unloaded"
    BY <2>2, SheetOperators DEF Sheet!SettingTimeout, Sheet!NoFile, Sheet!EmptyFile
  <2>3. CASE outcome = "unsynced"
    BY <2>3, SheetOperators DEF Sheet!SettingTimeout, Sheet!NoFile, Sheet!EmptyFile
  <2>4. QED
    BY <2>1, <2>2, <2>3
<1>3. created \in [Range(Settings) -> Values] /\ changed \in [Range(Settings) -> Values]
  <2>1. created \in [Range(Settings) -> Values]
    BY DEF SheetInv, SheetType, Values
  <2>2. (IF parser = <<>> THEN created ELSE parser) \in [Range(Settings) -> Values]
    BY <2>1 DEF SheetInv, SheetType
  <2>3. pending[s] \in Values
    BY DEF SheetInv, SheetType
  <2>4. QED
    BY <2>1, <2>2, <2>3
<1> HIDE DEF created, changed
<1>4. pending' \in [Range(Settings) -> Values]
  BY <1>1 DEF SheetInv, SheetType, Values
<1>5. spoiled' \in BOOLEAN
  BY <1>1 DEF SheetInv, SheetType
<1>6. SheetType'
  BY <1>1, <1>2, <1>3, <1>4, <1>5 DEF SheetInv, SheetType
<1>7. parser' # <<>> /\ ~spoiled' => parser' = file'
  BY <1>1, <1>2
<1>8. QED
  BY <1>1, <1>6, <1>7 DEF SheetInv

(* A page that may send the location has the access, and its setting is    *)
(* not off in the file.                                                    *)
LEMMA WillingHasConsent ==
  ASSUME SheetInv, NEW p, Willing(p)
  PROVE  p = Owner /\ ~denied /\ (file # <<>> => file[LocationRow] # FALSE \/ spoiled)
<1>1. p = Owner /\ Sheet!value(LocationRow) = TRUE
  BY DEF Willing
<1>2. LocationRow \notin Range(kidRows)
  BY DEF SheetInv, SheetType, Range
<1>3. LocationRow \in Range(sheetRows) /\ Sheet!StoredValue(LocationRow) = TRUE
  BY <1>1, <1>2, SheetOperators, SheetAssumption DEF Sheet!value
<1>4. ~denied
  BY <1>3 DEF SheetInv
<1>5. ASSUME file # <<>>, ~spoiled PROVE file[LocationRow] # FALSE
  <2>1. Sheet!Loaded = file
    BY <1>5 DEF Sheet!Loaded, Sheet!NoFile, SheetInv
  <2>2. file[LocationRow] = NoValue \/ file[LocationRow] = TRUE
    BY <1>3, <1>5, <2>1 DEF Sheet!StoredValue, Sheet!NoFile
  <2>3. QED
    BY <2>2, SheetAssumption
<1>6. QED
  BY <1>1, <1>4, <1>5

Consent == Willing(Owner) => ~denied /\ (file # <<>> => file[LocationRow] # FALSE \/ spoiled)

LEMMA OwnerConsent == SheetInv => Consent
BY WillingHasConsent DEF Consent

LEMMA OwnerConsentNext == SheetInv' => Consent'
BY OwnerConsent, PTL

-----------------------------------------------------------------------------
(* The location and the sheet together.                                    *)

(* A search carries a location only with the consent that holds once the   *)
(* step is taken, and no page takes a token for a programmatic request     *)
(* before the prompt was shown.                                            *)
Consented ==
  \A p \in Pages : sent'[p] # sent[p] /\ sent'[p] # "none" =>
    p = Owner /\ ~denied' /\ (file' # <<>> => file'[LocationRow] # FALSE \/ spoiled)
Prompted == \A p \in tokens' \ tokens : dotFile \/ p \in direct'

LEMMA PageStepPrompted ==
  ASSUME NEW p, NEW willing, PageStep(p, willing)
  PROVE  Prompted
  BY DEF PageStep, Kept, Taken, GivenBack, Prompted

LEMMA PageNextStep ==
  ASSUME LocationInv, SheetInv, PageNext
  PROVE  (LocationInv /\ SheetInv)' /\ Consented /\ Prompted
<1>1. PICK p \in Pages, programmatic \in BOOLEAN :
        \/ SetActive(p, Willing(p))
        \/ Prepopulate(p, Willing(p))
        \/ InvalidateResults(p, programmatic, Willing(p))
  BY DEF PageNext
<1>2. PageStep(p, Willing(p))
  <2>1. CASE SetActive(p, Willing(p))
    BY <2>1, SetActiveStep
  <2>2. CASE Prepopulate(p, Willing(p))
    <3>1. PICK yes \in BOOLEAN : yes = TRUE
      OBVIOUS
    <3>2. /\ DispatchSearch(p, active[p], yes, Willing(p)) /\ Requests(p, yes)
          /\ UNCHANGED <<active, source, position>>
      BY <2>2, <3>1 DEF Prepopulate
    <3>3. QED
      BY <3>2, SearchingStep
  <2>3. CASE InvalidateResults(p, programmatic, Willing(p))
    BY <2>3, InvalidateResultsStep
  <2>4. QED
    BY <1>1, <2>1, <2>2, <2>3
<1>3. UNCHANGED sheetVars /\ denied' = denied
  BY <1>2 DEF PageNext, PageStep, position
<1>4. SheetInv'
  BY <1>3 DEF SheetInv, SheetType, sheetVars
<1>5. Consented
  <2>1. \A q \in Pages : sent'[q] # sent[q] /\ sent'[q] # "none" => q = p /\ Willing(p)
    BY <1>2 DEF PageStep
  <2>2. Willing(p) => p = Owner /\ ~denied /\ (file # <<>> => file[LocationRow] # FALSE \/ spoiled)
    BY WillingHasConsent
  <2>3. QED
    BY <1>3, <2>1, <2>2 DEF Consented, sheetVars
<1>6. QED
  BY <1>2, <1>4, <1>5, PagesInv, PageStepPrompted

LEMMA AnswerStep ==
  ASSUME LocationInv, SheetInv, Answer
  PROVE  (LocationInv /\ SheetInv)' /\ Consented /\ Prompted
<1>1. LocationInv' /\ UNCHANGED <<pages, tokens>>
  BY AnswerInv DEF Answer
<1>2. SheetInv'
  <2>1. CASE denied' # denied
    BY <2>1, AccessChangedInv DEF Answer, LocationInv, LocationType
  <2>2. CASE denied' = denied
    BY <2>2 DEF Answer, SheetInv, SheetType, sheetVars
  <2>3. QED
    BY <2>1, <2>2
<1>3. QED
  BY <1>1, <1>2 DEF Consented, Prompted, pages

LEMMA SheetEditedStep ==
  ASSUME LocationInv, SheetInv, SheetEdited
  PROVE  (LocationInv /\ SheetInv)' /\ Consented /\ Prompted
<1>1. SheetInv' /\ UNCHANGED locationVars
  BY SetDataInv DEF SheetEdited
<1>2. LocationInv'
  BY <1>1 DEF LocationInv, LocationType, CountFollows, SessionRuns, DirtyIsDirect, locationVars, pages,
              source, position
<1>3. QED
  BY <1>1, <1>2 DEF Consented, Prompted, locationVars, pages

LEMMA SheetWrittenStep ==
  ASSUME LocationInv, SheetInv, NEW s \in Range(Settings),
         NEW outcome \in {"written", "unloaded", "unsynced"}, SheetWritten(s, outcome)
  PROVE  (LocationInv /\ SheetInv)' /\ Consented /\ Prompted
<1>1. SheetInv' /\ denied' = denied
  BY SettingTimeoutInv DEF SheetWritten
<1>2. CASE outcome = "written"
  <2>1. PICK no \in BOOLEAN : no = FALSE
    OBVIOUS
  <2>2. InvalidateResults(Owner, no, Willing(Owner)')
    BY <1>2, <2>1 DEF SheetWritten
  <2>3. PageStep(Owner, Willing(Owner)')
    BY <2>2, OwnerAssumption, InvalidateResultsStep
  <2>4. Willing(Owner)' => ~denied' /\ (file' # <<>> => file'[LocationRow] # FALSE \/ spoiled')
    BY <1>1, OwnerConsentNext DEF Consent
  <2>5. spoiled' => spoiled
    BY <1>2 DEF SheetWritten, Sheet!SettingTimeout
  <2>6. Consented
    BY <2>3, <2>4, <2>5 DEF PageStep, Consented
  <2>7. QED
    BY <1>1, <2>3, <2>6, OwnerAssumption, PagesInv, PageStepPrompted
<1>3. CASE outcome # "written"
  <2>1. UNCHANGED locationVars
    BY <1>3 DEF SheetWritten
  <2>2. LocationInv'
    BY <2>1 DEF LocationInv, LocationType, CountFollows, SessionRuns, DirtyIsDirect, locationVars, pages,
                source, position
  <2>3. QED
    BY <1>1, <2>1, <2>2 DEF Consented, Prompted, locationVars, pages
<1>4. QED
  BY <1>2, <1>3

LEMMA LocatedStep ==
  LocationInv /\ SheetInv /\ [LocatedNext]_locatedVars
    => (LocationInv /\ SheetInv)' /\ Consented /\ Prompted
<1> SUFFICES ASSUME LocationInv, SheetInv, [LocatedNext]_locatedVars
             PROVE  (LocationInv /\ SheetInv)' /\ Consented /\ Prompted
  OBVIOUS
<1>1. CASE PageNext
  BY <1>1, PageNextStep
<1>2. CASE Answer
  BY <1>2, AnswerStep
<1>3. CASE SheetEdited
  BY <1>3, SheetEditedStep
<1>4. CASE ServiceNext /\ UNCHANGED sheetVars
  <2>1. LocationInv' /\ UNCHANGED <<pages, tokens, denied>>
    BY <1>4, ServiceInv
  <2>2. SheetInv'
    BY <1>4, <2>1 DEF SheetInv, SheetType, sheetVars
  <2>3. QED
    BY <2>1, <2>2 DEF Consented, Prompted, pages
<1>5. ASSUME NEW s \in Range(Settings), NEW outcome \in {"written", "unloaded", "unsynced"},
             SheetWritten(s, outcome)
      PROVE  (LocationInv /\ SheetInv)' /\ Consented /\ Prompted
  BY <1>5, SheetWrittenStep
<1>6. CASE UNCHANGED locatedVars
  <2>1. UNCHANGED <<locationVars, sheetVars>>
    BY <1>6 DEF locatedVars
  <2>2. LocationInv'
    BY <2>1 DEF LocationInv, LocationType, CountFollows, SessionRuns, DirtyIsDirect, locationVars, pages,
                source, position
  <2>3. SheetInv'
    BY <2>1 DEF SheetInv, SheetType, sheetVars, locationVars, position
  <2>4. QED
    BY <2>1, <2>2, <2>3 DEF Consented, Prompted, locationVars, pages
<1>7. QED
  BY <1>1, <1>2, <1>3, <1>4, <1>5, <1>6 DEF LocatedNext

(* The service keeps its invariant: whatever part of the queued calls is   *)
(* handled, the count is one of tokens, and the session runs while it is   *)
(* positive or the stop timer runs (ubuntulocationservice.cpp:100-232).    *)
THEOREM LocationInvariant == LocatedSpec => [](LocationInv /\ SheetInv)
<1>1. LocatedInit => LocationInv /\ SheetInv
  BY LocationInitInv, SheetInitInv DEF LocatedInit
<1>2. QED
  BY <1>1, LocatedStep, PTL DEF LocatedSpec

LEMMA EventsCount ==
  ASSUME LocationType
  PROVE  Net(count, queue, Len(queue)) = count + Events("activate") - Events("deactivate")
  BY DEF Net, Of, Events

LEMMA LocationTypeOKHolds == LocationInv => LocationTypeOK
<1> SUFFICES ASSUME LocationInv PROVE LocationTypeOK
  OBVIOUS
<1>1. LocationType
  BY DEF LocationInv
<1>2. Range(queue) \subseteq {"activate", "deactivate"}
  BY <1>1, LenProperties DEF LocationType, Range, Moves
<1>3. count \in 0 .. Cardinality(Pages)
  <2>1. 0 \in 0 .. Len(queue) /\ count \in Int
    BY <1>1, LenProperties DEF LocationType
  <2>2. Net(count, queue, 0) = count
    BY <2>1, NetProperties
  <2>3. QED
    BY <2>1, <2>2 DEF LocationInv, CountFollows
<1>4. {session, stopTimer, updating, requested, geoTimer, geoRunning, geo, located, dotFile, denied}
        \subseteq BOOLEAN
  BY <1>1 DEF LocationType
<1>5. sent \in [Pages -> {"none", "approximate", "exact"}]
  BY <1>1 DEF LocationType, Fixes
<1>6. QED
  BY <1>1, <1>2, <1>3, <1>4, <1>5 DEF LocationTypeOK, LocationType

LEMMA SheetTypeOKHolds == LocationInv /\ SheetInv => Sheet!SheetTypeOK
<1> SUFFICES ASSUME LocationInv, SheetInv PROVE Sheet!SheetTypeOK
  OBVIOUS
<1>1. SheetType /\ denied \in BOOLEAN
  BY DEF SheetInv, LocationInv, LocationType
<1>2. Range(sheetRows) \subseteq Range(Settings)
  BY <1>1, LenProperties DEF SheetType, Range
<1>3. Sheet!IsInjective(Sheet!IdsOf(saved))
  BY <1>1, NoKids DEF SheetType, Sheet!IsInjective
<1>4. <<>> \in Seq(Sheet!Kids) /\ <<>> \in Seq({})
  OBVIOUS
<1>5. {denied, stale, childrenDirty, spoiled} \subseteq BOOLEAN
  BY <1>1 DEF SheetType
<1>6. kids = <<>> /\ kidRows = <<>> /\ saved = <<>> /\ known = {}
  BY <1>1 DEF SheetType
<1>7. /\ parser \in [Range(Settings) -> Values] \cup {Sheet!NoFile}
      /\ file \in [Range(Settings) -> Values] \cup {Sheet!NoFile}
      /\ pending \in [Range(Settings) -> Values] /\ chosen \in [Range(Settings) -> Values]
  BY <1>1 DEF SheetType, Sheet!NoFile
<1>8. kids \in Seq(Sheet!Kids) /\ kidRows \in Seq({}) /\ saved \in Seq(Sheet!Kids) /\ known \subseteq {}
  BY <1>4, <1>6
<1>9. QED
  BY <1>2, <1>3, <1>5, <1>7, <1>8, SheetOperators DEF Sheet!SheetTypeOK

(* The phone is located for the pages that hold a token, and for no longer *)
(* than the delay after the last one; every variable of the service and of *)
(* the sheet keeps its type.  For any pages, settings and bounds           *)
(* (ubuntulocationservice.cpp:100-232).                                    *)
THEOREM LocationFollowsTokensAlways == LocatedSpec => []LocationFollowsTokens
<1>1. LocationInv => SessionFollowsTokens
  <2> SUFFICES ASSUME LocationInv PROVE SessionFollowsTokens
    OBVIOUS
  <2>1. count + Events("activate") - Events("deactivate") = Cardinality(tokens)
    BY EventsCount DEF LocationInv, CountFollows
  <2>2. Events("activate") \in Nat /\ Events("deactivate") \in Nat /\ count \in Nat
    <3>1. Len(queue) \in Nat /\ count \in Nat
      BY LenProperties DEF LocationInv, LocationType
    <3>2. \A x : Events(x) = Of(queue, x, Len(queue))
      BY DEF Events, Of
    <3>3. \A x : Of(queue, x, Len(queue)) \in Nat
      BY <3>1, OfProperties
    <3>4. QED
      BY <3>1, <3>2, <3>3
  <2>3. Cardinality(tokens) \in Nat
    BY TokensFinite DEF LocationInv, LocationType
  <2>4. count = Cardinality(tokens) + Events("deactivate") - Events("activate")
    BY <2>1, <2>2, <2>3
  <2>5. tokens \subseteq {p \in Pages : active[p]}
    BY DEF LocationInv, LocationType, SessionRuns
  <2>6. session = updating
    BY DEF LocationInv, LocationType, SessionRuns
  <2>7. QED
    BY <2>4, <2>5, <2>6 DEF LocationInv, SessionRuns, SessionFollowsTokens
<1>2. LocationInv /\ SheetInv => LocationFollowsTokens
  BY <1>1, LocationTypeOKHolds, SheetTypeOKHolds DEF LocationFollowsTokens, LocatedTypeOK
<1>3. QED
  BY <1>2, LocationInvariant, PTL

(* Before the prompt was shown, the search with which a page takes a token *)
(* comes from a request that was not programmatic, whatever was requested  *)
(* while the page was not active (scope.cpp:743-751, 1320-1339).           *)
THEOREM NoProgrammaticPromptAlways == LocatedSpec => NoProgrammaticPrompt
<1>1. LocationInv /\ SheetInv /\ [LocatedNext]_locatedVars
        => [\A p \in tokens' \ tokens : dotFile \/ p \in direct']_locationVars
  BY LocatedStep DEF Prompted
<1>2. QED
  BY <1>1, LocationInvariant, PTL DEF LocatedSpec, NoProgrammaticPrompt

(* A search carries a location only while the system grants the access and *)
(* the setting is not off in the file (scope.cpp:739-778).                 *)
THEOREM LocationNeedsConsentAlways == LocatedSpec => LocationNeedsConsent
<1>1. LocationInv /\ SheetInv /\ [LocatedNext]_locatedVars
        => [\A p \in Pages : sent'[p] # sent[p] /\ sent'[p] # "none" =>
              p = Owner /\ ~denied' /\ (file' # <<>> => file'[LocationRow] # FALSE \/ spoiled)]_locatedVars
  BY LocatedStep DEF Consented
<1>2. QED
  BY <1>1, LocationInvariant, PTL DEF LocatedSpec, LocationNeedsConsent

-----------------------------------------------------------------------------
(* What the handlers do to the query that waits.                           *)

Fields == {"cached", "favs", "stored", "wrote", "rows", "temps", "shown", "delayed", "stuck"}
IsState(p) == DOMAIN p = Fields
Keeps(q, p) == IsState(q) /\ q.delayed = p.delayed

LEMMA StateKeeps ==
  /\ Keeps(State, State) /\ State.delayed = delayed
  /\ \A x : Keeps([State EXCEPT !.cached = x], State)
BY DEF State, Keeps, IsState, Fields

LEMMA StoreKeeps ==
  ASSUME NEW p, IsState(p), NEW s
  PROVE  Keeps(Store(p, s), p)
BY DEF Store, Keeps, IsState, Fields

LEMMA ProcessFavoriteScopesKeeps ==
  ASSUME NEW p, IsState(p)
  PROVE  Keeps(ProcessFavoriteScopes(p), p)
<1> DEFINE all  == ListedFavorites(p)
           loop == FollowFavorites(p.rows, all)
           base == IF all # p.favs THEN Store(p, all) ELSE p
<1>1. ProcessFavoriteScopes(p) = [base EXCEPT !.rows = loop.s, !.stuck = p.stuck \/ loop.i <= Len(loop.s)]
  BY Zenon DEF ProcessFavoriteScopes
<1>2. Keeps(base, p)
  BY StoreKeeps DEF Keeps
<1>3. PICK r, x : ProcessFavoriteScopes(p) = [base EXCEPT !.rows = r, !.stuck = x]
  BY <1>1, Zenon
<1> HIDE DEF base
<1>4. QED
  BY <1>2, <1>3 DEF Keeps, IsState, Fields

LEMMA UpdateOverviewKeeps ==
  ASSUME NEW p, IsState(p)
  PROVE  Keeps(UpdateOverview(p), p)
<1>1. PICK x : UpdateOverview(p) = [p EXCEPT !.shown = x]
  BY DEF UpdateOverview
<1>2. QED
  BY <1>1 DEF Keeps, IsState, Fields

LEMMA FindScopeKeeps ==
  ASSUME NEW p, IsState(p), NEW id
  PROVE  Keeps(FindScope(p, id), p)
<1>1. FindScope(p, id) = p \/ \E x : FindScope(p, id) = [p EXCEPT !.temps = x]
  BY DEF FindScope
<1>2. QED
  BY <1>1 DEF Keeps, IsState, Fields

(* A listing that ends leaves no query waiting.                            *)
LEMMA MetadataRefreshedEnds ==
  ASSUME NEW p, IsState(p)
  PROVE  MetadataRefreshed(ProcessFavoriteScopes(p)).delayed = NoScope
<1>1. PICK q : q = UpdateOverview(ProcessFavoriteScopes(p))
  OBVIOUS
<1>2. IsState(q)
  BY <1>1, ProcessFavoriteScopesKeeps, UpdateOverviewKeeps DEF Keeps
<1>3. IsState(FindScope(q, q.delayed))
  BY <1>2, FindScopeKeeps DEF Keeps
<1>4. MetadataRefreshed(ProcessFavoriteScopes(p)) =
        [FindScope(UpdateOverview(ProcessFavoriteScopes(p)), ProcessFavoriteScopes(p).delayed) EXCEPT !.delayed = NoScope]
  BY ProcessFavoriteScopesKeeps, UpdateOverviewKeeps DEF MetadataRefreshed, Keeps
<1>5. IsState(FindScope(q, ProcessFavoriteScopes(p).delayed))
  BY <1>2, FindScopeKeeps DEF Keeps
<1>6. QED
  BY <1>1, <1>4, <1>5 DEF IsState, Fields

LEMMA SetFavoriteKeeps ==
  ASSUME NEW p, IsState(p), NEW id, NEW value
  PROVE  Keeps(SetFavorite(p, id, value), p)
<1>1. Keeps(KeepFavorite(p, id), p) /\ Keeps(DropFavorite(p, id), p)
  BY StoreKeeps DEF KeepFavorite, DropFavorite
<1>2. \A q, x : Keeps(q, p) => Keeps([q EXCEPT !.rows = x], p)
  BY DEF Keeps, IsState, Fields
<1>3. \/ SetFavorite(p, id, value) = p
      \/ \E x : SetFavorite(p, id, value) = [KeepFavorite(p, id) EXCEPT !.rows = x]
      \/ \E x : SetFavorite(p, id, value) = [DropFavorite(p, id) EXCEPT !.rows = x]
  BY DEF SetFavorite
<1>4. Keeps(p, p)
  BY DEF Keeps
<1>5. QED
  BY <1>1, <1>2, <1>3, <1>4

-----------------------------------------------------------------------------
(* A query that waits has a listing on its way; once the scopes are loaded *)
(* no listing is the discovery, whose end would leave the query alone.     *)
ListingInv ==
  /\ installed \in SUBSET Ids /\ listing \in Listings
  /\ WaitingQueriesAreListed
  /\ phase = "loaded" => listing.kind # "discovery"

LEMMA ListingInit == Init => ListingInv
BY IdsAssumption DEF Init, ListingInv, Listings, NoListing, WaitingQueriesAreListed

(* Handlers that leave the listing, the phase and the query alone.         *)
QueryUntouched == UNCHANGED <<installed, phase, listing, delayed>>

LEMMA QueryUntouchedInv == ListingInv /\ QueryUntouched => ListingInv'
BY DEF ListingInv, QueryUntouched, WaitingQueriesAreListed

LEMMA FavoritesLeaveQuery ==
  /\ DashSettingsChanged => QueryUntouched
  /\ \A i, b : SetFavoriteOfRow(i, b) => QueryUntouched
  /\ \A id, b : SetFavoriteOfTemp(id, b) => QueryUntouched
  /\ \A id : SetFavoriteOfOverview(id) => QueryUntouched
  /\ \A id, pos : MoveFavoriteTo(id, pos) => QueryUntouched
  /\ \A id : CloseScope(id) => QueryUntouched
<1>1. \A p : IsState(p) /\ p.delayed = delayed /\ SetState(p) /\ UNCHANGED <<installed, phase, listing>> => QueryUntouched
  BY DEF SetState, QueryUntouched
<1>2. IsState(State) /\ State.delayed = delayed
  BY DEF State, IsState, Fields
<1>3. ASSUME DashSettingsChanged PROVE QueryUntouched
  <2>1. Keeps(ReadFavorites(State), State)
    BY <1>2 DEF ReadFavorites, Keeps, IsState, Fields
  <2>2. Keeps(FavoritesChanged(ReadFavorites(State)), State)
    BY <2>1, ProcessFavoriteScopesKeeps, UpdateOverviewKeeps DEF FavoritesChanged, Keeps
  <2>3. QED
    BY <1>1, <1>2, <1>3, <2>2 DEF DashSettingsChanged, Keeps
<1>4. ASSUME NEW i, NEW b, SetFavoriteOfRow(i, b) PROVE QueryUntouched
  <2>1. PICK q : q = [State EXCEPT !.rows[i].favorite = b]
    OBVIOUS
  <2>2. Keeps(q, State)
    BY <1>2, <2>1 DEF Keeps, IsState, Fields
  <2>3. Keeps(SetFavorite(q, rows[i].id, b), State)
    BY <2>2, SetFavoriteKeeps DEF Keeps
  <2>4. QED
    BY <1>1, <1>2, <1>4, <2>1, <2>3 DEF SetFavoriteOfRow, Keeps
<1>5. ASSUME NEW id, NEW b, SetFavoriteOfTemp(id, b) PROVE QueryUntouched
  <2>1. PICK q : q = [State EXCEPT !.temps[id] = b]
    OBVIOUS
  <2>2. Keeps(q, State)
    BY <1>2, <2>1 DEF Keeps, IsState, Fields
  <2>3. Keeps(SetFavorite(q, id, b), State)
    BY <2>2, SetFavoriteKeeps DEF Keeps
  <2>4. QED
    BY <1>1, <1>2, <1>5, <2>1, <2>3 DEF SetFavoriteOfTemp, Keeps
<1>6. ASSUME NEW id, SetFavoriteOfOverview(id) PROVE QueryUntouched
  <2>1. PICK value : value = ~Has(shown.favorites, id)
    OBVIOUS
  <2>2. Keeps(SetFavorite(State, id, ~Has(shown.favorites, id)), State)
    BY <1>2, SetFavoriteKeeps
  <2>3. SetState(SetFavorite(State, id, ~Has(shown.favorites, id))) /\ UNCHANGED <<installed, phase, listing>>
    BY <1>6 DEF SetFavoriteOfOverview
  <2>4. QED
    BY <1>1, <1>2, <2>2, <2>3 DEF Keeps
<1>7. ASSUME NEW id, NEW pos, MoveFavoriteTo(id, pos) PROVE QueryUntouched
  <2>1. PICK s, r, x : SetState([Store(State, s) EXCEPT !.rows = r, !.stuck = x])
    BY <1>7, Zenon DEF MoveFavoriteTo
  <2>2. Keeps(Store(State, s), State)
    BY <1>2, StoreKeeps
  <2>3. IsState([Store(State, s) EXCEPT !.rows = r, !.stuck = x])
          /\ [Store(State, s) EXCEPT !.rows = r, !.stuck = x].delayed = delayed
    BY <1>2, <2>2 DEF Keeps, IsState, Fields
  <2>4. UNCHANGED <<installed, phase, listing>>
    BY <1>7 DEF MoveFavoriteTo
  <2>5. QED
    BY <1>1, <2>1, <2>3, <2>4
<1>8. ASSUME NEW id, CloseScope(id) PROVE QueryUntouched
  <2>1. PICK x : SetState([State EXCEPT !.temps = x])
    BY <1>8, Zenon DEF CloseScope
  <2>2. IsState([State EXCEPT !.temps = x]) /\ [State EXCEPT !.temps = x].delayed = delayed
    BY <1>2 DEF IsState, Fields
  <2>3. QED
    BY <1>1, <1>8, <2>1, <2>2 DEF CloseScope
<1>9. QED
  BY <1>3, <1>4, <1>5, <1>6, <1>7, <1>8

LEMMA ExecuteCannedQueryInv ==
  ASSUME ListingInv, NEW id \in Ids, ExecuteCannedQuery(id)
  PROVE  ListingInv'
<1>1. IsState(State) /\ State.delayed = delayed
  BY DEF State, IsState, Fields
<1>2. phase = "loaded" /\ UNCHANGED <<installed, phase>>
  BY DEF ExecuteCannedQuery, Command
<1>3. CASE Has(IdsOf(rows), id) \/ id \in cached
  <2>1. FindScope(State, id).delayed = delayed
    BY <1>1, FindScopeKeeps DEF Keeps
  <2>2. UNCHANGED <<listing, delayed>>
    BY <1>3, <2>1 DEF ExecuteCannedQuery, SetState
  <2>3. QED
    BY <1>2, <2>2, QueryUntouchedInv DEF QueryUntouched
<1>4. CASE ~(Has(IdsOf(rows), id) \/ id \in cached)
  <2>1. RefreshScopeMetadata
    BY <1>4 DEF ExecuteCannedQuery
  <2>2. listing' \in Listings /\ listing'.kind = "refresh"
    BY <1>2, <2>1 DEF RefreshScopeMetadata, StartListing, ListingInv, Listings, NoListing
  <2>3. QED
    BY <1>2, <2>2 DEF ListingInv, WaitingQueriesAreListed
<1>5. QED
  BY <1>3, <1>4

LEMMA ListingEndsInv ==
  ASSUME ListingInv, CompleteDiscoveryFinished \/ RefreshFinished
  PROVE  ListingInv'
<1>1. delayed' = NoScope
  <2>1. CASE CompleteDiscoveryFinished
    BY <2>1, StateKeeps, MetadataRefreshedEnds DEF CompleteDiscoveryFinished, SetState, Keeps
  <2>2. CASE RefreshFinished
    BY <2>2, StateKeeps, MetadataRefreshedEnds DEF RefreshFinished, SetState, Keeps
  <2>3. QED
    BY <2>1, <2>2
<1>2. listing' = NoListing /\ UNCHANGED installed
  BY DEF CompleteDiscoveryFinished, RefreshFinished
<1>3. QED
  BY <1>1, <1>2 DEF ListingInv, WaitingQueriesAreListed, NoListing, Listings

LEMMA ListingStep == ListingInv /\ [Next]_vars => ListingInv'
<1> SUFFICES ASSUME ListingInv, [Next]_vars PROVE ListingInv'
  OBVIOUS
<1>1. CASE PopulateScopes
  BY <1>1 DEF PopulateScopes, StartListing, ListingInv, Listings, NoListing, WaitingQueriesAreListed
<1>2. CASE CompleteDiscoveryFinished \/ RefreshFinished
  BY <1>2, ListingEndsInv
<1>3. CASE ScopeRegistryChanged
  <2>1. listing' \in Listings /\ listing'.kind \in {listing.kind, "refresh"} /\ UNCHANGED <<installed, phase, delayed>>
    BY <1>3 DEF ScopeRegistryChanged, RefreshScopeMetadata, StartListing, ListingInv, Listings, NoListing
  <2>2. QED
    BY <2>1 DEF ListingInv, WaitingQueriesAreListed
<1>4. ASSUME NEW b \in BOOLEAN, ScopeListWorkerRun(b) PROVE ListingInv'
  <2>1. listing' \in Listings /\ listing'.kind = listing.kind
    BY <1>4 DEF ScopeListWorkerRun, ListingInv, Listings
  <2>2. QED
    BY <1>4, <2>1 DEF ScopeListWorkerRun, ListingInv, WaitingQueriesAreListed
<1>5. ASSUME NEW b \in BOOLEAN, DiscoveryFinished(b) PROVE ListingInv'
  BY <1>5 DEF DiscoveryFinished, ListingInv, WaitingQueriesAreListed
<1>6. ASSUME NEW s \in OtherRegistries, RegistryChanges(s) PROVE ListingInv'
  BY <1>6, IdsAssumption DEF RegistryChanges, ListingInv, WaitingQueriesAreListed
<1>7. ASSUME NEW s, GSettingsChange(s) PROVE ListingInv'
  BY <1>7 DEF GSettingsChange, ListingInv, WaitingQueriesAreListed
<1>8. ASSUME NEW id \in Ids, ExecuteCannedQuery(id) PROVE ListingInv'
  BY <1>8, ExecuteCannedQueryInv
<1>9. CASE QueryUntouched
  BY <1>9, QueryUntouchedInv
<1>10. CASE UNCHANGED vars
  BY <1>10, QueryUntouchedInv DEF vars, QueryUntouched
<1>11. QED
  BY <1>1, <1>2, <1>3, <1>4, <1>5, <1>6, <1>7, <1>8, <1>9, <1>10, FavoritesLeaveQuery DEF Next

(* A canned query for an unknown scope always has a listing on its way, so *)
(* that its wait ends (scope.cpp:254-337, scopes.cpp:534-553).             *)
THEOREM WaitingQueriesAreListedAlways == Spec => []WaitingQueriesAreListed
<1>1. ListingInv => WaitingQueriesAreListed
  BY DEF ListingInv
<1>2. QED
  BY ListingInit, ListingStep, <1>1, PTL DEF Spec

-----------------------------------------------------------------------------
(* The ids of a list of rows, whatever else a row has.                     *)

AreRows(S) == \A x \in S : x.id \in Ids

LEMMA IdsOfProperties ==
  ASSUME NEW S, AreRows(S), NEW s \in Seq(S)
  PROVE  /\ IdsOf(s) \in Seq(Ids) /\ Len(IdsOf(s)) = Len(s) /\ Len(s) \in Nat
         /\ \A i \in 1 .. Len(s) : IdsOf(s)[i] = s[i].id /\ s[i] \in S
<1>1. Len(s) \in Nat /\ \A i \in 1 .. Len(s) : s[i] \in S /\ s[i].id \in Ids
  BY LenProperties DEF AreRows
<1>2. QED
  BY <1>1 DEF IdsOf

LEMMA IdsOfInsertAt ==
  ASSUME NEW S, AreRows(S), NEW s \in Seq(S), NEW i \in 1 .. Len(s) + 1, NEW e \in S
  PROVE  IdsOf(InsertAt(s, i, e)) = InsertAt(IdsOf(s), i, e.id)
<1>1. /\ InsertAt(s, i, e) \in Seq(S) /\ Len(InsertAt(s, i, e)) = Len(s) + 1
      /\ IsInserted(InsertAt(s, i, e), s, i, e)
  BY InsertAtProperties
<1>2. PICK t : t = InsertAt(s, i, e)
  OBVIOUS
<1>3. Len(IdsOf(s)) = Len(s) /\ IdsOf(s) \in Seq(Ids) /\ e.id \in Ids /\ i \in 1 .. Len(IdsOf(s)) + 1
  BY IdsOfProperties DEF AreRows
<1>4. /\ InsertAt(IdsOf(s), i, e.id) \in Seq(Ids) /\ Len(InsertAt(IdsOf(s), i, e.id)) = Len(IdsOf(s)) + 1
      /\ IsInserted(InsertAt(IdsOf(s), i, e.id), IdsOf(s), i, e.id)
  BY <1>3, InsertAtProperties
<1>5. PICK u : u = InsertAt(IdsOf(s), i, e.id)
  OBVIOUS
<1>6. PICK k \in Seq(Ids) : k = IdsOf(s)
  BY <1>3
<1>7. Len(s) \in Nat /\ i \in Int /\ \A j \in 1 .. Len(s) : k[j] = s[j].id
  BY <1>6, IdsOfProperties
<1>8. PICK v \in Seq(Ids) : v = IdsOf(t)
  BY <1>1, <1>2, IdsOfProperties
<1>9. Len(v) = Len(s) + 1 /\ \A j \in 1 .. Len(s) + 1 : v[j] = t[j].id
  BY <1>1, <1>2, <1>8, IdsOfProperties
<1>10. ASSUME NEW j \in 1 .. Len(s) + 1 PROVE v[j] = u[j]
  <2>1. /\ t[j] = IF j < i THEN s[j] ELSE IF j = i THEN e ELSE s[j - 1]
        /\ u[j] = IF j < i THEN k[j] ELSE IF j = i THEN e.id ELSE k[j - 1]
    <3>1. /\ IsInserted(t, s, i, e) /\ IsInserted(u, k, i, e.id) /\ Len(k) = Len(s)
      BY <1>1, <1>2, <1>3, <1>4, <1>5, <1>6
    <3>2. QED
      BY <3>1 DEF IsInserted
  <2>2. CASE j < i
    <3>1. j \in 1 .. Len(s)
      BY <1>7, <2>2
    <3>2. QED
      BY <1>7, <1>9, <2>1, <2>2, <3>1
  <2>3. CASE j = i
    BY <1>7, <1>9, <2>1, <2>3
  <2>4. CASE j > i
    <3>1. j - 1 \in 1 .. Len(s) /\ ~(j < i) /\ j # i
      BY <1>7, <2>4
    <3>2. QED
      BY <1>7, <1>9, <2>1, <3>1
  <2>5. QED
    BY <1>7, <2>2, <2>3, <2>4
<1>11. u \in Seq(Ids) /\ Len(u) = Len(v)
  BY <1>3, <1>4, <1>5, <1>9
<1>12. v = u
  BY <1>9, <1>10, <1>11, SeqEqual
<1>13. QED
  BY <1>2, <1>5, <1>8, <1>12

LEMMA IdsOfRemoveAt ==
  ASSUME NEW S, AreRows(S), NEW s \in Seq(S), NEW i \in 1 .. Len(s)
  PROVE  IdsOf(RemoveAt(s, i)) = RemoveAt(IdsOf(s), i)
<1>1. PICK t : t = RemoveAt(s, i)
  OBVIOUS
<1>2. PICK k \in Seq(Ids) : k = IdsOf(s)
  BY IdsOfProperties
<1>3. PICK u : u = RemoveAt(k, i)
  OBVIOUS
<1>4. /\ Len(k) = Len(s) /\ Len(s) \in Nat /\ i \in Int
      /\ \A j \in 1 .. Len(s) : k[j] = s[j].id
  BY <1>2, IdsOfProperties
<1>5. /\ t \in Seq(S) /\ Len(t) = Len(s) - 1
      /\ \A j \in 1 .. Len(s) - 1 : t[j] = IF j < i THEN s[j] ELSE s[j + 1]
  BY <1>1, RemoveAtProperties
<1>6. /\ u \in Seq(Ids) /\ Len(u) = Len(s) - 1
      /\ \A j \in 1 .. Len(s) - 1 : u[j] = IF j < i THEN k[j] ELSE k[j + 1]
  <2>1. i \in 1 .. Len(k)
    BY <1>4
  <2>2. /\ RemoveAt(k, i) \in Seq(Ids) /\ Len(RemoveAt(k, i)) = Len(k) - 1
        /\ \A j \in 1 .. Len(k) - 1 : RemoveAt(k, i)[j] = IF j < i THEN k[j] ELSE k[j + 1]
    BY <2>1, RemoveAtProperties
  <2>3. QED
    BY <1>3, <1>4, <2>2
<1>7. PICK v \in Seq(Ids) : v = IdsOf(t)
  BY <1>5, IdsOfProperties
<1>8. Len(v) = Len(s) - 1 /\ \A j \in 1 .. Len(s) - 1 : v[j] = t[j].id
  BY <1>5, <1>7, IdsOfProperties
<1>9. ASSUME NEW j \in 1 .. Len(s) - 1 PROVE v[j] = u[j]
  <2>1. j \in 1 .. Len(s) /\ j + 1 \in 1 .. Len(s)
    BY <1>4
  <2>2. v[j] = t[j].id /\ k[j] = s[j].id /\ k[j + 1] = s[j + 1].id
    BY <1>4, <1>8, <2>1
  <2>3. QED
    BY <1>5, <1>6, <2>2
<1>10. v = u
  BY <1>6, <1>8, <1>9, SeqEqual
<1>11. QED
  BY <1>1, <1>2, <1>3, <1>7, <1>10

LEMMA IdsOfMovedTo ==
  ASSUME NEW S, AreRows(S), NEW s \in Seq(S), NEW from \in 1 .. Len(s), NEW to \in 1 .. Len(s)
  PROVE  /\ MovedTo(s, from, to) \in Seq(S) /\ Len(MovedTo(s, from, to)) = Len(s)
         /\ IdsOf(MovedTo(s, from, to)) = MovedTo(IdsOf(s), from, to)
<1>1. PICK r : r = RemoveAt(s, from)
  OBVIOUS
<1>2. r \in Seq(S) /\ Len(r) = Len(s) - 1 /\ Len(s) \in Nat
  BY <1>1, RemoveAtProperties, LenProperties
<1>3. PICK e \in S : e = s[from]
  BY LenProperties
<1>4. to \in 1 .. Len(r) + 1
  BY <1>2
<1>5. /\ InsertAt(r, to, e) \in Seq(S) /\ Len(InsertAt(r, to, e)) = Len(r) + 1
      /\ IdsOf(InsertAt(r, to, e)) = InsertAt(IdsOf(r), to, e.id)
  <2>1. /\ InsertAt(r, to, e) \in Seq(S) /\ Len(InsertAt(r, to, e)) = Len(r) + 1
    BY <1>2, <1>4, InsertAtProperties
  <2>2. QED
    BY <1>2, <1>4, <2>1, IdsOfInsertAt
<1>6. IdsOf(r) = RemoveAt(IdsOf(s), from) /\ e.id = IdsOf(s)[from]
  BY <1>1, <1>3, IdsOfRemoveAt, IdsOfProperties
<1>7. MovedTo(s, from, to) = InsertAt(r, to, e)
  BY <1>1, <1>3 DEF MovedTo
<1>8. QED
  BY <1>2, <1>5, <1>6, <1>7 DEF MovedTo

LEMMA PositionProperties ==
  ASSUME NEW S, NEW s \in Seq(S), NEW id
  PROVE  /\ Has(s, id) <=> id \in Range(s)
         /\ id \in Range(s) => Position(s, id) \in 1 .. Len(s) /\ s[Position(s, id)] = id
         /\ id \notin Range(s) => Position(s, id) = 0
         /\ IsInjective(s) => \A i \in 1 .. Len(s) : s[i] = id => Position(s, id) = i
<1>1. /\ \A i \in 1 .. Len(s) : s[i] \in Range(s)
      /\ \A x \in Range(s) : \E i \in 1 .. Len(s) : s[i] = x
  BY RangeProperties
<1>2. Has(s, id) <=> id \in Range(s)
  BY <1>1 DEF Has
<1>3. id \in Range(s) => Position(s, id) \in 1 .. Len(s) /\ s[Position(s, id)] = id
  BY <1>1, <1>2 DEF Position
<1>4. id \notin Range(s) => Position(s, id) = 0
  BY <1>2 DEF Position
<1>5. ASSUME IsInjective(s), NEW i \in 1 .. Len(s), s[i] = id PROVE Position(s, id) = i
  BY <1>1, <1>3, <1>5, RangeProperties
<1>6. QED
  BY <1>2, <1>3, <1>4, <1>5

LEMMA InsertedProperties ==
  ASSUME NEW S, AreRows(S), NEW s \in Seq(S), NEW i \in Nat, i # 0, NEW e \in S
  PROVE  LET t == Inserted(s, i, e)
         IN  /\ t \in Seq(S) /\ Len(t) = Len(s) + 1
             /\ Range(IdsOf(t)) = Range(IdsOf(s)) \cup {e.id}
             /\ IsInjective(IdsOf(s)) /\ e.id \notin Range(IdsOf(s)) => IsInjective(IdsOf(t))
<1>1. Len(s) \in Nat
  BY LenProperties
<1>2. PICK p : p = IF i > Len(s) THEN Len(s) + 1 ELSE i
  OBVIOUS
<1>3. p \in 1 .. Len(s) + 1
  BY <1>1, <1>2
<1>4. Inserted(s, i, e) = InsertAt(s, p, e)
  BY <1>2 DEF Inserted
<1>5. /\ InsertAt(s, p, e) \in Seq(S) /\ Len(InsertAt(s, p, e)) = Len(s) + 1
      /\ IdsOf(InsertAt(s, p, e)) = InsertAt(IdsOf(s), p, e.id)
  <2>1. IdsOf(InsertAt(s, p, e)) = InsertAt(IdsOf(s), p, e.id)
    BY <1>3, IdsOfInsertAt
  <2>2. InsertAt(s, p, e) \in Seq(S) /\ Len(InsertAt(s, p, e)) = Len(s) + 1
    BY <1>3, InsertAtProperties
  <2>3. QED
    BY <2>1, <2>2
<1>6. IdsOf(s) \in Seq(Ids) /\ Len(IdsOf(s)) = Len(s) /\ e.id \in Ids
  BY IdsOfProperties DEF AreRows
<1>7. p \in 1 .. Len(IdsOf(s)) + 1
  BY <1>3, <1>6
<1>8. PICK id \in Ids : id = e.id
  BY <1>6
<1>9. /\ Range(InsertAt(IdsOf(s), p, id)) = Range(IdsOf(s)) \cup {id}
      /\ IsInjective(IdsOf(s)) /\ id \notin Range(IdsOf(s)) => IsInjective(InsertAt(IdsOf(s), p, id))
  BY <1>6, <1>7, InsertAtRange
<1>10. QED
  BY <1>4, <1>5, <1>8, <1>9

-----------------------------------------------------------------------------
(* New rows: the list gets the ids it lacks and keeps those it has.        *)

AreNew(new, ids, S) == \A x \in Range(ids) : new[x] \in S /\ new[x].id = x

MissingTurn(s, ids, new, up, k) ==
  IF k = 0 THEN s
  ELSE IF ids[k] \in Range(IdsOf(s)) THEN up[k - 1] ELSE Inserted(up[k - 1], k, new[ids[k]])

LEMMA InsertMissingExists ==
  ASSUME NEW S, AreRows(S), NEW s \in Seq(S), NEW ids \in Seq(Ids), NEW new, AreNew(new, ids, S)
  PROVE  \E g : g = [k \in 0 .. Len(ids) |-> MissingTurn(s, ids, new, g, k)]
<1> DEFINE V == Seq(S)
           step(n, v) == IF n + 1 \in 1 .. Len(ids) /\ ids[n + 1] \notin Range(IdsOf(s))
                         THEN Inserted(v, n + 1, new[ids[n + 1]]) ELSE v
           G == [n \in Nat |-> [v \in V |-> step(n, v)]]
<1>1. Len(ids) \in Nat /\ \A k \in 1 .. Len(ids) : new[ids[k]] \in S
  BY RangeProperties DEF AreNew
<1>2. ASSUME NEW n \in Nat, NEW v \in V PROVE step(n, v) \in V
  <2>1. CASE n + 1 \in 1 .. Len(ids) /\ ids[n + 1] \notin Range(IdsOf(s))
    <3>1. PICK k : k = n + 1
      OBVIOUS
    <3>2. k \in Nat /\ k # 0 /\ new[ids[k]] \in S
      BY <1>1, <2>1, <3>1
    <3>3. Inserted(v, k, new[ids[k]]) \in Seq(S)
      BY <3>2, InsertedProperties
    <3>4. QED
      BY <2>1, <3>1, <3>3
  <2>2. CASE ~(n + 1 \in 1 .. Len(ids) /\ ids[n + 1] \notin Range(IdsOf(s)))
    BY <2>2
  <2>3. QED
    BY <2>1, <2>2
<1> HIDE DEF step
<1>3. IsStep(V, G)
  BY <1>2 DEF IsStep
<1>4. \E f : Recursive(V, s, G, f)
  <2>1. s \in V
    OBVIOUS
  <2> HIDE DEF V, G
  <2>2. QED
    BY <1>3, <2>1, Recursion
<1>5. PICK f : f \in [Nat -> V] /\ f[0] = s /\ \A n \in Nat : f[n + 1] = step(n, f[n])
  BY <1>4 DEF Recursive
<1>6. PICK g : g = [k \in 0 .. Len(ids) |-> f[k]]
  OBVIOUS
<1>7. ASSUME NEW k \in 0 .. Len(ids) PROVE f[k] = MissingTurn(s, ids, new, g, k)
  <2>1. CASE k = 0
    BY <1>5, <2>1 DEF MissingTurn
  <2>2. CASE k # 0
    <3>1. PICK n \in Nat : k = n + 1 /\ n = k - 1 /\ n \in 0 .. Len(ids) /\ n + 1 \in 1 .. Len(ids)
      BY <1>1, <2>2
    <3>2. f[k] = step(n, f[n]) /\ g[n] = f[n]
      BY <1>5, <1>6, <3>1
    <3>3. QED
      BY <2>2, <3>1, <3>2 DEF MissingTurn, step
  <2>3. QED
    BY <2>1, <2>2
<1>8. g = [k \in 0 .. Len(ids) |-> MissingTurn(s, ids, new, g, k)]
  BY <1>6, <1>7
<1>9. QED
  BY <1>8

LEMMA InsertMissingDef ==
  ASSUME NEW S, AreRows(S), NEW s \in Seq(S), NEW ids \in Seq(Ids), NEW new, AreNew(new, ids, S)
  PROVE  \E g : /\ g = [k \in 0 .. Len(ids) |-> MissingTurn(s, ids, new, g, k)]
                /\ InsertMissing(s, ids, new) = g[Len(ids)]
<1>1. \E g : g = [k \in 0 .. Len(ids) |-> MissingTurn(s, ids, new, g, k)]
  BY InsertMissingExists
<1>2. QED
  BY <1>1 DEF InsertMissing, MissingTurn

LEMMA InsertMissingProperties ==
  ASSUME NEW S, AreRows(S), NEW s \in Seq(S), NEW ids \in Seq(Ids), IsInjective(ids),
         NEW new, AreNew(new, ids, S)
  PROVE  LET t == InsertMissing(s, ids, new)
         IN  /\ t \in Seq(S) /\ Range(IdsOf(t)) = Range(IdsOf(s)) \cup Range(ids)
             /\ IsInjective(IdsOf(s)) => IsInjective(IdsOf(t))
<1>1. PICK g : /\ g = [k \in 0 .. Len(ids) |-> MissingTurn(s, ids, new, g, k)]
               /\ InsertMissing(s, ids, new) = g[Len(ids)]
  BY InsertMissingDef
<1> DEFINE old == Range(IdsOf(s))
           first(k) == {ids[j] : j \in 1 .. k}
           Good(k) == /\ g[k] \in Seq(S) /\ Range(IdsOf(g[k])) = old \cup first(k)
                      /\ IsInjective(IdsOf(s)) => IsInjective(IdsOf(g[k]))
           T == {k \in Nat : k <= Len(ids) => Good(k)}
<1>2. /\ Len(ids) \in Nat /\ Range(ids) = first(Len(ids))
      /\ \A k \in 1 .. Len(ids) : new[ids[k]] \in S /\ new[ids[k]].id = ids[k]
      /\ \A i, j \in 1 .. Len(ids) : ids[i] = ids[j] => i = j
  <2>1. /\ Len(ids) \in Nat /\ \A k \in 1 .. Len(ids) : ids[k] \in Range(ids)
        /\ \A x \in Range(ids) : \E k \in 1 .. Len(ids) : ids[k] = x
        /\ \A i, j \in 1 .. Len(ids) : ids[i] = ids[j] => i = j
    BY RangeProperties
  <2>2. QED
    BY <2>1 DEF AreNew
<1>3. g[0] = s
  <2>1. 0 \in 0 .. Len(ids)
    BY <1>2
  <2>2. g[0] = MissingTurn(s, ids, new, g, 0)
    BY <1>1, <2>1
  <2>3. QED
    BY <2>2 DEF MissingTurn
<1>4. 0 \in T
  BY <1>3
<1>5. ASSUME NEW n \in Nat, n \in T PROVE n + 1 \in T
  <2>1. SUFFICES ASSUME n + 1 <= Len(ids) PROVE Good(n + 1)
    OBVIOUS
  <2>2. PICK k : k = n + 1
    OBVIOUS
  <2>3. k \in 1 .. Len(ids) /\ k \in 0 .. Len(ids) /\ k - 1 = n /\ k \in Nat /\ k # 0 /\ n <= Len(ids)
    BY <1>2, <2>1, <2>2
  <2>4. Good(n)
    BY <1>5, <2>3
  <2>5. g[k] = IF ids[k] \in old THEN g[n] ELSE Inserted(g[n], k, new[ids[k]])
    BY <1>1, <2>3 DEF MissingTurn
  <2>6. first(k) = first(n) \cup {ids[k]}
    <3>1. 1 .. k = 1 .. n \cup {k}
      BY <2>2, <2>3
    <3>2. QED
      BY <3>1
  <2>7. ids[k] \notin first(n)
    <3>1. ASSUME NEW j \in 1 .. n, ids[j] = ids[k] PROVE FALSE
      <4>1. j \in 1 .. Len(ids) /\ j # k
        BY <2>2, <2>3
      <4>2. QED
        BY <1>2, <2>3, <3>1, <4>1
    <3>2. QED
      BY <3>1
  <2> HIDE DEF old, first
  <2>8. CASE ids[k] \in old
    BY <2>2, <2>4, <2>5, <2>6, <2>8
  <2>9. CASE ids[k] \notin old
    <3>1. PICK e \in S : e = new[ids[k]] /\ e.id = ids[k]
      BY <1>2, <2>3
    <3>2. PICK v \in Seq(S) : v = g[n]
      BY <2>4
    <3>3. /\ Inserted(v, k, e) \in Seq(S)
          /\ Range(IdsOf(Inserted(v, k, e))) = Range(IdsOf(v)) \cup {e.id}
          /\ IsInjective(IdsOf(v)) /\ e.id \notin Range(IdsOf(v)) => IsInjective(IdsOf(Inserted(v, k, e)))
      BY <2>3, InsertedProperties
    <3>4. g[k] = Inserted(v, k, e)
      BY <2>5, <2>9, <3>1, <3>2
    <3>5. QED
      BY <2>2, <2>4, <2>6, <2>7, <2>9, <3>1, <3>2, <3>3, <3>4
  <2>10. QED
    BY <2>8, <2>9
<1> HIDE DEF T
<1>6. \A n \in Nat : n \in T
  BY <1>4, <1>5, SetInduction
<1>7. Good(Len(ids))
  <2>1. Len(ids) \in T /\ Len(ids) <= Len(ids)
    BY <1>2, <1>6
  <2> HIDE DEF Good
  <2>2. QED
    BY <2>1 DEF T
<1>8. QED
  BY <1>1, <1>2, <1>7

-----------------------------------------------------------------------------
(* The loop that moves rows ends: a row that comes home by its own move    *)
(* counts for more than all the rows before it.                            *)

Loops(S, ids) == {v \in [s : Seq(S), i : Nat \ {0}] : Len(ids) <= Len(v.s)}

LEMMA MoveRowType ==
  ASSUME NEW S, AreRows(S), NEW ids \in Seq(Ids), NEW v \in Loops(S, ids)
  PROVE  MoveRow(ids, v) \in Loops(S, ids)
<1>1. /\ v.s \in Seq(S) /\ v.i \in Nat \ {0} /\ Len(ids) <= Len(v.s)
      /\ Len(v.s) \in Nat /\ Len(ids) \in Nat
      /\ v \in [s : Seq(S), i : Nat \ {0}]
  BY LenProperties DEF Loops
<1>2. PICK pos : pos = Position(ids, v.s[v.i].id)
  OBVIOUS
<1>3. pos \in 0 .. Len(ids)
  <2>1. \A id : Position(ids, id) \in 0 .. Len(ids)
    <3> TAKE id
    <3>1. CASE id \in Range(ids)
      BY <1>1, <3>1, PositionProperties
    <3>2. CASE id \notin Range(ids)
      BY <1>1, <3>2, PositionProperties
    <3>3. QED
      BY <3>1, <3>2
  <2>2. QED
    BY <1>2, <2>1
<1>4. CASE v.i > Len(v.s)
  BY <1>4 DEF MoveRow
<1>5. CASE ~(v.i > Len(v.s)) /\ pos \in {0, v.i}
  <2>1. MoveRow(ids, v) = [v EXCEPT !.i = @ + 1]
    BY <1>2, <1>5 DEF MoveRow
  <2>2. QED
    BY <1>1, <2>1 DEF Loops
<1>6. CASE ~(v.i > Len(v.s)) /\ pos \notin {0, v.i}
  <2>1. MoveRow(ids, v) = [v EXCEPT !.s = MovedTo(v.s, v.i, pos)]
    BY <1>2, <1>6 DEF MoveRow
  <2>2. v.i \in 1 .. Len(v.s) /\ pos \in 1 .. Len(v.s)
    BY <1>1, <1>3, <1>6
  <2>3. MovedTo(v.s, v.i, pos) \in Seq(S) /\ Len(MovedTo(v.s, v.i, pos)) = Len(v.s)
    BY <1>1, <2>2, IdsOfMovedTo
  <2>4. QED
    BY <1>1, <2>1, <2>3 DEF Loops
<1>7. QED
  BY <1>4, <1>5, <1>6

MoveTurn(s, ids, turn, k) == IF k = 0 THEN [s |-> s, i |-> 1] ELSE MoveRow(ids, turn[k - 1])

LEMMA MoveRowsDef ==
  ASSUME NEW S, AreRows(S), NEW s \in Seq(S), NEW ids \in Seq(Ids), Len(ids) <= Len(s), NEW n \in Nat
  PROVE  \E g : /\ g = [k \in 0 .. n |-> MoveTurn(s, ids, g, k)]
                /\ MoveRows(s, ids, n) = g[n]
<1> DEFINE V == Loops(S, ids)
           G == [k \in Nat |-> [v \in V |-> MoveRow(ids, v)]]
           a == [s |-> s, i |-> 1]
<1>1. IsStep(V, G)
  BY MoveRowType DEF IsStep
<1>2. a \in V
  BY DEF Loops
<1>3. \E f : Recursive(V, a, G, f)
  <2> HIDE DEF V, G, a
  <2>1. QED
    BY <1>1, <1>2, Recursion
<1>4. PICK f : f \in [Nat -> V] /\ f[0] = a /\ \A k \in Nat : f[k + 1] = MoveRow(ids, f[k])
  BY <1>3 DEF Recursive
<1>5. PICK g : g = [k \in 0 .. n |-> f[k]]
  OBVIOUS
<1>6. ASSUME NEW k \in 0 .. n PROVE f[k] = MoveTurn(s, ids, g, k)
  <2>1. CASE k = 0
    BY <1>4, <2>1 DEF MoveTurn
  <2>2. CASE k # 0
    <3>1. PICK j \in Nat : k = j + 1 /\ j = k - 1 /\ j \in 0 .. n
      BY <2>2
    <3>2. f[k] = MoveRow(ids, f[j]) /\ g[j] = f[j]
      BY <1>4, <1>5, <3>1
    <3>3. QED
      BY <2>2, <3>1, <3>2 DEF MoveTurn
  <2>3. QED
    BY <2>1, <2>2
<1>7. g = [k \in 0 .. n |-> MoveTurn(s, ids, g, k)]
  BY <1>5, <1>6
<1>8. \E h : h = [k \in 0 .. n |-> MoveTurn(s, ids, h, k)]
  BY <1>7
<1>9. QED
  BY <1>8 DEF MoveRows, MoveTurn

LEMMA MoveRowsType ==
  ASSUME NEW S, AreRows(S), NEW s \in Seq(S), NEW ids \in Seq(Ids), Len(ids) <= Len(s), NEW n \in Nat
  PROVE  MoveRows(s, ids, n) \in Loops(S, ids)
<1>1. PICK g : g = [k \in 0 .. n |-> MoveTurn(s, ids, g, k)] /\ MoveRows(s, ids, n) = g[n]
  BY MoveRowsDef
<1> DEFINE T == {k \in Nat : k <= n => g[k] \in Loops(S, ids)}
<1>2. 0 \in T
  <2>1. g[0] = MoveTurn(s, ids, g, 0)
    <3>1. 0 \in 0 .. n
      OBVIOUS
    <3>2. QED
      BY ONLY <1>1, <3>1
  <2>2. g[0] = [s |-> s, i |-> 1]
    BY <2>1 DEF MoveTurn
  <2>3. QED
    BY <2>2 DEF Loops
<1>3. ASSUME NEW k \in Nat, k \in T PROVE k + 1 \in T
  <2>1. SUFFICES ASSUME k + 1 <= n PROVE g[k + 1] \in Loops(S, ids)
    OBVIOUS
  <2>2. k + 1 \in 0 .. n /\ k + 1 # 0 /\ (k + 1) - 1 = k /\ g[k] \in Loops(S, ids)
    BY <1>3, <2>1
  <2>3. g[k + 1] = MoveRow(ids, g[k])
    BY <1>1, <2>2 DEF MoveTurn
  <2>4. QED
    BY <2>2, <2>3, MoveRowType
<1> HIDE DEF T
<1>4. n \in T
  BY <1>2, <1>3, SetInduction
<1>5. QED
  BY <1>1, <1>4 DEF T

Home(m, ids) == {p \in 1 .. Len(ids) : m[p] = ids[p]}

(* After k turns of the loop.                                              *)
Progress(S, ids, v, k) ==
  /\ v \in Loops(S, ids) /\ Len(v.s) = Len(ids)
  /\ IsInjective(IdsOf(v.s)) /\ Range(IdsOf(v.s)) = Range(ids)
  /\ v.i <= Len(ids) + 1
  /\ \A p \in 1 .. Len(ids) : p < v.i => IdsOf(v.s)[p] = ids[p]
  /\ v.i <= Len(ids) => k <= Weight(Home(IdsOf(v.s), ids))[Len(ids)] + v.i - 1

LEMMA MovedToDown ==
  ASSUME NEW S, NEW s \in Seq(S), NEW from \in 1 .. Len(s), NEW to \in 1 .. Len(s), from < to
  PROVE  /\ MovedTo(s, from, to) \in Seq(S) /\ Len(MovedTo(s, from, to)) = Len(s)
         /\ \A j \in 1 .. Len(s) :
              MovedTo(s, from, to)[j] =
                IF j < from \/ j > to THEN s[j] ELSE IF j = to THEN s[from] ELSE s[j + 1]
BY MovedDownProperties DEF MovedTo

LEMMA MoveRowProgress ==
  ASSUME NEW S, AreRows(S), NEW ids \in Seq(Ids), IsInjective(ids), NEW v, NEW k \in Nat,
         Progress(S, ids, v, k)
  PROVE  Progress(S, ids, MoveRow(ids, v), k + 1)
<1>1. PICK m, i, w, n : m = IdsOf(v.s) /\ i = v.i /\ w = MoveRow(ids, v) /\ n = Len(ids)
  OBVIOUS
<1>2. /\ v.s \in Seq(S) /\ i \in Nat \ {0} /\ n \in Nat /\ Len(v.s) = n /\ i <= n + 1
      /\ v \in [s : Seq(S), i : Nat \ {0}]
  BY <1>1, LenProperties DEF Progress, Loops
<1>3. m \in Seq(Ids) /\ Len(m) = n /\ \A p \in 1 .. n : m[p] = v.s[p].id
  BY <1>1, <1>2, IdsOfProperties
<1>4. /\ \A p \in 1 .. n : p < i => m[p] = ids[p]
      /\ Range(m) = Range(ids) /\ IsInjective(m)
      /\ i <= n => k <= Weight(Home(m, ids))[n] + i - 1
  BY <1>1 DEF Progress
<1>5. /\ \A p, q \in 1 .. n : m[p] = m[q] => p = q
      /\ \A p \in 1 .. n : m[p] \in Range(ids)
  BY <1>3, <1>4, RangeProperties
<1>6. w \in Loops(S, ids)
  BY <1>1, MoveRowType DEF Progress
<1>7. CASE i > n
  <2>1. w = v
    BY <1>1, <1>2, <1>7 DEF MoveRow
  <2>2. QED
    BY <1>1, <1>2, <1>6, <1>7, <2>1 DEF Progress
<1>8. CASE i <= n
  <2>1. PICK pos : pos = Position(ids, m[i])
    OBVIOUS
  <2>2. i \in 1 .. n
    BY <1>2, <1>8
  <2>3. pos \in 1 .. n /\ ids[pos] = m[i]
    BY <1>1, <1>5, <2>1, <2>2, PositionProperties
  <2>4. pos >= i
    BY <1>2, <1>4, <1>5, <2>2, <2>3
  <2>5. w = IF pos \in {0, i} THEN [v EXCEPT !.i = i + 1] ELSE [v EXCEPT !.s = MovedTo(v.s, i, pos)]
    BY <1>1, <1>2, <1>3, <1>8, <2>1, <2>2 DEF MoveRow
  <2>6. Weight(Home(m, ids))[n] \in Nat
    BY <1>2, WeightDef DEF IsWeight
  <2>7. CASE pos = i
    <3>1. w.s = v.s /\ w.i = i + 1
      BY <1>2, <2>5, <2>7
    <3>2. \A p \in 1 .. n : p < i + 1 => m[p] = ids[p]
      BY <1>2, <1>4, <2>3, <2>7
    <3>3. k + 1 <= Weight(Home(m, ids))[n] + (i + 1) - 1
      BY <1>2, <1>4, <1>8, <2>6
    <3>4. QED
      BY <1>1, <1>2, <1>4, <1>6, <1>8, <3>1, <3>2, <3>3 DEF Progress
  <2>8. CASE pos # i
    <3>1. pos > i
      BY <1>2, <2>3, <2>4, <2>8
    <3>2. w.s = MovedTo(v.s, i, pos) /\ w.i = i
      BY <1>1, <1>2, <2>3, <2>5, <2>8
    <3>3. PICK t : t = MovedTo(m, i, pos)
      OBVIOUS
    <3>4. t = IdsOf(w.s) /\ Len(w.s) = n
      BY <1>1, <1>2, <2>2, <2>3, <3>2, <3>3, IdsOfMovedTo
    <3>5. /\ t \in Seq(Ids) /\ Len(t) = n
          /\ \A j \in 1 .. n : t[j] = IF j < i \/ j > pos THEN m[j] ELSE IF j = pos THEN m[i] ELSE m[j + 1]
      <4>1. i \in 1 .. Len(m) /\ pos \in 1 .. Len(m) /\ i < pos
        BY <1>3, <2>2, <2>3, <3>1
      <4>2. QED
        BY <1>3, <3>3, <4>1, MovedToDown
    <3>6. Range(t) = Range(m) /\ IsInjective(t)
      <4>1. i \in 1 .. Len(m) /\ pos \in 1 .. Len(m)
        BY <1>3, <2>2, <2>3
      <4>2. /\ Range(InsertAt(RemoveAt(m, i), pos, m[i])) = Range(m)
            /\ IsInjective(m) => IsInjective(InsertAt(RemoveAt(m, i), pos, m[i]))
        BY <1>3, <4>1, MovedRange
      <4>3. QED
        BY <1>4, <3>3, <4>2 DEF MovedTo
    <3>7. \A p \in 1 .. n : p < i => t[p] = ids[p]
      BY <1>4, <3>5
    <3>8. Weight(Home(m, ids))[n] < Weight(Home(t, ids))[n]
      <4>1. pos \in Nat /\ pos >= 2 /\ n >= pos
        BY <1>2, <2>3, <3>1
      <4>2. pos \in Home(t, ids)
        <5>1. t[pos] = m[i]
          BY <1>2, <2>2, <2>3, <3>1, <3>5
        <5>2. QED
          BY <1>1, <2>3, <5>1 DEF Home
      <4>3. pos \notin Home(m, ids)
        BY <1>5, <2>2, <2>3, <3>1 DEF Home
      <4>4. \A p \in Nat : p > pos => (p \in Home(m, ids) <=> p \in Home(t, ids))
        BY <1>1, <3>5 DEF Home
      <4>5. PICK H, K : H = Home(m, ids) /\ K = Home(t, ids)
        OBVIOUS
      <4>6. \A q \in Nat : q >= pos => Weight(H)[q] < Weight(K)[q]
        BY <4>1, <4>2, <4>3, <4>4, <4>5, WeightGains
      <4>7. QED
        BY <1>2, <4>1, <4>5, <4>6
    <3>9. Weight(Home(t, ids))[n] \in Nat
      BY <1>2, WeightDef DEF IsWeight
    <3>10. k + 1 <= Weight(Home(t, ids))[n] + i - 1
      BY <1>2, <1>4, <1>8, <2>6, <3>8, <3>9
    <3>11. QED
      BY <1>1, <1>2, <1>4, <1>6, <3>2, <3>4, <3>5, <3>6, <3>7, <3>10 DEF Progress
  <2>9. QED
    BY <2>7, <2>8
<1>9. QED
  BY <1>2, <1>7, <1>8

LEMMA MoveRowsEnds ==
  ASSUME NEW S, AreRows(S), NEW s \in Seq(S), NEW ids \in Seq(Ids), IsInjective(ids),
         IsInjective(IdsOf(s)), Range(IdsOf(s)) = Range(ids)
  PROVE  LET v == MoveRows(s, ids, Enough(s))
         IN  v \in Loops(S, ids) /\ IdsOf(v.s) = ids /\ ~(v.i <= Len(v.s))
<1>1. Len(s) = Len(ids) /\ Len(s) \in Nat
  <2>1. IdsOf(s) \in Seq(Ids) /\ Len(IdsOf(s)) = Len(s) /\ Len(s) \in Nat /\ Len(ids) \in Nat
    BY IdsOfProperties, LenProperties
  <2>2. Len(IdsOf(s)) <= Len(ids) /\ Len(ids) <= Len(IdsOf(s))
    BY <2>1, RangePigeonhole
  <2>3. QED
    BY <2>1, <2>2
<1>2. PICK n : n = Enough(s)
  OBVIOUS
<1>3. n \in Nat /\ n = Power[Len(s)] + Len(s) /\ Power[Len(s)] \in Nat \ {0}
  <2>1. PICK l \in Nat : l = Len(s)
    BY <1>1
  <2>2. Power[l] \in Nat \ {0}
    BY PowerDef
  <2>3. n = Power[l] + l
    BY <1>2, <2>1 DEF Enough
  <2>4. QED
    BY <2>1, <2>2, <2>3
<1>4. PICK g : g = [k \in 0 .. n |-> MoveTurn(s, ids, g, k)] /\ MoveRows(s, ids, n) = g[n]
  BY <1>1, <1>3, MoveRowsDef
<1> DEFINE T == {k \in Nat : k <= n => Progress(S, ids, g[k], k)}
<1>5. 0 \in T
  <2>1. g[0] = MoveTurn(s, ids, g, 0)
    <3>1. 0 \in 0 .. n
      BY <1>3
    <3>2. QED
      BY <1>4, <3>1
  <2>2. g[0] = [s |-> s, i |-> 1]
    BY <2>1 DEF MoveTurn
  <2>3. g[0].s = s /\ g[0].i = 1 /\ g[0] \in Loops(S, ids)
    BY <1>1, <2>2 DEF Loops
  <2>4. Weight(Home(IdsOf(s), ids))[Len(ids)] \in Nat
    BY <1>1, WeightDef DEF IsWeight
  <2>5. QED
    BY <1>1, <2>3, <2>4 DEF Progress
<1>6. ASSUME NEW k \in Nat, k \in T PROVE k + 1 \in T
  <2>1. SUFFICES ASSUME k + 1 <= n PROVE Progress(S, ids, g[k + 1], k + 1)
    OBVIOUS
  <2>2. k + 1 \in 0 .. n /\ k + 1 # 0 /\ (k + 1) - 1 = k /\ Progress(S, ids, g[k], k)
    BY <1>3, <1>6, <2>1
  <2>3. g[k + 1] = MoveRow(ids, g[k])
    BY <1>4, <2>2 DEF MoveTurn
  <2>4. QED
    BY <2>2, <2>3, MoveRowProgress
<1> HIDE DEF T
<1>7. n \in T
  BY <1>3, <1>5, <1>6, SetInduction
<1>8. PICK v : v = g[n] /\ Progress(S, ids, v, n)
  BY <1>3, <1>7 DEF T
<1>9. v \in Loops(S, ids) /\ v.s \in Seq(S) /\ v.i \in Nat \ {0} /\ Len(v.s) = Len(ids)
  BY <1>8 DEF Progress, Loops
<1>10. ~(v.i <= Len(v.s))
  <2>1. SUFFICES ASSUME v.i <= Len(v.s) PROVE FALSE
    OBVIOUS
  <2>2. PICK l : l = Len(ids)
    OBVIOUS
  <2>3. PICK H : H = Home(IdsOf(v.s), ids)
    OBVIOUS
  <2>4. l \in Nat \ {0} /\ n = Power[l] + l /\ v.i <= l /\ v.i \in Nat
    BY <1>1, <1>3, <1>9, <2>1, <2>2
  <2>5. n <= Weight(H)[l] + v.i - 1
    BY <1>8, <1>9, <2>1, <2>2, <2>3 DEF Progress
  <2>6. Weight(H)[l] \in Nat /\ Weight(H)[l] < Power[l - 1]
    BY <2>4, WeightBound
  <2>7. Power[l] = 2 * Power[l - 1] /\ Power[l - 1] \in Nat
    <3>1. l - 1 \in Nat /\ (l - 1) + 1 = l
      BY <2>4
    <3>2. QED
      BY <3>1, PowerDef
  <2>8. QED
    BY <1>3, <2>4, <2>5, <2>6, <2>7
<1>11. IdsOf(v.s) = ids
  <2>1. IdsOf(v.s) \in Seq(Ids) /\ Len(IdsOf(v.s)) = Len(ids) /\ Len(ids) \in Nat
    BY <1>9, IdsOfProperties
  <2>2. ASSUME NEW p \in 1 .. Len(ids) PROVE IdsOf(v.s)[p] = ids[p]
    BY <1>8, <1>9, <1>10, <2>1 DEF Progress
  <2>3. QED
    BY <2>1, <2>2, SeqEqual
<1>12. QED
  BY <1>2, <1>4, <1>8, <1>9, <1>10, <1>11

-----------------------------------------------------------------------------
(* The lists of rows after a listing: the dash and the overview.           *)

Row == [id : Ids, favorite : BOOLEAN]
Named == [id : Ids]

LEMMA RowsHaveIds == AreRows(Row) /\ AreRows(Named)
BY DEF AreRows, Row, Named

(* What is selected from a list keeps its order, so ids stay distinct.     *)
LEMMA SelectedInjective ==
  ASSUME NEW S, NEW s \in Seq(S), IsInjective(s), NEW P
  PROVE  IsInjective(Selected(s, P))
<1>1. PICK t : t = Selected(s, P)
  OBVIOUS
<1>2. /\ t \in Seq(S) /\ Len(t) \in Nat
      /\ \A j, k \in 1 .. Len(t) : j < k => \E a, b \in 1 .. Len(s) : a < b /\ t[j] = s[a] /\ t[k] = s[b]
  <2>1. t \in Seq(S)
    BY <1>1, SelectedProperties
  <2>2. DOMAIN t = 1 .. Len(t) /\ Len(t) \in Nat
    BY <2>1, LenProperties
  <2>3. \A j, k \in DOMAIN t : j < k => \E a, b \in 1 .. Len(s) : a < b /\ t[j] = s[a] /\ t[k] = s[b]
    BY <1>1, SelectedOrder
  <2>4. QED
    BY <2>1, <2>2, <2>3
<1>3. Len(s) \in Nat /\ \A a, b \in 1 .. Len(s) : s[a] = s[b] => a = b
  BY RangeProperties
<1>4. ASSUME NEW j \in 1 .. Len(t), NEW k \in 1 .. Len(t), j < k PROVE t[j] # t[k]
  <2>1. PICK a, b \in 1 .. Len(s) : a < b /\ t[j] = s[a] /\ t[k] = s[b]
    BY <1>2, <1>4
  <2>2. QED
    BY <1>3, <2>1
<1>5. \A j, k \in 1 .. Len(t) : t[j] = t[k] => j = k
  BY <1>2, <1>4
<1>6. QED
  BY <1>1, <1>2, <1>5, RangeProperties

LEMMA SelectedIdsInjective ==
  ASSUME NEW S, AreRows(S), NEW s \in Seq(S), IsInjective(IdsOf(s)), NEW P
  PROVE  IsInjective(IdsOf(Selected(s, P)))
<1>1. PICK t : t = Selected(s, P)
  OBVIOUS
<1>2. t \in Seq(S)
  BY <1>1, SelectedProperties
<1>3. /\ IdsOf(t) \in Seq(Ids) /\ Len(IdsOf(t)) = Len(t) /\ Len(t) \in Nat
      /\ \A j \in 1 .. Len(t) : IdsOf(t)[j] = t[j].id
  BY <1>2, IdsOfProperties
<1>4. /\ Len(s) \in Nat /\ \A a \in 1 .. Len(s) : IdsOf(s)[a] = s[a].id
      /\ \A a, b \in 1 .. Len(s) : IdsOf(s)[a] = IdsOf(s)[b] => a = b
  <2>1. /\ IdsOf(s) \in Seq(Ids) /\ Len(IdsOf(s)) = Len(s) /\ Len(s) \in Nat
        /\ \A a \in 1 .. Len(s) : IdsOf(s)[a] = s[a].id
    BY IdsOfProperties
  <2>2. \A a, b \in 1 .. Len(IdsOf(s)) : IdsOf(s)[a] = IdsOf(s)[b] => a = b
    BY <2>1, RangeProperties
  <2>3. QED
    BY <2>1, <2>2
<1>5. \A j, k \in 1 .. Len(t) : j < k => \E a, b \in 1 .. Len(s) : a < b /\ t[j] = s[a] /\ t[k] = s[b]
  <2>1. DOMAIN t = 1 .. Len(t)
    BY <1>2, LenProperties
  <2>2. \A j, k \in DOMAIN t : j < k => \E a, b \in 1 .. Len(s) : a < b /\ t[j] = s[a] /\ t[k] = s[b]
    BY <1>1, SelectedOrder
  <2>3. QED
    BY <2>1, <2>2
<1>6. ASSUME NEW j \in 1 .. Len(t), NEW k \in 1 .. Len(t), j < k PROVE IdsOf(t)[j] # IdsOf(t)[k]
  <2>1. PICK a, b \in 1 .. Len(s) : a < b /\ t[j] = s[a] /\ t[k] = s[b]
    BY <1>5, <1>6
  <2>2. IdsOf(s)[a] # IdsOf(s)[b]
    BY <1>4, <2>1
  <2>3. QED
    BY <1>3, <1>4, <2>1, <2>2
<1>7. \A j, k \in 1 .. Len(IdsOf(t)) : IdsOf(t)[j] = IdsOf(t)[k] => j = k
  BY <1>3, <1>6
<1>8. QED
  BY <1>1, <1>3, <1>7, RangeProperties

(* processFavoriteScopes(): whatever rows there were, and in any order.    *)
LEMMA FollowFavoritesProperties ==
  ASSUME NEW old \in Seq(Row), NEW ids \in Seq(Ids), IsInjective(ids)
  PROVE  LET v == FollowFavorites(old, ids)
         IN  /\ v.s \in Seq(Row)
             /\ IsInjective(IdsOf(old)) => IdsOf(v.s) = ids /\ ~(v.i <= Len(v.s))
<1>1. PICK P, left, new, full :
        /\ P = [id : Range(ids), favorite : BOOLEAN] /\ left = Selected(old, P)
        /\ new = [id \in Range(ids) |-> [id |-> id, favorite |-> TRUE]]
        /\ full = InsertMissing(left, ids, new)
  OBVIOUS
<1>2. FollowFavorites(old, ids) = MoveRows(full, ids, Enough(full))
  BY <1>1 DEF FollowFavorites
<1>3. Range(ids) \subseteq Ids
  BY RangeProperties
<1>4. AreNew(new, ids, Row)
  BY <1>1, <1>3 DEF AreNew, Row
<1>5. left \in Seq(Row) /\ Range(left) = Range(old) \cap P
  BY <1>1, SelectedProperties
<1>6. IsInjective(IdsOf(old)) => IsInjective(IdsOf(left))
  BY <1>1, RowsHaveIds, SelectedIdsInjective
<1>7. Range(IdsOf(left)) \subseteq Range(ids)
  <2>1. /\ IdsOf(left) \in Seq(Ids) /\ Len(IdsOf(left)) = Len(left)
        /\ \A i \in 1 .. Len(left) : IdsOf(left)[i] = left[i].id
    BY <1>5, RowsHaveIds, IdsOfProperties
  <2>2. \A i \in 1 .. Len(left) : left[i] \in Range(left)
    BY <1>5, RangeProperties
  <2>3. \A i \in 1 .. Len(left) : left[i].id \in Range(ids)
    BY <1>1, <1>5, <2>2
  <2>4. \A x \in Range(IdsOf(left)) : \E i \in 1 .. Len(left) : IdsOf(left)[i] = x
    BY <2>1, RangeProperties
  <2>5. QED
    BY <2>1, <2>3, <2>4
<1>8. /\ full \in Seq(Row) /\ Range(IdsOf(full)) = Range(ids)
      /\ IsInjective(IdsOf(left)) => IsInjective(IdsOf(full))
  <2>1. /\ InsertMissing(left, ids, new) \in Seq(Row)
        /\ Range(IdsOf(InsertMissing(left, ids, new))) = Range(IdsOf(left)) \cup Range(ids)
        /\ IsInjective(IdsOf(left)) => IsInjective(IdsOf(InsertMissing(left, ids, new)))
    BY <1>4, <1>5, RowsHaveIds, InsertMissingProperties
  <2>2. QED
    BY <1>1, <1>7, <2>1
<1>9. Len(ids) <= Len(full) /\ Enough(full) \in Nat
  <2>1. IdsOf(full) \in Seq(Ids) /\ Len(IdsOf(full)) = Len(full) /\ Len(full) \in Nat
    BY <1>8, RowsHaveIds, IdsOfProperties
  <2>2. Len(ids) <= Len(IdsOf(full))
    BY <1>8, <2>1, RangePigeonhole
  <2>3. Power[Len(full)] \in Nat
    BY <2>1, PowerDef
  <2>4. QED
    BY <2>1, <2>2, <2>3 DEF Enough
<1>10. MoveRows(full, ids, Enough(full)) \in Loops(Row, ids)
  BY <1>8, <1>9, RowsHaveIds, MoveRowsType
<1>11. ASSUME IsInjective(IdsOf(old))
       PROVE  LET v == MoveRows(full, ids, Enough(full)) IN IdsOf(v.s) = ids /\ ~(v.i <= Len(v.s))
  BY <1>6, <1>8, <1>11, RowsHaveIds, MoveRowsEnds
<1>12. QED
  BY <1>2, <1>10, <1>11 DEF Loops

(* OverviewResultsModel::setResults() shows what it was given.             *)
LEMMA SetResultsProperties ==
  ASSUME NEW old \in Seq(Ids), IsInjective(old), NEW ids \in Seq(Ids), IsInjective(ids)
  PROVE  SetResults(old, ids) = ids
<1>1. CASE old = <<>>
  BY <1>1 DEF SetResults
<1>2. CASE old # <<>>
  <2>1. PICK new, kept, left, full :
          /\ new = [id \in Range(old) \cup Range(ids) |-> [id |-> id]]
          /\ kept = Selected(old, Range(ids))
          /\ left = [i \in DOMAIN kept |-> new[kept[i]]]
          /\ full = InsertMissing(left, ids, new)
    OBVIOUS
  <2>2. SetResults(old, ids) = IdsOf(MoveRows(full, ids, Enough(full)).s)
    BY <1>2, <2>1 DEF SetResults
  <2>3. Range(old) \subseteq Ids /\ Range(ids) \subseteq Ids
    BY RangeProperties
  <2>4. AreNew(new, ids, Named)
    BY <2>1, <2>3 DEF AreNew, Named
  <2>5. /\ kept \in Seq(Ids) /\ Range(kept) = Range(old) \cap Range(ids) /\ IsInjective(kept)
        /\ Len(kept) \in Nat /\ DOMAIN kept = 1 .. Len(kept)
        /\ \A i \in 1 .. Len(kept) : kept[i] \in Range(kept)
    <3>1. kept \in Seq(Ids) /\ Range(kept) = Range(old) \cap Range(ids)
      BY <2>1, SelectedProperties
    <3>2. IsInjective(kept)
      BY <2>1, SelectedInjective
    <3>3. QED
      BY <3>1, <3>2, RangeProperties
  <2>6. /\ left \in Seq(Named) /\ Len(left) = Len(kept)
        /\ \A i \in 1 .. Len(kept) : left[i].id = kept[i]
    <3>1. \A i \in 1 .. Len(kept) : new[kept[i]] = [id |-> kept[i]] /\ kept[i] \in Ids
      BY <2>1, <2>3, <2>5
    <3>2. left = [i \in 1 .. Len(kept) |-> [id |-> kept[i]]]
      BY <2>1, <2>5, <3>1
    <3>3. QED
      BY <2>5, <3>1, <3>2 DEF Named
  <2>7. IdsOf(left) = kept
    <3>1. /\ IdsOf(left) \in Seq(Ids) /\ Len(IdsOf(left)) = Len(left)
          /\ \A i \in 1 .. Len(left) : IdsOf(left)[i] = left[i].id
      BY <2>6, RowsHaveIds, IdsOfProperties
    <3>2. \A i \in 1 .. Len(kept) : IdsOf(left)[i] = kept[i]
      BY <2>6, <3>1
    <3>3. QED
      BY <2>5, <2>6, <3>1, <3>2, SeqEqual
  <2>8. full \in Seq(Named) /\ Range(IdsOf(full)) = Range(ids) /\ IsInjective(IdsOf(full))
    <3>1. /\ InsertMissing(left, ids, new) \in Seq(Named)
          /\ Range(IdsOf(InsertMissing(left, ids, new))) = Range(IdsOf(left)) \cup Range(ids)
          /\ IsInjective(IdsOf(left)) => IsInjective(IdsOf(InsertMissing(left, ids, new)))
      BY <2>4, <2>6, RowsHaveIds, InsertMissingProperties
    <3>2. QED
      BY <2>1, <2>5, <2>7, <3>1
  <2>9. IdsOf(MoveRows(full, ids, Enough(full)).s) = ids
    BY <2>8, RowsHaveIds, MoveRowsEnds
  <2>10. QED
    BY <2>2, <2>9
<1>3. QED
  BY <1>1, <1>2

-----------------------------------------------------------------------------
(* What the handlers do to the lists.                                      *)

Lists == {s \in Seq(Ids) : IsInjective(s)}
Temps == UNION {[D -> BOOLEAN] : D \in SUBSET Ids}
States == [cached : SUBSET Ids, favs : Lists, stored : Lists, wrote : BOOLEAN, rows : Seq(Row),
           temps : Temps, shown : [favorites : Lists, other : Lists],
           delayed : Ids \cup {NoScope}, stuck : BOOLEAN]

Shows(lists, ids) ==
  LET all == lists.favorites \o lists.other
  IN IsInjective(all) /\ ids \ Invisible \subseteq Range(all) /\ Range(all) \subseteq ids

(* GSettings holds the favourites if it did before.                        *)
StoresWith(q, p) == q.stored = q.favs \/ (q.stored = p.stored /\ q.favs = p.favs)

LEMMA AppendedProperties ==
  ASSUME NEW s \in Seq(Ids), NEW id \in Ids
  PROVE  /\ Append(s, id) \in Seq(Ids) /\ Append(s, id) = InsertAt(s, Len(s) + 1, id)
         /\ Range(Append(s, id)) = Range(s) \cup {id}
         /\ IsInjective(s) /\ id \notin Range(s) => IsInjective(Append(s, id))
<1>1. Len(s) \in Nat
  BY LenProperties
<1>2. PICK i \in 1 .. Len(s) + 1 : i = Len(s) + 1
  BY <1>1
<1>3. /\ InsertAt(s, i, id) \in Seq(Ids) /\ Len(InsertAt(s, i, id)) = Len(s) + 1
      /\ IsInserted(InsertAt(s, i, id), s, i, id)
  BY InsertAtProperties
<1>4. /\ Append(s, id) \in Seq(Ids) /\ Len(Append(s, id)) = Len(s) + 1
      /\ \A j \in 1 .. Len(s) + 1 : Append(s, id)[j] = IF j < i THEN s[j] ELSE id
  BY <1>1, <1>2
<1>5. Append(s, id) = InsertAt(s, i, id)
  <2>1. \A j \in 1 .. Len(s) + 1 : Append(s, id)[j] = InsertAt(s, i, id)[j]
    BY <1>1, <1>2, <1>3, <1>4 DEF IsInserted
  <2>2. QED
    BY <1>3, <1>4, <2>1, SeqEqual
<1>6. PICK t : t = InsertAt(s, i, id)
  OBVIOUS
<1>7. Range(t) = Range(s) \cup {id} /\ (IsInjective(s) /\ id \notin Range(s) => IsInjective(t))
  BY <1>6, InsertAtRange
<1>8. Append(s, id) = t /\ t = InsertAt(s, Len(s) + 1, id)
  BY <1>2, <1>5, <1>6
<1>9. QED
  BY <1>4, <1>7, <1>8

LEMMA ListedFavoritesProperties ==
  ASSUME NEW p \in States
  PROVE  ListedFavorites(p) \in Lists
<1>1. PICK kept : kept = Selected(p.favs, p.cached)
  OBVIOUS
<1>2. p.favs \in Seq(Ids) /\ IsInjective(p.favs) /\ p.cached \in SUBSET Ids
  BY DEF States, Lists
<1>3. kept \in Seq(Ids) /\ IsInjective(kept)
  BY <1>1, <1>2, SelectedProperties, SelectedInjective
<1>4. ClickScope \in Ids /\ (Has(kept, ClickScope) <=> ClickScope \in Range(kept))
  BY <1>3, IdsAssumption, PositionProperties
<1>5. ListedFavorites(p) = kept \/ (ListedFavorites(p) = Append(kept, ClickScope) /\ ~Has(kept, ClickScope))
  BY <1>1 DEF ListedFavorites
<1>6. /\ Append(kept, ClickScope) \in Seq(Ids)
      /\ ClickScope \notin Range(kept) => IsInjective(Append(kept, ClickScope))
  BY <1>3, <1>4, AppendedProperties
<1>7. QED
  BY <1>3, <1>4, <1>5, <1>6 DEF Lists

LEMMA ProcessFavoriteScopesLists ==
  ASSUME NEW p \in States
  PROVE  LET q == ProcessFavoriteScopes(p)
         IN  /\ q \in States /\ q.cached = p.cached /\ q.temps = p.temps /\ q.shown = p.shown
             /\ StoresWith(q, p)
             /\ IsInjective(IdsOf(p.rows)) => IdsOf(q.rows) = q.favs /\ q.stuck = p.stuck
<1>1. PICK all : all = ListedFavorites(p)
  OBVIOUS
<1>2. PICK loop : loop = FollowFavorites(p.rows, all)
  OBVIOUS
<1>3. PICK base : base = IF all # p.favs THEN Store(p, all) ELSE p
  OBVIOUS
<1>4. \E x : x = (p.stuck \/ loop.i <= Len(loop.s))
  BY Zenon
<1>5. PICK x : x = (p.stuck \/ loop.i <= Len(loop.s))
  BY <1>4, Zenon
<1>6. ProcessFavoriteScopes(p) = [base EXCEPT !.rows = loop.s, !.stuck = x]
  BY <1>1, <1>2, <1>3, <1>5, Zenon DEF ProcessFavoriteScopes
<1>7. all \in Lists /\ p.rows \in Seq(Row) /\ p.stuck \in BOOLEAN
  BY <1>1, ListedFavoritesProperties DEF States
<1>8. /\ loop.s \in Seq(Row)
      /\ IsInjective(IdsOf(p.rows)) => IdsOf(loop.s) = all /\ ~(loop.i <= Len(loop.s))
  BY <1>2, <1>7, FollowFavoritesProperties DEF Lists
<1>9. x \in BOOLEAN /\ (IsInjective(IdsOf(p.rows)) => x = p.stuck)
  BY <1>5, <1>7, <1>8, Zenon
<1>10. /\ base \in States /\ base.cached = p.cached /\ base.temps = p.temps /\ base.shown = p.shown
       /\ base.favs = all /\ StoresWith(base, p)
  BY <1>3, <1>7 DEF Store, StoresWith, States
<1>11. PICK q : q = [base EXCEPT !.rows = loop.s, !.stuck = x]
  OBVIOUS
<1>12. /\ q \in States /\ q.cached = base.cached /\ q.temps = base.temps /\ q.shown = base.shown
       /\ q.favs = base.favs /\ q.stored = base.stored /\ q.rows = loop.s /\ q.stuck = x
  <2>1. x \in BOOLEAN /\ loop.s \in Seq(Row) /\ base \in States
    BY <1>8, <1>9, <1>10
  <2>2. QED
    BY <1>11, <2>1 DEF States
<1>13. QED
  BY <1>6, <1>8, <1>9, <1>10, <1>11, <1>12 DEF StoresWith

(* The overview shows each list as it was worked out.                      *)
LEMMA UpdateOverviewLists ==
  ASSUME NEW p \in States
  PROVE  LET q == UpdateOverview(p)
         IN  /\ q \in States /\ \A f \in Fields \ {"shown"} : q[f] = p[f]
             /\ Shows(q.shown, q.cached)
<1>1. PICK first, rest : /\ first = Selected(p.favs, p.cached)
                         /\ rest = Selected(ByName, p.cached \ (Range(first) \cup Invisible))
  OBVIOUS
<1>2. /\ p.favs \in Lists /\ p.cached \in SUBSET Ids /\ ByName \in Lists /\ Range(ByName) = Ids
      /\ p.shown.favorites \in Lists /\ p.shown.other \in Lists
  BY IdsAssumption DEF States, Lists, Ids
<1>3. first \in Lists /\ Range(first) = Range(p.favs) \cap p.cached
  BY <1>1, <1>2, SelectedProperties, SelectedInjective DEF Lists
<1>4. rest \in Lists /\ Range(rest) = Ids \cap (p.cached \ (Range(first) \cup Invisible))
  BY <1>1, <1>2, SelectedProperties, SelectedInjective DEF Lists
<1>5. UpdateOverview(p) = [p EXCEPT !.shown = [favorites |-> first, other |-> rest]]
  <2>1. SetResults(p.shown.favorites, first) = first /\ SetResults(p.shown.other, rest) = rest
    BY <1>2, <1>3, <1>4, SetResultsProperties DEF Lists
  <2>2. QED
    BY <1>1, <2>1 DEF UpdateOverview
<1>6. PICK q : q = UpdateOverview(p)
  OBVIOUS
<1>7. /\ q \in States /\ q.shown = [favorites |-> first, other |-> rest]
      /\ \A f \in Fields \ {"shown"} : q[f] = p[f]
  BY <1>3, <1>4, <1>5, <1>6 DEF States, Fields
<1>8. Shows([favorites |-> first, other |-> rest], p.cached)
  <2>1. PICK all : all = first \o rest
    OBVIOUS
  <2>2. /\ all \in Seq(Ids) /\ Len(all) = Len(first) + Len(rest)
        /\ Len(first) \in Nat /\ Len(rest) \in Nat
        /\ \A i \in 1 .. Len(first) + Len(rest) :
             all[i] = IF i <= Len(first) THEN first[i] ELSE rest[i - Len(first)]
    BY <1>3, <1>4, <2>1, ConcatProperties, LenProperties DEF Lists
  <2>3. /\ \A i \in 1 .. Len(first) : first[i] \in Range(first)
        /\ \A i \in 1 .. Len(rest) : rest[i] \in Range(rest)
        /\ \A x \in Range(first) : \E i \in 1 .. Len(first) : first[i] = x
        /\ \A x \in Range(rest) : \E i \in 1 .. Len(rest) : rest[i] = x
        /\ \A i, j \in 1 .. Len(first) : first[i] = first[j] => i = j
        /\ \A i, j \in 1 .. Len(rest) : rest[i] = rest[j] => i = j
    <3>1. \A s \in Lists : /\ \A i \in 1 .. Len(s) : s[i] \in Range(s)
                           /\ \A x \in Range(s) : \E i \in 1 .. Len(s) : s[i] = x
                           /\ \A i, j \in 1 .. Len(s) : s[i] = s[j] => i = j
      BY RangeProperties DEF Lists
    <3>2. QED
      BY <1>3, <1>4, <3>1
  <2>4. \A i \in 1 .. Len(first) : i \in 1 .. Len(all) /\ all[i] = first[i]
    BY <2>2
  <2>5. ASSUME NEW i \in 1 .. Len(rest) PROVE Len(first) + i \in 1 .. Len(all) /\ all[Len(first) + i] = rest[i]
    <3>1. Len(first) + i \in 1 .. Len(first) + Len(rest) /\ ~(Len(first) + i <= Len(first))
          /\ (Len(first) + i) - Len(first) = i
      BY <2>2
    <3>2. QED
      BY <2>2, <3>1
  <2>6. ASSUME NEW i \in 1 .. Len(all)
        PROVE  \/ i \in 1 .. Len(first) /\ all[i] = first[i]
               \/ i - Len(first) \in 1 .. Len(rest) /\ all[i] = rest[i - Len(first)]
    BY <2>2
  <2>7. Range(all) = Range(first) \cup Range(rest)
    <3>1. /\ \A i \in 1 .. Len(all) : all[i] \in Range(all)
          /\ \A x \in Range(all) : \E i \in 1 .. Len(all) : all[i] = x
      BY <2>2, RangeProperties
    <3>2. Range(first) \cup Range(rest) \subseteq Range(all)
      <4>1. ASSUME NEW x \in Range(first) PROVE x \in Range(all)
        BY <2>3, <2>4, <3>1
      <4>2. ASSUME NEW x \in Range(rest) PROVE x \in Range(all)
        <5>1. PICK i \in 1 .. Len(rest) : rest[i] = x
          BY <2>3
        <5>2. QED
          BY <2>5, <3>1, <5>1
      <4>3. QED
        BY <4>1, <4>2
    <3>3. Range(all) \subseteq Range(first) \cup Range(rest)
      BY <2>3, <2>6, <3>1
    <3>4. QED
      BY <3>2, <3>3
  <2>8. IsInjective(all)
    <3>1. ASSUME NEW i \in 1 .. Len(all), NEW j \in 1 .. Len(all), all[i] = all[j] PROVE i = j
      <4>1. Range(first) \cap Range(rest) = {}
        BY <1>4
      <4>2. CASE i \in 1 .. Len(first) /\ all[i] = first[i]
        <5>1. ~(j - Len(first) \in 1 .. Len(rest) /\ all[j] = rest[j - Len(first)])
          BY <2>3, <3>1, <4>1, <4>2
        <5>2. j \in 1 .. Len(first) /\ all[j] = first[j]
          BY <2>6, <5>1
        <5>3. QED
          BY <2>3, <3>1, <4>2, <5>2
      <4>3. CASE i - Len(first) \in 1 .. Len(rest) /\ all[i] = rest[i - Len(first)]
        <5>1. ~(j \in 1 .. Len(first) /\ all[j] = first[j])
          BY <2>3, <3>1, <4>1, <4>3
        <5>2. j - Len(first) \in 1 .. Len(rest) /\ all[j] = rest[j - Len(first)]
          BY <2>6, <5>1
        <5>3. i - Len(first) = j - Len(first)
          BY <2>3, <3>1, <4>3, <5>2
        <5>4. QED
          BY <2>2, <5>3
      <4>4. QED
        BY <2>6, <4>2, <4>3
    <3>2. QED
      BY <2>2, <3>1, RangeProperties
  <2>9. QED
    BY <1>2, <1>3, <1>4, <2>1, <2>7, <2>8 DEF Shows
<1>9. q.cached = p.cached
  BY <1>7 DEF Fields
<1>10. QED
  BY <1>6, <1>7, <1>8, <1>9

LEMMA FindScopeLists ==
  ASSUME NEW p \in States, NEW id
  PROVE  FindScope(p, id) \in States /\ \A f \in Fields \ {"temps"} : FindScope(p, id)[f] = p[f]
<1>1. PICK t : t = [x \in DOMAIN p.temps \cup {id} |-> IF x = id THEN FALSE ELSE p.temps[x]]
  OBVIOUS
<1>2. FindScope(p, id) = p \/ (FindScope(p, id) = [p EXCEPT !.temps = t] /\ id \in p.cached)
  BY <1>1 DEF FindScope
<1>3. p.temps \in Temps /\ p.cached \subseteq Ids
  BY DEF States
<1>4. id \in p.cached => t \in Temps
  <2>1. PICK D \in SUBSET Ids : p.temps \in [D -> BOOLEAN]
    BY <1>3 DEF Temps
  <2>2. id \in p.cached => t \in [D \cup {id} -> BOOLEAN] /\ D \cup {id} \in SUBSET Ids
    BY <1>1, <1>3, <2>1
  <2>3. QED
    BY <2>2 DEF Temps
<1>5. QED
  BY <1>2, <1>4 DEF States, Fields

LEMMA MetadataRefreshedLists ==
  ASSUME NEW p \in States
  PROVE  LET q == MetadataRefreshed(p)
         IN  /\ q \in States /\ q.cached = p.cached /\ q.favs = p.favs /\ q.stored = p.stored
             /\ q.rows = p.rows /\ q.stuck = p.stuck
             /\ Shows(q.shown, q.cached)
<1>1. PICK u : u = UpdateOverview(p)
  OBVIOUS
<1>2. u \in States /\ (\A f \in Fields \ {"shown"} : u[f] = p[f]) /\ Shows(u.shown, u.cached)
  BY <1>1, UpdateOverviewLists
<1>3. PICK w : w = FindScope(u, p.delayed)
  OBVIOUS
<1>4. w \in States /\ \A f \in Fields \ {"temps"} : w[f] = u[f]
  BY <1>2, <1>3, FindScopeLists
<1>5. MetadataRefreshed(p) = [w EXCEPT !.delayed = NoScope]
  BY <1>1, <1>3 DEF MetadataRefreshed
<1>6. /\ u.cached = p.cached /\ u.favs = p.favs /\ u.stored = p.stored /\ u.rows = p.rows /\ u.stuck = p.stuck
  BY <1>2 DEF Fields
<1>7. /\ w.cached = u.cached /\ w.favs = u.favs /\ w.stored = u.stored /\ w.rows = u.rows /\ w.stuck = u.stuck
      /\ w.shown = u.shown
  BY <1>4 DEF Fields
<1>8. PICK q : q = [w EXCEPT !.delayed = NoScope]
  OBVIOUS
<1>9. /\ q \in States /\ q.cached = w.cached /\ q.favs = w.favs /\ q.stored = w.stored /\ q.rows = w.rows
      /\ q.stuck = w.stuck /\ q.shown = w.shown
  BY <1>4, <1>8 DEF States
<1>10. QED
  BY <1>2, <1>5, <1>6, <1>7, <1>8, <1>9

StoreRows(p, s, r) == [Store(p, s) EXCEPT !.rows = r]
StoredAs(q, p, s, r) ==
  /\ q \in States /\ q.cached = p.cached /\ q.shown = p.shown /\ q.stuck = p.stuck
  /\ q.temps = p.temps /\ StoresWith(q, p) /\ q.rows = r /\ q.favs = s

LEMMA StoreRowsLists ==
  ASSUME NEW p \in States, NEW s \in Lists, NEW r \in Seq(Row)
  PROVE  StoredAs(StoreRows(p, s, r), p, s, r)
BY DEF StoreRows, StoredAs, Store, States, StoresWith

(* The favourites of rows that agree with them.                            *)
LEMMA SetFavoriteLists ==
  ASSUME NEW p \in States, NEW id \in Ids, NEW value
  PROVE  LET q == SetFavorite(p, id, value)
         IN  /\ q \in States /\ q.cached = p.cached /\ q.shown = p.shown /\ q.stuck = p.stuck
             /\ q.temps = p.temps /\ StoresWith(q, p)
             /\ IdsOf(p.rows) = p.favs /\ ~Tangles(p, id, value) => IdsOf(q.rows) = q.favs
<1>1. /\ p.favs \in Seq(Ids) /\ IsInjective(p.favs) /\ p.rows \in Seq(Row) /\ p.cached \in SUBSET Ids
      /\ Len(p.favs) \in Nat /\ Len(p.rows) \in Nat
  <2>1. p.favs \in Seq(Ids) /\ IsInjective(p.favs) /\ p.rows \in Seq(Row) /\ p.cached \in SUBSET Ids
    BY DEF States, Lists
  <2>2. QED
    BY <2>1, LenProperties
<1>2. PICK k : k = IdsOf(p.rows)
  OBVIOUS
<1>3. k \in Seq(Ids) /\ Len(k) = Len(p.rows)
  BY <1>1, <1>2, RowsHaveIds, IdsOfProperties
<1>4. PICK e \in Row : e = [id |-> id, favorite |-> TRUE]
  <2>1. [id |-> id, favorite |-> TRUE] \in Row
    BY DEF Row
  <2>2. QED
    BY <2>1
<1>5. e.id = id
  BY <1>4
<1>6. Has(p.favs, id) <=> id \in Range(p.favs)
  BY <1>1, PositionProperties
<1>7. \A s \in Lists, r \in Seq(Row) : StoredAs(StoreRows(p, s, r), p, s, r)
  BY StoreRowsLists
<1>8. CASE value
  <2>1. PICK s : s = IF Has(p.favs, id) THEN p.favs ELSE Append(p.favs, id)
    OBVIOUS
  <2>2. PICK a : a = Append(p.favs, id)
    OBVIOUS
  <2>3. /\ a \in Seq(Ids) /\ a = InsertAt(p.favs, Len(p.favs) + 1, id)
        /\ Range(a) = Range(p.favs) \cup {id}
        /\ id \notin Range(p.favs) => IsInjective(a)
    BY <1>1, <2>2, AppendedProperties
  <2>4. s \in Lists /\ id \in Range(s)
    <3>1. CASE Has(p.favs, id)
      BY <1>1, <1>6, <2>1, <3>1 DEF Lists
    <3>2. CASE ~Has(p.favs, id)
      BY <1>6, <2>1, <2>2, <2>3, <3>2 DEF Lists
    <3>3. QED
      BY <3>1, <3>2
  <2>5. PICK i : i = Position(s, id)
    OBVIOUS
  <2>6. i \in 1 .. Len(s) /\ i \in Nat /\ i # 0
    <3>1. s \in Seq(Ids)
      BY <2>4 DEF Lists
    <3>2. i \in 1 .. Len(s)
      BY <2>4, <2>5, <3>1, PositionProperties
    <3>3. QED
      BY <3>1, <3>2, LenProperties
  <2>7. PICK r : r = IF id \notin p.cached THEN p.rows ELSE Inserted(p.rows, i, e)
    OBVIOUS
  <2>8. r \in Seq(Row)
    BY <1>1, <2>6, <2>7, RowsHaveIds, InsertedProperties
  <2>9. SetFavorite(p, id, value) = StoreRows(p, s, r)
    <3>1. KeepFavorite(p, id) = Store(p, s)
      BY <2>1 DEF KeepFavorite
    <3>2. Store(p, s).favs = s /\ Store(p, s).rows = p.rows
      BY DEF Store, States
    <3>3. QED
      BY <1>4, <1>8, <2>5, <2>7, <3>1, <3>2 DEF SetFavorite, StoreRows
  <2>10. ASSUME k = p.favs, ~Tangles(p, id, value) PROVE IdsOf(r) = s
    <3>1. ~Has(p.favs, id) /\ id \in p.cached
      BY <1>8, <2>10 DEF Tangles
    <3>2. s = a /\ id \notin Range(p.favs) /\ r = Inserted(p.rows, i, e)
      BY <1>6, <2>1, <2>2, <2>7, <3>1
    <3>3. Len(p.favs) = Len(p.rows)
      BY <1>3, <2>10
    <3>4. i = Len(p.favs) + 1
      <4>1. Len(p.favs) + 1 \in 1 .. Len(a) /\ a[Len(p.favs) + 1] = id /\ IsInjective(a)
        <5>1. a = InsertAt(p.favs, Len(p.favs) + 1, id) /\ Len(p.favs) + 1 \in 1 .. Len(p.favs) + 1
          BY <1>1, <2>3
        <5>2. /\ Len(InsertAt(p.favs, Len(p.favs) + 1, id)) = Len(p.favs) + 1
              /\ IsInserted(InsertAt(p.favs, Len(p.favs) + 1, id), p.favs, Len(p.favs) + 1, id)
          BY <1>1, <5>1, InsertAtProperties
        <5>3. QED
          BY <1>1, <2>3, <3>2, <5>1, <5>2 DEF IsInserted
      <4>2. QED
        BY <2>3, <2>5, <3>2, <4>1, PositionProperties
    <3>5. Inserted(p.rows, i, e) = InsertAt(p.rows, Len(p.rows) + 1, e)
      BY <1>1, <3>3, <3>4 DEF Inserted
    <3>6. IdsOf(InsertAt(p.rows, Len(p.rows) + 1, e)) = InsertAt(IdsOf(p.rows), Len(p.rows) + 1, e.id)
      <4>1. Len(p.rows) + 1 \in 1 .. Len(p.rows) + 1
        BY <1>1
      <4>2. QED
        BY <1>1, <4>1, RowsHaveIds, IdsOfInsertAt
    <3>7. QED
      BY <1>2, <1>5, <2>3, <2>10, <3>2, <3>3, <3>5, <3>6
  <2>11. PICK q : q = StoreRows(p, s, r)
    OBVIOUS
  <2>12. StoredAs(q, p, s, r)
    BY <1>7, <2>4, <2>8, <2>11
  <2>13. QED
    BY <1>2, <2>9, <2>10, <2>11, <2>12 DEF StoredAs
<1>9. CASE ~value /\ (id = ClickScope \/ ~Has(p.favs, id))
  <2>1. SetFavorite(p, id, value) = p
    BY <1>9 DEF SetFavorite
  <2>2. QED
    BY <2>1 DEF StoresWith
<1>10. CASE ~value /\ ~(id = ClickScope \/ ~Has(p.favs, id))
  <2>1. PICK i, j : i = Position(p.favs, id) /\ j = Position(k, id)
    OBVIOUS
  <2>2. i \in 1 .. Len(p.favs)
    BY <1>1, <1>6, <1>10, <2>1, PositionProperties
  <2>3. j # 0 => j \in 1 .. Len(p.rows)
    BY <1>3, <2>1, PositionProperties
  <2>4. PICK s : s = RemoveAt(p.favs, i)
    OBVIOUS
  <2>5. s \in Lists
    BY <1>1, <2>2, <2>4, RemoveAtProperties, RemoveAtRange DEF Lists
  <2>6. PICK r : r = IF j = 0 THEN p.rows ELSE RemoveAt(p.rows, j)
    OBVIOUS
  <2>7. r \in Seq(Row)
    BY <1>1, <2>3, <2>6, RemoveAtProperties
  <2>8. SetFavorite(p, id, value) = StoreRows(p, s, r)
    <3>1. DropFavorite(p, id) = Store(p, s)
      BY <2>1, <2>4 DEF DropFavorite
    <3>2. Store(p, s).rows = p.rows
      BY DEF Store, States
    <3>3. QED
      BY <1>2, <1>10, <2>1, <2>6, <3>1, <3>2 DEF SetFavorite, GetScopeById, StoreRows
  <2>9. ASSUME k = p.favs PROVE IdsOf(r) = s
    <3>1. i = j /\ j # 0
      BY <2>1, <2>2, <2>9
    <3>2. IdsOf(RemoveAt(p.rows, j)) = RemoveAt(IdsOf(p.rows), j)
      BY <1>1, <2>3, <3>1, RowsHaveIds, IdsOfRemoveAt
    <3>3. QED
      BY <1>2, <2>4, <2>6, <2>9, <3>1, <3>2
  <2>10. PICK q : q = StoreRows(p, s, r)
    OBVIOUS
  <2>11. StoredAs(q, p, s, r)
    BY <1>7, <2>5, <2>7, <2>10
  <2>12. QED
    BY <1>2, <2>8, <2>9, <2>10, <2>11 DEF StoredAs
<1>11. QED
  BY <1>8, <1>9, <1>10

-----------------------------------------------------------------------------
(* The lists agree.  Before anything is loaded the rows need only be       *)
(* distinct; the favourites and GSettings agree unless a change is about   *)
(* to be reported.                                                         *)

RegistryType ==
  /\ State \in States /\ installed \in SUBSET Ids /\ listing \in Listings
  /\ phase \in {"starting", "locating", "loaded", "broken"}
  /\ tangled \in BOOLEAN /\ reported \in BOOLEAN
  /\ phase # "loaded" /\ phase # "locating" => cached = {}
  /\ listing.kind = "refresh" => phase = "loaded"

FavoritesStored == ~reported => stored = favs
DashFollows ==
  ~tangled => ~stuck /\ IsInjective(IdsOf(rows)) /\ (phase = "loaded" => IdsOf(rows) = favs)
OverviewFollows == phase = "loaded" => Shows(shown, cached)

RegistryInv == RegistryType /\ FavoritesStored /\ DashFollows /\ OverviewFollows

LEMMA RegistryInit == Init => RegistryInv
<1> SUFFICES ASSUME Init PROVE RegistryInv
  OBVIOUS
<1>1. <<>> \in Lists /\ IdsOf(<<>>) = <<>> /\ IsInjective(<<>>)
  BY DEF Lists, IdsOf, IsInjective
<1>2. <<>> \in Temps
  <2>1. PICK D \in SUBSET Ids : D = {}
    OBVIOUS
  <2>2. <<>> \in [D -> BOOLEAN]
    BY <2>1
  <2>3. QED
    BY <2>2 DEF Temps
<1>3. FirstFavorites \in Lists
  BY IdsAssumption DEF Lists
<1>4. State \in States
  <2>1. /\ cached \in SUBSET Ids /\ favs \in Lists /\ stored \in Lists /\ temps \in Temps
        /\ delayed \in Ids \cup {NoScope} /\ stuck \in BOOLEAN
    BY <1>1, <1>2, <1>3 DEF Init
  <2>2. rows \in Seq(Row) /\ shown \in [favorites : Lists, other : Lists]
    BY <1>1 DEF Init
  <2>3. QED
    BY <2>1, <2>2 DEF State, States
<1>5. QED
  BY <1>1, <1>4, IdsAssumption
     DEF Init, RegistryInv, RegistryType, FavoritesStored, DashFollows, OverviewFollows, Listings, NoListing

LEMMA StateOfLists ==
  ASSUME State \in States
  PROVE  /\ State.cached = cached /\ State.favs = favs /\ State.stored = stored /\ State.rows = rows
         /\ State.temps = temps /\ State.shown = shown /\ State.stuck = stuck
         /\ cached \in SUBSET Ids /\ favs \in Lists /\ rows \in Seq(Row) /\ temps \in Temps
         /\ stored \in Lists /\ stuck \in BOOLEAN /\ shown \in [favorites : Lists, other : Lists]
BY DEF State, States

LEMMA SetStateLists ==
  ASSUME NEW p \in States, SetState(p)
  PROVE  /\ State' \in States
         /\ cached' = p.cached /\ favs' = p.favs /\ stored' = p.stored /\ rows' = p.rows
         /\ shown' = p.shown /\ stuck' = p.stuck
BY DEF SetState, State, States

(* Handlers that leave the lists alone.                                    *)
ListsAside ==
  UNCHANGED <<phase, cached, favs, stored, reported, rows, temps, shown, delayed, stuck, tangled>>

LEMMA ListsAsideInv ==
  ASSUME RegistryInv, ListsAside, installed' \in SUBSET Ids, listing' \in Listings,
         listing'.kind = "refresh" => phase = "loaded"
  PROVE  RegistryInv'
<1>1. State' = State
  BY DEF State, ListsAside
<1>2. RegistryType'
  BY <1>1 DEF RegistryInv, RegistryType, ListsAside
<1>3. FavoritesStored' /\ DashFollows' /\ OverviewFollows'
  BY DEF RegistryInv, FavoritesStored, DashFollows, OverviewFollows, ListsAside
<1>4. QED
  BY <1>2, <1>3 DEF RegistryInv

LEMMA ListingKept ==
  ASSUME RegistryType, RefreshScopeMetadata
  PROVE  listing' \in Listings /\ (listing'.kind = "refresh" => phase = "loaded")
BY DEF RegistryType, RefreshScopeMetadata, StartListing, NoListing, Listings

LEMMA AsideActionsInv ==
  ASSUME RegistryInv
  PROVE  /\ PopulateScopes => RegistryInv'
         /\ ScopeRegistryChanged => RegistryInv'
         /\ \A b \in BOOLEAN : ScopeListWorkerRun(b) => RegistryInv'
         /\ \A s \in OtherRegistries : RegistryChanges(s) => RegistryInv'
         /\ UNCHANGED vars => RegistryInv'
<1>1. RegistryType
  BY DEF RegistryInv
<1>2. ASSUME PopulateScopes PROVE RegistryInv'
  <2>1. ListsAside /\ installed' = installed /\ listing' \in Listings /\ listing'.kind # "refresh"
    BY <1>1, <1>2 DEF PopulateScopes, ListsAside, StartListing, NoListing, Listings
  <2>2. QED
    BY <1>1, <2>1, ListsAsideInv DEF RegistryType
<1>3. ASSUME ScopeRegistryChanged PROVE RegistryInv'
  <2>1. ListsAside /\ installed' = installed /\ RefreshScopeMetadata
    BY <1>3 DEF ScopeRegistryChanged, ListsAside
  <2>2. QED
    BY <1>1, <2>1, ListingKept, ListsAsideInv DEF RegistryType
<1>4. ASSUME NEW b \in BOOLEAN, ScopeListWorkerRun(b) PROVE RegistryInv'
  <2>1. ListsAside /\ installed' = installed
    BY <1>4 DEF ScopeListWorkerRun, ListsAside
  <2>2. \E x \in SUBSET Ids : listing' = [listing EXCEPT !.ended = TRUE, !.found = x]
    BY <1>1, <1>4 DEF ScopeListWorkerRun, RegistryType
  <2>3. listing' \in Listings /\ listing'.kind = listing.kind
    BY <1>1, <2>2 DEF RegistryType, Listings
  <2>4. QED
    BY <1>1, <2>1, <2>3, ListsAsideInv DEF RegistryType
<1>5. ASSUME NEW s \in OtherRegistries, RegistryChanges(s) PROVE RegistryInv'
  <2>1. ListsAside /\ installed' = s /\ listing' = listing
    BY <1>5 DEF RegistryChanges, ListsAside
  <2>2. s \in SUBSET Ids
    BY IdsAssumption
  <2>3. QED
    BY <1>1, <2>1, <2>2, ListsAsideInv DEF RegistryType
<1>6. ASSUME UNCHANGED vars PROVE RegistryInv'
  <2>1. ListsAside /\ installed' = installed /\ listing' = listing
    BY <1>6 DEF vars, ListsAside
  <2>2. QED
    BY <1>1, <2>1, ListsAsideInv DEF RegistryType
<1>7. QED
  BY <1>2, <1>3, <1>4, <1>5, <1>6

LEMMA GSettingsChangeLists ==
  ASSUME RegistryInv, NEW s \in OtherFavorites, GSettingsChange(s)
  PROVE  RegistryInv'
<1>1. s \in Lists
  BY IdsAssumption DEF Lists
<1>2. /\ stored' = s /\ reported' = TRUE
      /\ UNCHANGED <<installed, phase, listing, cached, favs, rows, temps, shown, delayed, stuck, tangled>>
  BY DEF GSettingsChange
<1>3. State' \in States
  BY <1>1, <1>2 DEF State, States, RegistryInv, RegistryType
<1>4. RegistryType'
  BY <1>2, <1>3 DEF RegistryInv, RegistryType
<1>5. FavoritesStored' /\ DashFollows' /\ OverviewFollows'
  BY <1>2 DEF RegistryInv, FavoritesStored, DashFollows, OverviewFollows
<1>6. QED
  BY <1>4, <1>5 DEF RegistryInv

LEMMA DiscoveryFinishedLists ==
  ASSUME RegistryInv, NEW b \in BOOLEAN, DiscoveryFinished(b)
  PROVE  RegistryInv'
<1>1. /\ phase = "starting" /\ listing.kind = "discovery"
      /\ phase' \in {"locating", "broken"} /\ (phase' = "broken" => cached' = cached)
      /\ cached' \in {cached, listing.found}
      /\ UNCHANGED <<installed, listing, favs, stored, reported, rows, temps, shown, delayed, stuck, tangled>>
  BY DEF DiscoveryFinished
<1>2. listing.found \in SUBSET Ids /\ cached = {}
  BY <1>1 DEF RegistryInv, RegistryType, Listings
<1>3. State' \in States
  BY <1>1, <1>2 DEF State, States, RegistryInv, RegistryType
<1>4. RegistryType'
  BY <1>1, <1>2, <1>3 DEF RegistryInv, RegistryType
<1>5. FavoritesStored' /\ DashFollows' /\ OverviewFollows'
  BY <1>1 DEF RegistryInv, FavoritesStored, DashFollows, OverviewFollows
<1>6. QED
  BY <1>4, <1>5 DEF RegistryInv

(* A listing is taken over: the favourites, the rows and the overview.     *)
LEMMA ListingTakenOver ==
  ASSUME RegistryInv, NEW p \in States,
         p.rows = rows, p.stuck = stuck, p.favs = favs, p.stored = stored,
         NEW q, q = MetadataRefreshed(ProcessFavoriteScopes(p)),
         SetState(q), Report(q), phase' = "loaded", listing' = NoListing,
         UNCHANGED <<installed, tangled>>
  PROVE  RegistryInv'
<1>2. /\ p \in States /\ p.rows = rows /\ p.stuck = stuck /\ p.favs = favs /\ p.stored = stored
  OBVIOUS
<1>3. PICK u : u = ProcessFavoriteScopes(p)
  OBVIOUS
<1>4. /\ u \in States /\ StoresWith(u, p)
      /\ IsInjective(IdsOf(p.rows)) => IdsOf(u.rows) = u.favs /\ u.stuck = p.stuck
  BY <1>2, <1>3, ProcessFavoriteScopesLists
<1>5. /\ q \in States /\ q.favs = u.favs /\ q.stored = u.stored /\ q.rows = u.rows /\ q.stuck = u.stuck
      /\ Shows(q.shown, q.cached)
  BY <1>3, <1>4, MetadataRefreshedLists
<1>6. /\ State' \in States /\ cached' = q.cached /\ favs' = q.favs /\ stored' = q.stored /\ rows' = q.rows
      /\ shown' = q.shown /\ stuck' = q.stuck
  BY <1>5, SetStateLists
<1>7. reported' \in BOOLEAN /\ (~reported' => ~reported)
  <2>1. reported \in BOOLEAN /\ q.wrote \in BOOLEAN
    BY <1>5 DEF RegistryInv, RegistryType, States
  <2>2. QED
    BY <2>1 DEF Report
<1>8. RegistryType'
  BY <1>6, <1>7 DEF RegistryInv, RegistryType, NoListing, Listings
<1>9. FavoritesStored'
  BY <1>2, <1>4, <1>5, <1>6, <1>7 DEF RegistryInv, FavoritesStored, StoresWith
<1>10. DashFollows'
  <2>1. SUFFICES ASSUME ~tangled PROVE ~stuck' /\ IsInjective(IdsOf(rows')) /\ IdsOf(rows') = favs'
    BY DEF DashFollows
  <2>2. IdsOf(rows') = favs' /\ stuck' = stuck /\ ~stuck
    BY <1>2, <1>4, <1>5, <1>6, <2>1 DEF RegistryInv, DashFollows
  <2>3. favs' \in Lists
    BY <1>5, <1>6 DEF States
  <2>4. QED
    BY <2>2, <2>3 DEF Lists
<1>11. OverviewFollows'
  BY <1>5, <1>6 DEF OverviewFollows
<1>12. QED
  BY <1>8, <1>9, <1>10, <1>11 DEF RegistryInv

LEMMA CompleteDiscoveryFinishedLists ==
  ASSUME RegistryInv, CompleteDiscoveryFinished
  PROVE  RegistryInv'
<1>1. PICK q : q = MetadataRefreshed(ProcessFavoriteScopes(State))
  OBVIOUS
<1>2. SetState(q) /\ Report(q) /\ phase' = "loaded" /\ listing' = NoListing /\ UNCHANGED <<installed, tangled>>
  BY <1>1 DEF CompleteDiscoveryFinished
<1>3. State \in States
  BY DEF RegistryInv, RegistryType
<1>4. State.rows = rows /\ State.stuck = stuck /\ State.favs = favs /\ State.stored = stored
  BY DEF State
<1>5. PICK p \in States : p = State
  BY <1>3
<1>6. QED
  BY <1>1, <1>2, <1>4, <1>5, ListingTakenOver

LEMMA RefreshFinishedLists ==
  ASSUME RegistryInv, RefreshFinished
  PROVE  RegistryInv'
<1>1. PICK c \in SUBSET Ids : c = listing.found
  BY DEF RegistryInv, RegistryType, Listings
<1>2. PICK p : p = [State EXCEPT !.cached = c]
  OBVIOUS
<1>3. PICK q : q = MetadataRefreshed(ProcessFavoriteScopes(p))
  OBVIOUS
<1>4. SetState(q) /\ Report(q) /\ phase' = "loaded" /\ listing' = NoListing /\ UNCHANGED <<installed, tangled>>
  BY <1>1, <1>2, <1>3 DEF RefreshFinished, RegistryInv, RegistryType
<1>5. State \in States
  BY DEF RegistryInv, RegistryType
<1>6. p \in States /\ p.rows = rows /\ p.stuck = stuck /\ p.favs = favs /\ p.stored = stored
  BY <1>2, <1>5 DEF State, States
<1>7. QED
  BY <1>3, <1>4, <1>6, ListingTakenOver

(* A command or a report that leaves the listing alone: q is what it makes *)
(* of the lists.                                                           *)
LEMMA ListsFollow ==
  ASSUME RegistryInv, NEW q \in States, SetState(q), UNCHANGED <<installed, phase>>,
         listing' \in Listings, listing'.kind = "refresh" => phase = "loaded",
         reported' \in BOOLEAN, tangled' \in BOOLEAN, ~reported' => q.stored = q.favs,
         q.cached = cached, phase = "loaded" => Shows(q.shown, cached),
         ~tangled' =>
           ~q.stuck /\ IsInjective(IdsOf(q.rows)) /\ (phase = "loaded" => IdsOf(q.rows) = q.favs)
  PROVE  RegistryInv'
<1>1. /\ State' \in States /\ cached' = q.cached /\ favs' = q.favs /\ stored' = q.stored /\ rows' = q.rows
      /\ shown' = q.shown /\ stuck' = q.stuck
  BY SetStateLists
<1>2. RegistryType'
  BY <1>1 DEF RegistryInv, RegistryType
<1>3. FavoritesStored' /\ DashFollows' /\ OverviewFollows'
  BY <1>1 DEF FavoritesStored, DashFollows, OverviewFollows
<1>4. QED
  BY <1>2, <1>3 DEF RegistryInv

LEMMA DashSettingsChangedLists ==
  ASSUME RegistryInv, DashSettingsChanged
  PROVE  RegistryInv'
<1>1. PICK p : p = ReadFavorites(State)
  OBVIOUS
<1>2. State \in States
  BY DEF RegistryInv, RegistryType
<1>3. /\ p \in States /\ p.favs = stored /\ p.stored = stored /\ p.rows = rows /\ p.stuck = stuck
      /\ p.cached = cached
  BY <1>1, <1>2 DEF ReadFavorites, State, States
<1>4. PICK u : u = ProcessFavoriteScopes(p)
  OBVIOUS
<1>5. /\ u \in States /\ u.cached = p.cached /\ StoresWith(u, p)
      /\ IsInjective(IdsOf(p.rows)) => IdsOf(u.rows) = u.favs /\ u.stuck = p.stuck
  BY <1>3, <1>4, ProcessFavoriteScopesLists
<1>6. PICK q : q = UpdateOverview(u)
  OBVIOUS
<1>7. /\ q \in States /\ q.cached = u.cached /\ q.favs = u.favs /\ q.stored = u.stored
      /\ q.rows = u.rows /\ q.stuck = u.stuck /\ Shows(q.shown, q.cached)
  BY <1>5, <1>6, UpdateOverviewLists DEF Fields
<1>8. /\ SetState(q) /\ reported' \in {FALSE, q.wrote}
      /\ UNCHANGED <<installed, phase, listing, tangled>>
  BY <1>1, <1>4, <1>6 DEF DashSettingsChanged, FavoritesChanged
<1>9. q.stored = q.favs
  BY <1>3, <1>5, <1>7 DEF StoresWith
<1>10. reported' \in BOOLEAN
  <2>1. q.wrote \in BOOLEAN
    BY <1>7 DEF States
  <2>2. QED
    BY <1>8, <2>1
<1>11. ASSUME ~tangled' PROVE ~q.stuck /\ IsInjective(IdsOf(q.rows)) /\ IdsOf(q.rows) = q.favs
  <2>1. ~stuck /\ IsInjective(IdsOf(rows))
    BY <1>8, <1>11 DEF RegistryInv, DashFollows
  <2>2. IdsOf(q.rows) = q.favs /\ ~q.stuck
    BY <1>3, <1>5, <1>7, <2>1
  <2>3. IsInjective(q.favs)
    BY <1>7 DEF States, Lists
  <2>4. QED
    BY <2>2, <2>3
<1>12. /\ listing' \in Listings /\ (listing'.kind = "refresh" => phase = "loaded") /\ tangled' \in BOOLEAN
  BY <1>8 DEF RegistryInv, RegistryType
<1>13. QED
  BY <1>3, <1>5, <1>7, <1>8, <1>9, <1>10, <1>11, <1>12, ListsFollow

(* A favourite is set or dropped, from whichever page: p is the state with *)
(* the flag of that page set.                                              *)
LEMMA SetFavoriteFollows ==
  ASSUME RegistryInv, NEW p \in States, NEW id \in Ids, NEW value, NEW q,
         q = SetFavorite(p, id, value), SetState(q), Report(q),
         p.cached = cached, p.favs = favs, p.stored = stored, p.shown = shown, p.stuck = stuck,
         IdsOf(p.rows) = IdsOf(rows), phase = "loaded",
         tangled' = (tangled \/ Tangles(State, id, value)), UNCHANGED <<installed, phase, listing>>
  PROVE  RegistryInv'
<1>1. /\ q \in States /\ q.cached = p.cached /\ q.shown = p.shown /\ q.stuck = p.stuck
      /\ StoresWith(q, p)
      /\ IdsOf(p.rows) = p.favs /\ ~Tangles(p, id, value) => IdsOf(q.rows) = q.favs
  BY SetFavoriteLists
<1>2. Tangles(State, id, value) <=> Tangles(p, id, value)
  BY DEF Tangles, State
<1>3. reported' \in BOOLEAN /\ tangled' \in BOOLEAN /\ (~reported' => ~reported)
  <2>1. reported \in BOOLEAN /\ tangled \in BOOLEAN /\ q.wrote \in BOOLEAN
    BY <1>1 DEF RegistryInv, RegistryType, States
  <2>2. Tangles(State, id, value) \in BOOLEAN
    BY DEF Tangles
  <2>3. QED
    BY <2>1, <2>2 DEF Report
<1>4. ~reported' => q.stored = q.favs
  BY <1>1, <1>3 DEF RegistryInv, FavoritesStored, StoresWith
<1>5. Shows(q.shown, cached)
  BY <1>1 DEF RegistryInv, OverviewFollows
<1>6. ASSUME ~tangled' PROVE ~q.stuck /\ IsInjective(IdsOf(q.rows)) /\ IdsOf(q.rows) = q.favs
  <2>1. ~tangled /\ ~Tangles(p, id, value)
    BY <1>2, <1>6
  <2>2. ~stuck /\ IdsOf(rows) = favs
    BY <2>1 DEF RegistryInv, DashFollows
  <2>3. IdsOf(q.rows) = q.favs /\ ~q.stuck
    BY <1>1, <2>1, <2>2
  <2>4. IsInjective(q.favs)
    BY <1>1 DEF States, Lists
  <2>5. QED
    BY <2>3, <2>4
<1>7. listing' \in Listings /\ (listing'.kind = "refresh" => phase = "loaded")
  BY DEF RegistryInv, RegistryType
<1>8. QED
  BY <1>1, <1>3, <1>4, <1>5, <1>6, <1>7, ListsFollow

LEMMA SetFavoriteOfRowLists ==
  ASSUME RegistryInv, NEW i \in 1 .. Len(rows), NEW b \in BOOLEAN, SetFavoriteOfRow(i, b)
  PROVE  RegistryInv'
<1>1. PICK p : p = [State EXCEPT !.rows[i].favorite = b]
  OBVIOUS
<1>2. State \in States /\ rows \in Seq(Row)
  BY StateOfLists DEF RegistryInv, RegistryType
<1>3. PICK r : r = [rows EXCEPT ![i] = [rows[i] EXCEPT !.favorite = b]]
  OBVIOUS
<1>4. rows[i] \in Row /\ Len(rows) \in Nat
  BY <1>2, LenProperties
<1>5. PICK e \in Row : e = [rows[i] EXCEPT !.favorite = b]
  <2>1. [rows[i] EXCEPT !.favorite = b] \in Row
    BY <1>4 DEF Row
  <2>2. QED
    BY <2>1
<1>6. e.id = rows[i].id
  BY <1>4, <1>5 DEF Row
<1>7. r = [rows EXCEPT ![i] = e]
  BY <1>3, <1>5
<1>8. r \in Seq(Row) /\ Len(r) = Len(rows) /\ \A j \in 1 .. Len(rows) : r[j].id = rows[j].id
  BY <1>2, <1>4, <1>6, <1>7
<1>9. IdsOf(r) = IdsOf(rows)
  BY <1>8 DEF IdsOf
<1>10. p = [State EXCEPT !.rows = r]
  BY <1>1, <1>3 DEF State
<1>11. /\ p \in States /\ p.rows = r /\ p.cached = cached /\ p.favs = favs /\ p.stored = stored
       /\ p.shown = shown /\ p.stuck = stuck
  BY <1>2, <1>8, <1>10 DEF State, States
<1>12. PICK id \in Ids : id = rows[i].id
  BY <1>4 DEF Row
<1>13. PICK q : q = SetFavorite(p, id, b)
  OBVIOUS
<1>14. /\ SetState(q) /\ Report(q) /\ phase = "loaded"
       /\ tangled' = (tangled \/ Tangles(State, id, b))
       /\ UNCHANGED <<installed, phase, listing>>
  BY <1>1, <1>12, <1>13 DEF SetFavoriteOfRow, Command
<1>15. QED
  BY <1>9, <1>11, <1>13, <1>14, SetFavoriteFollows

LEMMA SetFavoriteOfTempLists ==
  ASSUME RegistryInv, NEW id \in DOMAIN temps, NEW b \in BOOLEAN, SetFavoriteOfTemp(id, b)
  PROVE  RegistryInv'
<1>1. PICK p : p = [State EXCEPT !.temps[id] = b]
  OBVIOUS
<1>2. State \in States /\ temps \in Temps
  BY StateOfLists DEF RegistryInv, RegistryType
<1>3. PICK t : t = [temps EXCEPT ![id] = b]
  OBVIOUS
<1>4. id \in Ids /\ t \in Temps
  BY <1>2, <1>3 DEF Temps
<1>5. p = [State EXCEPT !.temps = t]
  BY <1>1, <1>3 DEF State
<1>6. /\ p \in States /\ p.rows = rows /\ p.cached = cached /\ p.favs = favs /\ p.stored = stored
      /\ p.shown = shown /\ p.stuck = stuck
  BY <1>2, <1>4, <1>5 DEF State, States
<1>7. PICK q : q = SetFavorite(p, id, b)
  OBVIOUS
<1>8. /\ SetState(q) /\ Report(q) /\ phase = "loaded"
      /\ tangled' = (tangled \/ Tangles(State, id, b))
      /\ UNCHANGED <<installed, phase, listing>>
  BY <1>1, <1>7 DEF SetFavoriteOfTemp, Command
<1>9. QED
  BY <1>4, <1>6, <1>7, <1>8, SetFavoriteFollows

LEMMA SetFavoriteOfOverviewLists ==
  ASSUME RegistryInv, NEW id \in Range(shown.favorites) \cup Range(shown.other),
         SetFavoriteOfOverview(id)
  PROVE  RegistryInv'
<1>1. State \in States /\ shown \in [favorites : Lists, other : Lists]
  BY StateOfLists DEF RegistryInv, RegistryType
<1>2. id \in Ids
  BY <1>1 DEF Lists, Range
<1>3. PICK b : b = ~Has(shown.favorites, id)
  OBVIOUS
<1>4. PICK q : q = SetFavorite(State, id, b)
  OBVIOUS
<1>5. /\ SetState(q) /\ Report(q) /\ phase = "loaded"
      /\ tangled' = (tangled \/ Tangles(State, id, b))
      /\ UNCHANGED <<installed, phase, listing>>
  BY <1>3, <1>4 DEF SetFavoriteOfOverview, Command
<1>6. PICK p \in States : p = State
  BY <1>1
<1>7. /\ p.rows = rows /\ p.cached = cached /\ p.favs = favs /\ p.stored = stored
      /\ p.shown = shown /\ p.stuck = stuck
  BY <1>6 DEF State
<1>8. QED
  BY <1>2, <1>4, <1>5, <1>6, <1>7, SetFavoriteFollows

(* Moving a favourite moves its row along.                                 *)
LEMMA MoveFavoriteToLists ==
  ASSUME RegistryInv, NEW id \in Ids, NEW pos \in 1 .. Len(favs), MoveFavoriteTo(id, pos)
  PROVE  RegistryInv'
<1>1. State \in States /\ favs \in Lists /\ rows \in Seq(Row)
  BY StateOfLists DEF RegistryInv, RegistryType
<1>2. PICK from, s : from = Position(favs, id) /\ s = MovedTo(favs, from, pos)
  OBVIOUS
<1>3. PICK bad : bad = (from > Len(rows) \/ pos > Len(rows))
  OBVIOUS
<1>4. PICK r : r = IF bad THEN rows ELSE MovedTo(rows, from, pos)
  OBVIOUS
<1>5. PICK q : q = [Store(State, s) EXCEPT !.rows = r, !.stuck = bad]
  OBVIOUS
<1>6. from # 0 /\ phase = "loaded" /\ Report(Store(State, s)) /\ UNCHANGED <<installed, phase, listing, tangled>>
  BY <1>2 DEF MoveFavoriteTo, Command
<1>7. SetState(q)
  <2>1. Store(State, s).rows = rows
    BY DEF Store, State
  <2>2. QED
    BY <1>2, <1>3, <1>4, <1>5, <2>1 DEF MoveFavoriteTo
<1>8. favs \in Seq(Ids) /\ IsInjective(favs) /\ from \in 1 .. Len(favs) /\ Len(favs) \in Nat /\ Len(rows) \in Nat
  <2>1. favs \in Seq(Ids) /\ IsInjective(favs)
    BY <1>1 DEF Lists
  <2>2. QED
    BY <1>1, <1>2, <1>6, <2>1, PositionProperties, LenProperties
<1>9. s \in Lists
  BY <1>2, <1>8, MovedRange DEF MovedTo, Lists
<1>10. ASSUME ~bad PROVE r \in Seq(Row) /\ IdsOf(r) = MovedTo(IdsOf(rows), from, pos)
  <2>1. from \in 1 .. Len(rows) /\ pos \in 1 .. Len(rows)
    <3>1. ~(from > Len(rows) \/ pos > Len(rows))
      BY <1>3, <1>10, Zenon
    <3>2. QED
      BY <1>8, <3>1
  <2>2. QED
    BY <1>1, <1>4, <1>10, <2>1, RowsHaveIds, IdsOfMovedTo
<1>11. r \in Seq(Row) /\ bad \in BOOLEAN
  BY <1>1, <1>3, <1>4, <1>10
<1>12. /\ q \in States /\ q.favs = s /\ q.stored = s /\ q.rows = r /\ q.stuck = bad
       /\ q.cached = cached /\ q.shown = shown
  BY <1>1, <1>5, <1>9, <1>11 DEF Store, State, States
<1>13. ASSUME ~tangled' PROVE ~q.stuck /\ IsInjective(IdsOf(q.rows)) /\ IdsOf(q.rows) = q.favs
  <2>1. IdsOf(rows) = favs
    BY <1>6, <1>13 DEF RegistryInv, DashFollows
  <2>2. Len(rows) = Len(favs)
    BY <1>1, <2>1, RowsHaveIds, IdsOfProperties
  <2>3. ~bad
    <3>1. ~(from > Len(rows) \/ pos > Len(rows))
      BY <1>8, <2>2
    <3>2. QED
      BY <1>3, <3>1, Zenon
  <2>4. IdsOf(r) = s
    BY <1>2, <1>10, <2>1, <2>3
  <2>5. QED
    BY <1>9, <1>12, <2>3, <2>4 DEF Lists
<1>14. reported' \in BOOLEAN /\ tangled' \in BOOLEAN
  <2>1. Store(State, s).wrote = TRUE
    BY DEF Store, State
  <2>2. reported \in BOOLEAN /\ tangled \in BOOLEAN
    BY DEF RegistryInv, RegistryType
  <2>3. QED
    BY <1>6, <2>1, <2>2 DEF Report
<1>15. /\ listing' \in Listings /\ (listing'.kind = "refresh" => phase = "loaded")
       /\ Shows(q.shown, cached)
  BY <1>6, <1>12 DEF RegistryInv, RegistryType, OverviewFollows
<1>16. QED
  BY <1>6, <1>7, <1>12, <1>13, <1>14, <1>15, ListsFollow

(* Canned queries and closed pages leave the lists of scopes alone.        *)
LEMMA PagesAside ==
  ASSUME RegistryInv, NEW q \in States, SetState(q),
         q.cached = cached, q.favs = favs, q.stored = stored, q.rows = rows, q.shown = shown,
         q.stuck = stuck, UNCHANGED <<installed, phase, reported, tangled>>,
         listing' \in Listings, listing'.kind = "refresh" => phase = "loaded"
  PROVE  RegistryInv'
<1>1. reported' \in BOOLEAN /\ tangled' \in BOOLEAN
  BY DEF RegistryInv, RegistryType
<1>2. ~reported' => q.stored = q.favs
  BY DEF RegistryInv, FavoritesStored
<1>3. phase = "loaded" => Shows(q.shown, cached)
  BY DEF RegistryInv, OverviewFollows
<1>4. ~tangled' => ~q.stuck /\ IsInjective(IdsOf(q.rows)) /\ (phase = "loaded" => IdsOf(q.rows) = q.favs)
  BY DEF RegistryInv, DashFollows
<1>5. QED
  BY <1>1, <1>2, <1>3, <1>4, ListsFollow

LEMMA ExecuteCannedQueryLists ==
  ASSUME RegistryInv, NEW id \in Ids, ExecuteCannedQuery(id)
  PROVE  RegistryInv'
<1>1. State \in States
  BY DEF RegistryInv, RegistryType
<1>2. UNCHANGED <<installed, phase, reported, tangled>>
  BY DEF ExecuteCannedQuery
<1>3. CASE Has(IdsOf(rows), id) \/ id \in cached
  <2>1. PICK q : q = FindScope(State, id)
    OBVIOUS
  <2>2. q \in States /\ \A f \in Fields \ {"temps"} : q[f] = State[f]
    BY <1>1, <2>1, FindScopeLists
  <2>3. /\ q.cached = cached /\ q.favs = favs /\ q.stored = stored /\ q.rows = rows /\ q.shown = shown
        /\ q.stuck = stuck
    BY <2>2 DEF Fields, State
  <2>4. SetState(q) /\ listing' = listing
    BY <1>3, <2>1 DEF ExecuteCannedQuery
  <2>5. listing' \in Listings /\ (listing'.kind = "refresh" => phase = "loaded")
    BY <2>4 DEF RegistryInv, RegistryType
  <2>6. QED
    BY <1>2, <2>2, <2>3, <2>4, <2>5, PagesAside
<1>4. CASE ~(Has(IdsOf(rows), id) \/ id \in cached)
  <2>1. PICK q : q = [State EXCEPT !.delayed = id]
    OBVIOUS
  <2>2. SetState(q) /\ RefreshScopeMetadata
    BY <1>4, <2>1 DEF ExecuteCannedQuery
  <2>3. /\ q \in States /\ q.cached = cached /\ q.favs = favs /\ q.stored = stored /\ q.rows = rows
        /\ q.shown = shown /\ q.stuck = stuck
    BY <1>1, <2>1 DEF State, States
  <2>4. listing' \in Listings /\ (listing'.kind = "refresh" => phase = "loaded")
    BY <2>2, ListingKept DEF RegistryInv
  <2>5. QED
    BY <1>2, <2>2, <2>3, <2>4, PagesAside
<1>5. QED
  BY <1>3, <1>4

LEMMA CloseScopeLists ==
  ASSUME RegistryInv, NEW id \in DOMAIN temps, CloseScope(id)
  PROVE  RegistryInv'
<1>1. State \in States /\ temps \in Temps
  BY StateOfLists DEF RegistryInv, RegistryType
<1>2. PICK t : t = [x \in DOMAIN temps \ {id} |-> temps[x]]
  OBVIOUS
<1>3. t \in Temps
  <2>1. PICK D \in SUBSET Ids : temps \in [D -> BOOLEAN]
    BY <1>1 DEF Temps
  <2>2. t \in [D \ {id} -> BOOLEAN] /\ D \ {id} \in SUBSET Ids
    BY <1>2, <2>1
  <2>3. QED
    BY <2>2 DEF Temps
<1>4. PICK q : q = [State EXCEPT !.temps = t]
  OBVIOUS
<1>5. SetState(q) /\ UNCHANGED <<installed, phase, listing, reported, tangled>>
  BY <1>2, <1>4 DEF CloseScope
<1>6. /\ q \in States /\ q.cached = cached /\ q.favs = favs /\ q.stored = stored /\ q.rows = rows
      /\ q.shown = shown /\ q.stuck = stuck
  BY <1>1, <1>3, <1>4 DEF State, States
<1>7. listing' \in Listings /\ (listing'.kind = "refresh" => phase = "loaded")
  BY <1>5 DEF RegistryInv, RegistryType
<1>8. QED
  BY <1>5, <1>6, <1>7, PagesAside

LEMMA RegistryStep == RegistryInv /\ [Next]_vars => RegistryInv'
<1> SUFFICES ASSUME RegistryInv, [Next]_vars PROVE RegistryInv'
  OBVIOUS
<1>1. CASE PopulateScopes \/ ScopeRegistryChanged \/ UNCHANGED vars
  BY <1>1, AsideActionsInv
<1>2. CASE CompleteDiscoveryFinished
  BY <1>2, CompleteDiscoveryFinishedLists
<1>3. CASE RefreshFinished
  BY <1>3, RefreshFinishedLists
<1>4. CASE DashSettingsChanged
  BY <1>4, DashSettingsChangedLists
<1>5. ASSUME NEW b \in BOOLEAN, ScopeListWorkerRun(b) \/ DiscoveryFinished(b) PROVE RegistryInv'
  BY <1>5, AsideActionsInv, DiscoveryFinishedLists
<1>6. ASSUME NEW s \in OtherRegistries, RegistryChanges(s) PROVE RegistryInv'
  BY <1>6, AsideActionsInv
<1>7. ASSUME NEW s \in OtherFavorites, GSettingsChange(s) PROVE RegistryInv'
  BY <1>7, GSettingsChangeLists
<1>8. ASSUME NEW i \in 1 .. Len(rows), NEW b \in BOOLEAN, SetFavoriteOfRow(i, b) PROVE RegistryInv'
  BY <1>8, SetFavoriteOfRowLists
<1>9. ASSUME NEW id \in DOMAIN temps, CloseScope(id) \/ \E b \in BOOLEAN : SetFavoriteOfTemp(id, b)
      PROVE  RegistryInv'
  BY <1>9, CloseScopeLists, SetFavoriteOfTempLists
<1>10. ASSUME NEW id \in Range(shown.favorites) \cup Range(shown.other), SetFavoriteOfOverview(id)
       PROVE  RegistryInv'
  BY <1>10, SetFavoriteOfOverviewLists
<1>11. ASSUME NEW id \in Ids,
              ExecuteCannedQuery(id) \/ \E pos \in 1 .. Len(favs) : MoveFavoriteTo(id, pos)
       PROVE  RegistryInv'
  BY <1>11, ExecuteCannedQueryLists, MoveFavoriteToLists
<1>12. QED
  BY <1>1, <1>2, <1>3, <1>4, <1>5, <1>6, <1>7, <1>8, <1>9, <1>10, <1>11 DEF Next

LEMMA ListsFromInv == RegistryInv => ListsAgree
<1> SUFFICES ASSUME RegistryInv PROVE ListsAgree
  OBVIOUS
<1>1. /\ favs \in Lists /\ rows \in Seq(Row) /\ temps \in Temps /\ cached \in SUBSET Ids
      /\ delayed \in Ids \cup {NoScope}
  BY StateOfLists DEF RegistryInv, RegistryType, State, States
<1>2. Range(favs) \subseteq Ids /\ IsInjective(favs)
  BY <1>1 DEF Lists, Range
<1>3. Range(IdsOf(rows)) \subseteq Ids
  BY <1>1, RowsHaveIds, IdsOfProperties DEF Range
<1>4. DOMAIN temps \subseteq Ids
  BY <1>1 DEF Temps
<1>5. TypeOK
  BY <1>1, <1>2, <1>3, <1>4 DEF TypeOK, RegistryInv, RegistryType
<1>6. RowsAreFavorites
  BY <1>5 DEF RowsAreFavorites, RegistryInv, DashFollows, FavoritesStored
<1>7. OverviewShowsEveryScope
  BY DEF OverviewShowsEveryScope, RegistryInv, OverviewFollows, Shows
<1>8. QED
  BY <1>6, <1>7 DEF ListsAgree

(* The dash has a row for every favourite, in their order, and GSettings   *)
(* holds them; the overview offers every visible scope of the last listing *)
(* once: for every set of scopes, whatever others make of the registry and *)
(* of the favourites (scopes.cpp:427-522, overviewscope.cpp:65-146).       *)
THEOREM ListsAgreeAlways == Spec => []ListsAgree
<1>1. RegistryInv => ListsAgree
  BY ListsFromInv
<1>2. QED
  BY RegistryInit, RegistryStep, <1>1, PTL DEF Spec
=============================================================================
