--------------------------- MODULE ActivationProofs ---------------------------
(***************************************************************************)
(* Proofs about Activation, for any bounds: receivers of superseded        *)
(* requests stay silent, and the loading bar has a reason to move.         *)
(*                                                                         *)
(* Both need to know which requests may still post: Newest says that a     *)
(* receiver with a target is one of the two the page and the preview hold, *)
(* PostedOnce that a request in the queue has ended, which is why it is    *)
(* there once.                                                             *)
(***************************************************************************)
EXTENDS Activation, SequenceTheorems, FiniteSetTheorems, TLAPS

-----------------------------------------------------------------------------
(* The inductive invariant.                                                *)

(* What a login can be for.                                                *)
LoginKinds == {"activate", "widget action"}

ActivationType ==
  /\ requests \in Seq(Requests) /\ Len(requests) <= MaxRequests
  /\ queue \in Seq(1 .. Len(requests))
  /\ current \in 0 .. Len(requests) /\ lastAction \in 0 .. Len(requests)
  /\ activating \in BOOLEAN /\ processing \in BOOLEAN
  /\ searching \in BOOLEAN /\ bar \in BOOLEAN
  /\ preview \in {"none", "loading", "loaded"}
  /\ login \in [stage : {"none", "token", "setup"}, kind : LoginKinds]

Newest ==
  \A n \in 1 .. Len(requests) : ~requests[n].silent => n \in {current, lastAction}

PostedOnce ==
  /\ \A i \in 1 .. Len(queue) : requests[queue[i]].over
  /\ \A i, j \in 1 .. Len(queue) : queue[i] = queue[j] => i = j

BarHasReason == bar => searching \/ login.stage = "token"

AInv == ActivationType /\ Newest /\ PostedOnce /\ BarHasReason

-----------------------------------------------------------------------------
(* Lemmas about the operators of the model.                                *)

(* A sequence without repetitions has as many members as places.           *)
LEMMA DistinctCardinality ==
  ASSUME NEW S, NEW s \in Seq(S),
         \A i, j \in 1 .. Len(s) : s[i] = s[j] => i = j
  PROVE  Cardinality(Range(s)) = Len(s)
<1>1. Len(s) \in Nat /\ DOMAIN s = 1 .. Len(s) /\ s \in [1 .. Len(s) -> S]
  BY LenProperties
<1>2. s \in [1 .. Len(s) -> Range(s)]
  BY <1>1 DEF Range
<1>3. s \in Bijection(1 .. Len(s), Range(s))
  BY <1>1, <1>2 DEF Bijection, Injection, Surjection, IsInjective, Range
<1>4. ExistsBijection(1 .. Len(s), Range(s))
  BY <1>3 DEF ExistsBijection
<1>5. QED
  BY <1>1, <1>4, FS_CountingElements

(* invalidate() silences one receiver and changes nothing else.            *)
LEMMA InvalidatedProperties ==
  ASSUME NEW s \in Seq(Requests), NEW n \in 0 .. Len(s)
  PROVE  /\ Invalidated(s, n) \in Seq(Requests)
         /\ Len(Invalidated(s, n)) = Len(s)
         /\ \A k \in 1 .. Len(s) :
              /\ Invalidated(s, n)[k].over <=> s[k].over
              /\ Invalidated(s, n)[k].silent <=> (s[k].silent \/ k = n)
<1>1. /\ Len(s) \in Nat
      /\ \A k \in 1 .. Len(s) : s[k] \in Requests
  BY LenProperties, ElementOfSeq
<1>2. CASE n = 0
  BY <1>1, <1>2 DEF Invalidated, Requests
<1>3. CASE n # 0
  <2>a. n \in 1 .. Len(s) /\ s[n] \in Requests
    BY <1>1, <1>3
  <2>1. n \in 1 .. Len(s) /\ [s[n] EXCEPT !.silent = TRUE] \in Requests
    BY <2>a DEF Requests
  <2>2. Invalidated(s, n) = [s EXCEPT ![n] = [s[n] EXCEPT !.silent = TRUE]]
    BY <1>3 DEF Invalidated
  <2>3. /\ Invalidated(s, n) \in Seq(Requests)
        /\ Len(Invalidated(s, n)) = Len(s)
        /\ \A k \in 1 .. Len(s) :
             Invalidated(s, n)[k] = IF k = n THEN [s[n] EXCEPT !.silent = TRUE] ELSE s[k]
    BY <2>1, <2>2, ExceptSeq
  <2>4. QED
    BY <1>1, <2>1, <2>3 DEF Requests
<1>4. QED
  BY <1>2, <1>3

(* A new request is the last one, and the one it replaces falls silent.    *)
LEMMA AskedProperties ==
  ASSUME NEW s \in Seq(Requests), NEW n \in 0 .. Len(s),
         NEW kind \in Kinds, NEW fails \in BOOLEAN
  PROVE  /\ Append(Invalidated(s, n), Asked(kind, fails)) \in Seq(Requests)
         /\ Len(Append(Invalidated(s, n), Asked(kind, fails))) = Len(s) + 1
         /\ \A k \in 1 .. Len(s) :
              /\ Append(Invalidated(s, n), Asked(kind, fails))[k].over <=> s[k].over
              /\ Append(Invalidated(s, n), Asked(kind, fails))[k].silent <=> (s[k].silent \/ k = n)
<1>1. Asked(kind, fails) \in Requests
  BY DEF Asked, Requests
<1>2. /\ Len(s) \in Nat
      /\ Invalidated(s, n) \in Seq(Requests) /\ Len(Invalidated(s, n)) = Len(s)
      /\ \A k \in 1 .. Len(s) :
           /\ Invalidated(s, n)[k].over <=> s[k].over
           /\ Invalidated(s, n)[k].silent <=> (s[k].silent \/ k = n)
  BY InvalidatedProperties, LenProperties
<1>3. /\ Append(Invalidated(s, n), Asked(kind, fails)) \in Seq(Requests)
      /\ Len(Append(Invalidated(s, n), Asked(kind, fails))) = Len(s) + 1
      /\ \A k \in 1 .. Len(s) :
           Append(Invalidated(s, n), Asked(kind, fails))[k] = Invalidated(s, n)[k]
  BY <1>1, <1>2, AppendProperties
<1>4. QED
  BY <1>2, <1>3

(* The queue of a page whose requests were only added to or modified.      *)
LEMMA QueueKept ==
  ASSUME AInv, queue' = queue,
         requests' \in Seq(Requests), Len(requests) <= Len(requests'),
         \A k \in 1 .. Len(requests) : requests[k].over => requests'[k].over
  PROVE  queue' \in Seq(1 .. Len(requests')) /\ PostedOnce'
<1>1. Len(requests) \in Nat /\ Len(requests') \in Nat /\ queue \in Seq(1 .. Len(requests))
  BY LenProperties DEF AInv, ActivationType
<1>2. \A i \in 1 .. Len(queue) : queue[i] \in 1 .. Len(requests)
  BY <1>1, ElementOfSeq
<1>3. 1 .. Len(requests) \subseteq 1 .. Len(requests')
  BY <1>1
<1>4. queue \in Seq(1 .. Len(requests'))
  BY <1>1, <1>3, SeqMonotonic
<1>5. QED
  BY <1>2, <1>4 DEF AInv, PostedOnce

-----------------------------------------------------------------------------
(* The steps.                                                              *)

LEMMA InitInv == Init => AInv
<1> SUFFICES ASSUME Init PROVE AInv
  OBVIOUS
<1>1. <<>> \in Seq(Requests) /\ <<>> \in Seq(1 .. 0) /\ Len(<<>>) = 0
  BY EmptySeq
<1>2. MaxRequests \in Nat
  BY BoundsAssumption
<1>3. ActivationType
  <2>1. requests = <<>> /\ queue = <<>> /\ Len(requests) = 0
    BY <1>1 DEF Init
  <2>2. queue \in Seq(1 .. Len(requests))
    BY <1>1, <2>1
  <2>3. login \in [stage : {"none", "token", "setup"}, kind : LoginKinds]
    BY DEF Init, NoLogin, LoginKinds
  <2>4. preview \in {"none", "loading", "loaded"} /\ searching \in BOOLEAN /\ bar \in BOOLEAN
        /\ activating \in BOOLEAN /\ processing \in BOOLEAN /\ current = 0 /\ lastAction = 0
    BY DEF Init
  <2>5. requests \in Seq(Requests) /\ Len(requests) <= MaxRequests
    BY <1>1, <1>2, <2>1
  <2>6. current \in 0 .. Len(requests) /\ lastAction \in 0 .. Len(requests)
    BY <2>1, <2>4
  <2>7. QED
    BY <2>2, <2>3, <2>4, <2>5, <2>6 DEF ActivationType
<1>4. Newest /\ PostedOnce /\ BarHasReason
  BY <1>1 DEF Init, Newest, PostedOnce, BarHasReason
<1>5. QED
  BY <1>3, <1>4 DEF AInv

(* What a new request does to the receivers and to the queue: n is the     *)
(* request it supersedes.                                                  *)
LEMMA RequestAdded ==
  ASSUME AInv, NEW n \in 0 .. Len(requests), NEW k \in Kinds, NEW fails \in BOOLEAN,
         requests' = Append(Invalidated(requests, n), Asked(k, fails)),
         queue' = queue
  PROVE  /\ requests' \in Seq(Requests) /\ Len(requests') = Len(requests) + 1
         /\ \A i \in 1 .. Len(requests) :
              requests'[i].silent <=> (requests[i].silent \/ i = n)
         /\ queue' \in Seq(1 .. Len(requests')) /\ PostedOnce'
<1>1. requests \in Seq(Requests) /\ Len(requests) \in Nat
  BY LenProperties DEF AInv, ActivationType
<1>2. /\ requests' \in Seq(Requests) /\ Len(requests') = Len(requests) + 1
      /\ \A i \in 1 .. Len(requests) :
           /\ requests'[i].over <=> requests[i].over
           /\ requests'[i].silent <=> (requests[i].silent \/ i = n)
  BY <1>1, AskedProperties
<1>3. /\ Len(requests) <= Len(requests')
      /\ \A i \in 1 .. Len(requests) : requests[i].over => requests'[i].over
  BY <1>1, <1>2
<1>4. queue' \in Seq(1 .. Len(requests')) /\ PostedOnce'
  BY <1>2, <1>3, QueueKept
<1>5. QED
  BY <1>2, <1>4

(* activate() and the action of widgetTriggered(), at once or after a      *)
(* login.                                                                  *)
LEMMA StartRequest ==
  ASSUME AInv, NEW kind \in LoginKinds, NEW fails \in BOOLEAN,
         Start(kind, fails), queue' = queue
  PROVE  /\ requests' \in Seq(Requests) /\ Len(requests') <= MaxRequests
         /\ queue' \in Seq(1 .. Len(requests'))
         /\ current' \in 0 .. Len(requests') /\ lastAction' \in 0 .. Len(requests')
         /\ activating' \in BOOLEAN /\ processing' \in BOOLEAN
         /\ Newest' /\ PostedOnce'
<1>1. /\ requests \in Seq(Requests) /\ Len(requests) \in Nat /\ MaxRequests \in Nat
      /\ current \in 0 .. Len(requests) /\ lastAction \in 0 .. Len(requests)
  BY LenProperties, BoundsAssumption DEF AInv, ActivationType
<1>2. CASE kind = "activate"
  <2>1. /\ requests' = Append(Invalidated(requests, current), Asked("activate", fails))
        /\ Len(requests) < MaxRequests /\ current' = Len(requests) + 1
        /\ activating' \in BOOLEAN /\ UNCHANGED <<lastAction, processing>>
    BY <1>2 DEF Start, ActivateResult, FlagOfActivation
  <2>2. /\ requests' \in Seq(Requests) /\ Len(requests') = Len(requests) + 1
        /\ \A i \in 1 .. Len(requests) :
             requests'[i].silent <=> (requests[i].silent \/ i = current)
        /\ queue' \in Seq(1 .. Len(requests')) /\ PostedOnce'
    BY <1>1, <2>1, RequestAdded DEF Kinds
  <2>3. Newest'
    <3> SUFFICES ASSUME NEW i \in 1 .. Len(requests'), ~requests'[i].silent
                 PROVE  i \in {current', lastAction'}
      BY DEF Newest
    <3>1. CASE i \in 1 .. Len(requests)
      BY <2>1, <2>2, <3>1 DEF AInv, Newest
    <3>2. CASE i = Len(requests) + 1
      BY <2>1, <3>2
    <3>3. QED
      BY <1>1, <2>2, <3>1, <3>2
  <2>4. QED
    BY <1>1, <2>1, <2>2, <2>3 DEF AInv, ActivationType
<1>3. CASE kind = "widget action"
  <2>1. /\ requests' = Append(Invalidated(requests, lastAction), Asked("widget action", fails))
        /\ Len(requests) < MaxRequests /\ lastAction' = Len(requests) + 1
        /\ processing' \in BOOLEAN /\ UNCHANGED <<current, activating>>
    BY <1>3 DEF Start, PerformAction
  <2>2. /\ requests' \in Seq(Requests) /\ Len(requests') = Len(requests) + 1
        /\ \A i \in 1 .. Len(requests) :
             requests'[i].silent <=> (requests[i].silent \/ i = lastAction)
        /\ queue' \in Seq(1 .. Len(requests')) /\ PostedOnce'
    BY <1>1, <2>1, RequestAdded DEF Kinds
  <2>3. Newest'
    <3> SUFFICES ASSUME NEW i \in 1 .. Len(requests'), ~requests'[i].silent
                 PROVE  i \in {current', lastAction'}
      BY DEF Newest
    <3>1. CASE i \in 1 .. Len(requests)
      BY <2>1, <2>2, <3>1 DEF AInv, Newest
    <3>2. CASE i = Len(requests) + 1
      BY <2>1, <3>2
    <3>3. QED
      BY <1>1, <2>2, <3>1, <3>2
  <2>4. Len(requests) < MaxRequests /\ lastAction' = Len(requests) + 1 /\ current' = current
    BY <2>1
  <2>5. /\ Len(requests') <= MaxRequests
        /\ current' \in 0 .. Len(requests') /\ lastAction' \in 0 .. Len(requests')
    BY <1>1, <2>2, <2>4
  <2>6. activating' \in BOOLEAN /\ processing' \in BOOLEAN
    BY <2>1 DEF AInv, ActivationType
  <2>7. QED
    BY <2>2, <2>3, <2>5, <2>6
<1>4. QED
  BY <1>2, <1>3 DEF LoginKinds

(* Steps that leave the receivers and the queue alone.                     *)
LEMMA ReceiversUnchanged ==
  ASSUME AInv, UNCHANGED <<requests, current, lastAction, queue>>
  PROVE  Newest' /\ PostedOnce'
  BY DEF AInv, Newest, PostedOnce

(* The connected function of a login keeps the bar as the caller left it,  *)
(* or starts a search.                                                     *)
LEMMA LoginFinishedInv ==
  ASSUME AInv, NEW action \in PostLogin, NEW fails \in BOOLEAN, NEW barNow \in BOOLEAN,
         LoginFinished(action, fails, barNow), barNow => searching,
         UNCHANGED <<queue, preview>>
  PROVE  AInv'
<1>1. login.kind \in LoginKinds
  BY DEF AInv, ActivationType
<1>2. login' \in [stage : {"none", "token", "setup"}, kind : LoginKinds]
  BY DEF LoginFinished, NoLogin, LoginKinds
<1>3. CASE action = "Continue"
  <2>1. Start(login.kind, fails) /\ bar' = barNow /\ searching' = searching
    BY <1>3 DEF LoginFinished
  <2>2. /\ requests' \in Seq(Requests) /\ Len(requests') <= MaxRequests
        /\ queue' \in Seq(1 .. Len(requests'))
        /\ current' \in 0 .. Len(requests') /\ lastAction' \in 0 .. Len(requests')
        /\ activating' \in BOOLEAN /\ processing' \in BOOLEAN
        /\ Newest' /\ PostedOnce'
    BY <1>1, <2>1, StartRequest
  <2>3. ActivationType'
    BY <1>2, <2>1, <2>2 DEF AInv, ActivationType
  <2>4. BarHasReason'
    BY <2>1 DEF BarHasReason
  <2>5. QED
    BY <2>2, <2>3, <2>4 DEF AInv
<1>4. CASE action # "Continue"
  <2>1. /\ UNCHANGED <<requests, current, lastAction, activating, processing>>
        /\ \/ bar' = barNow /\ searching' = searching
           \/ bar' = TRUE /\ searching' = TRUE
    BY <1>4 DEF LoginFinished, PostLogin, Unstarted, StartSearch
  <2>2. ActivationType'
    BY <1>2, <2>1 DEF AInv, ActivationType
  <2>3. BarHasReason'
    BY <2>1 DEF BarHasReason
  <2>4. QED
    BY <2>1, <2>2, <2>3, ReceiversUnchanged DEF AInv
<1>5. QED
  BY <1>3, <1>4

(* Every step of Activation preserves the invariant.                       *)
LEMMA CancelActivationInv == AInv /\ CancelActivation => AInv'
<1> SUFFICES ASSUME AInv, CancelActivation PROVE AInv'
  OBVIOUS
<1>1. /\ requests \in Seq(Requests) /\ Len(requests) \in Nat
      /\ current \in 0 .. Len(requests) /\ lastAction \in 0 .. Len(requests)
  BY LenProperties DEF AInv, ActivationType
<1>2. /\ requests' = Invalidated(requests, current) /\ current' = 0
      /\ UNCHANGED <<lastAction, queue, activating, processing, preview, searching, bar, login>>
  BY DEF CancelActivation
<1>3. /\ requests' \in Seq(Requests) /\ Len(requests') = Len(requests)
      /\ \A k \in 1 .. Len(requests) :
           /\ requests'[k].over <=> requests[k].over
           /\ requests'[k].silent <=> (requests[k].silent \/ k = current)
  BY <1>1, <1>2, InvalidatedProperties
<1>4. queue' \in Seq(1 .. Len(requests')) /\ PostedOnce'
  BY <1>1, <1>2, <1>3, QueueKept
<1>5. Newest'
  BY <1>1, <1>2, <1>3 DEF AInv, Newest
<1>6. ActivationType'
  BY <1>1, <1>2, <1>3, <1>4 DEF AInv, ActivationType
<1>7. QED
  BY <1>2, <1>4, <1>5, <1>6 DEF AInv, BarHasReason

LEMMA ActivateActionInv ==
  ASSUME AInv, NEW fails \in BOOLEAN, ActivateAction(fails)
  PROVE  AInv'
<1>1. /\ requests \in Seq(Requests) /\ Len(requests) \in Nat /\ MaxRequests \in Nat
      /\ current \in 0 .. Len(requests) /\ lastAction \in 0 .. Len(requests)
  BY LenProperties, BoundsAssumption DEF AInv, ActivationType
<1>2. /\ Len(requests) < MaxRequests
      /\ current' = Len(requests) + 1
      /\ UNCHANGED <<lastAction, queue, activating, processing, preview, searching, bar, login>>
  BY DEF ActivateAction
<1>3. requests' = Append(Invalidated(requests, current), Asked("result action", fails))
  BY DEF ActivateAction
<1>4. /\ requests' \in Seq(Requests) /\ Len(requests') = Len(requests) + 1
      /\ \A i \in 1 .. Len(requests) :
           requests'[i].silent <=> (requests[i].silent \/ i = current)
      /\ queue' \in Seq(1 .. Len(requests')) /\ PostedOnce'
  BY <1>1, <1>2, <1>3, RequestAdded DEF Kinds
<1>5. Newest'
  <2> SUFFICES ASSUME NEW i \in 1 .. Len(requests'), ~requests'[i].silent
               PROVE  i \in {current', lastAction'}
    BY DEF Newest
  <2>1. CASE i \in 1 .. Len(requests)
    BY <1>2, <1>4, <2>1 DEF AInv, Newest
  <2>2. CASE i = Len(requests) + 1
    BY <1>2, <2>2
  <2>3. QED
    BY <1>1, <1>4, <2>1, <2>2
<1>6. ActivationType'
  BY <1>1, <1>2, <1>4 DEF AInv, ActivationType
<1>7. QED
  BY <1>2, <1>4, <1>5, <1>6 DEF AInv, BarHasReason

LEMMA ActivateInv ==
  ASSUME AInv, NEW kind \in LoginKinds, NEW fails \in BOOLEAN, Activate(kind, fails)
  PROVE  AInv'
<1>1. Start(kind, fails) /\ UNCHANGED <<queue, preview, searching, bar, login>>
  BY DEF Activate
<1>2. /\ requests' \in Seq(Requests) /\ Len(requests') <= MaxRequests
      /\ queue' \in Seq(1 .. Len(requests'))
      /\ current' \in 0 .. Len(requests') /\ lastAction' \in 0 .. Len(requests')
      /\ activating' \in BOOLEAN /\ processing' \in BOOLEAN
      /\ Newest' /\ PostedOnce'
  BY <1>1, StartRequest
<1>3. QED
  BY <1>1, <1>2 DEF AInv, ActivationType, BarHasReason

(* The logins: what waits for a token moves the bar, the end of the wait   *)
(* stops it.                                                               *)
LEMMA LoginInv ==
  ASSUME AInv
  PROVE  /\ \A kind \in LoginKinds : LoginToAccount(kind) => AInv'
         /\ \A action \in PostLogin, fails \in BOOLEAN : SetupFinished(action, fails) => AInv'
         /\ \A action \in PostLogin, enabled, fails \in BOOLEAN :
              TokenReceived(enabled, action, fails) => AInv'
<1>1. ASSUME NEW kind \in LoginKinds, LoginToAccount(kind) PROVE AInv'
  <2>1. /\ login' \in [stage : {"none", "token", "setup"}, kind : LoginKinds]
        /\ login'.stage = "token" /\ bar' = TRUE
        /\ UNCHANGED <<requests, current, lastAction, queue, activating, processing, preview, searching>>
    BY <1>1 DEF LoginToAccount
  <2>2. ActivationType' /\ BarHasReason'
    BY <2>1 DEF AInv, ActivationType, BarHasReason
  <2>3. QED
    BY <2>1, <2>2, ReceiversUnchanged DEF AInv
<1>2. ASSUME NEW action \in PostLogin, NEW fails \in BOOLEAN, SetupFinished(action, fails)
      PROVE  AInv'
  <2>1. /\ LoginFinished(action, fails, bar) /\ UNCHANGED <<queue, preview>>
        /\ bar \in BOOLEAN /\ (bar => searching)
    BY <1>2 DEF SetupFinished, AInv, ActivationType, BarHasReason
  <2>2. QED
    BY <2>1, LoginFinishedInv
<1>3. ASSUME NEW action \in PostLogin, NEW enabled \in BOOLEAN, NEW fails \in BOOLEAN,
             TokenReceived(enabled, action, fails)
      PROVE  AInv'
  <2>1. CASE enabled
    BY <1>3, <2>1, LoginFinishedInv DEF TokenReceived
  <2>2. CASE ~enabled
    <3>1. /\ login' = [login EXCEPT !.stage = "setup"] /\ bar' = FALSE
          /\ UNCHANGED <<requests, current, lastAction, queue, activating, processing, preview, searching>>
      BY <1>3, <2>2 DEF TokenReceived, Unstarted
    <3>2. login' \in [stage : {"none", "token", "setup"}, kind : LoginKinds]
      BY <3>1 DEF AInv, ActivationType
    <3>3. ActivationType' /\ BarHasReason'
      BY <3>1, <3>2 DEF AInv, ActivationType, BarHasReason
    <3>4. QED
      BY <3>1, <3>3, ReceiversUnchanged DEF AInv
  <2>3. QED
    BY <2>1, <2>2
<1>4. QED
  BY <1>1, <1>2, <1>3

(* The threads of the middleware: a query that ends is posted if its       *)
(* receiver still has a target.                                            *)
LEMMA ReceiverInv ==
  ASSUME AInv, NEW n \in 1 .. Len(requests)
  PROVE  /\ \A r \in Responses : Activated(n, r) => AInv'
         /\ Finished(n) => AInv'
<1>1. /\ requests \in Seq(Requests) /\ Len(requests) \in Nat /\ requests[n] \in Requests
      /\ queue \in Seq(1 .. Len(requests)) /\ Len(queue) \in Nat
      /\ \A i \in 1 .. Len(queue) : queue[i] \in 1 .. Len(requests)
  BY LenProperties, ElementOfSeq DEF AInv, ActivationType
<1>2. ASSUME NEW r \in Responses, Activated(n, r) PROVE AInv'
  <2>1. /\ requests' = [requests EXCEPT ![n] = [requests[n] EXCEPT !.response = r]]
        /\ UNCHANGED <<current, lastAction, queue, activating, processing, preview, searching, bar, login>>
    BY <1>2 DEF Activated
  <2>2. [requests[n] EXCEPT !.response = r] \in Requests
    BY <1>1 DEF Requests
  <2>3. /\ requests' \in Seq(Requests) /\ Len(requests') = Len(requests)
        /\ \A k \in 1 .. Len(requests) :
             requests'[k] = IF k = n THEN [requests[n] EXCEPT !.response = r] ELSE requests[k]
    BY <1>1, <2>1, <2>2, ExceptSeq
  <2>4. \A k \in 1 .. Len(requests) :
          /\ requests'[k].over <=> requests[k].over
          /\ requests'[k].silent <=> requests[k].silent
    BY <1>1, <2>3 DEF Requests
  <2>5. queue' \in Seq(1 .. Len(requests')) /\ PostedOnce'
    BY <1>1, <2>1, <2>3, <2>4, QueueKept
  <2>6. Newest'
    BY <2>1, <2>3, <2>4 DEF AInv, Newest
  <2>7. ActivationType' /\ BarHasReason'
    BY <2>1, <2>3, <2>5 DEF AInv, ActivationType, BarHasReason
  <2>8. QED
    BY <2>5, <2>6, <2>7 DEF AInv
<1>3. ASSUME Finished(n) PROVE AInv'
  <2>1. /\ requests' = [requests EXCEPT ![n] = [requests[n] EXCEPT !.over = TRUE]]
        /\ ~requests[n].over
        /\ queue' = IF requests[n].silent THEN queue ELSE Append(queue, n)
        /\ UNCHANGED <<current, lastAction, activating, processing, preview, searching, bar, login>>
    BY <1>3 DEF Finished
  <2>2. [requests[n] EXCEPT !.over = TRUE] \in Requests
    BY <1>1 DEF Requests
  <2>3. /\ requests' \in Seq(Requests) /\ Len(requests') = Len(requests)
        /\ \A k \in 1 .. Len(requests) :
             requests'[k] = IF k = n THEN [requests[n] EXCEPT !.over = TRUE] ELSE requests[k]
    BY <1>1, <2>1, <2>2, ExceptSeq
  <2>4. \A k \in 1 .. Len(requests) :
          /\ requests'[k].over <=> (requests[k].over \/ k = n)
          /\ requests'[k].silent <=> requests[k].silent
    BY <1>1, <2>3 DEF Requests
  <2>5. \A i \in 1 .. Len(queue) : queue[i] # n
    BY <1>1, <2>1 DEF AInv, PostedOnce
  <2>6. queue' \in Seq(1 .. Len(requests')) /\ PostedOnce'
    <3>1. CASE requests[n].silent
      BY <1>1, <2>1, <2>3, <2>4, <3>1 DEF AInv, PostedOnce
    <3>2. CASE ~requests[n].silent
      <4>1. /\ queue' \in Seq(1 .. Len(requests)) /\ Len(queue') = Len(queue) + 1
            /\ \A i \in 1 .. Len(queue) : queue'[i] = queue[i]
            /\ queue'[Len(queue) + 1] = n
        BY <1>1, <2>1, <3>2, AppendProperties
      <4>2. \A i \in 1 .. Len(queue') :
              \/ i \in 1 .. Len(queue) /\ queue'[i] = queue[i]
              \/ i = Len(queue) + 1 /\ queue'[i] = n
        BY <1>1, <4>1
      <4>3. \A i \in 1 .. Len(queue') : requests'[queue'[i]].over
        BY <1>1, <2>4, <4>2 DEF AInv, PostedOnce
      <4>4. \A i, j \in 1 .. Len(queue') : queue'[i] = queue'[j] => i = j
        BY <2>5, <4>2 DEF AInv, PostedOnce
      <4>5. QED
        BY <2>3, <4>1, <4>3, <4>4 DEF PostedOnce
    <3>3. QED
      BY <3>1, <3>2
  <2>7. Newest'
    BY <2>1, <2>3, <2>4 DEF AInv, Newest
  <2>8. ActivationType' /\ BarHasReason'
    BY <2>1, <2>3, <2>6 DEF AInv, ActivationType, BarHasReason
  <2>9. QED
    BY <2>6, <2>7, <2>8 DEF AInv
<1>4. QED
  BY <1>2, <1>3

(* An event is handled.                                                    *)
LEMMA HandleInv == AInv /\ Handle => AInv'
<1> SUFFICES ASSUME AInv, Handle PROVE AInv'
  OBVIOUS
<1>1. /\ queue # <<>> /\ queue' = Tail(queue)
      /\ UNCHANGED <<requests, current, lastAction, searching, bar, login>>
  BY DEF Handle, HandleActivation, ProcessActionResponse
<1>2. /\ activating' \in BOOLEAN /\ processing' \in BOOLEAN
      /\ preview' \in {"none", "loading", "loaded"}
  BY DEF Handle, HandleActivation, ProcessActionResponse, DispatchPreview, AInv, ActivationType
<1>3. queue \in Seq(1 .. Len(requests)) /\ Len(queue) \in Nat
  BY LenProperties DEF AInv, ActivationType
<1>4. /\ queue' \in Seq(1 .. Len(requests)) /\ Len(queue') = Len(queue) - 1
      /\ \A i \in 1 .. Len(queue') : queue'[i] = queue[i + 1]
  BY <1>1, <1>3, HeadTailProperties
<1>5. \A i \in 1 .. Len(queue') : i + 1 \in 1 .. Len(queue)
  BY <1>3, <1>4
<1>6. \A i, j \in 1 .. Len(queue') : queue'[i] = queue'[j] => i = j
  <2> SUFFICES ASSUME NEW i \in 1 .. Len(queue'), NEW j \in 1 .. Len(queue'), queue'[i] = queue'[j]
               PROVE  i = j
    OBVIOUS
  <2>1. i + 1 = j + 1
    BY <1>4, <1>5 DEF AInv, PostedOnce
  <2>2. QED
    BY <2>1, <1>3, <1>4
<1>7. PostedOnce'
  BY <1>1, <1>4, <1>5, <1>6 DEF AInv, PostedOnce
<1>8. Newest' /\ BarHasReason' /\ ActivationType'
  BY <1>1, <1>2, <1>4 DEF AInv, Newest, BarHasReason, ActivationType
<1>9. QED
  BY <1>7, <1>8 DEF AInv

LEMMA NextInv == AInv /\ [Next]_vars => AInv'
<1> SUFFICES ASSUME AInv, [Next]_vars PROVE AInv'
  OBVIOUS
<1>1. CASE CancelActivation
  BY <1>1, CancelActivationInv
<1>2. CASE LoadForResult
  BY <1>2, ReceiversUnchanged
     DEF LoadForResult, DispatchPreview, AInv, ActivationType, BarHasReason
<1>3. CASE DispatchSearch
  BY <1>3, ReceiversUnchanged
     DEF DispatchSearch, StartSearch, AInv, ActivationType, BarHasReason
<1>4. CASE SearchFinished
  BY <1>4, ReceiversUnchanged DEF SearchFinished, AInv, ActivationType, BarHasReason
<1>5. CASE Handle
  BY <1>5, HandleInv
<1>6. CASE \E fails \in BOOLEAN : ActivateAction(fails)
  BY <1>6, ActivateActionInv
<1>7. CASE \E fails \in BOOLEAN, kind \in LoginKinds : Activate(kind, fails)
  BY <1>7, ActivateInv
<1>8. CASE \E fails \in BOOLEAN, action \in PostLogin :
             \/ SetupFinished(action, fails)
             \/ \E enabled \in BOOLEAN : TokenReceived(enabled, action, fails)
  BY <1>8, LoginInv
<1>9. CASE \E kind \in LoginKinds : LoginToAccount(kind)
  BY <1>9, LoginInv
<1>10. CASE \E n \in 1 .. Len(requests) : Finished(n) \/ \E r \in Responses : Activated(n, r)
  BY <1>10, ReceiverInv
<1>11. CASE \E b \in BOOLEAN : ProcessPreviewChunk(b)
  <2>1. /\ UNCHANGED <<requests, current, lastAction, queue, activating, searching, bar, login>>
        /\ processing' = FALSE /\ preview' \in {"none", "loading", "loaded"}
    BY <1>11 DEF ProcessPreviewChunk
  <2>2. Newest' /\ PostedOnce'
    BY <2>1, ReceiversUnchanged
  <2>3. QED
    BY <2>1, <2>2 DEF AInv, ActivationType, BarHasReason
<1>12. CASE UNCHANGED vars
  BY <1>12, ReceiversUnchanged DEF vars, AInv, ActivationType, BarHasReason
<1>13. QED
  BY <1>1, <1>2, <1>3, <1>4, <1>5, <1>6, <1>7, <1>8, <1>9, <1>10, <1>11, <1>12
     DEF Next, LoginKinds

(* AInv holds of every reachable state.                                    *)
THEOREM ActivationInvariant == Spec => []AInv
<1>1. QED
  BY InitInv, NextInv, PTL DEF Spec

-----------------------------------------------------------------------------
(* The theorems.                                                           *)

(* The loading bar moves only for a search or for a token, and the state   *)
(* keeps its type, whatever the order of searches, logins and answers.     *)
THEOREM BarStopsAlways == Spec => []BarStops
<1>1. AInv => BarStops
  <2> SUFFICES ASSUME AInv PROVE BarStops
    OBVIOUS
  <2>1. queue \in Seq(1 .. Len(requests)) /\ Len(queue) \in Nat /\ DOMAIN queue = 1 .. Len(queue)
    BY LenProperties DEF AInv, ActivationType
  <2>2. Cardinality(Range(queue)) = Len(queue)
    BY <2>1, DistinctCardinality DEF AInv, PostedOnce
  <2>3. Range(queue) \subseteq 1 .. Len(requests)
    BY <2>1, ElementOfSeq DEF Range
  <2>4. Len(requests) \in Nat
    BY LenProperties DEF AInv, ActivationType
  <2>5. {current, lastAction} \cup Range(queue) \subseteq 0 .. Len(requests)
    BY <2>3, <2>4 DEF AInv, ActivationType
  <2>6. TypeOK
    BY <2>2, <2>5 DEF AInv, ActivationType, TypeOK
  <2>7. QED
    BY <2>6 DEF AInv, BarHasReason, BarStops
<1>2. QED
  BY ActivationInvariant, <1>1, PTL

(* No receiver posts an event except those of the newest request of the    *)
(* page and of the newest one of the preview.                              *)
THEOREM SupersededStaysSilentAlways == Spec => SupersededStaysSilent
<1>1. AInv /\ [Next]_vars => [Range(queue') \ Range(queue) \subseteq {current, lastAction}]_vars
  <2> SUFFICES ASSUME AInv, [Next]_vars
               PROVE  Range(queue') \ Range(queue) \subseteq {current, lastAction}
    OBVIOUS
  <2>1. queue \in Seq(1 .. Len(requests)) /\ Len(queue) \in Nat /\ DOMAIN queue = 1 .. Len(queue)
    BY LenProperties DEF AInv, ActivationType
  <2>2. CASE queue' = queue
    BY <2>2
  <2>3. CASE queue # <<>> /\ queue' = Tail(queue)
    <3>1. /\ DOMAIN queue' = 1 .. Len(queue) - 1
          /\ \A i \in 1 .. Len(queue) - 1 : queue'[i] = queue[i + 1]
      BY <2>1, <2>3, HeadTailProperties, LenProperties
    <3>2. Range(queue') \subseteq Range(queue)
      <4> SUFFICES ASSUME NEW i \in 1 .. Len(queue) - 1
                   PROVE  queue'[i] \in Range(queue)
        BY <3>1 DEF Range
      <4>1. i + 1 \in 1 .. Len(queue) /\ queue'[i] = queue[i + 1]
        BY <2>1, <3>1
      <4>2. QED
        BY <2>1, <4>1 DEF Range
    <3>3. QED
      BY <3>2
  <2>4. ASSUME NEW n \in 1 .. Len(requests), ~requests[n].silent, queue' = Append(queue, n)
        PROVE  Range(queue') \ Range(queue) \subseteq {current, lastAction}
    <3>1. /\ DOMAIN queue' = 1 .. Len(queue) + 1
          /\ \A i \in 1 .. Len(queue) : queue'[i] = queue[i]
          /\ queue'[Len(queue) + 1] = n
      BY <2>1, <2>4, AppendProperties, LenProperties
    <3>2. Range(queue') \subseteq Range(queue) \cup {n}
      <4> SUFFICES ASSUME NEW i \in 1 .. Len(queue) + 1
                   PROVE  queue'[i] \in Range(queue) \cup {n}
        BY <3>1 DEF Range
      <4>1. CASE i \in 1 .. Len(queue)
        BY <2>1, <3>1, <4>1 DEF Range
      <4>2. CASE i = Len(queue) + 1
        BY <3>1, <4>2
      <4>3. QED
        BY <2>1, <4>1, <4>2
    <3>3. n \in {current, lastAction}
      BY <2>4 DEF AInv, Newest
    <3>4. QED
      BY <3>2, <3>3
  <2>5. \/ queue' = queue
        \/ queue # <<>> /\ queue' = Tail(queue)
        \/ \E n \in 1 .. Len(requests) : ~requests[n].silent /\ queue' = Append(queue, n)
    BY DEF Next, vars, CancelActivation, LoadForResult, DispatchSearch, SearchFinished, Handle,
       HandleActivation, ProcessActionResponse, ActivateAction, Activate, SetupFinished,
       TokenReceived, LoginToAccount, Finished, Activated, ProcessPreviewChunk
  <2>6. QED
    BY <2>2, <2>3, <2>4, <2>5
<1>2. QED
  BY ActivationInvariant, <1>1, PTL DEF Spec, SupersededStaysSilent
=============================================================================
