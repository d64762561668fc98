------------------------ MODULE SearchPipelineProofs ------------------------
(***************************************************************************)
(* Proofs about SearchPipeline, for any set of threads and any bounds.     *)
(*                                                                         *)
(* The properties are not inductive by themselves.  IInv adds what the     *)
(* code relies on: which searches an event or a busy thread can belong to, *)
(* what m_posted says about the queue, and that a final status is the one  *)
(* finished() was called with.                                             *)
(***************************************************************************)
EXTENDS SearchPipeline, SequenceTheorems, TLAPS

-----------------------------------------------------------------------------
(* The inductive invariant.                                                *)

IsFinished(q) == finishedWith[q] # NotFinished
Submitting(t, q) == worker[t].at = "submit" /\ worker[t].search = q

(* Threads and events belong to searches that were started, and a search   *)
(* that was not started yet is untouched.                                  *)
Started ==
  /\ \A q \in Queries : launched[q] => q <= query
  /\ \A q \in Queries : ~launched[q] =>
       /\ buffer[q] = <<>> /\ pushed[q] = <<>>
       /\ ~posted[q] /\ ~IsFinished(q)
       /\ ~InEvents(q) /\ \A t \in Threads : ~Serving(t, q)
  /\ \A q \in Queries : q > query => status[q] = "INCOMPLETE" /\ annotations[q] = {}
  /\ searchInProgress => query > 0 /\ launched[query]

(* Only the present search has a receiver, unless the Scope is gone.       *)
Attached ==
  /\ \A q \in Queries : receiver[q] => q = query /\ uiAt # "gone"
  /\ query > 0 /\ uiAt # "gone" => receiver[query]
  /\ uiAt = "gone" => events = <<>>

(* Superseded collectors are cancelled; the present one is not while the   *)
(* event loop runs, and is when the UI thread is busy replacing it.        *)
Cancellation ==
  /\ \A q \in Queries : launched[q] /\ q # query => status[q] = "CANCELLED"
  /\ query > 0 => (status[query] = "CANCELLED" <=> uiAt # "loop")
  /\ \A q \in Queries : receiver[q] => finishedWith[q].outcome # "Cancelled"

(* A final status comes from finished(), whose caller is the only thread   *)
(* still serving the search until it has submitted it.                     *)
FinalStatus ==
  /\ \A q \in Queries : status[q] \notin {"INCOMPLETE", "CANCELLED"} =>
       IsFinished(q) /\ status[q] = GetStatus(finishedWith[q])
  /\ \A t \in Threads, q \in Queries :
       Submitting(t, q) /\ worker[t].status # "INCOMPLETE" =>
         IsFinished(q) /\ worker[t].status = GetStatus(finishedWith[q])
  /\ \A t \in Threads, q \in Queries : Submitting(t, q) /\ IsFinished(q) =>
       /\ worker[t].status # "INCOMPLETE"
       /\ status[q] \in {"INCOMPLETE", "CANCELLED"}
       /\ \A u \in Threads : Serving(u, q) => u = t
  /\ \A q \in Queries : IsFinished(q) /\ (status[q] = "INCOMPLETE" \/ ~posted[q]) =>
       \E t \in Threads : Submitting(t, q)

(* What m_posted says.                                                     *)
PostedFlag ==
  /\ \A q \in Queries : InEvents(q) => posted[q]
  /\ \A t \in Threads, q \in Queries : Posting(t, q) => posted[q]
  /\ \A q \in Queries : receiver[q] /\ searchInProgress /\ posted[q] =>
       InEvents(q) \/ \E t \in Threads : Posting(t, q)
  /\ \A q \in Queries : receiver[q] /\ searchInProgress /\ ~posted[q] /\ buffer[q] # <<>> =>
       \E t \in Threads : Submitting(t, q)

(* A search that has ended leaves nothing behind in the pipeline, and no   *)
(* delay timer that would reset the status of the Scope.                   *)
Ended ==
  query > 0 /\ launched[query] /\ ~searchInProgress =>
    /\ ~delayTimer
    /\ IsFinished(query)
    /\ status[query] # "INCOMPLETE"
    /\ buffer[query] = <<>>
    /\ ~InEvents(query)
    /\ \A t \in Threads : ~Serving(t, query)

IInv ==
  /\ TypeOK
  /\ Started
  /\ Attached
  /\ Cancellation
  /\ FinalStatus
  /\ OneEventPerCollector
  /\ PostedFlag
  /\ Ended
  /\ ExactlyOnce
  /\ EndedIsComplete

-----------------------------------------------------------------------------
(* Type correctness.                                                       *)

(* What submit() is given and what the page shows stay in their types.     *)
LEMMA StatusTypes ==
  /\ \A d \in Details : GetStatus(d) \in Status \ {"INCOMPLETE"}
  /\ \A d \in Details : GetStatus(d) = "CANCELLED" => d.outcome = "Cancelled"
  /\ \A st \in Status : StatusShown(st) \in ScopeStatus
<1>1. ASSUME NEW d \in Details
      PROVE  /\ GetStatus(d) \in Status \ {"INCOMPLETE"}
             /\ GetStatus(d) = "CANCELLED" => d.outcome = "Cancelled"
  BY DEF GetStatus, Status
<1>2. ASSUME NEW st \in Status PROVE StatusShown(st) \in ScopeStatus
  BY DEF StatusShown, ScopeStatus
<1>3. QED
  BY <1>1, <1>2

LEMMA QueriesAreNat == Queries \subseteq Nat /\ MaxQueries \in Nat /\ MaxResults \in Nat
  BY BoundsAssumption DEF Queries

LEMMA InitType == Init => TypeOK
<1> SUFFICES ASSUME Init PROVE TypeOK
  OBVIOUS
<1> USE QueriesAreNat
<1>1. Idle \in [at : {"idle", "submit", "post"}, search : 0 .. MaxQueries, status : Status]
  BY DEF Idle, Status
<1>2. <<>> \in Seq(ResultTokens) /\ <<>> \in Seq(Queries)
  OBVIOUS
<1>3. QED
  BY <1>1, <1>2 DEF Init, TypeOK, Status, ScopeStatus, Idle

LEMMA FlushType ==
  ASSUME TypeOK,
         NEW finalize \in BOOLEAN, NEW results \in Seq(ResultTokens), NEW annots \in SUBSET Pairs,
         FlushUpdates(finalize, results, annots)
  PROVE  /\ cached' \in Seq(ResultTokens)
         /\ applied' \in Seq(ResultTokens)
         /\ visible' \in Seq(ResultTokens)
         /\ shown' \subseteq Pairs
<1>1. applied \o results \in Seq(ResultTokens)
  BY DEF TypeOK
<1>2. CASE results = <<>> /\ ~finalize
  BY <1>2 DEF FlushUpdates, TypeOK
<1>3. CASE ~(results = <<>> /\ ~finalize)
  <2>1. /\ cached' = <<>>
        /\ applied' = IF finalize THEN <<>> ELSE applied \o results
        /\ visible' = applied \o results
    BY <1>3 DEF FlushUpdates
  <2>2. shown' \subseteq annots \cup shown
    BY <1>3 DEF FlushUpdates
  <2>3. QED
    BY <1>1, <2>1, <2>2 DEF TypeOK
<1>4. QED
  BY <1>2, <1>3

LEMMA NextType == TypeOK /\ [Next]_vars => TypeOK'
<1> SUFFICES ASSUME TypeOK, [Next]_vars PROVE TypeOK'
  OBVIOUS
<1> USE QueriesAreNat
<1>1. ASSUME NEW t \in Threads, NEW q \in Queries, PushResult(t, q) PROVE TypeOK'
  <2>1. <<q, Len(pushed[q]) + 1>> \in ResultTokens
    BY <1>1 DEF PushResult, ResultTokens, TypeOK
  <2>2. /\ buffer' \in [Queries -> Seq(ResultTokens)]
        /\ pushed' \in [Queries -> Seq(ResultTokens)]
    BY <1>1, <2>1 DEF PushResult, TypeOK
  <2>3. /\ worker' \in [Threads -> [at : {"idle", "submit", "post"}, search : 0 .. MaxQueries,
                                    status : Status]]
        /\ \A u \in Threads : worker'[u].at # "idle" => worker'[u].search \in Queries
    BY <1>1 DEF PushResult, TypeOK, Idle, Status, Queries
  <2>4. QED
    BY <1>1, <2>2, <2>3 DEF PushResult, TypeOK, searchVars, modelVars
<1>2. ASSUME NEW q \in Queries, NEW a \in Annotations, PushAnnotation(q, a) PROVE TypeOK'
  <2>1. annotations' \in [Queries -> SUBSET Annotations]
    BY <1>2 DEF PushAnnotation, TypeOK
  <2>2. QED
    BY <1>2, <2>1 DEF PushAnnotation, TypeOK, searchVars, modelVars, middlewareVars
<1>3. ASSUME NEW t \in Threads, NEW q \in Queries, NEW d \in Details, Finished(t, q, d)
      PROVE TypeOK'
  <2>1. /\ worker' \in [Threads -> [at : {"idle", "submit", "post"}, search : 0 .. MaxQueries,
                                    status : Status]]
        /\ \A u \in Threads : worker'[u].at # "idle" => worker'[u].search \in Queries
    BY <1>3, StatusTypes DEF Finished, TypeOK, Queries
  <2>2. finishedWith' \in [Queries -> Details \cup {NotFinished}]
    BY <1>3 DEF Finished, TypeOK
  <2>3. QED
    BY <1>3, <2>1, <2>2 DEF Finished, TypeOK, searchVars, modelVars, collectorVars
<1>4. ASSUME NEW t \in Threads, Submit(t) PROVE TypeOK'
  <2>1. worker[t].search \in Queries /\ worker[t].status \in Status
    BY <1>4 DEF Submit, TypeOK
  <2>2. /\ worker' \in [Threads -> [at : {"idle", "submit", "post"}, search : 0 .. MaxQueries,
                                    status : Status]]
        /\ \A u \in Threads : worker'[u].at # "idle" => worker'[u].search \in Queries
    <3>1. [worker[t] EXCEPT !.at = "post"] \in
            [at : {"idle", "submit", "post"}, search : 0 .. MaxQueries, status : Status]
      BY DEF TypeOK
    <3>2. Idle \in [at : {"idle", "submit", "post"}, search : 0 .. MaxQueries, status : Status]
      BY DEF Idle, Status
    <3>3. [worker[t] EXCEPT !.at = "post"].search = worker[t].search
      BY DEF TypeOK
    <3>5. \A u \in Threads \ {t} : worker'[u] = worker[u]
      BY <1>4 DEF Submit, TypeOK
    <3>6. worker'[t] \in {Idle, [worker[t] EXCEPT !.at = "post"]}
      BY <1>4 DEF Submit, TypeOK
    <3>7. DOMAIN worker' = Threads /\ worker' = [u \in Threads |-> worker'[u]]
      BY <1>4 DEF Submit, TypeOK
    <3>8. QED
      <4> DEFINE W == [at : {"idle", "submit", "post"}, search : 0 .. MaxQueries,
                       status : Status]
      <4>1. \A u \in Threads : worker'[u] \in W
        BY <3>1, <3>2, <3>5, <3>6 DEF TypeOK
      <4>2. worker' \in [Threads -> W]
        BY <3>7, <4>1
      <4>3. \A u \in Threads : worker'[u].at # "idle" => worker'[u].search \in Queries
        <5>1. \A u \in Threads \ {t} : worker'[u].at # "idle" => worker'[u].search \in Queries
          BY <3>5 DEF TypeOK
        <5>2. worker'[t] = Idle => worker'[t].at = "idle"
          BY DEF Idle
        <5>3. worker'[t] = [worker[t] EXCEPT !.at = "post"] => worker'[t].search \in Queries
          BY <2>1, <3>3
        <5>4. QED
          BY <3>6, <5>1, <5>2, <5>3
      <4>4. QED
        BY <4>2, <4>3
  <2>3. status' \in [Queries -> Status] /\ posted' \in [Queries -> BOOLEAN]
    BY <1>4, <2>1 DEF Submit, TypeOK
  <2>4. QED
    BY <1>4, <2>2, <2>3 DEF Submit, TypeOK, searchVars, modelVars
<1>5. ASSUME NEW t \in Threads, PostEvent(t) PROVE TypeOK'
  <2>1. worker[t].search \in Queries
    BY <1>5 DEF PostEvent, TypeOK
  <2>2. events' \in Seq(Queries)
    BY <1>5, <2>1 DEF PostEvent, TypeOK
  <2>3. /\ worker' \in [Threads -> [at : {"idle", "submit", "post"}, search : 0 .. MaxQueries,
                                    status : Status]]
        /\ \A u \in Threads : worker'[u].at # "idle" => worker'[u].search \in Queries
    BY <1>5 DEF PostEvent, TypeOK, Idle, Status
  <2>4. QED
    BY <1>5, <2>2, <2>3 DEF PostEvent, TypeOK, searchVars, modelVars, collectorVars
<1>6. CASE BeginDispatch
  <2>1. status' \in [Queries -> Status]
    BY <1>6 DEF BeginDispatch, InvalidateCollector, TypeOK, Status
  <2>2. QED
    BY <1>6, <2>1 DEF BeginDispatch, TypeOK, searchVars, modelVars, middlewareVars
<1>7. ASSUME NEW accepted \in BOOLEAN, EndDispatch(accepted) PROVE TypeOK'
  <2>1. Detached \in [Queries -> BOOLEAN]
    BY DEF Detached, TypeOK
  <2>2. query < MaxQueries /\ query + 1 \in Queries /\ query' = query + 1 /\ uiAt' = "loop"
    BY <1>7 DEF EndDispatch, TypeOK, Queries
  <2>3. receiver' \in [Queries -> BOOLEAN] /\ launched' \in [Queries -> BOOLEAN]
    BY <1>7, <2>1 DEF EndDispatch, TypeOK
  <2>4. query' \in 0 .. MaxQueries
    BY <2>2 DEF TypeOK
  <2>5. QED
    BY <1>7, <2>2, <2>3, <2>4 DEF EndDispatch, TypeOK, collectorVars
<1>8. CASE ProcessSearchChunk
  <2> DEFINE q == Head(events)
             results == cached \o buffer[q]
             annots == {q} \X annotations[q]
  <2>1. q \in Queries /\ events' \in Seq(Queries)
    BY <1>8 DEF ProcessSearchChunk, TypeOK
  <2>2. results \in Seq(ResultTokens)
    <3>1. cached \in Seq(ResultTokens) /\ buffer[q] \in Seq(ResultTokens)
      BY <2>1 DEF TypeOK
    <3>2. QED
      BY <3>1, ConcatProperties
  <2>3. annots \subseteq Pairs
    BY <2>1 DEF TypeOK, Pairs
  <2>4. /\ posted' \in [Queries -> BOOLEAN]
        /\ buffer' \in [Queries -> Seq(ResultTokens)]
        /\ status' = status /\ annotations' = annotations
    BY <1>8, <2>1 DEF ProcessSearchChunk, Collect, TypeOK
  <2>5. CASE status[q] = "CANCELLED" /\ UNCHANGED <<searchVars, modelVars>>
    BY <1>8, <2>1, <2>4, <2>5 DEF ProcessSearchChunk, TypeOK, searchVars, modelVars,
       middlewareVars
  <2>6. CASE CacheChunk(results, annots)
    BY <1>8, <2>1, <2>2, <2>3, <2>4, <2>6 DEF ProcessSearchChunk, CacheChunk, TypeOK,
       middlewareVars
  <2>7. CASE EndSearch(status[q], results, annots)
    <3>1. /\ cached' \in Seq(ResultTokens) /\ applied' \in Seq(ResultTokens)
          /\ visible' \in Seq(ResultTokens) /\ shown' \subseteq Pairs
      BY <2>2, <2>3, <2>7, FlushType DEF EndSearch
    <3>2. scopeStatus' \in ScopeStatus
      BY <2>1, <2>7, StatusTypes DEF EndSearch, TypeOK
    <3>3. QED
      BY <1>8, <2>1, <2>3, <2>4, <2>7, <3>1, <3>2 DEF ProcessSearchChunk, EndSearch, TypeOK,
         middlewareVars
  <2>8. QED
    BY <1>8, <2>5, <2>6, <2>7 DEF ProcessSearchChunk
<1>9. CASE DelayTimeout
  <2>1. /\ cached' \in Seq(ResultTokens) /\ applied' \in Seq(ResultTokens)
        /\ visible' \in Seq(ResultTokens) /\ shown' \subseteq Pairs
    BY <1>9, FlushType DEF DelayTimeout, TypeOK
  <2>2. QED
    BY <1>9, <2>1 DEF DelayTimeout, TypeOK, ScopeStatus, collectorVars, middlewareVars
<1>10. CASE TtlTimeout
  BY <1>10 DEF TtlTimeout, TypeOK, collectorVars, middlewareVars, modelVars
<1>11. CASE BeginDestroy
  <2>1. status' \in [Queries -> Status]
    BY <1>11 DEF BeginDestroy, InvalidateCollector, TypeOK, Status
  <2>2. QED
    BY <1>11, <2>1 DEF BeginDestroy, TypeOK, searchVars, modelVars, middlewareVars
<1>12. CASE EndDestroy
  BY <1>12 DEF EndDestroy, Detached, TypeOK, collectorVars, middlewareVars, searchVars,
     modelVars
<1>13. CASE UNCHANGED vars
  BY <1>13 DEF vars, TypeOK, collectorVars, middlewareVars, searchVars, modelVars
<1>14. QED
  BY <1>1, <1>2, <1>3, <1>4, <1>5, <1>6, <1>7, <1>8, <1>9, <1>10, <1>11, <1>12, <1>13 DEF
     Next, Middleware, UI

(* Type correctness of the pipeline, for any threads and bounds.           *)
THEOREM TypeCorrect == Spec => []TypeOK
  BY InitType, NextType, PTL DEF Spec

-----------------------------------------------------------------------------
(* Inductiveness of IInv, one lemma per action.                            *)

(* The event queue: what appending and removing an event does to it.       *)
LEMMA AppendMember ==
  ASSUME NEW S, NEW s \in Seq(S), NEW e \in S, NEW x
  PROVE  (\E i \in DOMAIN Append(s, e) : Append(s, e)[i] = x)
           <=> (\E i \in DOMAIN s : s[i] = x) \/ x = e
<1>1. /\ DOMAIN s = 1 .. Len(s) /\ Len(s) \in Nat
      /\ DOMAIN Append(s, e) = 1 .. Len(s) + 1
      /\ \A i \in 1 .. Len(s) : Append(s, e)[i] = s[i]
      /\ Append(s, e)[Len(s) + 1] = e
  BY AppendProperties, LenProperties
<1>2. QED
  BY <1>1

LEMMA AppendDistinct ==
  ASSUME NEW S, NEW s \in Seq(S), NEW e \in S,
         \A i, j \in DOMAIN s : s[i] = s[j] => i = j,
         \A i \in DOMAIN s : s[i] # e
  PROVE  \A i, j \in DOMAIN Append(s, e) : Append(s, e)[i] = Append(s, e)[j] => i = j
<1>1. /\ DOMAIN s = 1 .. Len(s) /\ Len(s) \in Nat
      /\ DOMAIN Append(s, e) = 1 .. Len(s) + 1
      /\ \A i \in 1 .. Len(s) : Append(s, e)[i] = s[i]
      /\ Append(s, e)[Len(s) + 1] = e
  BY AppendProperties, LenProperties
<1>2. QED
  BY <1>1

LEMMA TailMember ==
  ASSUME NEW S, NEW s \in Seq(S), s # <<>>,
         \A i, j \in DOMAIN s : s[i] = s[j] => i = j
  PROVE  /\ \A x : (\E i \in DOMAIN Tail(s) : Tail(s)[i] = x)
                     <=> (\E i \in DOMAIN s : s[i] = x) /\ x # Head(s)
         /\ \A i, j \in DOMAIN Tail(s) : Tail(s)[i] = Tail(s)[j] => i = j
         /\ Head(s) \in S
         /\ \E i \in DOMAIN s : s[i] = Head(s)
<1>1. /\ DOMAIN s = 1 .. Len(s) /\ Len(s) \in Nat /\ Len(s) > 0
      /\ DOMAIN Tail(s) = 1 .. Len(s) - 1
      /\ \A i \in 1 .. Len(s) - 1 : Tail(s)[i] = s[i + 1]
      /\ Head(s) = s[1] /\ Head(s) \in S
  BY HeadTailProperties, LenProperties, EmptySeq
<1>2. ASSUME NEW x, NEW i \in DOMAIN s, s[i] = x, x # Head(s)
      PROVE  \E j \in DOMAIN Tail(s) : Tail(s)[j] = x
  <2>1. i # 1 /\ i - 1 \in DOMAIN Tail(s)
    BY <1>1, <1>2
  <2>2. Tail(s)[i - 1] = x
    BY <1>1, <1>2, <2>1
  <2>3. QED
    BY <2>1, <2>2
<1>3. QED
  BY <1>1, <1>2

(* Concatenation of results is associative, and appending a result to a     *)
(* concatenation appends it to the second part.                            *)
LEMMA ResultsConcat ==
  ASSUME NEW s \in Seq(ResultTokens), NEW u \in Seq(ResultTokens), NEW v \in Seq(ResultTokens)
  PROVE  (s \o u) \o v = s \o (u \o v)
  BY ConcatAssociative

LEMMA ResultsAppend ==
  ASSUME NEW s \in Seq(ResultTokens), NEW u \in Seq(ResultTokens), NEW e \in ResultTokens
  PROVE  Append(s \o u, e) = s \o Append(u, e)
<1>1. <<e>> \in Seq(ResultTokens) /\ s \o u \in Seq(ResultTokens)
  BY ConcatProperties
<1>2. Append(s \o u, e) = (s \o u) \o <<e>> /\ Append(u, e) = u \o <<e>>
  BY <1>1, AppendIsConcat
<1>3. QED
  BY <1>1, <1>2, ResultsConcat

(* A search that was finished has details, one of those that exist.        *)
LEMMA DetailsAreFinal == \A d \in Details : d # NotFinished
  BY DetailsAssumption DEF NotFinished

(* A thread pushes a result.                                               *)
LEMMA InvPushResult ==
  ASSUME IInv, TypeOK', NEW t \in Threads, NEW q \in Queries, PushResult(t, q)
  PROVE  IInv'
<1>1. Started'
  BY DEF IInv, TypeOK, Started, InEvents, Serving, IsFinished, PushResult, Open, Idle,
     searchVars, modelVars
<1>2. Attached'
  BY DEF IInv, TypeOK, Attached, PushResult, Open, Idle, IsFinished, searchVars, modelVars
<1>3. Cancellation'
  BY DEF IInv, TypeOK, Cancellation, PushResult, Open, Idle, IsFinished, searchVars,
     modelVars
<1>4. FinalStatus'
  BY DEF IInv, TypeOK, FinalStatus, IsFinished, Submitting, Serving, PushResult, Open, Idle,
     searchVars, modelVars
<1>5. OneEventPerCollector'
  BY DEF IInv, TypeOK, OneEventPerCollector, InEvents, Posting, PushResult, Open, Idle,
     IsFinished, searchVars, modelVars
<1>6. PostedFlag'
  <2>1. /\ \A u \in Threads \ {t} : worker'[u] = worker[u]
        /\ ~posted[q] => Submitting(t, q)'
        /\ worker'[t].at # "post" /\ worker[t].at = "idle"
    BY DEF PushResult, IInv, TypeOK, Idle, Submitting
  <2>2. \A p \in Queries \ {q} : buffer'[p] = buffer[p]
    BY DEF PushResult, IInv, TypeOK
  <2>3. \A p \in Queries :
          (receiver[p] /\ searchInProgress /\ ~posted[p] /\ buffer'[p] # <<>>) =>
            (\E u \in Threads : Submitting(u, p)')
    BY <2>1, <2>2 DEF IInv, PostedFlag, Submitting
  <2>4. \A u \in Threads, p \in Queries : Posting(u, p)' <=> Posting(u, p)
    BY <2>1 DEF Posting
  <2>5. QED
    BY <2>3, <2>4 DEF PushResult, IInv, PostedFlag, InEvents, searchVars, modelVars
<1>7. Ended'
  BY DEF IInv, TypeOK, Ended, IsFinished, InEvents, Serving, PushResult, Open, Idle,
     searchVars, modelVars
<1>8. ExactlyOnce'
  <2> SUFFICES ASSUME searchInProgress PROVE ExactlyOnce'
    BY DEF ExactlyOnce, PushResult, searchVars
  <2>1. query \in Queries /\ launched[query]
    BY QueriesAreNat DEF IInv, Started, TypeOK, Queries
  <2>2. CASE q # query
    BY <2>1, <2>2 DEF PushResult, IInv, ExactlyOnce, TypeOK, searchVars, modelVars
  <2>3. CASE q = query
    <3> DEFINE r == <<q, Len(pushed[q]) + 1>>
    <3>1. r \in ResultTokens
      BY DEF PushResult, ResultTokens, IInv, TypeOK
    <3>2. /\ pushed'[q] = Append(pushed[q], r) /\ buffer'[q] = Append(buffer[q], r)
          /\ applied \o cached \in Seq(ResultTokens) /\ buffer[q] \in Seq(ResultTokens)
      BY ConcatProperties DEF PushResult, IInv, TypeOK
    <3>3. pushed[q] = (applied \o cached) \o buffer[q]
      BY <2>3 DEF IInv, ExactlyOnce
    <3> DEFINE front == applied \o cached
    <3>4. Append(front \o buffer[q], r) = front \o Append(buffer[q], r)
      <4>1. front \in Seq(ResultTokens) /\ buffer[q] \in Seq(ResultTokens)
        BY <3>2
      <4> HIDE DEF front, r
      <4>2. QED
        BY <3>1, <4>1, ResultsAppend, Zenon
    <3>5. QED
      BY <2>3, <3>2, <3>3, <3>4 DEF PushResult, ExactlyOnce, searchVars, modelVars
  <2>4. QED
    BY <2>2, <2>3
<1>9. EndedIsComplete'
  BY DEF IInv, Ended, EndedIsComplete, IsFinished, PushResult, Open, TypeOK, searchVars,
     modelVars
<1>10. QED
  BY <1>1, <1>2, <1>3, <1>4, <1>5, <1>6, <1>7, <1>8, <1>9 DEF IInv

(* A thread pushes a department or filters.                                *)
LEMMA InvPushAnnotation ==
  ASSUME IInv, TypeOK', NEW q \in Queries, NEW a \in Annotations, PushAnnotation(q, a)
  PROVE  IInv'
<1>1. Started'
  BY QueriesAreNat DEF IInv, TypeOK, Started, InEvents, Serving, IsFinished, PushAnnotation,
     Open, middlewareVars, searchVars, modelVars
<1>2. Attached'
  BY DEF IInv, TypeOK, Attached, PushAnnotation, Open, middlewareVars, searchVars, modelVars
<1>3. Cancellation'
  BY DEF IInv, TypeOK, Cancellation, PushAnnotation, Open, middlewareVars, searchVars,
     modelVars
<1>4. FinalStatus'
  BY DEF IInv, TypeOK, FinalStatus, IsFinished, Submitting, Serving, PushAnnotation, Open,
     middlewareVars, searchVars, modelVars
<1>5. OneEventPerCollector'
  BY DEF IInv, TypeOK, OneEventPerCollector, InEvents, Posting, PushAnnotation, Open,
     middlewareVars, searchVars, modelVars
<1>6. PostedFlag'
  BY DEF IInv, TypeOK, PostedFlag, InEvents, Posting, Submitting, PushAnnotation, Open,
     middlewareVars, searchVars, modelVars
<1>7. Ended'
  BY DEF IInv, TypeOK, Ended, IsFinished, InEvents, Serving, PushAnnotation, Open,
     middlewareVars, searchVars, modelVars
<1>8. ExactlyOnce'
  BY DEF IInv, TypeOK, ExactlyOnce, PushAnnotation, Open, middlewareVars, searchVars,
     modelVars
<1>9. EndedIsComplete'
  BY DEF IInv, Ended, EndedIsComplete, IsFinished, PushAnnotation, Open, TypeOK,
     middlewareVars, searchVars, modelVars
<1>10. QED
  BY <1>1, <1>2, <1>3, <1>4, <1>5, <1>6, <1>7, <1>8, <1>9 DEF IInv

(* A thread calls finished().                                              *)
LEMMA InvFinished ==
  ASSUME IInv, TypeOK', NEW t \in Threads, NEW q \in Queries, NEW d \in Details, Finished(t, q, d)
  PROVE  IInv'
<1>1. Started'
  BY DEF IInv, TypeOK, Started, InEvents, Serving, IsFinished, Finished, MayFinish, Open,
     Idle, collectorVars, searchVars, modelVars
<1>2. Attached'
  BY DEF IInv, TypeOK, Attached, Finished, MayFinish, Open, Idle, collectorVars, searchVars,
     modelVars
<1>3. Cancellation'
  BY DEF IInv, TypeOK, Cancellation, Finished, MayFinish, Open, Idle, collectorVars,
     searchVars, modelVars
<1>4. FinalStatus'
  <2>1. /\ \A u \in Threads \ {t} : worker'[u] = worker[u]
        /\ worker'[t] = [at |-> "submit", search |-> q, status |-> GetStatus(d)]
        /\ worker[t].at = "idle"
    BY DEF Finished, IInv, TypeOK, Idle
  <2>2. finishedWith'[q] = d /\ \A p \in Queries \ {q} : finishedWith'[p] = finishedWith[p]
    BY DEF Finished, IInv, TypeOK
  <2>3. GetStatus(d) # "INCOMPLETE" /\ IsFinished(q)'
    BY <2>2, StatusTypes, DetailsAreFinal DEF IsFinished
  <2>4. \A u \in Threads : ~Serving(u, q)
    BY DEF Finished, MayFinish
  <2>5. status[q] \in {"INCOMPLETE", "CANCELLED"}
    BY DEF Finished, MayFinish, Open, IInv, FinalStatus, IsFinished
  <2>6. UNCHANGED <<status, posted>>
    BY DEF Finished, collectorVars
  <2>7. (\A p \in Queries : status[p] \notin {"INCOMPLETE", "CANCELLED"} =>
          IsFinished(p) /\ status[p] = GetStatus(finishedWith[p]))'
    BY <2>2, <2>5, <2>6 DEF IInv, FinalStatus, IsFinished
  <2>8. (\A u \in Threads, p \in Queries :
          Submitting(u, p) /\ worker[u].status # "INCOMPLETE" =>
            IsFinished(p) /\ worker[u].status = GetStatus(finishedWith[p]))'
    BY <2>1, <2>2, <2>3, <2>4 DEF IInv, FinalStatus, IsFinished, Submitting, Serving
  <2>9. (\A u \in Threads, p \in Queries : Submitting(u, p) /\ IsFinished(p) =>
          /\ worker[u].status # "INCOMPLETE"
          /\ status[p] \in {"INCOMPLETE", "CANCELLED"}
          /\ \A v \in Threads : Serving(v, p) => v = u)'
    BY <2>1, <2>2, <2>3, <2>4, <2>5, <2>6 DEF IInv, FinalStatus, IsFinished, Submitting,
       Serving
  <2>10. (\A p \in Queries : IsFinished(p) /\ (status[p] = "INCOMPLETE" \/ ~posted[p]) =>
           \E u \in Threads : Submitting(u, p))'
    BY <2>1, <2>2, <2>6 DEF IInv, FinalStatus, IsFinished, Submitting
  <2>11. QED
    BY <2>7, <2>8, <2>9, <2>10 DEF FinalStatus
<1>5. OneEventPerCollector'
  BY DEF IInv, TypeOK, OneEventPerCollector, InEvents, Posting, Finished, MayFinish, Open,
     Idle, collectorVars, searchVars, modelVars
<1>6. PostedFlag'
  <2>1. /\ \A u \in Threads \ {t} : worker'[u] = worker[u]
        /\ worker'[t].at = "submit" /\ worker[t].at = "idle"
    BY DEF Finished, IInv, TypeOK, Idle
  <2>2. \A u \in Threads, p \in Queries :
          /\ Posting(u, p)' <=> Posting(u, p)
          /\ Submitting(u, p) => Submitting(u, p)'
    BY <2>1 DEF Posting, Submitting
  <2>3. QED
    BY <2>2 DEF Finished, IInv, PostedFlag, InEvents, collectorVars, searchVars, modelVars
<1>7. Ended'
  BY DEF IInv, TypeOK, Ended, IsFinished, InEvents, Serving, Finished, MayFinish, Open,
     Idle, collectorVars, searchVars, modelVars
<1>8. ExactlyOnce'
  BY DEF IInv, TypeOK, ExactlyOnce, Finished, MayFinish, Open, Idle, collectorVars,
     searchVars, modelVars
<1>9. EndedIsComplete'
  BY DEF IInv, Ended, EndedIsComplete, IsFinished, Finished, MayFinish, Open, TypeOK,
     collectorVars, searchVars, modelVars
<1>10. QED
  BY <1>1, <1>2, <1>3, <1>4, <1>5, <1>6, <1>7, <1>8, <1>9 DEF IInv

(* A thread submits the collector.                                         *)
LEMMA InvSubmit ==
  ASSUME IInv, TypeOK', NEW t \in Threads, Submit(t)
  PROVE  IInv'
<1> DEFINE q == worker[t].search
<1>a. q \in Queries /\ Submitting(t, q) /\ Serving(t, q) /\ ~Posting(t, q)
  BY DEF Submit, IInv, TypeOK, Submitting, Serving, Posting
<1>b. /\ \A u \in Threads \ {t} : worker'[u] = worker[u]
      /\ worker'[t] = IF posted[q] THEN Idle ELSE [worker[t] EXCEPT !.at = "post"]
      /\ worker'[t].at = IF posted[q] THEN "idle" ELSE "post"
      /\ ~posted[q] => worker'[t].search = q
  BY DEF Submit, IInv, TypeOK, Idle
<1>c. /\ posted'[q]
      /\ status'[q] = IF status[q] = "INCOMPLETE" THEN worker[t].status ELSE status[q]
      /\ \A p \in Queries \ {q} : posted'[p] = posted[p] /\ status'[p] = status[p]
  BY <1>a DEF Submit, IInv, TypeOK
<1>d. UNCHANGED <<buffer, annotations, receiver, pushed, launched, finishedWith, events, uiAt,
                  query, searchInProgress>>
  BY DEF Submit, searchVars
<1>e. \A u \in Threads, p \in Queries : Serving(u, p)' => Serving(u, p)
  BY <1>a, <1>b DEF Serving, Idle
<1>f. \A u \in Threads, p \in Queries :
        Posting(u, p)' <=> Posting(u, p) \/ (u = t /\ p = q /\ ~posted[q])
  BY <1>a, <1>b DEF Posting, Submitting
<1> HIDE DEF q
<1>1. Started'
  BY DEF IInv, TypeOK, Started, InEvents, Serving, IsFinished, Submit, Idle, searchVars,
     modelVars
<1>2. Attached'
  BY DEF IInv, TypeOK, Attached, Submit, Idle, searchVars, modelVars
<1>3. Cancellation'
  <2>1. receiver[q] => ~(status[q] = "INCOMPLETE" /\ worker[t].status = "CANCELLED")
    <3> SUFFICES ASSUME receiver[q], worker[t].status = "CANCELLED" PROVE FALSE
      OBVIOUS
    <3>1. IsFinished(q) /\ GetStatus(finishedWith[q]) = "CANCELLED"
      BY <1>a DEF IInv, FinalStatus
    <3>2. finishedWith[q] \in Details
      BY <1>a, <3>1 DEF IInv, TypeOK, IsFinished
    <3>3. finishedWith[q].outcome = "Cancelled"
      BY <3>1, <3>2, StatusTypes
    <3>4. QED
      BY <1>a, <3>3 DEF IInv, Cancellation
  <2>2. q = query /\ uiAt = "loop" => receiver[q]
    BY <1>a, QueriesAreNat DEF IInv, Attached, Queries
  <2>3. query > 0 => query \in Queries
    BY DEF IInv, TypeOK, Queries
  <2>4. query > 0 => (status'[query] = "CANCELLED" <=> uiAt # "loop")
    <3>1. CASE q # query
      BY <1>c, <2>3, <3>1 DEF IInv, Cancellation
    <3>2. CASE q = query
      BY <1>c, <2>1, <2>2, <3>2 DEF IInv, Cancellation
    <3>3. QED
      BY <3>1, <3>2
  <2>5. \A p \in Queries : launched[p] /\ p # query => status'[p] = "CANCELLED"
    BY <1>c DEF IInv, Cancellation
  <2>6. QED
    BY <1>d, <2>4, <2>5 DEF IInv, Cancellation
<1>4. FinalStatus'
  <2>1. (\A p \in Queries : status[p] \notin {"INCOMPLETE", "CANCELLED"} =>
          IsFinished(p) /\ status[p] = GetStatus(finishedWith[p]))'
    BY <1>a, <1>c, <1>d DEF IInv, FinalStatus, IsFinished
  <2>2. \A u \in Threads, p \in Queries : Submitting(u, p)' => u # t /\ Submitting(u, p)
    BY <1>b DEF Submitting
  <2>3. (\A u \in Threads, p \in Queries :
          Submitting(u, p) /\ worker[u].status # "INCOMPLETE" =>
            IsFinished(p) /\ worker[u].status = GetStatus(finishedWith[p]))'
    BY <1>b, <1>d, <2>2 DEF IInv, FinalStatus, IsFinished
  <2>4. \A u \in Threads, p \in Queries : Submitting(u, p)' /\ IsFinished(p) => p # q
    BY <1>a, <2>2 DEF IInv, FinalStatus
  <2>5. (\A u \in Threads, p \in Queries : Submitting(u, p) /\ IsFinished(p) =>
          /\ worker[u].status # "INCOMPLETE"
          /\ status[p] \in {"INCOMPLETE", "CANCELLED"}
          /\ \A v \in Threads : Serving(v, p) => v = u)'
    BY <1>b, <1>c, <1>d, <1>e, <2>2, <2>4 DEF IInv, FinalStatus, IsFinished
  <2>6. (\A p \in Queries : IsFinished(p) /\ (status[p] = "INCOMPLETE" \/ ~posted[p]) =>
          \E u \in Threads : Submitting(u, p))'
    <3> SUFFICES ASSUME NEW p \in Queries, IsFinished(p), status'[p] = "INCOMPLETE" \/ ~posted'[p]
                 PROVE  \E u \in Threads : Submitting(u, p)'
      BY <1>d DEF IsFinished
    <3>1. p # q
      BY <1>a, <1>c DEF IInv, FinalStatus
    <3>2. QED
      BY <1>a, <1>b, <1>c, <3>1 DEF IInv, FinalStatus, Submitting
  <2>7. QED
    BY <2>1, <2>3, <2>5, <2>6 DEF FinalStatus
<1>5. OneEventPerCollector'
  BY <1>a, <1>d, <1>f DEF IInv, OneEventPerCollector, PostedFlag, InEvents
<1>6. PostedFlag'
  <2>1. \A p \in Queries : p # q => posted'[p] = posted[p]
    BY <1>c
  <2>2. \A u \in Threads, p \in Queries : p # q /\ Submitting(u, p) => Submitting(u, p)'
    BY <1>a, <1>b DEF Submitting
  <2>3. \A p \in Queries : receiver[p] /\ searchInProgress /\ posted'[p] =>
          InEvents(p) \/ \E u \in Threads : Posting(u, p)'
    BY <1>a, <1>c, <1>f DEF IInv, PostedFlag, Posting, Submitting
  <2>4. QED
    BY <1>c, <1>d, <1>f, <2>1, <2>2, <2>3 DEF IInv, PostedFlag, InEvents
<1>7. Ended'
  BY DEF IInv, TypeOK, Ended, IsFinished, InEvents, Serving, Submit, Idle, searchVars,
     modelVars
<1>8. ExactlyOnce'
  BY DEF IInv, TypeOK, ExactlyOnce, Submit, Idle, searchVars, modelVars
<1>9. EndedIsComplete'
  BY DEF IInv, TypeOK, EndedIsComplete, Submit, Idle, searchVars, modelVars
<1>10. QED
  BY <1>1, <1>2, <1>3, <1>4, <1>5, <1>6, <1>7, <1>8, <1>9 DEF IInv

(* A thread posts the event, or drops it.                                  *)
LEMMA InvPostEvent ==
  ASSUME IInv, TypeOK', NEW t \in Threads, PostEvent(t)
  PROVE  IInv'
<1> DEFINE q == worker[t].search
<1>a. q \in Queries /\ Posting(t, q) /\ worker[t].at = "post"
  BY DEF PostEvent, IInv, TypeOK, Posting
<1>b. worker'[t] = Idle /\ \A u \in Threads \ {t} : worker'[u] = worker[u]
  BY DEF PostEvent, IInv, TypeOK
<1>c. \A u \in Threads, p \in Queries : Posting(u, p)' <=> Posting(u, p) /\ u # t
  BY <1>b DEF Posting, Idle
<1>d. \A p \in Queries : InEvents(p)' <=> InEvents(p) \/ (receiver[q] /\ p = q)
  <2>1. CASE receiver[q]
    <3>1. events' = Append(events, q) /\ events \in Seq(Queries)
      BY <2>1 DEF PostEvent, IInv, TypeOK
    <3>2. QED
      BY <1>a, <2>1, <3>1, AppendMember DEF InEvents
  <2>2. CASE ~receiver[q]
    BY <2>2 DEF PostEvent, InEvents
  <2>3. QED
    BY <2>1, <2>2
<1> HIDE DEF q
<1>1. Started'
  BY DEF IInv, TypeOK, Started, InEvents, Serving, IsFinished, PostEvent, Idle,
     collectorVars, searchVars, modelVars
<1>2. Attached'
  BY DEF IInv, TypeOK, Attached, PostEvent, Idle, collectorVars, searchVars, modelVars
<1>3. Cancellation'
  BY DEF IInv, TypeOK, Cancellation, PostEvent, Idle, collectorVars, searchVars, modelVars
<1>4. FinalStatus'
  BY DEF IInv, TypeOK, FinalStatus, IsFinished, Submitting, Serving, PostEvent, Idle,
     collectorVars, searchVars, modelVars
<1>5. OneEventPerCollector'
  <2>1. (\A i, j \in DOMAIN events : events[i] = events[j] => i = j)'
    <3>1. CASE receiver[q]
      <4>1. events' = Append(events, q) /\ events \in Seq(Queries)
        BY <3>1 DEF PostEvent, IInv, TypeOK, q
      <4>2. /\ \A i, j \in DOMAIN events : events[i] = events[j] => i = j
            /\ \A i \in DOMAIN events : events[i] # q
        BY <1>a DEF IInv, OneEventPerCollector, InEvents
      <4>3. QED
        BY <1>a, <4>1, <4>2, AppendDistinct
    <3>2. CASE ~receiver[q]
      BY <3>2 DEF PostEvent, IInv, OneEventPerCollector, q
    <3>3. QED
      BY <3>1, <3>2
  <2>2. QED
    BY <1>a, <1>c, <1>d, <2>1 DEF IInv, OneEventPerCollector
<1>6. PostedFlag'
  <2>1. \A u \in Threads, p \in Queries : Submitting(u, p) => Submitting(u, p)'
    BY <1>a, <1>b DEF Submitting
  <2>2. \A p \in Queries : receiver[p] /\ searchInProgress /\ posted[p] =>
          InEvents(p)' \/ \E u \in Threads : Posting(u, p)'
    BY <1>a, <1>c, <1>d DEF IInv, PostedFlag, Posting
  <2>3. QED
    BY <1>a, <1>c, <1>d, <2>1, <2>2 DEF PostEvent, IInv, PostedFlag, collectorVars,
       searchVars
<1>7. Ended'
  BY DEF IInv, TypeOK, Ended, IsFinished, InEvents, Serving, PostEvent, Idle, collectorVars,
     searchVars, modelVars
<1>8. ExactlyOnce'
  BY DEF IInv, TypeOK, ExactlyOnce, PostEvent, Idle, collectorVars, searchVars, modelVars
<1>9. EndedIsComplete'
  BY DEF IInv, TypeOK, EndedIsComplete, PostEvent, Idle, collectorVars, searchVars,
     modelVars
<1>10. QED
  BY <1>1, <1>2, <1>3, <1>4, <1>5, <1>6, <1>7, <1>8, <1>9 DEF IInv

(* The UI thread cancels the collector of the last search.                 *)
LEMMA InvBeginDispatch ==
  ASSUME IInv, TypeOK', BeginDispatch
  PROVE  IInv'
<1>1. Started'
  BY DEF IInv, TypeOK, Started, InEvents, Serving, IsFinished, BeginDispatch,
     InvalidateCollector, middlewareVars, searchVars, modelVars
<1>2. Attached'
  BY DEF IInv, TypeOK, Attached, BeginDispatch, InvalidateCollector, middlewareVars,
     searchVars, modelVars
<1>3. Cancellation'
  <2>1. query > 0 => query \in Queries /\ receiver[query]
    BY DEF BeginDispatch, IInv, TypeOK, Attached, Queries
  <2>2. \A p \in Queries : status'[p] = IF p = query /\ receiver[p] THEN "CANCELLED" ELSE status[p]
    BY DEF BeginDispatch, InvalidateCollector
  <2>3. QED
    BY <2>1, <2>2 DEF BeginDispatch, IInv, Cancellation, middlewareVars, searchVars
<1>4. FinalStatus'
  BY DEF IInv, TypeOK, FinalStatus, IsFinished, Submitting, Serving, BeginDispatch,
     InvalidateCollector, middlewareVars, searchVars, modelVars
<1>5. OneEventPerCollector'
  BY DEF IInv, TypeOK, OneEventPerCollector, InEvents, Posting, BeginDispatch,
     InvalidateCollector, middlewareVars, searchVars, modelVars
<1>6. PostedFlag'
  BY DEF IInv, TypeOK, PostedFlag, InEvents, Posting, Submitting, BeginDispatch,
     InvalidateCollector, middlewareVars, searchVars, modelVars
<1>7. Ended'
  <2>1. query > 0 => query \in Queries
    BY DEF IInv, TypeOK, Queries
  <2>2. \A p \in Queries : status[p] # "INCOMPLETE" => status'[p] # "INCOMPLETE"
    BY DEF BeginDispatch, InvalidateCollector
  <2>3. QED
    BY <2>1, <2>2 DEF BeginDispatch, IInv, Ended, IsFinished, InEvents, Serving,
       middlewareVars, searchVars
<1>8. ExactlyOnce'
  BY DEF IInv, TypeOK, ExactlyOnce, BeginDispatch, InvalidateCollector, middlewareVars,
     searchVars, modelVars
<1>9. EndedIsComplete'
  BY DEF IInv, TypeOK, EndedIsComplete, BeginDispatch, InvalidateCollector, middlewareVars,
     searchVars, modelVars
<1>10. QED
  BY <1>1, <1>2, <1>3, <1>4, <1>5, <1>6, <1>7, <1>8, <1>9 DEF IInv

(* The UI thread starts the next search.                                   *)
LEMMA InvEndDispatch ==
  ASSUME IInv, TypeOK', NEW accepted \in BOOLEAN, EndDispatch(accepted)
  PROVE  IInv'
<1> DEFINE n == query + 1
<1>a. /\ n \in Queries /\ n > query /\ n > 0 /\ query' = n
      /\ uiAt = "dispatch" /\ uiAt' = "loop"
  BY DEF EndDispatch, IInv, TypeOK, Queries
<1>b. receiver'[n] /\ \A p \in Queries \ {n} : ~receiver'[p]
  BY <1>a DEF EndDispatch, Detached, IInv, Attached
<1>c. launched'[n] = accepted /\ \A p \in Queries \ {n} : launched'[p] = launched[p]
  BY <1>a DEF EndDispatch, IInv, TypeOK
<1>d. /\ buffer[n] = <<>> /\ pushed[n] = <<>>
      /\ ~posted[n] /\ ~IsFinished(n)
      /\ ~InEvents(n) /\ \A t \in Threads : ~Serving(t, n)
  BY <1>a DEF IInv, TypeOK, Started
<1>e. UNCHANGED <<status, posted, buffer, annotations, worker, pushed, finishedWith, events>>
  BY DEF EndDispatch, collectorVars
<1> HIDE DEF n
<1>1. Started'
  <2>1. (\A p \in Queries : launched[p] => p <= query)'
    BY <1>a, <1>c DEF IInv, Started, TypeOK, Queries
  <2>2. (\A p \in Queries : ~launched[p] =>
          /\ buffer[p] = <<>> /\ pushed[p] = <<>>
          /\ ~posted[p] /\ ~IsFinished(p)
          /\ ~InEvents(p) /\ \A t \in Threads : ~Serving(t, p))'
    BY <1>c, <1>d, <1>e DEF IInv, Started, IsFinished, InEvents, Serving
  <2>3. (\A p \in Queries : p > query => status[p] = "INCOMPLETE" /\ annotations[p] = {})'
    BY <1>a, <1>e DEF IInv, Started, TypeOK, Queries
  <2>4. (searchInProgress => query > 0 /\ launched[query])'
    BY <1>a, <1>c DEF EndDispatch, IInv, TypeOK
  <2>5. QED
    BY <2>1, <2>2, <2>3, <2>4 DEF Started
<1>2. Attached'
  BY <1>a, <1>b DEF IInv, Attached
<1>3. Cancellation'
  <2>1. status[n] = "INCOMPLETE"
    BY <1>a DEF IInv, Started
  <2>2. query > 0 => status[query] = "CANCELLED"
    BY <1>a DEF IInv, Cancellation
  <2>3. (\A p \in Queries : launched[p] /\ p # query => status[p] = "CANCELLED")'
    BY <1>a, <1>c, <1>e, <2>2 DEF IInv, Cancellation, Started, Queries
  <2>4. (\A p \in Queries : receiver[p] => finishedWith[p].outcome # "Cancelled")'
    <3>1. finishedWith[n] = NotFinished
      BY <1>d DEF IsFinished
    <3>2. QED
      BY <1>b, <1>e, <3>1 DEF NotFinished
  <2>5. QED
    BY <1>a, <1>e, <2>1, <2>3, <2>4 DEF Cancellation
<1>4. FinalStatus'
  BY DEF IInv, TypeOK, FinalStatus, IsFinished, Submitting, Serving, EndDispatch, Detached,
     collectorVars, searchVars, modelVars
<1>5. OneEventPerCollector'
  BY DEF IInv, TypeOK, OneEventPerCollector, InEvents, Posting, EndDispatch, Detached,
     collectorVars, searchVars, modelVars
<1>6. PostedFlag'
  BY <1>b, <1>d, <1>e DEF IInv, PostedFlag, InEvents, Posting, Submitting
<1>7. Ended'
  BY DEF IInv, TypeOK, Ended, IsFinished, InEvents, Serving, EndDispatch, Detached,
     collectorVars, searchVars, modelVars
<1>8. ExactlyOnce'
  <2>1. buffer[n] = <<>> /\ pushed[n] = <<>>
    BY <1>d
  <2>2. cached' = <<>> /\ applied' = <<>>
    BY DEF EndDispatch
  <2>3. <<>> = (<<>> \o <<>>) \o <<>>
    BY ConcatEmptySeq
  <2>4. QED
    BY <1>a, <1>e, <2>1, <2>2, <2>3 DEF ExactlyOnce
<1>9. EndedIsComplete'
  BY DEF IInv, TypeOK, EndedIsComplete, EndDispatch, Detached, collectorVars, searchVars,
     modelVars
<1>10. QED
  BY <1>1, <1>2, <1>3, <1>4, <1>5, <1>6, <1>7, <1>8, <1>9 DEF IInv

(* The UI thread processes an event.                                       *)
LEMMA InvProcessSearchChunk ==
  ASSUME IInv, TypeOK', ProcessSearchChunk
  PROVE  IInv'
<1> DEFINE q == Head(events)
<1>i. /\ q \in Queries /\ InEvents(q)
      /\ \A p \in Queries : InEvents(p)' <=> InEvents(p) /\ p # q
      /\ (\A i, j \in DOMAIN events : events[i] = events[j] => i = j)'
  <2>1. /\ events \in Seq(Queries) /\ events # <<>> /\ events' = Tail(events)
        /\ \A i, j \in DOMAIN events : events[i] = events[j] => i = j
    BY DEF ProcessSearchChunk, IInv, TypeOK, OneEventPerCollector
  <2>2. QED
    BY <2>1, TailMember DEF InEvents
<1>a. /\ q \in Queries /\ InEvents(q) /\ posted[q] /\ launched[q]
      /\ \A p \in Queries : InEvents(p)' <=> InEvents(p) /\ p # q
      /\ \A t \in Threads : ~Posting(t, q)
  BY <1>i DEF IInv, PostedFlag, Started, OneEventPerCollector
<1>b. /\ posted'[q] = (posted[q] /\ status[q] # "INCOMPLETE") /\ buffer'[q] = <<>>
      /\ \A p \in Queries \ {q} : posted'[p] = posted[p] /\ buffer'[p] = buffer[p]
      /\ status' = status /\ annotations' = annotations
  BY <1>a DEF ProcessSearchChunk, Collect, IInv, TypeOK
<1>d. UNCHANGED <<receiver, worker, pushed, launched, finishedWith, uiAt, query>>
  BY DEF ProcessSearchChunk, CacheChunk, EndSearch, middlewareVars, searchVars
<1>e. \/ status[q] = "CANCELLED" /\ UNCHANGED <<searchVars, modelVars>>
      \/ status[q] = "INCOMPLETE" /\ CacheChunk(cached \o buffer[q], {q} \X annotations[q])
      \/ /\ status[q] \notin {"CANCELLED", "INCOMPLETE"}
         /\ EndSearch(status[q], cached \o buffer[q], {q} \X annotations[q])
         /\ searchInProgress' = FALSE
  BY DEF ProcessSearchChunk, EndSearch
<1>f. (q # query) <=> (status[q] = "CANCELLED")
  BY <1>a DEF ProcessSearchChunk, IInv, Cancellation, Queries
<1>h. q = query => searchInProgress
  BY <1>a DEF IInv, Ended, Queries
<1>g. searchInProgress' => searchInProgress
  BY <1>a, <1>e, <1>f, <1>h DEF CacheChunk, searchVars
<1>j. /\ pushed[q] \in Seq(ResultTokens)
      /\ (applied \o cached) \o buffer[q] = applied \o (cached \o buffer[q])
  <2>1. /\ pushed[q] \in Seq(ResultTokens) /\ applied \in Seq(ResultTokens)
        /\ cached \in Seq(ResultTokens) /\ buffer[q] \in Seq(ResultTokens)
    BY <1>a DEF IInv, TypeOK
  <2>2. (applied \o cached) \o buffer[q] = applied \o (cached \o buffer[q])
    BY <2>1, ResultsConcat, Zenon
  <2>3. QED
    BY <2>1, <2>2
<1>k. ASSUME q = query, ~searchInProgress'
      PROVE  /\ status[q] \notin {"CANCELLED", "INCOMPLETE"}
             /\ EndSearch(status[q], cached \o buffer[q], {q} \X annotations[q])
  <2>1. searchInProgress /\ status[q] # "CANCELLED"
    BY <1>f, <1>h, <1>k
  <2>2. ~ CacheChunk(cached \o buffer[q], {q} \X annotations[q])
    BY <1>k, <2>1 DEF CacheChunk
  <2>3. QED
    BY <1>e, <2>1, <2>2
<1> HIDE DEF q
<1>1. Started'
  BY <1>a, <1>b, <1>d, <1>g DEF IInv, Started, InEvents, Serving, IsFinished
<1>2. Attached'
  <2>1. uiAt = "loop"
    BY DEF ProcessSearchChunk
  <2>2. QED
    BY <1>d, <2>1 DEF IInv, Attached
<1>3. Cancellation'
  BY <1>b, <1>d DEF IInv, Cancellation
<1>4. FinalStatus'
  <2>1. (\A p \in Queries : IsFinished(p) /\ (status[p] = "INCOMPLETE" \/ ~posted[p]) =>
          \E u \in Threads : Submitting(u, p))'
    BY <1>b, <1>d DEF IInv, FinalStatus, IsFinished, Submitting
  <2>2. QED
    BY <1>b, <1>d, <2>1 DEF IInv, FinalStatus, IsFinished, Submitting, Serving
<1>5. OneEventPerCollector'
  <2>1. (\A i, j \in DOMAIN events : events[i] = events[j] => i = j)'
    BY <1>i
  <2>2. QED
    BY <1>a, <1>d, <2>1 DEF IInv, OneEventPerCollector, Posting
<1>6. PostedFlag'
  <2>1. (\A p \in Queries : InEvents(p) => posted[p])'
    BY <1>a, <1>b DEF IInv, PostedFlag
  <2>2. (\A t \in Threads, p \in Queries : Posting(t, p) => posted[p])'
    BY <1>a, <1>b, <1>d DEF IInv, PostedFlag, Posting
  <2>3. \A p \in Queries : receiver[p] => p = query
    BY DEF IInv, Attached
  <2>4. searchInProgress' /\ q = query => ~posted'[q]
    BY <1>b, <1>e, <1>f
  <2>5. (\A p \in Queries : receiver[p] /\ searchInProgress /\ posted[p] =>
          InEvents(p) \/ \E t \in Threads : Posting(t, p))'
    BY <1>a, <1>b, <1>d, <1>g, <2>3, <2>4 DEF IInv, PostedFlag, Posting
  <2>6. (\A p \in Queries : receiver[p] /\ searchInProgress /\ ~posted[p] /\ buffer[p] # <<>> =>
          \E t \in Threads : Submitting(t, p))'
    BY <1>b, <1>d, <1>g DEF IInv, PostedFlag, Submitting
  <2>7. QED
    BY <2>1, <2>2, <2>5, <2>6 DEF PostedFlag
<1>7. Ended'
  <2>1. CASE q # query
    <3>1. delayTimer' = delayTimer /\ searchInProgress' = searchInProgress
      BY <1>e, <1>f, <2>1 DEF searchVars
    <3>2. query > 0 => query \in Queries
      BY DEF IInv, TypeOK, Queries
    <3>3. QED
      BY <1>a, <1>b, <1>d, <2>1, <3>1, <3>2 DEF IInv, Ended, IsFinished, Serving
  <2>2. CASE q = query
    <3> SUFFICES ASSUME ~searchInProgress' PROVE Ended'
      BY DEF Ended
    <3>1. status[q] \notin {"CANCELLED", "INCOMPLETE"} /\ delayTimer' = FALSE
      BY <1>k, <2>2 DEF EndSearch
    <3>2. ASSUME NEW t \in Threads, Serving(t, q) PROVE FALSE
      <4>1. worker[t].at \in {"idle", "submit", "post"}
        BY DEF IInv, TypeOK
      <4>2. Submitting(t, q)
        BY <1>a, <3>2, <4>1 DEF Serving, Submitting, Posting
      <4>3. IsFinished(q)
        BY <1>a, <3>1 DEF IInv, FinalStatus
      <4>4. QED
        BY <1>a, <3>1, <4>2, <4>3 DEF IInv, FinalStatus
    <3>3. QED
      BY <1>a, <1>b, <1>d, <2>2, <3>1, <3>2 DEF IInv, FinalStatus, Ended, IsFinished,
         Serving
  <2>3. QED
    BY <2>1, <2>2
<1>8. ExactlyOnce'
  <2> SUFFICES ASSUME searchInProgress' PROVE ExactlyOnce'
    BY DEF ExactlyOnce
  <2>1. query > 0 => query \in Queries
    BY DEF IInv, TypeOK, Queries
  <2>2. CASE q # query
    <3>1. UNCHANGED <<cached, applied, searchInProgress>>
      BY <1>e, <1>f, <2>2 DEF searchVars, modelVars
    <3>2. searchInProgress => query \in Queries
      BY <2>1 DEF IInv, Started
    <3>3. QED
      BY <1>b, <1>d, <2>2, <3>1, <3>2 DEF IInv, ExactlyOnce
  <2>3. CASE q = query
    <3>1. cached' = cached \o buffer[q] /\ applied' = applied
      BY <1>e, <1>f, <2>3 DEF CacheChunk
    <3>2. buffer'[q] = <<>> /\ pushed' = pushed
      BY <1>b, <1>d
    <3>3. pushed[q] = applied \o (cached \o buffer[q])
      BY <1>h, <1>j, <2>3 DEF IInv, ExactlyOnce
    <3>4. applied \o (cached \o buffer[q]) \in Seq(ResultTokens)
      BY <1>j, <3>3
    <3>5. (applied \o (cached \o buffer[q])) \o <<>> = applied \o (cached \o buffer[q])
      BY <3>4, ConcatEmptySeq
    <3>6. QED
      BY <1>d, <2>3, <3>1, <3>2, <3>3, <3>5 DEF ExactlyOnce
  <2>4. QED
    BY <2>2, <2>3
<1>9. EndedIsComplete'
  <2>1. query > 0 => query \in Queries
    BY DEF IInv, TypeOK, Queries
  <2>2. CASE q # query
    <3>1. UNCHANGED <<visible, shown, scopeStatus, searchInProgress>>
      BY <1>e, <1>f, <2>2 DEF searchVars, modelVars
    <3>2. QED
      BY <1>b, <1>d, <2>1, <3>1 DEF IInv, EndedIsComplete
  <2>3. CASE q = query
    <3> SUFFICES ASSUME ~searchInProgress' PROVE EndedIsComplete'
      BY DEF EndedIsComplete
    <3>1. /\ status[q] \notin {"CANCELLED", "INCOMPLETE"}
          /\ EndSearch(status[q], cached \o buffer[q], {q} \X annotations[q])
      BY <1>k, <2>3
    <3>2. /\ visible' = applied \o (cached \o buffer[q])
          /\ shown' = {q} \X annotations[q]
          /\ scopeStatus' = StatusShown(status[q])
      BY <3>1 DEF EndSearch, FlushUpdates
    <3>3. pushed[q] = visible'
      BY <1>h, <1>j, <2>3, <3>2 DEF IInv, ExactlyOnce
    <3>4. status[q] = GetStatus(finishedWith[q])
      BY <1>a, <3>1 DEF IInv, FinalStatus
    <3>5. QED
      BY <1>b, <1>d, <2>3, <3>2, <3>3, <3>4 DEF EndedIsComplete
  <2>4. QED
    BY <2>2, <2>3
<1>10. QED
  BY <1>1, <1>2, <1>3, <1>4, <1>5, <1>6, <1>7, <1>8, <1>9 DEF IInv

(* The delay timer fires.                                                  *)
LEMMA InvDelayTimeout ==
  ASSUME IInv, TypeOK', DelayTimeout
  PROVE  IInv'
<1>1. Started'
  BY DEF IInv, TypeOK, Started, InEvents, Serving, IsFinished, DelayTimeout, collectorVars,
     middlewareVars, FlushUpdates, searchVars, modelVars
<1>2. Attached'
  BY DEF IInv, TypeOK, Attached, DelayTimeout, collectorVars, middlewareVars, FlushUpdates,
     searchVars, modelVars
<1>3. Cancellation'
  BY DEF IInv, TypeOK, Cancellation, DelayTimeout, collectorVars, middlewareVars,
     FlushUpdates, searchVars, modelVars
<1>4. FinalStatus'
  BY DEF IInv, TypeOK, FinalStatus, IsFinished, Submitting, Serving, DelayTimeout,
     collectorVars, middlewareVars, FlushUpdates, searchVars, modelVars
<1>5. OneEventPerCollector'
  BY DEF IInv, TypeOK, OneEventPerCollector, InEvents, Posting, DelayTimeout, collectorVars,
     middlewareVars, FlushUpdates, searchVars, modelVars
<1>6. PostedFlag'
  BY DEF IInv, TypeOK, PostedFlag, InEvents, Posting, Submitting, DelayTimeout,
     collectorVars, middlewareVars, FlushUpdates, searchVars, modelVars
<1>7. Ended'
  BY DEF IInv, TypeOK, Ended, IsFinished, InEvents, Serving, DelayTimeout, collectorVars,
     middlewareVars, FlushUpdates, searchVars, modelVars
<1>8. ExactlyOnce'
  <2>1. CASE cached = <<>>
    BY <2>1 DEF DelayTimeout, FlushUpdates, IInv, ExactlyOnce, collectorVars, middlewareVars
  <2>2. CASE cached # <<>>
    <3>1. cached' = <<>> /\ applied' = applied \o cached
      BY <2>2 DEF DelayTimeout, FlushUpdates
    <3>2. applied \o cached \in Seq(ResultTokens)
      BY DEF IInv, TypeOK
    <3>3. (applied \o cached) \o <<>> = applied \o cached
      BY <3>2, ConcatEmptySeq
    <3>4. QED
      BY <3>1, <3>3 DEF DelayTimeout, IInv, ExactlyOnce, collectorVars, middlewareVars
  <2>3. QED
    BY <2>1, <2>2
<1>9. EndedIsComplete'
  BY DEF DelayTimeout, IInv, Ended, EndedIsComplete, collectorVars, middlewareVars
<1>10. QED
  BY <1>1, <1>2, <1>3, <1>4, <1>5, <1>6, <1>7, <1>8, <1>9 DEF IInv

(* The TTL timer fires.                                                    *)
LEMMA InvTtlTimeout ==
  ASSUME IInv, TypeOK', TtlTimeout
  PROVE  IInv'
<1>1. Started'
  BY DEF IInv, TypeOK, Started, InEvents, Serving, IsFinished, TtlTimeout, collectorVars,
     middlewareVars, modelVars, searchVars
<1>2. Attached'
  BY DEF IInv, TypeOK, Attached, TtlTimeout, collectorVars, middlewareVars, modelVars,
     searchVars
<1>3. Cancellation'
  BY DEF IInv, TypeOK, Cancellation, TtlTimeout, collectorVars, middlewareVars, modelVars,
     searchVars
<1>4. FinalStatus'
  BY DEF IInv, TypeOK, FinalStatus, IsFinished, Submitting, Serving, TtlTimeout,
     collectorVars, middlewareVars, modelVars, searchVars
<1>5. OneEventPerCollector'
  BY DEF IInv, TypeOK, OneEventPerCollector, InEvents, Posting, TtlTimeout, collectorVars,
     middlewareVars, modelVars, searchVars
<1>6. PostedFlag'
  BY DEF IInv, TypeOK, PostedFlag, InEvents, Posting, Submitting, TtlTimeout, collectorVars,
     middlewareVars, modelVars, searchVars
<1>7. Ended'
  BY DEF IInv, TypeOK, Ended, IsFinished, InEvents, Serving, TtlTimeout, collectorVars,
     middlewareVars, modelVars, searchVars
<1>8. ExactlyOnce'
  BY DEF IInv, TypeOK, ExactlyOnce, TtlTimeout, collectorVars, middlewareVars, modelVars,
     searchVars
<1>9. EndedIsComplete'
  BY DEF IInv, TypeOK, EndedIsComplete, TtlTimeout, collectorVars, middlewareVars,
     modelVars, searchVars
<1>10. QED
  BY <1>1, <1>2, <1>3, <1>4, <1>5, <1>6, <1>7, <1>8, <1>9 DEF IInv

(* The Scope is being deleted: its collector is cancelled.                 *)
LEMMA InvBeginDestroy ==
  ASSUME IInv, TypeOK', BeginDestroy
  PROVE  IInv'
<1>1. Started'
  BY DEF IInv, TypeOK, Started, InEvents, Serving, IsFinished, BeginDestroy,
     InvalidateCollector, middlewareVars, searchVars, modelVars
<1>2. Attached'
  BY DEF IInv, TypeOK, Attached, BeginDestroy, InvalidateCollector, middlewareVars,
     searchVars, modelVars
<1>3. Cancellation'
  <2>1. query > 0 => query \in Queries /\ receiver[query]
    BY DEF BeginDestroy, IInv, TypeOK, Attached, Queries
  <2>2. \A p \in Queries : status'[p] = IF p = query /\ receiver[p] THEN "CANCELLED" ELSE status[p]
    BY DEF BeginDestroy, InvalidateCollector
  <2>3. QED
    BY <2>1, <2>2 DEF BeginDestroy, IInv, Cancellation, middlewareVars, searchVars
<1>4. FinalStatus'
  BY DEF IInv, TypeOK, FinalStatus, IsFinished, Submitting, Serving, BeginDestroy,
     InvalidateCollector, middlewareVars, searchVars, modelVars
<1>5. OneEventPerCollector'
  BY DEF IInv, TypeOK, OneEventPerCollector, InEvents, Posting, BeginDestroy,
     InvalidateCollector, middlewareVars, searchVars, modelVars
<1>6. PostedFlag'
  BY DEF IInv, TypeOK, PostedFlag, InEvents, Posting, Submitting, BeginDestroy,
     InvalidateCollector, middlewareVars, searchVars, modelVars
<1>7. Ended'
  <2>1. query > 0 => query \in Queries
    BY DEF IInv, TypeOK, Queries
  <2>2. \A p \in Queries : status[p] # "INCOMPLETE" => status'[p] # "INCOMPLETE"
    BY DEF BeginDestroy, InvalidateCollector
  <2>3. QED
    BY <2>1, <2>2 DEF BeginDestroy, IInv, Ended, IsFinished, InEvents, Serving,
       middlewareVars, searchVars
<1>8. ExactlyOnce'
  BY DEF IInv, TypeOK, ExactlyOnce, BeginDestroy, InvalidateCollector, middlewareVars,
     searchVars, modelVars
<1>9. EndedIsComplete'
  BY DEF IInv, TypeOK, EndedIsComplete, BeginDestroy, InvalidateCollector, middlewareVars,
     searchVars, modelVars
<1>10. QED
  BY <1>1, <1>2, <1>3, <1>4, <1>5, <1>6, <1>7, <1>8, <1>9 DEF IInv

(* The Scope is deleted.                                                   *)
LEMMA InvEndDestroy ==
  ASSUME IInv, TypeOK', EndDestroy
  PROVE  IInv'
<1>1. Started'
  BY DEF IInv, TypeOK, Started, InEvents, Serving, IsFinished, EndDestroy, Detached,
     collectorVars, middlewareVars, searchVars, modelVars
<1>2. Attached'
  BY DEF IInv, TypeOK, Attached, EndDestroy, Detached, collectorVars, middlewareVars,
     searchVars, modelVars
<1>3. Cancellation'
  BY DEF IInv, TypeOK, Cancellation, EndDestroy, Detached, collectorVars, middlewareVars,
     searchVars, modelVars
<1>4. FinalStatus'
  BY DEF IInv, TypeOK, FinalStatus, IsFinished, Submitting, Serving, EndDestroy, Detached,
     collectorVars, middlewareVars, searchVars, modelVars
<1>5. OneEventPerCollector'
  BY DEF IInv, TypeOK, OneEventPerCollector, InEvents, Posting, EndDestroy, Detached,
     collectorVars, middlewareVars, searchVars, modelVars
<1>6. PostedFlag'
  <2>1. (\A p \in Queries : ~receiver[p])'
    BY DEF EndDestroy, Detached, IInv, TypeOK, Attached
  <2>3. (\A p \in Queries : ~InEvents(p))'
    BY DEF EndDestroy, InEvents
  <2>2. QED
    BY <2>1, <2>3 DEF EndDestroy, IInv, PostedFlag, Posting, middlewareVars, collectorVars
<1>7. Ended'
  BY DEF IInv, TypeOK, Ended, IsFinished, InEvents, Serving, EndDestroy, Detached,
     collectorVars, middlewareVars, searchVars, modelVars
<1>8. ExactlyOnce'
  BY DEF IInv, TypeOK, ExactlyOnce, EndDestroy, Detached, collectorVars, middlewareVars,
     searchVars, modelVars
<1>9. EndedIsComplete'
  BY DEF IInv, TypeOK, EndedIsComplete, EndDestroy, Detached, collectorVars, middlewareVars,
     searchVars, modelVars
<1>10. QED
  BY <1>1, <1>2, <1>3, <1>4, <1>5, <1>6, <1>7, <1>8, <1>9 DEF IInv

(* Nothing happens.                                                        *)
LEMMA InvStutter ==
  ASSUME IInv, TypeOK', UNCHANGED vars
  PROVE  IInv'
<1>1. Started'
  BY DEF IInv, TypeOK, Started, InEvents, Serving, IsFinished, vars, collectorVars,
     middlewareVars, searchVars, modelVars
<1>2. Attached'
  BY DEF IInv, TypeOK, Attached, vars, collectorVars, middlewareVars, searchVars, modelVars
<1>3. Cancellation'
  BY DEF IInv, TypeOK, Cancellation, vars, collectorVars, middlewareVars, searchVars,
     modelVars
<1>4. FinalStatus'
  BY DEF IInv, TypeOK, FinalStatus, IsFinished, Submitting, Serving, vars, collectorVars,
     middlewareVars, searchVars, modelVars
<1>5. OneEventPerCollector'
  BY DEF IInv, TypeOK, OneEventPerCollector, InEvents, Posting, vars, collectorVars,
     middlewareVars, searchVars, modelVars
<1>6. PostedFlag'
  BY DEF IInv, TypeOK, PostedFlag, InEvents, Posting, Submitting, vars, collectorVars,
     middlewareVars, searchVars, modelVars
<1>7. Ended'
  BY DEF IInv, TypeOK, Ended, IsFinished, InEvents, Serving, vars, collectorVars,
     middlewareVars, searchVars, modelVars
<1>8. ExactlyOnce'
  BY DEF IInv, TypeOK, ExactlyOnce, vars, collectorVars, middlewareVars, searchVars,
     modelVars
<1>9. EndedIsComplete'
  BY DEF IInv, TypeOK, EndedIsComplete, vars, collectorVars, middlewareVars, searchVars,
     modelVars
<1>10. QED
  BY <1>1, <1>2, <1>3, <1>4, <1>5, <1>6, <1>7, <1>8, <1>9 DEF IInv
-----------------------------------------------------------------------------
(* The theorems.                                                           *)

LEMMA InitInv == Init => IInv
<1> SUFFICES ASSUME Init PROVE IInv
  OBVIOUS
<1>1. TypeOK
  BY InitType
<1>2. \A q \in Queries : q > 0
  BY QueriesAreNat DEF Queries
<1>3. Started /\ Attached /\ Cancellation /\ FinalStatus
  BY <1>2 DEF Init, Started, Attached, Cancellation, FinalStatus, IsFinished, InEvents,
     Serving, Submitting, Idle, NotFinished
<1>4. OneEventPerCollector /\ PostedFlag
  BY DEF Init, OneEventPerCollector, PostedFlag, InEvents, Posting, Idle
<1>5. Ended /\ ExactlyOnce /\ EndedIsComplete
  BY DEF Init, Ended, ExactlyOnce, EndedIsComplete
<1>6. QED
  BY <1>1, <1>3, <1>4, <1>5 DEF IInv

LEMMA NextInv == IInv /\ [Next]_vars => IInv'
<1> SUFFICES ASSUME IInv, [Next]_vars PROVE IInv'
  OBVIOUS
<1>1. TypeOK'
  BY NextType DEF IInv
<1>2. CASE Middleware
  BY <1>1, <1>2, InvPushResult, InvPushAnnotation, InvFinished, InvSubmit, InvPostEvent DEF
     Middleware
<1>3. CASE UI
  BY <1>1, <1>3, InvBeginDispatch, InvEndDispatch, InvProcessSearchChunk, InvDelayTimeout,
     InvTtlTimeout, InvBeginDestroy, InvEndDestroy DEF UI
<1>4. CASE UNCHANGED vars
  BY <1>1, <1>4, InvStutter
<1>5. QED
  BY <1>2, <1>3, <1>4 DEF Next

(* IInv holds in every reachable state, whatever the threads, the number   *)
(* of searches and results, and the completion details.                    *)
THEOREM Invariance == Spec => []IInv
  BY InitInv, NextInv, PTL DEF Spec

(* However many threads push at once, a collector has at most one          *)
(* PushEvent queued or about to be posted (collectors.cpp:101-110,         *)
(* 151-167).                                                               *)
THEOREM OneEvent == Spec => []OneEventPerCollector
<1>1. IInv => OneEventPerCollector
  BY DEF IInv
<1>2. QED
  BY <1>1, Invariance, PTL

(* No result and no finished() of the search on the page is left without   *)
(* an event to come (collectors.cpp:313-346 against 151-167).              *)
THEOREM NoneStranded == Spec => []NoLostWakeup
<1>1. IInv => NoLostWakeup
  <2> SUFFICES ASSUME IInv, NEW q \in Queries, receiver[q], q = query,
                      buffer[q] # <<>> \/ (searchInProgress /\ finishedWith[q] # NotFinished)
               PROVE  InEvents(q) \/ \E t \in Threads : Serving(t, q)
    BY DEF NoLostWakeup
  <2>1. searchInProgress
    BY DEF IInv, Ended, Started, Queries
  <2>2. CASE posted[q]
    BY <2>1, <2>2 DEF IInv, PostedFlag, Posting, Serving
  <2>3. CASE ~posted[q] /\ buffer[q] # <<>>
    BY <2>1, <2>3 DEF IInv, PostedFlag, Submitting, Serving
  <2>4. CASE ~posted[q] /\ finishedWith[q] # NotFinished
    BY <2>1, <2>4 DEF IInv, FinalStatus, IsFinished, Submitting, Serving
  <2>5. QED
    BY <2>2, <2>3, <2>4 DEF IInv, TypeOK
<1>2. QED
  BY <1>1, Invariance, PTL

(* Nothing of the search in progress is lost, duplicated or reordered      *)
(* between push() and the model (scope.cpp:138-165, 359-379).              *)
THEOREM NothingLost == Spec => []ExactlyOnce
<1>1. IInv => ExactlyOnce
  BY DEF IInv
<1>2. QED
  BY <1>1, Invariance, PTL

(* A search that has ended left on the page exactly what it pushed and the *)
(* status it was finished with (scope.cpp:166-192, 378-459).               *)
THEOREM EndedComplete == Spec => []EndedIsComplete
<1>1. IInv => EndedIsComplete
  BY DEF IInv
<1>2. QED
  BY <1>1, Invariance, PTL

(* No event is ever posted to a deleted Scope (collectors.cpp:313-329,     *)
(* scope.h:61-69).                                                         *)
THEOREM DeletedScopeIsQuiet == Spec => []NoEventToDeletedScope
<1>1. IInv => NoEventToDeletedScope
  BY DEF IInv, Attached, NoEventToDeletedScope
<1>2. QED
  BY <1>1, Invariance, PTL

-----------------------------------------------------------------------------
(* The pipeline implements SearchDelivery.                                 *)

(* What the page shows is known by the search its first row names: rows of *)
(* the search in progress are those that were applied, and nothing waits   *)
(* for the delay timer when no search is in progress.                      *)
PageInv ==
  /\ \A q \in Queries : \A i \in 1 .. Len(pushed[q]) : pushed[q][i][1] = q
  /\ visible # <<>> => visible[1][1] \in 1 .. query
  /\ searchInProgress => IF applied = <<>> THEN ~Delivery!Shows(query) ELSE visible = applied
  /\ ~searchInProgress => cached = <<>>

Closed == {q \in Queries : finishedWith[q] # NotFinished}

LEMMA ConcatPrefix ==
  ASSUME NEW S, NEW s \in Seq(S), NEW u \in Seq(S)
  PROVE  /\ s \o u \in Seq(S) /\ Len(s) \in Nat /\ Len(s) <= Len(s \o u)
         /\ SubSeq(s \o u, 1, Len(s)) = s
<1>1. /\ s \o u \in Seq(S) /\ Len(s \o u) = Len(s) + Len(u) /\ Len(s) \in Nat /\ Len(u) \in Nat
      /\ \A i \in 1 .. Len(s) : (s \o u)[i] = s[i]
  BY ConcatProperties, LenProperties
<1>2. PICK r : r = SubSeq(s \o u, 1, Len(s))
  OBVIOUS
<1>3. r \in Seq(S) /\ Len(r) = Len(s) /\ \A i \in 1 .. Len(s) : r[i] = s[i]
  BY <1>1, <1>2, SubSeqProperties
<1>4. r = s
  BY <1>3, SeqEqual
<1>5. QED
  BY <1>1, <1>2, <1>4

(* What an event does: nothing if its collector is cancelled; otherwise it *)
(* belongs to the search in progress, and either a chunk is cached or the  *)
(* search ends with everything on the page.                                *)
LEMMA ChunkOfPresentSearch ==
  ASSUME IInv, ProcessSearchChunk
  PROVE  /\ UNCHANGED <<pushed, finishedWith, query>>
         /\ \/ UNCHANGED <<visible, searchInProgress, applied, cached>>
            \/ searchInProgress /\ UNCHANGED <<visible, searchInProgress, applied>>
            \/ /\ searchInProgress /\ ~searchInProgress' /\ query \in Queries /\ IsFinished(query)
               /\ visible' = pushed[query] /\ cached' = <<>>
<1>1. PICK q : q = Head(events)
  OBVIOUS
<1>2. q \in Queries /\ InEvents(q)
  <2>1. /\ events \in Seq(Queries) /\ events # <<>>
        /\ \A i, j \in DOMAIN events : events[i] = events[j] => i = j
    BY DEF ProcessSearchChunk, IInv, TypeOK, OneEventPerCollector
  <2>2. QED
    BY <1>1, <2>1, TailMember DEF InEvents
<1>3. launched[q]
  BY <1>2 DEF IInv, Started
<1>4. UNCHANGED <<pushed, finishedWith, query>>
  BY DEF ProcessSearchChunk, CacheChunk, EndSearch, middlewareVars, searchVars
<1>5. CASE status[q] = "CANCELLED"
  <2>1. UNCHANGED <<searchVars, modelVars>>
    BY <1>1, <1>5 DEF ProcessSearchChunk
  <2>2. QED
    BY <1>4, <2>1 DEF searchVars, modelVars
<1>6. CASE status[q] # "CANCELLED"
  <2>1. q = query /\ searchInProgress
    <3>1. q = query
      BY <1>2, <1>3, <1>6 DEF IInv, Cancellation
    <3>2. QED
      BY <1>2, <1>3, <3>1 DEF IInv, Ended, Queries
  <2>2. CASE status[q] = "INCOMPLETE"
    BY <1>1, <1>4, <2>1, <2>2 DEF ProcessSearchChunk, CacheChunk
  <2>3. CASE status[q] # "INCOMPLETE"
    <3>1. EndSearch(status[q], cached \o buffer[q], {q} \X annotations[q])
      BY <1>1, <1>6, <2>3 DEF ProcessSearchChunk
    <3>2. visible' = applied \o (cached \o buffer[q]) /\ cached' = <<>> /\ searchInProgress' = FALSE
      BY <3>1 DEF EndSearch, FlushUpdates
    <3>3. pushed[q] = (applied \o cached) \o buffer[q]
      <4>1. /\ applied \in Seq(ResultTokens) /\ cached \in Seq(ResultTokens)
            /\ buffer[q] \in Seq(ResultTokens)
        BY <1>2 DEF IInv, TypeOK
      <4>2. (applied \o cached) \o buffer[q] = applied \o (cached \o buffer[q])
        BY <4>1, ResultsConcat, Zenon
      <4>3. pushed[q] = applied \o cached \o buffer[q]
        BY <2>1 DEF IInv, ExactlyOnce
      <4>4. QED
        BY <4>1, <4>2, <4>3
    <3>4. applied \o (cached \o buffer[q]) = (applied \o cached) \o buffer[q]
      <4>1. /\ applied \in Seq(ResultTokens) /\ cached \in Seq(ResultTokens)
            /\ buffer[q] \in Seq(ResultTokens)
        BY <1>2 DEF IInv, TypeOK
      <4>2. QED
        BY <4>1, ResultsConcat, Zenon
    <3>5. IsFinished(q)
      BY <1>2, <1>6, <2>3 DEF IInv, FinalStatus
    <3>6. QED
      BY <1>2, <1>4, <2>1, <3>2, <3>3, <3>4, <3>5
  <2>4. QED
    BY <2>2, <2>3
<1>7. QED
  BY <1>5, <1>6

(* What the delay timer does: rows of the search in progress appear.       *)
LEMMA RowsOfPresentSearch ==
  ASSUME IInv, PageInv, DelayTimeout
  PROVE  /\ UNCHANGED <<pushed, finishedWith, query, searchInProgress>>
         /\ \/ UNCHANGED <<visible, applied, cached>>
            \/ /\ searchInProgress /\ query \in Queries /\ visible' = applied' /\ cached' = <<>>
               /\ applied' # <<>> /\ applied'[1][1] = query
               /\ \E n \in 1 .. Len(pushed[query]) :
                    /\ n > Len(applied)
                    /\ visible' = SubSeq(pushed[query], 1, n)
<1>1. /\ UNCHANGED <<pushed, finishedWith, query, searchInProgress>>
      /\ FlushUpdates(FALSE, cached, received)
  BY DEF DelayTimeout, middlewareVars
<1>2. CASE cached = <<>>
  BY <1>1, <1>2 DEF FlushUpdates
<1>3. CASE cached # <<>>
  <2>1. searchInProgress
    BY <1>3 DEF PageInv
  <2>2. query \in Queries
    BY <2>1 DEF IInv, Started, TypeOK, Queries
  <2>3. cached' = <<>> /\ applied' = applied \o cached /\ visible' = applied \o cached
    BY <1>1, <1>3 DEF FlushUpdates
  <2>4. /\ applied \in Seq(ResultTokens) /\ cached \in Seq(ResultTokens)
        /\ buffer[query] \in Seq(ResultTokens)
    BY <2>2 DEF IInv, TypeOK
  <2>5. PICK s \in Seq(ResultTokens) : s = applied \o cached
    BY <2>4, ConcatProperties
  <2>6. Len(s) > Len(applied) /\ Len(s) \in Nat /\ Len(applied) \in Nat
    <3>1. Len(s) = Len(applied) + Len(cached) /\ Len(applied) \in Nat /\ Len(cached) \in Nat
      BY <2>4, <2>5, ConcatProperties, LenProperties
    <3>2. Len(cached) # 0
      BY <1>3, <2>4, EmptySeq
    <3>3. QED
      BY <3>1, <3>2
  <2>7. pushed[query] = s \o buffer[query]
    BY <2>1, <2>5 DEF IInv, ExactlyOnce
  <2>8. /\ Len(s) <= Len(pushed[query]) /\ SubSeq(pushed[query], 1, Len(s)) = s
        /\ pushed[query] \in Seq(ResultTokens) /\ Len(pushed[query]) \in Nat
    <3>1. PICK u \in Seq(ResultTokens) : u = buffer[query]
      BY <2>4
    <3>2. PICK w : w = s \o u
      OBVIOUS
    <3>3. w \in Seq(ResultTokens) /\ Len(s) <= Len(w) /\ SubSeq(w, 1, Len(s)) = s
      BY <3>2, ConcatPrefix
    <3>4. Len(w) \in Nat
      BY <3>3, LenProperties
    <3>5. w = pushed[query]
      BY <2>7, <3>1, <3>2
    <3>6. QED
      BY <3>3, <3>4, <3>5
  <2>9. Len(s) \in 1 .. Len(pushed[query])
    BY <2>6, <2>8
  <2>10. s # <<>> /\ s[1][1] = query
    <3>1. s[1] = pushed[query][1]
      <4>1. PICK u \in Seq(ResultTokens) : u = buffer[query]
        BY <2>4
      <4>2. 1 \in 1 .. Len(s)
        BY <2>6
      <4>3. (s \o u)[1] = s[1]
        BY <4>2, ConcatProperties
      <4>4. QED
        BY <2>7, <4>1, <4>3
    <3>2. 1 \in 1 .. Len(pushed[query])
      BY <2>9
    <3>3. pushed[query][1][1] = query
      BY <2>2, <3>2 DEF PageInv
    <3>4. QED
      BY <2>6, <3>1, <3>3
  <2>11. QED
    BY <1>1, <2>1, <2>2, <2>3, <2>5, <2>6, <2>8, <2>9, <2>10
<1>4. QED
  BY <1>2, <1>3

LEMMA InitPage == Init => PageInv
BY DEF Init, PageInv, Queries

LEMMA NextPage == IInv /\ PageInv /\ [Next]_vars => PageInv'
<1> SUFFICES ASSUME IInv, PageInv, [Next]_vars PROVE PageInv'
  OBVIOUS
<1>1. ASSUME NEW t \in Threads, NEW q \in Queries, PushResult(t, q) PROVE PageInv'
  <2>1. UNCHANGED <<query, searchInProgress, visible, applied, cached>>
    BY <1>1 DEF PushResult, searchVars, modelVars
  <2>2. pushed[q] \in Seq(ResultTokens) /\ pushed \in [Queries -> Seq(ResultTokens)]
    BY DEF IInv, TypeOK
  <2>3. PICK e : e = <<q, Len(pushed[q]) + 1>>
    OBVIOUS
  <2>4. pushed' = [pushed EXCEPT ![q] = Append(@, e)] /\ e[1] = q
    BY <1>1, <2>3 DEF PushResult
  <2>5. e \in ResultTokens
    BY <1>1, <2>2, <2>3, QueriesAreNat DEF PushResult, ResultTokens
  <2>6. ASSUME NEW p \in Queries, NEW i \in 1 .. Len(pushed'[p]) PROVE pushed'[p][i][1] = p
    <3>1. CASE p # q
      BY <2>2, <2>4, <2>6, <3>1 DEF PageInv
    <3>2. CASE p = q
      <4>1. pushed'[q] = Append(pushed[q], e)
        BY <2>2, <2>4
      <4>2. /\ Len(pushed'[q]) = Len(pushed[q]) + 1 /\ Len(pushed[q]) \in Nat
            /\ \A j \in 1 .. Len(pushed[q]) : pushed'[q][j] = pushed[q][j]
            /\ pushed'[q][Len(pushed[q]) + 1] = e
        BY <2>2, <2>5, <4>1, AppendProperties, LenProperties
      <4>3. QED
        BY <2>4, <2>6, <3>2, <4>2 DEF PageInv
    <3>3. QED
      BY <3>1, <3>2
  <2>7. QED
    BY <2>1, <2>6 DEF PageInv, Delivery!Shows
<1>2. CASE UNCHANGED <<query, searchInProgress, visible, applied, cached, pushed>>
  BY <1>2 DEF PageInv, Delivery!Shows
<1>3. ASSUME NEW b \in BOOLEAN, EndDispatch(b) PROVE PageInv'
  <2>1. /\ query' = query + 1 /\ cached' = <<>> /\ applied' = <<>> /\ UNCHANGED <<pushed, visible>>
        /\ query \in Nat
    BY <1>3, QueriesAreNat DEF EndDispatch, IInv, TypeOK
  <2>2. visible # <<>> => visible[1][1] \in 1 .. query' /\ visible[1][1] # query'
    BY <2>1 DEF PageInv
  <2>3. QED
    BY <2>1, <2>2 DEF PageInv, Delivery!Shows
<1>4. CASE ProcessSearchChunk
  <2>1. CASE UNCHANGED <<visible, searchInProgress, applied, cached>>
    BY <1>2, <1>4, <2>1, ChunkOfPresentSearch
  <2>2. CASE searchInProgress /\ UNCHANGED <<visible, searchInProgress, applied>>
    BY <1>4, <2>2, ChunkOfPresentSearch DEF PageInv, Delivery!Shows
  <2>3. CASE /\ ~searchInProgress' /\ query \in Queries
             /\ visible' = pushed[query] /\ cached' = <<>>
    <3>1. UNCHANGED <<pushed, query>>
      BY <1>4, ChunkOfPresentSearch
    <3>2. visible' # <<>> => visible'[1][1] \in 1 .. query'
      <4>1. pushed[query] \in Seq(ResultTokens) /\ query \in Nat /\ query >= 1
        BY <2>3, QueriesAreNat DEF IInv, TypeOK, Queries
      <4>2. pushed[query] # <<>> => 1 \in 1 .. Len(pushed[query])
        BY <4>1, EmptySeq, LenProperties
      <4>3. QED
        BY <2>3, <3>1, <4>1, <4>2 DEF PageInv
    <3>3. QED
      BY <2>3, <3>1, <3>2 DEF PageInv
  <2>4. QED
    BY <1>4, <2>1, <2>2, <2>3, ChunkOfPresentSearch
<1>5. CASE DelayTimeout
  <2>1. CASE UNCHANGED <<visible, applied, cached>>
    BY <1>2, <1>5, <2>1, RowsOfPresentSearch
  <2>2. CASE /\ searchInProgress /\ query \in Queries /\ visible' = applied' /\ cached' = <<>>
             /\ applied' # <<>> /\ applied'[1][1] = query
    <3>1. UNCHANGED <<pushed, query, searchInProgress>>
      BY <1>5, RowsOfPresentSearch
    <3>2. query \in 1 .. query
      BY <2>2, QueriesAreNat DEF Queries
    <3>3. QED
      BY <2>2, <3>1, <3>2 DEF PageInv
  <2>3. QED
    BY <1>5, <2>1, <2>2, RowsOfPresentSearch
<1>6. QED
  BY <1>1, <1>2, <1>3, <1>4, <1>5
     DEF Next, Middleware, UI, PushAnnotation, Finished, Submit, PostEvent, BeginDispatch, TtlTimeout,
         BeginDestroy, EndDestroy, vars, searchVars, modelVars, middlewareVars, collectorVars

LEMMA InitDelivers == Init => Delivery!Init
<1> SUFFICES ASSUME Init PROVE Delivery!Init
  OBVIOUS
<1>1. {q \in Queries : finishedWith[q] # NotFinished} = {}
  BY DEF Init
<1>2. Delivery!Queries = Queries
  BY DEF Delivery!Queries, Queries
<1>3. QED
  BY <1>1, <1>2 DEF Init, Delivery!Init

LEMMA NextDelivers == IInv /\ PageInv /\ [Next]_vars => [Delivery!Next]_(Delivery!vars)
<1> SUFFICES ASSUME IInv, PageInv, [Next]_vars PROVE Delivery!Next \/ UNCHANGED Delivery!vars
  OBVIOUS
<1>0. Delivery!Queries = Queries
  BY DEF Delivery!Queries, Queries
<1>1. ASSUME NEW t \in Threads, NEW q \in Queries, PushResult(t, q) PROVE Delivery!Next
  <2>1. /\ UNCHANGED <<query, finishedWith, visible, searchInProgress>>
        /\ finishedWith[q] = NotFinished /\ launched[q] /\ Len(pushed[q]) < MaxResults
        /\ pushed' = [pushed EXCEPT ![q] = Append(@, <<q, Len(pushed[q]) + 1>>)]
    BY <1>1 DEF PushResult, Open, searchVars, modelVars
  <2>2. pushed' = [pushed EXCEPT ![q] = Append(@, <<q, Len(@) + 1>>)]
    BY <2>1 DEF IInv, TypeOK
  <2>3. q <= query
    BY <2>1 DEF IInv, Started
  <2>4. Delivery!Push(q)
    BY <2>1, <2>2, <2>3 DEF Delivery!Push
  <2>5. QED
    BY <1>0, <2>4 DEF Delivery!Next
<1>2. ASSUME NEW t \in Threads, NEW q \in Queries, NEW d \in Details, Finished(t, q, d)
      PROVE  Delivery!Next
  <2>1. /\ UNCHANGED <<query, pushed, visible, searchInProgress>>
        /\ finishedWith[q] = NotFinished /\ launched[q]
        /\ finishedWith' = [finishedWith EXCEPT ![q] = d]
    BY <1>2 DEF Finished, MayFinish, Open, searchVars, modelVars
  <2>2. Closed' = Closed \cup {q} /\ q \notin Closed
    BY <2>1, DetailsAreFinal DEF IInv, TypeOK, Closed
  <2>3. q <= query
    BY <2>1 DEF IInv, Started
  <2>4. Delivery!Close(q)
    BY <2>1, <2>2, <2>3 DEF Delivery!Close, Closed
  <2>5. QED
    BY <1>0, <2>4 DEF Delivery!Next
<1>3. CASE UNCHANGED <<query, searchInProgress, visible, pushed, finishedWith>>
  BY <1>3 DEF Delivery!vars
<1>4. ASSUME NEW b \in BOOLEAN, EndDispatch(b) PROVE Delivery!Next
  <2>1. /\ query < MaxQueries /\ query' = query + 1 /\ searchInProgress' \in BOOLEAN
        /\ UNCHANGED <<pushed, finishedWith, visible>>
    BY <1>4 DEF EndDispatch, IInv, TypeOK
  <2>2. Delivery!Dispatch
    BY <2>1 DEF Delivery!Dispatch
  <2>3. QED
    BY <2>2 DEF Delivery!Next
<1>5. CASE ProcessSearchChunk
  <2>1. CASE UNCHANGED <<visible, searchInProgress>>
    BY <1>3, <1>5, <2>1, ChunkOfPresentSearch
  <2>2. CASE /\ searchInProgress /\ ~searchInProgress' /\ query \in Queries /\ IsFinished(query)
             /\ visible' = pushed[query]
    <3>1. UNCHANGED <<pushed, finishedWith, query>> /\ searchInProgress' = FALSE
      <4>1. searchInProgress' \in BOOLEAN
        BY NextType DEF IInv, TypeOK
      <4>2. QED
        BY <1>5, <2>2, <4>1, ChunkOfPresentSearch
    <3>2. Delivery!Finish
      BY <2>2, <3>1 DEF Delivery!Finish, IsFinished
    <3>3. QED
      BY <3>2 DEF Delivery!Next
  <2>3. QED
    BY <1>5, <2>1, <2>2, ChunkOfPresentSearch
<1>6. CASE DelayTimeout
  <2>1. CASE UNCHANGED visible
    BY <1>3, <1>6, <2>1, RowsOfPresentSearch
  <2>2. ASSUME searchInProgress, query \in Queries, NEW n \in 1 .. Len(pushed[query]),
               n > Len(applied), visible' = SubSeq(pushed[query], 1, n)
        PROVE  Delivery!Next
    <3>1. UNCHANGED <<pushed, finishedWith, query, searchInProgress>>
      BY <1>6, RowsOfPresentSearch
    <3>2. Delivery!Shows(query) => n > Len(visible)
      BY <2>2 DEF PageInv
    <3>3. Delivery!Show
      BY <2>2, <3>1, <3>2 DEF Delivery!Show
    <3>4. QED
      BY <3>3 DEF Delivery!Next
  <2>3. QED
    BY <1>6, <2>1, <2>2, RowsOfPresentSearch
<1>7. QED
  BY <1>1, <1>2, <1>3, <1>4, <1>5, <1>6
     DEF Next, Middleware, UI, PushAnnotation, Submit, PostEvent, BeginDispatch, TtlTimeout,
         BeginDestroy, EndDestroy, vars, searchVars, modelVars, middlewareVars, collectorVars

(* The pipeline keeps the contract of SearchDelivery: a superseded search  *)
(* never touches the page, rows of the present one are never taken back,   *)
(* and when it ends all it pushed is there (scope.cpp:708-724).            *)
THEOREM PipelineDelivers == Spec => ImplementsDelivery
<1>1. Init => PageInv /\ Delivery!Init
  BY InitPage, InitDelivers
<1>2. QED
  BY <1>1, InitInv, NextInv, NextPage, NextDelivers, PTL DEF Spec, ImplementsDelivery, Delivery!Spec
=============================================================================
