------------------------ MODULE PreviewPipelineProofs ------------------------
(***************************************************************************)
(* Proofs about a preview, for any threads, widgets, layouts and bounds.   *)
(*                                                                         *)
(* The first part is about PreviewPipeline: a preview that is loaded holds *)
(* what the scope pushed for it, and what was pushed is fetched.  The      *)
(* heart of the invariant is Conserved: what the model took over and what  *)
(* still waits in the collector make up what was pushed.  The rest says    *)
(* which requests anybody can still be busy with, and that a push that     *)
(* finds an event posted may rely on that event.                           *)
(*                                                                         *)
(* The second part is about PreviewModel: the lookups of its columns       *)
(* match the rows.  Handlers run through loops, so the invariant is stated *)
(* of a state, Good(p, S): every pointer of p leads to one of the objects  *)
(* S, which exist, and every column is in order; each pass of a loop keeps *)
(* it.  Sound(p) says it of the objects that p itself points to: those     *)
(* survive when the handler ends and the others are freed.                 *)
(***************************************************************************)
EXTENDS PreviewPipeline, PreviewModel, ListProofs

-----------------------------------------------------------------------------
(* The inductive invariant.                                                *)

CollectorStatus == {"INCOMPLETE", "FINISHED", "CANCELLED"}
Pushes == Kinds \X Nat
Buffers == [Kinds -> Seq(Pushes)]
Collectors == [status : CollectorStatus, posted : BOOLEAN, buffer : Buffers]
Workers == [at : {"idle", "submit", "post"}, request : 0 .. MaxRequests, final : BOOLEAN]

PipelineType ==
  /\ collector \in [Requests -> Collectors]
  /\ sent \in [Requests -> Buffers]
  /\ worker \in [Threads -> Workers]
  /\ events \in Seq(Requests)
  /\ request \in 0 .. MaxRequests /\ attached \subseteq Requests
  /\ taken \in Buffers /\ ready \in BOOLEAN
  /\ uiAt \in {"loop", "dispatch", "destroy", "gone"}

Submitting(t, q) == worker[t].at = "submit" /\ worker[t].request = q
Posting(t, q) == worker[t].at = "post" /\ worker[t].request = q
InEvents(q) == \E i \in DOMAIN events : events[i] = q

(* Threads and events belong to requests that were launched, and of the    *)
(* requests that are still to come nothing has happened.                   *)
Launched ==
  /\ over \subseteq launched /\ launched \subseteq 1 .. request
  /\ \A t \in Threads : worker[t].at = "idle" \/ worker[t].request \in launched
  /\ \A i \in DOMAIN events : events[i] \in launched
  /\ \A q \in Requests : q > request =>
       /\ collector[q].status = "INCOMPLETE" /\ ~collector[q].posted
       /\ collector[q].buffer = Nothing /\ sent[q] = Nothing

(* Only the present request has a receiver, and only while the model lives. *)
Attached ==
  /\ attached \subseteq {request}
  /\ uiAt = "gone" => attached = {} /\ events = <<>>
  /\ uiAt = "dispatch" => request < MaxRequests

(* The collectors of superseded requests are cancelled, the present one    *)
(* only while it is being replaced or destroyed.                           *)
Cancelled ==
  /\ \A q \in Requests : q < request => collector[q].status = "CANCELLED"
  /\ request > 0 => (collector[request].status = "CANCELLED" <=> uiAt # "loop")
  /\ \A q \in Requests : collector[q].status = "FINISHED" => q \in over

(* After finished() only its caller is left, and the model has what there  *)
(* was once it is loaded.                                                  *)
Over ==
  /\ \A t \in Threads, q \in over : Submitting(t, q) => worker[t].final
  /\ \A t \in Threads : worker[t].at = "submit" /\ worker[t].final => worker[t].request \in over
  /\ ready => request \in over /\ collector[request].buffer = Nothing

(* What m_posted and its absence mean for the request that counts.         *)
PostedFlag ==
  /\ \A q \in attached : collector[q].posted /\ collector[q].status # "CANCELLED" /\ ~ready =>
       InEvents(q) \/ \E t \in Threads : Posting(t, q)
  /\ \A q \in Requests : ~collector[q].posted /\ collector[q].buffer # Nothing =>
       \E t \in Threads : Submitting(t, q)
  /\ \A q \in over : collector[q].status = "INCOMPLETE" \/ ~collector[q].posted =>
       collector[q].status = "CANCELLED" \/ \E t \in Threads : Submitting(t, q)

(* What was taken over and what waits make up what was pushed.             *)
Conserved ==
  request > 0 /\ collector[request].status # "CANCELLED" =>
    \A kind \in Kinds : TakeOver(collector[request].buffer)[kind] = Expected(request)[kind]

PInv == PipelineType /\ Launched /\ Attached /\ Cancelled /\ Over /\ PostedFlag /\ Conserved

-----------------------------------------------------------------------------
(* Lemmas about the operators of the model.                                *)

(* What the collector keeps of a push, and what the model holds after it   *)
(* would have taken it over.                                               *)
LEMMA BufferedProperties ==
  ASSUME NEW buffer \in Buffers, NEW kind \in Kinds, NEW n \in Nat
  PROVE  /\ <<kind, n>> \in Pushes
         /\ Buffered(buffer, <<kind, n>>) \in Buffers
         /\ \A k \in Kinds : k # kind => Buffered(buffer, <<kind, n>>)[k] = buffer[k]
         /\ Buffered(buffer, <<kind, n>>)[kind] =
              IF kind = "widgets" THEN Append(buffer[kind], <<kind, n>>) ELSE <<<<kind, n>>>>
<1>1. <<kind, n>> \in Pushes /\ <<kind, n>>[1] = kind
  BY DEF Pushes
<1>2. Append(buffer[kind], <<kind, n>>) \in Seq(Pushes) /\ <<<<kind, n>>>> \in Seq(Pushes)
  BY <1>1, AppendProperties DEF Buffers
<1>3. Buffered(buffer, <<kind, n>>) =
        [buffer EXCEPT ![kind] = IF kind = "widgets" THEN Append(buffer[kind], <<kind, n>>)
                                 ELSE <<<<kind, n>>>>]
  BY <1>1 DEF Buffered, AddWidgets, AddData, SetColumnLayoutList, Kinds
<1>4. QED
  BY <1>1, <1>2, <1>3 DEF Buffers

LEMMA AppendToConcat ==
  ASSUME NEW S, NEW s1 \in Seq(S), NEW s2 \in Seq(S), NEW e \in S
  PROVE  s1 \o Append(s2, e) = Append(s1 \o s2, e)
<1>1. <<e>> \in Seq(S) /\ Append(s2, e) = s2 \o <<e>>
  BY AppendIsConcat
<1>2. s1 \o s2 \in Seq(S)
  BY ConcatProperties
<1>3. Append(s1 \o s2, e) = (s1 \o s2) \o <<e>>
  BY <1>2, AppendIsConcat
<1>4. QED
  BY <1>1, <1>3, ConcatAssociative

LEMMA PushToConcat ==
  \A s1, s2 \in Seq(Pushes), e \in Pushes : s1 \o Append(s2, e) = Append(s1 \o s2, e)
  BY AppendToConcat

LEMMA NothingProperties ==
  /\ Nothing \in Buffers
  /\ \A kind \in Kinds : Nothing[kind] = <<>>
  BY DEF Nothing, Buffers

LEMMA TakeOverType ==
  ASSUME taken \in Buffers, NEW chunk \in Buffers
  PROVE  TakeOver(chunk) \in Buffers
  BY ConcatProperties DEF TakeOver, Buffers

(* Taking nothing over changes nothing.                                    *)
LEMMA TakeOverNothing ==
  ASSUME taken \in Buffers
  PROVE  TakeOver(Nothing) = taken
<1>1. \A kind \in Kinds : taken[kind] \o <<>> = taken[kind]
  BY ConcatEmptySeq DEF Buffers
<1>2. \A kind \in Kinds : TakeOver(Nothing)[kind] = taken[kind]
  BY <1>1 DEF TakeOver, Nothing
<1>3. TakeOver(Nothing) \in Buffers
  BY NothingProperties, TakeOverType
<1>4. QED
  BY <1>2, <1>3 DEF Buffers

(* The buffer of the present request gets a push and so does the history:  *)
(* the two still make up one another.                                      *)
MadeUp(buffer, history, k) ==
  TakeOver(buffer)[k] =
    IF k = "widgets" \/ history[k] = <<>> THEN history[k] ELSE <<Last(history[k])>>

PushAdded(kind, push, buffer, b, before, after) ==
  /\ \A j \in Kinds : j # kind => b[j] = buffer[j] /\ after[j] = before[j]
  /\ b[kind] = IF kind = "widgets" THEN Append(buffer[kind], push) ELSE <<push>>
  /\ after[kind] = Append(before[kind], push)

LEMMA PushConserved ==
  ASSUME taken \in Buffers,
         NEW buffer \in Buffers, NEW before \in Buffers, NEW b \in Buffers, NEW after \in Buffers,
         NEW kind \in Kinds, NEW push \in Pushes, PushAdded(kind, push, buffer, b, before, after),
         NEW k \in Kinds, MadeUp(buffer, before, k)
  PROVE  MadeUp(b, after, k)
<1> USE DEF MadeUp, PushAdded
<1>1. CASE k # kind
  <2>1. b[k] = buffer[k] /\ after[k] = before[k]
    BY <1>1 DEF Buffers
  <2>2. TakeOver(b)[k] = TakeOver(buffer)[k]
    BY <2>1 DEF TakeOver
  <2>3. QED
    BY <2>1, <2>2
<1>2. CASE k = kind /\ kind = "widgets"
  <2>1. taken[k] \in Seq(Pushes) /\ buffer[k] \in Seq(Pushes)
    BY DEF Buffers
  <2>2. TakeOver(buffer)[k] = taken[k] \o buffer[k] /\ TakeOver(b)[k] = taken[k] \o b[k]
    BY <1>2 DEF TakeOver
  <2>3. taken[k] \o Append(buffer[k], push) = Append(taken[k] \o buffer[k], push)
    BY <2>1, PushToConcat
  <2>4. before[k] = taken[k] \o buffer[k]
    BY <1>2, <2>2
  <2>5. after[k] = Append(before[k], push)
    BY <1>2 DEF Buffers
  <2>6. b[k] = Append(buffer[k], push)
    BY <1>2
  <2>7. TakeOver(b)[k] = after[k]
    BY <2>2, <2>3, <2>4, <2>5, <2>6
  <2>8. QED
    BY <1>2, <2>7
<1>3. CASE k = kind /\ kind # "widgets"
  <2>1. b[k] = <<push>> /\ after[k] = Append(before[k], push)
    BY <1>3 DEF Buffers
  <2>2. before[k] \in Seq(Pushes)
    BY DEF Buffers
  <2>3. Len(after[k]) = Len(before[k]) + 1 /\ after[k][Len(before[k]) + 1] = push
    BY <2>1, <2>2, AppendProperties
  <2>4. Len(before[k]) \in Nat /\ after[k] # <<>>
    BY <2>1, <2>2, AppendProperties, LenProperties
  <2>5. Last(after[k]) = push
    BY <2>3 DEF Last
  <2>6. TakeOver(b)[k] = <<push>>
    <3>1. b[k] # <<>>
      BY <2>1
    <3>2. TakeOver(b)[k] = IF b[k] = <<>> THEN taken[k] ELSE b[k]
      BY <1>3 DEF TakeOver
    <3>3. QED
      BY <2>1, <3>1, <3>2
  <2>7. QED
    BY <1>3, <2>4, <2>5, <2>6
<1>4. QED
  BY <1>1, <1>2, <1>3

LEMMA RequestsAreNat == Requests \subseteq Nat /\ MaxRequests \in Nat
  BY PipelineAssumption DEF Requests

-----------------------------------------------------------------------------
(* The steps.                                                              *)

LEMMA PipelineInitInv == PipelineInit => PInv
<1> SUFFICES ASSUME PipelineInit PROVE PInv
  OBVIOUS
<1> USE RequestsAreNat
<1>1. [status |-> "INCOMPLETE", posted |-> FALSE, buffer |-> Nothing] \in Collectors
  BY NothingProperties DEF Collectors, CollectorStatus
<1>2. Idle \in Workers
  BY DEF Idle, Workers
<1>3. PipelineType
  <2>1. collector \in [Requests -> Collectors] /\ sent \in [Requests -> Buffers]
    BY <1>1, NothingProperties DEF PipelineInit
  <2>2. worker \in [Threads -> Workers]
    BY <1>2 DEF PipelineInit
  <2>3. events \in Seq(Requests) /\ taken \in Buffers
    BY NothingProperties DEF PipelineInit
  <2>4. request = 0 /\ attached = {} /\ ready \in BOOLEAN /\ uiAt = "loop"
    BY DEF PipelineInit
  <2>5. request \in 0 .. MaxRequests /\ attached \subseteq Requests
    BY <2>4
  <2>6. QED
    BY <2>1, <2>2, <2>3, <2>4, <2>5 DEF PipelineType
<1>4. Launched /\ Attached /\ Cancelled
  BY DEF PipelineInit, Launched, Attached, Cancelled, Idle, Requests
<1>5. Over /\ PostedFlag /\ Conserved
  BY DEF PipelineInit, Over, PostedFlag, Conserved, Submitting, Idle
<1>6. QED
  BY <1>3, <1>4, <1>5 DEF PInv

LEMMA PushInv ==
  ASSUME PInv, NEW t \in Threads, NEW q \in Requests, NEW kind \in Kinds, Push(t, q, kind)
  PROVE  PInv'
<1> USE RequestsAreNat
<1> DEFINE n == Len(sent[q][kind]) + 1
           b == Buffered(collector[q].buffer, <<kind, n>>)
<1>1. /\ collector \in [Requests -> Collectors] /\ sent \in [Requests -> Buffers]
      /\ worker \in [Threads -> Workers] /\ taken \in Buffers
      /\ sent[q][kind] \in Seq(Pushes) /\ n \in Nat
  BY LenProperties DEF PInv, PipelineType, Buffers
<1>2. /\ worker[t] = Idle /\ q \in launched /\ q \notin over
      /\ UNCHANGED <<attached, launched, over, events, uiAt, request, taken, ready>>
  BY DEF Push, Open
<1>3. collector[q].buffer \in Buffers /\ b \in Buffers
  BY <1>1, BufferedProperties DEF Collectors
<1>4. /\ collector' \in [Requests -> Collectors]
      /\ \A p \in Requests : /\ p # q => collector'[p] = collector[p]
                             /\ collector'[p].status = collector[p].status
                             /\ collector'[p].posted <=> collector[p].posted
      /\ collector'[q].buffer = b
  <2>1. collector' = [collector EXCEPT ![q] = [collector[q] EXCEPT !.buffer = b]]
    BY DEF Push
  <2>2. [collector[q] EXCEPT !.buffer = b] \in Collectors
    BY <1>1, <1>3 DEF Collectors
  <2>3. QED
    BY <1>1, <1>3, <2>1, <2>2 DEF Collectors
<1>5. /\ sent' \in [Requests -> Buffers]
      /\ \A p \in Requests : p # q => sent'[p] = sent[p]
      /\ sent'[q] = [sent[q] EXCEPT ![kind] = Append(@, <<kind, n>>)]
  <2>1. sent' = [sent EXCEPT ![q] = [sent[q] EXCEPT ![kind] = Append(sent[q][kind], <<kind, n>>)]]
    BY DEF Push
  <2>2. Append(sent[q][kind], <<kind, n>>) \in Seq(Pushes)
    BY <1>1, AppendProperties DEF Pushes
  <2>3. [sent[q] EXCEPT ![kind] = Append(sent[q][kind], <<kind, n>>)] \in Buffers
    BY <1>1, <2>2 DEF Buffers
  <2>4. QED
    BY <1>1, <2>1, <2>3
<1>6. /\ worker' \in [Threads -> Workers]
      /\ \A u \in Threads : u # t => worker'[u] = worker[u]
      /\ collector[q].posted => worker'[t] = Idle
      /\ ~collector[q].posted => worker'[t] = [at |-> "submit", request |-> q, final |-> FALSE]
  BY <1>1 DEF Push, Workers, Idle, Requests
<1>7. /\ \A u \in Threads, p \in Requests : Submitting(u, p) => Submitting(u, p)'
      /\ \A u \in Threads, p \in Requests : Posting(u, p) <=> Posting(u, p)'
      /\ ~collector[q].posted => Submitting(t, q)'
  BY <1>2, <1>6 DEF Submitting, Posting, Idle
<1> HIDE DEF n, b
<1>8. PipelineType'
  BY <1>2, <1>4, <1>5, <1>6 DEF PInv, PipelineType
<1>9. Launched'
  <2>1. \A u \in Threads : worker'[u].at = "idle" \/ worker'[u].request \in launched
    BY <1>2, <1>6 DEF PInv, Launched, Idle
  <2>2. q <= request
    BY <1>2 DEF PInv, Launched, PipelineType
  <2>3. \A p \in Requests : p > request => p # q
    BY <2>2 DEF PInv, PipelineType
  <2>4. QED
    BY <1>2, <1>4, <1>5, <2>1, <2>3 DEF PInv, Launched
<1>10. Attached'
  BY <1>2 DEF PInv, Attached
<1>11. Cancelled'
  <2>1. \A p \in Requests : collector'[p].status = collector[p].status
    BY <1>4
  <2>2. request > 0 => request \in Requests
    BY DEF PInv, PipelineType, Requests
  <2>3. QED
    BY <1>2, <2>1, <2>2 DEF PInv, Cancelled
<1>12. Over'
  <2>1. ready => request # q
    BY <1>2 DEF PInv, Over
  <2>2. ready' => request' \in over' /\ collector'[request'].buffer = Nothing
    BY <1>2, <1>4, <2>1 DEF PInv, Over, Launched, PipelineType, Requests
  <2>3. \A u \in Threads : worker'[u].at = "submit" /\ worker'[u].final =>
          worker'[u].request \in over'
    BY <1>2, <1>6 DEF PInv, Over, Idle
  <2>4. \A u \in Threads, p \in over' : Submitting(u, p)' => worker'[u].final
    BY <1>2, <1>6 DEF PInv, Over, Submitting, Idle
  <2>5. QED
    BY <2>2, <2>3, <2>4 DEF Over
<1>13. PostedFlag'
  <2>a. attached \subseteq Requests
    BY DEF PInv, PipelineType
  <2>b. \A p : InEvents(p)' <=> InEvents(p)
    BY <1>2 DEF InEvents
  <2>1. \A p \in attached' : collector'[p].posted /\ collector'[p].status # "CANCELLED" /\ ~ready' =>
          InEvents(p)' \/ \E u \in Threads : Posting(u, p)'
    BY <1>2, <1>4, <1>7, <2>a, <2>b DEF PInv, PostedFlag
  <2>2. \A p \in Requests : ~collector'[p].posted /\ collector'[p].buffer # Nothing =>
          \E u \in Threads : Submitting(u, p)'
    BY <1>2, <1>4, <1>7 DEF PInv, PostedFlag
  <2>3. \A p \in over' : collector'[p].status = "INCOMPLETE" \/ ~collector'[p].posted =>
          collector'[p].status = "CANCELLED" \/ \E u \in Threads : Submitting(u, p)'
    BY <1>2, <1>4, <1>7 DEF PInv, PostedFlag, Launched, PipelineType, Requests
  <2>4. QED
    BY <2>1, <2>2, <2>3 DEF PostedFlag
<1>14. Conserved'
  <2>1. CASE request # q
    BY <1>2, <1>4, <1>5, <2>1 DEF PInv, PipelineType, Conserved, TakeOver, Expected, Requests
  <2>2. CASE request = q
    <3> SUFFICES ASSUME request > 0, collector'[q].status # "CANCELLED", NEW k \in Kinds
                 PROVE  TakeOver(collector[q].buffer)[k]' = Expected(q)[k]'
      BY <1>2, <2>2 DEF Conserved
    <3>1. TakeOver(collector[q].buffer)[k] = Expected(q)[k]
      BY <1>4, <2>2 DEF PInv, Conserved
    <3>2. MadeUp(collector[q].buffer, sent[q], k)
      BY <3>1 DEF Expected, MadeUp
    <3>3. MadeUp(b, sent'[q], k)
      <4>1. sent[q] \in Buffers /\ sent'[q] \in Buffers
        BY <1>1, <1>5
      <4>2. /\ <<kind, n>> \in Pushes
            /\ \A j \in Kinds : j # kind => b[j] = collector[q].buffer[j]
            /\ b[kind] = IF kind = "widgets" THEN Append(collector[q].buffer[kind], <<kind, n>>)
                         ELSE <<<<kind, n>>>>
        BY <1>1, <1>3, BufferedProperties DEF b
      <4>3. /\ \A j \in Kinds : j # kind => sent'[q][j] = sent[q][j]
            /\ sent'[q][kind] = Append(sent[q][kind], <<kind, n>>)
        BY <1>1, <1>5 DEF Buffers
      <4>4. PushAdded(kind, <<kind, n>>, collector[q].buffer, b, sent[q], sent'[q])
        BY <4>2, <4>3 DEF PushAdded
      <4>5. QED
        BY <1>1, <1>3, <3>2, <4>1, <4>2, <4>4, PushConserved
    <3>4. TakeOver(collector[q].buffer)[k]' = TakeOver(b)[k]
      BY <1>2, <1>4 DEF TakeOver
    <3>5. QED
      BY <3>3, <3>4 DEF Expected, MadeUp
  <2>3. QED
    BY <2>1, <2>2
<1>15. QED
  BY <1>8, <1>9, <1>10, <1>11, <1>12, <1>13, <1>14 DEF PInv

(* Conserved is about the collector and the history of the present request, *)
(* and about what the model has.                                           *)
LEMMA ConservedUnchanged ==
  ASSUME PInv, request' = request, taken' = taken, sent' = sent,
         \A q \in Requests : /\ collector'[q].buffer = collector[q].buffer
                             /\ collector'[q].status # "CANCELLED" => collector[q].status # "CANCELLED"
  PROVE  Conserved'
<1>1. request > 0 => request \in Requests
  BY PipelineAssumption DEF PInv, PipelineType, Requests
<1>2. QED
  BY <1>1 DEF PInv, Conserved, TakeOver, Expected

LEMMA FinishedInv ==
  ASSUME PInv, NEW t \in Threads, NEW q \in Requests, Finished(t, q)
  PROVE  PInv'
<1> USE RequestsAreNat
<1>1. /\ worker[t] = Idle /\ q \in launched /\ q \notin over
      /\ \A u \in Threads : ~Serving(u, q)
      /\ over' = over \cup {q}
      /\ worker' = [worker EXCEPT ![t] = [at |-> "submit", request |-> q, final |-> TRUE]]
      /\ UNCHANGED <<collector, attached, sent, launched, events, uiAt, request, taken, ready>>
  BY DEF Finished, Open
<1>2. /\ worker' \in [Threads -> Workers]
      /\ \A u \in Threads : u # t => worker'[u] = worker[u]
      /\ worker'[t] = [at |-> "submit", request |-> q, final |-> TRUE]
  BY <1>1 DEF PInv, PipelineType, Workers, Requests
<1>3. /\ \A u \in Threads, p \in Requests : Submitting(u, p) => Submitting(u, p)'
      /\ \A u \in Threads, p \in Requests : Posting(u, p) <=> Posting(u, p)'
      /\ Submitting(t, q)'
  BY <1>1, <1>2 DEF Submitting, Posting, Idle
<1>4. \A p : InEvents(p)' <=> InEvents(p)
  BY <1>1 DEF InEvents
<1>5. PipelineType'
  BY <1>1, <1>2 DEF PInv, PipelineType
<1>6. Launched'
  BY <1>1, <1>2 DEF PInv, Launched
<1>7. Attached' /\ Cancelled'
  BY <1>1 DEF PInv, Attached, Cancelled
<1>8. Over'
  <2>1. \A u \in Threads, p \in over' : Submitting(u, p)' => worker'[u].final
    BY <1>1, <1>2 DEF PInv, Over, Submitting, Serving
  <2>2. \A u \in Threads : worker'[u].at = "submit" /\ worker'[u].final => worker'[u].request \in over'
    BY <1>1, <1>2 DEF PInv, Over
  <2>3. QED
    BY <1>1, <2>1, <2>2 DEF PInv, Over
<1>9. PostedFlag'
  <2>1. attached \subseteq Requests /\ over \subseteq Requests
    BY DEF PInv, PipelineType, Launched, Requests
  <2>2. QED
    BY <1>1, <1>3, <1>4, <2>1 DEF PInv, PostedFlag
<1>10. Conserved'
  BY <1>1, ConservedUnchanged
<1>11. QED
  BY <1>5, <1>6, <1>7, <1>8, <1>9, <1>10 DEF PInv

LEMMA SubmitInv ==
  ASSUME PInv, NEW t \in Threads, Submit(t)
  PROVE  PInv'
<1> USE RequestsAreNat
<1>0. PICK q \in Requests : q = worker[t].request /\ q \in launched
  BY DEF Submit, PInv, PipelineType, Launched, Requests
<1>1. /\ worker[t].at = "submit" /\ q \in launched /\ q \in Requests
      /\ worker[t].request = q
      /\ UNCHANGED <<attached, sent, launched, over, events, uiAt, request, taken, ready>>
  BY <1>0 DEF Submit
<1>2. /\ collector' \in [Requests -> Collectors]
      /\ \A p \in Requests : collector'[p].buffer = collector[p].buffer
      /\ \A p \in Requests : p # q => collector'[p] = collector[p]
      /\ collector'[q].posted
      /\ collector'[q].status =
           IF collector[q].status = "INCOMPLETE" /\ worker[t].final THEN "FINISHED" ELSE collector[q].status
  <2>1. collector' = [collector EXCEPT ![q] =
          [collector[q] EXCEPT !.posted = TRUE,
             !.status = IF collector[q].status = "INCOMPLETE" /\ worker[t].final THEN "FINISHED"
                        ELSE collector[q].status]]
    BY <1>1 DEF Submit
  <2>2. collector \in [Requests -> Collectors]
    BY DEF PInv, PipelineType
  <2>3. [collector[q] EXCEPT !.posted = TRUE,
           !.status = IF collector[q].status = "INCOMPLETE" /\ worker[t].final THEN "FINISHED"
                      ELSE collector[q].status] \in Collectors
    BY <1>1, <2>2 DEF Collectors, CollectorStatus
  <2>4. QED
    BY <1>1, <2>1, <2>2, <2>3 DEF Collectors
<1>3. /\ worker' \in [Threads -> Workers]
      /\ \A u \in Threads : u # t => worker'[u] = worker[u]
      /\ collector[q].posted => worker'[t] = Idle
      /\ ~collector[q].posted => worker'[t] = [worker[t] EXCEPT !.at = "post"]
  <2>1. worker \in [Threads -> Workers]
    BY DEF PInv, PipelineType
  <2>2. worker' = [worker EXCEPT ![t] = IF collector[q].posted THEN Idle
                                        ELSE [worker[t] EXCEPT !.at = "post"]]
    BY <1>1 DEF Submit
  <2>3. Idle \in Workers /\ [worker[t] EXCEPT !.at = "post"] \in Workers
    BY <2>1 DEF Workers, Idle
  <2>4. QED
    BY <2>1, <2>2, <2>3
<1>4. /\ \A u \in Threads, p \in Requests : p # q /\ Submitting(u, p) => Submitting(u, p)'
      /\ \A u \in Threads, p \in Requests : u # t /\ Submitting(u, p) => Submitting(u, p)'
      /\ \A u \in Threads, p \in Requests : Submitting(u, p)' => Submitting(u, p)
      /\ \A u \in Threads, p \in Requests : Posting(u, p) => Posting(u, p)'
      /\ ~collector[q].posted => Posting(t, q)'
  <2>1. worker[t] \in Workers
    BY DEF PInv, PipelineType
  <2>2. QED
    BY <1>1, <1>3, <2>1 DEF Submitting, Posting, Idle, Workers
<1>5. \A p : InEvents(p)' <=> InEvents(p)
  BY <1>1 DEF InEvents
<1>6. PipelineType'
  BY <1>1, <1>2, <1>3 DEF PInv, PipelineType
<1>7. Launched'
  <2>1. \A u \in Threads : worker'[u].at = "idle" \/ worker'[u].request \in launched
    <3>1. worker[t] \in Workers
      BY DEF PInv, PipelineType
    <3>2. QED
      BY <1>1, <1>3, <3>1 DEF PInv, Launched, Idle, Workers
  <2>2. q <= request
    BY <1>1 DEF PInv, Launched, PipelineType
  <2>3. \A p \in Requests : p > request => p # q
    BY <1>1, <2>2 DEF PInv, PipelineType
  <2>4. QED
    BY <1>1, <1>2, <2>1, <2>3 DEF PInv, Launched
<1>8. Attached'
  BY <1>1 DEF PInv, Attached
<1>9. Cancelled'
  <2>1. worker[t].final => q \in over
    BY <1>1 DEF PInv, Over
  <2>2. \A p \in Requests : collector'[p].status = "CANCELLED" <=> collector[p].status = "CANCELLED"
    BY <1>2
  <2>3. \A p \in Requests : collector'[p].status = "FINISHED" => p \in over
    BY <1>2, <2>1 DEF PInv, Cancelled
  <2>4. request > 0 => request \in Requests
    BY DEF PInv, PipelineType, Requests
  <2>5. QED
    BY <1>1, <2>2, <2>3, <2>4 DEF PInv, Cancelled
<1>10. Over'
  <2>1. \A u \in Threads, p \in over' : Submitting(u, p)' => worker'[u].final
    <3>1. over \subseteq Requests
      BY DEF PInv, PipelineType, Launched, Requests
    <3>2. \A p \in Requests : ~Submitting(t, p)'
      BY <1>3, <1>1 DEF Submitting, Idle, PInv, PipelineType, Workers
    <3>3. QED
      BY <1>1, <1>3, <1>4, <3>1, <3>2 DEF PInv, Over
  <2>2. \A u \in Threads : worker'[u].at = "submit" /\ worker'[u].final => worker'[u].request \in over'
    <3>1. worker'[t].at # "submit"
      BY <1>1, <1>3 DEF Idle, PInv, PipelineType, Workers
    <3>2. QED
      BY <1>1, <1>3, <3>1 DEF PInv, Over
  <2>3. request > 0 => request \in Requests
    BY DEF PInv, PipelineType, Requests
  <2>4. request \in over => request > 0
    BY DEF PInv, PipelineType, Launched
  <2>5. QED
    BY <1>1, <1>2, <2>1, <2>2, <2>3, <2>4 DEF PInv, Over
<1>11. PostedFlag'
  <2>a. attached \subseteq Requests /\ over \subseteq Requests
    BY DEF PInv, PipelineType, Launched, Requests
  <2>1. \A p \in attached : collector'[p].posted /\ collector'[p].status # "CANCELLED" /\ ~ready =>
          InEvents(p)' \/ \E u \in Threads : Posting(u, p)'
    <3> SUFFICES ASSUME NEW p \in attached, collector'[p].posted,
                        collector'[p].status # "CANCELLED", ~ready
                 PROVE  InEvents(p)' \/ \E u \in Threads : Posting(u, p)'
      OBVIOUS
    <3>1. CASE collector[p].posted
      <4>1. collector[p].status # "CANCELLED"
        BY <1>2, <2>a
      <4>2. InEvents(p) \/ \E u \in Threads : Posting(u, p)
        BY <3>1, <4>1 DEF PInv, PostedFlag
      <4>3. QED
        BY <1>4, <1>5, <2>a, <4>2
    <3>2. CASE ~collector[p].posted
      <4>1. p = q
        BY <1>2, <2>a, <3>2
      <4>2. QED
        BY <1>4, <3>2, <4>1
    <3>3. QED
      BY <3>1, <3>2
  <2>2. \A p \in Requests : ~collector'[p].posted /\ collector'[p].buffer # Nothing =>
          \E u \in Threads : Submitting(u, p)'
    BY <1>2, <1>4 DEF PInv, PostedFlag
  <2>3. ASSUME NEW p \in over, collector'[p].status = "INCOMPLETE" \/ ~collector'[p].posted
        PROVE  collector'[p].status = "CANCELLED" \/ \E u \in Threads : Submitting(u, p)'
    <3>1. CASE p # q
      BY <1>2, <1>4, <2>3, <2>a, <3>1 DEF PInv, PostedFlag
    <3>2. CASE p = q
      <4>1. Submitting(t, q)
        BY <1>1 DEF Submitting
      <4>2. worker[t].final
        BY <3>2, <4>1 DEF PInv, Over
      <4>3. collector'[q].status # "INCOMPLETE"
        BY <1>2, <4>2
      <4>4. QED
        BY <1>2, <2>3, <3>2, <4>3
    <3>3. QED
      BY <3>1, <3>2
  <2>4. QED
    BY <1>1, <2>1, <2>2, <2>3 DEF PostedFlag
<1>12. Conserved'
  BY <1>1, <1>2, ConservedUnchanged
<1>13. QED
  BY <1>6, <1>7, <1>8, <1>9, <1>10, <1>11, <1>12 DEF PInv

(* What an event queue holds after an event was posted or handled.         *)
LEMMA AppendMember ==
  ASSUME NEW S, NEW s \in Seq(S), NEW e \in S
  PROVE  \A x : (\E i \in DOMAIN Append(s, e) : Append(s, e)[i] = x)
                  <=> (\E i \in DOMAIN s : s[i] = x) \/ x = e
<1>1. /\ DOMAIN s = 1 .. Len(s) /\ Len(s) \in Nat
      /\ DOMAIN Append(s, e) = 1 .. Len(s) + 1
      /\ \A i \in 1 .. Len(s) : Append(s, e)[i] = s[i]
      /\ Append(s, e)[Len(s) + 1] = e
  BY AppendProperties, LenProperties
<1>2. QED
  BY <1>1

LEMMA TailMember ==
  ASSUME NEW S, NEW s \in Seq(S), s # <<>>
  PROVE  /\ \E i \in DOMAIN s : s[i] = Head(s)
         /\ \A x : (\E i \in DOMAIN s : s[i] = x)
                     <=> (\E i \in DOMAIN Tail(s) : Tail(s)[i] = x) \/ x = Head(s)
<1>1. /\ DOMAIN s = 1 .. Len(s) /\ Len(s) \in Nat /\ Len(s) > 0
      /\ DOMAIN Tail(s) = 1 .. Len(s) - 1
      /\ \A i \in 1 .. Len(s) - 1 : Tail(s)[i] = s[i + 1]
      /\ Head(s) = s[1]
  BY HeadTailProperties, LenProperties, EmptySeq
<1>2. ASSUME NEW x, NEW i \in DOMAIN s, s[i] = x, x # Head(s)
      PROVE  \E j \in DOMAIN Tail(s) : Tail(s)[j] = x
  <2>1. i - 1 \in DOMAIN Tail(s) /\ Tail(s)[i - 1] = x
    BY <1>1, <1>2
  <2>2. QED
    BY <2>1
<1>3. ASSUME NEW j \in DOMAIN Tail(s) PROVE \E i \in DOMAIN s : s[i] = Tail(s)[j]
  <2>1. j + 1 \in DOMAIN s /\ Tail(s)[j] = s[j + 1]
    BY <1>1
  <2>2. QED
    BY <2>1
<1>4. \E i \in DOMAIN s : s[i] = Head(s)
  BY <1>1
<1>5. ASSUME NEW x, \E i \in DOMAIN s : s[i] = x
      PROVE  (\E j \in DOMAIN Tail(s) : Tail(s)[j] = x) \/ x = Head(s)
  BY <1>2, <1>5
<1>6. ASSUME NEW x, (\E j \in DOMAIN Tail(s) : Tail(s)[j] = x) \/ x = Head(s)
      PROVE  \E i \in DOMAIN s : s[i] = x
  BY <1>3, <1>4, <1>6
<1>7. QED
  BY <1>4, <1>5, <1>6

LEMMA PostEventInv ==
  ASSUME PInv, NEW t \in Threads, PostEvent(t)
  PROVE  PInv'
<1> USE RequestsAreNat
<1>1. PICK q \in Requests : q = worker[t].request /\ q \in launched
  <2>1. worker[t].at # "idle" /\ worker[t].request \in launched
    BY DEF PostEvent, PInv, Launched
  <2>2. launched \subseteq Requests
    BY DEF PInv, PipelineType, Launched, Requests
  <2>3. QED
    BY <2>1, <2>2
<1>2. /\ worker[t].at = "post"
      /\ events' = IF q \in attached THEN Append(events, q) ELSE events
      /\ worker' = [worker EXCEPT ![t] = Idle]
      /\ UNCHANGED <<collector, attached, sent, launched, over, uiAt, request, taken, ready>>
  BY <1>1 DEF PostEvent
<1>3. /\ worker' \in [Threads -> Workers]
      /\ \A u \in Threads : u # t => worker'[u] = worker[u]
      /\ worker'[t] = Idle
  BY <1>2 DEF PInv, PipelineType, Workers, Idle
<1>4. /\ events' \in Seq(Requests)
      /\ \A p : InEvents(p)' <=> InEvents(p) \/ (p = q /\ q \in attached)
  <2>1. events \in Seq(Requests)
    BY DEF PInv, PipelineType
  <2>2. CASE q \in attached
    BY <1>2, <2>1, <2>2, AppendMember, AppendProperties DEF InEvents
  <2>3. CASE q \notin attached
    BY <1>2, <2>1, <2>3 DEF InEvents
  <2>4. QED
    BY <2>2, <2>3
<1>5. /\ \A u \in Threads, p \in Requests : Submitting(u, p) <=> Submitting(u, p)'
      /\ \A u \in Threads, p \in Requests : p # q /\ Posting(u, p) => Posting(u, p)'
  BY <1>1, <1>2, <1>3 DEF Submitting, Posting, Idle
<1>6. PipelineType'
  BY <1>2, <1>3, <1>4 DEF PInv, PipelineType
<1>7. Launched'
  <2>1. \A p : InEvents(p)' => p \in launched
    BY <1>1, <1>4 DEF PInv, Launched, InEvents
  <2>2. QED
    BY <1>2, <1>3, <2>1 DEF PInv, Launched, Idle, InEvents
<1>8. Attached'
  BY <1>2 DEF PInv, Attached
<1>9. Cancelled'
  BY <1>2 DEF PInv, Cancelled
<1>10. Over'
  <2>1. over \subseteq Requests
    BY DEF PInv, PipelineType, Launched, Requests
  <2>2. \A u \in Threads, p \in over' : Submitting(u, p)' => worker'[u].final
    BY <1>2, <1>3, <1>5, <2>1 DEF PInv, Over, Submitting
  <2>3. \A u \in Threads : worker'[u].at = "submit" /\ worker'[u].final => worker'[u].request \in over'
    BY <1>2, <1>3 DEF PInv, Over, Idle
  <2>4. QED
    BY <1>2, <2>2, <2>3 DEF PInv, Over
<1>11. PostedFlag'
  <2>1. attached \subseteq Requests /\ over \subseteq Requests
    BY DEF PInv, PipelineType, Launched, Requests
  <2>2. ASSUME NEW p \in attached, collector[p].posted, collector[p].status # "CANCELLED", ~ready
        PROVE  InEvents(p)' \/ \E u \in Threads : Posting(u, p)'
    BY <1>4, <1>5, <2>1, <2>2 DEF PInv, PostedFlag
  <2>3. QED
    BY <1>2, <1>5, <2>1, <2>2 DEF PInv, PostedFlag
<1>12. Conserved'
  BY <1>2, ConservedUnchanged
<1>13. QED
  BY <1>6, <1>7, <1>8, <1>9, <1>10, <1>11, <1>12 DEF PInv

LEMMA BeginInvalidateInv ==
  ASSUME PInv, NEW next \in {"dispatch", "destroy"}, BeginInvalidate(next)
  PROVE  PInv'
<1> USE RequestsAreNat
<1>1. /\ uiAt = "loop" /\ uiAt' \in {"dispatch", "destroy"}
      /\ uiAt' = "dispatch" => request < MaxRequests
      /\ collector' = IF request = 0 THEN collector ELSE [collector EXCEPT ![request].status = "CANCELLED"]
      /\ UNCHANGED <<attached, worker, sent, launched, over, events, request, taken, ready>>
  BY DEF BeginInvalidate
<1>2. /\ collector' \in [Requests -> Collectors]
      /\ \A q \in Requests : /\ collector'[q].buffer = collector[q].buffer
                             /\ collector'[q].posted <=> collector[q].posted
                             /\ q # request => collector'[q].status = collector[q].status
      /\ request > 0 => collector'[request].status = "CANCELLED"
  <2>1. collector \in [Requests -> Collectors] /\ request \in 0 .. MaxRequests
    BY DEF PInv, PipelineType
  <2>2. CASE request = 0
    BY <1>1, <2>1, <2>2
  <2>3. CASE request # 0
    <3>1. request \in Requests
      BY <2>1, <2>3 DEF Requests
    <3>2. [collector[request] EXCEPT !.status = "CANCELLED"] \in Collectors
      BY <2>1, <3>1 DEF Collectors, CollectorStatus
    <3>3. collector' = [collector EXCEPT ![request] = [collector[request] EXCEPT !.status = "CANCELLED"]]
      BY <1>1, <2>3
    <3>4. QED
      BY <2>1, <3>1, <3>2, <3>3 DEF Collectors
  <2>4. QED
    BY <2>2, <2>3
<1>3. /\ \A u \in Threads : \A p : Submitting(u, p)' <=> Submitting(u, p)
      /\ \A u \in Threads : \A p : Posting(u, p)' <=> Posting(u, p)
      /\ \A p : InEvents(p)' <=> InEvents(p)
  BY <1>1 DEF Submitting, Posting, InEvents
<1>4. request > 0 => request \in Requests
  BY DEF PInv, PipelineType, Requests
<1>12. \A q \in Requests : collector'[q].status = "CANCELLED" \/ collector'[q].status = collector[q].status
  <2> TAKE q \in Requests
  <2>1. CASE q = request
    BY <1>2, <2>1, q > 0 DEF Requests
  <2>2. CASE q # request
    BY <1>2, <2>2
  <2>3. QED
    BY <2>1, <2>2
<1>5. PipelineType'
  BY <1>1, <1>2 DEF PInv, PipelineType
<1>6. Launched'
  BY <1>1, <1>2 DEF PInv, PipelineType, Launched
<1>7. Attached'
  BY <1>1 DEF PInv, Attached
<1>8. Cancelled'
  <2>1. \A q \in Requests : q < request => collector'[q].status = "CANCELLED"
    BY <1>2 DEF PInv, PipelineType, Cancelled
  <2>2. \A q \in Requests : collector'[q].status = "FINISHED" => q \in over
    <3> SUFFICES ASSUME NEW q \in Requests, collector'[q].status = "FINISHED" PROVE q \in over
      OBVIOUS
    <3>1. q # request
      BY <1>2, <1>4 DEF Requests
    <3>2. QED
      BY <1>2, <3>1 DEF PInv, Cancelled
  <2>3. QED
    BY <1>1, <1>2, <2>1, <2>2 DEF Cancelled
<1>9. Over'
  <2>1. request \in over => request \in Requests
    BY DEF PInv, PipelineType, Launched, Requests
  <2>2. QED
    BY <1>1, <1>2, <2>1 DEF PInv, Over, Submitting
<1>10. PostedFlag'
  <2>1. attached \subseteq Requests /\ over \subseteq Requests
    BY DEF PInv, PipelineType, Launched, Requests
  <2>2. \A q \in Requests : collector'[q].status = "CANCELLED" \/ collector'[q].status = collector[q].status
    BY <1>12
  <2>3. \A p \in attached : collector'[p].posted /\ collector'[p].status # "CANCELLED" /\ ~ready =>
          InEvents(p)' \/ \E u \in Threads : Posting(u, p)'
    BY <1>2, <1>3, <2>1, <2>2 DEF PInv, PostedFlag
  <2>4. \A p \in Requests : ~collector'[p].posted /\ collector'[p].buffer # Nothing =>
          \E u \in Threads : Submitting(u, p)'
    BY <1>2, <1>3 DEF PInv, PostedFlag
  <2>5. \A p \in over : collector'[p].status = "INCOMPLETE" \/ ~collector'[p].posted =>
          collector'[p].status = "CANCELLED" \/ \E u \in Threads : Submitting(u, p)'
    BY <1>2, <1>3, <2>1, <2>2 DEF PInv, PostedFlag
  <2>6. QED
    BY <1>1, <2>3, <2>4, <2>5 DEF PostedFlag
<1>11. Conserved'
  <2>1. \A q \in Requests : collector'[q].status # "CANCELLED" => collector[q].status # "CANCELLED"
    BY <1>12
  <2>2. QED
    BY <1>1, <1>2, <2>1, ConservedUnchanged
<1>13. QED
  BY <1>5, <1>6, <1>7, <1>8, <1>9, <1>10, <1>11 DEF PInv

LEMMA EndDispatchInv ==
  ASSUME PInv, NEW accepted \in BOOLEAN, EndDispatch(accepted)
  PROVE  PInv'
<1> USE RequestsAreNat
<1>1. PICK r \in Requests : r = request + 1 /\ request \in Nat
  BY DEF PInv, PipelineType, Attached, EndDispatch, Requests
<1>2. /\ uiAt = "dispatch" /\ uiAt' = "loop"
      /\ request' = r /\ attached' = {r} /\ taken' = Nothing /\ ready' = FALSE
      /\ UNCHANGED <<collector, worker, sent, over, events>>
  BY <1>1 DEF EndDispatch
<1>3. launched \subseteq launched' /\ launched' \subseteq 1 .. r
  BY <1>1 DEF EndDispatch, PInv, Launched
<1>4. /\ collector[r].status = "INCOMPLETE" /\ ~collector[r].posted
      /\ collector[r].buffer = Nothing /\ sent[r] = Nothing
  BY <1>1 DEF PInv, Launched
<1>5. /\ \A u \in Threads : \A p : Submitting(u, p)' <=> Submitting(u, p)
      /\ \A u \in Threads : \A p : Posting(u, p)' <=> Posting(u, p)
  BY <1>2 DEF Submitting, Posting
<1>6. PipelineType'
  <2>1. r \in 0 .. MaxRequests
    BY <1>1 DEF Requests
  <2>2. QED
    BY <1>2, <2>1, NothingProperties DEF PInv, PipelineType
<1>7. Launched'
  <2>1. \A q \in Requests : q > r => q > request
    BY <1>1
  <2>2. QED
    BY <1>2, <1>3, <2>1 DEF PInv, Launched
<1>8. Attached'
  BY <1>2 DEF Attached
<1>9. Cancelled'
  <2>1. request > 0 => collector[request].status = "CANCELLED"
    BY <1>2 DEF PInv, Cancelled
  <2>2. ASSUME NEW q \in Requests, q < r PROVE collector[q].status = "CANCELLED"
    <3>1. q < request \/ q = request
      BY <1>1, <2>2
    <3>2. CASE q < request
      BY <3>2 DEF PInv, Cancelled
    <3>3. CASE q = request
      BY <2>1, <3>3 DEF Requests
    <3>4. QED
      BY <3>1, <3>2, <3>3
  <2>3. QED
    BY <1>2, <1>4, <2>2 DEF PInv, Cancelled
<1>10. Over'
  BY <1>2, <1>5 DEF PInv, Over
<1>11. PostedFlag'
  BY <1>2, <1>4, <1>5 DEF PInv, PostedFlag
<1>12. Conserved'
  <2>1. ASSUME NEW k \in Kinds PROVE TakeOver(collector[request].buffer)[k]' = Expected(request)[k]'
    <3>1. /\ collector'[request'].buffer[k] = <<>> /\ sent'[request'][k] = <<>> /\ taken'[k] = <<>>
      BY <1>2, <1>4, NothingProperties
    <3>2. <<>> \o <<>> = <<>>
      BY ConcatEmptySeq
    <3>3. TakeOver(collector[request].buffer)[k]' = <<>>
      BY <3>1, <3>2 DEF TakeOver
    <3>4. Expected(request)[k]' = <<>>
      BY <3>1 DEF Expected
    <3>5. QED
      BY <3>3, <3>4
  <2>2. QED
    BY <2>1 DEF Conserved
<1>13. QED
  BY <1>6, <1>7, <1>8, <1>9, <1>10, <1>11, <1>12 DEF PInv

LEMMA EndDestroyInv ==
  ASSUME PInv, EndDestroy
  PROVE  PInv'
<1> USE RequestsAreNat
<1>1. /\ uiAt = "destroy" /\ uiAt' = "gone" /\ attached' = {} /\ events' = <<>>
      /\ UNCHANGED <<collector, worker, sent, launched, over, request, taken, ready>>
  BY DEF EndDestroy
<1>2. /\ \A u \in Threads : \A p : Submitting(u, p)' <=> Submitting(u, p)
      /\ \A u \in Threads : \A p : Posting(u, p)' <=> Posting(u, p)
  BY <1>1 DEF Submitting, Posting
<1>3. PipelineType'
  BY <1>1 DEF PInv, PipelineType
<1>4. Launched'
  BY <1>1 DEF PInv, Launched
<1>5. Attached' /\ Cancelled'
  BY <1>1 DEF PInv, Attached, Cancelled
<1>6. Over'
  BY <1>1, <1>2 DEF PInv, Over
<1>7. PostedFlag'
  BY <1>1, <1>2 DEF PInv, PostedFlag
<1>8. Conserved'
  BY <1>1, ConservedUnchanged
<1>9. QED
  BY <1>3, <1>4, <1>5, <1>6, <1>7, <1>8 DEF PInv

LEMMA HandlePushEventInv ==
  ASSUME PInv, HandlePushEvent
  PROVE  PInv'
<1> USE RequestsAreNat
<1>1. /\ events \in Seq(Requests) /\ events # <<>> /\ collector \in [Requests -> Collectors]
      /\ over \subseteq Requests /\ attached \subseteq Requests
  BY DEF HandlePushEvent, PInv, PipelineType, Launched, Requests
<1>2. PICK q \in Requests : q = Head(events) /\ q \in launched
  <2>1. Head(events) \in Requests
    BY <1>1, HeadTailProperties
  <2>2. \E i \in DOMAIN events : events[i] = Head(events)
    BY <1>1, TailMember
  <2>3. QED
    BY <2>1, <2>2 DEF PInv, Launched
<1>3. /\ uiAt = "loop" /\ events' = Tail(events)
      /\ collector' = [collector EXCEPT ![q] = Collect(q)]
      /\ taken' = IF collector[q].status = "CANCELLED" THEN taken ELSE TakeOver(collector[q].buffer)
      /\ ready' = (ready \/ collector[q].status = "FINISHED")
      /\ UNCHANGED <<attached, worker, sent, launched, over, uiAt, request>>
  BY <1>2 DEF HandlePushEvent
<1>4. /\ collector' \in [Requests -> Collectors]
      /\ \A p \in Requests : /\ p # q => collector'[p] = collector[p]
                             /\ collector'[p].status = collector[p].status
      /\ collector'[q].posted <=> collector[q].posted /\ collector[q].status # "INCOMPLETE"
      /\ collector'[q].buffer = Nothing
  <2>1. Collect(q) \in Collectors
    BY <1>1, NothingProperties DEF Collect, Collectors
  <2>2. /\ Collect(q).status = collector[q].status
        /\ Collect(q).posted <=> collector[q].posted /\ collector[q].status # "INCOMPLETE"
        /\ Collect(q).buffer = Nothing
    BY <1>1 DEF Collect, Collectors
  <2>3. QED
    BY <1>1, <1>3, <2>1, <2>2
<1>5. /\ Tail(events) \in Seq(Requests)
      /\ \A p : InEvents(p)' => InEvents(p)
      /\ \A p : InEvents(p) => InEvents(p)' \/ p = q
  <2>1. Tail(events) \in Seq(Requests)
    BY <1>1, HeadTailProperties
  <2>2. \A x : (\E i \in DOMAIN events : events[i] = x)
                 <=> (\E i \in DOMAIN Tail(events) : Tail(events)[i] = x) \/ x = Head(events)
    BY <1>1, TailMember
  <2>3. QED
    BY <1>2, <1>3, <2>1, <2>2 DEF InEvents
<1>6. /\ \A u \in Threads : \A p : Submitting(u, p)' <=> Submitting(u, p)
      /\ \A u \in Threads : \A p : Posting(u, p)' <=> Posting(u, p)
  BY <1>3 DEF Submitting, Posting
<1>7. /\ request \in Requests
      /\ collector[q].status # "CANCELLED" => q = request
      /\ collector[request].status # "CANCELLED"
  <2>1. q <= request /\ request \in 0 .. MaxRequests
    BY <1>2 DEF PInv, PipelineType, Launched
  <2>2. request \in Requests /\ request > 0
    BY <2>1 DEF Requests
  <2>3. q < request => collector[q].status = "CANCELLED"
    BY DEF PInv, Cancelled
  <2>4. collector[request].status # "CANCELLED"
    BY <1>3, <2>2 DEF PInv, Cancelled
  <2>5. QED
    BY <2>1, <2>2, <2>3, <2>4
<1>8. taken' \in Buffers
  <2>1. taken \in Buffers /\ collector[q].buffer \in Buffers
    BY <1>1 DEF PInv, PipelineType, Collectors
  <2>2. QED
    BY <1>3, <2>1, TakeOverType
<1>9. PipelineType'
  <2>1. ready' \in BOOLEAN
    BY <1>3
  <2>2. QED
    BY <1>3, <1>4, <1>5, <1>8, <2>1 DEF PInv, PipelineType
<1>10. Launched'
  <2>1. \A p : InEvents(p)' => p \in launched
    BY <1>5 DEF PInv, Launched, InEvents
  <2>2. \A p \in Requests : p > request => p # q
    BY <1>2 DEF PInv, Launched, PipelineType
  <2>3. QED
    BY <1>3, <1>4, <2>1, <2>2 DEF PInv, Launched, InEvents
<1>11. Attached'
  BY <1>3 DEF PInv, Attached
<1>12. Cancelled'
  BY <1>3, <1>4, <1>7 DEF PInv, Cancelled
<1>13. Over'
  <2>1. CASE collector[q].status = "FINISHED"
    <3>1. q = request /\ q \in over
      BY <1>7, <2>1 DEF PInv, Cancelled
    <3>2. QED
      BY <1>3, <1>4, <1>6, <3>1 DEF PInv, Over
  <2>2. CASE collector[q].status # "FINISHED"
    <3>1. ready' <=> ready
      BY <1>3, <2>2 DEF PInv, PipelineType
    <3>2. collector[request].buffer = Nothing => collector'[request].buffer = Nothing
      BY <1>4, <1>7
    <3>3. QED
      BY <1>3, <1>6, <3>1, <3>2 DEF PInv, Over
  <2>3. QED
    BY <2>1, <2>2
<1>14. PostedFlag'
  <2>1. ASSUME NEW p \in attached, collector'[p].posted, collector'[p].status # "CANCELLED", ~ready'
        PROVE  InEvents(p)' \/ \E u \in Threads : Posting(u, p)'
    <3>1. p # q
      <4>1. collector[q].status \in CollectorStatus
        BY <1>1 DEF Collectors
      <4>2. p = q => collector[q].status = "INCOMPLETE"
        BY <1>3, <1>4, <2>1, <4>1 DEF CollectorStatus
      <4>3. QED
        BY <1>4, <2>1, <4>2
    <3>2. QED
      BY <1>1, <1>3, <1>4, <1>5, <1>6, <2>1, <3>1 DEF PInv, PostedFlag
  <2>2. \A p \in Requests : ~collector'[p].posted /\ collector'[p].buffer # Nothing =>
          \E u \in Threads : Submitting(u, p)'
    BY <1>4, <1>6 DEF PInv, PostedFlag
  <2>3. ASSUME NEW p \in over, collector'[p].status = "INCOMPLETE" \/ ~collector'[p].posted
        PROVE  collector'[p].status = "CANCELLED" \/ \E u \in Threads : Submitting(u, p)'
    <3>1. collector[p].status = "INCOMPLETE" \/ ~collector[p].posted
      BY <1>1, <1>4, <2>3
    <3>2. QED
      BY <1>1, <1>4, <1>6, <3>1 DEF PInv, PostedFlag
  <2>4. QED
    BY <1>3, <2>1, <2>2, <2>3 DEF PostedFlag
<1>15. Conserved'
  <2> SUFFICES ASSUME NEW k \in Kinds
               PROVE  TakeOver(collector[request].buffer)[k]' = Expected(request)[k]'
    BY DEF Conserved
  <2>1. Expected(request)[k]' = Expected(request)[k]
    BY <1>3 DEF Expected
  <2>2. TakeOver(collector[request].buffer)[k] = Expected(request)[k]
    BY <1>7 DEF PInv, Conserved, Requests
  <2>3. CASE q = request
    <3>1. taken' = TakeOver(collector[request].buffer)
      BY <1>3, <1>7, <2>3
    <3>2. collector'[request].buffer = Nothing /\ request' = request
      BY <1>3, <1>4, <2>3
    <3>3. taken'[k] \o <<>> = taken'[k]
      BY <1>8, ConcatEmptySeq DEF Buffers
    <3>4. TakeOver(collector[request].buffer)[k]' = taken'[k]
      BY <3>2, <3>3, NothingProperties DEF TakeOver
    <3>5. QED
      BY <2>1, <2>2, <3>1, <3>4
  <2>4. CASE q # request
    <3>1. taken' = taken /\ collector'[request] = collector[request] /\ request' = request
      BY <1>3, <1>4, <1>7, <2>4
    <3>2. TakeOver(collector[request].buffer)[k]' = TakeOver(collector[request].buffer)[k]
      BY <3>1 DEF TakeOver
    <3>3. QED
      BY <2>1, <2>2, <3>2
  <2>5. QED
    BY <2>3, <2>4
<1>16. QED
  BY <1>9, <1>10, <1>11, <1>12, <1>13, <1>14, <1>15 DEF PInv

LEMMA PipelineNextInv == PInv /\ [PipelineNext]_pipelineVars => PInv'
<1> SUFFICES ASSUME PInv, [PipelineNext]_pipelineVars PROVE PInv'
  OBVIOUS
<1>1. ASSUME NEW t \in Threads, NEW q \in Requests, NEW kind \in Kinds, Push(t, q, kind) PROVE PInv'
  BY <1>1, PushInv
<1>2. ASSUME NEW t \in Threads, NEW q \in Requests, Finished(t, q) PROVE PInv'
  BY <1>2, FinishedInv
<1>3. ASSUME NEW t \in Threads, Submit(t) PROVE PInv'
  BY <1>3, SubmitInv
<1>4. ASSUME NEW t \in Threads, PostEvent(t) PROVE PInv'
  BY <1>4, PostEventInv
<1>5. ASSUME NEW next \in {"dispatch", "destroy"}, BeginInvalidate(next) PROVE PInv'
  BY <1>5, BeginInvalidateInv
<1>6. ASSUME NEW accepted \in BOOLEAN, EndDispatch(accepted) PROVE PInv'
  BY <1>6, EndDispatchInv
<1>7. CASE EndDestroy
  BY <1>7, EndDestroyInv
<1>8. CASE HandlePushEvent
  BY <1>8, HandlePushEventInv
<1>9. CASE UNCHANGED pipelineVars
  BY <1>9 DEF pipelineVars, PInv, PipelineType, Launched, Attached, Cancelled, Over, PostedFlag,
              Conserved, TakeOver, Expected, Submitting, Posting, InEvents
<1>10. QED
  BY <1>1, <1>2, <1>3, <1>4, <1>5, <1>6, <1>7, <1>8, <1>9 DEF PipelineNext

(* The pipeline keeps its invariant: what a collector holds and what the   *)
(* model has taken over make up what the scope pushed (collectors.cpp:     *)
(* 168-229, previewmodel.cpp:203-260).                                     *)
THEOREM PipelineInvariant == PipelineSpec => []PInv
  BY PipelineInitInv, PipelineNextInv, PTL DEF PipelineSpec

-----------------------------------------------------------------------------
(* The property.                                                           *)

LEMMA PipelineTypeOKHolds == PInv => PipelineTypeOK
  BY DEF PInv, PipelineType, Launched, Attached, PipelineTypeOK, Collectors, CollectorStatus

LEMMA LoadedIsCompleteHolds == PInv => LoadedIsComplete
<1> SUFFICES ASSUME PInv, ready, uiAt = "loop" PROVE taken = Expected(request)
  BY DEF LoadedIsComplete
<1>1. /\ request \in over /\ request \in Requests /\ request > 0
      /\ collector[request].buffer = Nothing
  BY PipelineAssumption DEF PInv, PipelineType, Over, Launched, Requests
<1>2. collector[request].status # "CANCELLED"
  BY <1>1 DEF PInv, Cancelled
<1>3. \A kind \in Kinds : TakeOver(Nothing)[kind] = Expected(request)[kind]
  BY <1>1, <1>2 DEF PInv, Conserved
<1>4. taken \in Buffers
  BY DEF PInv, PipelineType
<1>5. \A kind \in Kinds : taken[kind] = Expected(request)[kind]
  BY <1>3, <1>4, TakeOverNothing
<1>6. taken = [kind \in Kinds |-> taken[kind]]
  BY <1>4 DEF Buffers
<1>7. QED
  BY <1>5, <1>6 DEF Expected

LEMMA PushesAreFetchedHolds == PInv => PushesAreFetched
<1> SUFFICES ASSUME PInv PROVE PushesAreFetched
  OBVIOUS
<1>1. uiAt = "gone" => events = <<>>
  BY DEF PInv, Attached
<1>2. ASSUME request \in attached, collector[request].status # "CANCELLED",
             collector[request].buffer # Nothing \/ (request \in over /\ ~ready)
      PROVE  request \in Range(events) \/ \E t \in Threads : Serving(t, request)
  <2>1. request \in Requests /\ collector[request].posted \in BOOLEAN
    BY <1>2 DEF PInv, PipelineType, Collectors
  <2>2. \A t \in Threads : Submitting(t, request) \/ Posting(t, request) => Serving(t, request)
    BY DEF Submitting, Posting, Serving
  <2>3. CASE ~collector[request].posted
    BY <1>2, <2>1, <2>2, <2>3 DEF PInv, PostedFlag
  <2>4. CASE collector[request].posted
    <3>1. ~ready
      BY <1>2 DEF PInv, Over
    <3>2. InEvents(request) \/ \E t \in Threads : Posting(t, request)
      BY <1>2, <2>1, <2>4, <3>1 DEF PInv, PostedFlag
    <3>3. InEvents(request) => request \in Range(events)
      BY DEF InEvents, Range
    <3>4. QED
      BY <2>2, <3>2, <3>3
  <2>5. QED
    BY <2>1, <2>3, <2>4
<1>3. QED
  BY <1>1, <1>2 DEF PushesAreFetched

(* A preview that is loaded holds what the scope pushed for it, every      *)
(* widget once and in order and the last layouts and data, and nothing of  *)
(* a request that it superseded; what waits in a collector that counts is  *)
(* fetched; a model that is destroyed gets no event.  For any number of    *)
(* threads, pushes and requests (collectors.cpp:168-229).                  *)
THEOREM PreviewArrivesAlways == PipelineSpec => []PreviewArrives
<1>1. PInv => PreviewArrives
  BY PipelineTypeOKHolds, LoadedIsCompleteHolds, PushesAreFetchedHolds DEF PreviewArrives
<1>2. QED
  BY <1>1, PipelineInvariant, PTL

-----------------------------------------------------------------------------
(* One column.  S are the objects that anybody may point to.               *)

Valid(h, S) == S \subseteq Objects /\ \A o \in S : h[o] \in Widgets

IsAt(h, rows, i, id) == rows[i] # Gap /\ h[rows[i]].id = id

(* The lookup has each widget of the rows at its row, and nothing else.    *)
Indexed(h, rows, index) ==
  /\ \A i \in 1 .. Len(rows) :
       rows[i] # Gap => h[rows[i]].id \in DOMAIN index /\ index[h[rows[i]].id] = i - 1
  /\ \A id \in DOMAIN index : \E i \in 1 .. Len(rows) : IsAt(h, rows, i, id)

Indices == UNION {[D -> Nat] : D \in SUBSET WidgetIds}
Columns(S) == [rows : Seq(S \cup {Gap}), index : Indices]
ColumnOk(h, S, m) == m \in Columns(S) /\ Indexed(h, m.rows, m.index)

Column(r, x) == [rows |-> r, index |-> x]

(* The parts of a column.                                                  *)
LEMMA ColumnFields ==
  ASSUME NEW r, NEW x
  PROVE  Column(r, x).rows = r /\ Column(r, x).index = x
BY DEF Column

(* A column is in order when its rows and its lookup are.                  *)
LEMMA ColumnIntro ==
  ASSUME NEW h, NEW S, NEW r \in Seq(S \cup {Gap}), NEW x \in Indices, Indexed(h, r, x)
  PROVE  ColumnOk(h, S, Column(r, x))
<1>1. Column(r, x) \in Columns(S)
  BY DEF Column, Columns
<1>2. QED
  BY <1>1, ColumnFields DEF ColumnOk

(* What a column in order consists of.                                     *)
LEMMA ColumnElim ==
  ASSUME NEW h, NEW S, NEW m, ColumnOk(h, S, m)
  PROVE  /\ m.rows \in Seq(S \cup {Gap}) /\ m.index \in Indices
         /\ m = Column(m.rows, m.index) /\ Indexed(h, m.rows, m.index)
         /\ Len(m.rows) \in Nat /\ DOMAIN m.rows = 1 .. Len(m.rows)
         /\ \A i \in 1 .. Len(m.rows) : m.rows[i] \in S \cup {Gap}
<1>1. m \in Columns(S) /\ Indexed(h, m.rows, m.index)
  BY DEF ColumnOk
<1>2. m.rows \in Seq(S \cup {Gap}) /\ m.index \in Indices /\ m = Column(m.rows, m.index)
  BY <1>1 DEF Columns, Column
<1>3. QED
  BY <1>1, <1>2, LenProperties

(* Lookups are functions from some of the ids to rows.                     *)
LEMMA IndicesProperties ==
  ASSUME NEW x
  PROVE  x \in Indices <=> /\ x = [id \in DOMAIN x |-> x[id]] /\ DOMAIN x \subseteq WidgetIds
                           /\ \A id \in DOMAIN x : x[id] \in Nat
<1>1. ASSUME x \in Indices
      PROVE  /\ x = [id \in DOMAIN x |-> x[id]] /\ DOMAIN x \subseteq WidgetIds
             /\ \A id \in DOMAIN x : x[id] \in Nat
  <2>1. PICK D \in SUBSET WidgetIds : x \in [D -> Nat]
    BY <1>1 DEF Indices
  <2>2. QED
    BY <2>1
<1>2. ASSUME x = [id \in DOMAIN x |-> x[id]], DOMAIN x \subseteq WidgetIds,
             \A id \in DOMAIN x : x[id] \in Nat
      PROVE  x \in Indices
  <2>1. x \in [DOMAIN x -> Nat]
    BY <1>2
  <2>2. DOMAIN x \in SUBSET WidgetIds
    BY <1>2
  <2>3. QED
    BY <2>1, <2>2 DEF Indices
<1>3. QED
  BY <1>1, <1>2

(* An id is put into a lookup.                                             *)
LEMMA WithProperties ==
  ASSUME NEW x \in Indices, NEW id \in WidgetIds, NEW v \in Nat
  PROVE  /\ With(x, id, v) \in Indices /\ DOMAIN With(x, id, v) = DOMAIN x \cup {id}
         /\ With(x, id, v)[id] = v /\ \A j \in DOMAIN x : j # id => With(x, id, v)[j] = x[j]
<1>1. DOMAIN x \subseteq WidgetIds /\ \A j \in DOMAIN x : x[j] \in Nat
  BY IndicesProperties
<1>2. PICK y : y = With(x, id, v)
  OBVIOUS
<1>3. y = [j \in DOMAIN x \cup {id} |-> IF j = id THEN v ELSE x[j]]
  BY <1>2 DEF With
<1>4. /\ DOMAIN y = DOMAIN x \cup {id} /\ y[id] = v
      /\ \A j \in DOMAIN x : j # id => y[j] = x[j]
  BY <1>3
<1>5. y \in Indices
  <2>1. y = [j \in DOMAIN y |-> y[j]] /\ DOMAIN y \subseteq WidgetIds
    BY <1>1, <1>3, <1>4
  <2>2. \A j \in DOMAIN y : y[j] \in Nat
    BY <1>1, <1>4
  <2>3. QED
    BY <2>1, <2>2, IndicesProperties
<1>6. QED
  BY <1>2, <1>4, <1>5

(* An id is taken out of a lookup.                                         *)
LEMMA WithoutProperties ==
  ASSUME NEW x \in Indices, NEW id
  PROVE  /\ Without(x, id) \in Indices /\ DOMAIN Without(x, id) = DOMAIN x \ {id}
         /\ \A j \in DOMAIN x : j # id => Without(x, id)[j] = x[j]
<1>1. DOMAIN x \subseteq WidgetIds /\ \A j \in DOMAIN x : x[j] \in Nat
  BY IndicesProperties
<1>2. PICK y : y = Without(x, id)
  OBVIOUS
<1>3. y = [j \in DOMAIN x \ {id} |-> x[j]]
  BY <1>2 DEF Without
<1>4. /\ DOMAIN y = DOMAIN x \ {id} /\ \A j \in DOMAIN x : j # id => y[j] = x[j]
  BY <1>3
<1>5. y \in Indices
  <2>1. y = [j \in DOMAIN y |-> y[j]] /\ DOMAIN y \subseteq WidgetIds
    BY <1>1, <1>3, <1>4
  <2>2. \A j \in DOMAIN y : y[j] \in Nat
    BY <1>1, <1>4
  <2>3. QED
    BY <2>1, <2>2, IndicesProperties
<1>6. QED
  BY <1>2, <1>4, <1>5

(* No id is at two rows.                                                   *)
LEMMA IndexedUnique ==
  ASSUME NEW h, NEW rows, NEW index, Indexed(h, rows, index)
  PROVE  \A i, j \in 1 .. Len(rows) : \A id : IsAt(h, rows, i, id) /\ IsAt(h, rows, j, id) => i = j
<1>1. SUFFICES ASSUME NEW i \in 1 .. Len(rows), NEW j \in 1 .. Len(rows), NEW id,
                      IsAt(h, rows, i, id), IsAt(h, rows, j, id)
               PROVE  i = j
  OBVIOUS
<1>2. index[id] = i - 1 /\ index[id] = j - 1
  BY <1>1 DEF Indexed, IsAt
<1>3. i \in Int /\ j \in Int
  OBVIOUS
<1>4. QED
  BY <1>2, <1>3

(* What a lookup says leads to the widget.                                 *)
LEMMA IndexedAt ==
  ASSUME NEW h, NEW rows, NEW index, Indexed(h, rows, index), Len(rows) \in Nat, NEW id \in DOMAIN index
  PROVE  index[id] + 1 \in 1 .. Len(rows) /\ IsAt(h, rows, index[id] + 1, id)
<1>1. PICK i \in 1 .. Len(rows) : IsAt(h, rows, i, id)
  BY DEF Indexed
<1>2. index[id] = i - 1
  BY <1>1 DEF Indexed, IsAt
<1>3. PICK k : k = index[id] + 1
  OBVIOUS
<1>4. k = i
  BY <1>2, <1>3
<1>5. QED
  BY <1>1, <1>3, <1>4

OnlyAt(h, rows, i, id) == \A j \in 1 .. Len(rows) : IsAt(h, rows, j, id) => j = i

(* Where the lookup is brought up to date, or was right, it is right.      *)
LEMMA ReindexedAt ==
  ASSUME NEW h, NEW index, NEW rows, Len(rows) \in Nat, NEW from \in Nat, NEW to \in Int,
         NEW id \in DOMAIN index, NEW i \in 1 .. Len(rows), IsAt(h, rows, i, id), OnlyAt(h, rows, i, id),
         i - 1 \in from .. to \/ index[id] = i - 1
  PROVE  Reindexed(h, index, rows, from, to)[id] = i - 1
<1> DEFINE here == {k \in from .. to : k < Len(rows) /\ rows[k + 1] # Gap /\ h[rows[k + 1]].id = id}
<1>1. Reindexed(h, index, rows, from, to)[id]
        = IF here = {} THEN index[id] ELSE CHOOSE k \in here : \A j \in here : j <= k
  BY DEF Reindexed
<1>2. ASSUME NEW k \in here PROVE k = i - 1
  <2>1. PICK j : j = k + 1
    OBVIOUS
  <2>2. j \in 1 .. Len(rows) /\ IsAt(h, rows, j, id) /\ k \in Int
    BY <1>2, <2>1 DEF IsAt
  <2>3. j = i
    BY <2>2 DEF OnlyAt
  <2>4. QED
    BY <2>1, <2>2, <2>3
<1>3. CASE here = {}
  <2>1. i - 1 \notin from .. to
    <3>1. SUFFICES ASSUME i - 1 \in from .. to PROVE FALSE
      OBVIOUS
    <3>2. PICK k : k = i - 1
      OBVIOUS
    <3>3. k < Len(rows) /\ k + 1 = i /\ k \in from .. to
      BY <3>1, <3>2
    <3>4. k \in here
      BY <3>3 DEF IsAt
    <3>5. QED
      BY <1>3, <3>4
  <2>2. QED
    BY <1>1, <1>3, <2>1
<1>4. CASE here # {}
  <2>1. PICK k : k = i - 1
    OBVIOUS
  <2>2. here = {k} /\ k \in Int
    BY <1>2, <1>4, <2>1
  <2>3. (CHOOSE l \in here : \A j \in here : j <= l) = k
    <3> HIDE DEF here
    <3>1. k \in here /\ \A j \in here : j <= k
      BY <2>2
    <3>2. QED
      BY <2>2, <3>1
  <2>4. QED
    BY <1>1, <1>4, <2>1, <2>3
<1>5. QED
  BY <1>3, <1>4

(* Looking rows up again adds no id and loses none.                        *)
LEMMA ReindexedDomain ==
  ASSUME NEW h, NEW index \in Indices, NEW rows, Len(rows) \in Nat, NEW from \in Nat, NEW to \in Int
  PROVE  /\ Reindexed(h, index, rows, from, to) \in Indices
         /\ DOMAIN Reindexed(h, index, rows, from, to) = DOMAIN index
<1> DEFINE here(id) == {k \in from .. to : k < Len(rows) /\ rows[k + 1] # Gap /\ h[rows[k + 1]].id = id}
           new(id) == IF here(id) = {} THEN index[id] ELSE CHOOSE k \in here(id) : \A j \in here(id) : j <= k
<1>1. PICK y : y = Reindexed(h, index, rows, from, to)
  OBVIOUS
<1>2. y = [id \in DOMAIN index |-> new(id)]
  BY <1>1 DEF Reindexed
<1>3. ASSUME NEW id \in DOMAIN index PROVE new(id) \in Nat
  <2>1. CASE here(id) = {}
    BY <2>1, IndicesProperties
  <2>2. CASE here(id) # {}
    <3>1. \E k \in here(id) : \A j \in here(id) : j <= k
      <4> DEFINE below == {n \in Nat : \E k \in here(id) : n = Len(rows) - k}
      <4>1. here(id) \subseteq Nat /\ \A k \in here(id) : k < Len(rows)
        OBVIOUS
      <4> HIDE DEF here
      <4>2. below # {}
        <5>1. PICK k \in here(id) : TRUE
          BY <2>2
        <5>2. PICK n : n = Len(rows) - k
          OBVIOUS
        <5>3. n \in Nat
          BY <4>1, <5>1, <5>2
        <5>4. n \in below
          BY <5>1, <5>2, <5>3
        <5>5. QED
          BY <5>4
      <4>3. Min(below) \in below /\ \A n \in below : Min(below) <= n
        BY <4>2, LeastProperties
      <4>4. PICK k \in here(id) : Min(below) = Len(rows) - k
        BY <4>3
      <4>5. ASSUME NEW j \in here(id) PROVE j <= k
        <5>1. PICK n : n = Len(rows) - j
          OBVIOUS
        <5>2. n \in Nat
          BY <4>1, <4>5, <5>1
        <5>3. n \in below
          BY <4>5, <5>1, <5>2
        <5>4. Len(rows) - k <= n
          BY <4>3, <4>4, <5>3
        <5>5. QED
          BY <4>1, <4>4, <4>5, <5>1, <5>4
      <4>6. QED
        BY <4>5
    <3>2. new(id) \in here(id)
      BY <2>2, <3>1
    <3>3. QED
      BY <3>2
  <2>3. QED
    BY <2>1, <2>2
<1> HIDE DEF new
<1>4. DOMAIN y = DOMAIN index /\ y = [id \in DOMAIN y |-> y[id]] /\ \A id \in DOMAIN y : y[id] \in Nat
  BY <1>2, <1>3
<1>5. y \in Indices
  BY <1>4, IndicesProperties
<1>6. QED
  BY <1>1, <1>4, <1>5

(* A row past the end is filled up to with gaps; within the rows, the      *)
(* widget that was there leaves the lookup.                                *)
AtEnd(rows, o, row) ==
  Append(rows \o [i \in 1 .. (IF row > Len(rows) THEN row - Len(rows) ELSE 0) |-> Gap], o)

IsAtEnd(t, S, rows, o, row) ==
  /\ t \in Seq(S \cup {Gap}) /\ Len(t) = row + 1 /\ t[row + 1] = o
  /\ \A i \in 1 .. Len(rows) : t[i] = rows[i]
  /\ \A i \in Len(rows) + 1 .. row : t[i] = Gap

(* A widget past the end comes after gaps.                                 *)
LEMMA AtEndProperties ==
  ASSUME NEW S, NEW rows \in Seq(S \cup {Gap}), NEW o \in S, NEW row \in Nat, row >= Len(rows)
  PROVE  IsAtEnd(AtEnd(rows, o, row), S, rows, o, row)
<1>0. Len(rows) \in Nat
  BY LenProperties
<1>1. PICK n \in Nat : n = row - Len(rows) /\ n = (IF row > Len(rows) THEN row - Len(rows) ELSE 0)
  BY <1>0
<1>2. PICK g : g = [i \in 1 .. n |-> Gap]
  OBVIOUS
<1>3. g \in Seq(S \cup {Gap}) /\ Len(g) = n /\ \A i \in 1 .. n : g[i] = Gap
  BY <1>2
<1>4. PICK a : a = rows \o g
  OBVIOUS
<1>5. /\ a \in Seq(S \cup {Gap}) /\ Len(a) = Len(rows) + n
      /\ \A i \in 1 .. Len(rows) + n : a[i] = IF i <= Len(rows) THEN rows[i] ELSE g[i - Len(rows)]
  BY <1>3, <1>4, ConcatProperties
<1>6. Len(a) = row /\ Len(rows) \in Nat
  BY <1>1, <1>5, LenProperties
<1>7. PICK t : t = Append(a, o)
  OBVIOUS
<1>8. o \in S \cup {Gap}
  OBVIOUS
<1>9. /\ t \in Seq(S \cup {Gap}) /\ Len(t) = row + 1 /\ t[row + 1] = o
      /\ \A i \in 1 .. row : t[i] = a[i]
  BY <1>5, <1>6, <1>7, <1>8, AppendProperties
<1>10. AtEnd(rows, o, row) = t
  BY <1>1, <1>2, <1>4, <1>7 DEF AtEnd
<1>11. ASSUME NEW i \in 1 .. Len(rows) PROVE t[i] = rows[i]
  <2>1. i \in 1 .. row /\ i \in 1 .. Len(rows) + n /\ i <= Len(rows)
    BY <1>6, <1>5
  <2>2. QED
    BY <1>5, <1>9, <2>1
<1>12. ASSUME NEW i \in Len(rows) + 1 .. row PROVE t[i] = Gap
  <2>1. i \in 1 .. row /\ i \in 1 .. Len(rows) + n /\ ~(i <= Len(rows)) /\ i - Len(rows) \in 1 .. n
    BY <1>1, <1>6, <1>5
  <2>2. QED
    BY <1>3, <1>5, <1>9, <2>1
<1>13. QED
  BY <1>9, <1>10, <1>11, <1>12 DEF IsAtEnd

(* A widget of a new id in row k, in place of a gap or of another widget, whose id goes. *)
LEMMA AddedIndexed ==
  ASSUME NEW h, NEW rows, NEW index \in Indices, Indexed(h, rows, index), Len(rows) \in Nat,
         NEW t, NEW k \in 1 .. Len(t), NEW o, o # Gap, Len(t) \in Nat, t[k] = o,
         h[o].id \in WidgetIds, h[o].id \notin DOMAIN index,
         \A i \in 1 .. Len(rows) : i # k => i \in 1 .. Len(t) /\ t[i] = rows[i],
         \A i \in 1 .. Len(t) : i # k => (i \in 1 .. Len(rows) /\ t[i] = rows[i]) \/ t[i] = Gap,
         NEW rest \in Indices,
         rest = IF k \in 1 .. Len(rows) /\ rows[k] # Gap THEN Without(index, h[rows[k]].id) ELSE index
  PROVE  Indexed(h, t, With(rest, h[o].id, k - 1)) /\ With(rest, h[o].id, k - 1) \in Indices
<1>0. k - 1 \in Nat /\ k \in Int
  OBVIOUS
<1>1. PICK y : y = With(rest, h[o].id, k - 1)
  OBVIOUS
<1>2. /\ y \in Indices /\ DOMAIN y = DOMAIN rest \cup {h[o].id} /\ y[h[o].id] = k - 1
      /\ \A id \in DOMAIN rest : id # h[o].id => y[id] = rest[id]
  <2>1. PICK a \in WidgetIds, v \in Nat : a = h[o].id /\ v = k - 1
    BY <1>0
  <2>2. /\ With(rest, a, v) \in Indices /\ DOMAIN With(rest, a, v) = DOMAIN rest \cup {a}
        /\ With(rest, a, v)[a] = v /\ \A j \in DOMAIN rest : j # a => With(rest, a, v)[j] = rest[j]
    BY ONLY rest \in Indices, a \in WidgetIds, v \in Nat, WithProperties
  <2>3. QED
    BY ONLY <1>1, <2>1, <2>2
<1>3. /\ DOMAIN rest \subseteq DOMAIN index /\ \A id \in DOMAIN rest : rest[id] = index[id]
      /\ k \in 1 .. Len(rows) /\ rows[k] # Gap => DOMAIN rest = DOMAIN index \ {h[rows[k]].id}
      /\ ~(k \in 1 .. Len(rows) /\ rows[k] # Gap) => DOMAIN rest = DOMAIN index
  <2>1. CASE k \in 1 .. Len(rows) /\ rows[k] # Gap
    <3>1. rest = Without(index, h[rows[k]].id)
      BY <2>1
    <3>2. DOMAIN rest = DOMAIN index \ {h[rows[k]].id} /\ \A j \in DOMAIN index : j # h[rows[k]].id => rest[j] = index[j]
      <4>1. PICK a : a = h[rows[k]].id
        OBVIOUS
      <4>2. /\ DOMAIN Without(index, a) = DOMAIN index \ {a}
            /\ \A j \in DOMAIN index : j # a => Without(index, a)[j] = index[j]
        BY WithoutProperties
      <4>3. QED
        BY ONLY <3>1, <4>1, <4>2
    <3>3. QED
      BY <2>1, <3>2
  <2>2. CASE ~(k \in 1 .. Len(rows) /\ rows[k] # Gap)
    <3>1. rest = index
      BY <2>2
    <3>2. QED
      BY ONLY <2>2, <3>1
  <2>3. QED
    BY <2>1, <2>2
<1>4. ASSUME NEW i \in 1 .. Len(t), t[i] # Gap PROVE h[t[i]].id \in DOMAIN y /\ y[h[t[i]].id] = i - 1
  <2>1. CASE i = k
    BY <1>2, <2>1
  <2>2. CASE i # k
    <3>1. i \in 1 .. Len(rows) /\ t[i] = rows[i] /\ rows[i] # Gap
      BY <1>4, <2>2
    <3>2. h[rows[i]].id \in DOMAIN index /\ index[h[rows[i]].id] = i - 1
      BY <3>1 DEF Indexed
    <3>3. h[rows[i]].id # h[o].id
      BY <3>2
    <3>4. h[rows[i]].id \in DOMAIN rest
      <4>1. CASE k \in 1 .. Len(rows) /\ rows[k] # Gap
        <5>1. index[h[rows[k]].id] = k - 1
          BY <4>1 DEF Indexed
        <5>2. h[rows[i]].id # h[rows[k]].id
          BY <1>0, <2>2, <3>1, <3>2, <5>1
        <5>3. QED
          BY <1>3, <3>2, <4>1, <5>2
      <4>2. CASE ~(k \in 1 .. Len(rows) /\ rows[k] # Gap)
        BY <1>3, <3>2, <4>2
      <4>3. QED
        BY <4>1, <4>2
    <3>5. QED
      BY <1>2, <1>3, <3>1, <3>2, <3>3, <3>4
  <2>3. QED
    BY <2>1, <2>2
<1>5. ASSUME NEW id \in DOMAIN y PROVE \E i \in 1 .. Len(t) : IsAt(h, t, i, id)
  <2>1. CASE id = h[o].id
    <3>1. IsAt(h, t, k, id)
      BY <2>1 DEF IsAt
    <3>2. QED
      BY <3>1
  <2>2. CASE id # h[o].id
    <3>1. id \in DOMAIN rest /\ id \in DOMAIN index
      BY <1>2, <1>3, <1>5, <2>2
    <3>2. PICK i \in 1 .. Len(rows) : IsAt(h, rows, i, id)
      BY <3>1 DEF Indexed
    <3>3. i # k
      <4>1. SUFFICES ASSUME i = k PROVE FALSE
        OBVIOUS
      <4>2. k \in 1 .. Len(rows) /\ rows[k] # Gap /\ h[rows[k]].id = id
        BY <3>2, <4>1 DEF IsAt
      <4>3. QED
        BY <1>3, <3>1, <4>2
    <3>4. i \in 1 .. Len(t) /\ IsAt(h, t, i, id)
      BY <3>2, <3>3 DEF IsAt
    <3>5. QED
      BY <3>4
  <2>3. QED
    BY <2>1, <2>2
<1>6. QED
  BY <1>1, <1>2, <1>4, <1>5 DEF Indexed

(* addReplaceWidget() keeps a column that lacks the id in order.           *)
LEMMA AddReplaceOk ==
  ASSUME NEW h, NEW S, Valid(h, S), NEW m, ColumnOk(h, S, m), NEW o \in S, NEW row \in Nat,
         h[o].id \notin DOMAIN m.index, Gap \notin S
  PROVE  ColumnOk(h, S, AddReplaceWidget(h, m, o, row))
<1>1. PICK rows \in Seq(S \cup {Gap}), index \in Indices : rows = m.rows /\ index = m.index
  BY ColumnElim
<1>2. /\ Indexed(h, rows, index) /\ Len(rows) \in Nat /\ \A i \in 1 .. Len(rows) : rows[i] \in S \cup {Gap}
  BY <1>1, ColumnElim
<1>3. h[o].id \in WidgetIds /\ o # Gap /\ h[o].id \notin DOMAIN index
  BY <1>1 DEF Valid, Widgets
<1>4. PICK k \in Nat : k = row + 1 /\ k - 1 = row
  OBVIOUS
<1>5. PICK old : old = WidgetAt(m, row)
  OBVIOUS
<1>6. /\ k \in 1 .. Len(rows) => old = rows[k]
      /\ k \notin 1 .. Len(rows) => old = Gap
      /\ k \in 1 .. Len(rows) <=> ~(row >= Len(rows))
  BY <1>1, <1>2, <1>4, <1>5 DEF WidgetAt
<1>7. PICK rest : rest = IF old = Gap THEN index ELSE Without(index, h[old].id)
  OBVIOUS
<1>8. rest \in Indices
  BY <1>7, WithoutProperties
<1>9. rest = IF k \in 1 .. Len(rows) /\ rows[k] # Gap THEN Without(index, h[rows[k]].id) ELSE index
  BY <1>6, <1>7
<1>10. PICK t : t = IF row >= Len(rows) THEN AtEnd(rows, o, row) ELSE [rows EXCEPT ![k] = o]
  OBVIOUS
<1>11. AddReplaceWidget(h, m, o, row) = Column(t, With(rest, h[o].id, k - 1))
  <2>1. AddReplaceWidget(h, m, o, row) =
          [rows |-> IF row >= Len(rows) THEN AtEnd(rows, o, row) ELSE [rows EXCEPT ![k] = o],
           index |-> With(rest, h[o].id, row)]
    BY ONLY <1>1, <1>4, <1>5, <1>7 DEF AddReplaceWidget, AtEnd
  <2>2. QED
    BY <1>4, <1>10, <2>1 DEF Column
<1>12. /\ t \in Seq(S \cup {Gap}) /\ Len(t) \in Nat /\ k \in 1 .. Len(t) /\ t[k] = o
       /\ \A i \in 1 .. Len(rows) : i # k => i \in 1 .. Len(t) /\ t[i] = rows[i]
       /\ \A i \in 1 .. Len(t) : i # k => (i \in 1 .. Len(rows) /\ t[i] = rows[i]) \/ t[i] = Gap
  <2>1. CASE row >= Len(rows)
    <3>1. t = AtEnd(rows, o, row)
      BY <1>10, <2>1
    <3>2. /\ t \in Seq(S \cup {Gap}) /\ Len(t) = row + 1 /\ t[row + 1] = o
          /\ \A i \in 1 .. Len(rows) : t[i] = rows[i]
          /\ \A i \in Len(rows) + 1 .. row : t[i] = Gap
      <4>1. IsAtEnd(AtEnd(rows, o, row), S, rows, o, row)
        BY ONLY <2>1, rows \in Seq(S \cup {Gap}), o \in S, row \in Nat, AtEndProperties
      <4>2. QED
        BY ONLY <3>1, <4>1 DEF IsAtEnd
    <3>3. QED
      BY <1>2, <1>4, <2>1, <3>2
  <2>2. CASE ~(row >= Len(rows))
    <3>1. t = [rows EXCEPT ![k] = o] /\ k \in 1 .. Len(rows)
      BY <1>6, <1>10, <2>2
    <3>2. t \in Seq(S \cup {Gap}) /\ Len(t) = Len(rows) /\ \A i \in 1 .. Len(rows) : t[i] = IF i = k THEN o ELSE rows[i]
      BY <3>1, ExceptSeq
    <3>3. QED
      BY <1>2, <3>1, <3>2
  <2>3. QED
    BY <2>1, <2>2
<1>13. Indexed(h, t, With(rest, h[o].id, k - 1)) /\ With(rest, h[o].id, k - 1) \in Indices
  BY ONLY <1>2, <1>3, <1>8, <1>9, <1>12, AddedIndexed, rows \in Seq(S \cup {Gap}), index \in Indices
<1>14. QED
  BY <1>11, <1>12, <1>13, ColumnIntro

(* A column is as good for other objects and another heap if its rows are  *)
(* among the objects and the widgets keep their ids.                       *)
LEMMA ColumnCarries ==
  ASSUME NEW h, NEW S, NEW m, ColumnOk(h, S, m), NEW g, NEW T,
         \A i \in 1 .. Len(m.rows) : m.rows[i] \in T \cup {Gap},
         \A i \in 1 .. Len(m.rows) : m.rows[i] # Gap => g[m.rows[i]].id = h[m.rows[i]].id
  PROVE  ColumnOk(g, T, m)
<1>1. PICK rows \in Seq(S \cup {Gap}), index \in Indices : rows = m.rows /\ index = m.index /\ m = Column(rows, index)
  <2>1. m.rows \in Seq(S \cup {Gap}) /\ m.index \in Indices /\ m = Column(m.rows, m.index)
    BY ColumnElim
  <2>2. QED
    BY <2>1
<1>2. Indexed(h, rows, index) /\ Len(rows) \in Nat
  BY <1>1, ColumnElim
<1>3. rows \in Seq(T \cup {Gap})
  <2>1. rows = [i \in 1 .. Len(rows) |-> rows[i]]
    BY LenProperties
  <2>2. rows \in [1 .. Len(rows) -> T \cup {Gap}]
    BY <1>1, <2>1
  <2>3. QED
    BY <1>2, <2>2
<1>4. Indexed(g, rows, index)
  BY <1>1, <1>2 DEF Indexed, IsAt
<1>5. QED
  BY <1>1, <1>3, <1>4, ColumnIntro

(* A widget in the place of another with its id.                           *)
LEMMA ReplacedOk ==
  ASSUME NEW h, NEW S, NEW m, ColumnOk(h, S, m), NEW o \in S, Gap \notin S,
         NEW k \in 1 .. Len(m.rows), IsAt(h, m.rows, k, h[o].id)
  PROVE  ColumnOk(h, S, [m EXCEPT !.rows[k] = o])
<1>1. PICK rows \in Seq(S \cup {Gap}), index \in Indices : rows = m.rows /\ index = m.index /\ m = Column(rows, index)
  <2>1. m.rows \in Seq(S \cup {Gap}) /\ m.index \in Indices /\ m = Column(m.rows, m.index)
    BY ColumnElim
  <2>2. QED
    BY <2>1
<1>2. Indexed(h, rows, index) /\ Len(rows) \in Nat
  BY <1>1, ColumnElim
<1>3. PICK t : t = [rows EXCEPT ![k] = o]
  OBVIOUS
<1>4. [m EXCEPT !.rows[k] = o] = Column(t, index)
  <2>1. m.rows = rows
    BY ONLY <1>1
  <2>2. [m EXCEPT !.rows[k] = o] = [m EXCEPT !.rows = t]
    BY ONLY <1>3, <2>1
  <2>3. [m EXCEPT !.rows = t] = Column(t, index)
    BY ONLY <1>1 DEF Column
  <2>4. QED
    BY ONLY <2>2, <2>3
<1>5. t \in Seq(S \cup {Gap}) /\ Len(t) = Len(rows) /\ \A i \in 1 .. Len(rows) : t[i] = IF i = k THEN o ELSE rows[i]
  <2>1. k \in 1 .. Len(rows) /\ o \in S \cup {Gap}
    BY <1>1
  <2>2. QED
    BY <1>3, <2>1, ExceptSeq
<1>6. ASSUME NEW i \in 1 .. Len(rows), NEW id PROVE IsAt(h, t, i, id) <=> IsAt(h, rows, i, id)
  <2>1. CASE i = k
    BY <1>1, <1>5, <2>1 DEF IsAt
  <2>2. CASE i # k
    BY <1>5, <2>2 DEF IsAt
  <2>3. QED
    BY <2>1, <2>2
<1>7. Indexed(h, t, index)
  <2>1. ASSUME NEW i \in 1 .. Len(t), t[i] # Gap
        PROVE  h[t[i]].id \in DOMAIN index /\ index[h[t[i]].id] = i - 1
    <3>1. IsAt(h, rows, i, h[t[i]].id) /\ i \in 1 .. Len(rows)
      BY <1>5, <1>6, <2>1 DEF IsAt
    <3>2. QED
      BY <1>2, <3>1 DEF Indexed, IsAt
  <2>2. ASSUME NEW id \in DOMAIN index PROVE \E i \in 1 .. Len(t) : IsAt(h, t, i, id)
    BY <1>2, <1>5, <1>6, <2>2 DEF Indexed
  <2>3. QED
    BY <2>1, <2>2 DEF Indexed
<1>8. QED
  BY <1>4, <1>5, <1>7, ColumnIntro

(* updateWidget() with a row, of a preview that is loaded again.           *)
LEMMA UpdateWidgetAtOk ==
  ASSUME NEW h, NEW S, NEW m, ColumnOk(h, S, m), NEW o \in S, Gap \notin S, NEW row \in Nat
  PROVE  ColumnOk(h, S, UpdateWidgetAt(h, m, o, row))
<1>1. CASE WidgetAt(m, row) = Gap \/ h[WidgetAt(m, row)].id # h[o].id
  BY <1>1 DEF UpdateWidgetAt
<1>2. CASE ~(WidgetAt(m, row) = Gap \/ h[WidgetAt(m, row)].id # h[o].id)
  <2>1. PICK k \in Nat : k = row + 1
    OBVIOUS
  <2>2. k \in 1 .. Len(m.rows) /\ WidgetAt(m, row) = m.rows[k]
    BY <1>2, <2>1, ColumnElim DEF WidgetAt
  <2>3. IsAt(h, m.rows, k, h[o].id)
    BY <1>2, <2>2 DEF IsAt
  <2>4. UpdateWidgetAt(h, m, o, row) = [m EXCEPT !.rows[k] = o]
    BY <1>2, <2>1 DEF UpdateWidgetAt
  <2>5. QED
    <3>1. ColumnOk(h, S, [m EXCEPT !.rows[k] = o])
      BY ONLY ColumnOk(h, S, m), o \in S, Gap \notin S, <2>2, <2>3, ReplacedOk
    <3>2. QED
      BY <2>4, <3>1
<1>3. QED
  BY <1>1, <1>2

(* updateWidget() without a row.                                           *)
LEMMA UpdateWidgetOk ==
  ASSUME NEW h, NEW S, NEW m, ColumnOk(h, S, m), NEW o \in S, Gap \notin S
  PROVE  ColumnOk(h, S, UpdateWidget(h, m, o))
<1> DEFINE same == {i \in 1 .. Len(m.rows) : m.rows[i] # Gap /\ h[m.rows[i]].id = h[o].id}
<1>1. UpdateWidget(h, m, o) =
        IF same = {} THEN m ELSE [m EXCEPT !.rows[CHOOSE i \in same : \A j \in same : i <= j] = o]
  BY DEF UpdateWidget
<1>2. CASE same = {}
  BY <1>1, <1>2
<1>3. CASE same # {}
  <2>1. PICK k \in same : TRUE
    BY <1>3
  <2>2. k \in 1 .. Len(m.rows) /\ IsAt(h, m.rows, k, h[o].id) /\ k \in Int
    BY <2>1 DEF IsAt
  <2>3. same = {k}
    <3>1. Indexed(h, m.rows, m.index)
      BY ColumnElim
    <3>2. \A i, j \in 1 .. Len(m.rows) : \A id : IsAt(h, m.rows, i, id) /\ IsAt(h, m.rows, j, id) => i = j
      BY <3>1, IndexedUnique
    <3>3. \A i \in same : IsAt(h, m.rows, i, h[o].id) /\ i \in 1 .. Len(m.rows)
      BY DEF IsAt
    <3> HIDE DEF same
    <3>4. QED
      BY <2>1, <2>2, <3>2, <3>3
  <2> HIDE DEF same
  <2>4. (CHOOSE i \in same : \A j \in same : i <= j) = k
    <3>1. k \in same /\ \A j \in same : k <= j
      BY <2>2, <2>3
    <3>2. QED
      BY <2>3, <3>1
  <2>5. UpdateWidget(h, m, o) = [m EXCEPT !.rows[k] = o]
    BY <1>1, <1>3, <2>4
  <2>6. QED
    BY <2>2, <2>5, ReplacedOk
<1>4. QED
  BY <1>2, <1>3

(* Rows that come from others, of which the k-th with id went to d or, if  *)
(* there is no d-th, away.  src says where the other rows come from.       *)
Comes(t, rows, d, k, src, from, to) ==
  /\ \A j \in 1 .. Len(t) : j # d =>
       /\ src[j] \in 1 .. Len(rows) /\ src[j] # k /\ t[j] = rows[src[j]]
       /\ j = src[j] \/ j - 1 \in from .. to
  /\ \A i \in 1 .. Len(rows) : i # k => \E j \in 1 .. Len(t) : j # d /\ src[j] = i
  /\ \A i, j \in 1 .. Len(t) : i # d /\ j # d /\ src[i] = src[j] => i = j

Others(h, t, d, ids, y) ==
  /\ \A j \in 1 .. Len(t) : j # d /\ t[j] # Gap => h[t[j]].id \in ids /\ y[h[t[j]].id] = j - 1
  /\ \A a \in ids : \E j \in 1 .. Len(t) : j # d /\ IsAt(h, t, j, a)

(* Looking up again the rows that shifted is enough.                       *)
LEMMA ShiftedIndexed ==
  ASSUME NEW h, NEW rows, NEW index \in Indices, Indexed(h, rows, index), Len(rows) \in Nat,
         NEW k \in 1 .. Len(rows), NEW id, IsAt(h, rows, k, id),
         NEW t, Len(t) \in Nat, NEW d, d \in 1 .. Len(t) => IsAt(h, t, d, id),
         NEW from \in Nat, NEW to \in Int, NEW src, Comes(t, rows, d, k, src, from, to),
         NEW base \in Indices, DOMAIN index \ {id} \subseteq DOMAIN base,
         \A a \in DOMAIN index \ {id} : base[a] = index[a]
  PROVE  Others(h, t, d, DOMAIN index \ {id}, Reindexed(h, base, t, from, to))
<1>1. PICK y : y = Reindexed(h, base, t, from, to)
  OBVIOUS
<1>2. ASSUME NEW j \in 1 .. Len(t), j # d, t[j] # Gap
      PROVE  /\ IsAt(h, rows, src[j], h[t[j]].id) /\ src[j] \in 1 .. Len(rows) /\ src[j] # k
             /\ h[t[j]].id \in DOMAIN index \ {id} /\ index[h[t[j]].id] = src[j] - 1
  <2>1. /\ src[j] \in 1 .. Len(rows) /\ src[j] # k /\ t[j] = rows[src[j]]
    BY <1>2 DEF Comes
  <2>2. IsAt(h, rows, src[j], h[t[j]].id)
    BY <1>2, <2>1 DEF IsAt
  <2>3. h[t[j]].id \in DOMAIN index /\ index[h[t[j]].id] = src[j] - 1
    BY <2>1, <2>2 DEF Indexed, IsAt
  <2>4. h[t[j]].id # id
    <3>1. \A l, i \in 1 .. Len(rows) : \A a : IsAt(h, rows, l, a) /\ IsAt(h, rows, i, a) => l = i
      BY IndexedUnique
    <3>2. QED
      BY <2>1, <2>2, <3>1
  <2>5. QED
    BY <2>1, <2>2, <2>3, <2>4
<1>3. ASSUME NEW i \in 1 .. Len(t), NEW j \in 1 .. Len(t), i # d, j # d, NEW a, IsAt(h, t, i, a), IsAt(h, t, j, a)
      PROVE  i = j
  <2>1. index[a] = src[i] - 1 /\ index[a] = src[j] - 1 /\ src[i] \in 1 .. Len(rows) /\ src[j] \in 1 .. Len(rows)
    BY <1>2, <1>3 DEF IsAt
  <2>2. src[i] = src[j]
    BY <2>1
  <2>3. QED
    BY <1>3, <2>2 DEF Comes
<1>4. ASSUME NEW a \in DOMAIN index \ {id}, NEW j \in 1 .. Len(t), j # d, IsAt(h, t, j, a) PROVE y[a] = j - 1
  <2>1. OnlyAt(h, t, j, a)
    <3>1. ASSUME NEW i \in 1 .. Len(t), IsAt(h, t, i, a) PROVE i = j
      <4>1. i # d
        BY <1>4, <3>1 DEF IsAt
      <4>2. QED
        BY <1>3, <1>4, <3>1, <4>1
    <3>2. QED
      BY <3>1 DEF OnlyAt
  <2>2. j - 1 \in from .. to \/ base[a] = j - 1
    <3>1. t[j] # Gap /\ h[t[j]].id = a
      BY <1>4 DEF IsAt
    <3>2. index[a] = src[j] - 1 /\ base[a] = index[a]
      BY <1>2, <1>4, <3>1
    <3>3. j = src[j] \/ j - 1 \in from .. to
      BY <1>4 DEF Comes
    <3>4. QED
      BY <3>2, <3>3
  <2>3. a \in DOMAIN base
    OBVIOUS
  <2>4. QED
    <3>1. Reindexed(h, base, t, from, to)[a] = j - 1
      BY ONLY <1>4, <2>1, <2>2, <2>3, Len(t) \in Nat, from \in Nat, to \in Int, j \in 1 .. Len(t), ReindexedAt
    <3>2. QED
      BY <1>1, <3>1
<1>5. ASSUME NEW j \in 1 .. Len(t), j # d, t[j] # Gap
      PROVE  h[t[j]].id \in DOMAIN index \ {id} /\ y[h[t[j]].id] = j - 1
  <2>1. h[t[j]].id \in DOMAIN index \ {id}
    BY <1>2, <1>5
  <2>2. IsAt(h, t, j, h[t[j]].id)
    BY <1>5 DEF IsAt
  <2>3. QED
    BY <1>4, <1>5, <2>1, <2>2
<1>6. ASSUME NEW a \in DOMAIN index \ {id} PROVE \E j \in 1 .. Len(t) : j # d /\ IsAt(h, t, j, a)
  <2>1. PICK i \in 1 .. Len(rows) : IsAt(h, rows, i, a)
    BY DEF Indexed
  <2>2. i # k
    BY <2>1 DEF IsAt
  <2>3. PICK j \in 1 .. Len(t) : j # d /\ src[j] = i
    BY <2>2 DEF Comes
  <2>4. t[j] = rows[i]
    BY <2>3 DEF Comes
  <2>5. QED
    BY <2>1, <2>3, <2>4 DEF IsAt
<1>7. QED
  BY <1>1, <1>5, <1>6 DEF Others

(* removeWidget() looks up again the rows after the one removed.           *)
LEMMA RemoveWidgetOk ==
  ASSUME NEW h, NEW S, NEW m, ColumnOk(h, S, m), NEW id
  PROVE  ColumnOk(h, S, RemoveWidget(h, m, id))
<1>1. PICK rows \in Seq(S \cup {Gap}), index \in Indices : rows = m.rows /\ index = m.index
  BY ColumnElim
<1>2. Indexed(h, rows, index) /\ Len(rows) \in Nat
  BY <1>1, ColumnElim
<1>3. CASE id \notin DOMAIN index
  BY <1>1, <1>3 DEF RemoveWidget, WidgetIndex
<1>4. CASE id \in DOMAIN index
  <2>1. PICK k \in 1 .. Len(rows), row \in Nat : row = index[id] /\ k = row + 1 /\ row = k - 1 /\ IsAt(h, rows, k, id)
    <3>1. index[id] + 1 \in 1 .. Len(rows) /\ IsAt(h, rows, index[id] + 1, id)
      BY <1>2, <1>4, IndexedAt
    <3>2. PICK row \in Nat : row = index[id]
      BY <1>4, IndicesProperties
    <3>3. PICK k \in 1 .. Len(rows) : k = index[id] + 1
      BY <3>1
    <3>4. row = k - 1 /\ k = row + 1
      BY <3>2, <3>3
    <3>5. QED
      BY <3>1, <3>2, <3>3, <3>4
  <2>2. PICK t : t = RemoveAt(rows, k)
    OBVIOUS
  <2>3. /\ t \in Seq(S \cup {Gap}) /\ Len(t) = Len(rows) - 1 /\ Len(t) \in Nat
        /\ \A j \in 1 .. Len(rows) - 1 : t[j] = IF j < k THEN rows[j] ELSE rows[j + 1]
    <3>1. /\ RemoveAt(rows, k) \in Seq(S \cup {Gap}) /\ Len(RemoveAt(rows, k)) = Len(rows) - 1
          /\ \A j \in 1 .. Len(rows) - 1 : RemoveAt(rows, k)[j] = IF j < k THEN rows[j] ELSE rows[j + 1]
      BY RemoveAtProperties
    <3>2. Len(rows) - 1 \in Nat
      BY <1>2, <2>1
    <3>3. QED
      BY <2>2, <3>1, <3>2
  <2>4. PICK to \in Int : to = Len(t) - 1
    BY <2>3
  <2>5. PICK base \in Indices : /\ base = Without(index, id) /\ DOMAIN base = DOMAIN index \ {id}
                                /\ \A a \in DOMAIN index : a # id => base[a] = index[a]
    <3>1. /\ Without(index, id) \in Indices /\ DOMAIN Without(index, id) = DOMAIN index \ {id}
          /\ \A j \in DOMAIN index : j # id => Without(index, id)[j] = index[j]
      BY WithoutProperties
    <3>2. QED
      BY ONLY <3>1
  <2>6. PICK y : y = Reindexed(h, base, t, row, to)
    OBVIOUS
  <2>7. y \in Indices /\ DOMAIN y = DOMAIN index \ {id}
    BY <2>3, <2>5, <2>6, ReindexedDomain
  <2>8. RemoveWidget(h, m, id) = Column(t, y)
    <3>1. WidgetIndex(m, id) = row /\ ~(row < 0)
      BY <1>1, <1>4, <2>1 DEF WidgetIndex
    <3>2. QED
      BY ONLY <1>1, <2>1, <2>2, <2>4, <2>5, <2>6, <3>1 DEF RemoveWidget, Column
  <2>9. PICK src : src = [j \in 1 .. Len(t) |-> IF j < k THEN j ELSE j + 1]
    OBVIOUS
  <2>10. Comes(t, rows, 0, k, src, row, to)
    <3>0. PICK n \in Nat : n = Len(rows) /\ Len(t) = n - 1 /\ k \in 1 .. n /\ to = n - 2
      BY <1>2, <2>3, <2>4
    <3>1. ASSUME NEW j \in 1 .. Len(t)
          PROVE  /\ src[j] \in 1 .. Len(rows) /\ src[j] # k /\ t[j] = rows[src[j]]
                 /\ j = src[j] \/ j - 1 \in row .. to
      <4>1. src[j] = (IF j < k THEN j ELSE j + 1) /\ t[j] = IF j < k THEN rows[j] ELSE rows[j + 1]
        BY <2>3, <2>9, <3>1
      <4>2. CASE j < k
        <5>1. src[j] = j /\ t[j] = rows[j]
          BY ONLY <4>1, <4>2
        <5>2. j \in 1 .. Len(rows) /\ j # k
          BY <3>0, <3>1, <4>2
        <5>3. QED
          BY ONLY <5>1, <5>2
      <4>3. CASE ~(j < k)
        <5>1. PICK i : i = j + 1
          OBVIOUS
        <5>2. src[j] = i /\ t[j] = rows[i]
          BY ONLY <4>1, <4>3, <5>1
        <5>3. i \in 1 .. Len(rows) /\ i # k
          BY <3>0, <3>1, <4>3, <5>1
        <5>4. j - 1 \in row .. to
          BY <2>1, <3>0, <3>1, <4>3
        <5>5. QED
          BY ONLY <5>2, <5>3, <5>4
      <4>4. QED
        BY <4>2, <4>3
    <3>2. ASSUME NEW i \in 1 .. Len(rows), i # k PROVE \E j \in 1 .. Len(t) : j # 0 /\ src[j] = i
      <4>1. CASE i < k
        <5>1. i \in 1 .. Len(t) /\ i # 0
          BY <3>0, <3>2, <4>1
        <5>2. src[i] = i
          BY <2>9, <4>1, <5>1
        <5>3. QED
          BY <5>1, <5>2
      <4>2. CASE ~(i < k)
        <5>1. PICK j : j = i - 1
          OBVIOUS
        <5>2. j \in 1 .. Len(t) /\ j # 0 /\ ~(j < k) /\ j + 1 = i
          BY <3>0, <3>2, <4>2, <5>1
        <5>3. src[j] = i
          BY <2>9, <5>2
        <5>4. QED
          BY <5>2, <5>3
      <4>3. QED
        BY <4>1, <4>2
    <3>3. ASSUME NEW i \in 1 .. Len(t), NEW j \in 1 .. Len(t), src[i] = src[j] PROVE i = j
      <4>1. (IF i < k THEN i ELSE i + 1) = (IF j < k THEN j ELSE j + 1)
        BY <2>9, <3>3
      <4>2. i \in Int /\ j \in Int /\ k \in Int
        BY <3>0
      <4>3. QED
        BY ONLY <4>1, <4>2
    <3>4. QED
      BY <3>1, <3>2, <3>3 DEF Comes
  <2>11. Others(h, t, 0, DOMAIN index \ {id}, y)
    <3>1. 0 \notin 1 .. Len(t)
      OBVIOUS
    <3>2. QED
      BY ONLY <1>2, <2>1, <2>3, <2>5, <2>6, <2>10, <3>1, index \in Indices, k \in 1 .. Len(rows), to \in Int,
              row \in Nat, base \in Indices, ShiftedIndexed
  <2>12. Indexed(h, t, y)
    <3>1. \A j \in 1 .. Len(t) : j # 0
      OBVIOUS
    <3>2. QED
      BY <2>7, <2>11, <3>1 DEF Others, Indexed
  <2>13. QED
    BY <2>3, <2>7, <2>8, <2>12, ColumnIntro
<1>5. QED
  BY <1>3, <1>4

(* A row moved up: those in between move down.                             *)
LEMMA MovedUpProperties ==
  ASSUME NEW S, NEW s \in Seq(S), NEW from \in 1 .. Len(s), NEW to \in 1 .. Len(s), to < from
  PROVE  LET t == InsertAt(RemoveAt(s, from), to, s[from])
         IN  /\ t \in Seq(S) /\ Len(t) = Len(s)
             /\ \A j \in 1 .. Len(s) :
                  t[j] = IF j < to \/ j > from THEN s[j] ELSE IF j = to THEN s[from] ELSE s[j - 1]
<1>1. Len(s) \in Nat /\ s[from] \in S
  BY LenProperties
<1>2. PICK r : r = RemoveAt(s, from)
  OBVIOUS
<1>3. /\ r \in Seq(S) /\ Len(r) = Len(s) - 1
      /\ \A j \in 1 .. Len(s) - 1 : r[j] = IF j < from THEN s[j] ELSE s[j + 1]
  BY <1>2, RemoveAtProperties
<1>4. to \in 1 .. Len(r) + 1 /\ Len(r) + 1 = Len(s)
  BY <1>1, <1>3
<1>5. PICK t : t = InsertAt(r, to, s[from])
  OBVIOUS
<1>6. /\ t \in Seq(S) /\ Len(t) = Len(s)
      /\ \A j \in 1 .. Len(s) : t[j] = IF j < to THEN r[j] ELSE IF j = to THEN s[from] ELSE r[j - 1]
  <2>1. PICK e \in S : e = s[from]
    BY <1>1
  <2>2. /\ InsertAt(r, to, e) \in Seq(S) /\ Len(InsertAt(r, to, e)) = Len(r) + 1
        /\ IsInserted(InsertAt(r, to, e), r, to, e)
    <3>1. r \in Seq(S) /\ to \in 1 .. Len(r) + 1
      BY <1>3, <1>4
    <3>2. QED
      BY <3>1, InsertAtProperties
  <2>3. QED
    BY <1>4, <1>5, <2>1, <2>2 DEF IsInserted
<1>7. ASSUME NEW j \in 1 .. Len(s)
      PROVE  t[j] = IF j < to \/ j > from THEN s[j] ELSE IF j = to THEN s[from] ELSE s[j - 1]
  <2>1. CASE j < to
    <3>1. j \in 1 .. Len(s) - 1 /\ j < from
      BY <1>1, <2>1
    <3>2. QED
      BY <1>1, <1>3, <1>6, <2>1, <3>1
  <2>2. CASE j = to
    BY <1>6, <2>2
  <2>3. CASE j > to /\ j <= from
    <3>1. j - 1 \in 1 .. Len(s) - 1 /\ j - 1 < from
      BY <1>1, <2>3
    <3>2. r[j - 1] = s[j - 1]
      BY <1>3, <3>1
    <3>3. t[j] = r[j - 1]
      BY <1>6, <2>3
    <3>4. QED
      BY <2>3, <3>2, <3>3
  <2>4. CASE j > from
    <3>1. j - 1 \in 1 .. Len(s) - 1 /\ ~(j - 1 < from) /\ (j - 1) + 1 = j
      BY <1>1, <2>4
    <3>2. QED
      BY <1>1, <1>3, <1>6, <2>4, <3>1
  <2>5. QED
    BY <1>1, <2>1, <2>2, <2>3, <2>4
<1>8. QED
  BY <1>2, <1>5, <1>6, <1>7

(* Where the rows come from.                                               *)
Source(k, d, j) ==
  IF j = d THEN k
  ELSE IF k < d THEN (IF j < k \/ j > d THEN j ELSE j + 1) ELSE (IF j < d \/ j > k THEN j ELSE j - 1)

(* A row is taken out and put in elsewhere.                                *)
LEMMA MovedProperties ==
  ASSUME NEW S, NEW s \in Seq(S), NEW k \in 1 .. Len(s), NEW d \in 1 .. Len(s), k # d
  PROVE  LET t == InsertAt(RemoveAt(s, k), d, s[k])
         IN  /\ t \in Seq(S) /\ Len(t) = Len(s)
             /\ \A j \in 1 .. Len(s) : t[j] = s[Source(k, d, j)]
<1>1. PICK t : t = InsertAt(RemoveAt(s, k), d, s[k])
  OBVIOUS
<1>2. CASE k < d
  <2>1. /\ t \in Seq(S) /\ Len(t) = Len(s)
        /\ \A j \in 1 .. Len(s) : t[j] = IF j < k \/ j > d THEN s[j] ELSE IF j = d THEN s[k] ELSE s[j + 1]
    BY ONLY s \in Seq(S), k \in 1 .. Len(s), d \in 1 .. Len(s), <1>1, <1>2, MovedDownProperties
  <2>2. ASSUME NEW j \in 1 .. Len(s) PROVE t[j] = s[Source(k, d, j)]
    <3>1. t[j] = IF j < k \/ j > d THEN s[j] ELSE IF j = d THEN s[k] ELSE s[j + 1]
      BY <2>1
    <3>2. j \in Int /\ k \in Int /\ d \in Int
      OBVIOUS
    <3>3. QED
      BY ONLY <1>2, <3>1, <3>2 DEF Source
  <2>3. QED
    BY <1>1, <2>1, <2>2
<1>3. CASE d < k
  <2>1. /\ t \in Seq(S) /\ Len(t) = Len(s)
        /\ \A j \in 1 .. Len(s) : t[j] = IF j < d \/ j > k THEN s[j] ELSE IF j = d THEN s[k] ELSE s[j - 1]
    BY <1>1, <1>3, MovedUpProperties
  <2>2. ASSUME NEW j \in 1 .. Len(s) PROVE t[j] = s[Source(k, d, j)]
    <3>1. t[j] = IF j < d \/ j > k THEN s[j] ELSE IF j = d THEN s[k] ELSE s[j - 1]
      BY <2>1
    <3>2. j \in Int /\ k \in Int /\ d \in Int
      OBVIOUS
    <3>3. QED
      BY ONLY <1>3, <3>1, <3>2 DEF Source
  <2>3. QED
    BY <1>1, <2>1, <2>2
<1>4. k \in Int /\ d \in Int
  OBVIOUS
<1>5. k < d \/ d < k
  BY <1>4
<1>6. QED
  BY <1>2, <1>3, <1>5

IsSource(n, k, d, from, to) ==
  /\ \A j \in 1 .. n : j # d => /\ Source(k, d, j) \in 1 .. n /\ Source(k, d, j) # k
                                /\ j = Source(k, d, j) \/ j - 1 \in from .. to
  /\ \A i \in 1 .. n : i # k => \E j \in 1 .. n : j # d /\ Source(k, d, j) = i
  /\ \A i, j \in 1 .. n : i # d /\ j # d /\ Source(k, d, i) = Source(k, d, j) => i = j

(* Only rows between the two places come from another row.                 *)
LEMMA SourceProperties ==
  ASSUME NEW n \in Nat, NEW k \in 1 .. n, NEW d \in 1 .. n, k # d,
         NEW from, NEW to, from = (IF k > d THEN d ELSE k - 1), to = (IF k > d THEN k - 1 ELSE d - 1)
  PROVE  IsSource(n, k, d, from, to)
<1>0. k \in Int /\ d \in Int
  OBVIOUS
<1>1. ASSUME NEW j \in 1 .. n, j # d
      PROVE  /\ Source(k, d, j) \in 1 .. n /\ Source(k, d, j) # k
             /\ j = Source(k, d, j) \/ j - 1 \in from .. to
  <2>1. CASE k < d
    BY <1>0, <1>1, <2>1 DEF Source
  <2>2. CASE d < k
    BY <1>0, <1>1, <2>2 DEF Source
  <2>3. QED
    BY <1>0, <2>1, <2>2
<1>2. ASSUME NEW i \in 1 .. n, i # k PROVE \E j \in 1 .. n : j # d /\ Source(k, d, j) = i
  <2>1. PICK j : j = IF k < d THEN (IF i < k \/ i > d THEN i ELSE i - 1) ELSE (IF i < d \/ i > k THEN i ELSE i + 1)
    OBVIOUS
  <2>2. j \in 1 .. n /\ j # d /\ Source(k, d, j) = i
    <3>1. CASE k < d
      BY <1>0, <1>2, <2>1, <3>1 DEF Source
    <3>2. CASE d < k
      BY <1>0, <1>2, <2>1, <3>2 DEF Source
    <3>3. QED
      BY <1>0, <3>1, <3>2
  <2>3. QED
    BY <2>2
<1>3. ASSUME NEW i \in 1 .. n, NEW j \in 1 .. n, i # d, j # d, Source(k, d, i) = Source(k, d, j) PROVE i = j
  <2>1. i \in Int /\ j \in Int
    OBVIOUS
  <2>2. QED
    BY ONLY <1>0, <1>3, <2>1, k # d DEF Source
<1>4. QED
  BY <1>1, <1>2, <1>3 DEF IsSource

(* moveWidget() looks up again the rows between the two places.            *)
LEMMA MoveWidgetOk ==
  ASSUME NEW h, NEW S, NEW m, ColumnOk(h, S, m), NEW id \in DOMAIN m.index, NEW dest \in Nat
  PROVE  ColumnOk(h, S, MoveWidget(h, m, id, WidgetIndex(m, id), dest))
<1>1. PICK rows \in Seq(S \cup {Gap}), index \in Indices : rows = m.rows /\ index = m.index
  BY ColumnElim
<1>2. Indexed(h, rows, index) /\ Len(rows) \in Nat /\ id \in DOMAIN index /\ id \in WidgetIds
  BY <1>1, ColumnElim, IndicesProperties
<1>3. PICK k \in 1 .. Len(rows), source \in Nat :
        source = WidgetIndex(m, id) /\ k = source + 1 /\ source = k - 1 /\ IsAt(h, rows, k, id)
  <2>1. index[id] + 1 \in 1 .. Len(rows) /\ IsAt(h, rows, index[id] + 1, id)
    BY <1>2, IndexedAt
  <2>2. PICK source \in Nat : source = index[id]
    BY <1>2, IndicesProperties
  <2>3. PICK k \in 1 .. Len(rows) : k = index[id] + 1
    BY <2>1
  <2>4. source = k - 1 /\ k = source + 1
    BY <2>2, <2>3
  <2>5. WidgetIndex(m, id) = source
    BY <1>1, <1>2, <2>2 DEF WidgetIndex
  <2>6. QED
    BY <2>1, <2>2, <2>3, <2>4, <2>5
<1>4. PICK o : o = rows[k]
  OBVIOUS
<1>5. o # Gap /\ h[o].id = id
  BY <1>3, <1>4 DEF IsAt
<1>6. CASE source = dest \/ dest >= Len(rows)
  <2>1. MoveWidget(h, m, id, source, dest) = m
    BY ONLY <1>1, <1>6 DEF MoveWidget
  <2>2. QED
    BY <1>3, <2>1
<1>7. CASE ~(source = dest \/ dest >= Len(rows))
  <2>1. PICK d \in 1 .. Len(rows) : d = dest + 1 /\ dest = d - 1 /\ k # d /\ (source > dest <=> k > d)
    <3>1. PICK d : d = dest + 1
      OBVIOUS
    <3>2. d \in 1 .. Len(rows) /\ dest = d - 1 /\ k # d /\ (source > dest <=> k > d)
      BY <1>2, <1>3, <1>7, <3>1
    <3>3. QED
      BY <3>1, <3>2
  <2>2. PICK from \in Nat, to \in Int : /\ from = (IF k > d THEN d ELSE k - 1) /\ to = (IF k > d THEN k - 1 ELSE d - 1)
                                        /\ from = (IF source > dest THEN dest + 1 ELSE source)
                                        /\ to = (IF source > dest THEN source ELSE dest)
    <3>1. CASE k > d
      BY <1>3, <2>1, <3>1
    <3>2. CASE ~(k > d)
      BY <1>3, <2>1, <3>2
    <3>3. QED
      BY <3>1, <3>2
  <2>3. PICK t : t = InsertAt(RemoveAt(rows, k), d, o)
    OBVIOUS
  <2>4. t \in Seq(S \cup {Gap}) /\ Len(t) = Len(rows) /\ \A j \in 1 .. Len(rows) : t[j] = rows[Source(k, d, j)]
    BY <1>4, <2>1, <2>3, MovedProperties
  <2>5. PICK base : base = Reindexed(h, index, t, from, to)
    OBVIOUS
  <2>6. base \in Indices /\ DOMAIN base = DOMAIN index
    <3>1. Len(t) \in Nat
      BY <1>2, <2>4
    <3>2. QED
      BY <2>5, <3>1, ReindexedDomain
  <2>7. PICK y : y = With(base, id, dest)
    OBVIOUS
  <2>8. /\ y \in Indices /\ DOMAIN y = DOMAIN index /\ y[id] = dest
        /\ \A a \in DOMAIN index : a # id => y[a] = base[a]
    <3>1. /\ With(base, id, dest) \in Indices /\ DOMAIN With(base, id, dest) = DOMAIN base \cup {id}
          /\ With(base, id, dest)[id] = dest
          /\ \A a \in DOMAIN base : a # id => With(base, id, dest)[a] = base[a]
      BY ONLY <1>2, <2>6, dest \in Nat, WithProperties
    <3>2. QED
      BY <1>2, <2>6, <2>7, <3>1
  <2>9. MoveWidget(h, m, id, source, dest) = Column(t, y)
    <3>1. MoveWidget(h, m, id, source, dest) =
            [rows |-> t, index |-> With(IF source > dest THEN Reindexed(h, index, t, dest + 1, source)
                                        ELSE Reindexed(h, index, t, source, dest), id, dest)]
      BY ONLY <1>1, <1>3, <1>4, <1>5, <1>7, <2>1, <2>3 DEF MoveWidget
    <3>2. (IF source > dest THEN Reindexed(h, index, t, dest + 1, source)
           ELSE Reindexed(h, index, t, source, dest)) = base
      BY ONLY <2>2, <2>5
    <3>3. QED
      BY ONLY <2>7, <3>1, <3>2 DEF Column
  <2>10. PICK src : src = [j \in 1 .. Len(t) |-> Source(k, d, j)]
    OBVIOUS
  <2>11. Comes(t, rows, d, k, src, from, to)
    <3>1. PICK n \in Nat : n = Len(rows) /\ n = Len(t) /\ k \in 1 .. n /\ d \in 1 .. n
      BY <1>2, <2>4
    <3>2. IsSource(n, k, d, from, to)
      BY ONLY <2>1, <2>2, <3>1, SourceProperties
    <3>3. \A j \in 1 .. n : src[j] = Source(k, d, j) /\ t[j] = rows[src[j]]
      BY ONLY <2>4, <2>10, <3>1
    <3>4. QED
      <4>1. ASSUME NEW j \in 1 .. n, j # d
            PROVE  /\ src[j] \in 1 .. n /\ src[j] # k /\ t[j] = rows[src[j]]
                   /\ j = src[j] \/ j - 1 \in from .. to
        <5>1. /\ Source(k, d, j) \in 1 .. n /\ Source(k, d, j) # k
              /\ j = Source(k, d, j) \/ j - 1 \in from .. to
          BY ONLY <3>2, <4>1, j \in 1 .. n DEF IsSource
        <5>2. src[j] = Source(k, d, j) /\ t[j] = rows[src[j]]
          BY ONLY <3>3, j \in 1 .. n
        <5>3. QED
          BY ONLY <5>1, <5>2
      <4>2. ASSUME NEW i \in 1 .. n, i # k PROVE \E j \in 1 .. n : j # d /\ src[j] = i
        <5>1. PICK j \in 1 .. n : j # d /\ Source(k, d, j) = i
          BY ONLY <3>2, <4>2, i \in 1 .. n DEF IsSource
        <5>2. src[j] = i
          BY ONLY <3>3, <5>1, j \in 1 .. n
        <5>3. QED
          BY ONLY <5>1, <5>2, j \in 1 .. n
      <4>3. ASSUME NEW i \in 1 .. n, NEW j \in 1 .. n, i # d, j # d, src[i] = src[j] PROVE i = j
        <5>1. Source(k, d, i) = Source(k, d, j)
          BY ONLY <3>3, <4>3, i \in 1 .. n, j \in 1 .. n
        <5>2. QED
          BY ONLY <3>2, <4>3, <5>1, i \in 1 .. n, j \in 1 .. n DEF IsSource
      <4>4. 1 .. n = 1 .. Len(t) /\ 1 .. n = 1 .. Len(rows)
        BY <3>1
      <4>5. QED
        BY ONLY <4>1, <4>2, <4>3, <4>4 DEF Comes
  <2>12. IsAt(h, t, d, id)
    <3>1. t[d] = o
      BY <1>4, <2>4 DEF Source
    <3>2. QED
      BY <1>5, <3>1 DEF IsAt
  <2>13. Others(h, t, d, DOMAIN index \ {id}, base)
    <3>1. Len(t) \in Nat
      BY <1>2, <2>4
    <3>2. Others(h, t, d, DOMAIN index \ {id}, Reindexed(h, index, t, from, to))
      BY ONLY <1>2, <1>3, <2>11, <2>12, <3>1, index \in Indices, k \in 1 .. Len(rows), from \in Nat, to \in Int,
              ShiftedIndexed
    <3>3. QED
      BY <2>5, <3>2
  <2>14. Indexed(h, t, y)
    <3>1. ASSUME NEW j \in 1 .. Len(t), t[j] # Gap PROVE h[t[j]].id \in DOMAIN y /\ y[h[t[j]].id] = j - 1
      <4>1. CASE j = d
        BY <1>2, <2>1, <2>8, <2>12, <4>1 DEF IsAt
      <4>2. CASE j # d
        BY <2>8, <2>13, <3>1, <4>2 DEF Others
      <4>3. QED
        BY <4>1, <4>2
    <3>2. ASSUME NEW a \in DOMAIN y PROVE \E j \in 1 .. Len(t) : IsAt(h, t, j, a)
      <4>1. CASE a = id
        BY <2>4, <2>12, <4>1
      <4>2. CASE a # id
        BY <2>8, <2>13, <3>2, <4>2 DEF Others
      <4>3. QED
        BY <4>1, <4>2
    <3>3. QED
      BY <3>1, <3>2 DEF Indexed
  <2>15. ColumnOk(h, S, Column(t, y))
    BY <2>4, <2>8, <2>14, ColumnIntro
  <2>16. QED
    BY <1>3, <2>9, <2>15
<1>8. QED
  BY <1>6, <1>7

-----------------------------------------------------------------------------
(* The state that handlers pass through their loops.                       *)

MakeState(h, b, s, cs, l, a, x) ==
  [heap |-> h, byId |-> b, ordered |-> s, columns |-> cs, layout |-> l, allData |-> a, crashed |-> x]

HeapOk(h, S) == h \in [Objects -> Widgets \cup {Null}] /\ Valid(h, S)
ByIdOk(h, b, S) == b \in [WidgetIds -> S \cup {Gap}] /\ \A w \in WidgetIds : b[w] # Gap => h[b[w]].id = w
ColumnsOk(h, cs, S) ==
  cs \in Seq(Columns(S)) /\ Len(cs) \in 1 .. MaxColumns /\ \A c \in 1 .. Len(cs) : ColumnOk(h, S, cs[c])
LayoutValues == UNION {{x[n] : n \in DOMAIN x} : x \in Layouts}
LayoutOk(l) ==
  l \in UNION {[D -> LayoutValues] : D \in SUBSET (1 .. MaxColumns)} /\ \A n \in DOMAIN l : Len(l[n]) = n /\ \A c \in 1 .. n : l[n][c] \in Seq(WidgetIds)

Good(p, S) ==
  /\ p = MakeState(p.heap, p.byId, p.ordered, p.columns, p.layout, p.allData, p.crashed)
  /\ HeapOk(p.heap, S) /\ ByIdOk(p.heap, p.byId, S) /\ p.ordered \in Seq(S)
  /\ ColumnsOk(p.heap, p.columns, S) /\ LayoutOk(p.layout) /\ p.allData \in Values /\ p.crashed \in BOOLEAN

(* The fields of a state.                                                  *)
LEMMA StateFields ==
  ASSUME NEW h, NEW b, NEW s, NEW cs, NEW l, NEW a, NEW x
  PROVE  LET p == MakeState(h, b, s, cs, l, a, x)
         IN  /\ p.heap = h /\ p.byId = b /\ p.ordered = s /\ p.columns = cs /\ p.layout = l
             /\ p.allData = a /\ p.crashed = x
BY DEF MakeState

(* A state is good when its fields are.                                    *)
LEMMA GoodIntro ==
  ASSUME NEW h, NEW b, NEW s, NEW cs, NEW l, NEW a, NEW x, NEW S,
         HeapOk(h, S), ByIdOk(h, b, S), s \in Seq(S), ColumnsOk(h, cs, S), LayoutOk(l), a \in Values, x \in BOOLEAN
  PROVE  Good(MakeState(h, b, s, cs, l, a, x), S)
<1>1. PICK p : p = MakeState(h, b, s, cs, l, a, x)
  OBVIOUS
<1>2. /\ p.heap = h /\ p.byId = b /\ p.ordered = s /\ p.columns = cs /\ p.layout = l
      /\ p.allData = a /\ p.crashed = x
  BY <1>1, StateFields
<1>3. p = MakeState(p.heap, p.byId, p.ordered, p.columns, p.layout, p.allData, p.crashed)
  BY ONLY <1>1, <1>2
<1>4. Good(p, S)
  BY ONLY <1>2, <1>3, HeapOk(h, S), ByIdOk(h, b, S), s \in Seq(S), ColumnsOk(h, cs, S), LayoutOk(l),
          a \in Values, x \in BOOLEAN DEF Good
<1>5. QED
  BY <1>1, <1>4

SameIds(h, g, S) == \A o \in S : g[o].id = h[o].id

(* Objects are numbers, and none is the gap.                               *)
LEMMA ObjectsAreNumbers ==
  /\ Objects \subseteq Nat /\ Gap \notin Objects /\ IsFiniteSet(Objects) /\ Cardinality(Objects) = MaxObjects
<1>1. MaxObjects \in Nat
  BY BoundsAssumption
<1>2. QED
  BY <1>1, FS_Interval DEF Objects, Gap

(* Columns do not mind a heap in which the ids are the same.               *)
LEMMA ColumnsCarry ==
  ASSUME NEW h, NEW g, NEW cs, NEW S \in SUBSET Objects, NEW T, S \subseteq T, ColumnsOk(h, cs, S), SameIds(h, g, S)
  PROVE  ColumnsOk(g, cs, T)
<1>1. Len(cs) \in 1 .. MaxColumns /\ Len(cs) \in Nat /\ cs = [c \in 1 .. Len(cs) |-> cs[c]]
  BY LenProperties DEF ColumnsOk
<1>2. ASSUME NEW c \in 1 .. Len(cs) PROVE ColumnOk(g, T, cs[c])
  <2>1. ColumnOk(h, S, cs[c])
    BY DEF ColumnsOk
  <2>2. PICK m : m = cs[c]
    OBVIOUS
  <2>3. \A i \in 1 .. Len(m.rows) : m.rows[i] \in S \cup {Gap}
    BY <2>1, <2>2, ColumnElim
  <2>4. \A i \in 1 .. Len(m.rows) : m.rows[i] \in T \cup {Gap}
    BY <2>3
  <2>5. \A i \in 1 .. Len(m.rows) : m.rows[i] # Gap => g[m.rows[i]].id = h[m.rows[i]].id
    BY <2>3 DEF SameIds
  <2>6. QED
    BY <2>1, <2>2, <2>4, <2>5, ColumnCarries
<1>3. \A c \in 1 .. Len(cs) : cs[c] \in Columns(T)
  BY <1>2 DEF ColumnOk
<1>4. cs \in Seq(Columns(T))
  BY <1>1, <1>3
<1>5. QED
  BY <1>1, <1>2, <1>4 DEF ColumnsOk

(* One column is replaced.                                                 *)
LEMMA ColumnsReplaced ==
  ASSUME NEW h, NEW cs, NEW S, ColumnsOk(h, cs, S), NEW c \in 1 .. Len(cs), NEW m, ColumnOk(h, S, m)
  PROVE  ColumnsOk(h, [cs EXCEPT ![c] = m], S)
<1>1. cs \in Seq(Columns(S)) /\ Len(cs) \in 1 .. MaxColumns /\ m \in Columns(S)
  BY DEF ColumnsOk, ColumnOk
<1>2. PICK ds : ds = [cs EXCEPT ![c] = m]
  OBVIOUS
<1>3. ds \in Seq(Columns(S)) /\ Len(ds) = Len(cs) /\ \A d \in 1 .. Len(cs) : ds[d] = IF d = c THEN m ELSE cs[d]
  BY <1>1, <1>2, ExceptSeq
<1>4. \A d \in 1 .. Len(ds) : ColumnOk(h, S, ds[d])
  BY <1>3 DEF ColumnsOk
<1>5. ColumnsOk(h, ds, S)
  BY <1>1, <1>3, <1>4 DEF ColumnsOk
<1>6. QED
  BY <1>2, <1>5

(* Nor does the lookup by id.                                              *)
LEMMA ByIdCarries ==
  ASSUME NEW h, NEW g, NEW b, NEW S, NEW T, S \subseteq T, ByIdOk(h, b, S), SameIds(h, g, S)
  PROVE  ByIdOk(g, b, T)
<1>1. b \in [WidgetIds -> T \cup {Gap}]
  BY DEF ByIdOk
<1>2. \A w \in WidgetIds : b[w] # Gap => b[w] \in S /\ h[b[w]].id = w
  BY DEF ByIdOk
<1>3. QED
  BY <1>1, <1>2 DEF ByIdOk, SameIds

(* Whoever is pointed to is enough.                                        *)
Pointers(p) == Live(p) \ {Gap}
Sound(p) == Good(p, Pointers(p))

(* Whoever is in one of the three places is pointed to.                    *)
LEMMA LiveProperties ==
  ASSUME NEW p
  PROVE  /\ \A w \in WidgetIds : p.byId[w] \in Live(p)
         /\ \A i \in 1 .. Len(p.ordered) : p.ordered[i] \in Live(p)
         /\ \A c \in 1 .. Len(p.columns) : \A i \in 1 .. Len(p.columns[c].rows) : p.columns[c].rows[i] \in Live(p)
BY DEF Live

(* A state that is good for some objects is good for those pointed to.     *)
LEMMA SoundIntro ==
  ASSUME NEW p, NEW S \in SUBSET Objects, Good(p, S)
  PROVE  Sound(p) /\ Pointers(p) \subseteq S
<1>1. /\ HeapOk(p.heap, S) /\ ByIdOk(p.heap, p.byId, S) /\ p.ordered \in Seq(S)
      /\ ColumnsOk(p.heap, p.columns, S)
  BY DEF Good
<1>2. Gap \notin S
  BY ObjectsAreNumbers
<1>3. /\ \A w \in WidgetIds : p.byId[w] \in S \cup {Gap}
      /\ \A i \in 1 .. Len(p.ordered) : p.ordered[i] \in S
      /\ \A c \in 1 .. Len(p.columns) : \A i \in 1 .. Len(p.columns[c].rows) : p.columns[c].rows[i] \in S \cup {Gap}
  <2>1. \A w \in WidgetIds : p.byId[w] \in S \cup {Gap}
    BY <1>1 DEF ByIdOk
  <2>2. \A i \in 1 .. Len(p.ordered) : p.ordered[i] \in S
    BY <1>1, LenProperties
  <2>3. ASSUME NEW c \in 1 .. Len(p.columns)
        PROVE  \A i \in 1 .. Len(p.columns[c].rows) : p.columns[c].rows[i] \in S \cup {Gap}
    <3>1. ColumnOk(p.heap, S, p.columns[c])
      BY <1>1 DEF ColumnsOk
    <3>2. QED
      BY <3>1, ColumnElim
  <2>4. QED
    BY <2>1, <2>2, <2>3
<1>4. PICK L : L = Live(p)
  OBVIOUS
<1>5. L \subseteq S \cup {Gap}
  <2>1. ASSUME NEW x \in L PROVE x \in S \cup {Gap}
    <3>1. x \in Live(p)
      BY <1>4
    <3>2. \/ \E w \in WidgetIds : x = p.byId[w]
          \/ \E i \in 1 .. Len(p.ordered) : x = p.ordered[i]
          \/ \E c \in 1 .. Len(p.columns) : \E i \in 1 .. Len(p.columns[c].rows) : x = p.columns[c].rows[i]
      BY ONLY <3>1 DEF Live
    <3>3. QED
      BY ONLY <1>3, <3>2
  <2>2. QED
    BY <2>1
<1>6. PICK T : T = Pointers(p) /\ T = L \ {Gap} /\ T \subseteq S
  BY <1>4, <1>5 DEF Pointers
<1>7. /\ \A w \in WidgetIds : p.byId[w] \in T \cup {Gap}
      /\ \A i \in 1 .. Len(p.ordered) : p.ordered[i] \in T
      /\ \A c \in 1 .. Len(p.columns) : \A i \in 1 .. Len(p.columns[c].rows) : p.columns[c].rows[i] \in T \cup {Gap}
  <2>1. /\ \A w \in WidgetIds : p.byId[w] \in L
        /\ \A i \in 1 .. Len(p.ordered) : p.ordered[i] \in L
        /\ \A c \in 1 .. Len(p.columns) : \A i \in 1 .. Len(p.columns[c].rows) : p.columns[c].rows[i] \in L
    BY <1>4, LiveProperties
  <2>2. QED
    BY ONLY <1>2, <1>3, <1>6, <2>1
<1>8. HeapOk(p.heap, T)
  BY <1>1, <1>6 DEF HeapOk, Valid
<1>9. ByIdOk(p.heap, p.byId, T)
  <2>1. p.byId \in [WidgetIds -> T \cup {Gap}]
    BY <1>1, <1>7 DEF ByIdOk
  <2>2. QED
    BY <1>1, <2>1 DEF ByIdOk
<1>10. p.ordered \in Seq(T)
  <2>1. Len(p.ordered) \in Nat /\ p.ordered = [i \in 1 .. Len(p.ordered) |-> p.ordered[i]]
    BY <1>1, LenProperties
  <2>2. QED
    BY <1>7, <2>1
<1>11. ColumnsOk(p.heap, p.columns, T)
  <2>1. PICK cs : cs = p.columns
    OBVIOUS
  <2>2. Len(cs) \in 1 .. MaxColumns /\ Len(cs) \in Nat /\ cs = [c \in 1 .. Len(cs) |-> cs[c]]
    BY <1>1, <2>1, LenProperties DEF ColumnsOk
  <2>3. ASSUME NEW c \in 1 .. Len(cs) PROVE ColumnOk(p.heap, T, cs[c])
    <3>1. PICK m : m = cs[c]
      OBVIOUS
    <3>2. ColumnOk(p.heap, S, m)
      BY <1>1, <2>1, <3>1 DEF ColumnsOk
    <3>3. \A i \in 1 .. Len(m.rows) : m.rows[i] \in T \cup {Gap}
      BY <1>7, <2>1, <3>1
    <3>4. ColumnOk(p.heap, T, m)
      BY ONLY <3>2, <3>3, ColumnCarries
    <3>5. QED
      BY <3>1, <3>4
  <2>4. cs \in Seq(Columns(T))
    BY <2>2, <2>3 DEF ColumnOk
  <2>5. QED
    BY <2>1, <2>2, <2>3, <2>4 DEF ColumnsOk
<1>12. QED
  BY <1>6, <1>8, <1>9, <1>10, <1>11 DEF Sound, Good

-----------------------------------------------------------------------------
(* A widget is put into a column.                                          *)

(* The layout names a column that exists: its lists are as many as the columns. *)
LEMMA PositionIsThere ==
  ASSUME NEW p, NEW S, Good(p, S), NEW id
  PROVE  LET pos == PositionFromLayout(p, id)
         IN  pos[1] \in 1 .. Len(p.columns) /\ pos[2] \in Nat \cup {-1}
<1> DEFINE n == Len(p.columns)
           Rows(c) == {r \in 1 .. Len(p.layout[n][c]) : p.layout[n][c][r] = id}
           listing == {c \in 1 .. n : Rows(c) # {}}
<1>1. n \in Nat /\ 1 \in 1 .. n
  BY BoundsAssumption DEF Good, ColumnsOk
<1>2. CASE n \notin DOMAIN p.layout \/ listing = {}
  <2>1. PositionFromLayout(p, id) = <<1, -1>>
    BY ONLY <1>2 DEF PositionFromLayout
  <2>2. QED
    BY <1>1, <2>1
<1>3. CASE ~(n \notin DOMAIN p.layout \/ listing = {})
  <2>1. PositionFromLayout(p, id) = <<Min(listing), Min(Rows(Min(listing))) - 1>>
    BY ONLY <1>3 DEF PositionFromLayout
  <2>2. Min(listing) \in listing
    <3>1. listing \in SUBSET Nat /\ listing # {}
      BY <1>1, <1>3
    <3> HIDE DEF listing
    <3>2. QED
      BY <3>1, LeastProperties
  <2>3. PICK c \in 1 .. n : c = Min(listing) /\ Rows(c) # {}
    BY <2>2
  <2>4. Len(p.layout[n][c]) \in Nat
    <3>1. n \in DOMAIN p.layout /\ LayoutOk(p.layout)
      BY <1>3 DEF Good
    <3>2. p.layout[n][c] \in Seq(WidgetIds)
      BY <3>1 DEF LayoutOk
    <3>3. QED
      BY <3>2, LenProperties
  <2>5. Rows(c) \subseteq Nat \ {0}
    BY <2>4
  <2>6. Min(Rows(c)) \in Nat \ {0}
    <3>1. PICK R : R = Rows(c)
      OBVIOUS
    <3>2. R \in SUBSET Nat /\ R # {} /\ R \subseteq Nat \ {0}
      BY <2>3, <2>5, <3>1
    <3>3. Min(R) \in R
      BY <3>2, LeastProperties
    <3>4. QED
      BY <3>1, <3>2, <3>3
  <2>7. PositionFromLayout(p, id) = <<c, Min(Rows(c)) - 1>>
    BY <2>1, <2>3
  <2>8. QED
    BY <2>6, <2>7
<1>4. QED
  BY <1>2, <1>3

(* There is a row to put a widget into.                                    *)
LEMMA FirstFreeIsThere ==
  ASSUME NEW p, NEW m, Len(m.rows) \in Nat, NEW row \in Nat
  PROVE  FirstFree(p, m, row) \in Nat
<1> DEFINE I == {i \in row .. row + Len(m.rows) : WidgetAt(m, i) = Gap \/ ~p.heap[WidgetAt(m, i)].received}
<1>1. row + Len(m.rows) \in I
  BY DEF WidgetAt
<1>2. I \in SUBSET Nat /\ I # {}
  BY <1>1
<1>3. FirstFree(p, m, row) = Min(I)
  BY DEF FirstFree
<1> HIDE DEF I
<1>4. QED
  BY <1>2, <1>3, LeastProperties

(* The mark is set, nothing else.                                          *)
Marked(h, o) == [h EXCEPT ![o].received = TRUE]

(* The mark of a widget changes nothing else.                              *)
LEMMA MarkedProperties ==
  ASSUME NEW h, NEW S \in SUBSET Objects, HeapOk(h, S), NEW o \in S
  PROVE  HeapOk(Marked(h, o), S) /\ SameIds(h, Marked(h, o), S)
<1>1. h \in [Objects -> Widgets \cup {Null}] /\ \A x \in S : h[x] \in Widgets
  BY DEF HeapOk, Valid
<1>2. PICK w : w = [h[o] EXCEPT !.received = TRUE]
  OBVIOUS
<1>3. h[o] \in Widgets
  BY <1>1
<1>4. w \in Widgets /\ w.id = h[o].id
  BY <1>2, <1>3 DEF Widgets
<1>5. PICK g : g = [h EXCEPT ![o] = w]
  OBVIOUS
<1>6. Marked(h, o) = g
  BY <1>2, <1>5 DEF Marked
<1>7. g \in [Objects -> Widgets \cup {Null}] /\ \A x \in Objects : g[x] = IF x = o THEN w ELSE h[x]
  BY <1>1, <1>4, <1>5
<1>8. \A x \in S : g[x] \in Widgets /\ g[x].id = h[x].id
  BY <1>1, <1>4, <1>7
<1>9. QED
  BY <1>6, <1>7, <1>8 DEF HeapOk, Valid, SameIds

(* What a handler leaves that changes columns and marks only.              *)
Recolumned(p, h, cs, x) == MakeState(h, p.byId, p.ordered, cs, p.layout, p.allData, x)

(* A state with other columns and a heap with the same ids.                *)
LEMMA RecolumnedGood ==
  ASSUME NEW p, NEW S, Good(p, S), NEW h, HeapOk(h, S), SameIds(p.heap, h, S),
         NEW cs, ColumnsOk(h, cs, S), NEW x \in BOOLEAN
  PROVE  Good(Recolumned(p, h, cs, x), S) /\ Recolumned(p, h, cs, x).ordered = p.ordered
<1>1. ByIdOk(h, p.byId, S)
  BY ByIdCarries DEF Good
<1>2. p.ordered \in Seq(S) /\ LayoutOk(p.layout) /\ p.allData \in Values
  BY DEF Good
<1>3. QED
  BY <1>1, <1>2, GoodIntro, StateFields DEF Recolumned

(* Keep() with its local definitions as parameters.                        *)
KeepAs(p, c, o, row, h, moved) ==
  IF WidgetAt(moved, row) = Gap THEN [p EXCEPT !.heap = h, !.crashed = TRUE]
  ELSE [p EXCEPT !.heap = h,
          !.columns[c] = IF h[o].id \in IconActions \/ ~SameContent(h[o], h[WidgetAt(moved, row)])
                         THEN UpdateWidgetAt(h, moved, o, row) ELSE moved]

(* Keep(), with its abbreviations named.                                   *)
LEMMA KeepIs ==
  ASSUME NEW p, NEW c, NEW o, NEW current, NEW row
  PROVE  LET m == p.columns[c]
             h == Marked(p.heap, WidgetAt(m, current))
         IN  Keep(p, c, o, current, row) = KeepAs(p, c, o, row, h, MoveWidget(h, m, h[o].id, current, row))
BY DEF Keep, KeepAs, Marked

(* A widget that the column has from the last preview.                     *)
LEMMA KeepGood ==
  ASSUME NEW p, NEW S \in SUBSET Objects, Good(p, S), NEW c \in 1 .. Len(p.columns), NEW o \in S,
         p.heap[o].id \in DOMAIN p.columns[c].index, NEW row \in Nat
  PROVE  LET q == Keep(p, c, o, WidgetIndex(p.columns[c], p.heap[o].id), row)
         IN  Good(q, S) /\ q.ordered = p.ordered
<1>1. /\ p = MakeState(p.heap, p.byId, p.ordered, p.columns, p.layout, p.allData, p.crashed)
      /\ HeapOk(p.heap, S) /\ ColumnsOk(p.heap, p.columns, S) /\ p.crashed \in BOOLEAN
  BY DEF Good
<1>2. Gap \notin S
  BY ObjectsAreNumbers
<1>3. PICK m : m = p.columns[c]
  OBVIOUS
<1>4. ColumnOk(p.heap, S, m)
  BY <1>1, <1>3 DEF ColumnsOk
<1>5. PICK id : id = p.heap[o].id /\ id \in DOMAIN m.index
  BY <1>3
<1>6. PICK current : current = WidgetIndex(m, id)
  OBVIOUS
<1>7. PICK old \in S : old = WidgetAt(m, current)
  <2>1. /\ Indexed(p.heap, m.rows, m.index) /\ Len(m.rows) \in Nat
        /\ \A i \in 1 .. Len(m.rows) : m.rows[i] \in S \cup {Gap}
    BY <1>4, ColumnElim
  <2>2. PICK k : k = m.index[id] + 1
    OBVIOUS
  <2>3. k \in 1 .. Len(m.rows) /\ IsAt(p.heap, m.rows, k, id)
    <3>1. m.index[id] + 1 \in 1 .. Len(m.rows) /\ IsAt(p.heap, m.rows, m.index[id] + 1, id)
      BY <1>5, <2>1, IndexedAt
    <3>2. QED
      BY <2>2, <3>1
  <2>4. m.index[id] = k - 1
    BY <1>5, <2>1, <2>3 DEF Indexed, IsAt
  <2>5. WidgetAt(m, current) = m.rows[k] /\ m.rows[k] # Gap
    <3>1. current = k - 1
      BY <1>5, <1>6, <2>4 DEF WidgetIndex
    <3>2. current \in 0 .. Len(m.rows) - 1 /\ current + 1 = k
      BY <2>1, <2>3, <3>1
    <3>3. QED
      BY <2>3, <3>2 DEF WidgetAt, IsAt
  <2>6. QED
    BY <2>1, <2>3, <2>5
<1>8. PICK h : h = Marked(p.heap, old)
  OBVIOUS
<1>9. HeapOk(h, S) /\ SameIds(p.heap, h, S)
  BY <1>1, <1>8, MarkedProperties
<1>10. h[o].id = id
  BY <1>5, <1>9 DEF SameIds
<1>11. ColumnOk(h, S, m)
  <2>1. \A i \in 1 .. Len(m.rows) : m.rows[i] \in S \cup {Gap}
    BY <1>4, ColumnElim
  <2>2. \A i \in 1 .. Len(m.rows) : m.rows[i] # Gap => h[m.rows[i]].id = p.heap[m.rows[i]].id
    BY <1>9, <2>1 DEF SameIds
  <2>3. QED
    BY <1>4, <2>1, <2>2, ColumnCarries
<1>12. PICK moved : moved = MoveWidget(h, m, id, current, row)
  OBVIOUS
<1>13. ColumnOk(h, S, moved)
  <2>1. ColumnOk(h, S, MoveWidget(h, m, id, WidgetIndex(m, id), row))
    BY ONLY <1>5, <1>11, row \in Nat, MoveWidgetOk
  <2>2. QED
    BY <1>6, <1>12, <2>1
<1>14. PICK q : q = Keep(p, c, o, current, row)
  OBVIOUS
<1>15. ColumnsOk(h, p.columns, S)
  BY <1>1, <1>9, ColumnsCarry
<1>16. CASE WidgetAt(moved, row) = Gap
  <2>1. q = [p EXCEPT !.heap = h, !.crashed = TRUE]
    BY ONLY <1>3, <1>6, <1>7, <1>8, <1>10, <1>12, <1>14, <1>16 DEF Keep, Marked
  <2>2. PICK x \in BOOLEAN : x = TRUE
    OBVIOUS
  <2>3. q = Recolumned(p, h, p.columns, x)
    BY ONLY <1>1, <2>1, <2>2 DEF Recolumned, MakeState
  <2>5. Good(q, S) /\ q.ordered = p.ordered
    <3>1. Good(Recolumned(p, h, p.columns, x), S) /\ Recolumned(p, h, p.columns, x).ordered = p.ordered
      BY ONLY Good(p, S), <1>9, <1>15, x \in BOOLEAN, RecolumnedGood
    <3>2. QED
      BY ONLY <2>3, <3>1
  <2>4. QED
    BY <1>3, <1>5, <1>6, <1>14, <2>5
<1>17. CASE WidgetAt(moved, row) # Gap
  <2>1. PICK n : n = IF id \in IconActions \/ ~SameContent(h[o], h[WidgetAt(moved, row)])
                     THEN UpdateWidgetAt(h, moved, o, row) ELSE moved
    OBVIOUS
  <2>2. ColumnOk(h, S, n)
    BY <1>2, <1>13, <2>1, UpdateWidgetAtOk
  <2>3. q = [p EXCEPT !.heap = h, !.columns[c] = n]
    <3>1. q = [p EXCEPT !.heap = h, !.columns[c] = IF h[o].id \in IconActions \/ ~SameContent(h[o], h[WidgetAt(moved, row)])
                                                   THEN UpdateWidgetAt(h, moved, o, row) ELSE moved]
      <4>1. MoveWidget(h, m, h[o].id, current, row) = moved
        BY ONLY <1>10, <1>12
      <4>2. q = KeepAs(p, c, o, row, h, moved)
        BY ONLY <1>3, <1>7, <1>8, <1>14, <4>1, KeepIs
      <4>3. QED
        BY ONLY <1>17, <4>2 DEF KeepAs
    <3>2. n = IF h[o].id \in IconActions \/ ~SameContent(h[o], h[WidgetAt(moved, row)])
              THEN UpdateWidgetAt(h, moved, o, row) ELSE moved
      BY ONLY <1>10, <2>1
    <3>3. QED
      BY ONLY <3>1, <3>2
  <2>4. q = Recolumned(p, h, [p.columns EXCEPT ![c] = n], p.crashed)
    BY ONLY <1>1, <2>3 DEF Recolumned, MakeState
  <2>5. ColumnsOk(h, [p.columns EXCEPT ![c] = n], S)
    BY <1>15, <2>2, ColumnsReplaced
  <2>6. Good(q, S) /\ q.ordered = p.ordered
    BY <1>1, <1>9, <2>4, <2>5, RecolumnedGood
  <2>7. QED
    BY <1>3, <1>5, <1>6, <1>14, <2>6
<1>18. QED
  BY <1>16, <1>17

(* addWidgetToColumnModel(), for an object that is pointed to.             *)
LEMMA AddToColumnGood ==
  ASSUME NEW p, NEW S \in SUBSET Objects, Good(p, S), NEW o \in S
  PROVE  Good(AddWidgetToColumnModel(p, o), S) /\ AddWidgetToColumnModel(p, o).ordered = p.ordered
<1>1. /\ p = MakeState(p.heap, p.byId, p.ordered, p.columns, p.layout, p.allData, p.crashed)
      /\ HeapOk(p.heap, S) /\ ColumnsOk(p.heap, p.columns, S) /\ p.crashed \in BOOLEAN
  BY DEF Good
<1>2. Gap \notin S
  BY ObjectsAreNumbers
<1>3. PICK id : id = p.heap[o].id
  OBVIOUS
<1>4. PICK pos : pos = PositionFromLayout(p, id)
  OBVIOUS
<1>5. PICK c \in 1 .. Len(p.columns) : c = pos[1] /\ pos[2] \in Nat \cup {-1}
  BY <1>4, PositionIsThere
<1>6. PICK m : m = p.columns[c]
  OBVIOUS
<1>7. ColumnOk(p.heap, S, m) /\ Len(m.rows) \in Nat
  <2>1. ColumnOk(p.heap, S, m)
    BY <1>1, <1>6 DEF ColumnsOk
  <2>2. QED
    BY <2>1, ColumnElim
<1>8. PICK row \in Nat : row = IF pos[2] = -1 THEN FirstFree(p, m, 0) ELSE pos[2]
  BY <1>5, <1>7, FirstFreeIsThere
<1>9. PICK q : q = AddWidgetToColumnModel(p, o)
  OBVIOUS
<1>10. PICK stays \in BOOLEAN :
         stays = (p.crashed \/ (pos[2] = -1 /\ \E i \in 0 .. row - 1 : p.heap[WidgetAt(m, i)].id = id))
  OBVIOUS
<1>11. q = IF stays THEN p
           ELSE IF WidgetIndex(m, id) < 0
           THEN [p EXCEPT !.columns[c] = AddReplaceWidget(p.heap, m, o, FirstFree(p, m, row))]
           ELSE Keep(p, c, o, WidgetIndex(m, id), row)
  BY ONLY <1>3, <1>4, <1>5, <1>6, <1>8, <1>9, <1>10 DEF AddWidgetToColumnModel
<1>12. CASE stays
  BY <1>9, <1>11, <1>12
<1>13. CASE ~stays /\ id \notin DOMAIN m.index
  <2>1. WidgetIndex(m, id) = -1 /\ -1 < 0
    BY <1>13 DEF WidgetIndex
  <2>2. PICK k \in Nat : k = FirstFree(p, m, row)
    BY <1>7, FirstFreeIsThere
  <2>3. PICK n : n = AddReplaceWidget(p.heap, m, o, k)
    OBVIOUS
  <2>4. ColumnOk(p.heap, S, n)
    BY <1>1, <1>2, <1>3, <1>7, <1>13, <2>3, AddReplaceOk DEF HeapOk
  <2>5. q = [p EXCEPT !.columns[c] = n]
    BY ONLY <1>11, <1>13, <2>1, <2>2, <2>3
  <2>6. q = Recolumned(p, p.heap, [p.columns EXCEPT ![c] = n], p.crashed)
    BY ONLY <1>1, <2>5 DEF Recolumned, MakeState
  <2>7. ColumnsOk(p.heap, [p.columns EXCEPT ![c] = n], S)
    BY <1>1, <2>4, ColumnsReplaced
  <2>8. SameIds(p.heap, p.heap, S)
    BY DEF SameIds
  <2>9. QED
    BY <1>1, <1>9, <2>6, <2>7, <2>8, RecolumnedGood
<1>14. CASE ~stays /\ id \in DOMAIN m.index
  <2>1. ~(WidgetIndex(m, id) < 0)
    <3>1. m.index[id] \in Nat
      BY <1>7, <1>14, ColumnElim, IndicesProperties
    <3>2. QED
      BY <1>14, <3>1 DEF WidgetIndex
  <2>2. q = Keep(p, c, o, WidgetIndex(m, id), row)
    BY ONLY <1>11, <1>14, <2>1
  <2>3. LET r == Keep(p, c, o, WidgetIndex(p.columns[c], p.heap[o].id), row)
        IN  Good(r, S) /\ r.ordered = p.ordered
    BY <1>3, <1>6, <1>14, KeepGood
  <2>4. QED
    BY ONLY <1>3, <1>6, <1>9, <2>2, <2>3
<1>15. QED
  BY <1>12, <1>13, <1>14

-----------------------------------------------------------------------------
(* A new object.                                                           *)

Room(p, k) == Cardinality(Pointers(p)) + k <= MaxObjects
NewWidget(p, d) ==
  [id |-> d.id, version |-> d.version, mapped |-> d.mapped,
   value |-> IF d.mapped THEN p.allData ELSE 0, received |-> TRUE]

(* The objects pointed to are finitely many.                               *)
LEMMA SoundPointers ==
  ASSUME NEW p, Sound(p)
  PROVE  Pointers(p) \in SUBSET Objects /\ Cardinality(Pointers(p)) \in Nat /\ Gap \notin Pointers(p)
<1>1. Pointers(p) \in SUBSET Objects
  BY DEF Sound, Good, HeapOk, Valid
<1>2. QED
  BY <1>1, ObjectsAreNumbers, FS_Subset, FS_CardinalityType DEF Pointers

(* While there is room, a new object is none of those pointed to.          *)
LEMMA FreshIsNew ==
  ASSUME NEW p, Sound(p), Room(p, 1)
  PROVE  Fresh(p) \in Objects /\ Fresh(p) \notin Pointers(p)
<1>1. Pointers(p) \in SUBSET Objects /\ Cardinality(Pointers(p)) \in Nat
  BY SoundPointers
<1>2. PICK I : I = Objects \ Live(p)
  OBVIOUS
<1>3. I # {}
  <2>1. Pointers(p) # Objects
    <3>1. MaxObjects \in Nat
      BY BoundsAssumption
    <3>2. QED
      BY <1>1, <3>1, ObjectsAreNumbers DEF Room
  <2>2. QED
    BY <1>1, <1>2, <2>1, ObjectsAreNumbers DEF Pointers
<1>4. I \in SUBSET Nat
  BY <1>2, ObjectsAreNumbers
<1>5. Min(I) \in I /\ \A x \in I : Min(I) <= x
  BY <1>3, <1>4, LeastProperties
<1>6. Fresh(p) = CHOOSE o \in I : \A x \in I : o <= x
  BY <1>2 DEF Fresh
<1>7. Fresh(p) \in I
  BY <1>5, <1>6
<1>8. QED
  BY <1>2, <1>7 DEF Pointers

(* A new object leaves the others as they are.                             *)
LEMMA CreateProperties ==
  ASSUME NEW p, Sound(p), Room(p, 1), NEW d \in Definitions, NEW o, o = Fresh(p)
  PROVE  \E h : /\ Create(p, d) = MakeState(h, p.byId, p.ordered, p.columns, p.layout, p.allData, p.crashed)
                /\ HeapOk(h, Pointers(p) \cup {o}) /\ SameIds(p.heap, h, Pointers(p)) /\ h[o].id = d.id
                /\ o \in Objects /\ o \notin Pointers(p)
                /\ h[o] = NewWidget(p, d) /\ \A x \in Pointers(p) : h[x] = p.heap[x]
<1>1. o \in Objects /\ o \notin Pointers(p) /\ Pointers(p) \in SUBSET Objects
  BY FreshIsNew, SoundPointers
<1>2. /\ p = MakeState(p.heap, p.byId, p.ordered, p.columns, p.layout, p.allData, p.crashed)
      /\ HeapOk(p.heap, Pointers(p)) /\ p.allData \in Values
  BY DEF Sound, Good
<1>3. PICK w : w = NewWidget(p, d)
  OBVIOUS
<1>4. w \in Widgets /\ w.id = d.id
  <2>1. d.id \in WidgetIds /\ d.mapped \in BOOLEAN /\ d.version \in {e.version : e \in Definitions}
    BY WidgetsAssumption
  <2>2. (IF d.mapped THEN p.allData ELSE 0) \in Values
    BY <1>2 DEF Values
  <2>3. QED
    BY <1>3, <2>1, <2>2 DEF Widgets, NewWidget
<1>5. PICK h : h = [p.heap EXCEPT ![o] = w]
  OBVIOUS
<1>6. Create(p, d) = [p EXCEPT !.heap[o] = w]
  BY ONLY <1>3, o = Fresh(p) DEF Create, NewWidget
<1>7. Create(p, d) = MakeState(h, p.byId, p.ordered, p.columns, p.layout, p.allData, p.crashed)
  BY ONLY <1>2, <1>5, <1>6 DEF MakeState
<1>8. p.heap \in [Objects -> Widgets \cup {Null}] /\ \A x \in Pointers(p) : p.heap[x] \in Widgets
  BY <1>2 DEF HeapOk, Valid
<1>9. h \in [Objects -> Widgets \cup {Null}] /\ \A x \in Objects : h[x] = IF x = o THEN w ELSE p.heap[x]
  BY <1>1, <1>4, <1>5, <1>8
<1>10. HeapOk(h, Pointers(p) \cup {o})
  BY <1>1, <1>4, <1>8, <1>9 DEF HeapOk, Valid
<1>11. SameIds(p.heap, h, Pointers(p)) /\ h[o].id = d.id
  BY <1>1, <1>4, <1>9 DEF SameIds
<1>12. h[o] = NewWidget(p, d) /\ \A x \in Pointers(p) : h[x] = p.heap[x]
  BY <1>1, <1>3, <1>9
<1>13. QED
  BY <1>1, <1>7, <1>10, <1>11, <1>12

(* An object takes the place of another of its id in the lookup by id.     *)
LEMMA ByIdReplaced ==
  ASSUME NEW h, NEW b, NEW S, ByIdOk(h, b, S), NEW o \in S, NEW id \in WidgetIds, h[o].id = id
  PROVE  ByIdOk(h, [b EXCEPT ![id] = o], S)
<1>1. b \in [WidgetIds -> S \cup {Gap}] /\ \A w \in WidgetIds : b[w] # Gap => h[b[w]].id = w
  BY DEF ByIdOk
<1>2. PICK c : c = [b EXCEPT ![id] = o]
  OBVIOUS
<1>3. c \in [WidgetIds -> S \cup {Gap}] /\ \A w \in WidgetIds : c[w] = IF w = id THEN o ELSE b[w]
  BY <1>1, <1>2
<1>4. \A w \in WidgetIds : c[w] # Gap => h[c[w]].id = w
  BY <1>1, <1>3
<1>5. QED
  BY <1>2, <1>3, <1>4 DEF ByIdOk

(* A new object takes the room of one.                                     *)
LEMMA RoomShrinks ==
  ASSUME NEW p, Sound(p), NEW k \in Nat, Room(p, k + 1), NEW o \in Objects, o \notin Pointers(p),
         NEW q, Good(q, Pointers(p) \cup {o})
  PROVE  Sound(q) /\ Room(q, k)
<1>1. Pointers(p) \in SUBSET Objects /\ Cardinality(Pointers(p)) \in Nat /\ IsFiniteSet(Pointers(p))
  BY SoundPointers, ObjectsAreNumbers, FS_Subset
<1>2. PICK S \in SUBSET Objects : S = Pointers(p) \cup {o}
  BY <1>1
<1>3. IsFiniteSet(S) /\ Cardinality(S) = Cardinality(Pointers(p)) + 1
  BY <1>1, <1>2, FS_AddElement
<1>4. Sound(q) /\ Pointers(q) \subseteq S
  BY <1>2, SoundIntro
<1>5. Cardinality(Pointers(q)) <= Cardinality(S) /\ Cardinality(Pointers(q)) \in Nat
  BY <1>3, <1>4, FS_Subset, FS_CardinalityType
<1>6. MaxObjects \in Nat
  BY BoundsAssumption
<1>7. QED
  BY <1>1, <1>3, <1>4, <1>5, <1>6 DEF Room

(* The state in which a new widget, reached by its id, is put into a column. *)
Reached(p, r, d, o) ==
  /\ Good(r, Pointers(p) \cup {o}) /\ o \in Objects /\ o \notin Pointers(p)
  /\ r.heap[o] = NewWidget(p, d) /\ \A x \in Pointers(p) : r.heap[x] = p.heap[x]
  /\ r.byId = [p.byId EXCEPT ![d.id] = o] /\ r.columns = p.columns /\ r.layout = p.layout
  /\ r.allData = p.allData /\ r.crashed = p.crashed

(* addWidgetDefinitions() creates the widget, then puts it into a column.  *)
LEMMA AddDefinitionIs ==
  ASSUME NEW p, Sound(p), Room(p, 1), NEW d \in Definitions, NEW o, o = Fresh(p)
  PROVE  \E r : Reached(p, r, d, o) /\ AddDefinition(p, d) = AddWidgetToColumnModel(r, o)
<1>2. PICK h : /\ Create(p, d) = MakeState(h, p.byId, p.ordered, p.columns, p.layout, p.allData, p.crashed)
               /\ HeapOk(h, Pointers(p) \cup {o}) /\ SameIds(p.heap, h, Pointers(p)) /\ h[o].id = d.id
               /\ o \in Objects /\ o \notin Pointers(p)
               /\ h[o] = NewWidget(p, d) /\ \A x \in Pointers(p) : h[x] = p.heap[x]
  BY CreateProperties
<1>3. PICK S \in SUBSET Objects : S = Pointers(p) \cup {o}
  BY <1>2, SoundPointers
<1>4. o \in S /\ Pointers(p) \subseteq S /\ HeapOk(h, S) /\ d.id \in WidgetIds
  BY <1>2, <1>3, WidgetsAssumption
<1>5. /\ ByIdOk(p.heap, p.byId, Pointers(p)) /\ p.ordered \in Seq(Pointers(p))
      /\ ColumnsOk(p.heap, p.columns, Pointers(p)) /\ LayoutOk(p.layout) /\ p.allData \in Values
      /\ p.crashed \in BOOLEAN
  BY DEF Sound, Good
<1>6. ByIdOk(h, [p.byId EXCEPT ![d.id] = o], S)
  <2>1. ByIdOk(h, p.byId, S)
    BY <1>2, <1>4, <1>5, ByIdCarries
  <2>2. PICK id \in WidgetIds : id = d.id
    BY <1>4
  <2>3. ByIdOk(h, [p.byId EXCEPT ![id] = o], S)
    BY <1>2, <1>4, <2>1, <2>2, ByIdReplaced
  <2>4. QED
    BY <2>2, <2>3
<1>7. ColumnsOk(h, p.columns, S)
  BY <1>2, <1>4, <1>5, SoundPointers, ColumnsCarry
<1>8. PICK s : s = IF p.byId[d.id] = Gap THEN Append(p.ordered, o) ELSE p.ordered
  OBVIOUS
<1>9. s \in Seq(S)
  <2>1. p.ordered \in Seq(S)
    <3>1. Len(p.ordered) \in Nat /\ p.ordered \in [1 .. Len(p.ordered) -> Pointers(p)]
      BY <1>5, LenProperties
    <3>2. p.ordered \in [1 .. Len(p.ordered) -> S]
      BY <1>4, <3>1
    <3>3. QED
      BY <3>1, <3>2
  <2>2. Append(p.ordered, o) \in Seq(S)
    BY <1>4, <2>1
  <2>3. QED
    BY <1>8, <2>1, <2>2
<1>10. PICK r : r = [Create(p, d) EXCEPT !.byId[d.id] = o, !.ordered = s]
  OBVIOUS
<1>11. r = MakeState(h, [p.byId EXCEPT ![d.id] = o], s, p.columns, p.layout, p.allData, p.crashed)
  <2>1. PICK q : q = Create(p, d) /\ q = MakeState(h, p.byId, p.ordered, p.columns, p.layout, p.allData, p.crashed)
    BY <1>2
  <2>2. PICK id, b, b2, cs, l, a, x :
          /\ id = d.id /\ b = p.byId /\ cs = p.columns /\ l = p.layout /\ a = p.allData /\ x = p.crashed
          /\ b2 = [b EXCEPT ![id] = o]
    OBVIOUS
  <2>3. PICK s0 : s0 = p.ordered
    OBVIOUS
  <2>4. q = MakeState(h, b, s0, cs, l, a, x)
    BY ONLY <2>1, <2>2, <2>3
  <2>5. [q EXCEPT !.byId[id] = o, !.ordered = s] = MakeState(h, b2, s, cs, l, a, x)
    <3>1. q.byId = b
      BY ONLY <2>4 DEF MakeState
    <3>2. [q EXCEPT !.byId[id] = o, !.ordered = s] = [q EXCEPT !.byId = b2, !.ordered = s]
      BY ONLY <2>2, <3>1
    <3>3. PICK t : t = [q EXCEPT !.byId = b2, !.ordered = s]
      OBVIOUS
    <3>4. t = MakeState(h, b2, s, cs, l, a, x)
      BY ONLY <2>4, <3>3 DEF MakeState
    <3>5. QED
      BY ONLY <3>2, <3>3, <3>4
  <2>6. QED
    BY ONLY <1>10, <2>1, <2>2, <2>5
<1>12. Good(r, S)
  BY ONLY <1>4, <1>5, <1>6, <1>7, <1>9, <1>11, GoodIntro
<1>13. AddDefinition(p, d) = AddWidgetToColumnModel(r, o)
  BY ONLY o = Fresh(p), <1>8, <1>10 DEF AddDefinition
<1>14. r.heap = h /\ r.byId = [p.byId EXCEPT ![d.id] = o] /\ r.columns = p.columns /\ r.layout = p.layout
       /\ r.allData = p.allData /\ r.crashed = p.crashed
  BY ONLY <1>11, StateFields
<1>15. Reached(p, r, d, o)
  BY <1>2, <1>3, <1>12, <1>14 DEF Reached
<1>16. QED
  BY <1>13, <1>15

(* addWidgetDefinitions(), for one widget.                                 *)
LEMMA AddDefinitionSound ==
  ASSUME NEW p, Sound(p), NEW k \in Nat, Room(p, k + 1), NEW d \in Definitions
  PROVE  Sound(AddDefinition(p, d)) /\ Room(AddDefinition(p, d), k)
<1>1. Room(p, 1)
  <2>1. Cardinality(Pointers(p)) \in Nat /\ MaxObjects \in Nat
    BY SoundPointers, BoundsAssumption
  <2>2. QED
    BY <2>1 DEF Room
<1>2. PICK o : o = Fresh(p)
  OBVIOUS
<1>3. PICK r : Reached(p, r, d, o) /\ AddDefinition(p, d) = AddWidgetToColumnModel(r, o)
  BY <1>1, <1>2, AddDefinitionIs
<1>4. PICK S \in SUBSET Objects : S = Pointers(p) \cup {o} /\ o \in S /\ Good(r, S)
  BY <1>3, SoundPointers DEF Reached
<1>5. Good(AddDefinition(p, d), S)
  BY <1>3, <1>4, AddToColumnGood
<1>6. o \in Objects /\ o \notin Pointers(p)
  BY <1>3 DEF Reached
<1>7. QED
  BY <1>4, <1>5, <1>6, RoomShrinks

-----------------------------------------------------------------------------
(* Loops over widgets.                                                     *)

States ==
  [heap : [Objects -> Widgets \cup {Null}], byId : [WidgetIds -> Objects \cup {Gap}], ordered : Seq(Objects),
   columns : Seq(Columns(Objects)), layout : UNION {[D -> LayoutValues] : D \in SUBSET (1 .. MaxColumns)},
   allData : Values, crashed : BOOLEAN]

(* The states that loops run through are a set.                            *)
LEMMA GoodIsState ==
  ASSUME NEW p, NEW S \in SUBSET Objects, Good(p, S)
  PROVE  p \in States
<1>1. /\ p = MakeState(p.heap, p.byId, p.ordered, p.columns, p.layout, p.allData, p.crashed)
      /\ HeapOk(p.heap, S) /\ ByIdOk(p.heap, p.byId, S) /\ p.ordered \in Seq(S)
      /\ ColumnsOk(p.heap, p.columns, S) /\ LayoutOk(p.layout) /\ p.allData \in Values /\ p.crashed \in BOOLEAN
  BY DEF Good
<1>2. p.heap \in [Objects -> Widgets \cup {Null}]
  BY <1>1 DEF HeapOk
<1>3. p.byId \in [WidgetIds -> Objects \cup {Gap}]
  BY <1>1 DEF ByIdOk
<1>4. p.ordered \in Seq(Objects)
  <2>1. Len(p.ordered) \in Nat /\ p.ordered \in [1 .. Len(p.ordered) -> S]
    BY <1>1, LenProperties
  <2>2. p.ordered \in [1 .. Len(p.ordered) -> Objects]
    BY <2>1
  <2>3. QED
    BY <2>1, <2>2
<1>5. p.columns \in Seq(Columns(Objects))
  <2>1. SameIds(p.heap, p.heap, S)
    BY DEF SameIds
  <2>2. ColumnsOk(p.heap, p.columns, Objects)
    BY <1>1, <2>1, ColumnsCarry
  <2>3. QED
    BY <2>2 DEF ColumnsOk
<1>6. p.layout \in UNION {[D -> LayoutValues] : D \in SUBSET (1 .. MaxColumns)}
  BY <1>1 DEF LayoutOk
<1>7. PICK h, b, s, cs, l, a, x :
        /\ h = p.heap /\ b = p.byId /\ s = p.ordered /\ cs = p.columns /\ l = p.layout /\ a = p.allData
        /\ x = p.crashed
  OBVIOUS
<1>8. p = MakeState(h, b, s, cs, l, a, x)
  BY ONLY <1>1, <1>7
<1>9. /\ h \in [Objects -> Widgets \cup {Null}] /\ b \in [WidgetIds -> Objects \cup {Gap}] /\ s \in Seq(Objects)
      /\ cs \in Seq(Columns(Objects)) /\ l \in UNION {[D -> LayoutValues] : D \in SUBSET (1 .. MaxColumns)}
      /\ a \in Values /\ x \in BOOLEAN
  BY ONLY <1>1, <1>2, <1>3, <1>4, <1>5, <1>6, <1>7
<1>10. QED
  BY ONLY <1>8, <1>9 DEF MakeState, States

(* The widgets of a chunk.                                                 *)
AddTurn(p, defs, f, k) == IF k = 0 THEN p ELSE AddDefinition(f[k - 1], defs[k])

(* addWidgetDefinitions(), for all widgets of a chunk.                     *)
LEMMA AddDefinitionsSound ==
  ASSUME NEW p, Sound(p), NEW defs \in Seq(Definitions), Room(p, Len(defs))
  PROVE  Sound(AddDefinitions(p, defs))
<1> DEFINE n == Len(defs)
           Ok == [k \in 0 .. n |-> {v \in States : Sound(v) /\ Room(v, n - k)}]
           H == [k \in 0 .. n - 1 |-> [v \in States |-> AddDefinition(v, defs[k + 1])]]
<1>1. n \in Nat
  BY LenProperties
<1>2. Ok \in [0 .. n -> SUBSET States] /\ p \in Ok[0]
  <2>1. p \in States
    BY SoundPointers, GoodIsState DEF Sound
  <2>2. 0 \in 0 .. n
    BY <1>1
  <2>3. QED
    BY <1>1, <2>1, <2>2
<1>3. ASSUME NEW k \in 0 .. n - 1, NEW v \in Ok[k]
      PROVE  /\ H[k][v] = AddDefinition(v, defs[k + 1]) /\ AddDefinition(v, defs[k + 1]) \in Ok[k + 1]
  <2>1. k \in 0 .. n /\ k + 1 \in 0 .. n /\ k + 1 \in 1 .. n
    BY <1>1
  <2>2. v \in States /\ Sound(v) /\ Room(v, n - k)
    BY <2>1
  <2>3. PICK i \in Nat : i = n - (k + 1) /\ n - k = i + 1
    BY <1>1
  <2>4. PICK d \in Definitions : d = defs[k + 1]
    BY <2>1, LenProperties
  <2>5. Room(v, i + 1)
    BY <2>2, <2>3
  <2>6. Sound(AddDefinition(v, d)) /\ Room(AddDefinition(v, d), i)
    BY ONLY <2>2, <2>5, d \in Definitions, i \in Nat, AddDefinitionSound
  <2>7. AddDefinition(v, d) \in States
    BY <2>6, SoundPointers, GoodIsState DEF Sound
  <2>8. AddDefinition(v, d) \in {w \in States : Sound(w) /\ Room(w, n - (k + 1))}
    BY <2>3, <2>6, <2>7
  <2>9. QED
    BY <2>1, <2>2, <2>4, <2>8
<1>4. \E g : IsRun(n, Ok, p, H, g)
  <2>1. \A k \in 0 .. n - 1 : \A v \in Ok[k] : H[k][v] \in Ok[k + 1]
    BY <1>3
  <2> HIDE DEF n, Ok, H
  <2>2. IsLoop(States, n, Ok, p, H)
    BY <1>2, <2>1 DEF IsLoop
  <2>3. QED
    BY <1>1, <2>2, LoopExists
<1>5. PICK f : /\ f = [k \in 0 .. n |-> IF k = 0 THEN p ELSE H[k - 1][f[k - 1]]]
               /\ \A k \in 0 .. n : f[k] \in Ok[k]
  BY <1>4 DEF IsRun
<1>6. ASSUME NEW k \in 0 .. n
      PROVE  (IF k = 0 THEN p ELSE H[k - 1][f[k - 1]]) = AddTurn(p, defs, f, k)
  <2>1. CASE k = 0
    BY <2>1 DEF AddTurn
  <2>2. CASE k # 0
    <3>1. PICK j : j = k - 1
      OBVIOUS
    <3>2. j \in 0 .. n - 1 /\ j \in 0 .. n /\ j + 1 = k
      BY <1>1, <2>2, <3>1
    <3>3. f[j] \in Ok[j]
      BY <1>5, <3>2
    <3>4. H[j][f[j]] = AddDefinition(f[j], defs[k])
      BY ONLY <1>3, <3>2, <3>3
    <3>5. QED
      BY ONLY <2>2, <3>1, <3>4 DEF AddTurn
  <2>3. QED
    BY <2>1, <2>2
<1>7. \E g : g = [k \in 0 .. n |-> AddTurn(p, defs, g, k)]
  <2>1. f = [k \in 0 .. n |-> AddTurn(p, defs, f, k)]
    BY <1>5, <1>6
  <2>2. QED
    BY <2>1
<1>8. PICK g : g = [k \in 0 .. n |-> AddTurn(p, defs, g, k)] /\ AddDefinitions(p, defs) = g[n]
  BY <1>7 DEF AddDefinitions, AddTurn
<1>9. g[0] = p
  BY <1>1, <1>8 DEF AddTurn
<1>10. ASSUME NEW k \in 0 .. n - 1, g[k] \in Ok[k]
       PROVE  g[k + 1] \in Ok[k + 1]
  <2>1. PICK j : j = k + 1
    OBVIOUS
  <2>2. j \in 0 .. n /\ j # 0 /\ j - 1 = k
    BY <1>1, <2>1
  <2>3. g[j] = AddDefinition(g[k], defs[j])
    BY <1>8, <2>2 DEF AddTurn
  <2>4. QED
    BY ONLY <1>3, <1>10, <2>1, <2>3, k \in 0 .. n - 1
<1>11. \A k \in 0 .. n : g[k] \in Ok[k]
  <2>1. g[0] \in Ok[0]
    BY ONLY <1>2, <1>9
  <2> HIDE DEF n, Ok
  <2>2. QED
    BY ONLY <1>1, <1>10, <2>1, LoopInvariant
<1>12. g[n] \in Ok[n]
  BY <1>1, <1>11
<1>13. QED
  <2>1. n \in 0 .. n
    BY <1>1
  <2>2. QED
    BY <1>8, <1>12, <2>1

(* The columns filled from the list.                                       *)
FillTurn(p, f, k) == IF k = 0 THEN p ELSE AddWidgetToColumnModel(f[k - 1], p.ordered[k])

(* The loop of setWidgetColumnCount() over the widgets in their order.     *)
LEMMA AddAllGood ==
  ASSUME NEW p, NEW S \in SUBSET Objects, Good(p, S)
  PROVE  Good(AddAllToColumnModels(p), S)
<1> DEFINE n == Len(p.ordered)
           Ok == [k \in 0 .. n |-> {v \in States : Good(v, S)}]
           H == [k \in 0 .. n - 1 |-> [v \in States |-> AddWidgetToColumnModel(v, p.ordered[k + 1])]]
<1>1. n \in Nat
  BY LenProperties DEF Good
<1>2. Ok \in [0 .. n -> SUBSET States] /\ p \in Ok[0]
  <2>1. p \in States
    BY GoodIsState
  <2>2. 0 \in 0 .. n
    BY <1>1
  <2>3. QED
    BY <2>1, <2>2
<1>3. ASSUME NEW k \in 0 .. n - 1, NEW v \in Ok[k]
      PROVE  /\ H[k][v] = AddWidgetToColumnModel(v, p.ordered[k + 1]) /\ AddWidgetToColumnModel(v, p.ordered[k + 1]) \in Ok[k + 1]
  <2>1. k \in 0 .. n /\ k + 1 \in 0 .. n /\ k + 1 \in 1 .. n
    BY <1>1
  <2>2. v \in States /\ Good(v, S)
    BY <2>1
  <2>3. PICK o \in S : o = p.ordered[k + 1]
    <3>1. p.ordered \in Seq(S)
      BY DEF Good
    <3>2. QED
      BY <2>1, <3>1, LenProperties
  <2>4. Good(AddWidgetToColumnModel(v, o), S)
    BY <2>2, AddToColumnGood
  <2>5. AddWidgetToColumnModel(v, o) \in States
    BY <2>4, GoodIsState
  <2>6. QED
    BY <2>1, <2>2, <2>3, <2>4, <2>5
<1>4. \E g : IsRun(n, Ok, p, H, g)
  <2>1. \A k \in 0 .. n - 1 : \A v \in Ok[k] : H[k][v] \in Ok[k + 1]
    BY <1>3
  <2> HIDE DEF n, Ok, H
  <2>2. IsLoop(States, n, Ok, p, H)
    BY <1>2, <2>1 DEF IsLoop
  <2>3. QED
    BY <1>1, <2>2, LoopExists
<1>5. PICK f : /\ f = [k \in 0 .. n |-> IF k = 0 THEN p ELSE H[k - 1][f[k - 1]]]
               /\ \A k \in 0 .. n : f[k] \in Ok[k]
  BY <1>4 DEF IsRun
<1>6. ASSUME NEW k \in 0 .. n
      PROVE  (IF k = 0 THEN p ELSE H[k - 1][f[k - 1]]) = FillTurn(p, f, k)
  <2>1. CASE k = 0
    BY <2>1 DEF FillTurn
  <2>2. CASE k # 0
    <3>1. PICK j : j = k - 1
      OBVIOUS
    <3>2. j \in 0 .. n - 1 /\ j \in 0 .. n /\ j + 1 = k
      BY <1>1, <2>2, <3>1
    <3>3. f[j] \in Ok[j]
      BY <1>5, <3>2
    <3>4. H[j][f[j]] = AddWidgetToColumnModel(f[j], p.ordered[k])
      BY ONLY <1>3, <3>2, <3>3
    <3>5. QED
      BY ONLY <2>2, <3>1, <3>4 DEF FillTurn
  <2>3. QED
    BY <2>1, <2>2
<1>7. \E g : g = [k \in 0 .. n |-> FillTurn(p, g, k)]
  <2>1. f = [k \in 0 .. n |-> FillTurn(p, f, k)]
    BY <1>5, <1>6
  <2>2. QED
    BY <2>1
<1>8. PICK g : g = [k \in 0 .. n |-> FillTurn(p, g, k)] /\ AddAllToColumnModels(p) = g[n]
  BY <1>7 DEF AddAllToColumnModels, FillTurn
<1>9. g[0] = p
  BY <1>1, <1>8 DEF FillTurn
<1>10. ASSUME NEW k \in 0 .. n - 1, g[k] \in Ok[k]
       PROVE  g[k + 1] \in Ok[k + 1]
  <2>1. PICK j : j = k + 1
    OBVIOUS
  <2>2. j \in 0 .. n /\ j # 0 /\ j - 1 = k
    BY <1>1, <2>1
  <2>3. g[j] = AddWidgetToColumnModel(g[k], p.ordered[j])
    BY <1>8, <2>2 DEF FillTurn
  <2>4. QED
    BY ONLY <1>3, <1>10, <2>1, <2>3, k \in 0 .. n - 1
<1>11. \A k \in 0 .. n : g[k] \in Ok[k]
  <2>1. g[0] \in Ok[0]
    BY ONLY <1>2, <1>9
  <2> HIDE DEF n, Ok
  <2>2. QED
    BY ONLY <1>1, <1>10, <2>1, LoopInvariant
<1>12. g[n] \in Ok[n]
  BY <1>1, <1>11
<1>13. QED
  <2>1. n \in 0 .. n
    BY <1>1
  <2>2. QED
    BY <1>8, <1>12, <2>1

-----------------------------------------------------------------------------
(* The end of a preview.                                                   *)

(* The first element with a value is taken out of a list.                  *)
LEMMA RemoveFirstIsSeq ==
  ASSUME NEW S, NEW s \in Seq(S), NEW e
  PROVE  RemoveFirst(s, e) \in Seq(S)
<1>1. CASE \E i \in 1 .. Len(s) : s[i] = e
  <2>1. PICK I : I = {i \in 1 .. Len(s) : s[i] = e}
    OBVIOUS
  <2>2. I # {} /\ I \in SUBSET Nat
    BY <1>1, <2>1, LenProperties
  <2>3. Min(I) \in I
    BY <2>2, LeastProperties
  <2>4. PICK k \in 1 .. Len(s) : k = Min(I)
    BY <2>1, <2>3
  <2>5. RemoveFirst(s, e) = RemoveAt(s, k)
    BY ONLY <1>1, <2>1, <2>2, <2>4 DEF RemoveFirst, SelectInSeq
  <2>6. QED
    BY <2>5, RemoveAtProperties
<1>2. CASE ~\E i \in 1 .. Len(s) : s[i] = e
  BY <1>2 DEF RemoveFirst
<1>3. QED
  BY <1>1, <1>2

(* A widget that was not received goes from all three places.              *)
LEMMA DropWidgetGood ==
  ASSUME NEW p, NEW S, Good(p, S), NEW w \in WidgetIds
  PROVE  Good(DropWidget(p, w), S)
<1>1. /\ p = MakeState(p.heap, p.byId, p.ordered, p.columns, p.layout, p.allData, p.crashed)
      /\ HeapOk(p.heap, S) /\ ByIdOk(p.heap, p.byId, S) /\ p.ordered \in Seq(S)
      /\ ColumnsOk(p.heap, p.columns, S) /\ LayoutOk(p.layout) /\ p.allData \in Values /\ p.crashed \in BOOLEAN
  BY DEF Good
<1>2. PICK cs : cs = [c \in 1 .. Len(p.columns) |-> RemoveWidget(p.heap, p.columns[c], w)]
  OBVIOUS
<1>3. PICK s : s = RemoveFirst(p.ordered, p.byId[w])
  OBVIOUS
<1>4. PICK b : b = [p.byId EXCEPT ![w] = Gap]
  OBVIOUS
<1>5. PICK q : q = DropWidget(p, w)
  OBVIOUS
<1>6. q = MakeState(p.heap, b, s, cs, p.layout, p.allData, p.crashed)
  <2>1. q = [p EXCEPT !.columns = cs, !.ordered = s, !.byId = b]
    <3>1. q = [p EXCEPT !.columns = cs, !.ordered = s, !.byId[w] = Gap]
      BY ONLY <1>2, <1>3, <1>5 DEF DropWidget
    <3>2. QED
      BY ONLY <1>4, <3>1
  <2>2. PICK h0, b0, s0, cs0, l0, a0, x0 :
          /\ h0 = p.heap /\ b0 = p.byId /\ s0 = p.ordered /\ cs0 = p.columns /\ l0 = p.layout /\ a0 = p.allData
          /\ x0 = p.crashed
    OBVIOUS
  <2>3. p = MakeState(h0, b0, s0, cs0, l0, a0, x0)
    BY ONLY <1>1, <2>2
  <2>4. q = MakeState(h0, b, s, cs, l0, a0, x0)
    BY ONLY <2>1, <2>3 DEF MakeState
  <2>5. QED
    BY ONLY <2>2, <2>4
<1>7. s \in Seq(S)
  BY <1>1, <1>3, RemoveFirstIsSeq
<1>8. ByIdOk(p.heap, b, S)
  <2>1. p.byId \in [WidgetIds -> S \cup {Gap}] /\ \A x \in WidgetIds : p.byId[x] # Gap => p.heap[p.byId[x]].id = x
    BY <1>1 DEF ByIdOk
  <2>2. b \in [WidgetIds -> S \cup {Gap}] /\ \A x \in WidgetIds : b[x] = IF x = w THEN Gap ELSE p.byId[x]
    BY <1>4, <2>1
  <2>3. QED
    BY <2>1, <2>2 DEF ByIdOk
<1>9. ColumnsOk(p.heap, cs, S)
  <2>1. Len(p.columns) \in 1 .. MaxColumns /\ Len(p.columns) \in Nat
    BY <1>1 DEF ColumnsOk
  <2>2. ASSUME NEW c \in 1 .. Len(p.columns) PROVE cs[c] \in Columns(S) /\ ColumnOk(p.heap, S, cs[c])
    <3>1. ColumnOk(p.heap, S, p.columns[c])
      BY <1>1 DEF ColumnsOk
    <3>2. PICK m : m = p.columns[c]
      OBVIOUS
    <3>3. ColumnOk(p.heap, S, RemoveWidget(p.heap, m, w))
      BY <3>1, <3>2, RemoveWidgetOk
    <3>4. QED
      BY <1>2, <3>2, <3>3 DEF ColumnOk
  <2>3. cs \in Seq(Columns(S)) /\ Len(cs) = Len(p.columns)
    <3>1. PICK k \in Nat : k = Len(p.columns)
      BY <2>1
    <3>2. cs \in [1 .. k -> Columns(S)]
      <4>1. cs = [c \in 1 .. k |-> RemoveWidget(p.heap, p.columns[c], w)]
        BY ONLY <1>2, <3>1
      <4>2. \A c \in 1 .. k : cs[c] \in Columns(S)
        BY ONLY <2>2, <3>1
      <4>3. \A c \in 1 .. k : RemoveWidget(p.heap, p.columns[c], w) \in Columns(S)
        BY ONLY <4>1, <4>2
      <4>4. QED
        BY ONLY <4>1, <4>3
    <3>3. QED
      BY ONLY <3>1, <3>2
  <2>4. QED
    BY <2>1, <2>2, <2>3 DEF ColumnsOk
<1>10. QED
  BY ONLY <1>1, <1>5, <1>6, <1>7, <1>8, <1>9, GoodIntro

NotReceived(p) == {w \in WidgetIds : p.byId[w] # Gap /\ ~p.heap[p.byId[w]].received}

(* A finite set in some order.                                             *)
LEMMA SetToSeqIsSeq ==
  ASSUME NEW T, IsFiniteSet(T)
  PROVE  SetToSeq(T) \in Seq(T)
<1>1. Cardinality(T) \in Nat /\ ExistsBijection(1 .. Cardinality(T), T)
  BY FS_CardinalityType
<1>2. PICK f \in [1 .. Cardinality(T) -> T] : IsInjective(f)
  BY <1>1 DEF ExistsBijection, Bijection, Injection, IsInjective
<1>3. SetToSeq(T) \in [1 .. Cardinality(T) -> T]
  BY <1>2 DEF SetToSeq
<1>4. QED
  BY <1>1, <1>3

(* One after another they go.                                              *)
DropTurn(p, gone, f, k) == IF k = 0 THEN p ELSE DropWidget(f[k - 1], gone[k])

(* All widgets go that were not received, in whatever order.               *)
LEMMA RemoveNotReceivedGood ==
  ASSUME NEW p, NEW S \in SUBSET Objects, Good(p, S)
  PROVE  Good(RemoveNotReceived(p), S)
<1>0. PICK gone \in Seq(WidgetIds) : gone = SetToSeq(NotReceived(p))
  <2>1. PICK T : T = NotReceived(p) /\ T \in SUBSET WidgetIds
    BY DEF NotReceived
  <2>2. IsFiniteSet(T)
    BY <2>1, WidgetsAssumption, FS_Subset
  <2>3. SetToSeq(T) \in Seq(T)
    BY <2>2, SetToSeqIsSeq
  <2>4. SetToSeq(T) \in Seq(WidgetIds)
    <3>1. PICK s : s = SetToSeq(T)
      OBVIOUS
    <3>2. Len(s) \in Nat /\ s \in [1 .. Len(s) -> T]
      BY <2>3, <3>1, LenProperties
    <3>3. s \in [1 .. Len(s) -> WidgetIds]
      BY <2>1, <3>2
    <3>4. QED
      BY <3>1, <3>2, <3>3
  <2>5. QED
    BY <2>1, <2>4
<1> DEFINE n == Len(gone)
           Ok == [k \in 0 .. n |-> {v \in States : Good(v, S)}]
           H == [k \in 0 .. n - 1 |-> [v \in States |-> DropWidget(v, gone[k + 1])]]
<1>1. n \in Nat
  BY <1>0, LenProperties
<1>2. Ok \in [0 .. n -> SUBSET States] /\ p \in Ok[0]
  <2>1. p \in States
    BY GoodIsState
  <2>2. 0 \in 0 .. n
    BY <1>1
  <2>3. QED
    BY <2>1, <2>2
<1>3. ASSUME NEW k \in 0 .. n - 1, NEW v \in Ok[k]
      PROVE  /\ H[k][v] = DropWidget(v, gone[k + 1]) /\ DropWidget(v, gone[k + 1]) \in Ok[k + 1]
  <2>1. k \in 0 .. n /\ k + 1 \in 0 .. n /\ k + 1 \in 1 .. n
    BY <1>1
  <2>2. v \in States /\ Good(v, S)
    BY <2>1
  <2>3. PICK w \in WidgetIds : w = gone[k + 1]
    BY <1>0, <2>1, LenProperties
  <2>4. Good(DropWidget(v, w), S)
    BY <2>2, DropWidgetGood
  <2>5. DropWidget(v, w) \in States
    BY <2>4, GoodIsState
  <2>6. QED
    BY <2>1, <2>2, <2>3, <2>4, <2>5
<1>4. \E g : IsRun(n, Ok, p, H, g)
  <2>1. \A k \in 0 .. n - 1 : \A v \in Ok[k] : H[k][v] \in Ok[k + 1]
    BY <1>3
  <2> HIDE DEF n, Ok, H
  <2>2. IsLoop(States, n, Ok, p, H)
    BY <1>2, <2>1 DEF IsLoop
  <2>3. QED
    BY <1>1, <2>2, LoopExists
<1>5. PICK f : /\ f = [k \in 0 .. n |-> IF k = 0 THEN p ELSE H[k - 1][f[k - 1]]]
               /\ \A k \in 0 .. n : f[k] \in Ok[k]
  BY <1>4 DEF IsRun
<1>6. ASSUME NEW k \in 0 .. n
      PROVE  (IF k = 0 THEN p ELSE H[k - 1][f[k - 1]]) = DropTurn(p, gone, f, k)
  <2>1. CASE k = 0
    BY <2>1 DEF DropTurn
  <2>2. CASE k # 0
    <3>1. PICK j : j = k - 1
      OBVIOUS
    <3>2. j \in 0 .. n - 1 /\ j \in 0 .. n /\ j + 1 = k
      BY <1>1, <2>2, <3>1
    <3>3. f[j] \in Ok[j]
      BY <1>5, <3>2
    <3>4. H[j][f[j]] = DropWidget(f[j], gone[k])
      BY ONLY <1>3, <3>2, <3>3
    <3>5. QED
      BY ONLY <2>2, <3>1, <3>4 DEF DropTurn
  <2>3. QED
    BY <2>1, <2>2
<1>7. \E g : g = [k \in 0 .. n |-> DropTurn(p, gone, g, k)]
  <2>1. f = [k \in 0 .. n |-> DropTurn(p, gone, f, k)]
    BY <1>5, <1>6
  <2>2. QED
    BY <2>1
<1>8. PICK g : g = [k \in 0 .. n |-> DropTurn(p, gone, g, k)] /\ RemoveNotReceived(p) = g[n]
  BY <1>0, <1>7 DEF RemoveNotReceived, DropTurn, NotReceived
<1>9. g[0] = p
  BY <1>1, <1>8 DEF DropTurn
<1>10. ASSUME NEW k \in 0 .. n - 1, g[k] \in Ok[k]
       PROVE  g[k + 1] \in Ok[k + 1]
  <2>1. PICK j : j = k + 1
    OBVIOUS
  <2>2. j \in 0 .. n /\ j # 0 /\ j - 1 = k
    BY <1>1, <2>1
  <2>3. g[j] = DropWidget(g[k], gone[j])
    BY <1>8, <2>2 DEF DropTurn
  <2>4. QED
    BY ONLY <1>3, <1>10, <2>1, <2>3, k \in 0 .. n - 1
<1>11. \A k \in 0 .. n : g[k] \in Ok[k]
  <2>1. g[0] \in Ok[0]
    BY ONLY <1>2, <1>9
  <2> HIDE DEF n, Ok
  <2>2. QED
    BY ONLY <1>1, <1>10, <2>1, LoopInvariant
<1>12. g[n] \in Ok[n]
  BY <1>1, <1>11
<1>13. QED
  <2>1. n \in 0 .. n
    BY <1>1
  <2>2. QED
    BY <1>8, <1>12, <2>1

-----------------------------------------------------------------------------
(* A widget is updated in place.                                           *)

(* A widget is replaced in every column that has its id.                   *)
LEMMA UpdatedColumnsOk ==
  ASSUME NEW h, NEW cs, NEW S, ColumnsOk(h, cs, S), NEW o \in S, Gap \notin S
  PROVE  ColumnsOk(h, [c \in 1 .. Len(cs) |-> UpdateWidget(h, cs[c], o)], S)
<1>1. PICK k \in Nat : k = Len(cs)
  BY LenProperties DEF ColumnsOk
<1>2. PICK ds : ds = [c \in 1 .. k |-> UpdateWidget(h, cs[c], o)]
  OBVIOUS
<1>3. ASSUME NEW c \in 1 .. k PROVE ColumnOk(h, S, ds[c])
  <2>1. PICK m : m = cs[c]
    OBVIOUS
  <2>2. ColumnOk(h, S, m)
    BY <1>1, <2>1 DEF ColumnsOk
  <2>3. ColumnOk(h, S, UpdateWidget(h, m, o))
    BY <2>2, UpdateWidgetOk
  <2>4. ds[c] = UpdateWidget(h, m, o)
    BY <1>2, <2>1
  <2>5. QED
    BY ONLY <2>3, <2>4
<1>4. \A c \in 1 .. k : ds[c] \in Columns(S)
  BY <1>3 DEF ColumnOk
<1>5. ds \in [1 .. k -> Columns(S)]
  <2>1. \A c \in 1 .. k : UpdateWidget(h, cs[c], o) \in Columns(S)
    BY ONLY <1>2, <1>4
  <2>2. QED
    BY ONLY <1>2, <2>1
<1>6. ds \in Seq(Columns(S)) /\ Len(ds) = k
  BY ONLY <1>1, <1>5
<1>7. k \in 1 .. MaxColumns
  BY <1>1 DEF ColumnsOk
<1>8. ColumnsOk(h, ds, S)
  BY ONLY <1>3, <1>6, <1>7 DEF ColumnsOk
<1>9. QED
  BY ONLY <1>1, <1>2, <1>8

(* updateWidgetDefinitions() for one widget.                               *)
LEMMA UpdateDefinitionSound ==
  ASSUME NEW p, Sound(p), Room(p, 1), NEW d \in Definitions
  PROVE  \E S \in SUBSET Objects : Good(UpdateDefinition(p, d), S)
<1>1. CASE p.byId[d.id] = Gap
  <2>1. UpdateDefinition(p, d) = p
    BY <1>1 DEF UpdateDefinition
  <2>2. Good(p, Pointers(p)) /\ Pointers(p) \in SUBSET Objects
    BY SoundPointers DEF Sound
  <2>3. QED
    BY <2>1, <2>2
<1>2. CASE p.byId[d.id] # Gap
  <2>1. PICK o : o = Fresh(p)
    OBVIOUS
  <2>2. PICK h : /\ Create(p, d) = MakeState(h, p.byId, p.ordered, p.columns, p.layout, p.allData, p.crashed)
                 /\ HeapOk(h, Pointers(p) \cup {o}) /\ SameIds(p.heap, h, Pointers(p)) /\ h[o].id = d.id
                 /\ o \in Objects /\ o \notin Pointers(p)
    BY <2>1, CreateProperties
  <2>3. PICK S \in SUBSET Objects : S = Pointers(p) \cup {o}
    BY <2>2, SoundPointers
  <2>4. o \in S /\ Pointers(p) \subseteq S /\ HeapOk(h, S) /\ Gap \notin S
    BY <2>2, <2>3, ObjectsAreNumbers
  <2>5. /\ ByIdOk(p.heap, p.byId, Pointers(p)) /\ p.ordered \in Seq(Pointers(p))
        /\ ColumnsOk(p.heap, p.columns, Pointers(p)) /\ LayoutOk(p.layout) /\ p.allData \in Values
        /\ p.crashed \in BOOLEAN
    BY DEF Sound, Good
  <2>6. PICK id \in WidgetIds : id = d.id
    BY WidgetsAssumption
  <2>7. PICK b, s, cs, l, a, x :
          /\ b = p.byId /\ s = p.ordered /\ cs = p.columns /\ l = p.layout /\ a = p.allData /\ x = p.crashed
    OBVIOUS
  <2>8. PICK b2 : b2 = [b EXCEPT ![id] = o]
    OBVIOUS
  <2>9. ByIdOk(h, b2, S)
    <3>1. ByIdOk(h, b, S)
      BY <2>2, <2>4, <2>5, <2>7, ByIdCarries
    <3>2. h[o].id = id
      BY <2>2, <2>6
    <3>3. QED
      BY <2>4, <2>8, <3>1, <3>2, ByIdReplaced
  <2>10. s \in Seq(S)
    <3>1. Len(s) \in Nat /\ s \in [1 .. Len(s) -> Pointers(p)]
      BY <2>5, <2>7, LenProperties
    <3>2. s \in [1 .. Len(s) -> S]
      BY <2>4, <3>1
    <3>3. QED
      BY <3>1, <3>2
  <2>11. PICK ds : ds = [c \in 1 .. Len(cs) |-> UpdateWidget(h, cs[c], o)]
    OBVIOUS
  <2>12. ColumnsOk(h, ds, S)
    <3>1. ColumnsOk(p.heap, cs, Pointers(p)) /\ Pointers(p) \in SUBSET Objects
      BY <2>5, <2>7, SoundPointers
    <3>2. ColumnsOk(h, cs, S)
      BY <2>2, <2>4, <3>1, ColumnsCarry
    <3>3. QED
      BY <2>4, <2>11, <3>2, UpdatedColumnsOk
  <2>13. PICK q : q = Create(p, d)
    OBVIOUS
  <2>14. q = MakeState(h, b, s, cs, l, a, x)
    BY ONLY <2>2, <2>7, <2>13
  <2>15. UpdateDefinition(p, d) = MakeState(h, b2, s, ds, l, a, x)
    <3>1. q.byId = b /\ q.heap = h
      BY ONLY <2>14 DEF MakeState
    <3>2. UpdateDefinition(p, d) = [q EXCEPT !.byId[id] = o, !.columns = ds]
      BY ONLY <1>2, <2>1, <2>6, <2>7, <2>11, <2>13, <3>1 DEF UpdateDefinition
    <3>3. [q EXCEPT !.byId[id] = o, !.columns = ds] = [q EXCEPT !.byId = b2, !.columns = ds]
      BY ONLY <2>8, <3>1
    <3>4. PICK t : t = [q EXCEPT !.byId = b2, !.columns = ds]
      OBVIOUS
    <3>5. t = MakeState(h, b2, s, ds, l, a, x)
      BY ONLY <2>14, <3>4 DEF MakeState
    <3>6. QED
      BY ONLY <3>2, <3>3, <3>4, <3>5
  <2>16. Good(MakeState(h, b2, s, ds, l, a, x), S)
    BY ONLY <2>4, <2>5, <2>7, <2>9, <2>10, <2>12, GoodIntro
  <2>17. QED
    BY <2>15, <2>16
<1>3. QED
  BY <1>1, <1>2

-----------------------------------------------------------------------------
(* The data of the preview.                                                *)

(* updatePreviewData() changes values, and no id.                          *)
LEMMA UpdatePreviewDataGood ==
  ASSUME NEW p, NEW S \in SUBSET Objects, Good(p, S), NEW v \in Values
  PROVE  Good(UpdatePreviewData(p, v), S)
<1>1. /\ p = MakeState(p.heap, p.byId, p.ordered, p.columns, p.layout, p.allData, p.crashed)
      /\ HeapOk(p.heap, S) /\ ByIdOk(p.heap, p.byId, S) /\ p.ordered \in Seq(S)
      /\ ColumnsOk(p.heap, p.columns, S) /\ LayoutOk(p.layout) /\ p.allData \in Values /\ p.crashed \in BOOLEAN
  BY DEF Good
<1>2. PICK changed : changed = {p.byId[w] : w \in WidgetIds} \ {Gap}
  OBVIOUS
<1>3. changed \subseteq S
  BY <1>1, <1>2 DEF ByIdOk
<1>4. PICK g : g = [o \in Objects |-> IF o \in changed /\ p.heap[o].mapped
                                      THEN [p.heap[o] EXCEPT !.value = v] ELSE p.heap[o]]
  OBVIOUS
<1>5. p.heap \in [Objects -> Widgets \cup {Null}] /\ \A o \in S : p.heap[o] \in Widgets
  BY <1>1 DEF HeapOk, Valid
<1>6. ASSUME NEW w \in Widgets
      PROVE  [w EXCEPT !.value = v] \in Widgets /\ [w EXCEPT !.value = v].id = w.id
  BY DEF Widgets
<1>7. ASSUME NEW o \in S PROVE g[o] \in Widgets /\ g[o].id = p.heap[o].id
  <2>1. o \in Objects /\ p.heap[o] \in Widgets
    BY <1>5
  <2>2. g[o] = p.heap[o] \/ g[o] = [p.heap[o] EXCEPT !.value = v]
    BY <1>4, <2>1
  <2>3. QED
    BY <1>6, <2>1, <2>2
<1>8. ASSUME NEW o \in Objects PROVE g[o] \in Widgets \cup {Null}
  <2>1. CASE o \in S
    BY <1>7, <2>1
  <2>2. CASE o \notin S
    BY <1>3, <1>4, <1>5, <2>2
  <2>3. QED
    BY <2>1, <2>2
<1>9. HeapOk(g, S)
  BY <1>4, <1>7, <1>8 DEF HeapOk, Valid
<1>10. SameIds(p.heap, g, S)
  BY <1>7 DEF SameIds
<1>11. ByIdOk(g, p.byId, S) /\ ColumnsOk(g, p.columns, S)
  BY <1>1, <1>10, ByIdCarries, ColumnsCarry
<1>12. PICK b, s, cs, l, a, x, f :
         /\ b = p.byId /\ s = p.ordered /\ cs = p.columns /\ l = p.layout /\ a = p.allData /\ x = p.crashed
         /\ f = p.heap
  OBVIOUS
<1>13. PICK t : t = [p EXCEPT !.allData = v, !.heap = g]
  OBVIOUS
<1>14. UpdatePreviewData(p, v) = t
  BY ONLY <1>2, <1>4, <1>13 DEF UpdatePreviewData
<1>15. t = MakeState(g, b, s, cs, l, v, x)
  <2>1. p = MakeState(f, b, s, cs, l, a, x)
    BY ONLY <1>1, <1>12
  <2>2. QED
    BY ONLY <1>13, <2>1 DEF MakeState
<1>16. Good(MakeState(g, b, s, cs, l, v, x), S)
  BY ONLY <1>1, <1>9, <1>11, <1>12, v \in Values, GoodIntro
<1>17. QED
  BY <1>14, <1>15, <1>16

-----------------------------------------------------------------------------
(* The whole state.                                                        *)

Handed(p, g) ==
  g = [o \in Objects |-> IF o \in Live(p) THEN p.heap[o] ELSE Null]

(* What nobody points to can go.                                           *)
LEMMA FreedSound ==
  ASSUME NEW p, NEW S \in SUBSET Objects, Good(p, S), NEW g, Handed(p, g)
  PROVE  Sound(MakeState(g, p.byId, p.ordered, p.columns, p.layout, p.allData, p.crashed))
<1>1. Sound(p) /\ Pointers(p) \subseteq S
  BY SoundIntro
<1>2. PICK T \in SUBSET Objects : T = Pointers(p)
  BY <1>1
<1>3. /\ HeapOk(p.heap, T) /\ ByIdOk(p.heap, p.byId, T) /\ p.ordered \in Seq(T)
      /\ ColumnsOk(p.heap, p.columns, T) /\ LayoutOk(p.layout) /\ p.allData \in Values /\ p.crashed \in BOOLEAN
  BY <1>1, <1>2 DEF Sound, Good
<1>4. p.heap \in [Objects -> Widgets \cup {Null}] /\ \A o \in T : p.heap[o] \in Widgets
  BY <1>3 DEF HeapOk, Valid
<1>5. \A o \in T : g[o] = p.heap[o]
  BY <1>2 DEF Pointers, Handed
<1>6. HeapOk(g, T)
  <2>1. g \in [Objects -> Widgets \cup {Null}]
    BY <1>4 DEF Handed
  <2>2. QED
    BY <1>4, <1>5, <2>1 DEF HeapOk, Valid
<1>7. SameIds(p.heap, g, T)
  BY <1>5 DEF SameIds
<1>8. ByIdOk(g, p.byId, T) /\ ColumnsOk(g, p.columns, T)
  BY <1>3, <1>7, ByIdCarries, ColumnsCarry
<1>9. PICK b, s, cs, l, a, x :
        /\ b = p.byId /\ s = p.ordered /\ cs = p.columns /\ l = p.layout /\ a = p.allData /\ x = p.crashed
  OBVIOUS
<1>10. Good(MakeState(g, b, s, cs, l, a, x), T)
  BY ONLY <1>3, <1>6, <1>8, <1>9, GoodIntro
<1>11. QED
  BY <1>9, <1>10, SoundIntro

(* The state of the preview is one whose pointers all lead somewhere.      *)
StateSound == Sound(State)

(* What a handler leaves, once the objects that nobody points to are freed. *)
LEMMA SetStateSound ==
  ASSUME NEW p, NEW S \in SUBSET Objects, Good(p, S), SetState(p)
  PROVE  StateSound'
<1>1. Handed(p, heap')
  BY DEF SetState, Handed
<1>2. Sound(MakeState(heap', p.byId, p.ordered, p.columns, p.layout, p.allData, p.crashed))
  BY <1>1, FreedSound
<1>3. State' = MakeState(heap', p.byId, p.ordered, p.columns, p.layout, p.allData, p.crashed)
  BY DEF SetState, State, MakeState
<1>4. Sound(State')
  BY <1>2, <1>3
<1>5. QED
  BY <1>4 DEF StateSound, Sound, Pointers, Good, Live

(* The state of the module, put together.                                  *)
LEMMA StateIs ==
  State = MakeState(heap, byId, ordered, columns, layout, allData, crashed)
BY DEF State, MakeState

(* And taken apart.                                                        *)
LEMMA StateFieldsAre ==
  /\ State.heap = heap /\ State.byId = byId /\ State.ordered = ordered /\ State.columns = columns
  /\ State.layout = layout /\ State.allData = allData /\ State.crashed = crashed
BY DEF State

(* An empty column is in order.                                            *)
LEMMA EmptyColumnOk ==
  ASSUME NEW h, NEW S
  PROVE  ColumnOk(h, S, EmptyColumn)
<1>1. PICK x : x = <<>>
  OBVIOUS
<1>2. x \in [{} -> Nat] /\ DOMAIN x = {} /\ Len(x) = 0 /\ x \in Seq(S \cup {Gap})
  BY <1>1
<1>3. x \in Indices
  BY <1>2 DEF Indices
<1>4. Indexed(h, x, x)
  BY <1>2 DEF Indexed
<1>5. EmptyColumn = Column(x, x)
  BY <1>1 DEF EmptyColumn, Column
<1>6. QED
  BY <1>2, <1>3, <1>4, <1>5, ColumnIntro

(* So are as many as the shell asks for.                                   *)
LEMMA EmptyColumnsOk ==
  ASSUME NEW h, NEW S, NEW n \in 1 .. MaxColumns
  PROVE  ColumnsOk(h, [c \in 1 .. n |-> EmptyColumn], S)
<1>1. PICK cs : cs = [c \in 1 .. n |-> EmptyColumn]
  OBVIOUS
<1>2. \A c \in 1 .. n : cs[c] = EmptyColumn
  BY <1>1
<1>3. \A c \in 1 .. n : ColumnOk(h, S, cs[c])
  BY <1>2, EmptyColumnOk
<1>4. EmptyColumn \in Columns(S)
  BY EmptyColumnOk DEF ColumnOk
<1>5. n \in Nat
  BY BoundsAssumption
<1>6. cs \in Seq(Columns(S)) /\ Len(cs) = n
  BY ONLY <1>1, <1>4, <1>5
<1>7. ColumnsOk(h, cs, S)
  BY ONLY <1>3, <1>6, n \in 1 .. MaxColumns DEF ColumnsOk
<1>8. QED
  BY ONLY <1>1, <1>7

(* A later layout takes the place of an earlier one for as many columns.   *)
Overlaid(l, new) ==
  [n \in DOMAIN l \cup DOMAIN new |-> IF n \in DOMAIN new THEN new[n] ELSE l[n]]

(* A registered layout has one list for each column.                       *)
LEMMA LayoutsAreOk ==
  ASSUME NEW new \in Layouts
  PROVE  /\ DOMAIN new \subseteq 1 .. MaxColumns
         /\ \A n \in DOMAIN new : /\ new[n] \in LayoutValues /\ Len(new[n]) = n
                                  /\ \A c \in 1 .. n : new[n][c] \in Seq(WidgetIds)
BY LayoutsAssumption DEF LayoutValues

(* And so it is when some come later.                                      *)
LEMMA OverlaidOk ==
  ASSUME NEW l, LayoutOk(l), NEW new \in Layouts
  PROVE  LayoutOk(Overlaid(l, new))
<1>1. PICK D \in SUBSET (1 .. MaxColumns) : l \in [D -> LayoutValues]
  BY DEF LayoutOk
<1>2. \A n \in D : Len(l[n]) = n /\ \A c \in 1 .. n : l[n][c] \in Seq(WidgetIds)
  BY <1>1 DEF LayoutOk
<1>3. PICK E \in SUBSET (1 .. MaxColumns) : E = DOMAIN new
  BY LayoutsAreOk
<1>4. PICK m : m = Overlaid(l, new)
  OBVIOUS
<1>5. /\ m = [n \in D \cup E |-> IF n \in E THEN new[n] ELSE l[n]]
      /\ DOMAIN m = D \cup E /\ \A n \in D \cup E : m[n] = IF n \in E THEN new[n] ELSE l[n]
  BY <1>1, <1>3, <1>4 DEF Overlaid
<1>6. \A n \in E : /\ new[n] \in LayoutValues /\ Len(new[n]) = n
                   /\ \A c \in 1 .. n : new[n][c] \in Seq(WidgetIds)
  BY <1>3, LayoutsAreOk
<1>7. m \in [D \cup E -> LayoutValues]
  BY ONLY <1>1, <1>5, <1>6
<1>8. \A n \in D \cup E : Len(m[n]) = n /\ \A c \in 1 .. n : m[n][c] \in Seq(WidgetIds)
  BY ONLY <1>2, <1>5, <1>6
<1>9. D \cup E \in SUBSET (1 .. MaxColumns)
  OBVIOUS
<1>10. LayoutOk(m)
  BY ONLY <1>5, <1>7, <1>8, <1>9 DEF LayoutOk
<1>11. QED
  BY <1>4, <1>10

(* The model when it is created.                                           *)
LEMMA InitSound ==
  Init => StateSound
<1> SUFFICES ASSUME Init PROVE StateSound
  OBVIOUS
<1>1. /\ heap = [o \in Objects |-> Null] /\ byId = [w \in WidgetIds |-> Gap]
      /\ ordered = <<>> /\ columns = <<EmptyColumn>> /\ layout = <<>>
      /\ allData = 0 /\ crashed = FALSE
  BY DEF Init
<1>2. PICK S \in SUBSET Objects : S = {}
  OBVIOUS
<1>3. HeapOk(heap, S) /\ ByIdOk(heap, byId, S) /\ ordered \in Seq(S)
  BY <1>1, <1>2 DEF HeapOk, Valid, ByIdOk
<1>4. ColumnsOk(heap, columns, S)
  <2>1. 1 \in 1 .. MaxColumns
    BY BoundsAssumption
  <2>2. columns = [c \in 1 .. 1 |-> EmptyColumn]
    BY <1>1
  <2>3. PICK n \in 1 .. MaxColumns : n = 1
    BY <2>1
  <2>4. columns = [c \in 1 .. n |-> EmptyColumn]
    BY ONLY <2>2, <2>3
  <2>5. QED
    BY <2>4, EmptyColumnsOk
<1>5. LayoutOk(layout)
  <2>1. {} \in SUBSET (1 .. MaxColumns) /\ layout \in [{} -> LayoutValues] /\ DOMAIN layout = {}
    BY <1>1
  <2>2. QED
    BY <2>1 DEF LayoutOk
<1>6. allData \in Values /\ crashed \in BOOLEAN
  BY <1>1 DEF Values
<1>7. Good(State, S)
  <2>1. Good(MakeState(heap, byId, ordered, columns, layout, allData, crashed), S)
    BY <1>3, <1>4, <1>5, <1>6, GoodIntro
  <2>2. QED
    BY <2>1, StateIs
<1>8. QED
  BY <1>7, SoundIntro DEF StateSound

-----------------------------------------------------------------------------
(* Every handler keeps it.                                                 *)

PreviewInv == StateSound /\ loaded \in BOOLEAN /\ DOMAIN arrived \subseteq WidgetIds

(* What is known of the variables.                                         *)
LEMMA SoundStateElim ==
  ASSUME StateSound
  PROVE  /\ HeapOk(heap, Pointers(State)) /\ ByIdOk(heap, byId, Pointers(State)) /\ ordered \in Seq(Pointers(State))
         /\ ColumnsOk(heap, columns, Pointers(State)) /\ LayoutOk(layout) /\ allData \in Values /\ crashed \in BOOLEAN
         /\ Pointers(State) \in SUBSET Objects
<1>1. Good(State, Pointers(State)) /\ Sound(State)
  BY DEF StateSound, Sound
<1>2. PICK p : p = State
  OBVIOUS
<1>3. /\ HeapOk(p.heap, Pointers(p)) /\ ByIdOk(p.heap, p.byId, Pointers(p)) /\ p.ordered \in Seq(Pointers(p))
      /\ ColumnsOk(p.heap, p.columns, Pointers(p)) /\ LayoutOk(p.layout) /\ p.allData \in Values
      /\ p.crashed \in BOOLEAN
  BY ONLY <1>1, <1>2 DEF Good
<1>4. QED
  BY ONLY <1>1, <1>2, <1>3, StateFieldsAre, SoundPointers

(* dispatchPreview() takes the marks away.                                 *)
LEMMA DispatchKeeps ==
  ASSUME StateSound, DispatchPreview
  PROVE  StateSound'
<1>1. PICK S \in SUBSET Objects : S = Pointers(State)
  BY SoundStateElim
<1>2. /\ HeapOk(heap, S) /\ ByIdOk(heap, byId, S) /\ ordered \in Seq(S)
      /\ ColumnsOk(heap, columns, S) /\ LayoutOk(layout) /\ allData \in Values /\ crashed \in BOOLEAN
  BY <1>1, SoundStateElim
<1>3. PICK g : g = [o \in Objects |-> IF \E w \in WidgetIds : byId[w] = o
                                      THEN [heap[o] EXCEPT !.received = FALSE] ELSE heap[o]]
  OBVIOUS
<1>4. heap' = g /\ UNCHANGED <<byId, ordered, columns, layout, allData, crashed>>
  BY <1>3 DEF DispatchPreview
<1>5. heap \in [Objects -> Widgets \cup {Null}] /\ \A o \in S : heap[o] \in Widgets
  BY <1>2 DEF HeapOk, Valid
<1>6. ASSUME NEW w \in Widgets
      PROVE  [w EXCEPT !.received = FALSE] \in Widgets /\ [w EXCEPT !.received = FALSE].id = w.id
  BY DEF Widgets
<1>7. ASSUME NEW o \in S PROVE g[o] \in Widgets /\ g[o].id = heap[o].id
  <2>1. o \in Objects /\ heap[o] \in Widgets
    BY <1>5
  <2>2. g[o] = heap[o] \/ g[o] = [heap[o] EXCEPT !.received = FALSE]
    BY <1>3, <2>1
  <2>3. QED
    BY <1>6, <2>1, <2>2
<1>8. ASSUME NEW o \in Objects PROVE g[o] \in Widgets \cup {Null}
  <2>1. CASE o \in S
    BY <1>7, <2>1
  <2>2. CASE o \notin S
    <3>1. ~\E w \in WidgetIds : byId[w] = o
      BY <1>2, <2>2, ObjectsAreNumbers DEF ByIdOk
    <3>2. QED
      BY <1>3, <1>5, <3>1
  <2>3. QED
    BY <2>1, <2>2
<1>9. HeapOk(g, S)
  BY <1>3, <1>7, <1>8 DEF HeapOk, Valid
<1>10. SameIds(heap, g, S)
  BY <1>7 DEF SameIds
<1>11. ByIdOk(g, byId, S) /\ ColumnsOk(g, columns, S)
  BY <1>2, <1>10, ByIdCarries, ColumnsCarry
<1>12. Good(MakeState(g, byId, ordered, columns, layout, allData, crashed), S)
  BY ONLY <1>2, <1>9, <1>11, GoodIntro
<1>13. State' = MakeState(g, byId, ordered, columns, layout, allData, crashed)
  BY ONLY <1>4 DEF State, MakeState
<1>14. Sound(State')
  BY <1>12, <1>13, SoundIntro
<1>15. QED
  BY <1>14 DEF StateSound, Sound, Pointers, Good, Live

(* setWidgetColumnCount() builds the columns again.                        *)
LEMMA ColumnCountKeeps ==
  ASSUME StateSound, NEW n \in 1 .. MaxColumns, SetWidgetColumnCount(n)
  PROVE  StateSound'
<1>1. PICK S \in SUBSET Objects : S = Pointers(State)
  BY SoundStateElim
<1>2. /\ HeapOk(heap, S) /\ ByIdOk(heap, byId, S) /\ ordered \in Seq(S)
      /\ LayoutOk(layout) /\ allData \in Values /\ crashed \in BOOLEAN
  BY <1>1, SoundStateElim
<1>3. PICK cs : cs = [c \in 1 .. n |-> EmptyColumn]
  OBVIOUS
<1>4. ColumnsOk(heap, cs, S)
  BY <1>3, EmptyColumnsOk
<1>5. PICK p : p = [State EXCEPT !.columns = cs]
  OBVIOUS
<1>6. p = MakeState(heap, byId, ordered, cs, layout, allData, crashed)
  BY ONLY <1>5, StateIs DEF MakeState
<1>7. Good(p, S)
  BY ONLY <1>2, <1>4, <1>6, GoodIntro
<1>8. Good(AddAllToColumnModels(p), S)
  BY <1>7, AddAllGood
<1>9. SetState(AddAllToColumnModels(p))
  BY <1>3, <1>5 DEF SetWidgetColumnCount
<1>10. QED
  BY <1>8, <1>9, SetStateSound

(* The bound of the model is the room that the new objects need.           *)
LEMMA HasRoomIsRoom ==
  ASSUME NEW k, HasRoom(k)
  PROVE  Room(State, k)
BY DEF HasRoom, Room, Pointers

(* update() replaces widgets where they are.                               *)
LEMMA UpdateKeeps ==
  ASSUME StateSound, NEW d \in Definitions, Update(d)
  PROVE  StateSound'
<1>1. Sound(State)
  BY DEF StateSound
<1>2. HasRoom(1)
  BY DEF Update
<1>3. Room(State, 1)
  BY <1>2, HasRoomIsRoom
<1>4. PICK S \in SUBSET Objects : Good(UpdateDefinition(State, d), S)
  BY <1>1, <1>3, UpdateDefinitionSound
<1>5. SetState(UpdateDefinition(State, d))
  BY DEF Update
<1>6. QED
  BY <1>4, <1>5, SetStateSound

(* What a chunk makes of the state.                                        *)
ChunkLayout(new) == IF new = Null THEN layout ELSE Overlaid(layout, new)
WithLayout(new) == [State EXCEPT !.layout = ChunkLayout(new)]
WithData(p, v) == IF v = Null THEN p ELSE UpdatePreviewData(p, v)
Completed(p, finished) == IF finished THEN RemoveNotReceived(p) ELSE p

(* A layout changes nothing that points to widgets.                        *)
LEMMA WithLayoutSound ==
  ASSUME StateSound, NEW new \in Layouts \cup {Null}
  PROVE  Sound(WithLayout(new)) /\ Pointers(WithLayout(new)) = Pointers(State)
<1>1. PICK S \in SUBSET Objects : S = Pointers(State)
  BY SoundStateElim
<1>2. /\ HeapOk(heap, S) /\ ByIdOk(heap, byId, S) /\ ordered \in Seq(S)
      /\ ColumnsOk(heap, columns, S) /\ LayoutOk(layout) /\ allData \in Values /\ crashed \in BOOLEAN
  BY <1>1, SoundStateElim
<1>3. PICK l : l = ChunkLayout(new)
  OBVIOUS
<1>4. LayoutOk(l)
  <2>1. CASE new = Null
    BY <1>2, <1>3, <2>1 DEF ChunkLayout
  <2>2. CASE new # Null
    BY <1>2, <1>3, <2>2, OverlaidOk DEF ChunkLayout
  <2>3. QED
    BY <2>1, <2>2
<1>5. PICK p : p = WithLayout(new)
  OBVIOUS
<1>6. p = MakeState(heap, byId, ordered, columns, l, allData, crashed)
  <2>1. p = [State EXCEPT !.layout = l]
    BY ONLY <1>3, <1>5 DEF WithLayout
  <2>2. QED
    BY ONLY <2>1, StateIs DEF MakeState
<1>7. Good(p, S)
  BY ONLY <1>2, <1>4, <1>6, GoodIntro
<1>8. p.byId = State.byId /\ p.ordered = State.ordered /\ p.columns = State.columns
  BY ONLY <1>6, StateIs DEF MakeState
<1>9. Pointers(p) = Pointers(State)
  BY ONLY <1>8 DEF Pointers, Live
<1>10. QED
  BY <1>5, <1>7, <1>9, SoundIntro

(* The widgets of a chunk, then its data, then the end of the preview.     *)
LEMMA ChunkGood ==
  ASSUME NEW p, Sound(p), NEW defs \in Seq(Definitions), Room(p, Len(defs)), NEW v, v = Null \/ v \in Values,
         NEW finished
  PROVE  \E S \in SUBSET Objects : Good(Completed(WithData(AddDefinitions(p, defs), v), finished), S)
<1>1. PICK q : q = AddDefinitions(p, defs) /\ Sound(q)
  BY AddDefinitionsSound
<1>2. PICK S \in SUBSET Objects : S = Pointers(q) /\ Good(q, S)
  BY <1>1, SoundPointers DEF Sound
<1>3. PICK r : r = WithData(q, v)
  OBVIOUS
<1>4. Good(r, S)
  <2>1. CASE v = Null
    BY <1>2, <1>3, <2>1 DEF WithData
  <2>2. CASE v # Null
    <3>1. v \in Values
      BY <2>2
    <3>2. Good(UpdatePreviewData(q, v), S)
      BY <1>2, <3>1, UpdatePreviewDataGood
    <3>3. QED
      BY <1>3, <2>2, <3>2 DEF WithData
  <2>3. QED
    BY <2>1, <2>2
<1>5. Good(RemoveNotReceived(r), S)
  BY <1>4, RemoveNotReceivedGood
<1>6. Good(Completed(r, finished), S)
  BY <1>4, <1>5 DEF Completed
<1>7. QED
  BY <1>1, <1>3, <1>6

(* The widgets of a chunk are widgets that a scope may push.               *)
LEMMA ListsAreSequences ==
  ASSUME NEW defs \in DefinitionLists
  PROVE  defs \in Seq(Definitions) /\ Len(defs) \in Nat /\ \A i \in 1 .. Len(defs) : defs[i].id \in WidgetIds
<1>1. defs \in Seq(Definitions)
  <2>1. CASE defs = <<>>
    BY <2>1
  <2>2. ASSUME NEW d \in Definitions, defs = <<d>> PROVE defs \in Seq(Definitions)
    BY <2>2
  <2>3. ASSUME NEW d \in Definitions, NEW e \in Definitions, defs = <<d, e>> PROVE defs \in Seq(Definitions)
    BY <2>3
  <2>4. QED
    BY <2>1, <2>2, <2>3 DEF DefinitionLists
<1>2. Len(defs) \in Nat /\ \A i \in 1 .. Len(defs) : defs[i] \in Definitions
  BY <1>1, LenProperties
<1>3. QED
  BY <1>1, <1>2, WidgetsAssumption

(* processPreviewChunk() does that.                                        *)
LEMMA ChunkIs ==
  ASSUME NEW new, NEW defs, NEW v, NEW finished, ProcessPreviewChunk(new, defs, v, finished)
  PROVE  SetState(Completed(WithData(AddDefinitions(WithLayout(new), defs), v), finished))
BY DEF ProcessPreviewChunk, Completed, WithData, WithLayout, ChunkLayout, Overlaid

(* And so it keeps the state sound.                                        *)
LEMMA ChunkKeeps ==
  ASSUME StateSound, NEW new \in Layouts \cup {Null}, NEW defs \in DefinitionLists, NEW v \in {Null, 1},
         NEW finished \in BOOLEAN, ProcessPreviewChunk(new, defs, v, finished)
  PROVE  StateSound'
<1>1. PICK p : p = WithLayout(new)
  OBVIOUS
<1>2. HasRoom(Len(defs))
  BY DEF ProcessPreviewChunk
<1>3. PICK k : k = Len(defs)
  OBVIOUS
<1>4. Room(State, k)
  BY ONLY <1>2, <1>3, HasRoomIsRoom
<1>5. Sound(p) /\ Room(p, Len(defs))
  BY <1>1, <1>3, <1>4, WithLayoutSound DEF Room
<1>6. defs \in Seq(Definitions)
  BY ListsAreSequences
<1>7. v = Null \/ v \in Values
  BY DEF Values
<1>8. PICK S \in SUBSET Objects : Good(Completed(WithData(AddDefinitions(p, defs), v), finished), S)
  BY ONLY <1>5, <1>6, <1>7, ChunkGood
<1>9. SetState(Completed(WithData(AddDefinitions(p, defs), v), finished))
  BY ONLY <1>1, ProcessPreviewChunk(new, defs, v, finished), ChunkIs
<1>10. QED
  BY ONLY <1>8, <1>9, SetStateSound

(* It holds at first, and each step keeps it.                              *)
LEMMA PreviewInvHolds ==
  /\ Init => PreviewInv
  /\ PreviewInv /\ [Next]_vars => PreviewInv'
<1>1. Init => PreviewInv
  <2>1. ASSUME Init PROVE loaded \in BOOLEAN /\ DOMAIN arrived \subseteq WidgetIds
    <3>1. loaded = FALSE /\ arrived = <<>>
      BY <2>1 DEF Init
    <3>2. DOMAIN arrived = {}
      BY <3>1
    <3>3. QED
      BY <3>1, <3>2
  <2>2. QED
    BY <2>1, InitSound DEF PreviewInv
<1>2. ASSUME PreviewInv, [Next]_vars PROVE PreviewInv'
  <2>0. StateSound /\ loaded \in BOOLEAN /\ DOMAIN arrived \subseteq WidgetIds
    BY <1>2 DEF PreviewInv
  <2>1. CASE DispatchPreview
    <3>1. loaded' = FALSE /\ arrived' = <<>>
      BY <2>1 DEF DispatchPreview
    <3>2. DOMAIN arrived' = {}
      BY <3>1
    <3>3. StateSound'
      BY <2>0, <2>1, DispatchKeeps
    <3>4. QED
      BY <3>1, <3>2, <3>3 DEF PreviewInv
  <2>2. ASSUME NEW new \in Layouts \cup {Null}, NEW defs \in DefinitionLists, NEW v \in {Null, 1},
               NEW finished \in BOOLEAN, ProcessPreviewChunk(new, defs, v, finished)
        PROVE  PreviewInv'
    <3>1. StateSound'
      BY <2>0, <2>2, ChunkKeeps
    <3>2. loaded' \in BOOLEAN
      BY <2>2 DEF ProcessPreviewChunk
    <3>3. DOMAIN arrived' = DOMAIN arrived \cup {defs[i].id : i \in 1 .. Len(defs)}
      BY <2>2 DEF ProcessPreviewChunk
    <3>4. DOMAIN arrived' \subseteq WidgetIds
      BY <2>0, <3>3, ListsAreSequences
    <3>5. QED
      BY <3>1, <3>2, <3>4 DEF PreviewInv
  <2>3. ASSUME NEW n \in 1 .. MaxColumns, SetWidgetColumnCount(n) PROVE PreviewInv'
    <3>1. UNCHANGED <<loaded, arrived>>
      BY <2>3 DEF SetWidgetColumnCount
    <3>2. QED
      BY <2>0, <2>3, <3>1, ColumnCountKeeps DEF PreviewInv
  <2>4. ASSUME NEW d \in Definitions, Update(d) PROVE PreviewInv'
    <3>1. UNCHANGED <<loaded, arrived>>
      BY <2>4 DEF Update
    <3>2. QED
      BY <2>0, <2>4, <3>1, UpdateKeeps DEF PreviewInv
  <2>5. CASE UNCHANGED vars
    <3>1. State' = State /\ UNCHANGED <<loaded, arrived>>
      BY <2>5 DEF vars, State
    <3>2. StateSound'
      BY <2>0, <3>1 DEF StateSound, Sound, Pointers, Good, Live
    <3>3. QED
      BY <2>0, <3>1, <3>2 DEF PreviewInv
  <2>6. QED
    BY <1>2, <2>1, <2>2, <2>3, <2>4, <2>5 DEF Next
<1>3. QED
  BY <1>1, <1>2

(* The lookup of a column is the one function that the property asks for.  *)
LookupOf(m) ==
  LET row == 0 .. Len(m.rows) - 1
  IN [id \in {heap[WidgetAt(m, r)].id : r \in {x \in row : WidgetAt(m, x) # Gap}} |->
        CHOOSE r \in row : WidgetAt(m, r) # Gap /\ heap[WidgetAt(m, r)].id = id]

(* A column in order has that function for its lookup.                     *)
LEMMA LookupIsIndex ==
  ASSUME NEW S, NEW m, ColumnOk(heap, S, m)
  PROVE  m.index = LookupOf(m)
<1> DEFINE row == 0 .. Len(m.rows) - 1
           ids == {heap[WidgetAt(m, r)].id : r \in {x \in row : WidgetAt(m, x) # Gap}}
           Here(r, id) == WidgetAt(m, r) # Gap /\ heap[WidgetAt(m, r)].id = id
<1>1. /\ m.index \in Indices /\ Indexed(heap, m.rows, m.index) /\ Len(m.rows) \in Nat
  BY ColumnElim
<1>2. \A r \in row : r + 1 \in 1 .. Len(m.rows) /\ WidgetAt(m, r) = m.rows[r + 1]
  BY <1>1 DEF WidgetAt
<1>3. \A i \in 1 .. Len(m.rows) : i - 1 \in row /\ WidgetAt(m, i - 1) = m.rows[i]
  BY <1>1 DEF WidgetAt
<1>4. ASSUME NEW r \in row, NEW id, Here(r, id) PROVE id \in DOMAIN m.index /\ m.index[id] = r
  <2>1. PICK i \in 1 .. Len(m.rows) : i = r + 1 /\ i - 1 = r
    BY <1>1, <1>2
  <2>2. m.rows[i] # Gap /\ heap[m.rows[i]].id = id
    BY <1>2, <1>4, <2>1
  <2>3. id \in DOMAIN m.index /\ m.index[id] = i - 1
    BY <1>1, <2>2 DEF Indexed
  <2>4. QED
    BY <2>1, <2>3
<1>5. ASSUME NEW id \in DOMAIN m.index PROVE \E r \in row : Here(r, id)
  <2>1. PICK i \in 1 .. Len(m.rows) : IsAt(heap, m.rows, i, id)
    BY <1>1 DEF Indexed
  <2>2. i - 1 \in row /\ Here(i - 1, id)
    BY <1>3, <2>1 DEF IsAt
  <2>3. QED
    BY <2>2
<1>6. DOMAIN m.index = ids
  <2>1. \A id \in ids : id \in DOMAIN m.index
    <3>1. ASSUME NEW id \in ids PROVE id \in DOMAIN m.index
      <4>1. PICK r \in row : Here(r, id)
        OBVIOUS
      <4>2. QED
        BY <1>4, <4>1
    <3>2. QED
      BY <3>1
  <2>2. \A id \in DOMAIN m.index : id \in ids
    <3>1. ASSUME NEW id \in DOMAIN m.index PROVE id \in ids
      <4>1. PICK r \in row : Here(r, id)
        BY <1>5
      <4>2. QED
        BY <4>1
    <3>2. QED
      BY <3>1
  <2>3. QED
    BY <2>1, <2>2
<1>7. \A id \in DOMAIN m.index : m.index[id] = CHOOSE r \in row : Here(r, id)
  <2>1. ASSUME NEW id \in DOMAIN m.index PROVE m.index[id] = CHOOSE r \in row : Here(r, id)
    <3>1. \E r \in row : Here(r, id)
      BY <1>5
    <3>2. PICK r : r = CHOOSE x \in row : Here(x, id)
      OBVIOUS
    <3>3. r \in row /\ Here(r, id)
      BY <3>1, <3>2
    <3>4. QED
      BY <1>4, <3>2, <3>3
  <2>2. QED
    BY <2>1
<1>8. m.index = [id \in DOMAIN m.index |-> m.index[id]]
  <2>1. PICK D \in SUBSET WidgetIds : m.index \in [D -> Nat]
    BY <1>1 DEF Indices
  <2>2. QED
    BY <2>1
<1>9. m.index = [id \in ids |-> CHOOSE r \in row : Here(r, id)]
  <2> HIDE DEF ids, row, Here
  <2>1. QED
    BY ONLY <1>6, <1>7, <1>8
<1>10. QED
  BY <1>9 DEF LookupOf

(* The invariant says what the property says.                              *)
LEMMA PreviewInvMeansIndex ==
  PreviewInv => IndexMatchesRows
<1> SUFFICES ASSUME PreviewInv PROVE IndexMatchesRows
  OBVIOUS
<1>1. PICK S \in SUBSET Objects : S = Pointers(State)
  BY SoundStateElim DEF PreviewInv
<1>2. /\ HeapOk(heap, S) /\ ByIdOk(heap, byId, S) /\ ordered \in Seq(S)
      /\ ColumnsOk(heap, columns, S) /\ allData \in Values /\ crashed \in BOOLEAN
      /\ loaded \in BOOLEAN /\ DOMAIN arrived \subseteq WidgetIds
  BY <1>1, SoundStateElim DEF PreviewInv
<1>3. \A o \in S : heap[o] # Null
  BY <1>2, NullAssumption DEF HeapOk, Valid
<1>4. \A i \in 1 .. Len(ordered) : heap[ordered[i]] # Null
  BY <1>2, <1>3, LenProperties
<1>5. ASSUME NEW c \in 1 .. Len(columns)
      PROVE  /\ \A i \in 1 .. Len(columns[c].rows) : columns[c].rows[i] # Gap => heap[columns[c].rows[i]] # Null
             /\ columns[c].index = LookupOf(columns[c])
  <2>1. PICK m : m = columns[c]
    OBVIOUS
  <2>2. ColumnOk(heap, S, m)
    BY <1>2, <2>1 DEF ColumnsOk
  <2>3. \A i \in 1 .. Len(m.rows) : m.rows[i] \in S \cup {Gap}
    BY <2>2, ColumnElim
  <2>4. m.index = LookupOf(m)
    BY <2>2, LookupIsIndex
  <2>5. QED
    BY ONLY <1>3, <2>1, <2>3, <2>4
<1>6. \A w \in WidgetIds : byId[w] # Gap => heap[byId[w]].id = w
  BY <1>2 DEF ByIdOk
<1>7. Len(columns) \in 1 .. MaxColumns
  BY <1>2 DEF ColumnsOk
<1>8. TypeOK
  BY ONLY <1>2, <1>4, <1>5, <1>6, <1>7 DEF TypeOK
<1>9. \A c \in 1 .. Len(columns) : columns[c].index = LookupOf(columns[c])
  BY ONLY <1>5
<1>10. QED
  BY ONLY <1>8, <1>9 DEF IndexMatchesRows, LookupOf

(* Whatever chunks arrive and whatever the shell asks for, the rows, the   *)
(* lookup by id and the ordered list lead to widgets that exist, and the   *)
(* lookup of a column gives the row of each of its widgets, once per id:   *)
(* previewwidgetmodel.cpp keeps it by hand and asserts it at 159.          *)
THEOREM IndexMatchesRowsAlways == Spec => []IndexMatchesRows
<1>1. Spec => []PreviewInv
  BY PreviewInvHolds, PTL DEF Spec
<1>2. PreviewInv => IndexMatchesRows
  BY PreviewInvMeansIndex
<1>3. QED
  BY <1>1, <1>2, PTL

-----------------------------------------------------------------------------
(* What became of the widgets that arrived.  First of all, which object is *)
(* in the row of an id, and what the methods of a column do to that.       *)

Holder(m, w) == m.rows[m.index[w] + 1]

(* The row of an id holds a widget of that id.                             *)
LEMMA HolderProperties ==
  ASSUME NEW h, NEW S, Gap \notin S, NEW m, ColumnOk(h, S, m), NEW w \in DOMAIN m.index
  PROVE  /\ w \in WidgetIds /\ m.index[w] \in Nat /\ m.index[w] + 1 \in 1 .. Len(m.rows)
         /\ Holder(m, w) \in S /\ Holder(m, w) # Gap /\ h[Holder(m, w)].id = w
         /\ WidgetIndex(m, w) = m.index[w] /\ WidgetAt(m, m.index[w]) = Holder(m, w)
<1>1. /\ m.index \in Indices /\ Indexed(h, m.rows, m.index) /\ Len(m.rows) \in Nat
      /\ \A i \in 1 .. Len(m.rows) : m.rows[i] \in S \cup {Gap}
  BY ColumnElim
<1>2. w \in WidgetIds /\ m.index[w] \in Nat
  BY <1>1, IndicesProperties
<1>3. m.index[w] + 1 \in 1 .. Len(m.rows) /\ IsAt(h, m.rows, m.index[w] + 1, w)
  BY <1>1, IndexedAt
<1>4. Holder(m, w) \in S /\ Holder(m, w) # Gap /\ h[Holder(m, w)].id = w
  BY <1>1, <1>3 DEF Holder, IsAt
<1>5. m.index[w] \in 0 .. Len(m.rows) - 1
  BY <1>1, <1>2, <1>3
<1> QED BY <1>2, <1>3, <1>4, <1>5 DEF WidgetIndex, WidgetAt, Holder

(* A widget in a row is the holder of its id.                              *)
LEMMA HolderIs ==
  ASSUME NEW h, NEW S, NEW m, ColumnOk(h, S, m), NEW i \in 1 .. Len(m.rows), m.rows[i] # Gap,
         NEW w, w = h[m.rows[i]].id
  PROVE  w \in DOMAIN m.index /\ m.index[w] = i - 1 /\ Holder(m, w) = m.rows[i]
<1>1. Indexed(h, m.rows, m.index) /\ Len(m.rows) \in Nat
  BY ColumnElim
<1>2. w \in DOMAIN m.index /\ m.index[w] = i - 1
  BY <1>1 DEF Indexed
<1>3. m.index[w] + 1 = i
  BY <1>2
<1> QED BY <1>2, <1>3 DEF Holder

(* Where a new widget is put: in its row, and all others stay where they   *)
(* are.                                                                    *)
LEMMA AddedRows ==
  ASSUME NEW h, NEW S, NEW m, ColumnOk(h, S, m), NEW o \in S, NEW row \in Nat, NEW k, k = row + 1,
         NEW t, t = AddReplaceWidget(h, m, o, row).rows
  PROVE  /\ k \in 1 .. Len(t) /\ t[k] = o
         /\ \A i \in 1 .. Len(m.rows) : i # k => i \in 1 .. Len(t) /\ t[i] = m.rows[i]
         /\ \A i \in 1 .. Len(t) : i # k => (i \in 1 .. Len(m.rows) /\ t[i] = m.rows[i]) \/ t[i] = Gap
<1>1. PICK rows \in Seq(S \cup {Gap}) : rows = m.rows
  BY ColumnElim
<1>2. Len(rows) \in Nat /\ k \in Nat
  BY <1>1, ColumnElim
<1>3. t = IF row >= Len(rows) THEN AtEnd(rows, o, row) ELSE [rows EXCEPT ![k] = o]
  BY ONLY <1>1, k = row + 1, t = AddReplaceWidget(h, m, o, row).rows DEF AddReplaceWidget, AtEnd
<1>4. CASE row >= Len(rows)
  <2>1. IsAtEnd(AtEnd(rows, o, row), S, rows, o, row)
    BY ONLY <1>4, rows \in Seq(S \cup {Gap}), o \in S, row \in Nat, AtEndProperties
  <2>2. /\ Len(t) = row + 1 /\ t[row + 1] = o
        /\ \A i \in 1 .. Len(rows) : t[i] = rows[i]
        /\ \A i \in Len(rows) + 1 .. row : t[i] = Gap
    BY ONLY <1>3, <1>4, <2>1 DEF IsAtEnd
  <2> QED BY <1>1, <1>2, <1>4, <2>2
<1>5. CASE ~(row >= Len(rows))
  <2>1. t = [rows EXCEPT ![k] = o] /\ k \in 1 .. Len(rows)
    BY <1>2, <1>3, <1>5
  <2>2. Len(t) = Len(rows) /\ \A i \in 1 .. Len(rows) : t[i] = IF i = k THEN o ELSE rows[i]
    BY <2>1, ExceptSeq
  <2> QED BY <1>1, <1>2, <2>1, <2>2
<1> QED BY <1>4, <1>5

(* What the columns m and n have in common when a widget of id came.       *)
Follows(n, m, id) ==
  \A w \in DOMAIN n.index \ {id} :
    w \in DOMAIN m.index /\ Holder(n, w) = Holder(m, w) /\ n.index[w] >= m.index[w]

(* A new widget takes the place of at most one other.                      *)
LEMMA AddedHolders ==
  ASSUME NEW h, NEW S, Valid(h, S), NEW m, ColumnOk(h, S, m), NEW o \in S, NEW row \in Nat, Gap \notin S,
         NEW id, id = h[o].id, id \notin DOMAIN m.index, NEW n, n = AddReplaceWidget(h, m, o, row)
  PROVE  /\ ColumnOk(h, S, n) /\ Follows(n, m, id)
         /\ id \in DOMAIN n.index /\ n.index[id] = row /\ Holder(n, id) = o
         /\ \A w \in DOMAIN m.index : w \in DOMAIN n.index \/ Holder(m, w) = WidgetAt(m, row)
<1>1. ColumnOk(h, S, n)
  BY AddReplaceOk
<1>2. PICK k : k = row + 1
  OBVIOUS
<1>3. /\ k \in 1 .. Len(n.rows) /\ n.rows[k] = o
      /\ \A i \in 1 .. Len(m.rows) : i # k => i \in 1 .. Len(n.rows) /\ n.rows[i] = m.rows[i]
      /\ \A i \in 1 .. Len(n.rows) : i # k => (i \in 1 .. Len(m.rows) /\ n.rows[i] = m.rows[i]) \/ n.rows[i] = Gap
  <2>1. PICK t : t = AddReplaceWidget(h, m, o, row).rows
    OBVIOUS
  <2>2. /\ k \in 1 .. Len(t) /\ t[k] = o
        /\ \A i \in 1 .. Len(m.rows) : i # k => i \in 1 .. Len(t) /\ t[i] = m.rows[i]
        /\ \A i \in 1 .. Len(t) : i # k => (i \in 1 .. Len(m.rows) /\ t[i] = m.rows[i]) \/ t[i] = Gap
    BY ONLY ColumnOk(h, S, m), o \in S, row \in Nat, <1>2, <2>1, AddedRows
  <2>3. t = n.rows
    BY ONLY <2>1, n = AddReplaceWidget(h, m, o, row)
  <2> QED BY ONLY <2>2, <2>3
<1>4. id \in DOMAIN n.index /\ n.index[id] = row /\ Holder(n, id) = o
  <2>1. n.rows[k] # Gap /\ id = h[n.rows[k]].id
    BY <1>3
  <2>2. id \in DOMAIN n.index /\ n.index[id] = k - 1 /\ Holder(n, id) = n.rows[k]
    BY ONLY <1>1, <1>3, <2>1, HolderIs
  <2>3. k - 1 = row
    BY <1>2
  <2> QED BY ONLY <1>3, <2>2, <2>3
<1>5. ASSUME NEW w \in DOMAIN n.index \ {id}
      PROVE  w \in DOMAIN m.index /\ Holder(n, w) = Holder(m, w) /\ n.index[w] >= m.index[w]
  <2>1. PICK i : i = n.index[w] + 1
    OBVIOUS
  <2>2. /\ i \in 1 .. Len(n.rows) /\ n.rows[i] = Holder(n, w) /\ n.rows[i] # Gap /\ h[n.rows[i]].id = w
        /\ n.index[w] \in Nat
    BY <1>1, <2>1, HolderProperties DEF Holder
  <2>3. i # k
    BY <1>3, <2>2
  <2>4. i \in 1 .. Len(m.rows) /\ m.rows[i] = n.rows[i]
    BY <1>3, <2>2, <2>3
  <2>5. w \in DOMAIN m.index /\ m.index[w] = i - 1 /\ Holder(m, w) = m.rows[i]
    BY <2>2, <2>4, HolderIs
  <2> QED BY <2>1, <2>2, <2>4, <2>5
<1>6. ASSUME NEW w \in DOMAIN m.index PROVE w \in DOMAIN n.index \/ Holder(m, w) = WidgetAt(m, row)
  <2>1. PICK i : i = m.index[w] + 1
    OBVIOUS
  <2>2. /\ i \in 1 .. Len(m.rows) /\ m.rows[i] = Holder(m, w) /\ m.rows[i] # Gap /\ h[m.rows[i]].id = w
        /\ m.index[w] \in Nat /\ WidgetAt(m, m.index[w]) = Holder(m, w)
    BY <2>1, HolderProperties DEF Holder
  <2>3. CASE i = k
    <3>1. m.index[w] = row
      BY <1>2, <2>1, <2>2, <2>3
    <3> QED BY <2>2, <3>1
  <2>4. CASE i # k
    <3>1. i \in 1 .. Len(n.rows) /\ n.rows[i] = m.rows[i]
      BY <1>3, <2>2, <2>4
    <3> QED BY <1>1, <2>2, <3>1, HolderIs
  <2> QED BY <2>3, <2>4
<1> QED BY <1>1, <1>4, <1>5, <1>6 DEF Follows

(* moveWidget() up leaves each widget the holder of its id, none above its *)
(* old row but the one that moves.                                         *)
LEMMA MovedHolders ==
  ASSUME NEW h, NEW S, Gap \notin S, NEW m, ColumnOk(h, S, m), NEW id \in DOMAIN m.index, NEW dest \in Nat,
         dest <= m.index[id], NEW n, n = MoveWidget(h, m, id, WidgetIndex(m, id), dest)
  PROVE  /\ ColumnOk(h, S, n) /\ Follows(n, m, id) /\ DOMAIN n.index = DOMAIN m.index
         /\ n.index[id] = dest /\ Holder(n, id) = Holder(m, id)
<1>1. ColumnOk(h, S, n)
  BY MoveWidgetOk
<1>2. /\ m.index[id] \in Nat /\ m.index[id] + 1 \in 1 .. Len(m.rows) /\ Holder(m, id) # Gap
      /\ h[Holder(m, id)].id = id /\ WidgetIndex(m, id) = m.index[id]
  BY ONLY Gap \notin S, ColumnOk(h, S, m), id \in DOMAIN m.index, HolderProperties
<1>3. Len(m.rows) \in Nat /\ m.rows \in Seq(S \cup {Gap})
  BY ColumnElim
<1>4. PICK source \in Nat : source = m.index[id] /\ dest <= source
  BY <1>2
<1>5. CASE source = dest
  <2>1. n = m
    BY ONLY <1>2, <1>4, <1>5, n = MoveWidget(h, m, id, WidgetIndex(m, id), dest) DEF MoveWidget
  <2>2. Follows(m, m, id)
    <3>1. \A w \in DOMAIN m.index : m.index[w] \in Nat
      BY HolderProperties
    <3> QED BY <3>1 DEF Follows
  <2> QED BY <1>4, <1>5, <2>1, <2>2
<1>6. CASE source # dest
  <2>1. PICK k \in 1 .. Len(m.rows), d \in 1 .. Len(m.rows) :
          k = source + 1 /\ d = dest + 1 /\ d < k /\ k # d /\ dest = d - 1 /\ source = k - 1
    <3>1. PICK k, d : k = source + 1 /\ d = dest + 1
      OBVIOUS
    <3>2. k \in 1 .. Len(m.rows) /\ d \in 1 .. Len(m.rows) /\ d < k /\ k # d /\ dest = d - 1 /\ source = k - 1
      BY <1>2, <1>3, <1>4, <1>6, <3>1
    <3> QED BY <3>1, <3>2
  <2>2. m.rows[k] = Holder(m, id)
    BY <1>4, <2>1 DEF Holder
  <2>3. PICK t : t = InsertAt(RemoveAt(m.rows, k), d, m.rows[k])
    OBVIOUS
  <2>4. Len(t) = Len(m.rows) /\ \A j \in 1 .. Len(m.rows) : t[j] = m.rows[Source(k, d, j)]
    <3>1. k \in 1 .. Len(m.rows) /\ d \in 1 .. Len(m.rows) /\ k # d
      BY <2>1
    <3> QED BY ONLY <1>3, <2>3, <3>1, MovedProperties
  <2>5. n.rows = t
    <3>1. ~(source = dest \/ dest >= Len(m.rows) \/ m.rows[k] = Gap \/ h[m.rows[k]].id # id)
      BY <1>2, <1>3, <1>6, <2>1, <2>2
    <3>2. n = MoveWidget(h, m, id, source, dest)
      BY <1>2, <1>4
    <3> QED BY ONLY <2>1, <2>3, <3>1, <3>2 DEF MoveWidget
  <2>6. \A j \in 1 .. Len(m.rows) : n.rows[j] = m.rows[Source(k, d, j)]
    BY <2>4, <2>5
  <2>7. ASSUME NEW j \in 1 .. Len(m.rows), j # d
        PROVE  Source(k, d, j) \in 1 .. Len(m.rows) /\ Source(k, d, j) # k /\ Source(k, d, j) <= j
    BY <1>3, <2>1, <2>7 DEF Source
  <2>8. Source(k, d, d) = k
    BY DEF Source
  <2>9. id \in DOMAIN n.index /\ n.index[id] = dest /\ Holder(n, id) = Holder(m, id)
    <3>1. d \in 1 .. Len(n.rows) /\ n.rows[d] = Holder(m, id)
      BY <2>1, <2>2, <2>4, <2>5, <2>6, <2>8
    <3>2. n.rows[d] # Gap /\ id = h[n.rows[d]].id
      BY <1>2, <3>1
    <3>3. id \in DOMAIN n.index /\ n.index[id] = d - 1 /\ Holder(n, id) = n.rows[d]
      BY ONLY <1>1, <3>1, <3>2, HolderIs
    <3> QED BY <2>1, <3>1, <3>3
  <2>10. ASSUME NEW w \in DOMAIN n.index \ {id}
         PROVE  w \in DOMAIN m.index /\ Holder(n, w) = Holder(m, w) /\ n.index[w] >= m.index[w]
    <3>1. PICK j : j = n.index[w] + 1
      OBVIOUS
    <3>2. /\ j \in 1 .. Len(n.rows) /\ n.rows[j] = Holder(n, w) /\ n.rows[j] # Gap /\ h[n.rows[j]].id = w
          /\ n.index[w] \in Nat
      <4>1. w \in DOMAIN n.index
        OBVIOUS
      <4>2. /\ n.index[w] \in Nat /\ n.index[w] + 1 \in 1 .. Len(n.rows)
            /\ Holder(n, w) # Gap /\ h[Holder(n, w)].id = w
        BY ONLY Gap \notin S, <1>1, <4>1, HolderProperties
      <4>3. Holder(n, w) = n.rows[j]
        BY ONLY <3>1 DEF Holder
      <4> QED BY ONLY <3>1, <4>2, <4>3
    <3>3. j \in 1 .. Len(m.rows) /\ j # d
      BY <1>2, <2>2, <2>4, <2>5, <2>6, <2>8, <3>2
    <3>4. PICK i \in 1 .. Len(m.rows) : i = Source(k, d, j) /\ i <= j /\ m.rows[i] = n.rows[j]
      BY <2>6, <2>7, <3>3
    <3>5. w \in DOMAIN m.index /\ m.index[w] = i - 1 /\ Holder(m, w) = m.rows[i]
      BY <3>2, <3>4, HolderIs
    <3> QED BY <3>1, <3>2, <3>4, <3>5
  <2>11. ASSUME NEW w \in DOMAIN m.index PROVE w \in DOMAIN n.index
    <3>1. CASE w = id
      BY <2>9, <3>1
    <3>2. CASE w # id
      <4>1. PICK i : i = m.index[w] + 1
        OBVIOUS
      <4>2. i \in 1 .. Len(m.rows) /\ m.rows[i] = Holder(m, w) /\ m.rows[i] # Gap /\ h[m.rows[i]].id = w
        BY <4>1, HolderProperties DEF Holder
      <4>3. i # k
        BY <1>2, <2>2, <3>2, <4>2
      <4>4. PICK j \in 1 .. Len(m.rows) : Source(k, d, j) = i
        <5>1. PICK j : j = IF i < d \/ i > k THEN i ELSE i + 1
          OBVIOUS
        <5>2. j \in 1 .. Len(m.rows) /\ Source(k, d, j) = i
          BY <1>3, <2>1, <4>2, <4>3, <5>1 DEF Source
        <5> QED BY <5>2
      <4>5. j \in 1 .. Len(n.rows) /\ n.rows[j] = m.rows[i]
        BY <2>4, <2>5, <2>6, <4>4
      <4> QED BY <1>1, <4>2, <4>5, HolderIs
    <3> QED BY <3>1, <3>2
  <2>12. DOMAIN n.index = DOMAIN m.index
    BY <2>9, <2>10, <2>11
  <2> QED BY <1>1, <2>9, <2>10, <2>12 DEF Follows
<1> QED BY <1>5, <1>6

(* A widget put into the row of its id is the holder of it.                *)
LEMMA UpdatedHolders ==
  ASSUME NEW h, NEW S, Gap \notin S, NEW m, ColumnOk(h, S, m), NEW o \in S, NEW id, id = h[o].id,
         id \in DOMAIN m.index, NEW n, n = UpdateWidgetAt(h, m, o, m.index[id])
  PROVE  /\ ColumnOk(h, S, n) /\ n.index = m.index /\ Holder(n, id) = o
         /\ \A w \in DOMAIN m.index \ {id} : Holder(n, w) = Holder(m, w)
<1>1. /\ m.index[id] \in Nat /\ m.index[id] + 1 \in 1 .. Len(m.rows)
      /\ Holder(m, id) # Gap /\ h[Holder(m, id)].id = id /\ WidgetAt(m, m.index[id]) = Holder(m, id)
  BY HolderProperties
<1>2. PICK k \in 1 .. Len(m.rows) : k = m.index[id] + 1
  BY <1>1
<1>3. n = [m EXCEPT !.rows[k] = o]
  BY ONLY <1>1, <1>2, id = h[o].id, n = UpdateWidgetAt(h, m, o, m.index[id]) DEF UpdateWidgetAt
<1>4. ColumnOk(h, S, n)
  BY <1>1, UpdateWidgetAtOk
<1>5. m.rows \in Seq(S \cup {Gap}) /\ m = Column(m.rows, m.index)
  BY ColumnElim
<1>6. n.index = m.index /\ n.rows = [m.rows EXCEPT ![k] = o]
  BY ONLY <1>3, <1>5 DEF Column
<1>7. \A i \in 1 .. Len(m.rows) : n.rows[i] = IF i = k THEN o ELSE m.rows[i]
  <2>1. o \in S \cup {Gap}
    OBVIOUS
  <2> QED BY ONLY <1>5, <1>6, <2>1, k \in 1 .. Len(m.rows), ExceptSeq
<1>8. Holder(n, id) = o
  BY <1>2, <1>6, <1>7 DEF Holder
<1>9. ASSUME NEW w \in DOMAIN m.index \ {id} PROVE Holder(n, w) = Holder(m, w)
  <2>1. PICK i : i = m.index[w] + 1
    OBVIOUS
  <2>2. i \in 1 .. Len(m.rows) /\ m.rows[i] = Holder(m, w) /\ h[m.rows[i]].id = w
    BY <2>1, HolderProperties DEF Holder
  <2>3. i # k
    BY <1>1, <1>2, <2>2 DEF Holder
  <2> QED BY <1>6, <1>7, <2>1, <2>2, <2>3 DEF Holder
<1> QED BY <1>4, <1>6, <1>8, <1>9

(* What the columns m and n have in common when the widget of id went.     *)
Lost(n, m, id) ==
  DOMAIN n.index = DOMAIN m.index \ {id} /\ \A w \in DOMAIN n.index : Holder(n, w) = Holder(m, w)

(* removeWidget() takes one id away and leaves the others their holders.   *)
LEMMA RemovedHolders ==
  ASSUME NEW h, NEW S, Gap \notin S, NEW m, ColumnOk(h, S, m), NEW id, NEW n, n = RemoveWidget(h, m, id)
  PROVE  ColumnOk(h, S, n) /\ Lost(n, m, id)
<1>1. ColumnOk(h, S, n)
  BY RemoveWidgetOk
<1>2. CASE id \notin DOMAIN m.index
  <2>1. n = m
    BY <1>2 DEF RemoveWidget, WidgetIndex
  <2> QED BY <1>1, <1>2, <2>1 DEF Lost
<1>3. CASE id \in DOMAIN m.index
  <2>1. /\ m.index[id] \in Nat /\ m.index[id] + 1 \in 1 .. Len(m.rows) /\ h[Holder(m, id)].id = id
        /\ WidgetIndex(m, id) = m.index[id]
    BY <1>3, HolderProperties
  <2>2. Len(m.rows) \in Nat /\ m.rows \in Seq(S \cup {Gap})
    BY ColumnElim
  <2>3. PICK k \in 1 .. Len(m.rows) : k = m.index[id] + 1
    BY <2>1
  <2>4. m.rows[k] = Holder(m, id)
    BY <2>3 DEF Holder
  <2>5. PICK t : t = RemoveAt(m.rows, k)
    OBVIOUS
  <2>6. Len(t) = Len(m.rows) - 1 /\ \A j \in 1 .. Len(m.rows) - 1 : t[j] = IF j < k THEN m.rows[j] ELSE m.rows[j + 1]
    BY ONLY <2>2, <2>5, k \in 1 .. Len(m.rows), RemoveAtProperties
  <2>7. n.rows = t
    <3>1. ~(WidgetIndex(m, id) < 0) /\ WidgetIndex(m, id) + 1 = k
      BY <2>1, <2>3
    <3> QED BY ONLY <2>5, <3>1, n = RemoveWidget(h, m, id) DEF RemoveWidget
  <2>8. ASSUME NEW w \in DOMAIN n.index
        PROVE  w \in DOMAIN m.index \ {id} /\ Holder(n, w) = Holder(m, w)
    <3>1. PICK j : j = n.index[w] + 1
      OBVIOUS
    <3>2. j \in 1 .. Len(n.rows) /\ n.rows[j] = Holder(n, w) /\ n.rows[j] # Gap /\ h[n.rows[j]].id = w
      BY <1>1, <3>1, HolderProperties DEF Holder
    <3>3. PICK i : i = IF j < k THEN j ELSE j + 1
      OBVIOUS
    <3>4. i \in 1 .. Len(m.rows) /\ n.rows[j] = m.rows[i] /\ i # k
      BY <2>2, <2>6, <2>7, <3>2, <3>3
    <3>5. w \in DOMAIN m.index /\ m.index[w] = i - 1 /\ Holder(m, w) = m.rows[i]
      BY <3>2, <3>4, HolderIs
    <3>6. w # id
      BY <2>1, <2>3, <3>4, <3>5
    <3> QED BY <3>2, <3>4, <3>5, <3>6
  <2>9. ASSUME NEW w \in DOMAIN m.index \ {id} PROVE w \in DOMAIN n.index
    <3>1. PICK i : i = m.index[w] + 1
      OBVIOUS
    <3>2. i \in 1 .. Len(m.rows) /\ m.rows[i] = Holder(m, w) /\ m.rows[i] # Gap /\ h[m.rows[i]].id = w
      BY <3>1, HolderProperties DEF Holder
    <3>3. i # k
      BY <2>1, <2>4, <3>2
    <3>4. PICK j : j = IF i < k THEN i ELSE i - 1
      OBVIOUS
    <3>5. j \in 1 .. Len(n.rows) /\ n.rows[j] = m.rows[i]
      BY <2>2, <2>6, <2>7, <3>2, <3>3, <3>4
    <3> QED BY <1>1, <3>2, <3>5, HolderIs
  <2> QED BY <1>1, <2>8, <2>9 DEF Lost
<1> QED BY <1>2, <1>3

(* A new widget goes to the first row from the given one on that no widget *)
(* of this preview has.                                                    *)
LEMMA FirstFreeProperties ==
  ASSUME NEW p, NEW m, Len(m.rows) \in Nat, NEW row \in Nat, NEW f, f = FirstFree(p, m, row)
  PROVE  /\ f \in Nat /\ f >= row
         /\ WidgetAt(m, f) = Gap \/ ~p.heap[WidgetAt(m, f)].received
         /\ f <= row + Len(m.rows)
         /\ \A i \in Nat : /\ row <= i /\ i <= row + Len(m.rows)
                           /\ WidgetAt(m, i) = Gap \/ ~p.heap[WidgetAt(m, i)].received
                           => f <= i
<1> DEFINE I == {i \in row .. row + Len(m.rows) : WidgetAt(m, i) = Gap \/ ~p.heap[WidgetAt(m, i)].received}
<1>1. row + Len(m.rows) \in I
  BY DEF WidgetAt
<1>2. I \in SUBSET Nat /\ I # {}
  BY <1>1
<1>3. f = Min(I)
  BY DEF FirstFree
<1>4. f \in I /\ \A i \in I : f <= i
  <2> HIDE DEF I
  <2> QED BY <1>2, <1>3, LeastProperties
<1>5. ASSUME NEW i \in Nat, row <= i, i <= row + Len(m.rows),
             WidgetAt(m, i) = Gap \/ ~p.heap[WidgetAt(m, i)].received
      PROVE  f <= i
  <2>1. i \in I
    BY <1>5
  <2> QED BY <1>4, <2>1
<1> QED BY <1>4, <1>5

-----------------------------------------------------------------------------
(* What is true of the widgets of a preview that is on its way: p is the   *)
(* state, d a widget that arrived, first says that it is the first preview. *)

Top(p) == p.columns[1]
OneColumn(p) == Len(p.columns) = 1 /\ ~p.crashed

(* It is reached by its id, and there is a received widget of that content *)
(* in the column; in the first preview, the same object.                   *)
ShownAs(p, d, first) ==
  LET x == Holder(Top(p), d.id)
  IN /\ d.id \in DOMAIN Top(p).index
     /\ p.heap[x].version = d.version /\ p.heap[x].received
     /\ first => x = p.byId[d.id] /\ (p.heap[x].mapped => p.heap[x].value = p.allData)
Kept(p, d, first) ==
  p.byId[d.id] # Gap /\ p.heap[p.byId[d.id]].received /\ ShownAs(p, d, first)

(* A widget that did not arrive is not there, or is there from the preview *)
(* before, and not received.                                               *)
Waits(p, w, first) ==
  /\ first => p.byId[w] = Gap
  /\ p.byId[w] # Gap => ~p.heap[p.byId[w]].received
  /\ w \in DOMAIN Top(p).index => p.byId[w] # Gap /\ Holder(Top(p), w) = p.byId[w]

(* No widget is above its place in the layout, so that it can be put there. *)
AtPlace(p, w) == Top(p).index[w] >= PositionFromLayout(p, w)[2]
AtPlaces(p) == \A w \in DOMAIN Top(p).index : AtPlace(p, w)

Ids(G) == {d.id : d \in G}
Arriving(p, G, first) ==
  /\ OneColumn(p)
  /\ \A d \in G : Kept(p, d, first)
  /\ \A w \in WidgetIds \ Ids(G) : Waits(p, w, first)

(* What a heap may change of the objects in S and leave the rest as it is. *)
SameBody(h, g, S) ==
  \A o \in S : /\ g[o].id = h[o].id /\ g[o].version = h[o].version /\ g[o].mapped = h[o].mapped
               /\ g[o].value = h[o].value /\ (h[o].received => g[o].received)

(* The column of a state in order.                                         *)
LEMMA TopOk ==
  ASSUME NEW p, NEW S \in SUBSET Objects, Good(p, S), OneColumn(p)
  PROVE  /\ ColumnOk(p.heap, S, Top(p)) /\ 1 \in 1 .. Len(p.columns) /\ Gap \notin S /\ HeapOk(p.heap, S)
         /\ Valid(p.heap, S) /\ Len(Top(p).rows) \in Nat
         /\ p.byId \in [WidgetIds -> S \cup {Gap}]
         /\ \A w \in WidgetIds : p.byId[w] # Gap => p.byId[w] \in S /\ p.heap[p.byId[w]].id = w
         /\ \A id : PositionFromLayout(p, id)[1] = 1 /\ PositionFromLayout(p, id)[2] \in Nat \cup {-1}
<1>1. Gap \notin S
  BY ObjectsAreNumbers
<1>2. HeapOk(p.heap, S) /\ ByIdOk(p.heap, p.byId, S) /\ ColumnsOk(p.heap, p.columns, S)
  BY DEF Good
<1>3. Len(p.columns) = 1 /\ 1 \in 1 .. Len(p.columns)
  BY DEF OneColumn
<1>4. ColumnOk(p.heap, S, Top(p))
  BY <1>2, <1>3 DEF ColumnsOk, Top
<1>5. Len(Top(p).rows) \in Nat
  BY <1>4, ColumnElim
<1>6. ASSUME NEW id
      PROVE  PositionFromLayout(p, id)[1] = 1 /\ PositionFromLayout(p, id)[2] \in Nat \cup {-1}
  <2>1. PICK pos : pos = PositionFromLayout(p, id)
    OBVIOUS
  <2>2. pos[1] \in 1 .. Len(p.columns) /\ pos[2] \in Nat \cup {-1}
    BY <2>1, PositionIsThere
  <2> QED BY <1>3, <2>1, <2>2
<1> QED BY <1>1, <1>2, <1>3, <1>4, <1>5, <1>6 DEF HeapOk, ByIdOk

(* Where the layout has a widget depends on the layout only.               *)
LEMMA SamePosition ==
  ASSUME NEW p, NEW q, OneColumn(p), OneColumn(q), q.layout = p.layout, NEW id
  PROVE  PositionFromLayout(q, id) = PositionFromLayout(p, id)
BY DEF OneColumn, PositionFromLayout

(* What is left to show when a widget d came and was put into the column,  *)
(* in the place of at most one that was not received.                      *)
PutIn(p, q, S, d, first) ==
  /\ q.byId = p.byId /\ q.layout = p.layout /\ q.allData = p.allData /\ OneColumn(q)
  /\ SameBody(p.heap, q.heap, S)
  /\ \A o \in S : p.heap[o].id # d.id => q.heap[o].received = p.heap[o].received
  /\ Follows(Top(q), Top(p), d.id)
  /\ \A w \in DOMAIN Top(p).index : w \in DOMAIN Top(q).index \/ ~p.heap[Holder(Top(p), w)].received
  /\ ShownAs(q, d, first) /\ AtPlace(q, d.id)

LEMMA CameIn ==
  ASSUME NEW p, NEW S \in SUBSET Objects, Good(p, S), OneColumn(p), NEW q, Good(q, S),
         NEW d \in Definitions, NEW first, NEW G \in SUBSET Definitions, d.id \notin Ids(G),
         \A e \in G : Kept(p, e, first), \A w \in WidgetIds \ Ids(G \cup {d}) : Waits(p, w, first),
         p.byId[d.id] # Gap, p.heap[p.byId[d.id]].received, AtPlaces(p),
         PutIn(p, q, S, d, first)
  PROVE  Arriving(q, G \cup {d}, first) /\ AtPlaces(q)
<1>1. /\ q.byId = p.byId /\ q.layout = p.layout /\ q.allData = p.allData /\ OneColumn(q)
      /\ SameBody(p.heap, q.heap, S)
      /\ \A o \in S : p.heap[o].id # d.id => q.heap[o].received = p.heap[o].received
      /\ \A w \in DOMAIN Top(p).index : w \in DOMAIN Top(q).index \/ ~p.heap[Holder(Top(p), w)].received
      /\ ShownAs(q, d, first) /\ AtPlace(q, d.id)
  BY DEF PutIn
<1>2. \A w \in DOMAIN Top(q).index \ {d.id} :
        /\ w \in DOMAIN Top(p).index /\ Holder(Top(q), w) = Holder(Top(p), w)
        /\ Top(q).index[w] >= Top(p).index[w]
  BY DEF PutIn, Follows
<1>3. /\ \A w \in WidgetIds : p.byId[w] # Gap => p.byId[w] \in S /\ p.heap[p.byId[w]].id = w
      /\ Gap \notin S
  BY TopOk
<1>4. ASSUME NEW w \in DOMAIN Top(p).index
      PROVE  /\ Holder(Top(p), w) \in S /\ p.heap[Holder(Top(p), w)].id = w /\ Top(p).index[w] \in Nat
             /\ w \in WidgetIds
  BY TopOk, HolderProperties
<1>5. ASSUME NEW w \in DOMAIN Top(q).index PROVE Top(q).index[w] \in Nat
  BY <1>1, TopOk, HolderProperties
<1>6. d.id \in WidgetIds /\ \A e \in G : e.id \in WidgetIds /\ e.id # d.id
  BY WidgetsAssumption DEF Ids
<1>7. Kept(q, d, first)
  BY <1>1, <1>3, <1>6 DEF Kept, SameBody
<1>8. ASSUME NEW e \in G PROVE Kept(q, e, first)
  <2>1. PICK w : w = e.id /\ w \in WidgetIds /\ w # d.id
    BY <1>6
  <2>2. PICK x : x = Holder(Top(p), w)
    OBVIOUS
  <2>3. /\ p.byId[w] # Gap /\ p.heap[p.byId[w]].received /\ w \in DOMAIN Top(p).index
        /\ p.heap[x].version = e.version /\ p.heap[x].received
        /\ first => x = p.byId[w] /\ (p.heap[x].mapped => p.heap[x].value = p.allData)
    BY <2>1, <2>2 DEF Kept, ShownAs
  <2>4. w \in DOMAIN Top(q).index /\ Holder(Top(q), w) = x /\ x \in S
    BY <1>1, <1>2, <1>4, <2>1, <2>2, <2>3
  <2>5. /\ q.byId[w] # Gap /\ q.heap[q.byId[w]].received
        /\ q.heap[x].version = e.version /\ q.heap[x].received
        /\ first => x = q.byId[w] /\ (q.heap[x].mapped => q.heap[x].value = q.allData)
    BY <1>1, <1>3, <2>1, <2>3, <2>4 DEF SameBody
  <2> QED BY <2>1, <2>4, <2>5 DEF Kept, ShownAs
<1>9. ASSUME NEW w \in WidgetIds \ Ids(G \cup {d}) PROVE Waits(q, w, first)
  <2>1. Waits(p, w, first) /\ w # d.id
    BY DEF Ids
  <2>2. p.byId[w] # Gap => q.heap[p.byId[w]].received = p.heap[p.byId[w]].received
    BY <1>1, <1>3, <2>1
  <2>3. w \in DOMAIN Top(q).index => w \in DOMAIN Top(p).index /\ Holder(Top(q), w) = Holder(Top(p), w)
    BY <1>2, <2>1
  <2> QED BY <1>1, <2>1, <2>2, <2>3 DEF Waits
<1>10. ASSUME NEW w \in DOMAIN Top(q).index PROVE AtPlace(q, w)
  <2>1. CASE w = d.id
    BY <1>1, <2>1
  <2>2. CASE w # d.id
    <3>1. /\ w \in DOMAIN Top(p).index /\ Top(q).index[w] >= Top(p).index[w]
          /\ Top(p).index[w] \in Nat /\ Top(q).index[w] \in Nat
      BY <1>2, <1>4, <1>5, <2>2
    <3>2. Top(p).index[w] >= PositionFromLayout(p, w)[2]
      BY <3>1 DEF AtPlaces, AtPlace
    <3>3. PositionFromLayout(q, w)[2] = PositionFromLayout(p, w)[2] /\ PositionFromLayout(p, w)[2] \in Nat \cup {-1}
      BY <1>1, SamePosition, TopOk
    <3> QED BY <3>1, <3>2, <3>3 DEF AtPlace
  <2> QED BY <2>1, <2>2
<1> QED BY <1>1, <1>7, <1>8, <1>9, <1>10 DEF Arriving, AtPlaces

(* What a column is after a step that replaces it.                         *)
LEMMA RecolumnedIs ==
  ASSUME NEW p, OneColumn(p), NEW h, NEW n, NEW cs, Len(cs) = 1, cs[1] = n,
         NEW q, q = Recolumned(p, h, cs, p.crashed)
  PROVE  /\ q.heap = h /\ q.byId = p.byId /\ q.layout = p.layout /\ q.allData = p.allData
         /\ Top(q) = n /\ OneColumn(q)
<1>1. /\ q.heap = h /\ q.byId = p.byId /\ q.columns = cs /\ q.layout = p.layout /\ q.allData = p.allData
      /\ q.crashed = p.crashed
  BY ONLY q = Recolumned(p, h, cs, p.crashed), StateFields DEF Recolumned
<1> QED BY <1>1 DEF Top, OneColumn

(* The rows above the first free one hold received widgets, each of an id  *)
(* of the lookup.                                                          *)
LEMMA AboveFree ==
  ASSUME NEW p, NEW S \in SUBSET Objects, Good(p, S), OneColumn(p), NEW f, f = FirstFree(p, Top(p), 0),
         NEW i \in 0 .. f - 1, NEW id, p.heap[WidgetAt(Top(p), i)].id = id
  PROVE  /\ id \in DOMAIN Top(p).index /\ Top(p).index[id] = i
         /\ p.heap[Holder(Top(p), id)].received
<1>1. PICK m : m = Top(p)
  OBVIOUS
<1>2. ColumnOk(p.heap, S, m) /\ Len(m.rows) \in Nat
  BY <1>1, TopOk
<1>3. /\ f \in Nat /\ f <= 0 + Len(m.rows)
      /\ \A j \in Nat : /\ 0 <= j /\ j <= 0 + Len(m.rows)
                        /\ WidgetAt(m, j) = Gap \/ ~p.heap[WidgetAt(m, j)].received
                        => f <= j
  BY <1>1, <1>2, FirstFreeProperties
<1>4. i \in Nat /\ i < f /\ i < Len(m.rows)
  BY <1>2, <1>3
<1>5. WidgetAt(m, i) # Gap /\ p.heap[WidgetAt(m, i)].received
  BY <1>2, <1>3, <1>4
<1>6. PICK k : k = i + 1
  OBVIOUS
<1>7. k \in 1 .. Len(m.rows) /\ m.rows[k] = WidgetAt(m, i)
  BY <1>2, <1>4, <1>6 DEF WidgetAt
<1>8. id \in DOMAIN m.index /\ m.index[id] = k - 1 /\ Holder(m, id) = m.rows[k]
  <2>1. m.rows[k] # Gap /\ id = p.heap[m.rows[k]].id
    BY <1>1, <1>5, <1>7
  <2> QED BY ONLY <1>2, <1>7, <2>1, HolderIs
<1> QED BY <1>1, <1>4, <1>5, <1>6, <1>7, <1>8

(* addWidgetToColumnModel(), for a widget that is not in the column.       *)
LEMMA AddNewArrives ==
  ASSUME NEW p, NEW S \in SUBSET Objects, Good(p, S), OneColumn(p), NEW o \in S, NEW d \in Definitions,
         NEW first, p.heap[o].id = d.id, p.heap[o].version = d.version, p.heap[o].received, p.byId[d.id] = o,
         p.heap[o].mapped => p.heap[o].value = p.allData, d.id \notin DOMAIN Top(p).index
  PROVE  PutIn(p, AddWidgetToColumnModel(p, o), S, d, first)
<1>1. PICK m, h, id : m = Top(p) /\ h = p.heap /\ id = d.id
  OBVIOUS
<1>2. PICK pos : pos = PositionFromLayout(p, id)
  OBVIOUS
<1>3. /\ ColumnOk(h, S, m) /\ Gap \notin S /\ Valid(h, S) /\ Len(m.rows) \in Nat
      /\ pos[1] = 1 /\ pos[2] \in Nat \cup {-1} /\ ~p.crashed
  BY <1>1, <1>2, TopOk DEF OneColumn
<1>4. PICK row \in Nat : /\ row = IF pos[2] = -1 THEN FirstFree(p, m, 0) ELSE pos[2]
                         /\ row >= pos[2]
  <2>1. FirstFree(p, m, 0) \in Nat
    BY <1>3, FirstFreeIsThere
  <2> QED BY <1>3, <2>1
<1>5. PICK f \in Nat : f = FirstFree(p, m, row) /\ f >= row /\ (WidgetAt(m, f) = Gap \/ ~h[WidgetAt(m, f)].received)
  BY <1>1, <1>3, FirstFreeProperties
<1>6. ~(pos[2] = -1 /\ \E i \in 0 .. row - 1 : p.heap[WidgetAt(m, i)].id = id)
  <2>1. SUFFICES ASSUME pos[2] = -1, NEW i \in 0 .. row - 1, p.heap[WidgetAt(m, i)].id = id PROVE FALSE
    OBVIOUS
  <2>2. row = FirstFree(p, Top(p), 0)
    BY <1>1, <1>4, <2>1
  <2>3. id \in DOMAIN Top(p).index
    BY <1>1, <2>1, <2>2, AboveFree
  <2> QED BY <1>1, <2>3
<1>7. PICK n : n = AddReplaceWidget(h, m, o, f)
  OBVIOUS
<1>8. PICK q : q = AddWidgetToColumnModel(p, o)
  OBVIOUS
<1>9. q = [p EXCEPT !.columns[1] = n]
  <2>1. WidgetIndex(m, id) = -1 /\ -1 < 0
    BY <1>1 DEF WidgetIndex
  <2>2. /\ p.heap[o].id = id /\ p.columns[pos[1]] = m /\ row = (IF pos[2] = -1 THEN FirstFree(p, m, 0) ELSE pos[2])
    BY <1>1, <1>3, <1>4 DEF Top
  <2>3. PICK duplicate : duplicate = \E i \in 0 .. row - 1 : p.heap[WidgetAt(m, i)].id = id
    OBVIOUS
  <2>4. q = IF p.crashed \/ (pos[2] = -1 /\ duplicate) THEN p
            ELSE IF WidgetIndex(m, id) < 0
            THEN [p EXCEPT !.columns[pos[1]] = AddReplaceWidget(p.heap, m, o, FirstFree(p, m, row))]
            ELSE Keep(p, pos[1], o, WidgetIndex(m, id), row)
    BY ONLY <1>2, <1>8, <2>2, <2>3, Zenon DEF AddWidgetToColumnModel
  <2>5. WidgetIndex(m, id) < 0 /\ ~p.crashed /\ ~(pos[2] = -1 /\ duplicate)
    BY ONLY <1>3, <1>6, <2>1, <2>3
  <2>6. q = [p EXCEPT !.columns[pos[1]] = AddReplaceWidget(p.heap, m, o, FirstFree(p, m, row))]
    BY ONLY <2>4, <2>5, Zenon
  <2> QED BY ONLY <1>1, <1>3, <1>5, <1>7, <2>6, Zenon
<1>10. /\ p = MakeState(p.heap, p.byId, p.ordered, p.columns, p.layout, p.allData, p.crashed)
       /\ DOMAIN p.columns = 1 .. Len(p.columns)
  BY LenProperties DEF Good, ColumnsOk
<1>11. PICK cs : cs = [p.columns EXCEPT ![1] = n]
  OBVIOUS
<1>12. q = Recolumned(p, h, cs, p.crashed)
  BY ONLY <1>1, <1>9, <1>10, <1>11 DEF Recolumned, MakeState
<1>13. Len(cs) = 1 /\ cs[1] = n
  BY <1>10, <1>11 DEF OneColumn
<1>14. /\ q.heap = h /\ q.byId = p.byId /\ q.layout = p.layout /\ q.allData = p.allData
       /\ Top(q) = n /\ OneColumn(q)
  BY ONLY OneColumn(p), <1>12, <1>13, RecolumnedIs
<1>15. /\ Follows(n, m, id) /\ id \in DOMAIN n.index /\ n.index[id] = f /\ Holder(n, id) = o
       /\ \A w \in DOMAIN m.index : w \in DOMAIN n.index \/ Holder(m, w) = WidgetAt(m, f)
  BY <1>1, <1>3, <1>7, AddedHolders
<1>16. \A w \in DOMAIN m.index : w \in DOMAIN n.index \/ ~h[Holder(m, w)].received
  <2>1. \A w \in DOMAIN m.index : Holder(m, w) # Gap
    BY <1>3, HolderProperties
  <2> QED BY <1>5, <1>15, <2>1
<1>17. ShownAs(q, d, first)
  BY <1>1, <1>14, <1>15 DEF ShownAs
<1>18. AtPlace(q, id)
  <2>1. PositionFromLayout(q, id)[2] = pos[2]
    BY <1>2, <1>14, SamePosition
  <2>2. f >= pos[2]
    BY <1>3, <1>4, <1>5
  <2> QED BY <1>14, <1>15, <2>1, <2>2 DEF AtPlace
<1>19. SameBody(p.heap, q.heap, S) /\ \A x \in S : p.heap[x].id # d.id => q.heap[x].received = p.heap[x].received
  BY <1>1, <1>14 DEF SameBody
<1>20. PutIn(p, q, S, d, first)
  BY ONLY <1>1, <1>14, <1>15, <1>16, <1>17, <1>18, <1>19 DEF PutIn
<1> QED BY <1>8, <1>20

(* addWidgetToColumnModel(), for one that the column has from the preview  *)
(* before, at its place or below.                                          *)
LEMMA AddKnownArrives ==
  ASSUME NEW p, NEW S \in SUBSET Objects, Good(p, S), OneColumn(p), NEW o \in S, NEW d \in Definitions,
         p.heap[o].id = d.id, p.heap[o].version = d.version, p.heap[o].received,
         d.id \in DOMAIN Top(p).index, ~p.heap[Holder(Top(p), d.id)].received, AtPlace(p, d.id)
  PROVE  PutIn(p, AddWidgetToColumnModel(p, o), S, d, FALSE)
<1>1. PICK m, id : m = Top(p) /\ id = d.id
  OBVIOUS
<1>2. PICK pos : pos = PositionFromLayout(p, id)
  OBVIOUS
<1>3. /\ ColumnOk(p.heap, S, m) /\ Gap \notin S /\ Valid(p.heap, S) /\ Len(m.rows) \in Nat
      /\ HeapOk(p.heap, S) /\ pos[1] = 1 /\ pos[2] \in Nat \cup {-1} /\ ~p.crashed
  BY <1>1, <1>2, TopOk DEF OneColumn
<1>4. PICK current \in Nat : current = m.index[id] /\ current = WidgetIndex(m, id)
  BY <1>1, <1>3, HolderProperties
<1>5. PICK old \in S : /\ old = Holder(m, id) /\ p.heap[old].id = id /\ WidgetAt(m, current) = old /\ old # Gap
                       /\ current + 1 \in 1 .. Len(m.rows)
  BY <1>1, <1>3, <1>4, HolderProperties
<1>6. PICK row \in Nat : row = (IF pos[2] = -1 THEN FirstFree(p, m, 0) ELSE pos[2]) /\ row >= pos[2]
  <2>1. FirstFree(p, m, 0) \in Nat
    BY <1>3, FirstFreeIsThere
  <2> QED BY <1>3, <2>1
<1>7. row <= current
  <2>1. CASE pos[2] = -1
    <3>1. /\ row = FirstFree(p, m, 0)
          /\ \A i \in Nat : /\ 0 <= i /\ i <= 0 + Len(m.rows)
                            /\ WidgetAt(m, i) = Gap \/ ~p.heap[WidgetAt(m, i)].received
                            => row <= i
      BY <1>3, <1>6, <2>1, FirstFreeProperties
    <3>2. 0 <= current /\ current <= 0 + Len(m.rows) /\ ~p.heap[WidgetAt(m, current)].received
      BY <1>1, <1>3, <1>5
    <3> QED BY <3>1, <3>2
  <2>2. CASE pos[2] # -1
    BY <1>1, <1>2, <1>4, <1>6, <2>2 DEF AtPlace
  <2> QED BY <2>1, <2>2
<1>8. ~(pos[2] = -1 /\ \E i \in 0 .. row - 1 : p.heap[WidgetAt(m, i)].id = id)
  <2>1. SUFFICES ASSUME pos[2] = -1, NEW i \in 0 .. row - 1, p.heap[WidgetAt(m, i)].id = id PROVE FALSE
    OBVIOUS
  <2>2. row = FirstFree(p, Top(p), 0)
    BY <1>1, <1>6, <2>1
  <2>3. Top(p).index[id] = i
    BY <1>1, <2>1, <2>2, AboveFree
  <2>4. i = current
    BY ONLY <1>1, <1>4, <2>3
  <2>5. i < row
    OBVIOUS
  <2> QED BY ONLY <1>7, <2>4, <2>5, row \in Nat, current \in Nat
<1>9. PICK h : h = Marked(p.heap, old)
  OBVIOUS
<1>10. HeapOk(h, S) /\ SameIds(p.heap, h, S)
  BY <1>3, <1>9, MarkedProperties
<1>11. \A x \in S : /\ h[x].version = p.heap[x].version /\ h[x].mapped = p.heap[x].mapped
                    /\ h[x].value = p.heap[x].value /\ h[x].id = p.heap[x].id
                    /\ h[x].received = (IF x = old THEN TRUE ELSE p.heap[x].received)
  <2>1. p.heap \in [Objects -> Widgets \cup {Null}] /\ \A x \in S : p.heap[x] \in Widgets
    BY <1>3 DEF HeapOk, Valid
  <2>2. PICK w : w = [p.heap[old] EXCEPT !.received = TRUE]
    OBVIOUS
  <2>3. /\ w.version = p.heap[old].version /\ w.mapped = p.heap[old].mapped /\ w.value = p.heap[old].value
        /\ w.id = p.heap[old].id /\ w.received = TRUE
    BY <2>1, <2>2 DEF Widgets
  <2>4. h = [p.heap EXCEPT ![old] = w]
    BY <1>9, <2>2 DEF Marked
  <2>5. \A x \in Objects : h[x] = IF x = old THEN w ELSE p.heap[x]
    BY <2>1, <2>4
  <2> QED BY <2>3, <2>5
<1>12. h[o].id = id
  BY <1>1, <1>11
<1>13. ColumnOk(h, S, m)
  <2>1. \A i \in 1 .. Len(m.rows) : m.rows[i] \in S \cup {Gap}
    BY <1>3, ColumnElim
  <2>2. \A i \in 1 .. Len(m.rows) : m.rows[i] # Gap => h[m.rows[i]].id = p.heap[m.rows[i]].id
    BY <1>10, <2>1 DEF SameIds
  <2> QED BY <1>3, <2>1, <2>2, ColumnCarries
<1>14. PICK moved : moved = MoveWidget(h, m, id, current, row)
  OBVIOUS
<1>15. /\ ColumnOk(h, S, moved) /\ Follows(moved, m, id) /\ DOMAIN moved.index = DOMAIN m.index
       /\ moved.index[id] = row /\ Holder(moved, id) = old
  <2>1. id \in DOMAIN m.index /\ row <= m.index[id] /\ moved = MoveWidget(h, m, id, WidgetIndex(m, id), row)
    BY <1>1, <1>4, <1>7, <1>14
  <2> QED BY ONLY <1>3, <1>5, <1>13, <2>1, row \in Nat, MovedHolders
<1>16. id \in DOMAIN moved.index /\ WidgetAt(moved, row) = old
  BY <1>1, <1>3, <1>15, HolderProperties
<1>17. PICK n : n = IF id \in IconActions \/ ~SameContent(h[o], h[old]) THEN UpdateWidgetAt(h, moved, o, row) ELSE moved
  OBVIOUS
<1>18. /\ n.index = moved.index
       /\ \A w \in DOMAIN moved.index \ {id} : Holder(n, w) = Holder(moved, w)
       /\ Holder(n, id) = o \/ (Holder(n, id) = old /\ SameContent(h[o], h[old]))
  <2>1. CASE id \in IconActions \/ ~SameContent(h[o], h[old])
    <3>1. n = UpdateWidgetAt(h, moved, o, moved.index[id])
      BY <1>15, <1>17, <2>1
    <3>2. /\ n.index = moved.index /\ Holder(n, id) = o
          /\ \A w \in DOMAIN moved.index \ {id} : Holder(n, w) = Holder(moved, w)
      BY ONLY <1>3, <1>12, <1>15, <1>16, <3>1, o \in S, UpdatedHolders
    <3> QED BY <3>2
  <2>2. CASE ~(id \in IconActions \/ ~SameContent(h[o], h[old]))
    BY <1>15, <1>17, <2>2
  <2> QED BY <2>1, <2>2
<1>19. PICK q : q = AddWidgetToColumnModel(p, o)
  OBVIOUS
<1>20. q = Keep(p, 1, o, current, row)
  <2>1. ~(WidgetIndex(m, id) < 0)
    BY <1>4
  <2>2. /\ p.heap[o].id = id /\ p.columns[pos[1]] = m /\ row = (IF pos[2] = -1 THEN FirstFree(p, m, 0) ELSE pos[2])
    BY <1>1, <1>3, <1>6 DEF Top
  <2> QED BY ONLY <1>2, <1>3, <1>4, <1>8, <1>19, <2>1, <2>2 DEF AddWidgetToColumnModel
<1>21. q = [p EXCEPT !.heap = h, !.columns[1] = n]
  <2>1. m = p.columns[1] /\ h = Marked(p.heap, WidgetAt(m, current)) /\ MoveWidget(h, m, h[o].id, current, row) = moved
    BY <1>1, <1>5, <1>9, <1>12, <1>14 DEF Top
  <2>2. q = KeepAs(p, 1, o, row, h, moved)
    BY ONLY <1>20, <2>1, KeepIs
  <2>3. WidgetAt(moved, row) # Gap
    BY <1>5, <1>16
  <2> QED BY ONLY <1>12, <1>16, <1>17, <2>2, <2>3 DEF KeepAs
<1>22. /\ p = MakeState(p.heap, p.byId, p.ordered, p.columns, p.layout, p.allData, p.crashed)
       /\ DOMAIN p.columns = 1 .. Len(p.columns)
  BY LenProperties DEF Good, ColumnsOk
<1>23. PICK cs : cs = [p.columns EXCEPT ![1] = n]
  OBVIOUS
<1>24. q = Recolumned(p, h, cs, p.crashed)
  BY ONLY <1>21, <1>22, <1>23 DEF Recolumned, MakeState
<1>25. Len(cs) = 1 /\ cs[1] = n
  BY <1>22, <1>23 DEF OneColumn
<1>26. /\ q.heap = h /\ q.byId = p.byId /\ q.layout = p.layout /\ q.allData = p.allData
       /\ Top(q) = n /\ OneColumn(q)
  BY ONLY OneColumn(p), <1>24, <1>25, RecolumnedIs
<1>27. Follows(n, m, id) /\ id \in DOMAIN n.index /\ n.index[id] = row /\ DOMAIN n.index = DOMAIN m.index
  BY <1>15, <1>16, <1>18 DEF Follows
<1>28. ShownAs(q, d, FALSE)
  <2>1. h[o].version = d.version /\ h[o].received /\ h[old].received
    BY <1>11
  <2>2. h[Holder(n, id)].version = d.version /\ h[Holder(n, id)].received
    BY <1>18, <2>1 DEF SameContent
  <2> QED BY <1>1, <1>26, <1>27, <2>2 DEF ShownAs
<1>29. AtPlace(q, id)
  <2>1. PositionFromLayout(q, id)[2] = pos[2]
    BY <1>2, <1>26, SamePosition
  <2> QED BY <1>6, <1>26, <1>27, <2>1 DEF AtPlace
<1>30. SameBody(p.heap, q.heap, S) /\ \A x \in S : p.heap[x].id # d.id => q.heap[x].received = p.heap[x].received
  BY <1>1, <1>5, <1>11, <1>26 DEF SameBody
<1>31. PutIn(p, q, S, d, FALSE)
  BY ONLY <1>1, <1>26, <1>27, <1>28, <1>29, <1>30 DEF PutIn
<1> QED BY <1>19, <1>31

(* addWidgetToColumnModel(), for a widget of this preview.                 *)
MayCome(p, S, o, d, G, first) ==
  /\ S \in SUBSET Objects /\ Good(p, S) /\ OneColumn(p) /\ AtPlaces(p) /\ o \in S
  /\ d \in Definitions /\ G \in SUBSET Definitions /\ d.id \notin Ids(G) /\ first \in BOOLEAN
  /\ \A e \in G : Kept(p, e, first)
  /\ \A w \in WidgetIds \ Ids(G \cup {d}) : Waits(p, w, first)
  /\ p.heap[o].id = d.id /\ p.heap[o].version = d.version /\ p.heap[o].received /\ p.byId[d.id] = o
  /\ p.heap[o].mapped => p.heap[o].value = p.allData
  /\ d.id \in DOMAIN Top(p).index => ~first /\ ~p.heap[Holder(Top(p), d.id)].received

LEMMA AddToColumnArrives ==
  ASSUME NEW p, NEW S, NEW o, NEW d, NEW G, NEW first, MayCome(p, S, o, d, G, first)
  PROVE  LET q == AddWidgetToColumnModel(p, o) IN Arriving(q, G \cup {d}, first) /\ AtPlaces(q)
<1>1. PICK q : q = AddWidgetToColumnModel(p, o)
  OBVIOUS
<1>2. /\ S \in SUBSET Objects /\ Good(p, S) /\ OneColumn(p) /\ AtPlaces(p) /\ o \in S
      /\ d \in Definitions /\ G \in SUBSET Definitions /\ d.id \notin Ids(G) /\ first \in BOOLEAN
      /\ \A e \in G : Kept(p, e, first)
      /\ \A w \in WidgetIds \ Ids(G \cup {d}) : Waits(p, w, first)
      /\ p.heap[o].id = d.id /\ p.heap[o].version = d.version /\ p.heap[o].received /\ p.byId[d.id] = o
      /\ p.heap[o].mapped => p.heap[o].value = p.allData
      /\ d.id \in DOMAIN Top(p).index => ~first /\ ~p.heap[Holder(Top(p), d.id)].received
  BY DEF MayCome
<1>3. Good(q, S)
  BY ONLY <1>1, <1>2, AddToColumnGood
<1>4. PutIn(p, q, S, d, first)
  <2>1. CASE d.id \notin DOMAIN Top(p).index
    BY ONLY <1>1, <1>2, <2>1, AddNewArrives
  <2>2. CASE d.id \in DOMAIN Top(p).index
    <3>1. AtPlace(p, d.id) /\ first = FALSE
      BY <1>2, <2>2 DEF AtPlaces
    <3>2. PutIn(p, q, S, d, FALSE)
      BY ONLY <1>1, <1>2, <2>2, <3>1, AddKnownArrives
    <3> QED BY <3>1, <3>2
  <2> QED BY <2>1, <2>2
<1>5. p.byId[d.id] # Gap /\ p.heap[p.byId[d.id]].received
  BY <1>2, ObjectsAreNumbers
<1>6. Arriving(q, G \cup {d}, first) /\ AtPlaces(q)
  BY ONLY <1>2, <1>3, <1>4, <1>5, CameIn
<1> QED BY <1>1, <1>6

(* addWidgetDefinitions(), for one widget of a preview that is on its way. *)
LEMMA AddDefinitionArrives ==
  ASSUME NEW p, Sound(p), Room(p, 1), NEW d \in Definitions, NEW first \in BOOLEAN,
         NEW G \in SUBSET Definitions, d.id \notin Ids(G), Arriving(p, G, first), AtPlaces(p)
  PROVE  LET q == AddDefinition(p, d) IN Arriving(q, G \cup {d}, first) /\ AtPlaces(q)
<1>1. PICK o : o = Fresh(p)
  OBVIOUS
<1>2. PICK r : Reached(p, r, d, o) /\ AddDefinition(p, d) = AddWidgetToColumnModel(r, o)
  BY <1>1, AddDefinitionIs
<1>3. PICK T \in SUBSET Objects : T = Pointers(p) /\ Good(p, T) /\ OneColumn(p)
  BY SoundPointers DEF Sound, Arriving
<1>4. PICK S \in SUBSET Objects : S = T \cup {o} /\ o \in S /\ Good(r, S) /\ o # Gap
  BY <1>2, <1>3, SoundPointers, ObjectsAreNumbers DEF Reached
<1>5. /\ r.heap[o] = NewWidget(p, d) /\ \A x \in T : r.heap[x] = p.heap[x]
      /\ r.columns = p.columns /\ r.layout = p.layout /\ r.allData = p.allData /\ r.crashed = p.crashed
  BY <1>2, <1>3 DEF Reached
<1>6. /\ p.byId \in [WidgetIds -> T \cup {Gap}] /\ Gap \notin T /\ ColumnOk(p.heap, T, Top(p))
      /\ \A w \in WidgetIds : p.byId[w] # Gap => p.byId[w] \in T
  BY <1>3, TopOk
<1>7. d.id \in WidgetIds /\ \A e \in G : e.id \in WidgetIds /\ e.id # d.id
  BY WidgetsAssumption DEF Ids
<1>8. r.byId[d.id] = o /\ \A w \in WidgetIds \ {d.id} : r.byId[w] = p.byId[w]
  BY <1>2, <1>6, <1>7 DEF Reached
<1>9. OneColumn(r) /\ Top(r) = Top(p)
  BY <1>3, <1>5 DEF OneColumn, Top
<1>10. \A w \in DOMAIN Top(p).index : w \in WidgetIds /\ Holder(Top(p), w) \in T
  BY <1>6, HolderProperties
<1>11. ASSUME NEW e \in G PROVE Kept(r, e, first)
  <2>1. PICK w, x : w = e.id /\ x = Holder(Top(p), w) /\ w \in WidgetIds /\ w # d.id
    BY <1>7
  <2>2. /\ p.byId[w] # Gap /\ p.heap[p.byId[w]].received /\ w \in DOMAIN Top(p).index
        /\ p.heap[x].version = e.version /\ p.heap[x].received
        /\ first => x = p.byId[w] /\ (p.heap[x].mapped => p.heap[x].value = p.allData)
    BY <2>1 DEF Arriving, Kept, ShownAs
  <2>3. x \in T /\ p.byId[w] \in T
    BY <1>6, <1>10, <2>1, <2>2
  <2>4. r.heap[x] = p.heap[x] /\ r.byId[w] = p.byId[w] /\ r.heap[p.byId[w]] = p.heap[p.byId[w]]
    BY <1>5, <1>8, <2>1, <2>3
  <2> QED BY <1>5, <1>9, <2>1, <2>2, <2>4 DEF Kept, ShownAs
<1>12. ASSUME NEW w \in WidgetIds \ Ids(G \cup {d}) PROVE Waits(r, w, first)
  <2>1. Waits(p, w, first) /\ w # d.id
    BY DEF Ids, Arriving
  <2>2. r.byId[w] = p.byId[w] /\ (p.byId[w] # Gap => r.heap[p.byId[w]] = p.heap[p.byId[w]])
    BY <1>5, <1>6, <1>8, <2>1
  <2> QED BY <1>9, <2>1, <2>2 DEF Waits
<1>13. AtPlaces(r)
  <2>1. \A w : PositionFromLayout(r, w) = PositionFromLayout(p, w)
    BY <1>3, <1>5, <1>9, SamePosition
  <2> QED BY <1>9, <2>1 DEF AtPlaces, AtPlace
<1>14. /\ r.heap[o].id = d.id /\ r.heap[o].version = d.version /\ r.heap[o].received
       /\ r.heap[o].mapped => r.heap[o].value = r.allData
  BY <1>5 DEF NewWidget
<1>15. d.id \in DOMAIN Top(r).index => ~first /\ ~r.heap[Holder(Top(r), d.id)].received
  <2>1. SUFFICES ASSUME d.id \in DOMAIN Top(p).index
                 PROVE  ~first /\ ~r.heap[Holder(Top(p), d.id)].received
    BY <1>9
  <2>2. Waits(p, d.id, first)
    BY <1>7 DEF Arriving
  <2>3. p.byId[d.id] # Gap /\ Holder(Top(p), d.id) = p.byId[d.id] /\ ~p.heap[p.byId[d.id]].received /\ ~first
    BY <2>1, <2>2 DEF Waits
  <2> QED BY <1>5, <1>6, <1>7, <2>3
<1>16. LET q == AddWidgetToColumnModel(r, o) IN Arriving(q, G \cup {d}, first) /\ AtPlaces(q)
  <2>1. MayCome(r, S, o, d, G, first)
    BY ONLY <1>4, <1>8, <1>9, <1>11, <1>12, <1>13, <1>14, <1>15, d \in Definitions, first \in BOOLEAN,
            G \in SUBSET Definitions, d.id \notin Ids(G) DEF MayCome
  <2> QED BY ONLY <2>1, AddToColumnArrives
<1> QED BY <1>2, <1>16

(* The definitions of a chunk up to the k-th.                              *)
Upto(defs, k) == {defs[i] : i \in 1 .. k}
UptoArrived(v, defs, k, G, first) ==
  Sound(v) /\ Room(v, Len(defs) - k) /\ Arriving(v, G \cup Upto(defs, k), first) /\ AtPlaces(v)

(* addWidgetDefinitions(), for all of a chunk.                             *)
LEMMA AddDefinitionsArrive ==
  ASSUME NEW p, Sound(p), NEW defs \in Seq(Definitions), Room(p, Len(defs)), NEW first \in BOOLEAN,
         NEW G \in SUBSET Definitions, \A i \in 1 .. Len(defs) : defs[i].id \notin Ids(G),
         \A i, j \in 1 .. Len(defs) : i # j => defs[i].id # defs[j].id,
         Arriving(p, G, first), AtPlaces(p)
  PROVE  LET q == AddDefinitions(p, defs)
         IN Sound(q) /\ Arriving(q, G \cup Upto(defs, Len(defs)), first) /\ AtPlaces(q)
<1> DEFINE n == Len(defs)
           Ok == [k \in 0 .. n |-> {v \in States : UptoArrived(v, defs, k, G, first)}]
           H == [k \in 0 .. n - 1 |-> [v \in States |-> AddDefinition(v, defs[k + 1])]]
<1>1. n \in Nat
  BY LenProperties
<1>2. Ok \in [0 .. n -> SUBSET States] /\ p \in Ok[0]
  <2>1. p \in States
    BY SoundPointers, GoodIsState DEF Sound
  <2>2. 0 \in 0 .. n /\ G \cup Upto(defs, 0) = G
    BY <1>1 DEF Upto
  <2>3. Len(defs) - 0 = Len(defs)
    BY <1>1
  <2>4. UptoArrived(p, defs, 0, G, first)
    BY <2>2, <2>3 DEF UptoArrived
  <2> QED BY <1>1, <2>1, <2>2, <2>4
<1>3. ASSUME NEW k \in 0 .. n - 1, NEW v \in Ok[k]
      PROVE  /\ H[k][v] = AddDefinition(v, defs[k + 1]) /\ AddDefinition(v, defs[k + 1]) \in Ok[k + 1]
  <2>1. k \in 0 .. n /\ k + 1 \in 0 .. n /\ k + 1 \in 1 .. n
    BY <1>1
  <2>2. /\ v \in States /\ Sound(v) /\ Room(v, n - k)
        /\ Arriving(v, G \cup Upto(defs, k), first) /\ AtPlaces(v)
    BY <2>1 DEF UptoArrived
  <2>3. PICK i \in Nat : i = n - (k + 1) /\ n - k = i + 1
    <3>1. PICK i : i = n - (k + 1)
      OBVIOUS
    <3>2. i \in Nat /\ n - k = i + 1
      <4> HIDE DEF n
      <4> QED BY ONLY <1>1, <3>1, k \in 0 .. n - 1
    <3> QED BY <3>1, <3>2
  <2>4. PICK d \in Definitions : d = defs[k + 1]
    BY <2>1, LenProperties
  <2>5. Room(v, i + 1) /\ Room(v, 1)
    <3>1. Room(v, i + 1)
      BY <2>2, <2>3
    <3>2. Cardinality(Pointers(v)) \in Nat /\ MaxObjects \in Nat
      BY <2>2, SoundPointers, BoundsAssumption
    <3> QED BY <3>1, <3>2 DEF Room
  <2>6. Sound(AddDefinition(v, d)) /\ Room(AddDefinition(v, d), i)
    BY ONLY <2>2, <2>5, d \in Definitions, i \in Nat, AddDefinitionSound
  <2>7. AddDefinition(v, d) \in States
    BY <2>6, SoundPointers, GoodIsState DEF Sound
  <2>8. PICK F \in SUBSET Definitions : F = G \cup Upto(defs, k) /\ d.id \notin Ids(F)
    <3>1. \A x \in 1 .. k : x \in 1 .. n /\ x # k + 1 /\ defs[x] \in Definitions
      BY <1>1, LenProperties
    <3>2. \A x \in 1 .. k : defs[x].id # d.id
      BY <2>1, <2>4, <3>1
    <3>3. d.id \notin Ids(G)
      BY <2>1, <2>4
    <3>4. G \cup Upto(defs, k) \in SUBSET Definitions
      BY <3>1 DEF Upto
    <3>5. d.id \notin Ids(G \cup Upto(defs, k))
      BY <3>2, <3>3 DEF Ids, Upto
    <3> QED BY <3>4, <3>5
  <2>9. LET q == AddDefinition(v, d) IN Arriving(q, F \cup {d}, first) /\ AtPlaces(q)
    BY ONLY <2>2, <2>5, <2>8, d \in Definitions, first \in BOOLEAN, F \in SUBSET Definitions, AddDefinitionArrives
  <2>10. F \cup {d} = G \cup Upto(defs, k + 1)
    <3>1. Upto(defs, k + 1) = Upto(defs, k) \cup {d}
      <4>1. \A x : x \in 1 .. k + 1 <=> x \in 1 .. k \/ x = k + 1
        BY <2>1
      <4> QED BY <2>4, <4>1 DEF Upto
    <3> QED BY <2>8, <3>1
  <2>11. AddDefinition(v, d) \in {w \in States : UptoArrived(w, defs, k + 1, G, first)}
    BY <2>3, <2>6, <2>7, <2>9, <2>10 DEF UptoArrived
  <2> QED BY <2>1, <2>2, <2>4, <2>11
<1>4. \E g : IsRun(n, Ok, p, H, g)
  <2>1. \A k \in 0 .. n - 1 : \A v \in Ok[k] : H[k][v] \in Ok[k + 1]
    BY <1>3
  <2> HIDE DEF n, Ok, H
  <2>2. IsLoop(States, n, Ok, p, H)
    BY <1>2, <2>1 DEF IsLoop
  <2> QED BY <1>1, <2>2, LoopExists
<1>5. PICK f : /\ f = [k \in 0 .. n |-> IF k = 0 THEN p ELSE H[k - 1][f[k - 1]]]
               /\ \A k \in 0 .. n : f[k] \in Ok[k]
  BY <1>4 DEF IsRun
<1>6. ASSUME NEW k \in 0 .. n
      PROVE  (IF k = 0 THEN p ELSE H[k - 1][f[k - 1]]) = AddTurn(p, defs, f, k)
  <2>1. CASE k = 0
    BY <2>1 DEF AddTurn
  <2>2. CASE k # 0
    <3>1. PICK j : j = k - 1
      OBVIOUS
    <3>2. j \in 0 .. n - 1 /\ j \in 0 .. n /\ j + 1 = k
      BY <1>1, <2>2, <3>1
    <3>3. f[j] \in Ok[j]
      BY <1>5, <3>2
    <3>4. H[j][f[j]] = AddDefinition(f[j], defs[k])
      BY ONLY <1>3, <3>2, <3>3
    <3> QED BY ONLY <2>2, <3>1, <3>4 DEF AddTurn
  <2> QED BY <2>1, <2>2
<1>7. \E g : g = [k \in 0 .. n |-> AddTurn(p, defs, g, k)]
  <2>1. f = [k \in 0 .. n |-> AddTurn(p, defs, f, k)]
    BY <1>5, <1>6
  <2> QED BY <2>1
<1>8. PICK g : g = [k \in 0 .. n |-> AddTurn(p, defs, g, k)] /\ AddDefinitions(p, defs) = g[n]
  BY <1>7 DEF AddDefinitions, AddTurn
<1>9. g[0] = p
  BY <1>1, <1>8 DEF AddTurn
<1>10. ASSUME NEW k \in 0 .. n - 1, g[k] \in Ok[k]
       PROVE  g[k + 1] \in Ok[k + 1]
  <2>1. PICK j : j = k + 1
    OBVIOUS
  <2>2. j \in 0 .. n /\ j # 0 /\ j - 1 = k
    BY <1>1, <2>1
  <2>3. g[j] = AddDefinition(g[k], defs[j])
    BY <1>8, <2>2 DEF AddTurn
  <2> QED BY ONLY <1>3, <1>10, <2>1, <2>3, k \in 0 .. n - 1
<1>11. \A k \in 0 .. n : g[k] \in Ok[k]
  <2>1. g[0] \in Ok[0]
    BY ONLY <1>2, <1>9
  <2> HIDE DEF n, Ok
  <2> QED BY ONLY <1>1, <1>10, <2>1, LoopInvariant
<1>12. n \in 0 .. n
  BY <1>1
<1>13. g[n] \in Ok[n]
  BY ONLY <1>11, <1>12
<1>14. /\ Sound(g[n]) /\ Arriving(g[n], G \cup Upto(defs, n), first) /\ AtPlaces(g[n])
  BY <1>12, <1>13 DEF UptoArrived
<1> QED BY <1>8, <1>14

(* A state with the same columns and the same layout.                      *)
LEMMA SameColumns ==
  ASSUME NEW p, OneColumn(p), NEW q, q.columns = p.columns, q.layout = p.layout, q.crashed = p.crashed
  PROVE  OneColumn(q) /\ Top(q) = Top(p) /\ (AtPlaces(p) => AtPlaces(q))
<1>1. OneColumn(q) /\ Top(q) = Top(p)
  BY DEF OneColumn, Top
<1>2. \A w : PositionFromLayout(q, w) = PositionFromLayout(p, w)
  BY <1>1, SamePosition
<1> QED BY <1>1, <1>2 DEF AtPlaces, AtPlace

(* Whoever arrived is in the column, as a widget that is pointed to.       *)
LEMMA KeptIsThere ==
  ASSUME NEW p, NEW S \in SUBSET Objects, Good(p, S), OneColumn(p), NEW first, NEW e \in Definitions,
         Kept(p, e, first), NEW w, w = e.id, NEW x, x = Holder(Top(p), w)
  PROVE  /\ w \in WidgetIds /\ w \in DOMAIN Top(p).index /\ x \in S /\ p.byId[w] \in S /\ p.byId[w] # Gap
         /\ p.heap[p.byId[w]].received /\ p.heap[x].version = e.version /\ p.heap[x].received
         /\ p.heap[x].id = w
         /\ first => x = p.byId[w] /\ (p.heap[x].mapped => p.heap[x].value = p.allData)
<1>1. /\ w \in DOMAIN Top(p).index /\ p.byId[w] # Gap
      /\ p.heap[p.byId[w]].received /\ p.heap[x].version = e.version /\ p.heap[x].received
      /\ first => x = p.byId[w] /\ (p.heap[x].mapped => p.heap[x].value = p.allData)
  BY DEF Kept, ShownAs
<1>2. w \in WidgetIds /\ x \in S /\ p.heap[x].id = w
  BY <1>1, TopOk, HolderProperties
<1>3. p.byId[w] \in S
  BY <1>1, <1>2, TopOk
<1> QED BY <1>1, <1>2, <1>3

(* Objects that nobody points to do not matter.                            *)
LEMMA SameHeapArrives ==
  ASSUME NEW p, NEW S \in SUBSET Objects, Good(p, S), NEW first, NEW G \in SUBSET Definitions,
         Arriving(p, G, first), NEW q, \A o \in S : q.heap[o] = p.heap[o],
         q.byId = p.byId, q.columns = p.columns, q.allData = p.allData, q.crashed = p.crashed
  PROVE  Arriving(q, G, first)
<1>1. OneColumn(p)
  BY DEF Arriving
<1>2. OneColumn(q) /\ Top(q) = Top(p)
  BY <1>1 DEF OneColumn, Top
<1>3. ASSUME NEW e \in G PROVE Kept(q, e, first)
  <2>1. PICK w, x : w = e.id /\ x = Holder(Top(p), w)
    OBVIOUS
  <2>2. Kept(p, e, first)
    BY DEF Arriving
  <2>3. /\ w \in DOMAIN Top(p).index /\ x \in S /\ p.byId[w] \in S /\ p.byId[w] # Gap
        /\ p.heap[p.byId[w]].received /\ p.heap[x].version = e.version /\ p.heap[x].received
        /\ first => x = p.byId[w] /\ (p.heap[x].mapped => p.heap[x].value = p.allData)
    BY <1>1, <2>1, <2>2, KeptIsThere
  <2> QED BY <1>2, <2>1, <2>3 DEF Kept, ShownAs
<1>4. ASSUME NEW w \in WidgetIds \ Ids(G) PROVE Waits(q, w, first)
  <2>1. Waits(p, w, first)
    BY DEF Arriving
  <2>2. p.byId[w] # Gap => p.byId[w] \in S
    BY <1>1, TopOk
  <2> QED BY <1>2, <2>1, <2>2 DEF Waits
<1> QED BY <1>2, <1>3, <1>4 DEF Arriving

(* What updatePreviewData() changes: the value of widgets reached by id.   *)
LEMMA UpdatedData ==
  ASSUME NEW p, NEW S \in SUBSET Objects, Good(p, S), NEW v \in Values, NEW q, q = UpdatePreviewData(p, v)
  PROVE  /\ q.byId = p.byId /\ q.columns = p.columns /\ q.layout = p.layout /\ q.allData = v
         /\ q.crashed = p.crashed
         /\ \A o \in S : /\ q.heap[o].id = p.heap[o].id /\ q.heap[o].version = p.heap[o].version
                         /\ q.heap[o].mapped = p.heap[o].mapped /\ q.heap[o].received = p.heap[o].received
         /\ \A w \in WidgetIds : p.byId[w] \in S /\ p.heap[p.byId[w]].mapped => q.heap[p.byId[w]].value = v
<1>1. /\ p = MakeState(p.heap, p.byId, p.ordered, p.columns, p.layout, p.allData, p.crashed)
      /\ HeapOk(p.heap, S)
  BY DEF Good
<1>2. PICK changed : changed = {p.byId[w] : w \in WidgetIds} \ {Gap}
  OBVIOUS
<1>3. PICK g : g = [o \in Objects |-> IF o \in changed /\ p.heap[o].mapped
                                      THEN [p.heap[o] EXCEPT !.value = v] ELSE p.heap[o]]
  OBVIOUS
<1>4. \A o \in S : o \in Objects /\ p.heap[o] \in Widgets
  BY <1>1 DEF HeapOk, Valid
<1>5. ASSUME NEW w \in Widgets, NEW u, u = [w EXCEPT !.value = v]
      PROVE  u.id = w.id /\ u.version = w.version /\ u.mapped = w.mapped /\ u.received = w.received /\ u.value = v
  BY <1>5 DEF Widgets
<1>6. ASSUME NEW o \in S
      PROVE  /\ g[o].id = p.heap[o].id /\ g[o].version = p.heap[o].version
             /\ g[o].mapped = p.heap[o].mapped /\ g[o].received = p.heap[o].received
             /\ o \in changed /\ p.heap[o].mapped => g[o].value = v
  <2>1. PICK w, u : w = p.heap[o] /\ u = [w EXCEPT !.value = v] /\ w \in Widgets
    BY <1>4
  <2>2. u.id = w.id /\ u.version = w.version /\ u.mapped = w.mapped /\ u.received = w.received /\ u.value = v
    BY <1>5, <2>1
  <2>3. g[o] = IF o \in changed /\ w.mapped THEN u ELSE w
    BY <1>3, <1>4, <2>1
  <2> QED BY <2>1, <2>2, <2>3
<1>7. PICK b, s, cs, l, a, x, f :
        /\ b = p.byId /\ s = p.ordered /\ cs = p.columns /\ l = p.layout /\ a = p.allData /\ x = p.crashed
        /\ f = p.heap
  OBVIOUS
<1>8. q = [p EXCEPT !.allData = v, !.heap = g]
  BY ONLY <1>2, <1>3, q = UpdatePreviewData(p, v) DEF UpdatePreviewData
<1>9. q = MakeState(g, b, s, cs, l, v, x)
  <2>1. p = MakeState(f, b, s, cs, l, a, x)
    BY ONLY <1>1, <1>7
  <2> QED BY ONLY <1>8, <2>1 DEF MakeState
<1>10. q.heap = g /\ q.byId = b /\ q.columns = cs /\ q.layout = l /\ q.allData = v /\ q.crashed = x
  BY ONLY <1>9, StateFields
<1>11. ASSUME NEW w \in WidgetIds, p.byId[w] \in S, p.heap[p.byId[w]].mapped PROVE g[p.byId[w]].value = v
  <2>1. p.byId[w] \in changed
    BY <1>2, <1>11, ObjectsAreNumbers
  <2> QED BY <1>6, <1>11, <2>1
<1> QED BY <1>6, <1>7, <1>10, <1>11

(* updatePreviewData(), while a preview is on its way.                     *)
LEMMA UpdateDataArrives ==
  ASSUME NEW p, NEW S \in SUBSET Objects, Good(p, S), NEW v \in Values, NEW first,
         NEW G \in SUBSET Definitions, Arriving(p, G, first), NEW q, q = UpdatePreviewData(p, v)
  PROVE  Arriving(q, G, first) /\ (AtPlaces(p) => AtPlaces(q))
<1>1. OneColumn(p)
  BY DEF Arriving
<1>2. /\ q.byId = p.byId /\ q.columns = p.columns /\ q.layout = p.layout /\ q.allData = v
      /\ q.crashed = p.crashed
      /\ \A o \in S : /\ q.heap[o].id = p.heap[o].id /\ q.heap[o].version = p.heap[o].version
                      /\ q.heap[o].mapped = p.heap[o].mapped /\ q.heap[o].received = p.heap[o].received
      /\ \A w \in WidgetIds : p.byId[w] \in S /\ p.heap[p.byId[w]].mapped => q.heap[p.byId[w]].value = v
  BY UpdatedData
<1>3. OneColumn(q) /\ Top(q) = Top(p) /\ (AtPlaces(p) => AtPlaces(q))
  BY <1>1, <1>2, SameColumns
<1>4. ASSUME NEW e \in G PROVE Kept(q, e, first)
  <2>1. PICK w, x : w = e.id /\ x = Holder(Top(p), w)
    OBVIOUS
  <2>2. Kept(p, e, first)
    BY DEF Arriving
  <2>3. /\ w \in WidgetIds /\ w \in DOMAIN Top(p).index /\ x \in S /\ p.byId[w] \in S /\ p.byId[w] # Gap
        /\ p.heap[p.byId[w]].received /\ p.heap[x].version = e.version /\ p.heap[x].received
        /\ first => x = p.byId[w]
    BY <1>1, <2>1, <2>2, KeptIsThere
  <2>4. first => x = q.byId[w] /\ (q.heap[x].mapped => q.heap[x].value = q.allData)
    BY <1>2, <2>3
  <2>5. q.heap[x].version = e.version /\ q.heap[x].received /\ q.byId[w] # Gap /\ q.heap[q.byId[w]].received
    BY <1>2, <2>3
  <2> QED BY <1>3, <2>1, <2>3, <2>4, <2>5 DEF Kept, ShownAs
<1>5. ASSUME NEW w \in WidgetIds \ Ids(G) PROVE Waits(q, w, first)
  <2>1. Waits(p, w, first)
    BY DEF Arriving
  <2>2. p.byId[w] # Gap => p.byId[w] \in S
    BY <1>1, TopOk
  <2> QED BY <1>2, <1>3, <2>1, <2>2 DEF Waits
<1> QED BY <1>3, <1>4, <1>5 DEF Arriving

-----------------------------------------------------------------------------
(* The end of a preview takes away what did not arrive.                    *)

(* A finite set in some order has all its elements.                        *)
LEMMA SetToSeqHasAll ==
  ASSUME NEW T, IsFiniteSet(T)
  PROVE  /\ Len(SetToSeq(T)) = Cardinality(T) /\ SetToSeq(T) \in [1 .. Cardinality(T) -> T]
         /\ \A t \in T : \E i \in 1 .. Cardinality(T) : SetToSeq(T)[i] = t
<1>1. PICK n \in Nat : n = Cardinality(T) /\ ExistsBijection(1 .. n, T)
  BY FS_CardinalityType
<1>2. PICK f \in [1 .. n -> T] : IsInjective(f)
  BY <1>1 DEF ExistsBijection, Bijection, Injection, IsInjective
<1>3. PICK s \in [1 .. n -> T] : s = SetToSeq(T) /\ IsInjective(s)
  BY <1>1, <1>2 DEF SetToSeq
<1>4. ASSUME NEW t \in T, \A i \in 1 .. n : s[i] # t PROVE FALSE
  <2>1. PICK U : U = T \ {t}
    OBVIOUS
  <2>2. IsFiniteSet(U) /\ Cardinality(U) = n - 1
    BY <1>1, <2>1, FS_RemoveElement
  <2>3. IsFiniteSet(1 .. n) /\ Cardinality(1 .. n) = n
    BY FS_Interval
  <2>4. s \in [1 .. n -> U]
    BY <1>4, <2>1
  <2>5. \E i, j \in 1 .. n : i # j /\ s[i] = s[j]
    <3>1. Cardinality(U) < Cardinality(1 .. n)
      BY <2>2, <2>3
    <3> QED BY ONLY <2>2, <2>3, <2>4, <3>1, FS_PigeonHole
  <2> QED BY <1>3, <2>5 DEF IsInjective
<1> QED BY <1>1, <1>3, <1>4

(* What is left of p when the widgets of D are gone.                       *)
Left(p, q, D) ==
  /\ OneColumn(q) /\ q.heap = p.heap /\ q.allData = p.allData /\ q.layout = p.layout
  /\ \A w \in WidgetIds : q.byId[w] = IF w \in D THEN Gap ELSE p.byId[w]
  /\ DOMAIN Top(q).index = DOMAIN Top(p).index \ D
  /\ \A w \in DOMAIN Top(q).index : Holder(Top(q), w) = Holder(Top(p), w)

(* One widget goes.                                                        *)
LEMMA DropWidgetLeaves ==
  ASSUME NEW p, NEW S \in SUBSET Objects, Good(p, S), OneColumn(p), NEW w \in WidgetIds
  PROVE  Left(p, DropWidget(p, w), {w})
<1>1. /\ p = MakeState(p.heap, p.byId, p.ordered, p.columns, p.layout, p.allData, p.crashed)
      /\ ByIdOk(p.heap, p.byId, S)
  BY DEF Good
<1>2. PICK cs : cs = [c \in 1 .. Len(p.columns) |-> RemoveWidget(p.heap, p.columns[c], w)]
  OBVIOUS
<1>3. PICK s : s = RemoveFirst(p.ordered, p.byId[w])
  OBVIOUS
<1>4. PICK b : b = [p.byId EXCEPT ![w] = Gap]
  OBVIOUS
<1>5. PICK q : q = DropWidget(p, w)
  OBVIOUS
<1>6. q = MakeState(p.heap, b, s, cs, p.layout, p.allData, p.crashed)
  <2>1. q = [p EXCEPT !.columns = cs, !.ordered = s, !.byId = b]
    <3>1. q = [p EXCEPT !.columns = cs, !.ordered = s, !.byId[w] = Gap]
      BY ONLY <1>2, <1>3, <1>5 DEF DropWidget
    <3> QED BY ONLY <1>4, <3>1
  <2>2. PICK h0, b0, s0, cs0, l0, a0, x0 :
          /\ h0 = p.heap /\ b0 = p.byId /\ s0 = p.ordered /\ cs0 = p.columns /\ l0 = p.layout /\ a0 = p.allData
          /\ x0 = p.crashed
    OBVIOUS
  <2>3. p = MakeState(h0, b0, s0, cs0, l0, a0, x0)
    BY ONLY <1>1, <2>2
  <2>4. q = MakeState(h0, b, s, cs, l0, a0, x0)
    BY ONLY <2>1, <2>3 DEF MakeState
  <2> QED BY ONLY <2>2, <2>4
<1>7. /\ q.heap = p.heap /\ q.byId = b /\ q.columns = cs /\ q.layout = p.layout /\ q.allData = p.allData
      /\ q.crashed = p.crashed
  BY ONLY <1>6, StateFields
<1>8. PICK m, n : m = Top(p) /\ n = RemoveWidget(p.heap, m, w)
  OBVIOUS
<1>9. Len(p.columns) = 1 /\ ~p.crashed
  BY DEF OneColumn
<1>10. cs = [c \in 1 .. 1 |-> RemoveWidget(p.heap, p.columns[c], w)]
  BY ONLY <1>2, <1>9
<1>11. Len(cs) = 1 /\ cs[1] = n
  BY ONLY <1>8, <1>10 DEF Top
<1>12. OneColumn(q) /\ Top(q) = n
  BY <1>7, <1>9, <1>11 DEF OneColumn, Top
<1>13. DOMAIN n.index = DOMAIN m.index \ {w} /\ \A x \in DOMAIN n.index : Holder(n, x) = Holder(m, x)
  <2>1. PICK h : h = p.heap
    OBVIOUS
  <2>2. ColumnOk(h, S, m) /\ Gap \notin S /\ n = RemoveWidget(h, m, w)
    BY <1>8, <2>1, TopOk
  <2>3. Lost(n, m, w)
    BY ONLY <2>2, RemovedHolders
  <2> QED BY ONLY <2>3 DEF Lost
<1>14. \A x \in WidgetIds : b[x] = IF x \in {w} THEN Gap ELSE p.byId[x]
  BY <1>1, <1>4 DEF ByIdOk
<1>15. Left(p, q, {w})
  BY ONLY <1>7, <1>8, <1>12, <1>13, <1>14 DEF Left
<1> QED BY <1>5, <1>15

(* And another.                                                            *)
LEMMA LeftAlso ==
  ASSUME NEW p, NEW q, NEW r, NEW D, NEW E, Left(p, q, D), Left(q, r, E)
  PROVE  Left(p, r, D \cup E)
BY DEF Left

(* The first k of a list.                                                  *)
FirstOf(gone, k) == {gone[i] : i \in 1 .. k}
DroppedTo(p, v, gone, k, S) == Good(v, S) /\ Left(p, v, FirstOf(gone, k)) /\ (k = 0 => v = p)

(* All go that were not received, and no other.                            *)
LEMMA RemoveNotReceivedLeaves ==
  ASSUME NEW p, NEW S \in SUBSET Objects, Good(p, S), OneColumn(p), NEW q, q = RemoveNotReceived(p)
  PROVE  Left(p, q, NotReceived(p)) /\ (NotReceived(p) = {} => q = p)
<1>1. PICK T : T = NotReceived(p) /\ T \in SUBSET WidgetIds /\ IsFiniteSet(T)
  <2>1. PICK T : T = NotReceived(p) /\ T \in SUBSET WidgetIds
    BY DEF NotReceived
  <2>2. IsFiniteSet(T)
    BY <2>1, WidgetsAssumption, FS_Subset
  <2> QED BY <2>1, <2>2
<1>2. PICK n \in Nat : n = Cardinality(T)
  BY <1>1, FS_CardinalityType
<1>3. PICK gone : /\ gone = SetToSeq(T) /\ Len(gone) = n /\ gone \in [1 .. n -> T]
                  /\ \A t \in T : \E i \in 1 .. n : gone[i] = t
  BY <1>1, <1>2, SetToSeqHasAll
<1> DEFINE Ok == [k \in 0 .. n |-> {v \in States : DroppedTo(p, v, gone, k, S)}]
           H == [k \in 0 .. n - 1 |-> [v \in States |-> DropWidget(v, gone[k + 1])]]
<1>4. Ok \in [0 .. n -> SUBSET States] /\ p \in Ok[0]
  <2>1. p \in States
    BY GoodIsState
  <2>2. 0 \in 0 .. n
    OBVIOUS
  <2>3. Left(p, p, {})
    BY DEF Left
  <2>4. FirstOf(gone, 0) = {}
    BY DEF FirstOf
  <2>5. DroppedTo(p, p, gone, 0, S)
    BY <2>3, <2>4 DEF DroppedTo
  <2> QED BY <2>1, <2>2, <2>5
<1>5. ASSUME NEW k \in 0 .. n - 1, NEW v \in Ok[k]
      PROVE  /\ H[k][v] = DropWidget(v, gone[k + 1]) /\ DropWidget(v, gone[k + 1]) \in Ok[k + 1]
  <2>1. k \in 0 .. n /\ k + 1 \in 0 .. n /\ k + 1 \in 1 .. n /\ k + 1 # 0
    OBVIOUS
  <2>2. v \in States /\ Good(v, S) /\ Left(p, v, FirstOf(gone, k)) /\ OneColumn(v)
    BY <2>1 DEF DroppedTo, Left
  <2>3. PICK w \in WidgetIds : w = gone[k + 1]
    BY <1>1, <1>3, <2>1
  <2>4. Good(DropWidget(v, w), S)
    BY <2>2, DropWidgetGood
  <2>5. DropWidget(v, w) \in States
    BY <2>4, GoodIsState
  <2>6. Left(v, DropWidget(v, w), {w})
    BY <2>2, DropWidgetLeaves
  <2>7. Left(p, DropWidget(v, w), FirstOf(gone, k) \cup {w})
    BY <2>2, <2>6, LeftAlso
  <2>8. FirstOf(gone, k + 1) = FirstOf(gone, k) \cup {w}
    <3>1. \A x : x \in 1 .. k + 1 <=> x \in 1 .. k \/ x = k + 1
      BY <2>1
    <3> QED BY <2>3, <3>1 DEF FirstOf
  <2>9. DroppedTo(p, DropWidget(v, w), gone, k + 1, S)
    BY <2>1, <2>4, <2>7, <2>8 DEF DroppedTo
  <2> QED BY <2>1, <2>2, <2>3, <2>5, <2>9
<1>6. \E g : IsRun(n, Ok, p, H, g)
  <2>1. \A k \in 0 .. n - 1 : \A v \in Ok[k] : H[k][v] \in Ok[k + 1]
    BY <1>5
  <2> HIDE DEF Ok, H
  <2>2. IsLoop(States, n, Ok, p, H)
    BY <1>4, <2>1 DEF IsLoop
  <2> QED BY <2>2, LoopExists
<1>7. PICK f : /\ f = [k \in 0 .. n |-> IF k = 0 THEN p ELSE H[k - 1][f[k - 1]]]
               /\ \A k \in 0 .. n : f[k] \in Ok[k]
  BY <1>6 DEF IsRun
<1>8. ASSUME NEW k \in 0 .. n
      PROVE  (IF k = 0 THEN p ELSE H[k - 1][f[k - 1]]) = DropTurn(p, gone, f, k)
  <2>1. CASE k = 0
    BY <2>1 DEF DropTurn
  <2>2. CASE k # 0
    <3>1. PICK j : j = k - 1
      OBVIOUS
    <3>2. j \in 0 .. n - 1 /\ j \in 0 .. n /\ j + 1 = k
      BY <2>2, <3>1
    <3>3. f[j] \in Ok[j]
      BY <1>7, <3>2
    <3>4. H[j][f[j]] = DropWidget(f[j], gone[k])
      BY ONLY <1>5, <3>2, <3>3
    <3> QED BY ONLY <2>2, <3>1, <3>4 DEF DropTurn
  <2> QED BY <2>1, <2>2
<1>9. \E g : g = [k \in 0 .. n |-> DropTurn(p, gone, g, k)]
  <2>1. f = [k \in 0 .. n |-> DropTurn(p, gone, f, k)]
    BY <1>7, <1>8
  <2> QED BY <2>1
<1>10. PICK g : g = [k \in 0 .. n |-> DropTurn(p, gone, g, k)] /\ RemoveNotReceived(p) = g[n]
  <2>1. gone = SetToSeq(NotReceived(p))
    BY ONLY <1>1, <1>3
  <2>2. \E g : g = [k \in 0 .. Len(gone) |-> DropTurn(p, gone, g, k)]
    BY ONLY <1>3, <1>9
  <2>3. PICK g : g = [k \in 0 .. Len(gone) |-> DropTurn(p, gone, g, k)] /\ RemoveNotReceived(p) = g[Len(gone)]
    BY ONLY <2>1, <2>2 DEF RemoveNotReceived, DropTurn, NotReceived
  <2> QED BY ONLY <1>3, <2>3
<1>11. g[0] = p
  BY <1>10 DEF DropTurn
<1>12. ASSUME NEW k \in 0 .. n - 1, g[k] \in Ok[k]
       PROVE  g[k + 1] \in Ok[k + 1]
  <2>1. PICK j : j = k + 1
    OBVIOUS
  <2>2. j \in 0 .. n /\ j # 0 /\ j - 1 = k
    BY <2>1
  <2>3. g[j] = DropWidget(g[k], gone[j])
    BY <1>10, <2>2 DEF DropTurn
  <2> QED BY ONLY <1>5, <1>12, <2>1, <2>3, k \in 0 .. n - 1
<1>13. \A k \in 0 .. n : g[k] \in Ok[k]
  <2>1. g[0] \in Ok[0]
    BY ONLY <1>4, <1>11
  <2> HIDE DEF Ok
  <2> QED BY ONLY n \in Nat, <1>12, <2>1, LoopInvariant
<1>14. n \in 0 .. n
  OBVIOUS
<1>15. DroppedTo(p, q, gone, n, S)
  <2>1. g[n] \in Ok[n]
    BY ONLY <1>13, <1>14
  <2>2. DroppedTo(p, g[n], gone, n, S)
    BY <1>14, <2>1
  <2>3. q = g[n]
    BY <1>10
  <2> QED BY ONLY <2>2, <2>3
<1>16. FirstOf(gone, n) = T
  BY <1>3 DEF FirstOf
<1>17. T = {} => n = 0
  BY <1>2, FS_EmptySet
<1> QED BY <1>1, <1>15, <1>16, <1>17 DEF DroppedTo

(* The end of a preview: what arrived stays, all else goes.                *)
LEMMA RemovedArrives ==
  ASSUME NEW p, NEW S \in SUBSET Objects, Good(p, S), NEW first \in BOOLEAN, NEW G \in SUBSET Definitions,
         Arriving(p, G, first), NEW q, q = RemoveNotReceived(p)
  PROVE  /\ Arriving(q, G, first) /\ (first /\ AtPlaces(p) => AtPlaces(q))
         /\ \A w \in WidgetIds \ Ids(G) : q.byId[w] = Gap
<1>1. OneColumn(p)
  BY DEF Arriving
<1>2. PICK D : D = NotReceived(p)
  OBVIOUS
<1>3. Left(p, q, D) /\ (D = {} => q = p)
  BY <1>1, <1>2, RemoveNotReceivedLeaves
<1>4. /\ OneColumn(q) /\ q.heap = p.heap /\ q.allData = p.allData
      /\ \A w \in WidgetIds : q.byId[w] = IF w \in D THEN Gap ELSE p.byId[w]
      /\ DOMAIN Top(q).index = DOMAIN Top(p).index \ D
      /\ \A w \in DOMAIN Top(q).index : Holder(Top(q), w) = Holder(Top(p), w)
  BY <1>3 DEF Left
<1>5. D = {w \in WidgetIds : p.byId[w] # Gap /\ ~p.heap[p.byId[w]].received}
  BY <1>2 DEF NotReceived
<1>6. ASSUME NEW e \in G PROVE Kept(q, e, first) /\ e.id \notin D
  <2>1. PICK w, x : w = e.id /\ x = Holder(Top(p), w)
    OBVIOUS
  <2>2. Kept(p, e, first)
    BY DEF Arriving
  <2>3. /\ w \in WidgetIds /\ w \in DOMAIN Top(p).index /\ p.byId[w] # Gap
        /\ p.heap[p.byId[w]].received /\ p.heap[x].version = e.version /\ p.heap[x].received
        /\ first => x = p.byId[w] /\ (p.heap[x].mapped => p.heap[x].value = p.allData)
    BY <1>1, <2>1, <2>2, KeptIsThere
  <2>4. w \notin D
    BY <1>5, <2>3
  <2>5. w \in DOMAIN Top(q).index /\ Holder(Top(q), w) = x /\ q.byId[w] = p.byId[w]
    BY <1>4, <2>1, <2>3, <2>4
  <2> QED BY <1>4, <2>1, <2>3, <2>4, <2>5 DEF Kept, ShownAs
<1>7. ASSUME NEW w \in WidgetIds \ Ids(G)
      PROVE  q.byId[w] = Gap /\ Waits(q, w, first) /\ (first => w \notin D)
  <2>1. Waits(p, w, first)
    BY DEF Arriving
  <2>2. p.byId[w] = Gap \/ w \in D
    BY <1>5, <2>1 DEF Waits
  <2>3. q.byId[w] = Gap
    BY <1>4, <2>2
  <2>4. w \notin DOMAIN Top(q).index
    BY <1>4, <2>1, <2>2 DEF Waits
  <2>5. first => w \notin D
    BY <1>5, <2>1 DEF Waits
  <2> QED BY <2>3, <2>4, <2>5 DEF Waits
<1>8. first => D = {}
  <2>1. ASSUME first, NEW w \in D PROVE FALSE
    <3>1. w \in WidgetIds /\ w \in Ids(G)
      BY <1>5, <1>7, <2>1
    <3>2. PICK e \in G : e.id = w
      BY <3>1 DEF Ids
    <3> QED BY <1>6, <2>1, <3>2
  <2> QED BY <2>1
<1>9. Arriving(q, G, first)
  BY <1>4, <1>6, <1>7 DEF Arriving
<1> QED BY <1>3, <1>7, <1>8, <1>9

(* What a chunk brings, then its data, then the end of the preview.        *)
LEMMA ChunkArrives ==
  ASSUME NEW p, Sound(p), NEW defs \in Seq(Definitions), Room(p, Len(defs)), NEW v, v = Null \/ v \in Values,
         NEW finished \in BOOLEAN, NEW first \in BOOLEAN,
         NEW G \in SUBSET Definitions, \A i \in 1 .. Len(defs) : defs[i].id \notin Ids(G),
         \A i, j \in 1 .. Len(defs) : i # j => defs[i].id # defs[j].id,
         Arriving(p, G, first), AtPlaces(p), NEW F, F = G \cup Upto(defs, Len(defs)),
         NEW q, q = Completed(WithData(AddDefinitions(p, defs), v), finished)
  PROVE  /\ Sound(q) /\ Arriving(q, F, first) /\ (first \/ ~finished => AtPlaces(q))
         /\ finished => \A w \in WidgetIds \ Ids(F) : q.byId[w] = Gap
<1>1. PICK p1 : p1 = AddDefinitions(p, defs) /\ Sound(p1) /\ Arriving(p1, F, first) /\ AtPlaces(p1)
  BY AddDefinitionsArrive
<1>2. PICK S \in SUBSET Objects : Good(p1, S)
  BY <1>1, SoundPointers DEF Sound
<1>3. F \in SUBSET Definitions
  BY LenProperties DEF Upto
<1>4. PICK p2 : p2 = WithData(p1, v)
  OBVIOUS
<1>5. Good(p2, S) /\ Arriving(p2, F, first) /\ AtPlaces(p2)
  <2>1. CASE v = Null
    BY <1>1, <1>2, <1>4, <2>1 DEF WithData
  <2>2. CASE v # Null
    <3>1. v \in Values /\ p2 = UpdatePreviewData(p1, v)
      BY <1>4, <2>2 DEF WithData
    <3>2. Good(p2, S)
      BY <1>2, <3>1, UpdatePreviewDataGood
    <3> QED BY <1>1, <1>2, <1>3, <3>1, <3>2, UpdateDataArrives
  <2> QED BY <2>1, <2>2
<1>6. q = Completed(p2, finished)
  BY <1>1, <1>4
<1>7. CASE ~finished
  <2>1. q = p2
    BY <1>6, <1>7 DEF Completed
  <2> QED BY <1>5, <1>7, <2>1, SoundIntro
<1>8. CASE finished
  <2>1. q = RemoveNotReceived(p2)
    BY <1>6, <1>8 DEF Completed
  <2>2. Good(q, S)
    BY <1>5, <2>1, RemoveNotReceivedGood
  <2>3. Arriving(q, F, first) /\ (first => AtPlaces(q)) /\ \A w \in WidgetIds \ Ids(F) : q.byId[w] = Gap
    BY ONLY <1>3, <1>5, <2>1, S \in SUBSET Objects, first \in BOOLEAN, RemovedArrives
  <2> QED BY <1>8, <2>2, <2>3, SoundIntro
<1> QED BY <1>7, <1>8

-----------------------------------------------------------------------------
(* The invariant, and the handlers that keep it.                           *)

Arrived == {arrived[w] : w \in DOMAIN arrived}
IsFirst == previews <= 1

(* What arrived are widgets that a scope may push, by their ids.           *)
ArrivedOk ==
  /\ updates \in Nat /\ previews \in Nat
  /\ \A w \in DOMAIN arrived : arrived[w] \in Definitions /\ arrived[w].id = w
  /\ previews = 0 => DOMAIN arrived = {}

(* Two previews without a change of the columns or an update in place; the *)
(* second may still take widgets over from the first.                      *)
ArrivedInv ==
  /\ ArrivedOk
  /\ updates = 0 /\ previews <= 2 =>
       /\ Arriving(State, Arrived, IsFirst)
       /\ IsFirst \/ ~loaded => AtPlaces(State)
       /\ loaded => \A w \in WidgetIds \ DOMAIN arrived : byId[w] = Gap

(* The ids of what arrived.                                                *)
LEMMA ArrivedIds ==
  ASSUME ArrivedOk
  PROVE  Arrived \in SUBSET Definitions /\ Ids(Arrived) = DOMAIN arrived /\ IsFirst \in BOOLEAN
<1>1. Arrived \in SUBSET Definitions
  BY DEF ArrivedOk, Arrived
<1>2. Ids(Arrived) = DOMAIN arrived
  BY DEF ArrivedOk, Arrived, Ids
<1>3. IsFirst \in BOOLEAN
  BY DEF ArrivedOk, IsFirst
<1> QED BY <1>1, <1>2, <1>3

(* Nothing has arrived when the model is created.                          *)
LEMMA InitArrives ==
  ASSUME Init
  PROVE  ArrivedInv
<1>1. /\ byId = [w \in WidgetIds |-> Gap] /\ columns = <<EmptyColumn>> /\ crashed = FALSE /\ loaded = FALSE
      /\ previews = 0 /\ arrived = <<>> /\ updates = 0
  BY DEF Init
<1>2. DOMAIN arrived = {}
  BY <1>1
<1>3. ArrivedOk
  BY <1>1, <1>2 DEF ArrivedOk
<1>4. PICK p : p = State /\ p.byId = byId /\ p.columns = columns /\ p.crashed = crashed
  BY StateFieldsAre
<1>5. OneColumn(p) /\ Top(p) = EmptyColumn
  BY <1>1, <1>4 DEF OneColumn, Top
<1>6. DOMAIN Top(p).index = {}
  BY <1>5 DEF EmptyColumn
<1>7. Arrived = {} /\ Ids(Arrived) = {}
  BY <1>2 DEF Arrived, Ids
<1>8. Arriving(p, Arrived, IsFirst)
  BY <1>1, <1>4, <1>5, <1>6, <1>7 DEF Arriving, Waits
<1>9. AtPlaces(p)
  BY <1>6 DEF AtPlaces
<1>10. Arriving(State, Arrived, IsFirst) /\ AtPlaces(State)
  BY ONLY <1>4, <1>8, <1>9
<1> QED BY <1>1, <1>3, <1>10 DEF ArrivedInv

(* What a handler leaves, with the objects that nobody points to freed.    *)
LEMMA SetStateArrives ==
  ASSUME NEW q, Sound(q), SetState(q), NEW G \in SUBSET Definitions, NEW first, Arriving(q, G, first)
  PROVE  Arriving(State', G, first) /\ (AtPlaces(q) => AtPlaces(State')) /\ byId' = q.byId
<1>1. PICK S \in SUBSET Objects : S = Pointers(q) /\ Good(q, S)
  BY SoundPointers DEF Sound
<1>2. PICK r : r = State'
  OBVIOUS
<1>3. /\ r.heap = heap' /\ r.byId = q.byId /\ r.columns = q.columns /\ r.layout = q.layout
      /\ r.allData = q.allData /\ r.crashed = q.crashed /\ byId' = q.byId
  BY <1>2 DEF SetState, State
<1>4. \A o \in S : r.heap[o] = q.heap[o]
  BY <1>1, <1>3 DEF SetState, Pointers
<1>5. Arriving(r, G, first)
  BY <1>1, <1>3, <1>4, SameHeapArrives
<1>6. AtPlaces(q) => AtPlaces(r)
  <2>1. OneColumn(q)
    BY DEF Arriving
  <2> QED BY <1>3, <2>1, SameColumns
<1> QED BY ONLY <1>2, <1>3, <1>5, <1>6

(* dispatchPreview(): nothing has arrived yet, and what the preview before *)
(* left is there, unmarked.                                                *)
LEMMA DispatchArrives ==
  ASSUME StateSound, ArrivedInv, DispatchPreview
  PROVE  ArrivedInv'
<1>1. ArrivedOk /\ previews \in Nat /\ updates \in Nat
  BY DEF ArrivedInv, ArrivedOk
<1>2. /\ loaded' = FALSE /\ previews' = previews + 1 /\ arrived' = <<>> /\ updates' = updates
      /\ byId' = byId /\ columns' = columns /\ layout' = layout /\ allData' = allData /\ crashed' = crashed
      /\ heap' = [o \in Objects |-> IF \E w \in WidgetIds : byId[w] = o
                                    THEN [heap[o] EXCEPT !.received = FALSE] ELSE heap[o]]
  BY DEF DispatchPreview
<1>3. DOMAIN arrived' = {}
  BY <1>2
<1>4. ArrivedOk'
  BY <1>1, <1>2, <1>3 DEF ArrivedOk
<1>5. Arrived' = {}
  BY <1>3 DEF Arrived
<1>6. SUFFICES ASSUME updates = 0, previews' <= 2
               PROVE  Arriving(State', {}, IsFirst') /\ AtPlaces(State')
  BY <1>2, <1>4, <1>5 DEF ArrivedInv
<1>7. previews <= 1 /\ previews <= 2 /\ IsFirst /\ (IsFirst' => previews = 0)
  BY <1>1, <1>2, <1>6 DEF IsFirst
<1>8. PICK p : /\ p = State /\ p.byId = byId /\ p.columns = columns /\ p.layout = layout /\ p.crashed = crashed
               /\ p.heap = heap
  BY StateFieldsAre
<1>9. Arriving(p, Arrived, TRUE) /\ AtPlaces(p)
  <2>1. Arriving(State, Arrived, IsFirst) /\ AtPlaces(State)
    BY ONLY ArrivedInv, <1>6, <1>7 DEF ArrivedInv
  <2>2. IsFirst = TRUE
    BY <1>1, <1>7, ArrivedIds
  <2> QED BY ONLY <1>8, <2>1, <2>2
<1>10. PICK S \in SUBSET Objects : Good(p, S)
  BY <1>8, SoundStateElim DEF StateSound, Sound
<1>11. PICK q : /\ q = State' /\ q.byId = byId /\ q.columns = columns /\ q.layout = layout /\ q.crashed = crashed
                /\ q.heap = heap'
  <2>1. PICK q : q = State'
    OBVIOUS
  <2>2. q = [heap |-> heap', byId |-> byId', ordered |-> ordered', columns |-> columns',
             layout |-> layout', allData |-> allData', crashed |-> crashed']
    BY ONLY <2>1 DEF State
  <2>3. /\ q.byId = byId' /\ q.columns = columns' /\ q.layout = layout' /\ q.crashed = crashed'
        /\ q.heap = heap'
    BY ONLY <2>2
  <2>4. byId' = byId /\ columns' = columns /\ layout' = layout /\ crashed' = crashed
    BY ONLY <1>2
  <2> QED BY ONLY <2>1, <2>3, <2>4
<1>12. OneColumn(p) /\ OneColumn(q) /\ Top(q) = Top(p) /\ AtPlaces(q)
  <2>1. OneColumn(p)
    BY <1>9 DEF Arriving
  <2> QED BY <1>8, <1>9, <1>11, <2>1, SameColumns
<1>13. ASSUME NEW w \in WidgetIds PROVE Waits(q, w, IsFirst')
  <2>1. byId[w] # Gap => ~heap'[byId[w]].received
    <3>1. SUFFICES ASSUME byId[w] # Gap PROVE ~heap'[byId[w]].received
      OBVIOUS
    <3>2. byId[w] \in S /\ HeapOk(p.heap, S)
      BY <1>8, <1>10, <1>12, <3>1, TopOk
    <3>3. PICK o \in Objects : o = byId[w] /\ heap[o] \in Widgets
      BY <1>8, <3>2 DEF HeapOk, Valid
    <3>4. heap'[o] = [heap[o] EXCEPT !.received = FALSE]
      BY <1>2, <3>3
    <3>5. ASSUME NEW x \in Widgets PROVE [x EXCEPT !.received = FALSE].received = FALSE
      BY DEF Widgets
    <3> QED BY <3>3, <3>4, <3>5
  <2>2. w \in DOMAIN Top(p).index => byId[w] # Gap /\ Holder(Top(p), w) = byId[w]
    <3>1. CASE w \in Ids(Arrived)
      <4>1. PICK e \in Arrived : e.id = w
        BY <3>1 DEF Ids
      <4>2. Kept(p, e, TRUE)
        BY <1>9 DEF Arriving
      <4> QED BY <1>8, <4>1, <4>2 DEF Kept, ShownAs
    <3>2. CASE w \notin Ids(Arrived)
      <4>1. Waits(p, w, TRUE)
        BY <1>9, <3>2 DEF Arriving
      <4> QED BY <1>8, <4>1 DEF Waits
    <3> QED BY <3>1, <3>2
  <2>3. IsFirst' => byId[w] = Gap
    <3>1. SUFFICES ASSUME previews = 0 PROVE byId[w] = Gap
      BY <1>7
    <3>2. w \notin Ids(Arrived)
      BY <1>1, <3>1, ArrivedIds DEF ArrivedOk
    <3>3. Waits(p, w, TRUE)
      BY <1>9, <3>2 DEF Arriving
    <3> QED BY <1>8, <3>3 DEF Waits
  <2> QED BY <1>11, <1>12, <2>1, <2>2, <2>3 DEF Waits
<1>14. Arriving(q, {}, IsFirst')
  BY <1>12, <1>13 DEF Arriving, Ids
<1> QED BY ONLY <1>11, <1>12, <1>14

(* The layout that a chunk brings comes before the widgets, so that none   *)
(* is above the place that it gives.                                       *)
LEMMA WithLayoutArrives ==
  ASSUME StateSound, NEW new \in Layouts \cup {Null}, ArrivedOk, Arriving(State, Arrived, IsFirst),
         AtPlaces(State), new # Null => IsFirst /\ DOMAIN arrived = {}, NEW p, p = WithLayout(new)
  PROVE  Arriving(p, Arrived, IsFirst) /\ AtPlaces(p)
<1>0. PICK S \in SUBSET Objects : Good(State, S)
  BY SoundStateElim DEF StateSound, Sound
<1>1. PICK r : r = State /\ Good(r, S) /\ Arriving(r, Arrived, IsFirst) /\ AtPlaces(r)
  BY ONLY <1>0, Arriving(State, Arrived, IsFirst), AtPlaces(State)
<1>2. PICK l : l = ChunkLayout(new)
  OBVIOUS
<1>3. p = MakeState(heap, byId, ordered, columns, l, allData, crashed)
  <2>1. p = [State EXCEPT !.layout = l]
    BY ONLY <1>2, p = WithLayout(new) DEF WithLayout
  <2> QED BY ONLY <2>1, StateIs DEF MakeState
<1>4. /\ p.heap = r.heap /\ p.byId = r.byId /\ p.columns = r.columns /\ p.allData = r.allData
      /\ p.crashed = r.crashed /\ p.layout = l
  BY ONLY <1>1, <1>3, StateFields, StateIs
<1>5. Arriving(p, Arrived, IsFirst)
  BY <1>1, <1>4, ArrivedIds, SameHeapArrives
<1>6. AtPlaces(p)
  <2>1. OneColumn(r)
    BY <1>1 DEF Arriving
  <2>2. CASE new = Null
    <3>1. p.layout = r.layout
      BY <1>1, <1>2, <1>4, <2>2, StateFieldsAre DEF ChunkLayout
    <3> QED BY <1>1, <1>4, <2>1, <3>1, SameColumns
  <2>3. CASE new # Null
    <3>1. \A w \in WidgetIds : Waits(r, w, TRUE)
      BY <1>1, <2>3, ArrivedIds DEF Arriving
    <3>2. \A w \in DOMAIN Top(r).index : w \in WidgetIds
      BY <1>1, <2>1, TopOk, HolderProperties
    <3>3. DOMAIN Top(r).index = {}
      BY <3>1, <3>2 DEF Waits
    <3>4. Top(p) = Top(r)
      BY <1>4 DEF Top
    <3> QED BY <3>3, <3>4 DEF AtPlaces
  <2> QED BY <2>2, <2>3
<1> QED BY <1>5, <1>6

(* What a chunk adds to what arrived.                                      *)
LEMMA ChunkAdds ==
  ASSUME ArrivedOk, NEW new, NEW defs \in Seq(Definitions), NEW v, NEW finished,
         \A i, j \in 1 .. Len(defs) : i # j => defs[i].id # defs[j].id,
         ProcessPreviewChunk(new, defs, v, finished)
  PROVE  ArrivedOk' /\ Arrived' = Arrived \cup Upto(defs, Len(defs))
<1>1. /\ previews > 0 /\ previews' = previews
      /\ updates' = IF new # Null /\ previews > 1 THEN updates + 1 ELSE updates
      /\ \A i \in 1 .. Len(defs) : defs[i].id \notin DOMAIN arrived
  BY DEF ProcessPreviewChunk
<1>2. PICK I : I = {defs[i].id : i \in 1 .. Len(defs)}
  OBVIOUS
<1>3. arrived' = [w \in DOMAIN arrived \cup I |->
                    IF w \in DOMAIN arrived THEN arrived[w]
                    ELSE defs[CHOOSE i \in 1 .. Len(defs) : defs[i].id = w]]
  BY ONLY <1>2, ProcessPreviewChunk(new, defs, v, finished) DEF ProcessPreviewChunk
<1>4. DOMAIN arrived' = DOMAIN arrived \cup I
  BY ONLY <1>3
<1>5. \A w \in DOMAIN arrived : arrived'[w] = arrived[w]
  BY ONLY <1>3
<1>6. \A i \in 1 .. Len(defs) : defs[i] \in Definitions
  BY LenProperties
<1>7. ASSUME NEW i \in 1 .. Len(defs) PROVE defs[i].id \in DOMAIN arrived' /\ arrived'[defs[i].id] = defs[i]
  <2>1. PICK w : w = defs[i].id /\ w \in I /\ w \notin DOMAIN arrived
    BY <1>1, <1>2
  <2>2. PICK j : j = CHOOSE k \in 1 .. Len(defs) : defs[k].id = w
    OBVIOUS
  <2>3. j \in 1 .. Len(defs) /\ defs[j].id = w
    BY <2>1, <2>2
  <2>4. j = i
    BY <2>1, <2>3
  <2>5. w \in DOMAIN arrived' /\ arrived'[w] = defs[j]
    BY ONLY <1>3, <2>1, <2>2
  <2> QED BY <2>1, <2>4, <2>5
<1>8. ASSUME NEW w \in DOMAIN arrived'
      PROVE  (w \in DOMAIN arrived /\ arrived'[w] = arrived[w])
             \/ \E i \in 1 .. Len(defs) : w = defs[i].id /\ arrived'[w] = defs[i]
  BY <1>2, <1>4, <1>5, <1>7
<1>9. ArrivedOk'
  <2>1. ASSUME NEW w \in DOMAIN arrived' PROVE arrived'[w] \in Definitions /\ arrived'[w].id = w
    BY <1>6, <1>8 DEF ArrivedOk
  <2>2. updates' \in Nat /\ previews' \in Nat /\ previews' # 0
    BY <1>1 DEF ArrivedOk
  <2> QED BY <2>1, <2>2 DEF ArrivedOk
<1>10. ASSUME NEW d PROVE d \in Arrived' <=> d \in Arrived \/ d \in Upto(defs, Len(defs))
  <2>1. d \in Arrived' <=> \E w \in DOMAIN arrived' : d = arrived'[w]
    BY DEF Arrived
  <2>2. d \in Arrived <=> \E w \in DOMAIN arrived : d = arrived[w]
    BY DEF Arrived
  <2>3. d \in Upto(defs, Len(defs)) <=> \E i \in 1 .. Len(defs) : d = defs[i]
    BY DEF Upto
  <2>4. \A w \in DOMAIN arrived : w \in DOMAIN arrived'
    BY <1>4
  <2> QED BY ONLY <1>5, <1>7, <1>8, <2>1, <2>2, <2>3, <2>4
<1> QED BY <1>9, <1>10

(* processPreviewChunk() of the current preview.                           *)
LEMMA ChunkKeepsArrived ==
  ASSUME StateSound, ArrivedInv, NEW new \in Layouts \cup {Null}, NEW defs \in DefinitionLists, NEW v \in {Null, 1},
         NEW finished \in BOOLEAN, \A i, j \in 1 .. Len(defs) : i # j => defs[i].id # defs[j].id,
         ProcessPreviewChunk(new, defs, v, finished)
  PROVE  ArrivedInv'
<1>1. /\ ~loaded /\ loaded' = finished /\ previews' = previews /\ (new # Null => arrived = <<>>)
      /\ updates' = (IF new # Null /\ previews > 1 THEN updates + 1 ELSE updates)
  BY ONLY ProcessPreviewChunk(new, defs, v, finished) DEF ProcessPreviewChunk
<1>0. HasRoom(Len(defs)) /\ \A i \in 1 .. Len(defs) : defs[i].id \notin DOMAIN arrived
  BY ONLY ProcessPreviewChunk(new, defs, v, finished) DEF ProcessPreviewChunk
<1>2. ArrivedOk /\ previews \in Nat /\ updates \in Nat
  BY DEF ArrivedInv, ArrivedOk
<1>3. defs \in Seq(Definitions)
  BY ListsAreSequences
<1>4. PICK F : F = Arrived \cup Upto(defs, Len(defs))
  OBVIOUS
<1>5. ArrivedOk' /\ Arrived' = F
  BY <1>2, <1>3, <1>4, ChunkAdds
<1>6. Ids(F) = DOMAIN arrived' /\ F \in SUBSET Definitions
  <2>1. \A w \in DOMAIN arrived' : arrived'[w] \in Definitions /\ arrived'[w].id = w
    BY ONLY <1>5 DEF ArrivedOk
  <2>2. F = {arrived'[w] : w \in DOMAIN arrived'}
    BY ONLY <1>5 DEF Arrived
  <2> QED BY ONLY <2>1, <2>2 DEF Ids
<1>7. SUFFICES ASSUME updates' = 0, previews <= 2
               PROVE  /\ Arriving(State', F, IsFirst)
                      /\ IsFirst \/ ~finished => AtPlaces(State')
                      /\ finished => \A w \in WidgetIds \ Ids(F) : byId'[w] = Gap
  <2>1. IsFirst' = IsFirst
    BY ONLY <1>1 DEF IsFirst
  <2> QED BY ONLY <1>1, <1>5, <1>6, <1>7, <2>1, finished \in BOOLEAN DEF ArrivedInv
<1>8. updates = 0 /\ (new # Null => IsFirst /\ DOMAIN arrived = {})
  <2>1. updates = 0 /\ (new # Null => ~(previews > 1))
    BY ONLY <1>1, <1>2, <1>7
  <2>2. new # Null => DOMAIN arrived = {}
    BY ONLY <1>1
  <2> QED BY ONLY <1>2, <2>1, <2>2 DEF IsFirst
<1>9. Arriving(State, Arrived, IsFirst) /\ AtPlaces(State)
  BY ONLY <1>1, <1>7, <1>8, ArrivedInv DEF ArrivedInv
<1>10. PICK p : p = WithLayout(new)
  OBVIOUS
<1>11. Arriving(p, Arrived, IsFirst) /\ AtPlaces(p)
  BY <1>2, <1>8, <1>9, <1>10, WithLayoutArrives
<1>12. Sound(p) /\ Room(p, Len(defs))
  <2>1. PICK k : k = Len(defs)
    OBVIOUS
  <2>2. Room(State, k)
    BY ONLY <1>0, <2>1, HasRoomIsRoom
  <2> QED BY <1>10, <2>1, <2>2, WithLayoutSound DEF Room
<1>13. PICK G \in SUBSET Definitions : G = Arrived /\ \A i \in 1 .. Len(defs) : defs[i].id \notin Ids(G)
  BY <1>0, <1>2, ArrivedIds
<1>14. PICK first \in BOOLEAN : first = IsFirst
  BY <1>2, ArrivedIds
<1>15. PICK q : q = Completed(WithData(AddDefinitions(p, defs), v), finished)
  OBVIOUS
<1>16. SetState(q)
  BY ONLY <1>10, <1>15, ProcessPreviewChunk(new, defs, v, finished), ChunkIs
<1>17. /\ Sound(q) /\ Arriving(q, F, first) /\ (first \/ ~finished => AtPlaces(q))
       /\ finished => \A w \in WidgetIds \ Ids(F) : q.byId[w] = Gap
  <2>1. v = Null \/ v \in Values
    BY DEF Values
  <2>2. F = G \cup Upto(defs, Len(defs)) /\ Arriving(p, G, first) /\ AtPlaces(p)
    BY <1>4, <1>11, <1>13, <1>14
  <2>3. \A i \in 1 .. Len(defs) : defs[i].id \notin Ids(G)
    BY <1>13
  <2> QED BY ONLY <1>3, <1>12, <1>15, <2>1, <2>2, <2>3, finished \in BOOLEAN, first \in BOOLEAN, ChunkArrives,
                  \A i, j \in 1 .. Len(defs) : i # j => defs[i].id # defs[j].id, G \in SUBSET Definitions
<1>18. Arriving(State', F, first) /\ (AtPlaces(q) => AtPlaces(State')) /\ byId' = q.byId
  BY <1>6, <1>16, <1>17, SetStateArrives
<1> QED BY <1>14, <1>17, <1>18

(* It holds at first, and each step keeps it.                              *)
LEMMA ArrivedInvHolds ==
  /\ Init => ArrivedInv
  /\ PreviewInv /\ ArrivedInv /\ [Next]_vars => ArrivedInv'
<1>1. ASSUME PreviewInv, ArrivedInv, [Next]_vars PROVE ArrivedInv'
  <2>0. StateSound /\ ArrivedOk /\ updates \in Nat
    BY <1>1 DEF PreviewInv, ArrivedInv, ArrivedOk
  <2>1. CASE DispatchPreview
    BY <1>1, <2>0, <2>1, DispatchArrives
  <2>2. ASSUME NEW new \in Layouts \cup {Null}, NEW defs \in DefinitionLists, NEW v \in {Null, 1},
               NEW finished \in BOOLEAN, \A i, j \in 1 .. Len(defs) : i # j => defs[i].id # defs[j].id,
               ProcessPreviewChunk(new, defs, v, finished)
        PROVE  ArrivedInv'
    BY <1>1, <2>0, <2>2, ChunkKeepsArrived
  <2>3. ASSUME updates' = updates + 1, UNCHANGED <<loaded, previews, arrived>> PROVE ArrivedInv'
    <3>1. updates' \in Nat /\ updates' # 0
      BY <2>0, <2>3
    <3>2. ArrivedOk'
      BY <2>0, <2>3, <3>1 DEF ArrivedOk
    <3> QED BY <3>1, <3>2 DEF ArrivedInv
  <2>4. ASSUME NEW n \in 1 .. MaxColumns, SetWidgetColumnCount(n) PROVE ArrivedInv'
    <3>1. updates' = updates + 1 /\ UNCHANGED <<loaded, previews, arrived>>
      BY <2>4 DEF SetWidgetColumnCount
    <3> QED BY <2>3, <3>1
  <2>5. ASSUME NEW d \in Definitions, Update(d) PROVE ArrivedInv'
    <3>1. updates' = updates + 1 /\ UNCHANGED <<loaded, previews, arrived>>
      BY <2>5 DEF Update
    <3> QED BY <2>3, <3>1
  <2>6. CASE UNCHANGED vars
    <3>1. /\ heap' = heap /\ byId' = byId /\ ordered' = ordered /\ columns' = columns /\ layout' = layout
          /\ allData' = allData /\ loaded' = loaded /\ crashed' = crashed /\ previews' = previews
          /\ arrived' = arrived /\ updates' = updates
      BY <2>6 DEF vars
    <3>2. State' = State
      BY <3>1 DEF State
    <3>3. Arrived' = Arrived /\ IsFirst' = IsFirst /\ ArrivedOk'
      BY <2>0, <3>1 DEF Arrived, IsFirst, ArrivedOk
    <3> QED BY <1>1, <3>1, <3>2, <3>3 DEF ArrivedInv
  <2> QED BY <1>1, <2>1, <2>2, <2>4, <2>5, <2>6 DEF Next
<1> QED BY <1>1, InitArrives

(* What a loaded preview shows.                                            *)
LEMMA ShownIsArrived ==
  ASSUME StateSound, ArrivedInv, loaded, previews <= 2, updates = 0
  PROVE  /\ ~crashed
         /\ \A w \in DOMAIN arrived :
              \E x \in Shown : /\ x.id = w /\ x.version = arrived[w].version
                               /\ previews = 1 => (x.mapped => x.value = allData)
         /\ \A x \in Shown : \E w \in DOMAIN arrived : x.id = w /\ x.version = arrived[w].version
         /\ \A x, y \in Shown : x.id = y.id => x = y
<1>1. ArrivedOk
  BY DEF ArrivedInv
<1>2. PICK p : /\ p = State /\ p.heap = heap /\ p.byId = byId /\ p.columns = columns /\ p.allData = allData
               /\ p.crashed = crashed
  BY StateFieldsAre
<1>3. Arriving(p, Arrived, IsFirst) /\ \A w \in WidgetIds \ DOMAIN arrived : byId[w] = Gap
  BY <1>2 DEF ArrivedInv
<1>4. PICK S \in SUBSET Objects : Good(p, S)
  BY <1>2, SoundStateElim DEF StateSound, Sound
<1>5. PICK m : m = Top(p)
  OBVIOUS
<1>6. OneColumn(p) /\ ColumnOk(heap, S, m) /\ Gap \notin S /\ Len(columns) = 1 /\ m = columns[1] /\ ~crashed
  <2>1. OneColumn(p)
    BY <1>3 DEF Arriving
  <2> QED BY <1>2, <1>4, <1>5, <2>1, TopOk DEF OneColumn, Top
<1>7. \A x : x \in Shown <=> \E i \in 1 .. Len(m.rows) : m.rows[i] # Gap /\ x = heap[m.rows[i]]
  <2>1. 1 .. Len(columns) = {1}
    BY <1>6
  <2> QED BY <1>6, <2>1 DEF Shown
<1>8. ASSUME NEW w \in DOMAIN arrived
      PROVE  \E x \in Shown : /\ x.id = w /\ x.version = arrived[w].version
                              /\ previews = 1 => (x.mapped => x.value = allData)
  <2>1. PICK e \in Arrived : e = arrived[w] /\ e.id = w /\ e \in Definitions
    BY <1>1 DEF Arrived, ArrivedOk
  <2>2. PICK o : o = Holder(m, w)
    OBVIOUS
  <2>3. Kept(p, e, IsFirst)
    BY <1>3 DEF Arriving
  <2>4. /\ w \in DOMAIN m.index /\ heap[o].version = e.version /\ heap[o].id = w
        /\ IsFirst => (heap[o].mapped => heap[o].value = allData)
    <3>1. OneColumn(p) /\ o = Holder(Top(p), w) /\ w = e.id
      BY ONLY <1>5, <1>6, <2>1, <2>2
    <3>2. PICK x : x = IsFirst
      OBVIOUS
    <3>3. /\ w \in DOMAIN Top(p).index /\ p.heap[o].version = e.version /\ p.heap[o].id = w
          /\ x => (p.heap[o].mapped => p.heap[o].value = p.allData)
      BY ONLY <1>4, <2>1, <2>3, <3>1, <3>2, S \in SUBSET Objects, KeptIsThere
    <3> QED BY ONLY <1>2, <1>5, <3>2, <3>3
  <2>5. PICK i : i = m.index[w] + 1
    OBVIOUS
  <2>6. i \in 1 .. Len(m.rows) /\ m.rows[i] = o /\ o # Gap
    BY <1>6, <2>2, <2>4, <2>5, HolderProperties DEF Holder
  <2>7. heap[o] \in Shown
    BY <1>7, <2>6
  <2>8. previews = 1 => IsFirst
    BY DEF IsFirst
  <2> QED BY <2>1, <2>4, <2>7, <2>8
<1>9. ASSUME NEW x \in Shown
      PROVE  x.id \in DOMAIN m.index /\ x = heap[Holder(m, x.id)]
  <2>1. PICK i \in 1 .. Len(m.rows) : m.rows[i] # Gap /\ x = heap[m.rows[i]]
    BY <1>7
  <2> QED BY <1>6, <2>1, HolderIs
<1>10. ASSUME NEW x \in Shown
       PROVE  x.id \in DOMAIN arrived
  <2>1. PICK w : w = x.id
    OBVIOUS
  <2>2. w \in DOMAIN m.index /\ w \in WidgetIds
    BY <1>6, <1>9, <2>1, HolderProperties
  <2>3. CASE w \notin DOMAIN arrived
    <3>1. Waits(p, w, IsFirst)
      BY <1>1, <1>3, <2>2, <2>3, ArrivedIds DEF Arriving
    <3>2. byId[w] = Gap /\ byId[w] # Gap
      BY <1>2, <1>3, <1>5, <2>2, <2>3, <3>1 DEF Waits
    <3> QED BY <3>2
  <2> QED BY <2>1, <2>3
<1>11. \A x, y \in Shown : x.id = y.id => x = y
  BY <1>9
<1> QED BY <1>6, <1>8, <1>10, <1>11

(* A preview that is loaded for the first or the second time shows what    *)
(* arrived for it.                                                         *)
LEMMA ArrivedInvMeansShown ==
  ASSUME StateSound, ArrivedInv
  PROVE  ShowsWhatArrived
<1>1. SUFFICES ASSUME loaded, previews <= 2, updates = 0
               PROVE  /\ ~crashed
                      /\ {[id |-> x.id, version |-> x.version] : x \in Shown}
                         = {[id |-> w, version |-> arrived[w].version] : w \in DOMAIN arrived}
                      /\ previews = 1 => \A x \in Shown : x.mapped => x.value = allData
  BY DEF ShowsWhatArrived
<1>2. /\ ~crashed
      /\ \A w \in DOMAIN arrived :
           \E x \in Shown : /\ x.id = w /\ x.version = arrived[w].version
                            /\ previews = 1 => (x.mapped => x.value = allData)
      /\ \A x \in Shown : \E w \in DOMAIN arrived : x.id = w /\ x.version = arrived[w].version
      /\ \A x, y \in Shown : x.id = y.id => x = y
  BY <1>1, ShownIsArrived
<1>3. PICK Of : Of = [x \in Shown |-> [id |-> x.id, version |-> x.version]]
  OBVIOUS
<1>4. PICK At : At = [w \in DOMAIN arrived |-> [id |-> w, version |-> arrived[w].version]]
  OBVIOUS
<1>5. \A x \in Shown : \E w \in DOMAIN arrived : Of[x] = At[w]
  BY <1>2, <1>3, <1>4
<1>6. \A w \in DOMAIN arrived : \E x \in Shown : Of[x] = At[w]
  BY <1>2, <1>3, <1>4
<1>7. {[id |-> x.id, version |-> x.version] : x \in Shown} = {Of[x] : x \in Shown}
  BY ONLY <1>3
<1>8. {[id |-> w, version |-> arrived[w].version] : w \in DOMAIN arrived} = {At[w] : w \in DOMAIN arrived}
  BY ONLY <1>4
<1>9. {Of[x] : x \in Shown} = {At[w] : w \in DOMAIN arrived}
  BY ONLY <1>5, <1>6
<1>10. previews = 1 => \A x \in Shown : x.mapped => x.value = allData
  BY <1>2
<1> QED BY ONLY <1>2, <1>7, <1>8, <1>9, <1>10

(* A preview that is loaded for the first or the second time, without a    *)
(* change of the columns in between, shows the widgets that arrived for it *)
(* and no other, and no row is missing when one is put in its place.       *)
THEOREM ShowsWhatArrivedAlways == Spec => []ShowsWhatArrived
<1>1. Init => PreviewInv /\ ArrivedInv
  BY PreviewInvHolds, ArrivedInvHolds
<1>2. (PreviewInv /\ ArrivedInv) /\ [Next]_vars => (PreviewInv /\ ArrivedInv)'
  <2>1. ASSUME PreviewInv, ArrivedInv, [Next]_vars PROVE PreviewInv' /\ ArrivedInv'
    BY <2>1, PreviewInvHolds, ArrivedInvHolds
  <2> QED BY <2>1
<1>3. PreviewInv /\ ArrivedInv => ShowsWhatArrived
  BY ArrivedInvMeansShown DEF PreviewInv
<1> QED BY <1>1, <1>2, <1>3, PTL DEF Spec
=============================================================================
