-------------------------- MODULE PreviewPipeline ---------------------------
(***************************************************************************)
(* How a preview travels from the threads of the scopes middleware to      *)
(* PreviewModel (the preview part of collectors.cpp, processPreviewChunk() *)
(* and dispatchPreview() of previewmodel.cpp).                             *)
(*                                                                         *)
(* The protocol is the one of SearchPipeline, except for what is buffered: *)
(* of the layouts and of the data under a key a collector keeps only the   *)
(* last, collect() takes everything out, every push may post an event, and *)
(* a chunk goes to the model at once.  PreviewModel says what the model    *)
(* makes of a chunk; here it is whether the division into chunks, which    *)
(* the speed of two threads decides, makes a difference.                   *)
(***************************************************************************)
EXTENDS Naturals, SequencesExt

CONSTANTS
  Threads,  \* middleware threads that call push() and finished()
  MaxPushes, \* bound: calls of push() for one request
  MaxRequests \* bound: calls of dispatchPreview()

ASSUME PipelineAssumption == MaxPushes \in Nat /\ MaxRequests \in Nat

Requests == 1 .. MaxRequests
Kinds == {"layouts", "widgets", "data"}
Nothing == [kind \in Kinds |-> <<>>]

VARIABLES
  collector, \* per request: status, posted, and buffer, what was pushed and not collected
  attached,  \* the requests whose receiver has its m_receiver
  worker,    \* where each middleware thread is in push() or finished()
  sent,      \* history: what was pushed for each request, by kind and in order
  launched,  \* the requests that the middleware accepted
  over,      \* the requests for which finished() was called
  events,    \* PushEvents of the model in the UI thread's event queue
  uiAt,      \* where the UI thread is; "gone" once the model was destroyed
  request,   \* the request of m_listener (0: none yet)
  taken,     \* what the model took over since the last dispatchPreview()
  ready      \* m_loaded

pipelineVars == <<collector, attached, worker, sent, launched, over, events, uiAt, request, taken, ready>>

Idle == [at |-> "idle", request |-> 0, final |-> FALSE]
Serving(t, q) == worker[t].at # "idle" /\ worker[t].request = q

PipelineInit ==
  /\ collector = [q \in Requests |-> [status |-> "INCOMPLETE", posted |-> FALSE, buffer |-> Nothing]]
  /\ attached = {} /\ worker = [t \in Threads |-> Idle]
  /\ sent = [q \in Requests |-> Nothing] /\ launched = {} /\ over = {}
  /\ events = <<>> /\ uiAt = "loop" /\ request = 0 /\ taken = Nothing /\ ready = FALSE

-----------------------------------------------------------------------------
(* Middleware threads.                                                     *)

(* A push is its kind and its number among those of its kind.              *)
AddWidgets(buffer, push) == [buffer EXCEPT !["widgets"] = Append(@, push)]
AddData(buffer, push) == [buffer EXCEPT !["data"] = <<push>>]
SetColumnLayoutList(buffer, push) == [buffer EXCEPT !["layouts"] = <<push>>]
Buffered(buffer, push) ==
  CASE push[1] = "widgets" -> AddWidgets(buffer, push)
    [] push[1] = "data"    -> AddData(buffer, push)
    [] push[1] = "layouts" -> SetColumnLayoutList(buffer, push)

Open(q) == q \in launched \ over
PushesOf(q) == Len(sent[q]["layouts"]) + Len(sent[q]["widgets"]) + Len(sent[q]["data"])

(* PreviewDataReceiver::push() until the collector's mutex is released.    *)
Push(t, q, kind) ==
  /\ worker[t] = Idle /\ Open(q) /\ PushesOf(q) < MaxPushes
  /\ LET push == <<kind, Len(sent[q][kind]) + 1>> IN
       /\ sent' = [sent EXCEPT ![q][kind] = Append(@, push)]
       /\ collector' = [collector EXCEPT ![q].buffer = Buffered(@, push)]
  /\ worker' = [worker EXCEPT ![t] =
                  IF collector[q].posted THEN Idle ELSE [at |-> "submit", request |-> q, final |-> FALSE]]
  /\ UNCHANGED <<attached, launched, over, events, uiAt, request, taken, ready>>

(* finished(), once the middleware's pushes have returned.  It reports     *)
(* Cancelled only for a query somebody cancelled, and nobody does; of the  *)
(* other outcomes the model makes no difference, FINISHED stands for them. *)
Finished(t, q) ==
  /\ worker[t] = Idle /\ Open(q) /\ \A s \in Threads : ~Serving(s, q)
  /\ over' = over \cup {q}
  /\ worker' = [worker EXCEPT ![t] = [at |-> "submit", request |-> q, final |-> TRUE]]
  /\ UNCHANGED <<collector, attached, sent, launched, events, uiAt, request, taken, ready>>

(* CollectorBase::submit().                                                *)
Submit(t) ==
  /\ worker[t].at = "submit"
  /\ LET q == worker[t].request IN
       /\ collector' = [collector EXCEPT ![q] =
            [@ EXCEPT !.posted = TRUE,
                      !.status = IF collector[q].status = "INCOMPLETE" /\ worker[t].final
                                 THEN "FINISHED" ELSE collector[q].status]]
       /\ worker' = [worker EXCEPT ![t] = IF collector[q].posted THEN Idle ELSE [@ EXCEPT !.at = "post"]]
  /\ UNCHANGED <<attached, sent, launched, over, events, uiAt, request, taken, ready>>

(* The rest of postCollectedResults().                                     *)
PostEvent(t) ==
  /\ worker[t].at = "post"
  /\ events' = IF worker[t].request \in attached THEN Append(events, worker[t].request) ELSE events
  /\ worker' = [worker EXCEPT ![t] = Idle]
  /\ UNCHANGED <<collector, attached, sent, launched, over, uiAt, request, taken, ready>>

-----------------------------------------------------------------------------
(* The UI thread.                                                          *)

(* invalidate() has two steps, between which threads go on; the first is   *)
(* taken by dispatchPreview() and by the destructor.                       *)
BeginInvalidate(next) ==
  /\ uiAt = "loop"
  /\ next = "dispatch" => request < MaxRequests
  /\ uiAt' = next
  /\ collector' = IF request = 0 THEN collector ELSE [collector EXCEPT ![request].status = "CANCELLED"]
  /\ UNCHANGED <<attached, worker, sent, launched, over, events, request, taken, ready>>

(* dispatchPreview(): the new receiver, widgets marked as not received, and *)
(* proxy->preview(), which may throw.                                      *)
EndDispatch(accepted) ==
  /\ uiAt = "dispatch" /\ uiAt' = "loop"
  /\ request' = request + 1 /\ attached' = {request + 1}
  /\ launched' = IF accepted THEN launched \cup {request + 1} ELSE launched
  /\ taken' = Nothing /\ ready' = FALSE
  /\ UNCHANGED <<collector, worker, sent, over, events>>

(* ~PreviewModel(); Qt removes the events of an object that is destroyed.  *)
EndDestroy ==
  /\ uiAt = "destroy" /\ uiAt' = "gone"
  /\ attached' = {} /\ events' = <<>>
  /\ UNCHANGED <<collector, worker, sent, launched, over, request, taken, ready>>

(* Mutant: the buffers are copied, not swapped.                            *)
CollectCopies(q) == [collector[q] EXCEPT !.posted = @ /\ collector[q].status # "INCOMPLETE"]

(* PreviewDataCollector::collect().                                        *)
Collect(q) ==
  [collector[q] EXCEPT !.posted = @ /\ collector[q].status # "INCOMPLETE", !.buffer = Nothing]

(* setColumnLayouts() without layouts changes nothing; widgets are added,  *)
(* data replaces what there was under its key.                             *)
TakeOver(chunk) ==
  [kind \in Kinds |-> IF kind = "widgets" THEN taken[kind] \o chunk[kind]
                      ELSE IF chunk[kind] = <<>> THEN taken[kind] ELSE chunk[kind]]

(* PreviewModel::event() and processPreviewChunk().                        *)
HandlePushEvent ==
  /\ uiAt = "loop" /\ events # <<>> /\ events' = Tail(events)
  /\ LET q == Head(events) IN
       /\ collector' = [collector EXCEPT ![q] = Collect(q)]
       /\ taken' = IF collector[q].status = "CANCELLED" THEN taken ELSE TakeOver(collector[q].buffer)
       /\ ready' = (ready \/ collector[q].status = "FINISHED")
  /\ UNCHANGED <<attached, worker, sent, launched, over, uiAt, request>>

PipelineNext ==
  \/ \E t \in Threads, q \in Requests, kind \in Kinds : Push(t, q, kind)
  \/ \E t \in Threads, q \in Requests : Finished(t, q)
  \/ \E t \in Threads : Submit(t) \/ PostEvent(t)
  \/ \E next \in {"dispatch", "destroy"} : BeginInvalidate(next)
  \/ \E accepted \in BOOLEAN : EndDispatch(accepted)
  \/ EndDestroy \/ HandlePushEvent

PipelineSpec == PipelineInit /\ [][PipelineNext]_pipelineVars

-----------------------------------------------------------------------------
PipelineTypeOK ==
  /\ \A q \in Requests : collector[q].status \in {"INCOMPLETE", "FINISHED", "CANCELLED"}
  /\ attached \subseteq {request} /\ over \subseteq launched /\ launched \subseteq 1 .. request
  /\ uiAt \in {"loop", "dispatch", "destroy", "gone"} /\ ready \in BOOLEAN

(* A preview that is loaded holds what the scope pushed for it, as if each *)
(* push had been a chunk of its own: every widget once and in order, the   *)
(* last layouts, the last value of the data; and nothing of a request that *)
(* it superseded, whose threads may be anywhere (collectors.cpp:168-229).  *)
Expected(q) ==
  [kind \in Kinds |-> IF kind = "widgets" \/ sent[q][kind] = <<>> THEN sent[q][kind]
                      ELSE <<Last(sent[q][kind])>>]
LoadedIsComplete == ready /\ uiAt = "loop" => taken = Expected(request)

(* What waits in a collector that counts is fetched: its event is queued   *)
(* or a thread is about to see to that; and a model that is destroyed gets *)
(* no event.                                                               *)
PushesAreFetched ==
  /\ request \in attached /\ collector[request].status # "CANCELLED"
     /\ (collector[request].buffer # Nothing \/ (request \in over /\ ~ready)) =>
       request \in Range(events) \/ \E t \in Threads : Serving(t, request)
  /\ uiAt = "gone" => events = <<>>

(* The two together.                                                       *)
PreviewArrives == PipelineTypeOK /\ LoadedIsComplete /\ PushesAreFetched
=============================================================================
