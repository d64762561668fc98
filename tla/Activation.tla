----------------------------- MODULE Activation -----------------------------
(***************************************************************************)
(* Activations of results, actions of results and of preview widgets       *)
(* (scope.cpp, previewmodel.cpp, logintoaccount.cpp, and the activation    *)
(* part of collectors.cpp), for one page with one preview.                 *)
(*                                                                         *)
(* Each request has a receiver in the middleware, whose threads store the  *)
(* response and post an event when the query ends; a newer request         *)
(* silences the receiver of the older one, an event already posted stays.  *)
(* A result with account details is activated after a login, which waits   *)
(* for a token in a nested event loop without user input.  Results that    *)
(* are activated directly only emit a signal, canned queries are the       *)
(* subject of Registry, and what a preview contains that of PreviewModel.  *)
(***************************************************************************)
EXTENDS Integers, Sequences, FiniteSets, SequencesExt

CONSTANTS
  MaxRequests,  \* bound: activations and actions
  MaxPreviews,  \* bound: times the preview is requested
  MaxSearches,  \* bound: searches of the page
  MaxFaults     \* bound: calls that throw, queries that end without a response, cancellations

ASSUME BoundsAssumption == {MaxRequests, MaxPreviews, MaxSearches, MaxFaults} \subseteq Nat

NoResponse == "none"
Responses == {"ShowPreview", "Other"}
Kinds == {"activate", "result action", "widget action"}
PostLogin == {"DoNothing", "InvalidateResults", "Continue"}
Requests == [kind : Kinds, response : Responses \cup {NoResponse}, over : BOOLEAN, silent : BOOLEAN]

VARIABLES
  requests,    \* the receivers and collectors, oldest first
  current,     \* listener of m_activationController, 0 for none
  lastAction,  \* m_lastActivation of the preview
  queue,       \* events posted, by request
  activating,  \* m_activationInProgress
  processing,  \* m_processingAction of the preview
  preview,     \* the preview's query: none, loading, loaded
  searching,   \* a search of the page is in progress
  bar,         \* m_searchInProgress
  login,       \* of what, and where: waiting for a token, for the setup
  used         \* bounds: previews, searches and faults so far

vars == <<requests, current, lastAction, queue, activating, processing, preview, searching, bar, login, used>>

NoLogin == [stage |-> "none", kind |-> "activate"]

Init ==
  /\ requests = <<>> /\ current = 0 /\ lastAction = 0 /\ queue = <<>>
  /\ activating = FALSE /\ processing = FALSE /\ preview = "none"
  /\ searching = FALSE /\ bar = FALSE /\ login = NoLogin
  /\ used = [previews |-> 0, searches |-> 0, faults |-> 0]

-----------------------------------------------------------------------------
(* Requests.                                                               *)

(* Mutant: the collector is cancelled, but the receiver keeps its target.  *)
CancelOnly(s, n) == s

(* ScopeDataReceiverBase::invalidate(): nothing is posted any more.        *)
Invalidated(s, n) == IF n = 0 THEN s ELSE [s EXCEPT ![n].silent = TRUE]

Asked(kind, fails) == [kind |-> kind, response |-> NoResponse, over |-> fails, silent |-> FALSE]

Fault(fails) ==
  /\ fails => used.faults < MaxFaults
  /\ used' = [used EXCEPT !.faults = IF fails THEN @ + 1 ELSE @]

FlagOfActivation(fails) == activating' = ~fails

(* The intercepted part of activate(), at once or after a login.           *)
ActivateResult(fails) ==
  /\ Len(requests) < MaxRequests /\ Fault(fails)
  /\ requests' = Append(Invalidated(requests, current), Asked("activate", fails))
  /\ current' = Len(requests) + 1
  /\ FlagOfActivation(fails)
  /\ UNCHANGED <<lastAction, processing>>

(* activateAction(): the flag is left as it is.                            *)
ActivateAction(fails) ==
  /\ login.stage # "token" /\ Len(requests) < MaxRequests /\ Fault(fails)
  /\ requests' = Append(Invalidated(requests, current), Asked("result action", fails))
  /\ current' = Len(requests) + 1
  /\ UNCHANGED <<lastAction, queue, activating, processing, preview, searching, bar, login>>

(* The action of widgetTriggered(): an exception leaves processing on.     *)
PerformAction(fails) ==
  /\ Len(requests) < MaxRequests /\ Fault(fails)
  /\ requests' = Append(Invalidated(requests, lastAction), Asked("widget action", fails))
  /\ lastAction' = Len(requests) + 1
  /\ processing' = TRUE
  /\ UNCHANGED <<current, activating>>

Start(kind, fails) == IF kind = "activate" THEN ActivateResult(fails) ELSE PerformAction(fails)

(* activate() and widgetTriggered() without account details; a preview has *)
(* widgets once it was requested.                                          *)
Activate(kind, fails) ==
  /\ login.stage # "token"
  /\ kind = "widget action" => preview # "none"
  /\ Start(kind, fails)
  /\ UNCHANGED <<queue, preview, searching, bar, login>>

(* cancelActivation() by the shell: the flag is left as it is.             *)
CancelActivation ==
  /\ login.stage # "token" /\ current # 0 /\ Fault(TRUE)
  /\ requests' = Invalidated(requests, current) /\ current' = 0
  /\ UNCHANGED <<lastAction, queue, activating, processing, preview, searching, bar, login>>

-----------------------------------------------------------------------------
(* Logins.  One at a time: a page opens another only after the setup.      *)

Unstarted(fails) == ~fails /\ UNCHANGED <<requests, current, lastAction, activating, processing>>

(* dispatchSearch()                                                        *)
StartSearch ==
  /\ used.searches < MaxSearches
  /\ searching' = TRUE /\ bar' = TRUE
  /\ used' = [used EXCEPT !.searches = @ + 1]

(* loginToAccount(): the bar moves while the token is awaited.             *)
LoginToAccount(kind) ==
  /\ login.stage = "none" /\ Len(requests) < MaxRequests
  /\ kind = "widget action" => preview # "none"
  /\ login' = [stage |-> "token", kind |-> kind] /\ bar' = TRUE
  /\ UNCHANGED <<requests, current, lastAction, queue, activating, processing, preview, searching, used>>

(* The connected function of activate() and widgetTriggered(): bar is what  *)
(* the login leaves of it, and an active page searches again when its      *)
(* results are invalidated.                                                *)
LoginFinished(action, fails, barNow) ==
  /\ login' = NoLogin
  /\ CASE action = "Continue" -> Start(login.kind, fails) /\ bar' = barNow /\ UNCHANGED searching
       [] action = "DoNothing" -> Unstarted(fails) /\ bar' = barNow /\ UNCHANGED <<used, searching>>
       [] action = "InvalidateResults" ->
            /\ Unstarted(fails)
            /\ \/ bar' = barNow /\ UNCHANGED <<used, searching>>
               \/ StartSearch

(* Mutant: the bar stops only when there is no setup to show.              *)
TokenReceivedBar(enabled, action, fails) ==
  /\ login.stage = "token"
  /\ IF enabled THEN LoginFinished(action, fails, FALSE)
     ELSE /\ login' = [login EXCEPT !.stage = "setup"] /\ action = "DoNothing"
          /\ Unstarted(fails) /\ UNCHANGED <<used, searching, bar>>
  /\ UNCHANGED <<queue, preview>>

(* The end of the nested loop: with the service enabled the login is over, *)
(* without it the setup is shown.  Either way the bar stops.               *)
TokenReceived(enabled, action, fails) ==
  /\ login.stage = "token"
  /\ IF enabled THEN LoginFinished(action, fails, FALSE)
     ELSE /\ login' = [login EXCEPT !.stage = "setup"] /\ action = "DoNothing"
          /\ Unstarted(fails) /\ bar' = FALSE /\ UNCHANGED <<used, searching>>
  /\ UNCHANGED <<queue, preview>>

(* onSetupFinished(), with the action for success or failure.              *)
SetupFinished(action, fails) ==
  /\ login.stage = "setup" /\ LoginFinished(action, fails, bar)
  /\ UNCHANGED <<queue, preview>>

-----------------------------------------------------------------------------
(* The middleware, in its own threads.                                     *)

(* ActivationReceiver::activated()                                         *)
Activated(n, response) ==
  /\ ~requests[n].over /\ requests[n].response = NoResponse
  /\ requests' = [requests EXCEPT ![n].response = response]
  /\ UNCHANGED <<current, lastAction, queue, activating, processing, preview, searching, bar, login, used>>

(* ActivationReceiver::finished() and postCollectedResults(), which posts  *)
(* a collector once.                                                       *)
Finished(n) ==
  /\ ~requests[n].over /\ Fault(requests[n].response = NoResponse)
  /\ requests' = [requests EXCEPT ![n].over = TRUE]
  /\ queue' = IF requests[n].silent THEN queue ELSE Append(queue, n)
  /\ UNCHANGED <<current, lastAction, activating, processing, preview, searching, bar, login>>

-----------------------------------------------------------------------------
(* Events.                                                                 *)

(* handleActivation() for a response; without one nothing happens.  What   *)
(* the response asks for is a signal, or another component's.              *)
HandleActivation ==
  /\ queue # <<>> /\ requests[Head(queue)].kind # "widget action"
  /\ queue' = Tail(queue)
  /\ activating' = (activating /\ requests[Head(queue)].response = NoResponse)
  /\ UNCHANGED <<requests, current, lastAction, processing, preview, searching, bar, login, used>>

(* dispatchPreview(): the preview is loaded once more, or preview() throws *)
(* and no chunk will come.                                                 *)
DispatchPreview(fails) ==
  /\ fails => used.faults < MaxFaults
  /\ used' = [used EXCEPT !.previews = @ + 1, !.faults = IF fails THEN @ + 1 ELSE @]
  /\ preview' = IF fails THEN "loaded" ELSE "loading"

(* Mutant: the flag goes off for a new preview only with its chunks.       *)
ProcessActionResponseKeeps ==
  LET response == requests[Head(queue)].response
  IN /\ queue # <<>> /\ requests[Head(queue)].kind = "widget action" /\ queue' = Tail(queue)
     /\ IF response = "ShowPreview" THEN \E fails \in BOOLEAN : DispatchPreview(fails)
        ELSE UNCHANGED <<preview, used>>
     /\ UNCHANGED <<processing, activating, requests, current, lastAction, searching, bar, login>>

(* processActionResponse(): a new preview keeps the flag, everything else  *)
(* goes to the page, which also clears its own flag.                       *)
ProcessActionResponse ==
  LET response == requests[Head(queue)].response
  IN /\ queue # <<>> /\ requests[Head(queue)].kind = "widget action" /\ queue' = Tail(queue)
     /\ IF response = "ShowPreview"
        THEN (\E fails \in BOOLEAN : DispatchPreview(fails)) /\ UNCHANGED <<processing, activating>>
        ELSE /\ processing' = (processing /\ response = NoResponse)
             /\ activating' = (activating /\ response = NoResponse)
             /\ UNCHANGED <<preview, used>>
     /\ UNCHANGED <<requests, current, lastAction, searching, bar, login>>

(* preview() or loadForResult() by the shell.                              *)
LoadForResult ==
  /\ login.stage # "token" /\ used.previews < MaxPreviews
  /\ \E fails \in BOOLEAN : DispatchPreview(fails)
  /\ UNCHANGED <<requests, current, lastAction, queue, activating, processing, searching, bar, login>>

(* processPreviewChunk() of the current query.                             *)
ProcessPreviewChunk(finished) ==
  /\ preview = "loading"
  /\ processing' = FALSE
  /\ preview' = IF finished THEN "loaded" ELSE "loading"
  /\ UNCHANGED <<requests, current, lastAction, queue, activating, searching, bar, login, used>>

DispatchSearch ==
  /\ StartSearch
  /\ UNCHANGED <<requests, current, lastAction, queue, activating, processing, preview, login>>

(* The last chunk of a search.                                             *)
SearchFinished ==
  /\ searching
  /\ searching' = FALSE /\ bar' = FALSE
  /\ UNCHANGED <<requests, current, lastAction, queue, activating, processing, preview, login, used>>

Handle == HandleActivation \/ ProcessActionResponse

Next ==
  \/ CancelActivation \/ LoadForResult \/ DispatchSearch \/ SearchFinished \/ Handle
  \/ \E fails \in BOOLEAN :
       \/ ActivateAction(fails)
       \/ \E kind \in {"activate", "widget action"} : Activate(kind, fails)
       \/ \E action \in PostLogin : SetupFinished(action, fails)
       \/ \E action \in PostLogin, enabled \in BOOLEAN : TokenReceived(enabled, action, fails)
  \/ \E kind \in {"activate", "widget action"} : LoginToAccount(kind)
  \/ \E n \in 1 .. Len(requests) : Finished(n) \/ \E r \in Responses : Activated(n, r)
  \/ \E b \in BOOLEAN : ProcessPreviewChunk(b)

(* Events are handled, and the middleware ends every query: an answer, an  *)
(* error or its own timeout.                                               *)
Fairness ==
  /\ WF_vars(Handle) /\ WF_vars(ProcessPreviewChunk(TRUE))
  /\ \A n \in 1 .. MaxRequests :
       /\ WF_vars(n <= Len(requests) /\ Finished(n))
       /\ WF_vars(n <= Len(requests) /\ requests[n].response = NoResponse
                    /\ \E r \in Responses : Activated(n, r))

Spec == Init /\ [][Next]_vars
FairSpec == Spec /\ Fairness

-----------------------------------------------------------------------------
(* Properties.                                                             *)

TypeOK ==
  /\ requests \in Seq(Requests) /\ Len(requests) <= MaxRequests
  /\ {current, lastAction} \cup Range(queue) \subseteq 0 .. Len(requests)
  /\ {activating, processing, searching, bar} \subseteq BOOLEAN
  /\ preview \in {"none", "loading", "loaded"}
  /\ login.stage \in {"none", "token", "setup"}
  /\ Cardinality(Range(queue)) = Len(queue)

(* Only the newest request of the page and the newest of the preview may   *)
(* post an event, whatever the threads of the older ones still do.         *)
SupersededStaysSilent ==
  [][Range(queue') \ Range(queue) \subseteq {current, lastAction}]_vars

(* As long as no call throws, no query ends without a response and the     *)
(* shell does not cancel, the page and the preview do not stay busy.       *)
BusyEnds ==
  /\ activating /\ used.faults = 0 ~> (~activating \/ used.faults > 0)
  /\ processing /\ used.faults = 0 ~> (~processing \/ used.faults > 0)

(* The loading bar does not go on for ever: it moves for a search or for a *)
(* token, also when both overlap, and the rest keeps its type.              *)
BarStops == TypeOK /\ (bar => searching \/ login.stage = "token")
=============================================================================
