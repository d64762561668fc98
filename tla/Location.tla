------------------------------ MODULE Location ------------------------------
(***************************************************************************)
(* When the phone is located (ubuntulocationservice.cpp, geoip.cpp,        *)
(* locationaccesshelper.cpp and the tokens in scope.cpp).  A page that     *)
(* needs the location holds a token while it is active; tokens start and,  *)
(* with a delay, stop the session of the position source.  The first       *)
(* session makes the system ask the user, which must not happen for a      *)
(* programmatic search: one of prepopulation or of a registry change.      *)
(***************************************************************************)
EXTENDS Integers, Sequences, FiniteSets, SequencesExt

CONSTANTS Pages,      \* the pages that need the location
          MaxEvents   \* bound: tokens and answers that wait in the event queue

ASSUME LocationAssumption == IsFiniteSet(Pages) /\ MaxEvents \in Nat \ {0}

VARIABLES
  active, dirty, \* by page: m_isActive, m_resultsDirty
  tokens,    \* the pages that hold a token
  queue,     \* queued doActivate() and doDeactivate()
  count,     \* m_activationCount
  session,   \* m_active
  stopTimer, \* m_deactivateTimer runs
  updating,  \* startUpdates() of the position source: external
  requested, \* requestUpdate() waits for one position
  geoTimer, geoRunning, \* m_geoipTimer runs; GeoIp::m_running
  geo,       \* m_result.valid
  located,   \* m_locationUpdatedAtLeastOnce
  dotFile,   \* m_dotFileExists: the user was asked before
  denied,    \* m_denied
  direct,    \* history: pages whose last search, or the request that waits, was not programmatic
  sent       \* the last search of a page: its location

pages == <<active, dirty, direct, sent>>
source == <<count, session, stopTimer, updating, requested, geoTimer, geoRunning>>
position == <<geo, located, dotFile, denied>>
locationVars == <<pages, tokens, queue, source, position>>

(* LocationAccessHelper::init(): a position is requested only if the user  *)
(* was asked before; the first GeoIP lookup starts at once.                *)
LocationInit ==
  /\ active = [p \in Pages |-> FALSE] /\ dirty = [p \in Pages |-> FALSE]
  /\ tokens = {} /\ queue = <<>> /\ count = 0 /\ session = FALSE /\ stopTimer = FALSE
  /\ updating = FALSE /\ geoRunning = TRUE /\ geo = FALSE /\ located = FALSE
  /\ dotFile \in BOOLEAN /\ requested = dotFile /\ geoTimer = dotFile
  /\ denied = TRUE /\ direct = {} /\ sent = [p \in Pages |-> "none"]

-----------------------------------------------------------------------------
(* The pages.                                                              *)

(* location(): what a search would carry.                                  *)
Fix == IF session /\ located THEN "exact" ELSE IF geo THEN "approximate" ELSE "none"

(* dispatchSearch(): a page without a token takes one if it is active, but *)
(* a programmatic search does so only after the user was prompted.         *)
(* willing(p) is the page's setting for the location.                      *)
Takes(p, isActive, programmatic) ==
  /\ p \notin tokens /\ isActive /\ (~programmatic \/ dotFile)

DispatchSearch(p, isActive, programmatic, willing) ==
  /\ dirty' = [dirty EXCEPT ![p] = FALSE]
  /\ sent' = [sent EXCEPT ![p] = IF willing THEN Fix ELSE "none"]
  /\ IF Takes(p, isActive, programmatic)
     THEN /\ Len(queue) < MaxEvents
          /\ tokens' = tokens \cup {p} /\ queue' = Append(queue, "activate")
     ELSE UNCHANGED <<tokens, queue>>

(* Everything but prepopulation and registry changes leaves the argument at *)
(* its default: what the user does, and also the TTL timer, changed         *)
(* settings and a scope's own signal.  A programmatic request that finds    *)
(* the page waiting for a search adds nothing to what it waits for.         *)
Requests(p, programmatic) ==
  direct' = IF ~programmatic THEN direct \cup {p} ELSE IF dirty[p] /\ dirty'[p] THEN direct ELSE direct \ {p}

(* setActive(): a page that is left gives its token back.                  *)
SetActive(p, willing) ==
  /\ active' = [active EXCEPT ![p] = ~@] /\ UNCHANGED <<source, position, direct>>
  /\ IF active[p]
     THEN /\ UNCHANGED <<dirty, sent>>
          /\ IF p \in tokens
             THEN /\ Len(queue) < MaxEvents
                  /\ tokens' = tokens \ {p} /\ queue' = Append(queue, "deactivate")
             ELSE UNCHANGED <<tokens, queue>>
     ELSE IF dirty[p] THEN DispatchSearch(p, TRUE, FALSE, willing) ELSE UNCHANGED <<dirty, sent, tokens, queue>>

(* prepopulateFirstScope(), prepopulateNextScopes()                        *)
Prepopulate(p, willing) ==
  /\ DispatchSearch(p, active[p], TRUE, willing) /\ Requests(p, TRUE)
  /\ UNCHANGED <<active, source, position>>

(* Mutant: the first boot is like any other.                               *)
InvalidateAlike(p, programmatic, willing) ==
  /\ IF active[p]
     THEN DispatchSearch(p, active[p], programmatic, willing)
     ELSE dirty' = [dirty EXCEPT ![p] = TRUE] /\ UNCHANGED <<sent, tokens, queue>>
  /\ Requests(p, programmatic) /\ UNCHANGED <<active, source, position>>

(* invalidateResults(): on the first boot a page that is not active is     *)
(* searched at once when the registry changes, since the flag would not    *)
(* tell its activation who wanted the search.                              *)
InvalidateResults(p, programmatic, willing) ==
  /\ IF active[p] \/ (programmatic /\ ~dotFile)
     THEN DispatchSearch(p, active[p], programmatic, willing)
     ELSE dirty' = [dirty EXCEPT ![p] = TRUE] /\ UNCHANGED <<sent, tokens, queue>>
  /\ Requests(p, programmatic) /\ UNCHANGED <<active, source, position>>

-----------------------------------------------------------------------------
(* The service.                                                            *)

(* Mutant: the source runs on when the last token has gone.                *)
UpdateAtZero(n) ==
  /\ updating' = (n >= 0) /\ geoTimer' = (n > 0) /\ geoRunning' = (geoRunning \/ n > 0)

(* update()                                                                *)
Update(n) ==
  /\ updating' = (n > 0) /\ geoTimer' = (n > 0) /\ geoRunning' = (geoRunning \/ n > 0)

DoActivate ==
  /\ queue # <<>> /\ Head(queue) = "activate" /\ queue' = Tail(queue)
  /\ session' = TRUE /\ count' = count + 1 /\ stopTimer' = FALSE /\ Update(count + 1)
  /\ UNCHANGED <<pages, tokens, requested, position>>

DoDeactivate ==
  /\ queue # <<>> /\ Head(queue) = "deactivate" /\ queue' = Tail(queue)
  /\ count' = (IF count > 0 THEN count - 1 ELSE 0) /\ stopTimer' = TRUE
  /\ UNCHANGED <<pages, tokens, session, updating, requested, geoTimer, geoRunning, position>>

DeactivateTimeout ==
  /\ stopTimer /\ stopTimer' = FALSE /\ Update(count)
  /\ session' = (session /\ count > 0)
  /\ UNCHANGED <<pages, tokens, queue, count, requested, position>>

GeoIpTimeout ==
  /\ geoTimer /\ ~geoRunning /\ geoRunning' = TRUE
  /\ UNCHANGED <<pages, tokens, queue, count, session, stopTimer, updating, requested, geoTimer, position>>

(* GeoIp::response(): a lookup that fails takes the last result's place.   *)
GeoIpResponse(valid) ==
  /\ geoRunning /\ geoRunning' = FALSE /\ geo' = valid
  /\ UNCHANGED <<pages, tokens, queue, count, session, stopTimer, updating, requested, geoTimer, located, dotFile, denied>>

(* What LocationAccessHelper makes of an answer; the file may fail to be   *)
(* created.                                                                *)
Answered(isDenied) ==
  /\ denied' = isDenied
  /\ IF dotFile THEN UNCHANGED dotFile ELSE dotFile' \in BOOLEAN

(* The source answers while a session or a request wants it to.            *)
PositionChanged ==
  /\ updating \/ requested
  /\ located' = TRUE /\ requested' = FALSE /\ Answered(FALSE)
  /\ UNCHANGED <<pages, tokens, queue, count, session, stopTimer, updating, geoTimer, geoRunning, geo>>

AccessError ==
  /\ updating \/ requested
  /\ requested' = FALSE /\ Answered(TRUE)
  /\ UNCHANGED <<pages, tokens, queue, count, session, stopTimer, updating, geoTimer, geoRunning, geo, located>>

UpdateTimeout ==
  /\ requested /\ requested' = FALSE
  /\ UNCHANGED <<pages, tokens, queue, count, session, stopTimer, updating, geoTimer, geoRunning, position>>

ServiceNext ==
  \/ DoActivate \/ DoDeactivate \/ DeactivateTimeout \/ GeoIpTimeout
  \/ \E valid \in BOOLEAN : GeoIpResponse(valid)
  \/ UpdateTimeout

AnswerNext == PositionChanged \/ AccessError

-----------------------------------------------------------------------------
LocationTypeOK ==
  /\ active \in [Pages -> BOOLEAN] /\ dirty \in [Pages -> BOOLEAN]
  /\ tokens \subseteq Pages /\ direct \subseteq Pages
  /\ Len(queue) <= MaxEvents /\ Range(queue) \subseteq {"activate", "deactivate"}
  /\ count \in 0 .. Cardinality(Pages)
  /\ {session, stopTimer, updating, requested, geoTimer, geoRunning, geo, located, dotFile, denied} \subseteq BOOLEAN
  /\ sent \in [Pages -> {"none", "approximate", "exact"}]

(* The phone is located for the pages that hold a token and for no longer  *)
(* than the delay after the last one: the count is that of the tokens once *)
(* the queue is drained ("refcount error" never), and the source runs just *)
(* while the count is positive or the timer that stops it runs.            *)
Events(kind) == Cardinality({i \in 1 .. Len(queue) : queue[i] = kind})
SessionFollowsTokens ==
  /\ count = Cardinality(tokens) + Events("deactivate") - Events("activate")
  /\ updating <=> (count > 0 \/ stopTimer)
  /\ session = updating
  /\ tokens \subseteq {p \in Pages : active[p]}

(* Before the prompt was shown, no page takes a token for a programmatic   *)
(* request, not even when the page was left waiting for a search and       *)
(* becomes active later: the search with which it takes the token comes    *)
(* from a request that was not programmatic (scope.cpp, comment in         *)
(* invalidateResults()).                                                   *)
NoProgrammaticPrompt ==
  [][\A p \in tokens' \ tokens : dotFile \/ p \in direct']_locationVars
=============================================================================
