------------------------------ MODULE Failover ------------------------------
(***************************************************************************)
(* Routing of a completion request over the fallback chain of its model    *)
(* (internal/gateway/proxy.go, fallback.go) beside the health checker and  *)
(* configuration reloads (internal/gateway/gateway.go).                    *)
(*                                                                         *)
(* A request keeps the chain of the configuration that was live when it    *)
(* arrived; the health states it consults are those of the configuration   *)
(* loaded last.  A chain is the set of the model's entries together with   *)
(* the order Precedes.                                                     *)
(***************************************************************************)
EXTENDS HealthChecker

CONSTANTS
  Requests,    \* the client requests of a behaviour
  Models,      \* the model names clients ask for
  Validating,  \* cfg.Gateway.ResponseValidation
  NoEntry      \* no backend

(* Entries here also have .model, .prio and .pos, their place in the file. *)
ASSUME ValidatingAssumption == Validating \in BOOLEAN
ASSUME NoEntryAssumption    == NoEntry \notin Entries
ASSUME FiniteAssumption     == \A c \in Configs : IsFiniteSet(c)
ASSUME OrderAssumption ==
  /\ \A e \in Entries : e.prio \in Int /\ e.pos \in Nat
  /\ \A c \in Configs : \A e, f \in c : e.pos = f.pos => e = f

VARIABLES
  live,       \* the configuration g.liveHandler was built from
  reloading,  \* Reload is between UpdateConfig and liveHandler.Store
  req,        \* the state of each request
  usable      \* auxiliary: the chain entries of a request that have been usable
              \* in every state since it arrived

routeVars == <<live, reloading, req, usable>>
failoverVars == <<healthVars, routeVars>>

(* buildFallbackChain: ascending priority, 0 last, file order within one.  *)
SortKey(e) == IF e.prio = 0 THEN 2147483647 ELSE e.prio
Precedes(e, f) ==
  SortKey(e) < SortKey(f) \/ (SortKey(e) = SortKey(f) /\ e.pos < f.pos)
IsFirst(e, S) == e \in S /\ \A f \in S \ {e} : Precedes(e, f)
ChainOf(entries, m) == {e \in entries : e.model = m}

Answers == {"ok", "garbled", "error"}
Refusals == {"bad_request", "unknown_model", "unavailable"}
Outcomes == Answers \cup Refusals \cup {"pending", "aborted"}

Idle == [pc |-> "idle", chain |-> {}, tried |-> {}, at |-> NoEntry, lost |-> FALSE,
         gone |-> FALSE, out |-> "pending", fallback |-> FALSE, observed |-> "no"]

(* "validating": the headers are in and ModifyResponse reads the body;     *)
(* "copying": the headers went out and the body follows.                   *)
InHand == {"sent", "awaiting", "validating", "copying"}

RequestType ==
  [pc : InHand \cup {"idle", "walking", "done"}, chain : SUBSET Entries,
   tried : SUBSET Entries, at : Entries \cup {NoEntry}, lost : BOOLEAN, gone : BOOLEAN,
   out : Outcomes, fallback : BOOLEAN, observed : {"no", "backend", "none"}]

RouteTypeOK ==
  /\ TypeOK
  /\ live \in SUBSET Entries
  /\ reloading \in BOOLEAN
  /\ req \in [Requests -> RequestType]
  /\ usable \in [Requests -> SUBSET Entries]

Active(r) == req[r].pc \in InHand \cup {"walking"}
Remaining(r) == req[r].chain \ req[r].tried

RouteInit ==
  /\ Init
  /\ live = cfg
  /\ reloading = FALSE
  /\ req = [r \in Requests |-> Idle]
  /\ usable = [r \in Requests |-> {}]

-----------------------------------------------------------------------------
(* routeRequest: a body that cannot be read, is no JSON or names no model  *)
(* is answered 400.                                                        *)
BadRequest(r) ==
  /\ req[r].pc = "idle"
  /\ req' = [req EXCEPT ![r].pc = "done", ![r].out = "bad_request"]
  /\ UNCHANGED <<healthVars, live, reloading>>

(* The chain comes from the live handler; an unknown model is answered 404. *)
Arrive(r, m) ==
  /\ req[r].pc = "idle"
  /\ req' = [req EXCEPT ![r] =
       IF ChainOf(live, m) = {} THEN [Idle EXCEPT !.pc = "done", !.out = "unknown_model"]
       ELSE [Idle EXCEPT !.pc = "walking", !.chain = ChainOf(live, m)]]
  /\ UNCHANGED <<healthVars, live, reloading>>

(* Mutants: passes over, or tries, any backend of the chain. *)
SkipAny(r, e) ==
  /\ req[r].pc = "walking" /\ e \in Remaining(r) /\ ~IsHealthy(e.name)
  /\ req' = [req EXCEPT ![r].tried = @ \cup {e}]
  /\ UNCHANGED <<healthVars, live, reloading>>

SendAny(r, e) ==
  /\ req[r].pc = "walking" /\ e \in Remaining(r) /\ IsHealthy(e.name)
  /\ req' = [req EXCEPT ![r].pc = "sent", ![r].at = e, ![r].lost = FALSE]
  /\ UNCHANGED <<healthVars, live, reloading>>

(* The next backend of the chain is not healthy: it is passed over. *)
Skip(r, e) ==
  /\ req[r].pc = "walking" /\ IsFirst(e, Remaining(r))
  /\ ~IsHealthy(e.name)
  /\ req' = [req EXCEPT ![r].tried = @ \cup {e}]
  /\ UNCHANGED <<healthVars, live, reloading>>

(* forwardAttempt starts a round trip to the next backend. *)
Send(r, e) ==
  /\ req[r].pc = "walking" /\ IsFirst(e, Remaining(r))
  /\ IsHealthy(e.name)
  /\ req' = [req EXCEPT ![r].pc = "sent", ![r].at = e, ![r].lost = FALSE]
  /\ UNCHANGED <<healthVars, live, reloading>>

(* The server has the request; what it does from here on it does once more *)
(* at the next backend should this one's answer not arrive.                *)
Deliver(r) ==
  /\ req[r].pc = "sent" /\ ~req[r].gone
  /\ cond[req[r].at.url] # "down"
  /\ req' = [req EXCEPT ![r].pc = "awaiting"]
  /\ UNCHANGED <<healthVars, live, reloading>>

(* Mutant: comes back to the same backend. *)
AdvanceNowhere(r) ==
  /\ req' = [req EXCEPT ![r].pc = "walking", ![r].out = "pending", ![r].fallback = FALSE]
  /\ UNCHANGED <<healthVars, live, reloading>>

(* The backend in hand is given up, and with it the headers of a response. *)
Advance(r) ==
  /\ req' = [req EXCEPT ![r].pc = "walking", ![r].tried = @ \cup {req[r].at},
                        ![r].out = "pending", ![r].fallback = FALSE]
  /\ UNCHANGED <<healthVars, live, reloading>>

(* ErrorHandler: dial or connection error, timeout, a body that breaks off *)
(* while it is validated, or the client is gone.                           *)
TransportError(r) ==
  /\ \/ req[r].pc = "sent" /\ cond[req[r].at.url] = "down"
     \/ req[r].pc \in {"awaiting", "validating"} /\ req[r].lost
     \/ req[r].pc \in {"sent", "awaiting", "validating"} /\ req[r].gone
  /\ Advance(r)

(* What a response holds, and whether its content type may, or need not,   *)
(* be application/json: a completion comes as JSON or as a stream.         *)
AnswerOf(c) == CASE c = "up" -> "ok" [] c \in {"garbled", "foreign"} -> "garbled" [] OTHER -> "error"
MayBeJson(c) == c \in {"up", "garbled", "failing"}
MayBeOther(c) == c \in {"up", "foreign", "broken"}

(* Mutant: the second backend of a chain is not marked a fallback. *)
HeadersUnmarked(r, validate) ==
  LET c == cond[req[r].at.url] IN
  /\ req[r].pc = "awaiting" /\ ~req[r].lost
  /\ IF validate THEN Validating /\ MayBeJson(c) ELSE Validating => MayBeOther(c)
  /\ req' = [req EXCEPT ![r].pc = IF validate THEN "validating" ELSE "copying",
                        ![r].out = AnswerOf(c), ![r].fallback = (Cardinality(req[r].tried) > 1)]
  /\ UNCHANGED <<healthVars, live, reloading>>

(* The headers of the response arrive, of whatever status: a JSON body is  *)
(* validated if the configuration says so, any other response is passed on *)
(* as it is.                                                               *)
Headers(r, validate) ==
  LET c == cond[req[r].at.url] IN
  /\ req[r].pc = "awaiting" /\ ~req[r].lost
  /\ IF validate THEN Validating /\ MayBeJson(c) ELSE Validating => MayBeOther(c)
  /\ req' = [req EXCEPT ![r].pc = IF validate THEN "validating" ELSE "copying",
                        ![r].out = AnswerOf(c), ![r].fallback = (req[r].tried # {})]
  /\ UNCHANGED <<healthVars, live, reloading>>

(* ModifyResponse has read the body and finds a completion ... *)
Validated(r) ==
  /\ req[r].pc = "validating" /\ req[r].out = "ok"
  /\ req' = [req EXCEPT ![r].pc = "copying"]
  /\ UNCHANGED <<healthVars, live, reloading>>

(* ... or none, be the response a 200 or an error page. *)
Rejected(r) ==
  /\ req[r].pc = "validating" /\ req[r].out # "ok"
  /\ Advance(r)

(* The body has been copied whole. *)
Answer(r) ==
  /\ req[r].pc = "copying"
  /\ req' = [req EXCEPT ![r].pc = "done", ![r].observed = "backend"]
  /\ UNCHANGED <<healthVars, live, reloading>>

(* The connection breaks after headers went out: ReverseProxy panics with  *)
(* ErrAbortHandler, the client sees a cut response, no metric is recorded. *)
Abort(r) ==
  /\ req[r].pc = "copying" /\ (req[r].lost \/ req[r].gone)
  /\ req' = [req EXCEPT ![r].pc = "done", ![r].out = "aborted"]
  /\ UNCHANGED <<healthVars, live, reloading>>

(* The chain is exhausted: 503. *)
Exhausted(r) ==
  /\ req[r].pc = "walking" /\ Remaining(r) = {}
  /\ req' = [req EXCEPT ![r].pc = "done", ![r].out = "unavailable", ![r].observed = "none"]
  /\ UNCHANGED <<healthVars, live, reloading>>

(* The client disconnects: its context fails every later round trip. *)
ClientGone(r) ==
  /\ Active(r) /\ ~req[r].gone
  /\ req' = [req EXCEPT ![r].gone = TRUE]
  /\ UNCHANGED <<healthVars, live, reloading>>

(* Gateway.Reload, called by one signal handler: first the health checker, *)
(* then the handler.  A restart would do neither for requests in flight.   *)
ReloadHealth(new) ==
  /\ ~reloading
  /\ UpdateConfig(new)
  /\ reloading' = TRUE
  /\ UNCHANGED <<live, req>>

(* Mutant: the new chains hold sort keys in place of priorities. *)
ReloadHandlerKeys ==
  /\ reloading
  /\ live' = {[e EXCEPT !.prio = SortKey(e)] : e \in cfg}
  /\ reloading' = FALSE
  /\ UNCHANGED <<healthVars, req>>

ReloadHandler ==
  /\ reloading
  /\ live' = cfg
  /\ reloading' = FALSE
  /\ UNCHANGED <<healthVars, req>>

(* A server that goes down takes the round trips it was answering along;   *)
(* of a response under way the gateway may have the rest already.          *)
Breaks(u) ==
  /\ ServerChanges(u)
  /\ req' = [r \in Requests |->
       IF req[r].pc \in InHand \ {"sent"} /\ req[r].at.url = u /\ cond'[u] = "down"
       THEN [req[r] EXCEPT !.lost = TRUE] ELSE req[r]]
  /\ UNCHANGED <<live, reloading>>

ProbeStep ==
  /\ CheckAll \/ \E p \in probes : ProbeAnswered(p) \/ ProbeApplied(p)
  /\ UNCHANGED <<live, reloading, req>>

(* Everything the gateway does for a request once it has arrived. *)
Serve(r) ==
  \/ \E e \in Entries : Skip(r, e) \/ Send(r, e)
  \/ Deliver(r) \/ TransportError(r) \/ \E validate \in BOOLEAN : Headers(r, validate)
  \/ Validated(r) \/ Rejected(r) \/ Answer(r) \/ Abort(r) \/ Exhausted(r)

(* Auxiliary: a backend is usable while it is routable and up; a request's *)
(* usable entries are those that never ceased to be while it was active.   *)
Usable(e) == IsHealthy(e.name) /\ cond[e.url] = "up"

TrackUsable ==
  usable' = [r \in Requests |->
    IF req[r].pc = "done" THEN usable[r]
    ELSE {e \in (IF req[r].pc = "idle" THEN req'[r].chain ELSE usable[r]) : Usable(e)'}]

RouteStep ==
  \/ \E r \in Requests : BadRequest(r)
  \/ \E r \in Requests, m \in Models : Arrive(r, m)
  \/ \E r \in Requests : Serve(r)
  \/ \E r \in Requests : ClientGone(r)
  \/ \E new \in Configs : ReloadHealth(new)
  \/ ReloadHandler
  \/ \E u \in Urls : Breaks(u)
  \/ ProbeStep

RouteNext == RouteStep /\ TrackUsable

RouteSpec == RouteInit /\ [][RouteNext]_failoverVars

(* A body is under way, its connection stands and the client waits.        *)
InTransfer(r) ==
  req[r].pc \in {"validating", "copying"} /\ ~req[r].lost /\ ~req[r].gone

(* A handler goroutine runs; a server that is not down sends its headers   *)
(* within the transport's ResponseHeaderTimeout or counts as down.  No     *)
(* timeout limits a body: while it is under way nothing is fair.           *)
RouteFairSpec ==
  RouteSpec /\ \A r \in Requests : WF_failoverVars(Serve(r) /\ ~InTransfer(r) /\ TrackUsable)

-----------------------------------------------------------------------------
(* A backend of the chain that was up and in rotation throughout the       *)
(* request is never missed, whatever the interleaving of probes, reloads   *)
(* and failing servers: with one, no request is refused with 503, and none *)
(* is answered by a backend such a one precedes.                           *)
BestUsableAnswers ==
  \A r \in Requests : ~req[r].gone =>
    /\ req[r].out = "unavailable" => usable[r] = {}
    /\ req[r].out \in Answers => \A e \in usable[r] : ~Precedes(e, req[r].at)

(* Every finished request with a chain is counted once, under the backend  *)
(* that answered it or under "none" when none did, unless it was aborted;  *)
(* and, as forwardChain's comment has it, X-HiveMind-Fallback is on an     *)
(* answer exactly when a backend other than the chain's primary gave it.   *)
ServedAsCounted ==
  \A r \in Requests :
    /\ req[r].pc = "done" =>
         CASE req[r].observed = "backend" -> req[r].out \in Answers /\ req[r].at \notin req[r].tried
           [] req[r].observed = "none" -> req[r].tried = req[r].chain
           [] OTHER -> req[r].out \in {"aborted", "bad_request", "unknown_model"}
    /\ req[r].out \in Answers =>
         (req[r].fallback <=> \E e \in req[r].chain : Precedes(e, req[r].at))

(* Outside a reload the live chains and the health checker know the same   *)
(* backends, so a chain built after a reload consults only real verdicts.  *)
LiveChainsCovered == ~reloading => live = cfg /\ NamesIn(live) = DOMAIN states

(* A backend that is passed over has been confirmed unhealthy or is no     *)
(* longer configured at that moment.                                       *)
PassedOver(r, e) ==
  /\ req[r].pc = "walking" /\ req'[r].pc = "walking"
  /\ e \in req'[r].tried \ req[r].tried
Confirmed(n) == n \in DOMAIN states /\ states[n].state = "unhealthy"

SkipJustified ==
  [][\A r \in Requests : \A e \in Entries :
       PassedOver(r, e) => Confirmed(e.name) \/ e.name \notin NamesIn(cfg)]_failoverVars

(* Whatever backends, probes and reloads do, a request that reached the    *)
(* router is finished, but for one case: a backend has begun to answer it, *)
(* keeps the connection and never ends the body, and the client waits.     *)
EveryRequestEnds ==
  \A r \in Requests : Active(r) ~> (req[r].pc = "done" \/ []InTransfer(r))

(* The refinement mapping: what is left of the chain is what is left to    *)
(* promise, and a request is answered once headers go out to the client.   *)
PhaseOf(x) ==
  CASE x.pc = "idle" -> "idle"
    [] x.pc = "copying" \/ (x.pc = "done" /\ x.out \notin Refusals) -> "answered"
    [] x.pc = "done" /\ x.out \in Refusals -> "refused"
    [] OTHER -> "open"
AnswerBy(x) == IF PhaseOf(x) = "answered" THEN x.at ELSE NoEntry

Promise == INSTANCE RoutePromise WITH
  phase     <- [r \in Requests |-> PhaseOf(req[r])],
  remaining <- [r \in Requests |-> Remaining(r)],
  answer    <- [r \in Requests |-> AnswerBy(req[r])]

(* Routing implements the promise of RoutePromise. *)
KeepsPromise == Promise!Spec
=============================================================================
