--------------------------- MODULE FailoverProofs ---------------------------
(* What Failover keeps true for every fleet, every set of configurations,  *)
(* any number of concurrent requests and either setting of validation.     *)
EXTENDS Failover, HealthCheckerProofs, FiniteSetTheorems

(* The walk of one request: what was tried precedes what is left, and the  *)
(* backend in hand is the first of what is left.                           *)
WalkOK(x) ==
  LET rest == x.chain \ x.tried IN
  /\ x.tried \subseteq x.chain
  /\ \A f \in x.tried, e \in rest : Precedes(f, e)
  /\ x.pc = "idle" => x = Idle
  /\ x.pc \in InHand => IsFirst(x.at, rest)
  /\ x.pc = "sent" => ~x.lost
  /\ x.out = "pending" <=> x.pc \in {"idle", "walking", "sent", "awaiting"}
  /\ x.pc \in {"validating", "copying"} => x.out \in Answers
  /\ x.out \in Answers \cup {"aborted"} =>
       IsFirst(x.at, rest) /\ (x.fallback <=> x.tried # {})
  /\ x.out \in Refusals => rest = {}
  /\ x.observed = "backend" <=> x.pc = "done" /\ x.out \in Answers
  /\ x.observed = "none" <=> x.out = "unavailable"

(* The auxiliary set of one request: all of it is usable now while the     *)
(* request is active, only a client that left can have lost one of it, and *)
(* what is validated and no completion comes from none of it.              *)
UsableOK(x, us) ==
  /\ us \subseteq x.chain
  /\ x.pc \in InHand \cup {"walking"} => \A e \in us : Usable(e)
  /\ ~x.gone => us \cap x.tried = {}
  /\ x.pc \in {"awaiting", "validating"} /\ x.lost => x.at \notin us
  /\ x.pc = "validating" /\ x.out # "ok" => x.at \notin us

RouteInv ==
  /\ HealthInv
  /\ RouteTypeOK
  /\ ~reloading => live = cfg
  /\ \A r \in Requests : WalkOK(req[r]) /\ UsableOK(req[r], usable[r])

-----------------------------------------------------------------------------
(* The chain order is strict. *)
LEMMA PrecedesAsymmetric ==
  ASSUME NEW e \in Entries, NEW f \in Entries, Precedes(e, f)
  PROVE  ~Precedes(f, e)
  BY OrderAssumption DEF Precedes, SortKey

(* The health checker cannot tell routing steps from its own. *)
LEMMA RouteStepIsHealthStep == RouteNext => [Next]_healthVars
<1>. SUFFICES ASSUME RouteStep PROVE [Next]_healthVars
  BY DEF RouteNext
<1>0. ASSUME NEW r \in Requests, BadRequest(r) PROVE UNCHANGED healthVars
  BY <1>0 DEF BadRequest
<1>1. ASSUME NEW r \in Requests, NEW m \in Models, Arrive(r, m) PROVE UNCHANGED healthVars
  BY <1>1 DEF Arrive
<1>2. ASSUME NEW r \in Requests, Serve(r) PROVE UNCHANGED healthVars
  BY <1>2 DEF Serve, Skip, Send, Deliver, TransportError, Headers, Validated, Rejected, Advance,
              Answer, Abort, Exhausted
<1>3. ASSUME NEW r \in Requests, ClientGone(r) PROVE UNCHANGED healthVars
  BY <1>3 DEF ClientGone
<1>4. ASSUME NEW new \in Configs, ReloadHealth(new) PROVE Next
  BY <1>4 DEF ReloadHealth, Next
<1>5. CASE ReloadHandler
  BY <1>5 DEF ReloadHandler
<1>6. ASSUME NEW u \in Urls, Breaks(u) PROVE Next
  BY <1>6 DEF Breaks, Next
<1>7. CASE ProbeStep
  BY <1>7 DEF ProbeStep, Next
<1>. QED BY <1>0, <1>1, <1>2, <1>3, <1>4, <1>5, <1>6, <1>7 DEF RouteStep

(* Ruling out the first of the rest keeps what was tried ahead of the rest. *)
LEMMA RuleOutFirst ==
  ASSUME NEW x \in RequestType, WalkOK(x), NEW e \in Entries, IsFirst(e, x.chain \ x.tried)
  PROVE  /\ x.tried \cup {e} \subseteq x.chain
         /\ \A f \in x.tried \cup {e}, g \in x.chain \ (x.tried \cup {e}) : Precedes(f, g)
         /\ x.chain \ (x.tried \cup {e}) = (x.chain \ x.tried) \ {e}
  BY DEF WalkOK, IsFirst

(* What every step of a request's handler does to its request. *)
HandlerStep(r) ==
  /\ req' \in [Requests -> RequestType]
  /\ \A q \in Requests \ {r} : req'[q] = req[q]
  /\ WalkOK(req'[r])
  /\ req[r].pc # "done" /\ req[r].pc # "idle" /\ req'[r].pc # "idle"
  /\ req'[r].chain = req[r].chain /\ req'[r].gone = req[r].gone
  /\ req'[r].pc = "awaiting" => ~req'[r].lost
  /\ req'[r].pc = "validating" =>
       ~req'[r].lost /\ (req'[r].out # "ok" => req'[r].at \notin usable[r])
  /\ \A e \in req'[r].tried \ req[r].tried : req[r].gone \/ e \notin usable[r]
  /\ UNCHANGED <<healthVars, live, reloading>>

LEMMA SkipStep ==
  ASSUME RouteInv, NEW r \in Requests, NEW e \in Entries, Skip(r, e)
  PROVE  HandlerStep(r)
<1>. DEFINE x == req[r]
<1>1. x \in RequestType /\ WalkOK(x) /\ UsableOK(x, usable[r])
  BY DEF RouteInv, RouteTypeOK
<1>2. /\ req' = [req EXCEPT ![r].tried = @ \cup {e}]
      /\ x.pc = "walking" /\ IsFirst(e, x.chain \ x.tried)
      /\ UNCHANGED <<healthVars, live, reloading>>
  BY DEF Skip, Remaining
<1>3. req'[r] = [x EXCEPT !.tried = @ \cup {e}] /\ req' \in [Requests -> RequestType]
  BY <1>1, <1>2 DEF RouteInv, RouteTypeOK, RequestType
<1>4. WalkOK(req'[r])
  <2>1. x.out = "pending" /\ x.observed = "no"
    BY <1>1, <1>2 DEF WalkOK, RequestType, Answers, Refusals
  <2>2. /\ x.tried \cup {e} \subseteq x.chain
        /\ \A f \in x.tried \cup {e}, g \in x.chain \ (x.tried \cup {e}) : Precedes(f, g)
    BY <1>1, <1>2, RuleOutFirst
  <2>. QED BY <1>1, <1>2, <1>3, <2>1, <2>2 DEF WalkOK, RequestType, Answers, Refusals, InHand
<1>5. e \notin usable[r]
  BY <1>1, <1>2 DEF Skip, UsableOK, Usable
<1>. QED BY <1>1, <1>2, <1>3, <1>4, <1>5 DEF HandlerStep, RouteInv, RouteTypeOK, RequestType

LEMMA SendStep ==
  ASSUME RouteInv, NEW r \in Requests, NEW e \in Entries, Send(r, e)
  PROVE  HandlerStep(r)
<1>. DEFINE x == req[r]
<1>1. x \in RequestType /\ WalkOK(x)
  BY DEF RouteInv, RouteTypeOK
<1>2. /\ x.pc = "walking" /\ IsFirst(e, x.chain \ x.tried)
      /\ req'[r] = [x EXCEPT !.pc = "sent", !.at = e, !.lost = FALSE]
      /\ req' \in [Requests -> RequestType]
  BY <1>1 DEF Send, Remaining, RouteInv, RouteTypeOK, RequestType, InHand
<1>3. WalkOK(req'[r])
  BY <1>1, <1>2 DEF WalkOK, RequestType, Answers, Refusals, InHand
<1>. QED BY <1>1, <1>2, <1>3 DEF HandlerStep, Send, RouteInv, RouteTypeOK, RequestType

LEMMA DeliverStep ==
  ASSUME RouteInv, NEW r \in Requests, Deliver(r)
  PROVE  HandlerStep(r)
<1>. DEFINE x == req[r]
<1>1. x \in RequestType /\ WalkOK(x)
  BY DEF RouteInv, RouteTypeOK
<1>2. /\ x.pc = "sent" /\ req'[r] = [x EXCEPT !.pc = "awaiting"]
      /\ req' \in [Requests -> RequestType]
  BY <1>1 DEF Deliver, RouteInv, RouteTypeOK, RequestType, InHand
<1>3. WalkOK(req'[r]) /\ ~req'[r].lost
  BY <1>1, <1>2 DEF WalkOK, RequestType, Answers, Refusals, InHand
<1>. QED BY <1>1, <1>2, <1>3 DEF HandlerStep, Deliver, RouteInv, RouteTypeOK, RequestType

(* The backend in hand failed the request and was not usable throughout,   *)
(* unless the client is gone.                                              *)
LEMMA AdvanceStep ==
  ASSUME RouteInv, NEW r \in Requests, Advance(r), req[r].pc \in {"sent", "awaiting", "validating"},
         req[r].gone \/ req[r].at \notin usable[r]
  PROVE  HandlerStep(r)
<1>. DEFINE x == req[r]
<1>1. x \in RequestType /\ WalkOK(x)
  BY DEF RouteInv, RouteTypeOK
<1>2. IsFirst(x.at, x.chain \ x.tried) /\ x.at \in Entries
  BY <1>1 DEF WalkOK, IsFirst, RequestType, InHand
<1>. DEFINE y == [x EXCEPT !.pc = "walking", !.tried = @ \cup {x.at}, !.out = "pending",
                           !.fallback = FALSE]
<1>3. y \in RequestType
  BY <1>1, <1>2 DEF RequestType, Outcomes, InHand
<1>4. req' = [req EXCEPT ![r] = y]
  BY DEF Advance, RouteInv, RouteTypeOK
<1>5. req'[r] = y /\ req' \in [Requests -> RequestType]
  BY <1>3, <1>4 DEF RouteInv, RouteTypeOK
<1>6. /\ x.tried \cup {x.at} \subseteq x.chain
      /\ \A f \in x.tried \cup {x.at}, g \in x.chain \ (x.tried \cup {x.at}) : Precedes(f, g)
  BY <1>1, <1>2, RuleOutFirst
<1>7. x.observed = "no"
  BY <1>1 DEF WalkOK, RequestType, Answers, Refusals
<1>8. WalkOK(req'[r])
  BY <1>1, <1>5, <1>6, <1>7 DEF WalkOK, RequestType, Answers, Refusals, InHand
<1>. QED BY <1>1, <1>2, <1>5, <1>8 DEF HandlerStep, Advance, RouteInv, RouteTypeOK, RequestType

LEMMA TransportErrorStep ==
  ASSUME RouteInv, NEW r \in Requests, TransportError(r)
  PROVE  HandlerStep(r)
<1>1. UsableOK(req[r], usable[r])
  BY DEF RouteInv
<1>2. req[r].gone \/ req[r].at \notin usable[r]
  BY <1>1 DEF TransportError, UsableOK, Usable, InHand
<1>. QED BY <1>2, AdvanceStep DEF TransportError

(* A body that is refused does not come from a backend that stayed usable. *)
LEMMA RejectedStep ==
  ASSUME RouteInv, NEW r \in Requests, Rejected(r)
  PROVE  HandlerStep(r)
<1>1. UsableOK(req[r], usable[r])
  BY DEF RouteInv
<1>2. req[r].at \notin usable[r]
  BY <1>1 DEF Rejected, UsableOK
<1>. QED BY <1>2, AdvanceStep DEF Rejected

LEMMA HeadersStep ==
  ASSUME RouteInv, NEW r \in Requests, NEW validate \in BOOLEAN, Headers(r, validate)
  PROVE  HandlerStep(r)
<1>. DEFINE x == req[r]
            out == AnswerOf(cond[x.at.url])
            pc == IF validate THEN "validating" ELSE "copying"
<1>1. x \in RequestType /\ WalkOK(x) /\ UsableOK(x, usable[r])
  BY DEF RouteInv, RouteTypeOK
<1>2. out \in Answers /\ pc \in {"validating", "copying"}
  BY DEF AnswerOf, Answers
<1>3. out # "ok" => x.at \notin usable[r]
  <2>1. x.pc = "awaiting"
    BY DEF Headers
  <2>2. cond[x.at.url] = "up" => out = "ok"
    BY DEF AnswerOf
  <2>. HIDE DEF out
  <2>. QED BY <1>1, <2>1, <2>2 DEF UsableOK, Usable, InHand
<1>4. /\ x.pc = "awaiting" /\ ~x.lost
      /\ req' = [req EXCEPT ![r] = [x EXCEPT !.pc = pc, !.out = out, !.fallback = (x.tried # {})]]
  BY DEF Headers, RouteInv, RouteTypeOK
<1>. HIDE DEF out, pc
<1>5. /\ req'[r] = [x EXCEPT !.pc = pc, !.out = out, !.fallback = (x.tried # {})]
      /\ req' \in [Requests -> RequestType]
  BY <1>1, <1>2, <1>4 DEF RouteInv, RouteTypeOK, RequestType, Outcomes, InHand
<1>6. WalkOK(req'[r])
  BY <1>1, <1>2, <1>4, <1>5 DEF WalkOK, RequestType, Answers, Refusals, InHand
<1>7. \A q \in Requests \ {r} : req'[q] = req[q]
  BY <1>4 DEF RouteInv, RouteTypeOK
<1>8. /\ req'[r].chain = x.chain /\ req'[r].gone = x.gone /\ req'[r].tried = x.tried
      /\ req'[r].at = x.at /\ req'[r].lost = x.lost /\ req'[r].out = out /\ req'[r].pc = pc
  BY <1>1, <1>5 DEF RequestType
<1>9. UNCHANGED <<healthVars, live, reloading>>
  BY DEF Headers
<1>. QED BY <1>2, <1>3, <1>4, <1>5, <1>6, <1>7, <1>8, <1>9 DEF HandlerStep

LEMMA ValidatedStep ==
  ASSUME RouteInv, NEW r \in Requests, Validated(r)
  PROVE  HandlerStep(r)
<1>. DEFINE x == req[r]
<1>1. x \in RequestType /\ WalkOK(x)
  BY DEF RouteInv, RouteTypeOK
<1>2. /\ x.pc = "validating" /\ req'[r] = [x EXCEPT !.pc = "copying"]
      /\ req' \in [Requests -> RequestType]
  BY <1>1 DEF Validated, RouteInv, RouteTypeOK, RequestType, InHand
<1>3. WalkOK(req'[r])
  BY <1>1, <1>2 DEF WalkOK, RequestType, Answers, Refusals, InHand
<1>. QED BY <1>1, <1>2, <1>3 DEF HandlerStep, Validated, RouteInv, RouteTypeOK, RequestType

LEMMA AnswerStep ==
  ASSUME RouteInv, NEW r \in Requests, Answer(r)
  PROVE  HandlerStep(r)
<1>. DEFINE x == req[r]
<1>1. x \in RequestType /\ WalkOK(x)
  BY DEF RouteInv, RouteTypeOK
<1>2. /\ x.pc = "copying" /\ req'[r] = [x EXCEPT !.pc = "done", !.observed = "backend"]
      /\ req' \in [Requests -> RequestType]
  BY <1>1 DEF Answer, RouteInv, RouteTypeOK, RequestType, InHand
<1>3. WalkOK(req'[r])
  BY <1>1, <1>2 DEF WalkOK, RequestType, Answers, Refusals, InHand
<1>. QED BY <1>1, <1>2, <1>3 DEF HandlerStep, Answer, RouteInv, RouteTypeOK, RequestType

LEMMA AbortStep ==
  ASSUME RouteInv, NEW r \in Requests, Abort(r)
  PROVE  HandlerStep(r)
<1>. DEFINE x == req[r]
<1>1. x \in RequestType /\ WalkOK(x)
  BY DEF RouteInv, RouteTypeOK
<1>2. /\ x.pc = "copying" /\ req'[r] = [x EXCEPT !.pc = "done", !.out = "aborted"]
      /\ req' \in [Requests -> RequestType]
  BY <1>1 DEF Abort, RouteInv, RouteTypeOK, RequestType, Outcomes, InHand
<1>3. WalkOK(req'[r])
  BY <1>1, <1>2 DEF WalkOK, RequestType, Answers, Refusals, InHand
<1>. QED BY <1>1, <1>2, <1>3 DEF HandlerStep, Abort, RouteInv, RouteTypeOK, RequestType

LEMMA ExhaustedStep ==
  ASSUME RouteInv, NEW r \in Requests, Exhausted(r)
  PROVE  HandlerStep(r)
<1>. DEFINE x == req[r]
<1>1. x \in RequestType /\ WalkOK(x)
  BY DEF RouteInv, RouteTypeOK
<1>2. /\ x.pc = "walking" /\ x.chain \ x.tried = {}
      /\ req'[r] = [x EXCEPT !.pc = "done", !.out = "unavailable", !.observed = "none"]
      /\ req' \in [Requests -> RequestType]
  BY <1>1 DEF Exhausted, Remaining, RouteInv, RouteTypeOK, RequestType, Outcomes, InHand, Answers, Refusals
<1>3. WalkOK(req'[r])
  BY <1>1, <1>2 DEF WalkOK, RequestType, Answers, Refusals, InHand
<1>. QED BY <1>1, <1>2, <1>3 DEF HandlerStep, Exhausted, RouteInv, RouteTypeOK, RequestType

LEMMA ServeStep ==
  ASSUME RouteInv, NEW r \in Requests, Serve(r)
  PROVE  HandlerStep(r)
  BY SkipStep, SendStep, DeliverStep, TransportErrorStep, HeadersStep, ValidatedStep,
     RejectedStep, AnswerStep, AbortStep, ExhaustedStep DEF Serve
-----------------------------------------------------------------------------
(* The auxiliary set of a request that has arrived only shrinks, and what  *)
(* a step rules out, or loses, was not in it.                              *)
LEMMA UsableKept ==
  ASSUME RouteInv, TrackUsable, NEW q \in Requests,
         req[q].pc # "idle", req'[q].pc # "idle",
         req[q].pc = "done" => req'[q].pc = "done",
         req'[q].chain = req[q].chain,
         req[q].gone => req'[q].gone,
         \A e \in req'[q].tried \ req[q].tried : req[q].gone \/ e \notin usable[q],
         req'[q].pc \in {"awaiting", "validating"} /\ req'[q].lost =>
           \/ req[q].pc \in {"awaiting", "validating"} /\ req[q].lost /\ req'[q].at = req[q].at
           \/ cond'[req'[q].at.url] # "up",
         req'[q].pc = "validating" /\ req'[q].out # "ok" => req'[q].at \notin usable[q]
  PROVE  UsableOK(req[q], usable[q])'
<1>1. UsableOK(req[q], usable[q])
  BY DEF RouteInv
<1>2. usable'[q] = IF req[q].pc = "done" THEN usable[q] ELSE {e \in usable[q] : Usable(e)'}
  BY DEF TrackUsable
<1>3. usable'[q] \subseteq usable[q]
  BY <1>2
<1>4. usable'[q] \subseteq req'[q].chain
  BY <1>1, <1>3 DEF UsableOK
<1>5. req'[q].pc \in InHand \cup {"walking"} => \A e \in usable'[q] : Usable(e)'
  BY <1>2 DEF InHand
<1>6. ~req'[q].gone => usable'[q] \cap req'[q].tried = {}
  BY <1>1, <1>3 DEF UsableOK
<1>7. req'[q].pc \in {"awaiting", "validating"} /\ req'[q].lost => req'[q].at \notin usable'[q]
  BY <1>1, <1>3, <1>5 DEF UsableOK, Usable, InHand
<1>8. req'[q].pc = "validating" /\ req'[q].out # "ok" => req'[q].at \notin usable'[q]
  BY <1>3
<1>. QED BY <1>4, <1>5, <1>6, <1>7, <1>8 DEF UsableOK

(* A request a step leaves alone keeps its invariant. *)
LEMMA Untouched ==
  ASSUME RouteInv, TrackUsable, NEW q \in Requests, req'[q] = req[q]
  PROVE  WalkOK(req'[q]) /\ UsableOK(req[q], usable[q])'
<1>1. WalkOK(req'[q])
  BY DEF RouteInv
<1>2. CASE req[q].pc = "idle"
  <2>1. req[q] = Idle
    BY <1>2 DEF RouteInv, WalkOK
  <2>2. usable'[q] = {}
    BY <1>2, <2>1 DEF TrackUsable, Idle
  <2>. QED BY <1>1, <2>1, <2>2 DEF UsableOK, Idle
<1>3. CASE req[q].pc # "idle"
  <2>1. UsableOK(req[q], usable[q])
    BY DEF RouteInv
  <2>. QED BY <1>1, <1>3, <2>1, UsableKept DEF UsableOK
<1>. QED BY <1>2, <1>3

LEMMA TrackUsableType == RouteTypeOK /\ TrackUsable /\ req' \in [Requests -> RequestType]
                           => usable' \in [Requests -> SUBSET Entries]
  BY DEF RouteTypeOK, TrackUsable, RequestType

(* RouteInv but for the health checker's part, which comes by itself. *)
RequestsOK == \A q \in Requests : WalkOK(req[q]) /\ UsableOK(req[q], usable[q])

LEMMA BadRequestInv ==
  ASSUME RouteInv, TrackUsable, NEW r \in Requests, BadRequest(r)
  PROVE  req' \in [Requests -> RequestType] /\ RequestsOK'
<1>. DEFINE x == [Idle EXCEPT !.pc = "done", !.out = "bad_request"]
<1>1. x \in RequestType
  BY DEF Idle, RequestType, Outcomes, Refusals
<1>2. req[r] = Idle
  BY DEF BadRequest, RouteInv, WalkOK
<1>3. req' = [req EXCEPT ![r] = x]
  BY <1>2 DEF BadRequest, RouteInv, RouteTypeOK
<1>4. req' \in [Requests -> RequestType] /\ req'[r] = x
  BY <1>1, <1>3 DEF RouteInv, RouteTypeOK
<1>5. WalkOK(x)
  <2>1. /\ x.pc = "done" /\ x.out = "bad_request" /\ x.observed = "no"
        /\ x.chain = {} /\ x.tried = {}
    BY DEF Idle
  <2>. HIDE DEF x
  <2>. QED BY <2>1 DEF WalkOK, Answers, Refusals, InHand
<1>6. usable'[r] = {}
  <2>1. req[r].pc = "idle" /\ req'[r].chain = {}
    BY <1>2, <1>4 DEF Idle
  <2>. QED BY <2>1 DEF TrackUsable
<1>7. UsableOK(req[r], usable[r])'
  BY <1>4, <1>6 DEF UsableOK, Idle, InHand
<1>8. ASSUME NEW q \in Requests, q # r PROVE WalkOK(req'[q]) /\ UsableOK(req[q], usable[q])'
  <2>1. req'[q] = req[q]
    BY <1>3, <1>8 DEF RouteInv, RouteTypeOK
  <2>. QED BY <2>1, Untouched
<1>. QED BY <1>4, <1>5, <1>7, <1>8 DEF RequestsOK

LEMMA ArriveInv ==
  ASSUME RouteInv, TrackUsable, NEW r \in Requests, NEW m \in Models, Arrive(r, m)
  PROVE  req' \in [Requests -> RequestType] /\ RequestsOK'
<1>. DEFINE c == ChainOf(live, m)
            x == IF c = {} THEN [Idle EXCEPT !.pc = "done", !.out = "unknown_model"]
                 ELSE [Idle EXCEPT !.pc = "walking", !.chain = c]
<1>1. c \in SUBSET Entries
  BY DEF ChainOf, RouteInv, RouteTypeOK
<1>2. x \in RequestType
  BY <1>1 DEF Idle, RequestType, Outcomes, Answers, Refusals
<1>3. req' = [req EXCEPT ![r] = x] /\ req' \in [Requests -> RequestType]
  BY <1>2 DEF Arrive, RouteInv, RouteTypeOK
<1>4. req'[r] = x
  BY <1>3 DEF RouteInv, RouteTypeOK
<1>5. WalkOK(x)
  BY DEF WalkOK, Idle, Answers, Refusals, InHand
<1>6. usable'[r] = {e \in x.chain : Usable(e)'}
  BY <1>4 DEF TrackUsable, Arrive
<1>7. UsableOK(req[r], usable[r])'
  BY <1>4, <1>6 DEF UsableOK, Idle, InHand
<1>8. ASSUME NEW q \in Requests, q # r PROVE WalkOK(req'[q]) /\ UsableOK(req[q], usable[q])'
  <2>1. req'[q] = req[q]
    BY <1>3, <1>8 DEF RouteInv, RouteTypeOK
  <2>. QED BY <2>1, Untouched
<1>. QED BY <1>3, <1>4, <1>5, <1>7, <1>8 DEF RequestsOK

LEMMA ServeInv ==
  ASSUME RouteInv, TrackUsable, NEW r \in Requests, Serve(r)
  PROVE  req' \in [Requests -> RequestType] /\ RequestsOK'
<1>1. HandlerStep(r)
  BY ServeStep
<1>2. WalkOK(req'[r]) /\ UsableOK(req[r], usable[r])'
  BY <1>1, UsableKept DEF HandlerStep
<1>3. ASSUME NEW q \in Requests, q # r PROVE WalkOK(req'[q]) /\ UsableOK(req[q], usable[q])'
  BY <1>1, <1>3, Untouched DEF HandlerStep
<1>. QED BY <1>1, <1>2, <1>3 DEF HandlerStep, RequestsOK

LEMMA ClientGoneInv ==
  ASSUME RouteInv, TrackUsable, NEW r \in Requests, ClientGone(r)
  PROVE  req' \in [Requests -> RequestType] /\ RequestsOK'
<1>1. req[r] \in RequestType /\ WalkOK(req[r])
  BY DEF RouteInv, RouteTypeOK
<1>2. /\ req'[r] = [req[r] EXCEPT !.gone = TRUE] /\ req' \in [Requests -> RequestType]
      /\ req[r].pc \in InHand \cup {"walking"}
      /\ \A q \in Requests : q # r => req'[q] = req[q]
  BY <1>1 DEF ClientGone, Active, RouteInv, RouteTypeOK, RequestType
<1>3. WalkOK(req'[r])
  BY <1>1, <1>2 DEF WalkOK, RequestType, Answers, Refusals, InHand
<1>4. UsableOK(req[r], usable[r])'
  <2>1. UsableOK(req[r], usable[r])
    BY DEF RouteInv
  <2>. QED BY <1>1, <1>2, <2>1, UsableKept DEF RequestType, UsableOK, InHand
<1>. QED BY <1>2, <1>3, <1>4, Untouched DEF RequestsOK

LEMMA BreaksInv ==
  ASSUME RouteInv, TrackUsable, NEW u \in Urls, Breaks(u)
  PROVE  req' \in [Requests -> RequestType] /\ RequestsOK'
<1>1. ASSUME NEW q \in Requests
      PROVE  req'[q] \in RequestType /\ WalkOK(req'[q]) /\ UsableOK(req[q], usable[q])'
  <2>. DEFINE hit == req[q].pc \in InHand \ {"sent"} /\ req[q].at.url = u /\ cond'[u] = "down"
  <2>1. req[q] \in RequestType /\ WalkOK(req[q]) /\ UsableOK(req[q], usable[q])
    BY DEF RouteInv, RouteTypeOK
  <2>2. CASE hit
    <3>1. req'[q] = [req[q] EXCEPT !.lost = TRUE]
      BY <2>2 DEF Breaks
    <3>2. req'[q] \in RequestType /\ WalkOK(req'[q])
      BY <2>1, <2>2, <3>1 DEF WalkOK, RequestType, Answers, Refusals, InHand
    <3>3. UsableOK(req[q], usable[q])'
      BY <2>1, <2>2, <3>1, UsableKept DEF RequestType, UsableOK, InHand
    <3>. QED BY <3>2, <3>3
  <2>3. CASE ~hit
    <3>1. req'[q] = req[q]
      BY <2>3 DEF Breaks
    <3>. QED BY <2>1, <3>1, Untouched
  <2>. QED BY <2>2, <2>3
<1>2. req' \in [Requests -> RequestType]
  BY <1>1 DEF Breaks
<1>. QED BY <1>1, <1>2 DEF RequestsOK

LEMMA InitRouteInv == RouteInit => RouteInv
<1>. SUFFICES ASSUME RouteInit PROVE RouteInv
  OBVIOUS
<1>1. HealthInv
  BY InitHealthInv DEF RouteInit
<1>2. Idle \in RequestType
  BY DEF Idle, RequestType, Outcomes
<1>3. RouteTypeOK
  BY <1>1, <1>2 DEF RouteInit, RouteTypeOK, HealthInv, TypeOK
<1>4. WalkOK(Idle) /\ UsableOK(Idle, {})
  BY DEF WalkOK, UsableOK, Idle, Answers, Refusals, InHand
<1>. QED BY <1>1, <1>3, <1>4 DEF RouteInit, RouteInv

(* RouteInv is inductive. *)
LEMMA StepRouteInv == RouteInv /\ [RouteNext]_failoverVars => RouteInv'
<1>1. ASSUME RouteInv, RouteNext PROVE RouteInv'
  <2>1. HealthInv'
    BY <1>1, RouteStepIsHealthStep, StepHealthInv DEF RouteInv
  <2>2. TrackUsable /\ RouteStep
    BY <1>1 DEF RouteNext
  <2>. DEFINE Goal == /\ live' \in SUBSET Entries /\ reloading' \in BOOLEAN
                      /\ ~reloading' => live' = cfg'
                      /\ req' \in [Requests -> RequestType] /\ RequestsOK'
  <2>3. ASSUME UNCHANGED req PROVE req' \in [Requests -> RequestType] /\ RequestsOK'
    BY <1>1, <2>2, <2>3, Untouched DEF RouteInv, RouteTypeOK, RequestsOK
  <2>4. ASSUME UNCHANGED <<cfg, live, reloading>>
        PROVE  /\ live' \in SUBSET Entries /\ reloading' \in BOOLEAN
               /\ ~reloading' => live' = cfg'
    BY <1>1, <2>4 DEF RouteInv, RouteTypeOK
  <2>0. ASSUME NEW r \in Requests, BadRequest(r) PROVE Goal
    <3>1. UNCHANGED <<cfg, live, reloading>>
      BY <2>0 DEF BadRequest, healthVars
    <3>. QED BY <1>1, <2>2, <2>4, <2>0, <3>1, BadRequestInv
  <2>5. ASSUME NEW r \in Requests, NEW m \in Models, Arrive(r, m) PROVE Goal
    <3>1. UNCHANGED <<cfg, live, reloading>>
      BY <2>5 DEF Arrive, healthVars
    <3>. QED BY <1>1, <2>2, <2>4, <2>5, <3>1, ArriveInv
  <2>6. ASSUME NEW r \in Requests, Serve(r) PROVE Goal
    <3>1. UNCHANGED <<cfg, live, reloading>>
      BY <1>1, <2>6, ServeStep DEF HandlerStep, healthVars
    <3>. QED BY <1>1, <2>2, <2>4, <2>6, <3>1, ServeInv
  <2>7. ASSUME NEW r \in Requests, ClientGone(r) PROVE Goal
    <3>1. UNCHANGED <<cfg, live, reloading>>
      BY <2>7 DEF ClientGone, healthVars
    <3>. QED BY <1>1, <2>2, <2>4, <2>7, <3>1, ClientGoneInv
  <2>8. ASSUME NEW new \in Configs, ReloadHealth(new) PROVE Goal
    <3>1. UNCHANGED <<live, req>> /\ reloading'
      BY <2>8 DEF ReloadHealth
    <3>. QED BY <1>1, <2>3, <3>1, <2>8 DEF ReloadHealth, RouteInv, RouteTypeOK
  <2>9. ASSUME ReloadHandler PROVE Goal
    <3>1. UNCHANGED <<cfg, req>> /\ live' = cfg /\ reloading' = FALSE
      BY <2>9 DEF ReloadHandler, healthVars
    <3>. QED BY <1>1, <2>3, <3>1 DEF RouteInv, RouteTypeOK, TypeOK
  <2>10. ASSUME NEW u \in Urls, Breaks(u) PROVE Goal
    <3>1. UNCHANGED <<cfg, live, reloading>>
      BY <2>10 DEF Breaks, ServerChanges
    <3>. QED BY <1>1, <2>2, <2>4, <2>10, <3>1, BreaksInv
  <2>11. ASSUME ProbeStep PROVE Goal
    <3>1. UNCHANGED <<live, reloading, req>>
      BY <2>11 DEF ProbeStep
    <3>2. UNCHANGED cfg
      <4>1. CheckAll => UNCHANGED cfg
        BY DEF CheckAll
      <4>2. \A p \in probes : ProbeAnswered(p) \/ ProbeApplied(p) => UNCHANGED cfg
        BY DEF ProbeAnswered, ProbeApplied
      <4>. QED BY <2>11, <4>1, <4>2 DEF ProbeStep
    <3>. QED BY <2>3, <2>4, <3>1, <3>2
  <2>12. Goal
    BY <2>2, <2>0, <2>5, <2>6, <2>7, <2>8, <2>9, <2>10, <2>11 DEF RouteStep
  <2>13. usable' \in [Requests -> SUBSET Entries]
    BY <1>1, <2>2, <2>12, TrackUsableType DEF RouteInv
  <2>. QED BY <2>1, <2>12, <2>13 DEF RouteInv, RouteTypeOK, RequestsOK, HealthInv
<1>2. ASSUME RouteInv, UNCHANGED failoverVars PROVE RouteInv'
  <2>1. UNCHANGED <<cfg, states, probes, round, gauge, cond, live, reloading, req, usable>>
    BY <1>2 DEF failoverVars, healthVars, routeVars
  <2>2. HealthInv'
    BY <1>2, <2>1, StepHealthInv DEF RouteInv, healthVars
  <2>3. \A r \in Requests : UsableOK(req[r], usable[r])'
    BY <1>2, <2>1 DEF RouteInv, UsableOK, Usable, IsHealthy
  <2>. QED BY <1>2, <2>1, <2>2, <2>3 DEF RouteInv, RouteTypeOK, HealthInv
<1>. QED BY <1>1, <1>2

THEOREM RouteInvariant == RouteSpec => []RouteInv
  BY InitRouteInv, StepRouteInv, PTL DEF RouteSpec

(* Every variable of the composition keeps its type. *)
THEOREM RouteTypeCorrect == RouteSpec => []RouteTypeOK
<1>1. RouteInv => RouteTypeOK BY DEF RouteInv
<1>. QED BY <1>1, RouteInvariant, PTL

(* No request is refused while a backend of its chain stays up and in      *)
(* rotation throughout it, nor answered by one that such a one precedes.   *)
THEOREM BestUsableTheorem == RouteSpec => []BestUsableAnswers
<1>1. ASSUME RouteInv, NEW r \in Requests, req[r].out \in Answers, ~req[r].gone,
             NEW e \in usable[r]
      PROVE  ~Precedes(e, req[r].at)
  <2>1. WalkOK(req[r]) /\ UsableOK(req[r], usable[r]) /\ req[r] \in RequestType
    BY <1>1 DEF RouteInv, RouteTypeOK
  <2>2. IsFirst(req[r].at, req[r].chain \ req[r].tried)
    BY <1>1, <2>1 DEF WalkOK
  <2>3. e \in req[r].chain \ req[r].tried /\ e \in Entries /\ req[r].at \in Entries
    BY <1>1, <2>1, <2>2 DEF UsableOK, IsFirst, RequestType
  <2>4. e = req[r].at \/ Precedes(req[r].at, e)
    BY <2>2, <2>3 DEF IsFirst
  <2>. QED BY <2>3, <2>4, PrecedesAsymmetric
<1>2. ASSUME RouteInv, NEW r \in Requests, req[r].out = "unavailable", ~req[r].gone
      PROVE  usable[r] = {}
  BY <1>2 DEF RouteInv, WalkOK, UsableOK, Refusals
<1>3. RouteInv => BestUsableAnswers
  BY <1>1, <1>2 DEF BestUsableAnswers
<1>. QED BY <1>3, RouteInvariant, PTL

(* After a reload the live chains and the health checker agree. *)
THEOREM LiveChainsTheorem == RouteSpec => []LiveChainsCovered
<1>1. RouteInv => LiveChainsCovered
  BY DEF RouteInv, HealthInv, CfgCovered, LiveChainsCovered
<1>. QED BY <1>1, RouteInvariant, PTL

(* Every finished request is counted as it was served, and the fallback    *)
(* header is honest.                                                       *)
THEOREM CountedTheorem == RouteSpec => []ServedAsCounted
<1>1. ASSUME RouteInv, NEW r \in Requests, req[r].out \in Answers
      PROVE  req[r].fallback <=> \E e \in req[r].chain : Precedes(e, req[r].at)
  <2>1. WalkOK(req[r]) /\ req[r] \in RequestType
    BY <1>1 DEF RouteInv, RouteTypeOK
  <2>2. IsFirst(req[r].at, req[r].chain \ req[r].tried) /\ (req[r].fallback <=> req[r].tried # {})
    BY <1>1, <2>1 DEF WalkOK
  <2>3. \A e \in req[r].tried : e \in req[r].chain /\ Precedes(e, req[r].at)
    BY <2>1, <2>2 DEF WalkOK, IsFirst
  <2>4. ASSUME NEW e \in req[r].chain \ req[r].tried PROVE ~Precedes(e, req[r].at)
    <3>1. e \in Entries /\ req[r].at \in Entries
      BY <2>1, <2>2 DEF IsFirst, RequestType
    <3>2. e = req[r].at \/ Precedes(req[r].at, e)
      BY <2>2, <2>4 DEF IsFirst
    <3>. QED BY <3>1, <3>2, PrecedesAsymmetric
  <2>. QED BY <2>2, <2>3, <2>4
<1>2. ASSUME RouteInv, NEW r \in Requests, req[r].pc = "done"
      PROVE  CASE req[r].observed = "backend" -> req[r].out \in Answers /\ req[r].at \notin req[r].tried
               [] req[r].observed = "none" -> req[r].tried = req[r].chain
               [] OTHER -> req[r].out \in {"aborted", "bad_request", "unknown_model"}
  <2>1. WalkOK(req[r]) /\ req[r] \in RequestType
    BY <1>2 DEF RouteInv, RouteTypeOK
  <2>. QED BY <1>2, <2>1 DEF WalkOK, IsFirst, RequestType, Outcomes, Answers, Refusals
<1>3. RouteInv => ServedAsCounted
  BY <1>1, <1>2 DEF ServedAsCounted
<1>. QED BY <1>3, RouteInvariant, PTL

-----------------------------------------------------------------------------
(* Only Skip passes a backend over, and it does so on a real verdict or    *)
(* for a backend that was removed.                                         *)
LEMMA SkipJustifiedStep ==
  RouteInv /\ [RouteNext]_failoverVars =>
    [\A r \in Requests : \A e \in Entries :
       PassedOver(r, e) => Confirmed(e.name) \/ e.name \notin NamesIn(cfg)]_failoverVars
<1>. SUFFICES ASSUME RouteInv, RouteStep, NEW r \in Requests, NEW e \in Entries, PassedOver(r, e)
              PROVE  Confirmed(e.name) \/ e.name \notin NamesIn(cfg)
  BY DEF RouteNext
<1>. USE DEF PassedOver
<1>1. req \in [Requests -> RequestType] /\ CfgCovered
  BY DEF RouteInv, RouteTypeOK, HealthInv
<1>0. ASSUME NEW q \in Requests, BadRequest(q) PROVE FALSE
  BY <1>0, <1>1 DEF BadRequest, RequestType
<1>2. ASSUME NEW q \in Requests, NEW m \in Models, Arrive(q, m) PROVE FALSE
  BY <1>1, <1>2 DEF Arrive
<1>3. ASSUME NEW q \in Requests, Serve(q) PROVE ~IsHealthy(e.name)
  <2>1. ASSUME NEW f \in Entries, Skip(q, f) PROVE ~IsHealthy(e.name)
    BY <1>1, <2>1 DEF Skip, RequestType
  <2>2. ASSUME NEW f \in Entries, Send(q, f) PROVE FALSE
    BY <1>1, <2>2 DEF Send, RequestType
  <2>3. CASE Deliver(q)
    BY <1>1, <2>3 DEF Deliver, RequestType
  <2>4. ASSUME Advance(q), req[q].pc # "walking" PROVE FALSE
    BY <1>1, <2>4 DEF Advance, RequestType
  <2>5. CASE Answer(q)
    BY <1>1, <2>5 DEF Answer, RequestType
  <2>6. CASE Abort(q)
    BY <1>1, <2>6 DEF Abort, RequestType
  <2>7. CASE Exhausted(q)
    BY <1>1, <2>7 DEF Exhausted, RequestType
  <2>8. ASSUME NEW validate \in BOOLEAN, Headers(q, validate) PROVE FALSE
    <3>1. q = r => req'[r].tried = req[r].tried
      BY <1>1, <2>8 DEF Headers, RequestType
    <3>2. q # r => req'[r] = req[r]
      BY <1>1, <2>8 DEF Headers
    <3>. QED BY <3>1, <3>2
  <2>9. CASE Validated(q)
    BY <1>1, <2>9 DEF Validated, RequestType
  <2>. QED BY <1>3, <2>1, <2>2, <2>3, <2>4, <2>5, <2>6, <2>7, <2>8, <2>9
       DEF Serve, TransportError, Rejected
<1>4. ASSUME NEW q \in Requests, ClientGone(q) PROVE FALSE
  BY <1>1, <1>4 DEF ClientGone, RequestType
<1>5. ASSUME NEW new \in Configs, ReloadHealth(new) PROVE FALSE
  BY <1>5 DEF ReloadHealth
<1>6. ASSUME ReloadHandler PROVE FALSE
  BY <1>6 DEF ReloadHandler
<1>7. ASSUME NEW u \in Urls, Breaks(u) PROVE FALSE
  BY <1>1, <1>7 DEF Breaks, RequestType
<1>8. ASSUME ProbeStep PROVE FALSE
  BY <1>8 DEF ProbeStep
<1>9. ~IsHealthy(e.name)
  BY <1>0, <1>2, <1>3, <1>4, <1>5, <1>6, <1>7, <1>8 DEF RouteStep
<1>. QED BY <1>1, <1>9 DEF IsHealthy, Confirmed, CfgCovered

(* A backend that is passed over was confirmed unhealthy or is removed. *)
THEOREM SkipJustifiedTheorem == RouteSpec => SkipJustified
  BY RouteInvariant, SkipJustifiedStep, PTL DEF RouteSpec, SkipJustified

-----------------------------------------------------------------------------
(* Routing implements RoutePromise.  First, each request on its own: a step *)
(* of its handler rules out the first candidate, answers, refuses or does  *)
(* nothing the promise can see.                                            *)
Kept(x, y) == PhaseOf(y) = PhaseOf(x) /\ y.chain \ y.tried = x.chain \ x.tried /\ AnswerBy(y) = AnswerBy(x)
RuledOut(x, y) ==
  /\ PhaseOf(x) = "open" /\ PhaseOf(y) = "open" /\ AnswerBy(y) = AnswerBy(x)
  /\ \E e \in x.chain \ x.tried : /\ IsFirst(e, x.chain \ x.tried)
                                 /\ y.chain \ y.tried = (x.chain \ x.tried) \ {e}
Answered(x, y) ==
  /\ PhaseOf(x) = "open" /\ PhaseOf(y) = "answered" /\ y.chain \ y.tried = x.chain \ x.tried
  /\ IsFirst(AnswerBy(y), x.chain \ x.tried)
Refused(x, y) ==
  /\ PhaseOf(x) = "open" /\ PhaseOf(y) = "refused"
  /\ x.chain \ x.tried = {} /\ y.chain \ y.tried = {} /\ AnswerBy(y) = AnswerBy(x)

LEMMA AdvanceRulesOut ==
  ASSUME RouteInv, NEW r \in Requests, Advance(r), req[r].pc \in {"sent", "awaiting", "validating"}
  PROVE  RuledOut(req[r], req'[r])
<1>. DEFINE x == req[r]
<1>1. x \in RequestType /\ WalkOK(x)
  BY DEF RouteInv, RouteTypeOK
<1>2. IsFirst(x.at, x.chain \ x.tried) /\ x.at \in Entries
  BY <1>1 DEF WalkOK, IsFirst, RequestType, InHand
<1>3. req'[r] = [x EXCEPT !.pc = "walking", !.tried = @ \cup {x.at}, !.out = "pending",
                          !.fallback = FALSE]
  BY <1>1 DEF Advance, RouteInv, RouteTypeOK
<1>4. x.chain \ (x.tried \cup {x.at}) = (x.chain \ x.tried) \ {x.at}
  OBVIOUS
<1>. QED BY <1>1, <1>2, <1>3, <1>4 DEF RuledOut, PhaseOf, AnswerBy, RequestType, Answers, Refusals, IsFirst

LEMMA ServeKeepsPromise ==
  ASSUME RouteInv, NEW r \in Requests, Serve(r)
  PROVE  \/ Kept(req[r], req'[r]) \/ RuledOut(req[r], req'[r])
         \/ Answered(req[r], req'[r]) \/ Refused(req[r], req'[r])
<1>. DEFINE x == req[r]
<1>1. x \in RequestType /\ WalkOK(x) /\ req \in [Requests -> RequestType]
  BY DEF RouteInv, RouteTypeOK
<1>2. x.pc \in {"walking", "sent", "awaiting"} => x.out = "pending"
  BY <1>1 DEF WalkOK
<1>3. ASSUME NEW e \in Entries, Skip(r, e) PROVE RuledOut(x, req'[r])
  <2>1. /\ x.pc = "walking" /\ IsFirst(e, x.chain \ x.tried)
        /\ req'[r] = [x EXCEPT !.tried = @ \cup {e}]
    BY <1>1, <1>3 DEF Skip, Remaining
  <2>2. x.chain \ (x.tried \cup {e}) = (x.chain \ x.tried) \ {e}
    OBVIOUS
  <2>. QED BY <1>1, <1>2, <2>1, <2>2 DEF RuledOut, PhaseOf, AnswerBy, RequestType, Answers, Refusals, IsFirst
<1>4. ASSUME NEW e \in Entries, Send(r, e) PROVE Kept(x, req'[r])
  BY <1>1, <1>2, <1>4 DEF Send, Kept, PhaseOf, AnswerBy, RequestType, Answers, Refusals
<1>5. CASE Deliver(r)
  <2>1. x.pc = "sent" /\ req'[r] = [x EXCEPT !.pc = "awaiting"]
    BY <1>1, <1>5 DEF Deliver
  <2>. QED BY <1>1, <1>2, <2>1 DEF Kept, PhaseOf, AnswerBy, RequestType, Answers, Refusals
<1>6. CASE TransportError(r) \/ Rejected(r)
  BY <1>6, AdvanceRulesOut DEF TransportError, Rejected
<1>7. CASE \E validate \in BOOLEAN : Headers(r, validate)
  <2>. DEFINE out == AnswerOf(cond[x.at.url])
  <2>1. PICK validate \in BOOLEAN : Headers(r, validate)
    BY <1>7
  <2>. DEFINE pc == IF validate THEN "validating" ELSE "copying"
  <2>2. x.pc = "awaiting" /\ out \in Answers /\ pc \in {"validating", "copying"}
    BY <2>1 DEF Headers, AnswerOf, Answers
  <2>3. req'[r] = [x EXCEPT !.pc = pc, !.out = out, !.fallback = (x.tried # {})]
    BY <1>1, <2>1 DEF Headers
  <2>. HIDE DEF out, pc
  <2>4. IsFirst(x.at, x.chain \ x.tried)
    BY <1>1, <2>2 DEF WalkOK, InHand
  <2>5. /\ req'[r].pc = pc /\ req'[r].out = out /\ req'[r].chain = x.chain
        /\ req'[r].tried = x.tried /\ req'[r].at = x.at
    BY <1>1, <2>3 DEF RequestType
  <2>6. CASE pc = "validating"
    BY <2>2, <2>5, <2>6 DEF Kept, PhaseOf, AnswerBy
  <2>7. CASE pc = "copying"
    BY <2>2, <2>4, <2>5, <2>7 DEF Answered, PhaseOf, AnswerBy
  <2>. QED BY <2>2, <2>6, <2>7
<1>8. CASE Validated(r)
  <2>1. x.pc = "validating" /\ req'[r] = [x EXCEPT !.pc = "copying"]
    BY <1>1, <1>8 DEF Validated
  <2>2. IsFirst(x.at, x.chain \ x.tried)
    BY <1>1, <2>1 DEF WalkOK, InHand
  <2>3. Answered(x, req'[r])
    BY <1>1, <2>1, <2>2 DEF Answered, PhaseOf, AnswerBy, RequestType
  <2>. QED BY <2>3
<1>10. CASE Answer(r) \/ Abort(r)
  <2>1. x.pc = "copying" /\ x.out \in Answers
    BY <1>1, <1>10 DEF Answer, Abort, WalkOK
  <2>2. /\ req'[r].pc = "done" /\ req'[r].out \in {x.out, "aborted"} /\ req'[r].chain = x.chain
        /\ req'[r].tried = x.tried /\ req'[r].at = x.at
    <3>1. CASE Answer(r)
      BY <1>1, <3>1 DEF Answer, RequestType
    <3>2. CASE Abort(r)
      BY <1>1, <3>2 DEF Abort, RequestType
    <3>. QED BY <1>10, <3>1, <3>2
  <2>3. Kept(x, req'[r])
    BY <2>1, <2>2 DEF Kept, PhaseOf, AnswerBy, Answers, Refusals
  <2>. QED BY <2>3
<1>9. CASE Exhausted(r)
  <2>1. /\ x.pc = "walking" /\ x.chain \ x.tried = {}
        /\ req'[r] = [x EXCEPT !.pc = "done", !.out = "unavailable", !.observed = "none"]
    BY <1>1, <1>9 DEF Exhausted, Remaining
  <2>2. Refused(x, req'[r])
    BY <1>1, <1>2, <2>1 DEF Refused, PhaseOf, AnswerBy, RequestType, Answers, Refusals
  <2>. QED BY <2>2
<1>. QED BY <1>3, <1>4, <1>5, <1>6, <1>7, <1>8, <1>9, <1>10 DEF Serve

(* A request on its own implements a step of the promise, or none. *)
LEMMA RequestKeepsPromise ==
  ASSUME RouteInv, req' \in [Requests -> RequestType], NEW r \in Requests,
         \A q \in Requests \ {r} : req'[q] = req[q],
         \/ Kept(req[r], req'[r]) \/ RuledOut(req[r], req'[r])
         \/ Answered(req[r], req'[r]) \/ Refused(req[r], req'[r])
  PROVE  [Promise!Next]_(Promise!promiseVars)
<1>. DEFINE ph == [q \in Requests |-> PhaseOf(req[q])]
            rm == [q \in Requests |-> Remaining(q)]
            an == [q \in Requests |-> AnswerBy(req[q])]
<1>0. \A q \in Requests \ {r} : ph'[q] = ph[q] /\ rm'[q] = rm[q] /\ an'[q] = an[q]
  BY DEF Remaining
<1>1. CASE Kept(req[r], req'[r])
  <2>1. ph' = ph /\ rm' = rm /\ an' = an
    BY <1>0, <1>1 DEF Kept, Remaining
  <2>. QED BY <2>1 DEF Promise!promiseVars
<1>2. CASE RuledOut(req[r], req'[r])
  <2>1. PICK e \in rm[r] : IsFirst(e, rm[r]) /\ rm'[r] = rm[r] \ {e}
    BY <1>2 DEF RuledOut, Remaining
  <2>2. ph[r] = "open" /\ ph' = ph /\ an' = an
    BY <1>0, <1>2 DEF RuledOut
  <2>3. rm' = [rm EXCEPT ![r] = rm[r] \ {e}]
    BY <1>0, <2>1
  <2>. QED BY <2>1, <2>2, <2>3 DEF Promise!Next, Promise!RuleOut, Promise!IsFirst, IsFirst
<1>3. CASE Answered(req[r], req'[r])
  <2>1. ph[r] = "open" /\ ph' = [ph EXCEPT ![r] = "answered"] /\ rm' = rm
    BY <1>0, <1>3 DEF Answered, Remaining
  <2>2. an'[r] \in rm[r] /\ IsFirst(an'[r], rm[r]) /\ an' = [an EXCEPT ![r] = an'[r]]
    BY <1>0, <1>3 DEF Answered, Remaining, IsFirst
  <2>. QED BY <2>1, <2>2 DEF Promise!Next, Promise!Answer, Promise!IsFirst, IsFirst
<1>4. CASE Refused(req[r], req'[r])
  <2>1. /\ ph[r] = "open" /\ ph' = [ph EXCEPT ![r] = "refused"]
        /\ rm[r] = {} /\ rm' = rm /\ an' = an
    BY <1>0, <1>4 DEF Refused, Remaining
  <2>. QED BY <2>1 DEF Promise!Next, Promise!Refuse
<1>. QED BY <1>1, <1>2, <1>3, <1>4

LEMMA BadRequestKeepsPromise ==
  ASSUME RouteInv, NEW r \in Requests, BadRequest(r)
  PROVE  Promise!Next
<1>. DEFINE ph == [q \in Requests |-> PhaseOf(req[q])]
            rm == [q \in Requests |-> Remaining(q)]
            an == [q \in Requests |-> AnswerBy(req[q])]
<1>1. req[r] = Idle /\ req \in [Requests -> RequestType]
  BY DEF BadRequest, RouteInv, RouteTypeOK, WalkOK
<1>2. \A q \in Requests \ {r} : ph'[q] = ph[q] /\ rm'[q] = rm[q] /\ an'[q] = an[q]
  <2>1. \A q \in Requests \ {r} : req'[q] = req[q]
    BY <1>1 DEF BadRequest
  <2>. QED BY <2>1 DEF Remaining
<1>3. ph[r] = "idle" /\ rm[r] = {} /\ an[r] = NoEntry
  BY <1>1 DEF Idle, PhaseOf, Remaining, AnswerBy, Refusals
<1>4. req'[r] = [Idle EXCEPT !.pc = "done", !.out = "bad_request"]
  BY <1>1 DEF BadRequest
<1>5. ph'[r] = "refused" /\ rm'[r] = {} /\ an'[r] = NoEntry
  BY <1>4 DEF Idle, PhaseOf, Remaining, AnswerBy, Refusals
<1>6. ph' = [ph EXCEPT ![r] = "refused"] /\ rm' = rm /\ an' = an
  BY <1>2, <1>3, <1>5
<1>. QED BY <1>3, <1>6 DEF Promise!Next, Promise!Refuse

LEMMA ArriveKeepsPromise ==
  ASSUME RouteInv, NEW r \in Requests, NEW m \in Models, Arrive(r, m)
  PROVE  Promise!Next
<1>. DEFINE ph == [q \in Requests |-> PhaseOf(req[q])]
            rm == [q \in Requests |-> Remaining(q)]
            an == [q \in Requests |-> AnswerBy(req[q])]
            c == ChainOf(live, m)
<1>1. req[r] = Idle /\ req \in [Requests -> RequestType] /\ c \in SUBSET Entries
  BY DEF Arrive, RouteInv, RouteTypeOK, WalkOK, ChainOf
<1>2. \A q \in Requests \ {r} : ph'[q] = ph[q] /\ rm'[q] = rm[q] /\ an'[q] = an[q]
  <2>1. \A q \in Requests \ {r} : req'[q] = req[q]
    BY <1>1 DEF Arrive
  <2>. QED BY <2>1 DEF Remaining
<1>3. ph[r] = "idle" /\ rm[r] = {} /\ an[r] = NoEntry
  BY <1>1 DEF Idle, PhaseOf, Remaining, AnswerBy, Refusals
<1>4. CASE c = {}
  <2>1. req'[r] = [Idle EXCEPT !.pc = "done", !.out = "unknown_model"]
    BY <1>1, <1>4 DEF Arrive
  <2>2. ph'[r] = "refused" /\ rm'[r] = {} /\ an'[r] = NoEntry
    BY <2>1 DEF Idle, PhaseOf, Remaining, AnswerBy, Refusals
  <2>3. ph' = [ph EXCEPT ![r] = "refused"] /\ rm' = rm /\ an' = an
    BY <1>2, <1>3, <2>2
  <2>. QED BY <1>3, <2>3 DEF Promise!Next, Promise!Refuse
<1>5. CASE c # {}
  <2>1. req'[r] = [Idle EXCEPT !.pc = "walking", !.chain = c]
    BY <1>1, <1>5 DEF Arrive
  <2>2. ph'[r] = "open" /\ rm'[r] = c /\ an'[r] = NoEntry
    BY <2>1 DEF Idle, PhaseOf, Remaining, AnswerBy, Refusals
  <2>3. ph' = [ph EXCEPT ![r] = "open"] /\ an' = an
    BY <1>2, <1>3, <2>2
  <2>4. rm' = [rm EXCEPT ![r] = c]
    BY <1>2, <2>2
  <2>. QED BY <1>1, <1>3, <2>3, <2>4 DEF Promise!Next, Promise!Open
<1>. QED BY <1>4, <1>5

LEMMA StepKeepsPromise ==
  RouteInv /\ [RouteNext]_failoverVars => [Promise!Next]_(Promise!promiseVars)
<1>. SUFFICES ASSUME RouteInv, [RouteNext]_failoverVars
              PROVE  [Promise!Next]_(Promise!promiseVars)
  OBVIOUS
<1>. DEFINE Goal == [Promise!Next]_(Promise!promiseVars)
<1>1. ASSUME UNCHANGED req PROVE Goal
  BY <1>1 DEF Promise!promiseVars, Remaining
<1>0. ASSUME NEW r \in Requests, BadRequest(r) PROVE Goal
  BY <1>0, BadRequestKeepsPromise
<1>2. ASSUME NEW r \in Requests, NEW m \in Models, Arrive(r, m) PROVE Goal
  BY <1>2, ArriveKeepsPromise
<1>3. ASSUME NEW r \in Requests, Serve(r) PROVE Goal
  BY <1>3, ServeStep, ServeKeepsPromise, RequestKeepsPromise DEF HandlerStep
<1>4. ASSUME \A q \in Requests : Kept(req[q], req'[q]) PROVE Goal
  BY <1>4 DEF Kept, Promise!promiseVars, Remaining
<1>5. ASSUME NEW r \in Requests, ClientGone(r) PROVE Goal
  <2>1. \A q \in Requests : req'[q] = req[q] \/ req'[q] = [req[q] EXCEPT !.gone = TRUE]
    BY <1>5 DEF ClientGone, RouteInv, RouteTypeOK
  <2>2. ASSUME NEW q \in Requests, req'[q] = [req[q] EXCEPT !.gone = TRUE]
        PROVE  Kept(req[q], req'[q])
    <3>1. /\ req'[q].pc = req[q].pc /\ req'[q].out = req[q].out /\ req'[q].at = req[q].at
          /\ req'[q].chain = req[q].chain /\ req'[q].tried = req[q].tried
      BY <2>2 DEF RouteInv, RouteTypeOK, RequestType
    <3>. QED BY <3>1 DEF Kept, PhaseOf, AnswerBy
  <2>3. \A q \in Requests : Kept(req[q], req'[q])
    BY <2>1, <2>2 DEF Kept
  <2>. QED BY <1>4, <2>3
<1>6. ASSUME NEW u \in Urls, Breaks(u) PROVE Goal
  <2>1. \A q \in Requests : req'[q] = req[q] \/ req'[q] = [req[q] EXCEPT !.lost = TRUE]
    BY <1>6 DEF Breaks
  <2>2. ASSUME NEW q \in Requests, req'[q] = [req[q] EXCEPT !.lost = TRUE]
        PROVE  Kept(req[q], req'[q])
    <3>1. /\ req'[q].pc = req[q].pc /\ req'[q].out = req[q].out /\ req'[q].at = req[q].at
          /\ req'[q].chain = req[q].chain /\ req'[q].tried = req[q].tried
      BY <2>2 DEF RouteInv, RouteTypeOK, RequestType
    <3>. QED BY <3>1 DEF Kept, PhaseOf, AnswerBy
  <2>3. \A q \in Requests : Kept(req[q], req'[q])
    BY <2>1, <2>2 DEF Kept
  <2>. QED BY <1>4, <2>3
<1>7. ASSUME NEW new \in Configs, ReloadHealth(new) PROVE Goal
  BY <1>1, <1>7 DEF ReloadHealth
<1>8. ASSUME ReloadHandler PROVE Goal
  BY <1>1, <1>8 DEF ReloadHandler
<1>9. ASSUME ProbeStep PROVE Goal
  BY <1>1, <1>9 DEF ProbeStep
<1>10. ASSUME UNCHANGED failoverVars PROVE Goal
  BY <1>1, <1>10 DEF failoverVars, routeVars
<1>. QED
  BY <1>0, <1>2, <1>3, <1>5, <1>6, <1>7, <1>8, <1>9, <1>10 DEF RouteNext, RouteStep

LEMMA InitKeepsPromise == RouteInit => Promise!Init
  BY DEF RouteInit, Promise!Init, Idle, PhaseOf, Remaining, AnswerBy, Refusals

(* Routing with health checks, reloads and failing servers implements the  *)
(* promise of RoutePromise.                                                *)
THEOREM RefinementTheorem == RouteSpec => KeepsPromise
  BY InitKeepsPromise, StepKeepsPromise, RouteInvariant, PTL DEF RouteSpec, KeepsPromise, Promise!Spec

-----------------------------------------------------------------------------
(* Nothing can keep a handler from ending its request: something is left   *)
(* for it to do, and it cannot do so for ever.  The order of a chain has   *)
(* what sorting needs of it, hence a first entry in every rest of it.      *)
LEMMA PrecedesTotal ==
  ASSUME NEW c \in Configs, NEW e \in c, NEW f \in c, e # f
  PROVE  Precedes(e, f) \/ Precedes(f, e)
<1>1. e \in Entries /\ f \in Entries
  BY ConfigsAssumption
<1>2. e.pos # f.pos /\ e.pos \in Nat /\ f.pos \in Nat /\ SortKey(e) \in Int /\ SortKey(f) \in Int
  BY <1>1, OrderAssumption DEF SortKey
<1>. QED BY <1>2 DEF Precedes

LEMMA PrecedesTransitive ==
  ASSUME NEW e \in Entries, NEW f \in Entries, NEW g \in Entries, Precedes(e, f), Precedes(f, g)
  PROVE  Precedes(e, g)
<1>1. \A h \in {e, f, g} : SortKey(h) \in Int /\ h.pos \in Nat
  BY OrderAssumption DEF SortKey
<1>. QED BY <1>1 DEF Precedes

LEMMA HasFirst ==
  ASSUME NEW c \in Configs, NEW S \in SUBSET c, S # {}
  PROVE  \E e \in S : IsFirst(e, S)
<1>. DEFINE NoFirst == {T \in FiniteSubsetsOf(c) : T # {} /\ \A e \in T : ~IsFirst(e, T)}
<1>1. IsFiniteSet(c) /\ c \subseteq Entries
  BY FiniteAssumption, ConfigsAssumption
<1>2. S \in FiniteSubsetsOf(c)
  BY <1>1, FS_Subset DEF FiniteSubsetsOf
<1>. SUFFICES ASSUME NoFirst # {} PROVE FALSE
  BY <1>2
<1>3. PICK T \in NoFirst : \A U \in NoFirst : ~(<<U, T>> \in StrictSubsetOrdering(c))
  <2>1. NoFirst \subseteq FiniteSubsetsOf(c)
    OBVIOUS
  <2>2. IsWellFoundedOn(StrictSubsetOrdering(c), FiniteSubsetsOf(c))
    BY FS_StrictSubsetOrderingWellFounded
  <2>. HIDE DEF NoFirst
  <2>. QED BY <2>1, <2>2, WFMin
<1>4. T \subseteq c /\ IsFiniteSet(T) /\ T # {}
  BY DEF FiniteSubsetsOf
<1>5. PICK e \in T : TRUE
  BY <1>4
<1>. DEFINE U == T \ {e}
<1>6. U \in FiniteSubsetsOf(c) /\ <<U, T>> \in StrictSubsetOrdering(c)
  <2>1. IsFiniteSet(U)
    BY <1>4, FS_RemoveElement
  <2>. QED BY <1>4, <1>5, <2>1 DEF FiniteSubsetsOf, StrictSubsetOrdering
<1>7. U # {}
  BY <1>5 DEF IsFirst
<1>8. PICK f \in U : IsFirst(f, U)
  BY <1>3, <1>6, <1>7
<1>9. e \in c /\ f \in c /\ e # f /\ e \in Entries /\ f \in Entries
  BY <1>1, <1>4, <1>8
<1>10. CASE Precedes(f, e)
  BY <1>4, <1>8, <1>9, <1>10 DEF IsFirst
<1>11. CASE Precedes(e, f)
  <2>1. \A g \in T \ {e} : Precedes(e, g)
    BY <1>1, <1>4, <1>8, <1>9, <1>11, PrecedesTransitive DEF IsFirst
  <2>. QED BY <2>1, <1>5 DEF IsFirst
<1>. QED BY <1>9, <1>10, <1>11, PrecedesTotal

(* Every chain in use is part of a configuration that was loaded. *)
ChainsLoaded ==
  /\ cfg \in Configs /\ live \in Configs
  /\ \A r \in Requests : \E c \in Configs : req[r].chain \subseteq c

LEMMA ChainsLoadedInvariant == RouteSpec => []ChainsLoaded
<1>1. RouteInit => ChainsLoaded
  BY DEF RouteInit, Init, ChainsLoaded, Idle
<1>2. RouteInv /\ ChainsLoaded /\ [RouteNext]_failoverVars => ChainsLoaded'
  <2>. SUFFICES ASSUME RouteInv, ChainsLoaded, RouteNext \/ UNCHANGED failoverVars
                PROVE  ChainsLoaded'
    OBVIOUS
  <2>. DEFINE Same == \A r \in Requests : req'[r].chain = req[r].chain
  <2>1. ASSUME Same, UNCHANGED <<cfg, live>> PROVE ChainsLoaded'
    BY <2>1 DEF ChainsLoaded
  <2>2. CASE UNCHANGED failoverVars
    BY <2>1, <2>2 DEF failoverVars, healthVars, routeVars
  <2>0. ASSUME NEW r \in Requests, BadRequest(r) PROVE ChainsLoaded'
    <3>1. Same
      BY <2>0 DEF BadRequest, RouteInv, RouteTypeOK, RequestType
    <3>. QED BY <2>1, <2>0, <3>1 DEF BadRequest, healthVars
  <2>3. ASSUME NEW r \in Requests, NEW m \in Models, Arrive(r, m) PROVE ChainsLoaded'
    <3>1. UNCHANGED <<cfg, live>> /\ req \in [Requests -> RequestType]
      BY <2>3 DEF Arrive, healthVars, RouteInv, RouteTypeOK
    <3>2. \A q \in Requests \ {r} : req'[q] = req[q]
      BY <2>3, <3>1 DEF Arrive
    <3>3. req'[r].chain \subseteq live
      BY <2>3, <3>1 DEF Arrive, ChainOf, Idle
    <3>. QED BY <3>1, <3>2, <3>3 DEF ChainsLoaded
  <2>4. ASSUME NEW r \in Requests, Serve(r) PROVE ChainsLoaded'
    <3>1. HandlerStep(r)
      BY <2>4, ServeStep
    <3>. QED BY <2>1, <3>1 DEF HandlerStep, healthVars
  <2>5. ASSUME NEW r \in Requests, ClientGone(r) PROVE ChainsLoaded'
    <3>1. Same
      BY <2>5 DEF ClientGone, RouteInv, RouteTypeOK, RequestType
    <3>. QED BY <2>1, <2>5, <3>1 DEF ClientGone, healthVars
  <2>6. ASSUME NEW new \in Configs, ReloadHealth(new) PROVE ChainsLoaded'
    BY <2>6 DEF ReloadHealth, UpdateConfig, ChainsLoaded
  <2>7. CASE ReloadHandler
    BY <2>7 DEF ReloadHandler, ChainsLoaded, healthVars
  <2>8. ASSUME NEW u \in Urls, Breaks(u) PROVE ChainsLoaded'
    <3>1. Same
      BY <2>8 DEF Breaks, RouteInv, RouteTypeOK, RequestType
    <3>. QED BY <2>1, <2>8, <3>1 DEF Breaks, ServerChanges
  <2>9. CASE ProbeStep
    <3>1. UNCHANGED <<cfg, live, req>>
      BY <2>9 DEF ProbeStep, CheckAll, ProbeAnswered, ProbeApplied
    <3>. QED BY <2>1, <3>1
  <2>. QED BY <2>2, <2>0, <2>3, <2>4, <2>5, <2>6, <2>7, <2>8, <2>9 DEF RouteNext, RouteStep
<1>. QED BY <1>1, <1>2, RouteInvariant, PTL DEF RouteSpec

(* What is left to do: the guards of Serve's actions.  Once a response has *)
(* begun there is a body to read, or to give up as lost.                   *)
CanServe(r) ==
  LET x == req[r]
      c == cond[x.at.url] IN
  \/ x.pc = "walking" /\ Remaining(r) = {}
  \/ x.pc = "walking" /\ \E e \in Entries : IsFirst(e, Remaining(r))
  \/ x.pc = "sent" /\ ~x.gone /\ c # "down"
  \/ x.pc = "sent" /\ (x.gone \/ c = "down")
  \/ x.pc = "awaiting" /\ x.lost
  \/ x.pc = "awaiting" /\ ~x.lost /\ Validating /\ MayBeJson(c)
  \/ x.pc = "awaiting" /\ ~x.lost /\ (Validating => MayBeOther(c))
  \/ x.pc = "validating" /\ x.out \in Answers
  \/ x.pc = "copying"

NeverStuck == \A r \in Requests : Active(r) => CanServe(r)

(* How many steps a handler has left at most: four for each backend of the *)
(* rest, one for the answer, and the refusal.                              *)
Work(x) ==
  LET left == Cardinality(x.chain \ x.tried) IN
  CASE x.pc = "walking" -> 5 * left + 1
    [] x.pc = "sent" -> 5 * left
    [] x.pc = "awaiting" -> 5 * left - 1
    [] x.pc = "validating" -> 5 * left - 2
    [] x.pc = "copying" -> 5 * left - 3
    [] OTHER -> 0

(* Every step of a handler leaves it less to do, and nothing gives it more. *)
WorkShrinks ==
  [][\A r \in Requests : Active(r) =>
       /\ Work(req[r]) \in Nat \ {0}
       /\ Work(req'[r]) \in 0..Work(req[r])
       /\ Serve(r) => Work(req'[r]) < Work(req[r])]_failoverVars

(* What is left of a chain can be counted. *)
LEMMA LeftCounted ==
  ASSUME ChainsLoaded, NEW r \in Requests
  PROVE  /\ IsFiniteSet(Remaining(r)) /\ Cardinality(Remaining(r)) \in Nat
         /\ Cardinality(Remaining(r)) = 0 <=> Remaining(r) = {}
         /\ \A e \in Remaining(r) : Cardinality(Remaining(r) \ {e}) = Cardinality(Remaining(r)) - 1
<1>1. PICK c \in Configs : req[r].chain \subseteq c
  BY DEF ChainsLoaded
<1>2. IsFiniteSet(c) /\ Remaining(r) \in SUBSET c
  BY <1>1, FiniteAssumption DEF Remaining
<1>3. IsFiniteSet(Remaining(r))
  BY <1>2, FS_Subset
<1>. QED BY <1>3, FS_CardinalityType, FS_EmptySet, FS_RemoveElement

(* An active request has work left; in the hands of a backend, that one.   *)
LEMMA WorkPositive ==
  ASSUME RouteInv, ChainsLoaded, NEW r \in Requests, Active(r)
  PROVE  Work(req[r]) \in Nat \ {0}
<1>. DEFINE left == Cardinality(req[r].chain \ req[r].tried)
<1>1. left \in Nat /\ (left = 0 <=> req[r].chain \ req[r].tried = {})
  BY LeftCounted DEF Remaining
<1>2. req[r].pc \in InHand => req[r].chain \ req[r].tried # {}
  BY DEF RouteInv, WalkOK, IsFirst
<1>3. req[r].pc \in InHand => left >= 1
  BY <1>1, <1>2
<1>. HIDE DEF left
<1>4. CASE req[r].pc = "walking"
  <2>1. Work(req[r]) = 5 * left + 1
    BY <1>4 DEF Work, left
  <2>. QED BY <1>1, <2>1
<1>5. CASE req[r].pc = "sent"
  <2>1. Work(req[r]) = 5 * left
    BY <1>5 DEF Work, left
  <2>. QED BY <1>1, <1>3, <1>5, <2>1 DEF InHand
<1>6. CASE req[r].pc = "awaiting"
  <2>1. Work(req[r]) = 5 * left - 1
    BY <1>6 DEF Work, left
  <2>. QED BY <1>1, <1>3, <1>6, <2>1 DEF InHand
<1>7. CASE req[r].pc = "validating"
  <2>1. Work(req[r]) = 5 * left - 2
    BY <1>7 DEF Work, left
  <2>. QED BY <1>1, <1>3, <1>7, <2>1 DEF InHand
<1>8. CASE req[r].pc = "copying"
  <2>1. Work(req[r]) = 5 * left - 3
    BY <1>8 DEF Work, left
  <2>. QED BY <1>1, <1>3, <1>8, <2>1 DEF InHand
<1>. QED BY <1>4, <1>5, <1>6, <1>7, <1>8 DEF Active, InHand

(* Ruling out a backend that is left. *)
LEMMA RulingOutDescends ==
  ASSUME RouteInv, ChainsLoaded, NEW r \in Requests, Active(r), req[r].pc # "copying",
         NEW e \in Remaining(r), NEW y, y.pc = "walking",
         y.chain \ y.tried = Remaining(r) \ {e}
  PROVE  Work(y) \in Nat /\ Work(y) < Work(req[r])
<1>. DEFINE left == Cardinality(Remaining(r))
<1>1. left \in Nat /\ left # 0 /\ Cardinality(y.chain \ y.tried) = left - 1
  BY LeftCounted
<1>2. Work(y) = 5 * (left - 1) + 1
  BY <1>1 DEF Work
<1>3. CASE req[r].pc = "walking"
  <2>1. Work(req[r]) = 5 * left + 1
    BY <1>3 DEF Work, Remaining
  <2>. HIDE DEF left
  <2>. QED BY <1>1, <1>2, <2>1
<1>4. CASE req[r].pc = "sent"
  <2>1. Work(req[r]) = 5 * left
    BY <1>4 DEF Work, Remaining
  <2>. HIDE DEF left
  <2>. QED BY <1>1, <1>2, <2>1
<1>5. CASE req[r].pc = "awaiting"
  <2>1. Work(req[r]) = 5 * left - 1
    BY <1>5 DEF Work, Remaining
  <2>. HIDE DEF left
  <2>. QED BY <1>1, <1>2, <2>1
<1>6. CASE req[r].pc = "validating"
  <2>1. Work(req[r]) = 5 * left - 2
    BY <1>6 DEF Work, Remaining
  <2>. HIDE DEF left
  <2>. QED BY <1>1, <1>2, <2>1
<1>. QED BY <1>3, <1>4, <1>5, <1>6 DEF Active, InHand

LEMMA ServeDescends ==
  ASSUME RouteInv, ChainsLoaded, NEW r \in Requests, Serve(r)
  PROVE  Work(req'[r]) \in Nat /\ Work(req'[r]) < Work(req[r])
<1>. DEFINE x == req[r]
            left == Cardinality(Remaining(r))
            Goal == Work(req'[r]) \in Nat /\ Work(req'[r]) < Work(req[r])
<1>1. x \in RequestType /\ WalkOK(x) /\ req \in [Requests -> RequestType]
  BY DEF RouteInv, RouteTypeOK
<1>2. Active(r) /\ Work(x) \in Nat \ {0}
  <2>1. Active(r)
    BY <1>1, ServeStep DEF HandlerStep, RequestType, Active, InHand
  <2>. QED BY <2>1, WorkPositive
<1>3. left \in Nat
  BY LeftCounted
<1>4. ASSUME NEW e \in Entries, Skip(r, e) PROVE Goal
  <2>1. e \in Remaining(r) /\ req'[r] = [x EXCEPT !.tried = @ \cup {e}] /\ x.pc = "walking"
    BY <1>1, <1>4 DEF Skip, IsFirst
  <2>2. req'[r].pc = "walking" /\ req'[r].chain \ req'[r].tried = Remaining(r) \ {e}
    BY <1>1, <2>1 DEF Remaining, RequestType
  <2>. QED BY <1>2, <2>1, <2>2, RulingOutDescends
<1>5. ASSUME NEW e \in Entries, Send(r, e) PROVE Goal
  <2>1. /\ x.pc = "walking" /\ req'[r].pc = "sent"
        /\ req'[r].chain \ req'[r].tried = Remaining(r)
    BY <1>1, <1>5 DEF Send, RequestType, Remaining
  <2>2. Work(req'[r]) = 5 * left /\ Work(x) = 5 * left + 1
    BY <2>1 DEF Work, Remaining
  <2>. HIDE DEF left
  <2>. QED BY <1>3, <2>2
<1>6. CASE Deliver(r)
  <2>1. /\ x.pc = "sent" /\ req'[r].pc = "awaiting"
        /\ req'[r].chain \ req'[r].tried = Remaining(r)
    BY <1>1, <1>6 DEF Deliver, RequestType, Remaining
  <2>2. Work(req'[r]) = 5 * left - 1 /\ Work(x) = 5 * left
    BY <2>1 DEF Work, Remaining
  <2>. HIDE DEF left
  <2>. QED BY <1>2, <1>3, <2>2
<1>7. CASE TransportError(r) \/ Rejected(r)
  <2>1. Advance(r) /\ x.pc \in {"sent", "awaiting", "validating"}
    BY <1>7 DEF TransportError, Rejected
  <2>2. /\ x.at \in Remaining(r)
        /\ req'[r] = [x EXCEPT !.pc = "walking", !.tried = @ \cup {x.at}, !.out = "pending",
                               !.fallback = FALSE]
    BY <1>1, <2>1 DEF Advance, WalkOK, IsFirst, Remaining, InHand
  <2>3. req'[r].pc = "walking" /\ req'[r].chain \ req'[r].tried = Remaining(r) \ {x.at}
    BY <1>1, <2>2 DEF Remaining, RequestType
  <2>. QED BY <1>2, <2>1, <2>2, <2>3, RulingOutDescends
<1>8. ASSUME NEW validate \in BOOLEAN, Headers(r, validate) PROVE Goal
  <2>. DEFINE out == AnswerOf(cond[x.at.url])
              pc == IF validate THEN "validating" ELSE "copying"
  <2>1. /\ x.pc = "awaiting" /\ pc \in {"validating", "copying"}
        /\ req'[r] = [x EXCEPT !.pc = pc, !.out = out, !.fallback = (x.tried # {})]
    BY <1>1, <1>8 DEF Headers
  <2>. HIDE DEF out, pc
  <2>2. req'[r].pc = pc /\ req'[r].chain \ req'[r].tried = Remaining(r) /\ Remaining(r) # {}
    BY <1>1, <2>1 DEF RequestType, Remaining, WalkOK, InHand, IsFirst
  <2>3. Work(x) = 5 * left - 1
    BY <2>1 DEF Work, Remaining
  <2>4. pc = "validating" => Work(req'[r]) = 5 * left - 2
    BY <2>2 DEF Work
  <2>5. pc = "copying" => Work(req'[r]) = 5 * left - 3
    BY <2>2 DEF Work
  <2>6. left # 0
    BY <2>2, LeftCounted
  <2>. HIDE DEF left
  <2>. QED BY <1>3, <2>1, <2>3, <2>4, <2>5, <2>6
<1>9. CASE Validated(r)
  <2>1. /\ x.pc = "validating" /\ req'[r].pc = "copying" /\ Remaining(r) # {}
        /\ req'[r].chain \ req'[r].tried = Remaining(r)
    BY <1>1, <1>9 DEF Validated, RequestType, Remaining, WalkOK, InHand, IsFirst
  <2>2. Work(req'[r]) = 5 * left - 3 /\ Work(x) = 5 * left - 2
    BY <2>1 DEF Work, Remaining
  <2>3. left # 0
    BY <2>1, LeftCounted
  <2>. HIDE DEF left
  <2>. QED BY <1>3, <2>2, <2>3
<1>10. CASE Answer(r) \/ Abort(r) \/ Exhausted(r)
  <2>1. req'[r].pc = "done"
    BY <1>1, <1>10 DEF Answer, Abort, Exhausted, RequestType
  <2>2. Work(req'[r]) = 0
    BY <2>1 DEF Work
  <2>. QED BY <1>2, <2>2
<1>. QED BY <1>4, <1>5, <1>6, <1>7, <1>8, <1>9, <1>10 DEF Serve

(* A server that was given a request and has not been lost is not down. *)
Standing == \A r \in Requests : req[r].pc = "awaiting" /\ ~req[r].lost => cond[req[r].at.url] # "down"

LEMMA StandingInvariant == RouteSpec => []Standing
<1>1. RouteInit => Standing
  BY DEF RouteInit, Standing, Idle
<1>2. RouteInv /\ Standing /\ [RouteNext]_failoverVars => Standing'
  <2>. SUFFICES ASSUME RouteInv, Standing, RouteNext \/ UNCHANGED failoverVars, NEW r \in Requests
                PROVE  req'[r].pc = "awaiting" /\ ~req'[r].lost => cond'[req'[r].at.url] # "down"
    BY DEF Standing
  <2>. DEFINE Goal == req'[r].pc = "awaiting" /\ ~req'[r].lost => cond'[req'[r].at.url] # "down"
  <2>1. req \in [Requests -> RequestType] /\ req[r] \in RequestType
    BY DEF RouteInv, RouteTypeOK
  <2>2. ASSUME UNCHANGED cond, req'[r] = req[r] \/ req'[r].pc # "awaiting" PROVE Goal
    BY <2>2 DEF Standing
  <2>3. CASE UNCHANGED failoverVars
    BY <2>2, <2>3 DEF failoverVars, healthVars, routeVars
  <2>4. ASSUME NEW q \in Requests, BadRequest(q) PROVE Goal
    BY <2>1, <2>2, <2>4 DEF BadRequest, healthVars, RequestType
  <2>5. ASSUME NEW q \in Requests, NEW m \in Models, Arrive(q, m) PROVE Goal
    <3>1. UNCHANGED cond
      BY <2>5 DEF Arrive, healthVars
    <3>2. q = r => req'[r].pc \in {"walking", "done"}
      BY <2>1, <2>5 DEF Arrive, Idle
    <3>3. q # r => req'[r] = req[r]
      BY <2>1, <2>5 DEF Arrive
    <3>. QED BY <2>2, <3>1, <3>2, <3>3
  <2>6. ASSUME NEW q \in Requests, Serve(q) PROVE Goal
    <3>1. UNCHANGED cond /\ (q # r => req'[r] = req[r])
      BY <2>6, ServeStep DEF HandlerStep, healthVars
    <3>2. CASE Deliver(q)
      <4>1. q = r => cond[req'[r].at.url] # "down"
        BY <2>1, <3>2 DEF Deliver, RequestType
      <4>. QED BY <2>2, <3>1, <4>1
    <3>3. CASE q = r /\ ~Deliver(r)
      <4>1. (\E e \in Entries : Skip(r, e) \/ Send(r, e)) => req'[r].pc # "awaiting"
        BY <2>1 DEF Skip, Send, RequestType
      <4>2. Advance(r) => req'[r].pc # "awaiting"
        BY <2>1 DEF Advance, RequestType
      <4>3. (\E validate \in BOOLEAN : Headers(r, validate)) => req'[r].pc # "awaiting"
        <5>1. ASSUME NEW validate \in BOOLEAN, Headers(r, validate) PROVE req'[r].pc # "awaiting"
          <6>. DEFINE out == AnswerOf(cond[req[r].at.url])
          <6>1. req'[r] = [req[r] EXCEPT !.pc = IF validate THEN "validating" ELSE "copying",
                             !.out = out, !.fallback = (req[r].tried # {})]
            BY <2>1, <5>1 DEF Headers
          <6>. HIDE DEF out
          <6>. QED BY <2>1, <6>1 DEF RequestType
        <5>. QED BY <5>1
      <4>4. Validated(r) \/ Answer(r) \/ Abort(r) \/ Exhausted(r) => req'[r].pc # "awaiting"
        BY <2>1 DEF Validated, Answer, Abort, Exhausted, RequestType
      <4>5. req'[r].pc # "awaiting"
        BY <2>6, <3>3, <4>1, <4>2, <4>3, <4>4 DEF Serve, TransportError, Rejected
      <4>. QED BY <2>2, <3>1, <4>5
    <3>. QED BY <2>2, <3>1, <3>2, <3>3
  <2>7. ASSUME NEW q \in Requests, ClientGone(q) PROVE Goal
    <3>1. UNCHANGED cond /\ req'[r] \in {req[r], [req[r] EXCEPT !.gone = TRUE]}
      BY <2>1, <2>7 DEF ClientGone, healthVars
    <3>. QED BY <2>1, <3>1 DEF Standing, RequestType
  <2>8. ASSUME NEW u \in Urls, Breaks(u) PROVE Goal
    <3>1. \A w : w # u => cond'[w] = cond[w] \/ w \notin Urls
      BY <2>8 DEF Breaks, ServerChanges, RouteInv, RouteTypeOK, TypeOK
    <3>2. req[r].pc = "awaiting" => req[r].at.url \in Urls
      BY <2>1 DEF RouteInv, WalkOK, InHand, IsFirst, RequestType, Urls
    <3>3. CASE req'[r] = req[r]
      BY <2>8, <3>1, <3>2, <3>3 DEF Breaks, Standing, InHand
    <3>4. CASE req'[r] # req[r]
      <4>1. req'[r] = [req[r] EXCEPT !.lost = TRUE]
        BY <2>8, <3>4 DEF Breaks
      <4>. QED BY <2>1, <4>1 DEF RequestType
    <3>. QED BY <3>3, <3>4
  <2>9. CASE (\E new \in Configs : ReloadHealth(new)) \/ ReloadHandler \/ ProbeStep
    <3>1. UNCHANGED <<cond, req>>
      BY <2>9 DEF ReloadHealth, UpdateConfig, ReloadHandler, healthVars, ProbeStep, CheckAll,
                  ProbeAnswered, ProbeApplied
    <3>. QED BY <2>2, <3>1
  <2>. QED BY <2>3, <2>4, <2>5, <2>6, <2>7, <2>8, <2>9 DEF RouteNext, RouteStep
<1>. QED BY <1>1, <1>2, RouteInvariant, PTL DEF RouteSpec

(* A request that has arrived is never without a next step. *)
THEOREM NeverStuckTheorem == RouteSpec => []NeverStuck
<1>1. RouteInv /\ ChainsLoaded /\ Standing => NeverStuck
  <2>. SUFFICES ASSUME RouteInv, ChainsLoaded, Standing, NEW r \in Requests, Active(r) PROVE CanServe(r)
    BY DEF NeverStuck
  <2>1. req[r] \in RequestType
    BY DEF RouteInv, RouteTypeOK
  <2>2. CASE req[r].pc = "walking"
    <3>1. PICK c \in Configs : req[r].chain \subseteq c
      BY DEF ChainsLoaded
    <3>2. Remaining(r) \in SUBSET c /\ c \subseteq Entries
      BY <3>1, ConfigsAssumption DEF Remaining
    <3>3. Remaining(r) # {} => \E e \in Entries : IsFirst(e, Remaining(r))
      BY <3>2, HasFirst
    <3>. QED BY <2>2, <3>3 DEF CanServe
  <2>3. CASE req[r].pc \in {"sent", "copying"}
    BY <2>1, <2>3 DEF CanServe, RequestType
  <2>4. CASE req[r].pc = "awaiting"
    <3>1. req[r].at \in Entries
      BY <2>1, <2>4 DEF RouteInv, WalkOK, InHand, IsFirst, RequestType
    <3>2. ~req[r].lost => cond[req[r].at.url] \in AllConditions \ {"down"}
      BY <2>4, <3>1 DEF RouteInv, RouteTypeOK, TypeOK, Urls, Standing
    <3>. QED BY <2>1, <2>4, <3>2 DEF CanServe, RequestType, AllConditions, MayBeJson, MayBeOther
  <2>5. CASE req[r].pc = "validating"
    BY <2>5 DEF RouteInv, WalkOK, CanServe
  <2>. QED BY <2>2, <2>3, <2>4, <2>5 DEF Active, InHand
<1>. QED BY <1>1, RouteInvariant, ChainsLoadedInvariant, StandingInvariant, PTL

(* A request takes at most 5 * n + 1 steps over a chain of n backends,     *)
(* whatever probes, reloads, servers and other requests do meanwhile.      *)
THEOREM WorkShrinksTheorem == RouteSpec => WorkShrinks
<1>. DEFINE Less(r) ==
       /\ Work(req[r]) \in Nat \ {0}
       /\ Work(req'[r]) \in 0..Work(req[r])
       /\ Serve(r) => Work(req'[r]) < Work(req[r])
<1>1. ASSUME RouteInv, ChainsLoaded, RouteNext, NEW r \in Requests, Active(r) PROVE Less(r)
  <2>1. Work(req[r]) \in Nat \ {0}
    BY <1>1, WorkPositive
  <2>2. CASE Serve(r)
    BY <1>1, <2>1, <2>2, ServeDescends
  <2>3. CASE ~Serve(r)
    <3>1. req'[r].pc = req[r].pc /\ req'[r].chain = req[r].chain /\ req'[r].tried = req[r].tried
      <4>1. req[r] \in RequestType /\ req \in [Requests -> RequestType]
        BY <1>1 DEF RouteInv, RouteTypeOK
      <4>0. ASSUME NEW q \in Requests, BadRequest(q) PROVE req'[r] = req[r]
        BY <1>1, <4>1, <4>0 DEF BadRequest, Active, InHand
      <4>2. ASSUME NEW q \in Requests, NEW m \in Models, Arrive(q, m) PROVE req'[r] = req[r]
        BY <1>1, <4>1, <4>2 DEF Arrive, Active, InHand
      <4>3. ASSUME NEW q \in Requests, Serve(q) PROVE req'[r] = req[r]
        BY <1>1, <2>3, <4>3, ServeStep DEF HandlerStep
      <4>4. ASSUME NEW q \in Requests, ClientGone(q)
            PROVE  req'[r].pc = req[r].pc /\ req'[r].chain = req[r].chain /\ req'[r].tried = req[r].tried
        BY <4>1, <4>4 DEF ClientGone, RequestType
      <4>5. ASSUME NEW u \in Urls, Breaks(u)
            PROVE  req'[r].pc = req[r].pc /\ req'[r].chain = req[r].chain /\ req'[r].tried = req[r].tried
        BY <4>1, <4>5 DEF Breaks, RequestType
      <4>6. ASSUME (\E new \in Configs : ReloadHealth(new)) \/ ReloadHandler \/ ProbeStep
            PROVE  req'[r] = req[r]
        BY <4>6 DEF ReloadHealth, ReloadHandler, ProbeStep
      <4>. QED BY <1>1, <4>0, <4>2, <4>3, <4>4, <4>5, <4>6 DEF RouteNext, RouteStep
    <3>2. Work(req'[r]) = Work(req[r])
      BY <3>1 DEF Work
    <3>. QED BY <2>1, <2>3, <3>2
  <2>. QED BY <2>2, <2>3
<1>2. RouteInv /\ ChainsLoaded /\ [RouteNext]_failoverVars
        => [\A r \in Requests : Active(r) => Less(r)]_failoverVars
  BY <1>1
<1>. QED BY <1>2, RouteInvariant, ChainsLoadedInvariant, PTL DEF RouteSpec, WorkShrinks

-----------------------------------------------------------------------------
(* Requests and reloads of the whole gateway are, to the health checker,   *)
(* nothing it does not do by itself: what its own theorems say holds in    *)
(* the composition too.                                                    *)
THEOREM HealthBesideRouting == RouteSpec => Spec
<1>1. RouteInit => Init
  BY DEF RouteInit
<1>2. [RouteNext]_failoverVars => [Next]_healthVars
  BY RouteStepIsHealthStep DEF failoverVars
<1>. QED BY <1>1, <1>2, PTL DEF RouteSpec, Spec
=============================================================================
