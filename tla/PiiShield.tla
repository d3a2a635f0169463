----------------------------- MODULE PiiShield -----------------------------
(***************************************************************************)
(* The PII Shield client and its circuit breaker (internal/pii/client.go)  *)
(* under the middleware that scans what a request brings and what its      *)
(* answer takes away (internal/pii/middleware.go).                         *)
(*                                                                         *)
(* A scan is three steps of a handler: the look at the breaker under the   *)
(* lock, the POST without it, and the note of its outcome under the lock   *)
(* again, so that scans of other requests come between.  Each configuration *)
(* load builds a chain with a client of its own.                           *)
(*                                                                         *)
(* Time is kept as ages that stop at CbTimeout, all the code compares with.*)
(***************************************************************************)
EXTENDS Integers, Sequences

CONSTANTS
  Requests,     \* the requests in hand at a time
  CbTimeout,    \* the breaker's 30 seconds, in ticks
  MaxClients    \* bound on the clients built, one per configuration load

ASSUME CbTimeoutAssumption == CbTimeout \in Nat \ {0}
ASSUME MaxClientsAssumption == MaxClients \in Nat \ {0}

VARIABLES
  clients,  \* the clients in the order they were built
  req,      \* the state of each request's handler
  shield    \* external: whether the shield answers within the client's timeout

vars == <<clients, req, shield>>

Ages == 0..CbTimeout
NotFailing == -1
(* Mutant: the zero time ages like any other. *)
OlderAlways(a) == a + 1
Older(a) == IF a \in 0..(CbTimeout - 1) THEN a + 1 ELSE a

(* `failing' is the age of firstFailure; `quiet', auxiliary, that of the   *)
(* last success the client recorded, or of the client.                     *)
NewClient(bypass) == [bypass |-> bypass, failing |-> NotFailing, quiet |-> 0]

(* What the shield may say: a decision, another JSON document, or bytes    *)
(* that do not decode (or do not arrive in time).                          *)
Decisions == {"allow", "redact", "block", "other"}
Answers == Decisions \cup {"garbled"}

Bodies == {"none", "text", "sanitized", "notice"}
Statuses == {"none", "served", "400", "403", "503"}
Verdicts == {"none", "empty", "bypassed", "unchanged", "redacted"}

NoReply == [status |-> "none", body |-> "none", length |-> "none"]

(* `length' is the body whose size the Content-Length header declares;     *)
(* `verdict', auxiliary, is why the body last went on.                     *)
Fresh == [pc |-> "done", dir |-> "input", client |-> 1, body |-> "none", length |-> "none",
          verdict |-> "none", reply |-> NoReply]

RequestType ==
  [pc : {"done", "scan", "posting", "answered", "failed", "next"},
   dir : {"input", "output"}, client : 1..MaxClients, body : Bodies, length : Bodies,
   verdict : Verdicts,
   reply : [status : Statuses, body : Bodies, length : Bodies]]

ClientType == [bypass : BOOLEAN, failing : Ages \cup {NotFailing}, quiet : Ages]

TypeOK ==
  /\ clients \in Seq(ClientType) /\ Len(clients) \in 1..MaxClients
  /\ req \in [Requests -> RequestType]
  /\ shield \in {"up", "down"}

Init ==
  /\ \E b \in BOOLEAN : clients = <<NewClient(b)>>
  /\ req = [r \in Requests |-> Fresh]
  /\ shield \in {"up", "down"}

-----------------------------------------------------------------------------
(* isOpen *)
IsOpen(c) == clients[c].failing = CbTimeout

(* The handler returns; what the reply does not depend on is forgotten. *)
Replied(q, status, body, length) ==
  [q EXCEPT !.pc = "done", !.body = "none", !.length = "none",
            !.reply = [status |-> status, body |-> body, length |-> length]]

(* A body goes on, as `text': to next, or to the client with its length.   *)
Passed(q, text, verdict) ==
  IF q.dir = "input"
  THEN [q EXCEPT !.pc = "next", !.body = text, !.verdict = verdict]
  ELSE [Replied(q, "served", text, text) EXCEPT !.verdict = verdict]

(* http.Error drops the Content-Length that next may have set, the answer  *)
(* to a block keeps it.                                                    *)
Failed(q, status) == Replied(q, status, "notice", "none")
Blocked(q) == Replied(q, "403", "notice", q.length)

(* Mutant: the policy is not asked. *)
UnaskedPasses(q) == Passed(q, q.body, "bypassed")

(* What Scan returns when the shield cannot be asked. *)
Unasked(q) == IF clients[q.client].bypass THEN Passed(q, q.body, "bypassed") ELSE Failed(q, "503")

(* What Scan and the middleware make of an answer.  An answer that is no   *)
(* known decision changes nothing.                                         *)
Decided(q, answer) ==
  CASE answer = "garbled" -> Failed(q, "503")
    [] answer = "block"   -> Blocked(q)
    [] answer = "redact"  -> Passed(q, "sanitized", "redacted")
    [] OTHER              -> Passed(q, q.body, "unchanged")

-----------------------------------------------------------------------------
(* A request enters the live chain, with a body to scan, none, or one that *)
(* cannot be read.                                                         *)
Arrive(r) ==
  LET q == [Fresh EXCEPT !.client = Len(clients)] IN
  /\ req[r].pc = "done"
  /\ req' = [req EXCEPT ![r] = [q EXCEPT !.pc = "scan", !.body = "text"]]
  /\ UNCHANGED <<clients, shield>>

ArriveWithoutText(r) ==
  LET q == [Fresh EXCEPT !.client = Len(clients)] IN
  /\ req[r].pc = "done"
  /\ req' \in {[req EXCEPT ![r] = p] : p \in {Passed(q, "none", "empty"), Failed(q, "400")}}
  /\ UNCHANGED <<clients, shield>>

(* Scan finds the breaker open, *)
FindsOpen(r) ==
  /\ req[r].pc = "scan" /\ IsOpen(req[r].client)
  /\ req' = [req EXCEPT ![r] = Unasked(req[r])]
  /\ UNCHANGED <<clients, shield>>

(* or closed, and asks. *)
Ask(r) ==
  /\ req[r].pc = "scan" /\ ~IsOpen(req[r].client)
  /\ req' = [req EXCEPT ![r].pc = "posting"]
  /\ UNCHANGED <<clients, shield>>

(* The POST returns, within the client's timeout; what the answer is makes *)
(* a difference only once it is noted.                                     *)
PostAnswered(r) ==
  /\ req[r].pc = "posting" /\ shield = "up"
  /\ req' = [req EXCEPT ![r].pc = "answered"]
  /\ UNCHANGED <<clients, shield>>

(* Mutant: without the client's timeout. *)
PostHangs(r) == FALSE

PostFails(r) ==
  /\ req[r].pc = "posting" /\ shield = "down"
  /\ req' = [req EXCEPT ![r].pc = "failed"]
  /\ UNCHANGED <<clients, shield>>

(* Mutants: every failure starts the clock anew; a success does not stop it. *)
AfterEveryFailure(c) == [c EXCEPT !.failing = 0]
AfterSuccessStillFailing(c) == [c EXCEPT !.quiet = 0]

(* recordFailure keeps the first failure, recordSuccess forgets it. *)
AfterFailure(c) == IF c.failing = NotFailing THEN [c EXCEPT !.failing = 0] ELSE c
AfterSuccess(c) == [c EXCEPT !.failing = NotFailing, !.quiet = 0]

RecordFailure(r) ==
  /\ req[r].pc = "failed"
  /\ clients' = [clients EXCEPT ![req[r].client] = AfterFailure(@)]
  /\ req' = [req EXCEPT ![r] = Unasked(req[r])]
  /\ UNCHANGED shield

RecordSuccess(r) ==
  /\ req[r].pc = "answered"
  /\ clients' = [clients EXCEPT ![req[r].client] = AfterSuccess(@)]
  /\ \E a \in Answers : req' = [req EXCEPT ![r] = Decided(req[r], a)]
  /\ UNCHANGED shield

(* next.ServeHTTP writes into the recorder; its headers, with or without a *)
(* Content-Length, go straight to the response.                            *)
ServeNext(r) ==
  /\ req[r].pc = "next"
  /\ \E length \in {"none", "text"} :
       LET q == [req[r] EXCEPT !.dir = "output", !.length = length, !.verdict = "none"] IN
       req' \in {[req EXCEPT ![r] = p] :
                   p \in {[q EXCEPT !.pc = "scan", !.body = "text"], Passed(q, "none", "empty")}}
  /\ UNCHANGED <<clients, shield>>

(* Gateway.Reload: a new chain, a new client, a closed breaker. *)
Reload(b) ==
  /\ Len(clients) < MaxClients
  /\ clients' = Append(clients, NewClient(b))
  /\ UNCHANGED <<req, shield>>

ShieldChanges ==
  /\ shield' \in {"up", "down"} \ {shield}
  /\ UNCHANGED <<clients, req>>

Tick ==
  /\ clients' = [c \in DOMAIN clients |->
       [clients[c] EXCEPT !.failing = Older(@), !.quiet = Older(@)]]
  /\ UNCHANGED <<req, shield>>

HandlerStep(r) ==
  \/ FindsOpen(r)
  \/ Ask(r)
  \/ PostAnswered(r)
  \/ PostFails(r)
  \/ RecordFailure(r)
  \/ RecordSuccess(r)
  \/ ServeNext(r)

Next ==
  \/ \E r \in Requests : Arrive(r)
  \/ \E r \in Requests : ArriveWithoutText(r)
  \/ \E r \in Requests : HandlerStep(r)
  \/ \E b \in BOOLEAN : Reload(b)
  \/ ShieldChanges
  \/ Tick

Spec == Init /\ [][Next]_vars

(* Handlers run, the client's timeout ends a POST, next answers, and time  *)
(* passes.                                                                 *)
Scheduling == WF_vars(Tick) /\ \A r \in Requests : WF_vars(HandlerStep(r))
FairSpec == Spec /\ Scheduling

(* ... and consumers keep asking. *)
BusySpec == FairSpec /\ \A r \in Requests : WF_vars(Arrive(r))

-----------------------------------------------------------------------------
(* An open breaker means that no scan of that client succeeded for the     *)
(* whole of cbTimeout, whatever order the outcomes of concurrent scans     *)
(* were recorded in.                                                       *)
OpenMeansNoSuccess == \A c \in DOMAIN clients : IsOpen(c) => clients[c].quiet = CbTimeout

(* Nothing reaches the backend or the client that the shield was not asked *)
(* about, except where the chain's policy is to bypass; what it blocked    *)
(* goes nowhere and what it redacted goes on sanitized.  A reload in       *)
(* between never mixes two policies in one request.                        *)
Went(verdict, bypass, body) ==
  \/ verdict = "empty" /\ body = "none"
  \/ verdict = "bypassed" /\ bypass /\ body = "text"
  \/ verdict = "unchanged" /\ body = "text"
  \/ verdict = "redacted" /\ body = "sanitized"

NothingPassesUnasked ==
  \A r \in Requests :
    LET q == req[r]
        bypass == clients[q.client].bypass IN
    /\ q.pc = "next" => q.dir = "input" /\ Went(q.verdict, bypass, q.body)
    /\ q.reply.status = "served" => q.dir = "output" /\ Went(q.verdict, bypass, q.reply.body)

(* While the shield stays away a client does not go on waiting for it: its *)
(* breaker opens for good, however often requests fail in the meantime,    *)
(* unless nothing has failed at all.                                       *)
BreakerSettles ==
  \A c \in 1..MaxClients :
    <>[](shield = "down") =>
      <>[](c \in DOMAIN clients => clients[c].failing = NotFailing \/ IsOpen(c))

(* Every request is answered, whatever the shield does. *)
EveryRequestAnswered == \A r \in Requests : req[r].pc # "done" ~> req[r].pc = "done"

(* firstFailure's comment (client.go:35): "zero when healthy".  An open    *)
(* breaker never asks again, so it stays open when the shield is back for  *)
(* good and consumers keep asking.                                         *)
ZeroWhenHealthy ==
  \A c \in 1..MaxClients :
    <>[](shield = "up") => <>[](c \in DOMAIN clients => clients[c].failing = NotFailing)

(* The middleware's comment (middleware.go:83): of the headers next set,   *)
(* it remains to "adjust Content-Length" before the body is written.  The  *)
(* answer to a blocked response does not.                                  *)
RepliesFramed ==
  \A r \in Requests : req[r].reply.length # "none" => req[r].reply.length = req[r].reply.body
=============================================================================
