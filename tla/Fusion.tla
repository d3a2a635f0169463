-------------------------------- MODULE Fusion --------------------------------
(***************************************************************************)
(* A fusion request: deliberate, fan out, judge, synthesize                *)
(* (internal/fusion/fusion.go, panels.go), every call of which walks the   *)
(* fallback chain of its model (internal/gateway/proxy.go, backendCaller)  *)
(* under the one deadline of the tier.                                     *)
(*                                                                         *)
(* The calls of the panel run side by side.  What the health checker says  *)
(* and what backends do is the environment's choice at every step.         *)
(***************************************************************************)
EXTENDS Integers, Sequences, FiniteSets

CONSTANTS
  Seats,        \* the places of the tier's panel
  Deliberator, Judge, Synth,  \* the calls that are made one at a time
  Backends,
  Chain,        \* the fallback chain of each call's model, <<>> if it has none
  MinQuorum     \* min_quorum of the tier, 0 if it is not set

Calls == Seats \cup {Deliberator, Judge, Synth}

ASSUME CallsAssumption ==
  /\ Deliberator # Judge /\ Judge # Synth /\ Deliberator # Synth
  /\ Seats \cap {Deliberator, Judge, Synth} = {}
ASSUME ChainAssumption == Chain \in [Calls -> Seq(Backends)]
ASSUME SeatsAssumption == IsFiniteSet(Seats) /\ MinQuorum \in Nat

VARIABLES
  stage,     \* where RunFusion is
  calls,     \* the state of each call of backendCaller
  expired,   \* the request's context is done: the deadline, or the client left
  routable,  \* the backends IsHealthy answers true for
  reply      \* what the client got

vars == <<stage, calls, expired, routable, reply>>

Stages == {"idle", "deliberate", "fanout", "judge", "synth", "done"}
Statuses == {"none", "200", "400", "404", "500", "502", "aborted"}
Bodies == {"none", "answer", "empty", "placeholder"}

(* What a call returns.  A body that is no JSON is a text, whatever status *)
(* it came with; "null" is the text a decoder takes for no object at all.  *)
Contents == {"text", "null", "empty"}
Results == Contents \cup {"none", "broken", "exhausted"}

(* `steady' is auxiliary: the backends of the chain that were routable all *)
(* along the call and have refused it nothing.                             *)
Off == [pc |-> "off", next |-> 1, result |-> "none", steady |-> {}]
Walking(next, steady) == [pc |-> "walking", next |-> next, result |-> "none", steady |-> steady]
Ended(result, steady) == [pc |-> "done", next |-> 1, result |-> result, steady |-> steady]

CallType ==
  [pc : {"off", "walking", "sent", "reading", "done"}, next : Nat \ {0}, result : Results,
   steady : SUBSET Backends]

TypeOK ==
  /\ stage \in Stages
  /\ calls \in [Calls -> CallType]
  /\ expired \in BOOLEAN
  /\ routable \in SUBSET Backends
  /\ reply \in [status : Statuses, body : Bodies]

NoReply == [status |-> "none", body |-> "none"]

Init ==
  /\ stage = "idle"
  /\ calls = [c \in Calls |-> Off]
  /\ expired = FALSE
  /\ routable \in SUBSET Backends
  /\ reply = NoReply

(* ResolvePanel: an unset quorum is two, or all of a smaller panel. *)
Quorum ==
  IF MinQuorum # 0 THEN MinQuorum
  ELSE IF Cardinality(Seats) < 2 THEN Cardinality(Seats) ELSE 2

BackendsOf(c) == {Chain[c][i] : i \in 1..Len(Chain[c])}
Start(c) == Walking(1, BackendsOf(c) \cap routable)

Answer(status, body) ==
  /\ stage' = "done"
  /\ reply' = [status |-> status, body |-> body]

-----------------------------------------------------------------------------
(* routeRequest and handleFusionRequest turn a request away: it is         *)
(* malformed, names no tier, or asks for a stream, which the writer it     *)
(* gets behind the usage tracker cannot flush.                             *)
TurnAway(status) ==
  /\ stage = "idle"
  /\ Answer(status, "none")
  /\ UNCHANGED <<calls, expired, routable>>

Begin ==
  /\ stage = "idle"
  /\ stage' = "deliberate"
  /\ calls' = [calls EXCEPT ![Deliberator] = Start(Deliberator)]
  /\ UNCHANGED <<expired, routable, reply>>

-----------------------------------------------------------------------------
(* backendCaller, for each call in progress. *)
Candidate(c) == Chain[c][calls[c].next]
AtCandidate(c) == calls[c].pc = "walking" /\ calls[c].next <= Len(Chain[c])

Returns(c, result) ==
  calls' = [calls EXCEPT ![c] =
    Ended(result, IF result = "exhausted" THEN calls[c].steady ELSE {})]

Unhealthy(c) ==
  /\ AtCandidate(c) /\ Candidate(c) \notin routable
  /\ calls' = [calls EXCEPT ![c] = Walking(@.next + 1, @.steady)]
  /\ UNCHANGED <<stage, expired, routable, reply>>

(* Mutant: the request is not bound to the context. *)
SendUnbound(c) ==
  /\ AtCandidate(c) /\ Candidate(c) \in routable
  /\ calls' = [calls EXCEPT ![c].pc = "sent"]
  /\ UNCHANGED <<stage, expired, routable, reply>>

Send(c) ==
  /\ AtCandidate(c) /\ Candidate(c) \in routable
  /\ ~expired
  /\ calls' = [calls EXCEPT ![c].pc = "sent"]
  /\ UNCHANGED <<stage, expired, routable, reply>>

(* RoundTrip fails: at once when the context is done, or in its course.    *)
RoundTripFails(c) ==
  /\ \/ AtCandidate(c) /\ Candidate(c) \in routable /\ expired
     \/ calls[c].pc = "sent"
  /\ calls' = [calls EXCEPT ![c] =
       Walking(@.next + 1, IF expired THEN @.steady ELSE @.steady \ {Candidate(c)})]
  /\ UNCHANGED <<stage, expired, routable, reply>>

Responds(c) ==
  /\ calls[c].pc = "sent"
  /\ calls' = [calls EXCEPT ![c].pc = "reading"]
  /\ UNCHANGED <<stage, expired, routable, reply>>

(* Whatever the backend answers is the call's result, and a body that      *)
(* breaks off ends the call without a look at the rest of the chain.       *)
Reads(c, content) ==
  /\ calls[c].pc = "reading"
  /\ Returns(c, content)
  /\ UNCHANGED <<stage, expired, routable, reply>>

ReadFails(c) ==
  /\ calls[c].pc = "reading"
  /\ Returns(c, "broken")
  /\ UNCHANGED <<stage, expired, routable, reply>>

(* Mutant: gives up at the first backend that cannot be used. *)
ExhaustedAtOnce(c) ==
  /\ calls[c].pc = "walking" /\ calls[c].next > 1
  /\ Returns(c, "exhausted")
  /\ UNCHANGED <<stage, expired, routable, reply>>

Exhausted(c) ==
  /\ calls[c].pc = "walking" /\ calls[c].next > Len(Chain[c])
  /\ Returns(c, "exhausted")
  /\ UNCHANGED <<stage, expired, routable, reply>>

-----------------------------------------------------------------------------
(* RunFusion. *)
Result(c) == calls[c].result
Returned(c) == calls[c].pc = "done"

(* deliberate returns a specification, its own or the fallback, and fanOut *)
(* asks every seat with it ...                                             *)
FanOut ==
  /\ stage = "deliberate" /\ Returned(Deliberator) /\ Result(Deliberator) # "null"
  /\ stage' = "fanout"
  /\ calls' = [c \in Calls |-> IF c \in Seats THEN Start(c) ELSE calls[c]]
  /\ UNCHANGED <<expired, routable, reply>>

(* ... except that "null" decodes into a nil map without an error: the     *)
(* write to it panics, and net/http drops the connection.                  *)
NilSpec ==
  /\ stage = "deliberate" /\ Returned(Deliberator) /\ Result(Deliberator) = "null"
  /\ Answer("aborted", "none")
  /\ UNCHANGED <<calls, expired, routable>>

(* Mutant: whatever was returned counts. *)
ValidAll == {s \in Seats : Returned(s)}

(* filterValid *)
Valid == {s \in Seats : Result(s) \in {"text", "null"}}

(* Mutant: fanOut returns when the quorum is there. *)
CountEarly ==
  /\ stage = "fanout" /\ (Cardinality(Valid) >= Quorum \/ \A s \in Seats : Returned(s))
  /\ IF Cardinality(Valid) < Quorum
     THEN Answer("502", "none") /\ UNCHANGED calls
     ELSE /\ stage' = "judge"
          /\ calls' = [calls EXCEPT ![Judge] = Start(Judge)]
          /\ UNCHANGED reply
  /\ UNCHANGED <<expired, routable>>

Count ==
  /\ stage = "fanout" /\ \A s \in Seats : Returned(s)
  /\ IF Cardinality(Valid) < Quorum
     THEN Answer("502", "none") /\ UNCHANGED calls
     ELSE /\ stage' = "judge"
          /\ calls' = [calls EXCEPT ![Judge] = Start(Judge)]
          /\ UNCHANGED reply
  /\ UNCHANGED <<expired, routable>>

(* With an analysis or without, the synthesizer is asked. *)
Synthesize ==
  /\ stage = "judge" /\ Returned(Judge)
  /\ stage' = "synth"
  /\ calls' = [calls EXCEPT ![Synth] = Start(Synth)]
  /\ UNCHANGED <<expired, routable, reply>>

(* Mutant (BodyOfRaw): what the call returned is not looked at.            *)
(* handleFusionRequest answers 200 with what synthesize returned, be it    *)
(* nothing or "[Fusion synthesis failed]".                                 *)
BodyOfRaw(result) == result
BodyOf(result) ==
  CASE result \in {"text", "null"} -> "answer"
    [] result = "empty" -> "empty"
    [] OTHER -> "placeholder"

Reply ==
  /\ stage = "synth" /\ Returned(Synth)
  /\ Answer("200", BodyOf(Result(Synth)))
  /\ UNCHANGED <<calls, expired, routable>>

(* Mutant: the context has no deadline. *)
ExpireNever == FALSE

(* The deadline of the tier passes, or the client disconnects. *)
Expire ==
  /\ stage \notin {"idle", "done"} /\ ~expired
  /\ expired' = TRUE
  /\ UNCHANGED <<stage, calls, routable, reply>>

(* The health checker changes its mind. *)
HealthChanges ==
  /\ routable' \in SUBSET Backends \ {routable}
  /\ calls' = [c \in Calls |-> IF calls[c].pc \in {"off", "done"} THEN calls[c]
                               ELSE [calls[c] EXCEPT !.steady = @ \cap routable']]
  /\ UNCHANGED <<stage, expired, reply>>

CallStep(c) ==
  \/ Unhealthy(c)
  \/ Send(c)
  \/ RoundTripFails(c)
  \/ Responds(c)
  \/ \E content \in Contents : Reads(c, content)
  \/ ReadFails(c)
  \/ Exhausted(c)

PipelineStep == FanOut \/ NilSpec \/ Count \/ Synthesize \/ Reply

Next ==
  \/ \E status \in {"400", "404", "500"} : TurnAway(status)
  \/ Begin
  \/ PipelineStep
  \/ \E c \in Calls : CallStep(c)
  \/ Expire
  \/ HealthChanges

Spec == Init /\ [][Next]_vars

(* The part of a call that is not left to a backend: the walk, and the end *)
(* that a done context makes of a round trip or a read.                    *)
Moves(c) ==
  \/ Unhealthy(c) \/ Send(c) \/ Exhausted(c)
  \/ expired /\ (RoundTripFails(c) \/ ReadFails(c))

(* Goroutines run and the deadline passes.  Backends owe nothing. *)
FairSpec ==
  /\ Spec
  /\ WF_vars(PipelineStep) /\ WF_vars(Expire) /\ \A c \in Calls : WF_vars(Moves(c))

-----------------------------------------------------------------------------
StageOf(c) ==
  CASE c \in Seats -> "fanout" [] c = Deliberator -> "deliberate"
    [] c = Judge -> "judge" [] OTHER -> "synth"
Active(c) == calls[c].pc \in {"walking", "sent", "reading"}

(* No call outlives its stage: results are only read once nobody writes    *)
(* them any more, and a request that has been answered, for whatever       *)
(* reason, has no goroutine and no backend left at work for it.            *)
NothingLeftBehind == \A c \in Calls : Active(c) => stage = StageOf(c)

(* Before the deadline a call fails for want of backends only if each one  *)
(* of its chain was out of rotation at some moment of the walk or refused  *)
(* it: a change of mind of the health checker never hides one that stayed  *)
(* in rotation.                                                            *)
NoFalseExhaustion ==
  \A c \in Calls : Result(c) = "exhausted" => expired \/ calls[c].steady = {}

(* A request whose deadline passes before the synthesizer is asked never   *)
(* gets a synthesis, late answers of the panel or the judge or not: its    *)
(* stages go on, each call of theirs fails at once, and what it is sent is *)
(* the placeholder, a refusal or nothing.                                  *)
NoLateSynthesis ==
  [](expired /\ stage \in {"deliberate", "fanout", "judge"}
       => [](reply.body \notin {"answer", "empty"}))

(* A fusion request that has begun is answered or dropped, although a      *)
(* backend may accept a call and never answer it.                          *)
EveryFusionEnds == stage = "deliberate" ~> stage = "done"

(* RunFusion's comment (fusion.go:91): it "executes the full pipeline and  *)
(* returns an OpenAI-compatible response".  The deliberator's "null" ends  *)
(* the request without any.                                                *)
AlwaysResponds == reply.status # "aborted"

(* The refinement mapping. *)
Opinion(c) ==
  IF ~Returned(c) THEN "open" ELSE IF Result(c) \in {"text", "null"} THEN "given" ELSE "missing"

Outcome ==
  CASE stage \in {"judge", "synth"} \/ reply.status = "200" -> "agreed"
    [] reply.status = "502" -> "refused"
    [] reply.status \in {"400", "404", "500", "aborted"} -> "dropped"
    [] OTHER -> "open"

Quorums == {Q \in SUBSET Seats : Cardinality(Q) >= Quorum}

Promise == INSTANCE FusionPromise WITH
  opinion <- [s \in Seats |-> Opinion(s)],
  outcome <- Outcome

(* The pipeline implements the promise of FusionPromise. *)
KeepsPromise == Promise!Spec
=============================================================================
