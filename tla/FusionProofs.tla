---------------------------- MODULE FusionProofs ----------------------------
(***************************************************************************)
(* Proofs about Fusion for every panel, every set of chains and quorum.    *)
(*                                                                         *)
(* The inductive invariant FusionInv says of each call by itself what it   *)
(* may still rely on (CallOK: no backend behind it in the chain is         *)
(* steady), and of the pipeline which seats have settled at which stage.   *)
(***************************************************************************)
EXTENDS Fusion, FiniteSetTheorems, TLAPS

Progressing == {"walking", "sent", "reading"}

(* A call by itself, given whether the context is done and what is         *)
(* routable.                                                               *)
CallOK(c, x, late, healthy) ==
  /\ x.pc # "done" => x.result = "none"
  /\ x.pc \in {"sent", "reading"} => x.next <= Len(Chain[c])
  /\ x.pc \in Progressing =>
       /\ x.steady \subseteq BackendsOf(c) \cap healthy
       /\ late \/ \A j \in 1..Len(Chain[c]) : j < x.next => Chain[c][j] \notin x.steady
  /\ x.result = "exhausted" => late \/ x.steady = {}

EachCallOK == \A c \in Calls : CallOK(c, calls[c], expired, routable)

SeatsReturned == \A s \in Seats : calls[s].pc = "done"
SeatsOff == \A s \in Seats : calls[s].pc = "off"

(* The pipeline: what has been answered, and which seats have settled. *)
PipelineOK ==
  /\ stage = "done" <=> reply.status # "none"
  /\ stage \in {"judge", "synth"} \/ reply.status \in {"200", "502"} => SeatsReturned
  /\ stage \in {"idle", "deliberate"} \/ reply.status \in {"400", "404", "500", "aborted"}
       => SeatsOff

FusionInv == TypeOK /\ NothingLeftBehind /\ EachCallOK /\ PipelineOK


-----------------------------------------------------------------------------
(* Every step of a call replaces that call alone and leaves it in order;   *)
(* from a call in order and in progress it makes another, or a result.     *)
Moved(c, x) ==
  /\ calls' = [calls EXCEPT ![c] = x]
  /\ UNCHANGED <<stage, expired, routable, reply>>

Advanced(c, x) ==
  /\ calls[c].pc \in Progressing
  /\ x \in CallType /\ x.pc \in Progressing \cup {"done"}
  /\ x.pc = "done" => x.result # "none"
  /\ CallOK(c, x, expired, routable)
  /\ Moved(c, x)
  /\ expired /\ x.pc = "sent" => calls[c].pc = "sent"

LEMMA CallFields ==
  ASSUME TypeOK, NEW c \in Calls
  PROVE  /\ calls[c] \in CallType
         /\ calls[c] = [pc |-> calls[c].pc, next |-> calls[c].next,
                        result |-> calls[c].result, steady |-> calls[c].steady]
         /\ calls[c].next \in Nat \ {0} /\ calls[c].steady \in SUBSET Backends
         /\ Len(Chain[c]) \in Nat /\ expired \in BOOLEAN
BY ChainAssumption DEF TypeOK, CallType

(* What a call's walk and its answers leave of its record. *)
LEMMA CallAdvances ==
  ASSUME TypeOK, EachCallOK, NEW c \in Calls, CallStep(c)
  PROVE  \E x \in CallType : Advanced(c, x)
<1>. DEFINE k == calls[c]
<1>0. /\ k \in CallType /\ k.next \in Nat \ {0} /\ k.steady \in SUBSET Backends
      /\ Len(Chain[c]) \in Nat /\ expired \in BOOLEAN
      /\ CallOK(c, k, expired, routable)
  BY CallFields DEF EachCallOK
<1>1. CASE Unhealthy(c)
  <2>. DEFINE x == Walking(k.next + 1, k.steady)
  <2>1. Moved(c, x) /\ k.pc = "walking" /\ k.next <= Len(Chain[c]) /\ Chain[c][k.next] \notin routable
    BY <1>1 DEF Unhealthy, AtCandidate, Candidate, Moved
  <2>2. x \in CallType /\ x.pc = "walking" /\ x.next = k.next + 1 /\ x.steady = k.steady /\ x.result = "none"
    BY <1>0 DEF CallType, Walking, Results
  <2>3. CallOK(c, x, expired, routable)
    BY <1>0, <2>1, <2>2 DEF CallOK, Progressing
  <2>. QED BY <2>1, <2>2, <2>3 DEF Advanced, Progressing
<1>2. CASE Send(c)
  <2>. DEFINE x == [k EXCEPT !.pc = "sent"]
  <2>1. Moved(c, x) /\ k.pc = "walking" /\ k.next <= Len(Chain[c]) /\ ~expired
    BY <1>2 DEF Send, AtCandidate, Moved
  <2>2. x \in CallType /\ x.pc = "sent" /\ x.next = k.next /\ x.steady = k.steady /\ x.result = k.result
    BY <1>0, <2>1 DEF CallType
  <2>3. CallOK(c, x, expired, routable)
    BY <1>0, <2>1, <2>2 DEF CallOK, Progressing
  <2>. QED BY <2>1, <2>2, <2>3 DEF Advanced, Progressing
<1>3. CASE RoundTripFails(c)
  <2>. DEFINE left == IF expired THEN k.steady ELSE k.steady \ {Candidate(c)}
              x == Walking(k.next + 1, left)
  <2>1. Moved(c, x) /\ k.pc \in {"walking", "sent"} /\ k.next <= Len(Chain[c])
    BY <1>0, <1>3 DEF RoundTripFails, AtCandidate, Moved, CallOK
  <2>2. left \subseteq k.steady /\ (~expired => Chain[c][k.next] \notin left)
    BY DEF Candidate
  <2>3. x \in CallType /\ x.pc = "walking" /\ x.next = k.next + 1 /\ x.steady = left /\ x.result = "none"
    BY <1>0, <2>2 DEF CallType, Walking, Results
  <2>4. /\ k.steady \subseteq BackendsOf(c) \cap routable
        /\ expired \/ \A j \in 1..Len(Chain[c]) : j < k.next => Chain[c][j] \notin k.steady
    BY <1>0, <2>1 DEF CallOK, Progressing
  <2>. HIDE DEF left
  <2>5. expired \/ \A j \in 1..Len(Chain[c]) : j < k.next + 1 => Chain[c][j] \notin left
    <3>1. SUFFICES ASSUME ~expired, NEW j \in 1..Len(Chain[c]), j < k.next + 1
                   PROVE  Chain[c][j] \notin left
      OBVIOUS
    <3>2. CASE j = k.next
      BY <2>2, <3>1, <3>2
    <3>3. CASE j # k.next
      BY <1>0, <2>2, <2>4, <3>1, <3>3
    <3>. QED BY <3>2, <3>3
  <2>6. left \subseteq BackendsOf(c) \cap routable
    BY <2>2, <2>4
  <2>. HIDE DEF x, k
  <2>7. CallOK(c, x, expired, routable)
    BY <2>3, <2>5, <2>6 DEF CallOK
  <2>. QED BY <2>1, <2>3, <2>7 DEF Advanced, Progressing, k
<1>4. CASE Responds(c)
  <2>. DEFINE x == [k EXCEPT !.pc = "reading"]
  <2>1. Moved(c, x) /\ k.pc = "sent"
    BY <1>4 DEF Responds, Moved
  <2>2. x \in CallType /\ x.pc = "reading" /\ x.next = k.next /\ x.steady = k.steady /\ x.result = k.result
    BY <1>0, <2>1 DEF CallType
  <2>3. CallOK(c, x, expired, routable)
    BY <1>0, <2>1, <2>2 DEF CallOK, Progressing
  <2>. QED BY <2>1, <2>2, <2>3 DEF Advanced, Progressing
<1>5. ASSUME NEW result \in Contents \cup {"broken"}, k.pc = "reading", Returns(c, result),
             UNCHANGED <<stage, expired, routable, reply>>
      PROVE  \E x \in CallType : Advanced(c, x)
  <2>. DEFINE x == Ended(result, {})
  <2>1. Moved(c, x)
    BY <1>5 DEF Returns, Moved, Contents
  <2>2. x \in CallType /\ x.pc = "done" /\ x.result = result /\ x.result \notin {"none", "exhausted"}
    BY DEF CallType, Ended, Results, Contents
  <2>3. CallOK(c, x, expired, routable)
    BY <2>2 DEF CallOK, Progressing
  <2>. QED BY <1>5, <2>1, <2>2, <2>3 DEF Advanced, Progressing
<1>6. CASE Exhausted(c)
  <2>. DEFINE x == Ended("exhausted", k.steady)
  <2>1. Moved(c, x) /\ k.pc = "walking" /\ k.next > Len(Chain[c])
    BY <1>6 DEF Exhausted, Returns, Moved
  <2>2. x \in CallType /\ x.pc = "done" /\ x.result = "exhausted" /\ x.steady = k.steady
    BY <1>0 DEF CallType, Ended, Results, Contents
  <2>3. expired \/ k.steady = {}
    <3>1. k.steady \subseteq BackendsOf(c)
      BY <1>0, <2>1 DEF CallOK, Progressing
    <3>2. expired \/ \A j \in 1..Len(Chain[c]) : Chain[c][j] \notin k.steady
      BY <1>0, <2>1 DEF CallOK, Progressing
    <3>. QED BY <3>1, <3>2 DEF BackendsOf
  <2>4. CallOK(c, x, expired, routable)
    BY <2>2, <2>3 DEF CallOK, Progressing
  <2>. QED BY <2>1, <2>2, <2>4 DEF Advanced, Progressing
<1>. QED
  BY <1>1, <1>2, <1>3, <1>4, <1>5, <1>6 DEF CallStep, Reads, ReadFails

(* A call that begins is in order, with everything in its chain ahead.     *)
LEMMA Starts ==
  ASSUME TypeOK, NEW c \in Calls, NEW late
  PROVE  /\ Start(c) \in CallType
         /\ Start(c).pc = "walking" /\ Start(c).result = "none"
         /\ CallOK(c, Start(c), late, routable)
<1>. DEFINE x == Start(c)
<1>1. /\ BackendsOf(c) \subseteq Backends /\ Len(Chain[c]) \in Nat
  BY ChainAssumption DEF BackendsOf
<1>2. /\ x.pc = "walking" /\ x.next = 1 /\ x.result = "none"
      /\ x.steady = BackendsOf(c) \cap routable
  BY DEF Start, Walking
<1>3. x \in CallType
  BY <1>1 DEF Start, Walking, CallType, Results
<1>4. CallOK(c, x, late, routable)
  <2>. HIDE DEF x
  <2>. QED BY <1>1, <1>2 DEF CallOK
<1>. QED BY <1>2, <1>3, <1>4

(* The names of the stages tell the calls apart. *)
LEMMA StageNames ==
  /\ \A s \in Seats : StageOf(s) = "fanout" /\ s # Deliberator /\ s # Judge /\ s # Synth
  /\ StageOf(Deliberator) = "deliberate" /\ StageOf(Judge) = "judge" /\ StageOf(Synth) = "synth"
  /\ \A c \in Calls : /\ StageOf(c) \notin {"idle", "done"}
                      /\ StageOf(c) = "deliberate" => c = Deliberator
                      /\ StageOf(c) = "fanout" => c \in Seats
                      /\ StageOf(c) = "judge" => c = Judge
                      /\ StageOf(c) = "synth" => c = Synth
BY CallsAssumption DEF StageOf, Calls

(* A stage begins the calls of a set while no call is in progress.         *)
LEMMA Launches ==
  ASSUME FusionInv, NEW S \in SUBSET Calls, NEW to \in Stages,
         \A c \in Calls : ~Active(c), \A c \in S : StageOf(c) = to,
         calls' = [c \in Calls |-> IF c \in S THEN Start(c) ELSE calls[c]],
         stage' = to, UNCHANGED <<expired, routable, reply>>
  PROVE  TypeOK' /\ NothingLeftBehind' /\ EachCallOK'
<1>1. /\ calls \in [Calls -> CallType]
      /\ \A c \in Calls : /\ Start(c) \in CallType
                          /\ CallOK(c, Start(c), expired, routable)
                          /\ CallOK(c, calls[c], expired, routable)
  BY Starts DEF FusionInv, EachCallOK, TypeOK
<1>2. calls' \in [Calls -> CallType]
  BY <1>1
<1>3. TypeOK'
  BY <1>2 DEF FusionInv, TypeOK
<1>4. NothingLeftBehind'
  BY DEF NothingLeftBehind, Active, StageOf
<1>5. EachCallOK'
  BY <1>1 DEF EachCallOK
<1>. QED BY <1>3, <1>4, <1>5

(* The stages that answer leave every call as it is. *)
LEMMA Answers ==
  ASSUME FusionInv, \A c \in Calls : ~Active(c),
         NEW status \in Statuses \ {"none"}, NEW body \in Bodies,
         Answer(status, body), UNCHANGED <<calls, expired, routable>>
  PROVE  TypeOK' /\ NothingLeftBehind' /\ EachCallOK'
BY DEF FusionInv, TypeOK, NothingLeftBehind, Active, EachCallOK, Answer, Stages

LEMMA LaunchesOne ==
  ASSUME FusionInv, NEW d \in Calls, NEW to \in Stages,
         \A c \in Calls : ~Active(c), StageOf(d) = to,
         calls' = [calls EXCEPT ![d] = Start(d)],
         stage' = to, UNCHANGED <<expired, routable, reply>>
  PROVE  TypeOK' /\ NothingLeftBehind' /\ EachCallOK'
<1>. DEFINE S == {d}
<1>1. S \in SUBSET Calls /\ \A c \in S : StageOf(c) = to
  OBVIOUS
<1>2. calls' = [c \in Calls |-> IF c \in S THEN Start(c) ELSE calls[c]]
  BY DEF FusionInv, TypeOK
<1>. HIDE DEF S
<1>. QED BY <1>1, <1>2, Launches

(* Between the stages no call is in progress. *)
LEMMA Quiet ==
  ASSUME FusionInv
  PROVE  /\ stage \in {"idle", "done"} => \A c \in Calls : ~Active(c)
         /\ stage = "deliberate" /\ Returned(Deliberator) => \A c \in Calls : ~Active(c)
         /\ stage = "fanout" /\ SeatsReturned => \A c \in Calls : ~Active(c)
         /\ stage = "judge" /\ Returned(Judge) => \A c \in Calls : ~Active(c)
         /\ stage = "synth" /\ Returned(Synth) => \A c \in Calls : ~Active(c)
<1>0. \A c \in Calls : Active(c) => stage = StageOf(c) /\ ~Returned(c)
  BY DEF FusionInv, NothingLeftBehind, Active, Returned
<1>. SUFFICES ASSUME NEW c \in Calls, Active(c)
              PROVE  /\ stage \notin {"idle", "done"}
                     /\ ~(stage = "deliberate" /\ Returned(Deliberator))
                     /\ ~(stage = "fanout" /\ SeatsReturned)
                     /\ ~(stage = "judge" /\ Returned(Judge))
                     /\ ~(stage = "synth" /\ Returned(Synth))
  OBVIOUS
<1>1. stage = StageOf(c) /\ ~Returned(c)
  BY <1>0
<1>2. SeatsReturned => c \notin Seats
  BY <1>1 DEF SeatsReturned, Returned
<1>3. /\ StageOf(c) \notin {"idle", "done"}
      /\ StageOf(c) = "deliberate" => c = Deliberator
      /\ StageOf(c) = "fanout" => c \in Seats
      /\ StageOf(c) = "judge" => c = Judge
      /\ StageOf(c) = "synth" => c = Synth
  BY StageNames
<1>. QED BY <1>1, <1>2, <1>3

LEMMA Initially == Init => FusionInv
<1>. SUFFICES ASSUME Init PROVE FusionInv
  OBVIOUS
<1>1. \A c \in Calls : calls[c] = Off
  BY DEF Init
<1>2. Off \in CallType
  BY DEF CallType, Off, Results
<1>3. TypeOK
  BY <1>2 DEF Init, TypeOK, Stages, Statuses, Bodies, NoReply
<1>4. NothingLeftBehind /\ EachCallOK
  BY <1>1 DEF NothingLeftBehind, Active, EachCallOK, CallOK, Off, Progressing
<1>5. PipelineOK
  BY <1>1 DEF Init, PipelineOK, NoReply, SeatsOff, Off, Calls
<1>. QED BY <1>3, <1>4, <1>5 DEF FusionInv

(* What every step does to the invariant, and what the deadline forbids.   *)
NoNewSend == expired => \A c \in Calls : calls'[c].pc = "sent" => calls[c].pc = "sent"

LEMMA ACallSteps ==
  ASSUME FusionInv, NEW c \in Calls, CallStep(c)
  PROVE  FusionInv' /\ NoNewSend
<1>1. PICK x \in CallType : Advanced(c, x)
  BY CallAdvances DEF FusionInv
<1>2. /\ calls \in [Calls -> CallType] /\ calls[c].pc \in Progressing
      /\ calls' = [calls EXCEPT ![c] = x]
      /\ x.pc \in Progressing \cup {"done"}
      /\ CallOK(c, x, expired, routable)
      /\ expired /\ x.pc = "sent" => calls[c].pc = "sent"
      /\ stage' = stage /\ expired' = expired /\ routable' = routable /\ reply' = reply
  BY <1>1 DEF FusionInv, TypeOK, Advanced, Moved
<1>3. /\ calls'[c] = x
      /\ \A d \in Calls \ {c} : calls'[d] = calls[d]
  BY <1>2
<1>4. calls' \in [Calls -> CallType]
  BY <1>2
<1>5. TypeOK'
  BY <1>2, <1>4 DEF FusionInv, TypeOK
<1>6. NothingLeftBehind'
  BY <1>2, <1>3 DEF FusionInv, NothingLeftBehind, Active, StageOf, Progressing
<1>7. EachCallOK'
  BY <1>2, <1>3 DEF FusionInv, EachCallOK
<1>8. PipelineOK'
  <2>1. c \in Seats => ~SeatsReturned /\ ~SeatsOff
    BY <1>2 DEF SeatsReturned, SeatsOff, Progressing
  <2>2. c \notin Seats => (SeatsReturned => SeatsReturned') /\ (SeatsOff => SeatsOff')
    BY <1>3 DEF SeatsReturned, SeatsOff, Calls
  <2>. QED BY <1>2, <2>1, <2>2 DEF FusionInv, PipelineOK
<1>9. NoNewSend
  BY <1>2, <1>3 DEF NoNewSend
<1>. QED BY <1>5, <1>6, <1>7, <1>8, <1>9 DEF FusionInv

LEMMA ThePipelineSteps ==
  ASSUME FusionInv, Begin \/ PipelineStep
  PROVE  FusionInv' /\ NoNewSend
<1>0. /\ calls \in [Calls -> CallType] /\ Seats \subseteq Calls
      /\ stage = "done" <=> reply.status # "none"
      /\ Deliberator \in Calls /\ Judge \in Calls /\ Synth \in Calls
      /\ \A c \in Calls : Start(c).pc = "walking"
  BY Starts DEF FusionInv, TypeOK, Calls, PipelineOK
<1>1. CASE Begin
  <2>1. /\ stage = "idle" /\ \A c \in Calls : ~Active(c)
        /\ calls' = [calls EXCEPT ![Deliberator] = Start(Deliberator)] /\ stage' = "deliberate"
        /\ UNCHANGED <<expired, routable, reply>>
    BY <1>0, <1>1, Quiet DEF Begin
  <2>2. TypeOK' /\ NothingLeftBehind' /\ EachCallOK'
    BY <1>0, <2>1, StageNames, LaunchesOne DEF Stages
  <2>3. PipelineOK'
    BY <1>0, <2>1, StageNames DEF FusionInv, PipelineOK, SeatsOff, SeatsReturned
  <2>4. NoNewSend
    BY <1>0, <2>1 DEF NoNewSend
  <2>. QED BY <2>2, <2>3, <2>4 DEF FusionInv
<1>2. CASE FanOut
  <2>1. /\ stage = "deliberate" /\ \A c \in Calls : ~Active(c)
        /\ calls' = [c \in Calls |-> IF c \in Seats THEN Start(c) ELSE calls[c]] /\ stage' = "fanout"
        /\ UNCHANGED <<expired, routable, reply>>
    BY <1>2, Quiet DEF FanOut
  <2>2. TypeOK' /\ NothingLeftBehind' /\ EachCallOK'
    BY <1>0, <2>1, StageNames, Launches DEF Stages
  <2>3. PipelineOK'
    BY <1>0, <2>1 DEF PipelineOK
  <2>4. NoNewSend
    BY <1>0, <2>1 DEF NoNewSend
  <2>. QED BY <2>2, <2>3, <2>4 DEF FusionInv
<1>3. CASE Synthesize
  <2>1. /\ stage = "judge" /\ \A c \in Calls : ~Active(c)
        /\ calls' = [calls EXCEPT ![Synth] = Start(Synth)] /\ stage' = "synth"
        /\ UNCHANGED <<expired, routable, reply>>
    BY <1>0, <1>3, Quiet DEF Synthesize
  <2>2. TypeOK' /\ NothingLeftBehind' /\ EachCallOK'
    BY <1>0, <2>1, StageNames, LaunchesOne DEF Stages
  <2>3. PipelineOK'
    BY <1>0, <2>1, StageNames DEF FusionInv, PipelineOK, SeatsReturned
  <2>4. NoNewSend
    BY <1>0, <2>1 DEF NoNewSend
  <2>. QED BY <2>2, <2>3, <2>4 DEF FusionInv
<1>4. ASSUME Count, stage' = "judge"
      PROVE  FusionInv' /\ NoNewSend
  <2>1. /\ stage = "fanout" /\ SeatsReturned /\ \A c \in Calls : ~Active(c)
    BY <1>4, Quiet DEF Count, SeatsReturned, Returned
  <2>2. /\ calls' = [calls EXCEPT ![Judge] = Start(Judge)] /\ UNCHANGED <<expired, routable, reply>>
    BY <1>0, <1>4 DEF Count, Answer
  <2>3. TypeOK' /\ NothingLeftBehind' /\ EachCallOK'
    BY <1>0, <1>4, <2>1, <2>2, StageNames, LaunchesOne DEF Stages
  <2>4. PipelineOK'
    BY <1>0, <1>4, <2>1, <2>2, StageNames DEF PipelineOK, SeatsReturned
  <2>5. NoNewSend
    BY <1>0, <2>2 DEF NoNewSend
  <2>. QED BY <2>3, <2>4, <2>5 DEF FusionInv
<1>5. ASSUME NEW status \in {"200", "502", "aborted"}, NEW body \in Bodies,
             Answer(status, body), UNCHANGED <<calls, expired, routable>>,
             \A c \in Calls : ~Active(c),
             status = "aborted" => SeatsOff, status # "aborted" => SeatsReturned
      PROVE  FusionInv' /\ NoNewSend
  <2>1. TypeOK' /\ NothingLeftBehind' /\ EachCallOK'
    BY <1>5, Answers DEF Statuses
  <2>2. PipelineOK'
    BY <1>5 DEF PipelineOK, Answer, SeatsOff, SeatsReturned
  <2>. QED BY <1>5, <2>1, <2>2 DEF FusionInv, NoNewSend
<1>6. CASE NilSpec
  BY <1>0, <1>5, <1>6, Quiet DEF NilSpec, FusionInv, PipelineOK, Bodies
<1>7. CASE Reply
  <2>1. BodyOf(Result(Synth)) \in Bodies
    BY DEF BodyOf, Bodies
  <2>. QED BY <1>0, <1>5, <1>7, <2>1, Quiet DEF Reply, FusionInv, PipelineOK
<1>8. CASE Count /\ stage' # "judge"
  BY <1>0, <1>5, <1>8, Quiet DEF Count, Bodies, SeatsReturned, Returned
<1>. QED
  BY <1>1, <1>2, <1>3, <1>4, <1>6, <1>7, <1>8 DEF PipelineStep

LEMMA TheRestSteps ==
  ASSUME FusionInv,
         \/ \E status \in {"400", "404", "500"} : TurnAway(status)
         \/ Expire
         \/ HealthChanges
         \/ UNCHANGED vars
  PROVE  FusionInv' /\ NoNewSend
<1>1. ASSUME NEW status \in {"400", "404", "500"}, TurnAway(status)
      PROVE  FusionInv' /\ NoNewSend
  <2>1. /\ stage = "idle" /\ \A c \in Calls : ~Active(c)
        /\ Answer(status, "none") /\ UNCHANGED <<calls, expired, routable>>
    BY <1>1, Quiet DEF TurnAway
  <2>2. TypeOK' /\ NothingLeftBehind' /\ EachCallOK'
    BY <1>1, <2>1, Answers DEF Statuses, Bodies
  <2>3. PipelineOK'
    BY <1>1, <2>1 DEF FusionInv, PipelineOK, Answer, SeatsOff, SeatsReturned
  <2>. QED BY <2>1, <2>2, <2>3 DEF FusionInv, NoNewSend
<1>2. CASE Expire
  <2>1. TypeOK' /\ NothingLeftBehind' /\ PipelineOK' /\ NoNewSend
    BY <1>2 DEF Expire, FusionInv, TypeOK, NothingLeftBehind, Active, PipelineOK, SeatsReturned,
                SeatsOff, NoNewSend
  <2>2. EachCallOK'
    BY <1>2 DEF Expire, FusionInv, EachCallOK, CallOK
  <2>. QED BY <2>1, <2>2 DEF FusionInv
<1>3. CASE HealthChanges
  <2>1. /\ calls \in [Calls -> CallType] /\ routable' \in SUBSET Backends
        /\ stage' = stage /\ expired' = expired /\ reply' = reply
        /\ \A c \in Calls : calls'[c] =
             IF calls[c].pc \in {"off", "done"} THEN calls[c]
             ELSE [calls[c] EXCEPT !.steady = @ \cap routable']
    BY <1>3 DEF HealthChanges, FusionInv, TypeOK
  <2>2. \A c \in Calls : /\ calls'[c] \in CallType /\ calls'[c].pc = calls[c].pc
                         /\ calls'[c].next = calls[c].next /\ calls'[c].result = calls[c].result
                         /\ calls'[c].steady = IF calls[c].pc \in {"off", "done"} THEN calls[c].steady
                                               ELSE calls[c].steady \cap routable'
    <3>1. SUFFICES ASSUME NEW c \in Calls
                   PROVE  /\ calls'[c] \in CallType /\ calls'[c].pc = calls[c].pc
                          /\ calls'[c].next = calls[c].next /\ calls'[c].result = calls[c].result
                          /\ calls'[c].steady = IF calls[c].pc \in {"off", "done"}
                                                THEN calls[c].steady
                                                ELSE calls[c].steady \cap routable'
      OBVIOUS
    <3>. DEFINE k == calls[c]
                left == k.steady \cap routable'
    <3>2. k \in CallType /\ left \in SUBSET Backends
      BY <2>1 DEF CallType
    <3>3. calls'[c] = IF k.pc \in {"off", "done"} THEN k ELSE [k EXCEPT !.steady = left]
      BY <2>1
    <3>. HIDE DEF k, left
    <3>4. [k EXCEPT !.steady = left] \in CallType
      BY <3>2 DEF CallType
    <3>5. /\ [k EXCEPT !.steady = left].pc = k.pc /\ [k EXCEPT !.steady = left].next = k.next
          /\ [k EXCEPT !.steady = left].result = k.result
          /\ [k EXCEPT !.steady = left].steady = left
      BY <3>2 DEF CallType
    <3>. QED BY <3>2, <3>3, <3>4, <3>5 DEF k, left
  <2>3. calls' \in [Calls -> CallType]
    BY <1>3, <2>2 DEF HealthChanges
  <2>4. TypeOK' /\ NothingLeftBehind'
    BY <2>1, <2>2, <2>3 DEF FusionInv, TypeOK, NothingLeftBehind, Active, StageOf
  <2>5. EachCallOK'
    <3>1. SUFFICES ASSUME NEW c \in Calls PROVE CallOK(c, calls[c], expired, routable)'
      BY DEF EachCallOK
    <3>2. CallOK(c, calls[c], expired, routable)
      BY DEF FusionInv, EachCallOK
    <3>3. CASE calls[c].pc \in Progressing
      BY <2>1, <2>2, <3>2, <3>3 DEF CallOK, Progressing
    <3>4. CASE calls[c].pc \notin Progressing
      BY <2>1, <2>2, <3>2, <3>4 DEF CallOK, Progressing, CallType
    <3>. QED BY <3>3, <3>4
  <2>6. PipelineOK'
    BY <2>1, <2>2 DEF FusionInv, PipelineOK, SeatsReturned, SeatsOff, Calls
  <2>7. NoNewSend
    BY <2>2 DEF NoNewSend
  <2>. QED BY <2>4, <2>5, <2>6, <2>7 DEF FusionInv
<1>4. CASE UNCHANGED vars
  BY <1>4 DEF vars, FusionInv, TypeOK, NothingLeftBehind, Active, EachCallOK, CallOK, PipelineOK,
              SeatsReturned, SeatsOff, NoNewSend
<1>. QED BY <1>1, <1>2, <1>3, <1>4

LEMMA Stepping == FusionInv /\ [Next]_vars => FusionInv' /\ NoNewSend
BY ACallSteps, ThePipelineSteps, TheRestSteps DEF Next

LEMMA Invariance == Spec => []FusionInv
<1>1. FusionInv /\ [Next]_vars => FusionInv'
  BY Stepping
<1>. QED BY Initially, <1>1, PTL DEF Spec

-----------------------------------------------------------------------------
(* The variables of RunFusion and of its calls keep their types: a reply   *)
(* has one of the statuses the handlers write.                             *)
THEOREM FusionTypeCorrect == Spec => []TypeOK
<1>1. FusionInv => TypeOK
  BY DEF FusionInv
<1>. QED BY Invariance, <1>1, PTL

(* Whatever panel is asked, no call outlives the stage that waits for it   *)
(* (the WaitGroup of fanOut), and nothing is left at work when the request *)
(* has been answered.                                                      *)
THEOREM NothingLeftBehindTheorem == Spec => []NothingLeftBehind
<1>1. FusionInv => NothingLeftBehind
  BY DEF FusionInv
<1>. QED BY Invariance, <1>1, PTL

(* For chains of every length, before the deadline backendCaller gives up  *)
(* only if no backend of the chain was routable all along and unrefused.   *)
THEOREM NoFalseExhaustionTheorem == Spec => []NoFalseExhaustion
<1>1. FusionInv => NoFalseExhaustion
  BY DEF FusionInv, EachCallOK, CallOK, NoFalseExhaustion, Result
<1>. QED BY Invariance, <1>1, PTL

(* Late: the deadline passed before the synthesizer was asked; of a call   *)
(* that is made nevertheless nothing is sent, so it ends exhausted.        *)
CutOff(x) == x.pc = "walking" \/ (x.pc = "done" /\ x.result = "exhausted")

Late ==
  /\ expired
  /\ \/ stage \in {"deliberate", "fanout", "judge"}
     \/ stage = "synth" /\ CutOff(calls[Synth])
     \/ stage = "done" /\ reply.body \notin {"answer", "empty"}

LEMMA CutOffStays ==
  ASSUME FusionInv, NEW c \in Calls, expired, CutOff(calls[c]), CallStep(c)
  PROVE  CutOff(calls'[c])
<1>. DEFINE k == calls[c]
<1>1. k \in CallType /\ calls \in [Calls -> CallType]
  BY DEF FusionInv, TypeOK
<1>2. k.pc = "walking"
  BY CallAdvances DEF FusionInv, CutOff, Advanced, Progressing
<1>3. CASE Unhealthy(c)
  BY <1>1, <1>3 DEF Unhealthy, CutOff, Walking
<1>4. CASE RoundTripFails(c)
  <2>. DEFINE left == IF expired THEN k.steady ELSE k.steady \ {Candidate(c)}
  <2>1. calls'[c] = Walking(k.next + 1, left)
    BY <1>1, <1>4 DEF RoundTripFails
  <2>. HIDE DEF left
  <2>. QED BY <2>1 DEF CutOff, Walking
<1>5. CASE Exhausted(c)
  BY <1>1, <1>5 DEF Exhausted, Returns, Ended, CutOff
<1>. QED BY <1>2, <1>3, <1>4, <1>5 DEF CallStep, Send, Responds, Reads, ReadFails

LEMMA LateStays == FusionInv /\ Late /\ [Next]_vars => Late'
<1>. SUFFICES ASSUME FusionInv, Late, [Next]_vars PROVE Late'
  OBVIOUS
<1>1. /\ expired /\ stage \in {"deliberate", "fanout", "judge", "synth", "done"}
      /\ stage = "synth" => CutOff(calls[Synth])
      /\ stage = "done" => reply.body \notin {"answer", "empty"}
      /\ Synth \in Calls /\ calls \in [Calls -> CallType]
  BY DEF Late, FusionInv, TypeOK, Calls
<1>2. ASSUME NEW c \in Calls, CallStep(c) PROVE Late'
  <2>1. UNCHANGED <<stage, expired, reply>> /\ \A d \in Calls \ {c} : calls'[d] = calls[d]
    BY <1>1, <1>2, CallAdvances DEF FusionInv, Advanced, Moved
  <2>2. stage = "synth" => CutOff(calls'[Synth])
    BY <1>1, <1>2, <2>1, CutOffStays
  <2>. QED BY <1>1, <2>1, <2>2 DEF Late
<1>3. CASE FanOut
  BY <1>1, <1>3 DEF FanOut, Late
<1>4. CASE NilSpec
  BY <1>1, <1>4 DEF NilSpec, Answer, Late
<1>5. CASE Count
  BY <1>1, <1>5 DEF Count, Answer, Late
<1>6. CASE Synthesize
  <2>1. stage' = "synth" /\ calls'[Synth] = Start(Synth) /\ expired'
    BY <1>1, <1>6 DEF Synthesize
  <2>. QED BY <2>1 DEF Late, CutOff, Start, Walking
<1>7. CASE Reply
  <2>1. stage = "synth" /\ CutOff(calls[Synth]) /\ Returned(Synth)
    BY <1>1, <1>7 DEF Reply
  <2>2. Result(Synth) = "exhausted"
    BY <2>1 DEF CutOff, Returned, Result
  <2>3. BodyOf(Result(Synth)) = "placeholder"
    BY <2>2 DEF BodyOf
  <2>. QED BY <1>1, <1>7, <2>3 DEF Reply, Answer, Late
<1>8. CASE HealthChanges
  <2>1. UNCHANGED <<stage, expired, reply>>
    BY <1>8 DEF HealthChanges
  <2>2. CutOff(calls[Synth]) => CutOff(calls'[Synth])
    <3>. DEFINE k == calls[Synth]
                left == k.steady \cap routable'
    <3>1. k \in CallType
      BY <1>1
    <3>2. calls'[Synth] = IF k.pc \in {"off", "done"} THEN k ELSE [k EXCEPT !.steady = left]
      BY <1>1, <1>8 DEF HealthChanges
    <3>. HIDE DEF left
    <3>. QED BY <3>1, <3>2 DEF CutOff, CallType
  <2>. QED BY <1>1, <2>1, <2>2 DEF Late
<1>9. CASE UNCHANGED vars
  BY <1>1, <1>9 DEF vars, Late
<1>10. ~Begin /\ ~Expire /\ \A status \in {"400", "404", "500"} : ~TurnAway(status)
  BY <1>1 DEF Begin, Expire, TurnAway
<1>. QED BY <1>2, <1>3, <1>4, <1>5, <1>6, <1>7, <1>8, <1>9, <1>10 DEF Next, PipelineStep

(* Until it is answered a request has no reply. *)
Unanswered == stage # "done" => reply = NoReply

LEMMA UnansweredInvariant == Spec => []Unanswered
<1>1. Init => Unanswered
  BY DEF Init, Unanswered
<1>2. Unanswered /\ [Next]_vars => Unanswered'
  <2>. SUFFICES ASSUME Unanswered, [Next]_vars PROVE Unanswered'
    OBVIOUS
  <2>1. CASE Begin \/ Expire \/ HealthChanges \/ UNCHANGED vars
    BY <2>1 DEF Unanswered, Begin, Expire, HealthChanges, vars
  <2>2. CASE PipelineStep
    BY <2>2 DEF Unanswered, PipelineStep, FanOut, NilSpec, Count, Synthesize, Reply, Answer
  <2>3. ASSUME NEW c \in Calls, CallStep(c) PROVE Unanswered'
    BY <2>3 DEF Unanswered, CallStep, Unhealthy, Send, RoundTripFails, Responds, Reads, ReadFails,
                Exhausted
  <2>4. ASSUME NEW status, TurnAway(status) PROVE Unanswered'
    BY <2>4 DEF Unanswered, TurnAway, Answer
  <2>. QED BY <2>1, <2>2, <2>3, <2>4 DEF Next
<1>. QED BY <1>1, <1>2, PTL DEF Spec

(* A request whose deadline passes before its synthesizer is asked never   *)
(* gets a synthesis, for chains of any length and whatever answers come    *)
(* late.                                                                   *)
THEOREM NoLateSynthesisTheorem == Spec => NoLateSynthesis
<1>1. expired /\ stage \in {"deliberate", "fanout", "judge"} => Late
  BY DEF Late
<1>2. Unanswered /\ Late => reply.body \notin {"answer", "empty"}
  BY DEF Late, Unanswered, NoReply
<1>. QED BY <1>1, <1>2, LateStays, UnansweredInvariant, Invariance, PTL DEF Spec, NoLateSynthesis

-----------------------------------------------------------------------------
(* The refinement.  OpinionOf and OutcomeOf are the mapping's terms. *)
OpinionOf == [s \in Seats |-> Opinion(s)]

Stutters == OpinionOf' = OpinionOf /\ Outcome' = Outcome

LEMMA Outcomes ==
  ASSUME FusionInv
  PROVE  /\ stage \in {"idle", "deliberate", "fanout"} => Outcome = "open"
         /\ stage \in {"judge", "synth"} => Outcome = "agreed"
         /\ reply.status = "200" => Outcome = "agreed"
         /\ reply.status = "502" /\ stage = "done" => Outcome = "refused"
         /\ reply.status \in {"400", "404", "500", "aborted"} /\ stage = "done" => Outcome = "dropped"
<1>1. stage # "done" => reply.status = "none"
  BY DEF FusionInv, PipelineOK
<1>. QED BY <1>1 DEF Outcome

LEMMA CallRefines ==
  ASSUME FusionInv, NEW c \in Calls, CallStep(c)
  PROVE  Stutters \/ (c \in Seats /\ Promise!Settle(c))
<1>1. PICK x \in CallType : Advanced(c, x)
  BY CallAdvances DEF FusionInv
<1>2. /\ calls \in [Calls -> CallType] /\ calls[c].pc \in Progressing
      /\ calls' = [calls EXCEPT ![c] = x]
      /\ x.pc \in Progressing \cup {"done"}
      /\ stage' = stage /\ reply' = reply
  BY <1>1 DEF FusionInv, TypeOK, Advanced, Moved
<1>3. /\ calls'[c] = x /\ \A s \in Seats \ {c} : calls'[s] = calls[s]
      /\ Outcome' = Outcome
  BY <1>2 DEF Calls, Outcome
<1>4. \A s \in Seats \ {c} : Opinion(s)' = Opinion(s)
  BY <1>3 DEF Opinion, Returned, Result
<1>5. CASE c \notin Seats
  BY <1>3, <1>4, <1>5 DEF Stutters, OpinionOf
<1>6. CASE c \in Seats
  <2>1. stage = "fanout" /\ Outcome = "open"
    BY <1>2, <1>6, StageNames, Outcomes DEF FusionInv, NothingLeftBehind, Active, Progressing
  <2>2. Opinion(c) = "open"
    BY <1>2 DEF Opinion, Returned, Progressing
  <2>3. Opinion(c)' \in {"open", "given", "missing"}
    BY DEF Opinion
  <2>4. OpinionOf' = [OpinionOf EXCEPT ![c] = Opinion(c)']
    BY <1>4 DEF OpinionOf
  <2>5. CASE Opinion(c)' = "open"
    BY <1>3, <1>4, <2>2, <2>5 DEF Stutters, OpinionOf
  <2>6. CASE Opinion(c)' \in {"given", "missing"}
    BY <1>3, <1>6, <2>1, <2>2, <2>4, <2>6 DEF Promise!Settle, OpinionOf
  <2>. QED BY <2>3, <2>5, <2>6
<1>. QED BY <1>5, <1>6

LEMMA DropRefines ==
  ASSUME FusionInv, FusionInv', NEW status \in {"400", "404", "500", "aborted"},
         stage \in {"idle", "deliberate"}, Answer(status, "none"), UNCHANGED calls
  PROVE  Promise!Drop
<1>1. \A s \in Seats : Opinion(s) = "open" /\ Opinion(s)' = Opinion(s)
  BY DEF FusionInv, PipelineOK, SeatsOff, Opinion, Returned, Result
<1>2. Outcome = "open" /\ Outcome' = "dropped"
  <2>1. reply'.status = status /\ stage' = "done"
    BY DEF Answer
  <2>. QED BY <2>1, Outcomes DEF Outcome
<1>. QED BY <1>1, <1>2 DEF Promise!Drop, OpinionOf

LEMMA CountRefines ==
  ASSUME FusionInv, Count
  PROVE  Promise!Count
<1>1. /\ \A s \in Seats : calls[s].pc = "done" /\ calls'[s] = calls[s]
      /\ Outcome = "open"
  <2>1. stage = "fanout" /\ \A s \in Seats : calls[s].pc = "done"
    BY DEF Count, Returned
  <2>2. \A s \in Seats : calls'[s] = calls[s]
    BY StageNames DEF Count, Calls, FusionInv, TypeOK
  <2>. QED BY <2>1, <2>2, Outcomes
<1>2. \A s \in Seats : /\ Opinion(s)' = Opinion(s) /\ Opinion(s) # "open"
                       /\ Opinion(s) = "given" <=> Result(s) \in {"text", "null"}
  BY <1>1 DEF Opinion, Returned, Result
<1>3. Promise!Given = Valid /\ Promise!Settled
  BY <1>2 DEF Promise!Given, Promise!Settled, Valid
<1>4. Cardinality(Valid) \in Nat /\ Quorum \in Nat
  <2>1. IsFiniteSet(Valid) /\ Cardinality(Seats) \in Nat
    BY SeatsAssumption, FS_Subset, FS_CardinalityType DEF Valid
  <2>. QED BY <2>1, SeatsAssumption, FS_CardinalityType DEF Quorum
<1>5. ASSUME Cardinality(Valid) < Quorum PROVE Outcome' = "refused"
  <2>1. stage' = "done" /\ reply'.status = "502"
    BY <1>5 DEF Count, Answer
  <2>. QED BY <2>1 DEF Outcome
<1>6. ASSUME ~(Cardinality(Valid) < Quorum) PROVE Outcome' = "agreed"
  <2>1. stage' = "judge" /\ reply'.status = "none"
    BY <1>6 DEF Count, FusionInv, PipelineOK
  <2>. QED BY <2>1 DEF Outcome
<1>7. Outcome' = IF Cardinality(Valid) >= Quorum THEN "agreed" ELSE "refused"
  BY <1>4, <1>5, <1>6
<1>8. OpinionOf' = OpinionOf
  BY <1>2 DEF OpinionOf
<1>9. Outcome' = IF Promise!Given \in Quorums THEN "agreed" ELSE "refused"
  BY <1>3, <1>7 DEF Quorums, Valid
<1>. QED BY <1>1, <1>3, <1>8, <1>9 DEF Promise!Count, OpinionOf

LEMMA StepRefines ==
  ASSUME FusionInv, FusionInv', [Next]_vars
  PROVE  Promise!Next \/ Stutters
<1>1. ASSUME NEW c \in Calls, CallStep(c) PROVE Promise!Next \/ Stutters
  BY <1>1, CallRefines DEF Promise!Next
<1>2. ASSUME NEW status \in {"400", "404", "500"}, TurnAway(status) PROVE Promise!Next
  BY <1>2, DropRefines DEF TurnAway, Promise!Next
<1>3. CASE NilSpec
  BY <1>3, DropRefines DEF NilSpec, Promise!Next
<1>4. CASE Count
  BY <1>4, CountRefines DEF Promise!Next
<1>5. ASSUME \A s \in Seats : Opinion(s)' = Opinion(s), Outcome' = Outcome
      PROVE  Stutters
  BY <1>5 DEF Stutters, OpinionOf
<1>6. CASE Begin \/ Synthesize
  <2>1. \A s \in Seats : calls'[s] = calls[s]
    BY <1>6, StageNames DEF Begin, Synthesize, Calls, FusionInv, TypeOK
  <2>2. \A s \in Seats : Opinion(s)' = Opinion(s)
    BY <2>1 DEF Opinion, Returned, Result
  <2>3. Outcome' = Outcome
    BY <1>6 DEF Begin, Synthesize, Outcome
  <2>. QED BY <1>5, <2>2, <2>3
<1>7. CASE FanOut
  <2>1. \A s \in Seats : calls[s].pc = "off" /\ calls'[s].pc = "walking"
    BY <1>7, Starts DEF FanOut, FusionInv, PipelineOK, SeatsOff, Calls
  <2>2. \A s \in Seats : Opinion(s)' = Opinion(s)
    BY <2>1 DEF Opinion, Returned, Result
  <2>3. Outcome' = Outcome
    BY <1>7 DEF FanOut, Outcome
  <2>. QED BY <1>5, <2>2, <2>3
<1>8. CASE Reply
  <2>1. \A s \in Seats : Opinion(s)' = Opinion(s)
    BY <1>8 DEF Reply, Opinion, Returned, Result
  <2>2. Outcome = "agreed"
    BY <1>8, Outcomes DEF Reply
  <2>3. reply'.status = "200"
    BY <1>8 DEF Reply, Answer
  <2>4. Outcome' = "agreed"
    BY <2>3 DEF Outcome
  <2>. QED BY <1>5, <2>1, <2>2, <2>4
<1>9. CASE Expire \/ UNCHANGED vars
  BY <1>5, <1>9 DEF Expire, vars, Opinion, Returned, Result, Outcome
<1>10. CASE HealthChanges
  <2>1. \A s \in Seats : calls'[s].pc = calls[s].pc /\ calls'[s].result = calls[s].result
    BY <1>10 DEF HealthChanges, FusionInv, TypeOK, CallType, Calls
  <2>2. \A s \in Seats : Opinion(s)' = Opinion(s)
    BY <2>1 DEF Opinion, Returned, Result
  <2>3. Outcome' = Outcome
    BY <1>10 DEF HealthChanges, Outcome
  <2>. QED BY <1>5, <2>2, <2>3
<1>. QED
  BY <1>1, <1>2, <1>3, <1>4, <1>6, <1>7, <1>8, <1>9, <1>10 DEF Next, PipelineStep

(* The pipeline of RunFusion implements FusionPromise: the panel is        *)
(* counted once, after every seat has settled, and the request succeeds    *)
(* exactly when Quorum of them gave an opinion.                            *)
THEOREM FusionRefinement == Spec => KeepsPromise
<1>1. Init => Promise!Init
  <2>. SUFFICES ASSUME Init PROVE Promise!Init
    OBVIOUS
  <2>1. \A s \in Seats : Opinion(s) = "open"
    BY DEF Init, Opinion, Returned, Off, Calls
  <2>2. Outcome = "open"
    BY DEF Init, Outcome, NoReply
  <2>. QED BY <2>1, <2>2 DEF Promise!Init
<1>2. FusionInv /\ FusionInv' /\ [Next]_vars => [Promise!Next]_(Promise!promiseVars)
  BY StepRefines DEF Stutters, OpinionOf, Promise!promiseVars
<1>. QED BY Invariance, <1>1, <1>2, PTL DEF Spec, KeepsPromise, Promise!Spec

-----------------------------------------------------------------------------
(* A fusion request cannot be held up: once its context is done nobody is  *)
(* waited for, and no call of backendCaller goes on for ever.              *)

(* The calls of the stage have been started, and walk no further than the  *)
(* end of their chain.                                                     *)
Launched == \A c \in Calls :
  /\ stage = StageOf(c) => calls[c].pc # "off"
  /\ calls[c].pc = "walking" => calls[c].next <= Len(Chain[c]) + 1

(* How many steps a call has left at most: three for each backend it has   *)
(* not left behind, and the failure.                                       *)
CallWork(c, x) ==
  LET left == Len(Chain[c]) + 1 - x.next IN
  CASE x.pc = "walking" -> 3 * left + 1
    [] x.pc = "sent" -> 3 * left
    [] x.pc = "reading" -> 3 * left - 1
    [] OTHER -> 0

(* Every step of a call leaves it less to do, and nothing gives it more.   *)
CallsShrink ==
  [][\A c \in Calls : Active(c) =>
       /\ CallWork(c, calls[c]) \in Nat \ {0}
       /\ CallWork(c, calls'[c]) \in 0..CallWork(c, calls[c])
       /\ CallStep(c) => CallWork(c, calls'[c]) < CallWork(c, calls[c])]_vars

(* The guards of Moves, and those of PipelineStep.                         *)
CanMove(c) ==
  \/ AtCandidate(c) /\ Candidate(c) \notin routable
  \/ AtCandidate(c) /\ Candidate(c) \in routable /\ ~expired
  \/ AtCandidate(c) /\ Candidate(c) \in routable /\ expired
  \/ calls[c].pc = "walking" /\ calls[c].next > Len(Chain[c])
  \/ calls[c].pc \in {"sent", "reading"} /\ expired
CanGoOn ==
  \/ stage = "deliberate" /\ Returned(Deliberator)
  \/ stage = "fanout" /\ \A s \in Seats : Returned(s)
  \/ stage = "judge" /\ Returned(Judge)
  \/ stage = "synth" /\ Returned(Synth)

(* A request that has begun waits for nothing but a backend, and for that  *)
(* no longer than its context lasts.                                       *)
WaitsForBackendsOnly ==
  stage \notin {"idle", "done"} =>
    \/ CanGoOn
    \/ \E c \in Calls : stage = StageOf(c) /\ CanMove(c)
    \/ ~expired /\ \E c \in Calls : stage = StageOf(c) /\ calls[c].pc \in {"sent", "reading"}

(* A step of a call, and how it brings the call on.                        *)
LEMMA CallDescends ==
  ASSUME FusionInv, Launched, NEW c \in Calls, CallStep(c)
  PROVE  /\ CallWork(c, calls'[c]) \in Nat /\ CallWork(c, calls'[c]) < CallWork(c, calls[c])
         /\ calls'[c].pc # "off"
         /\ calls'[c].pc = "walking" => calls'[c].next <= Len(Chain[c]) + 1
         /\ \A d \in Calls \ {c} : calls'[d] = calls[d]
         /\ stage' = stage
<1>. DEFINE k == calls[c]
            n == Len(Chain[c])
            Goal == /\ CallWork(c, calls'[c]) \in Nat /\ CallWork(c, calls'[c]) < CallWork(c, k)
                    /\ calls'[c].pc # "off"
                    /\ calls'[c].pc = "walking" => calls'[c].next <= n + 1
<1>1. /\ k \in CallType /\ k.next \in Nat \ {0} /\ n \in Nat /\ calls \in [Calls -> CallType]
      /\ k.pc \in {"sent", "reading"} => k.next <= n
      /\ k.pc = "walking" => k.next <= n + 1
  BY CallFields DEF FusionInv, EachCallOK, CallOK, TypeOK, Launched
<1>2. PICK x \in CallType : Advanced(c, x)
  BY CallAdvances DEF FusionInv
<1>3. /\ \A d \in Calls \ {c} : calls'[d] = calls[d]
      /\ stage' = stage
      /\ k.pc \in Progressing
  BY <1>1, <1>2 DEF Advanced, Moved
<1>4. ASSUME Unhealthy(c) \/ RoundTripFails(c) PROVE Goal
  <2>1. /\ k.pc \in {"walking", "sent"} /\ k.next <= n
        /\ calls'[c].pc = "walking" /\ calls'[c].next = k.next + 1
    BY <1>1, <1>4 DEF Unhealthy, RoundTripFails, AtCandidate, Walking
  <2>2. CallWork(c, calls'[c]) = 3 * (n + 1 - (k.next + 1)) + 1
    BY <2>1 DEF CallWork
  <2>3. CASE k.pc = "walking"
    <3>1. CallWork(c, k) = 3 * (n + 1 - k.next) + 1
      BY <2>3 DEF CallWork
    <3>. HIDE DEF k, n
    <3>. QED BY <1>1, <2>1, <2>2, <3>1
  <2>4. CASE k.pc = "sent"
    <3>1. CallWork(c, k) = 3 * (n + 1 - k.next)
      BY <2>4 DEF CallWork
    <3>. HIDE DEF k, n
    <3>. QED BY <1>1, <2>1, <2>2, <3>1
  <2>. QED BY <2>1, <2>3, <2>4
<1>5. ASSUME Send(c) PROVE Goal
  <2>1. /\ k.pc = "walking" /\ k.next <= n
        /\ calls'[c].pc = "sent" /\ calls'[c].next = k.next
    BY <1>1, <1>5 DEF Send, AtCandidate, CallType
  <2>2. CallWork(c, calls'[c]) = 3 * (n + 1 - k.next) /\ CallWork(c, k) = 3 * (n + 1 - k.next) + 1
    BY <2>1 DEF CallWork
  <2>. HIDE DEF k, n
  <2>. QED BY <1>1, <2>1, <2>2
<1>6. ASSUME Responds(c) PROVE Goal
  <2>1. /\ k.pc = "sent" /\ k.next <= n
        /\ calls'[c].pc = "reading" /\ calls'[c].next = k.next
    BY <1>1, <1>6 DEF Responds, CallType
  <2>2. CallWork(c, calls'[c]) = 3 * (n + 1 - k.next) - 1 /\ CallWork(c, k) = 3 * (n + 1 - k.next)
    BY <2>1 DEF CallWork
  <2>. HIDE DEF k, n
  <2>. QED BY <1>1, <2>1, <2>2
<1>7. ASSUME NEW result, Returns(c, result) PROVE Goal
  <2>1. calls'[c].pc = "done"
    BY <1>1, <1>7 DEF Returns, Ended
  <2>2. CallWork(c, calls'[c]) = 0
    BY <2>1 DEF CallWork
  <2>3. k.pc = "walking" => CallWork(c, k) = 3 * (n + 1 - k.next) + 1
    BY DEF CallWork
  <2>4. k.pc = "sent" => CallWork(c, k) = 3 * (n + 1 - k.next)
    BY DEF CallWork
  <2>5. k.pc = "reading" => CallWork(c, k) = 3 * (n + 1 - k.next) - 1
    BY DEF CallWork
  <2>. HIDE DEF k, n
  <2>. QED BY <1>1, <1>3, <2>1, <2>2, <2>3, <2>4, <2>5 DEF Progressing
<1>. QED BY <1>3, <1>4, <1>5, <1>6, <1>7 DEF CallStep, Reads, ReadFails, Exhausted

(* What is not a step of a call leaves every call in progress where it is. *)
LEMMA ActiveKept ==
  ASSUME FusionInv, NEW c \in Calls, Active(c),
         [Next]_vars, \A d \in Calls : ~CallStep(d)
  PROVE  calls'[c].pc = calls[c].pc /\ calls'[c].next = calls[c].next
<1>0. calls \in [Calls -> CallType] /\ calls[c] \in CallType
  BY DEF FusionInv, TypeOK
<1>1. ~Begin /\ ~PipelineStep
  BY Quiet DEF Begin, PipelineStep, FanOut, NilSpec, Count, Synthesize, Reply, SeatsReturned, Returned
<1>2. ASSUME HealthChanges PROVE calls'[c].pc = calls[c].pc /\ calls'[c].next = calls[c].next
  BY <1>0, <1>2 DEF HealthChanges, CallType
<1>3. ASSUME (\E status \in {"400", "404", "500"} : TurnAway(status)) \/ Expire \/ UNCHANGED vars
      PROVE  calls'[c] = calls[c]
  BY <1>3 DEF TurnAway, Expire, vars
<1>. QED BY <1>1, <1>2, <1>3 DEF Next

LEMMA LaunchedInvariant == Spec => []Launched
<1>1. Init => Launched
  BY StageNames DEF Init, Launched, Off
<1>2. FusionInv /\ Launched /\ [Next]_vars => Launched'
  <2>. SUFFICES ASSUME FusionInv, Launched, [Next]_vars PROVE Launched'
    OBVIOUS
  <2>0. /\ calls \in [Calls -> CallType] /\ \A c \in Calls : Len(Chain[c]) \in Nat
        /\ \A c \in Calls : Start(c).pc = "walking" /\ Start(c).next = 1
        /\ Seats \subseteq Calls /\ Deliberator \in Calls /\ Judge \in Calls /\ Synth \in Calls
    BY CallFields DEF FusionInv, TypeOK, Start, Walking, Calls
  <2>1. ASSUME NEW d \in Calls, CallStep(d) PROVE Launched'
    BY <2>1, CallDescends DEF Launched, StageOf
  <2>2. ASSUME NEW S \in SUBSET Calls, NEW to, \A c \in Calls : StageOf(c) = to => c \in S,
               calls' = [c \in Calls |-> IF c \in S THEN Start(c) ELSE calls[c]], stage' = to
        PROVE  Launched'
    BY <2>0, <2>2 DEF Launched, StageOf
  <2>3. ASSUME NEW d \in Calls, calls' = [calls EXCEPT ![d] = Start(d)], stage' = StageOf(d),
               \A c \in Calls : StageOf(c) = StageOf(d) => c = d
        PROVE  Launched'
    <3>. DEFINE S == {d}
                to == StageOf(d)
    <3>1. calls' = [c \in Calls |-> IF c \in S THEN Start(c) ELSE calls[c]]
      BY <2>0, <2>3
    <3>2. S \in SUBSET Calls /\ (\A c \in Calls : StageOf(c) = to => c \in S) /\ stage' = to
      BY <2>3
    <3>. HIDE DEF S, to
    <3>. QED BY <2>2, <3>1, <3>2
  <2>4. CASE Begin \/ Synthesize \/ FanOut
    <3>1. ASSUME Begin PROVE Launched'
      <4>1. stage' = StageOf(Deliberator) /\ calls' = [calls EXCEPT ![Deliberator] = Start(Deliberator)]
        BY <3>1, StageNames DEF Begin
      <4>2. \A c \in Calls : StageOf(c) = StageOf(Deliberator) => c = Deliberator
        BY StageNames
      <4>. QED BY <2>0, <2>3, <4>1, <4>2
    <3>2. ASSUME Synthesize PROVE Launched'
      <4>1. stage' = StageOf(Synth) /\ calls' = [calls EXCEPT ![Synth] = Start(Synth)]
        BY <3>2, StageNames DEF Synthesize
      <4>2. \A c \in Calls : StageOf(c) = StageOf(Synth) => c = Synth
        BY StageNames
      <4>. QED BY <2>0, <2>3, <4>1, <4>2
    <3>3. FanOut => Launched'
      BY <2>0, <2>2, StageNames DEF FanOut
    <3>. QED BY <2>4, <3>1, <3>2, <3>3
  <2>5. ASSUME NEW status, NEW body, Answer(status, body), UNCHANGED calls PROVE Launched'
    BY <2>5, StageNames DEF Answer, Launched, StageOf
  <2>6. CASE Count
    <3>1. ASSUME stage' = "judge", calls' = [calls EXCEPT ![Judge] = Start(Judge)] PROVE Launched'
      <4>1. stage' = StageOf(Judge) /\ \A c \in Calls : StageOf(c) = StageOf(Judge) => c = Judge
        BY <3>1, StageNames
      <4>. QED BY <2>0, <2>3, <3>1, <4>1
    <3>. QED BY <2>5, <2>6, <3>1 DEF Count
  <2>7. CASE NilSpec \/ Reply \/ \E status \in {"400", "404", "500"} : TurnAway(status)
    BY <2>5, <2>7 DEF NilSpec, Reply, TurnAway
  <2>8. CASE Expire \/ UNCHANGED vars
    BY <2>8 DEF Expire, vars, Launched, StageOf
  <2>9. CASE HealthChanges
    <3>1. \A c \in Calls : calls'[c].pc = calls[c].pc /\ calls'[c].next = calls[c].next
      BY <2>0, <2>9 DEF HealthChanges, CallType
    <3>. QED BY <2>9, <3>1 DEF HealthChanges, Launched, StageOf
  <2>. QED BY <2>1, <2>4, <2>6, <2>7, <2>8, <2>9 DEF Next, PipelineStep
<1>. QED BY <1>1, <1>2, Invariance, PTL DEF Spec

(* Nothing but a backend, and that only before the deadline, holds up a    *)
(* request that has begun: no stage waits for a call that is over, or was  *)
(* never made.                                                             *)
THEOREM WaitsForBackendsTheorem == Spec => []WaitsForBackendsOnly
<1>1. FusionInv /\ Launched => WaitsForBackendsOnly
  <2>. SUFFICES ASSUME FusionInv, Launched, stage \notin {"idle", "done"}, ~CanGoOn
                PROVE  \E c \in Calls : /\ stage = StageOf(c)
                                        /\ \/ CanMove(c)
                                           \/ ~expired /\ calls[c].pc \in {"sent", "reading"}
    BY DEF WaitsForBackendsOnly
  <2>1. PICK c \in Calls : stage = StageOf(c) /\ ~Returned(c)
    <3>1. stage \in {"deliberate", "fanout", "judge", "synth"}
      BY DEF FusionInv, TypeOK, Stages
    <3>. QED BY <3>1, StageNames DEF CanGoOn, Calls
  <2>2. calls[c].pc \in {"walking", "sent", "reading"}
    BY <2>1 DEF FusionInv, TypeOK, CallType, Launched, Returned
  <2>3. calls[c].next \in Nat /\ Len(Chain[c]) \in Nat /\ expired \in BOOLEAN
    BY CallFields DEF FusionInv
  <2>4. calls[c].pc = "walking" => AtCandidate(c) \/ calls[c].next > Len(Chain[c])
    BY <2>3 DEF AtCandidate
  <2>5. CanMove(c) \/ (~expired /\ calls[c].pc \in {"sent", "reading"})
    BY <2>2, <2>3, <2>4 DEF CanMove
  <2>. QED BY <2>1, <2>5
<1>. QED BY <1>1, Invariance, LaunchedInvariant, PTL

(* A call takes at most 3 * n + 1 steps over a chain of n backends,        *)
(* whatever the health checker, the deadline and the other seats do.       *)
THEOREM CallsShrinkTheorem == Spec => CallsShrink
<1>. DEFINE Less(c) ==
       /\ CallWork(c, calls[c]) \in Nat \ {0}
       /\ CallWork(c, calls'[c]) \in 0..CallWork(c, calls[c])
       /\ CallStep(c) => CallWork(c, calls'[c]) < CallWork(c, calls[c])
<1>1. ASSUME FusionInv, Launched, [Next]_vars, NEW c \in Calls, Active(c) PROVE Less(c)
  <2>1. CallWork(c, calls[c]) \in Nat \ {0}
    <3>. DEFINE k == calls[c]
                n == Len(Chain[c])
    <3>1. /\ k.next \in Nat /\ n \in Nat
          /\ k.pc \in {"sent", "reading"} => k.next <= n
          /\ k.pc = "walking" => k.next <= n + 1
      BY <1>1, CallFields DEF FusionInv, EachCallOK, CallOK, Launched
    <3>2. k.pc = "walking" => CallWork(c, k) = 3 * (n + 1 - k.next) + 1
      BY DEF CallWork
    <3>3. k.pc = "sent" => CallWork(c, k) = 3 * (n + 1 - k.next)
      BY DEF CallWork
    <3>4. k.pc = "reading" => CallWork(c, k) = 3 * (n + 1 - k.next) - 1
      BY DEF CallWork
    <3>5. k.pc \in {"walking", "sent", "reading"}
      BY <1>1 DEF Active
    <3>. HIDE DEF k, n
    <3>6. CallWork(c, k) \in Nat \ {0}
      BY <3>1, <3>2, <3>3, <3>4, <3>5
    <3>. QED BY <3>6 DEF k
  <2>2. CASE CallStep(c)
    BY <1>1, <2>1, <2>2, CallDescends
  <2>3. CASE ~CallStep(c)
    <3>1. calls'[c].pc = calls[c].pc /\ calls'[c].next = calls[c].next
      <4>1. ASSUME NEW d \in Calls, CallStep(d) PROVE calls'[c] = calls[c]
        BY <1>1, <2>3, <4>1, CallDescends
      <4>. QED BY <1>1, <4>1, ActiveKept
    <3>2. CallWork(c, calls'[c]) = CallWork(c, calls[c])
      BY <3>1 DEF CallWork
    <3>. QED BY <2>1, <2>3, <3>2
  <2>. QED BY <2>2, <2>3
<1>2. FusionInv /\ Launched /\ [Next]_vars => [\A c \in Calls : Active(c) => Less(c)]_vars
  BY <1>1
<1>. QED BY <1>2, Invariance, LaunchedInvariant, PTL DEF Spec, CallsShrink
=============================================================================
