--------------------------- MODULE HealthChecker ---------------------------
(***************************************************************************)
(* The gateway's background health checker (internal/gateway/health.go).   *)
(*                                                                         *)
(* A ticker starts one probe goroutine per configured backend.  A probe    *)
(* asks the backend's health endpoint without holding any lock and applies *)
(* its verdict under hc.mu some time later, so verdicts of several rounds  *)
(* may be applied in any order and on either side of a configuration       *)
(* reload.  Routing (IsHealthy), the admin page (ServeHTTP) and the        *)
(* Prometheus gauge read what the probes left behind.                      *)
(***************************************************************************)
EXTENDS Integers, FiniteSets

CONSTANTS
  Entries,     \* possible [[backends]] entries: records with .name, .url, .expectedDown
  Configs,     \* the configurations the gateway may start with or reload
  Threshold,   \* hc.threshold: consecutive failures that confirm unhealthiness
  FailureCap,  \* bound on the failure counter, which only Threshold is compared with
  Overlap,     \* bound on the rounds whose probes are in flight together
  Conditions   \* the conditions each backend server may be in

NamesIn(entries) == {e.name : e \in entries}
Names == NamesIn(Entries)
Urls  == {e.url : e \in Entries}

(* What a backend server does with the calls it gets.  "up" answers them;  *)
(* "garbled" answers below 500, and "failing" 5xx, with JSON that is no    *)
(* chat completion, an error object say; "foreign" and "broken" do so with *)
(* a body of another content type; "down" refuses, resets or times out.    *)
AllConditions == {"up", "garbled", "foreign", "failing", "broken", "down"}

ASSUME ConfigsAssumption    == Configs \subseteq SUBSET Entries
ASSUME ThresholdAssumption  == Threshold \in Nat \ {0}
ASSUME FailureCapAssumption == FailureCap \in Nat /\ FailureCap >= Threshold
ASSUME OverlapAssumption    == Overlap \in Nat \ {0}
ASSUME ConditionsAssumption == Conditions \in [Urls -> SUBSET AllConditions]

VARIABLES
  cfg,      \* hc.cfg: the set of backend entries in force
  states,   \* hc.states: backend name -> its state and failure count
  probes,   \* the checkOne goroutines between their GET and hc.mu
  round,    \* which of the Overlap rounds the next tick starts
  gauge,    \* hivemind_backend_health{backend}: "unset", "one" or "zero"
  cond      \* the condition of each backend server

healthVars == <<cfg, states, probes, round, gauge, cond>>

BackendStates == {"unknown", "healthy", "unhealthy"}
Fresh == [state |-> "unknown", failures |-> 0]

TypeOK ==
  /\ cfg \in SUBSET Entries
  /\ DOMAIN states \subseteq Names
  /\ states \in [DOMAIN states -> [state : BackendStates, failures : 0..FailureCap]]
  /\ probes \subseteq [entry : Entries, slot : 0..(Overlap - 1), res : {"sent", "ok", "bad"}]
  /\ round \in 0..(Overlap - 1)
  /\ gauge \in [Names -> {"unset", "one", "zero"}]
  /\ cond \in [Urls -> AllConditions] /\ \A u \in Urls : cond[u] \in Conditions[u]

-----------------------------------------------------------------------------
(* NewHealthChecker and SetMetrics, before the first tick. *)
Init ==
  /\ cfg \in Configs
  /\ states = [n \in NamesIn(cfg) |-> Fresh]
  /\ probes = {}
  /\ round = 0
  /\ gauge = [n \in Names |-> "unset"]
  /\ cond \in {c \in [Urls -> AllConditions] : \A u \in Urls : c[u] \in Conditions[u]}

(* Mutant: only backends without a verdict are probed. *)
CheckAllUnknown ==
  /\ \A p \in probes : p.slot # round
  /\ probes' = probes \cup {[entry |-> e, slot |-> round, res |-> "sent"] :
                             e \in {f \in cfg : states[f.name].state = "unknown"}}
  /\ round' = (round + 1) % Overlap
  /\ UNCHANGED <<cfg, states, gauge, cond>>

(* One tick of loop: a goroutine per entry of the snapshot of hc.cfg.  The *)
(* client's timeout is shorter than Overlap intervals, so the round that   *)
(* used this slot has been applied.                                        *)
CheckAll ==
  /\ \A p \in probes : p.slot # round
  /\ probes' = probes \cup {[entry |-> e, slot |-> round, res |-> "sent"] : e \in cfg}
  /\ round' = (round + 1) % Overlap
  /\ UNCHANGED <<cfg, states, gauge, cond>>

(* err == nil && resp.StatusCode < 500 *)
ProbeOk(c) == c \in {"up", "garbled", "foreign"}

(* The GET of checkOne returns; hc.mu is not held. *)
ProbeAnswered(p) ==
  /\ p.res = "sent"
  /\ probes' = (probes \ {p}) \cup
       {[p EXCEPT !.res = IF ProbeOk(cond[p.entry.url]) THEN "ok" ELSE "bad"]}
  /\ UNCHANGED <<cfg, states, round, gauge, cond>>

Succeeded == [state |-> "healthy", failures |-> 0]

(* Mutants: the count runs down; the verdict comes one failure late. *)
FailedDown(s) == [s EXCEPT !.failures = @ - 1]
FailedLate(s) ==
  LET f == IF s.failures < FailureCap THEN s.failures + 1 ELSE s.failures
  IN  [state |-> IF f > Threshold THEN "unhealthy" ELSE s.state, failures |-> f]

(* s.failures++ and, at the threshold, the verdict. *)
Failed(s) ==
  LET f == IF s.failures < FailureCap THEN s.failures + 1 ELSE s.failures
  IN  [state |-> IF f >= Threshold THEN "unhealthy" ELSE s.state, failures |-> f]

(* Mutant: a success keeps the count. *)
JudgedKeepingCount(s, res) ==
  IF res = "ok" THEN [s EXCEPT !.state = "healthy"] ELSE Failed(s)

Judged(s, res) == IF res = "ok" THEN Succeeded ELSE Failed(s)

(* Mutant: the gauge is only ever set on a success. *)
GaugeForSuccess(s, res, old) == IF res = "ok" THEN "one" ELSE old

(* SetBackendHealth is called on a success and on a confirmed failure. *)
GaugeFor(s, res, old) ==
  IF res = "ok" THEN "one" ELSE IF Failed(s).failures >= Threshold THEN "zero" ELSE old

(* The critical section of checkOne; an entry removed meanwhile is left alone. *)
ProbeApplied(p) ==
  LET n == p.entry.name IN
  /\ p.res # "sent"
  /\ probes' = probes \ {p}
  /\ IF n \in DOMAIN states
     THEN /\ states' = [states EXCEPT ![n] = Judged(states[n], p.res)]
          /\ gauge' = [gauge EXCEPT ![n] = GaugeFor(states[n], p.res, gauge[n])]
     ELSE UNCHANGED <<states, gauge>>
  /\ UNCHANGED <<cfg, round, cond>>

(* Mutant: a reload starts everything afresh. *)
RefreshedAfresh(old, entries) == [n \in NamesIn(entries) |-> Fresh]

(* Known names keep their entry, new ones start unknown, the rest goes. *)
Refreshed(old, entries) ==
  [n \in NamesIn(entries) |-> IF n \in DOMAIN old THEN old[n] ELSE Fresh]

UpdateConfig(new) ==
  /\ cfg' = new
  /\ states' = Refreshed(states, new)
  /\ UNCHANGED <<probes, round, gauge, cond>>

(* A backend server changes condition: the environment, not the gateway. *)
ServerChanges(u) ==
  /\ \E c \in Conditions[u] \ {cond[u]} : cond' = [cond EXCEPT ![u] = c]
  /\ UNCHANGED <<cfg, states, probes, round, gauge>>

Probing == \E p \in probes : ProbeAnswered(p) \/ ProbeApplied(p)

Next ==
  \/ CheckAll
  \/ \E p \in probes : ProbeAnswered(p)
  \/ \E p \in probes : ProbeApplied(p)
  \/ \E new \in Configs : UpdateConfig(new)
  \/ \E u \in Urls : ServerChanges(u)

Spec == Init /\ [][Next]_healthVars

(* The ticker never stops, a GET ends at the latest by the client's 5 s    *)
(* timeout and hc.mu is never held across a call: probing is fair.  What   *)
(* servers do and when an operator reloads is not.                         *)
FairSpec == Spec /\ WF_healthVars(CheckAll) /\ WF_healthVars(Probing)

-----------------------------------------------------------------------------
(* IsHealthy: what the router asks. *)
IsHealthy(n) == n \in DOMAIN states /\ states[n].state # "unhealthy"

(* The status field of ServeHTTP.  The code indexes states with every      *)
(* configured name and dereferences the result.                            *)
HealthStatus ==
  IF \E e \in cfg : states[e.name].state = "unhealthy" /\ ~e.expectedDown
  THEN "degraded" ELSE "ok"

(* Every configured backend has an entry and no other name has one.        *)
CfgCovered == DOMAIN states = NamesIn(cfg)

(* Whatever order probes of different rounds are applied in and however    *)
(* often the configuration is swapped meanwhile, the page of ServeHTTP     *)
(* never dereferences a missing entry, a probe in flight revives no        *)
(* removed backend, and a backend is out of rotation exactly when its run  *)
(* of failures has reached the threshold.                                  *)
VerdictFromFailures ==
  /\ CfgCovered
  /\ \A n \in NamesIn(cfg) : states[n].state = "unhealthy" <=> states[n].failures >= Threshold

(* While a backend has a verdict and is configured, the exported gauge     *)
(* shows that verdict, even after its entry was dropped and added again.   *)
GaugeShowsVerdict ==
  \A n \in DOMAIN states :
    /\ states[n].state = "healthy" => gauge[n] = "one"
    /\ states[n].state = "unhealthy" => gauge[n] = "zero"

(* Only a successful probe or its removal returns a backend to rotation:   *)
(* neither a reload that keeps the backend nor a late failure does.        *)
RecoveryNeedsSuccess ==
  [][\A n \in DOMAIN states \cap DOMAIN states' :
       states[n].state = "unhealthy" /\ states'[n].state # "unhealthy"
         => \E p \in probes \ probes' : p.entry.name = n /\ p.res = "ok"]_healthVars

(* e is the only configured entry of its name: nothing forbids duplicates. *)
Sole(e) == e \in cfg /\ \A f \in cfg : f.name = e.name => f = e

(* Once a configured backend stays up under an unambiguous entry, its      *)
(* verdict becomes and stays healthy, stale probes notwithstanding; once   *)
(* it stays down it is taken out of rotation for good.                     *)
VerdictSettles ==
  \A e \in Entries :
    /\ <>[](Sole(e) /\ ProbeOk(cond[e.url]))
         => <>[](IsHealthy(e.name) /\ states[e.name].state = "healthy")
    /\ <>[](Sole(e) /\ ~ProbeOk(cond[e.url])) => <>[]~IsHealthy(e.name)

(* When every configured backend that is not expected to be down stays up, *)
(* the admin page ends up reporting "ok".                                  *)
PageRecovers ==
  \A c \in Configs :
    <>[](cfg = c /\ \A e \in c : Sole(e) /\ (e.expectedDown \/ ProbeOk(cond[e.url])))
      => <>[](HealthStatus = "ok")
=============================================================================
