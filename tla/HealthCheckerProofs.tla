------------------------ MODULE HealthCheckerProofs ------------------------
(* What HealthChecker keeps true for every fleet, configuration set,       *)
(* threshold and number of overlapping rounds.                             *)
EXTENDS HealthChecker, TLAPS

(* The names of a subset of the entries are names. *)
LEMMA NamesInMonotone ==
  ASSUME NEW S \in SUBSET Entries
  PROVE  NamesIn(S) \subseteq Names
  BY DEF NamesIn, Names

(* A failed probe keeps an entry well-formed and ties its verdict to its   *)
(* count, provided the verdict agreed with the count before.               *)
LEMMA FailedEntry ==
  ASSUME NEW s \in [state : BackendStates, failures : 0..FailureCap],
         s.state = "unhealthy" <=> s.failures >= Threshold
  PROVE  /\ Failed(s) \in [state : BackendStates, failures : 0..FailureCap]
         /\ Failed(s).state = "unhealthy" <=> Failed(s).failures >= Threshold
         /\ s.state = "unhealthy" => Failed(s).state = "unhealthy"
         /\ Failed(s).state # "unhealthy" => Failed(s).state = s.state
  BY ThresholdAssumption, FailureCapAssumption DEF Failed, BackendStates

(* The same for a probe of either outcome. *)
LEMMA JudgedEntry ==
  ASSUME NEW s \in [state : BackendStates, failures : 0..FailureCap],
         s.state = "unhealthy" <=> s.failures >= Threshold,
         NEW res
  PROVE  /\ Judged(s, res) \in [state : BackendStates, failures : 0..FailureCap]
         /\ Judged(s, res).state = "unhealthy" <=> Judged(s, res).failures >= Threshold
         /\ res # "ok" /\ s.state = "unhealthy" => Judged(s, res).state = "unhealthy"
<1>1. CASE res = "ok"
  BY <1>1, ThresholdAssumption, FailureCapAssumption DEF Judged, Succeeded, BackendStates
<1>2. CASE res # "ok"
  BY <1>2, FailedEntry DEF Judged
<1>. QED BY <1>1, <1>2

(* The inductive invariant: the verdicts and gauges are only related       *)
(* through the failure counts, so the three are carried together.          *)
HealthInv == TypeOK /\ CfgCovered /\ VerdictFromFailures /\ GaugeShowsVerdict

LEMMA InitHealthInv == Init => HealthInv
<1>. SUFFICES ASSUME Init PROVE HealthInv
  OBVIOUS
<1>1. cfg \in SUBSET Entries /\ NamesIn(cfg) \subseteq Names
  BY ConfigsAssumption, NamesInMonotone DEF Init
<1>2. Fresh \in [state : BackendStates, failures : 0..FailureCap]
  BY FailureCapAssumption DEF Fresh, BackendStates
<1>3. TypeOK
  BY <1>1, <1>2, OverlapAssumption DEF Init, TypeOK
<1>4. CfgCovered /\ VerdictFromFailures /\ GaugeShowsVerdict
  BY ThresholdAssumption DEF Init, CfgCovered, VerdictFromFailures, GaugeShowsVerdict, Fresh
<1>. QED BY <1>3, <1>4 DEF HealthInv

LEMMA CheckAllInv == HealthInv /\ CheckAll => HealthInv'
<1>. SUFFICES ASSUME HealthInv, CheckAll PROVE HealthInv'
  OBVIOUS
<1>1. round' \in 0..(Overlap - 1)
  BY OverlapAssumption DEF CheckAll, HealthInv, TypeOK
<1>2. TypeOK'
  BY <1>1 DEF CheckAll, HealthInv, TypeOK
<1>. QED
  BY <1>2 DEF CheckAll, HealthInv, CfgCovered, VerdictFromFailures, GaugeShowsVerdict

LEMMA AnsweredInv ==
  ASSUME HealthInv, NEW p \in probes, ProbeAnswered(p)
  PROVE  HealthInv'
<1>1. [p EXCEPT !.res = IF ProbeOk(cond[p.entry.url]) THEN "ok" ELSE "bad"]
        \in [entry : Entries, slot : 0..(Overlap - 1), res : {"sent", "ok", "bad"}]
  BY DEF HealthInv, TypeOK
<1>2. TypeOK'
  BY <1>1 DEF ProbeAnswered, HealthInv, TypeOK
<1>. QED
  BY <1>2 DEF ProbeAnswered, HealthInv, CfgCovered, VerdictFromFailures, GaugeShowsVerdict

LEMMA AppliedInv ==
  ASSUME HealthInv, NEW p \in probes, ProbeApplied(p)
  PROVE  HealthInv'
<1>. DEFINE n == p.entry.name
<1>0. p.entry \in Entries /\ p.res \in {"ok", "bad"}
  BY DEF HealthInv, TypeOK, ProbeApplied
<1>1. CASE n \in DOMAIN states
  <2>1. /\ states[n] \in [state : BackendStates, failures : 0..FailureCap]
        /\ states[n].state = "unhealthy" <=> states[n].failures >= Threshold
    BY <1>1 DEF HealthInv, TypeOK, CfgCovered, VerdictFromFailures
  <2>2. /\ Judged(states[n], p.res) \in [state : BackendStates, failures : 0..FailureCap]
        /\ Judged(states[n], p.res).state = "unhealthy"
             <=> Judged(states[n], p.res).failures >= Threshold
    BY <2>1, JudgedEntry
  <2>3. /\ states' = [states EXCEPT ![n] = Judged(states[n], p.res)]
        /\ gauge' = [gauge EXCEPT ![n] = GaugeFor(states[n], p.res, gauge[n])]
        /\ DOMAIN states' = DOMAIN states
    BY <1>1 DEF ProbeApplied
  <2>4. n \in Names
    BY <1>1 DEF HealthInv, TypeOK
  <2>5. GaugeFor(states[n], p.res, gauge[n]) \in {"unset", "one", "zero"}
    BY <2>4 DEF HealthInv, TypeOK, GaugeFor
  <2>6. TypeOK'
    BY <2>2, <2>3, <2>5 DEF ProbeApplied, HealthInv, TypeOK
  <2>7. VerdictFromFailures'
    BY <2>2, <2>3 DEF ProbeApplied, HealthInv, CfgCovered, VerdictFromFailures
  <2>8. /\ Judged(states[n], p.res).state = "healthy"
             => GaugeFor(states[n], p.res, gauge[n]) = "one"
        /\ Judged(states[n], p.res).state = "unhealthy"
             => GaugeFor(states[n], p.res, gauge[n]) = "zero"
    <3>1. CASE p.res = "ok"
      BY <3>1 DEF Judged, Succeeded, GaugeFor
    <3>2. CASE p.res # "ok"
      <4>1. CASE Failed(states[n]).failures >= Threshold
        BY <3>2, <4>1, <2>1, FailedEntry DEF Judged, GaugeFor
      <4>2. CASE ~(Failed(states[n]).failures >= Threshold)
        <5>1. Failed(states[n]).state = states[n].state /\ states[n].state # "unhealthy"
          BY <4>2, <2>1, FailedEntry
        <5>2. states[n].state = "healthy" => gauge[n] = "one"
          BY <1>1 DEF HealthInv, GaugeShowsVerdict
        <5>. QED BY <3>2, <4>2, <5>1, <5>2 DEF Judged, GaugeFor
      <4>. QED BY <4>1, <4>2
    <3>. QED BY <3>1, <3>2
  <2>9. GaugeShowsVerdict'
    BY <2>3, <2>4, <2>8 DEF HealthInv, TypeOK, GaugeShowsVerdict
  <2>. QED BY <2>3, <2>6, <2>7, <2>9 DEF HealthInv, CfgCovered, ProbeApplied
<1>2. CASE n \notin DOMAIN states
  <2>1. UNCHANGED <<cfg, states, gauge, round, cond>> /\ probes' = probes \ {p}
    BY <1>2 DEF ProbeApplied
  <2>. QED
    BY <2>1 DEF HealthInv, TypeOK, CfgCovered, VerdictFromFailures, GaugeShowsVerdict
<1>. QED BY <1>1, <1>2

LEMMA UpdateConfigInv ==
  ASSUME HealthInv, NEW new \in Configs, UpdateConfig(new)
  PROVE  HealthInv'
<1>1. new \in SUBSET Entries /\ NamesIn(new) \subseteq Names
  BY ConfigsAssumption, NamesInMonotone
<1>2. Fresh \in [state : BackendStates, failures : 0..FailureCap]
  BY FailureCapAssumption DEF Fresh, BackendStates
<1>3. /\ DOMAIN states' = NamesIn(new)
      /\ \A n \in NamesIn(new) :
           states'[n] = IF n \in DOMAIN states THEN states[n] ELSE Fresh
  BY DEF UpdateConfig, Refreshed
<1>4. states' \in [NamesIn(new) -> [state : BackendStates, failures : 0..FailureCap]]
  BY <1>2 DEF UpdateConfig, Refreshed, HealthInv, TypeOK
<1>5. TypeOK'
  BY <1>1, <1>3, <1>4 DEF UpdateConfig, HealthInv, TypeOK
<1>6. VerdictFromFailures' /\ GaugeShowsVerdict'
  BY <1>3, ThresholdAssumption
  DEF UpdateConfig, HealthInv, CfgCovered, VerdictFromFailures, GaugeShowsVerdict, Fresh
<1>. QED BY <1>3, <1>5, <1>6 DEF HealthInv, CfgCovered, UpdateConfig

LEMMA ServerChangesInv ==
  ASSUME HealthInv, NEW u \in Urls, ServerChanges(u)
  PROVE  HealthInv'
<1>1. PICK c \in Conditions[u] : cond' = [cond EXCEPT ![u] = c]
  BY DEF ServerChanges
<1>2. Conditions[u] \subseteq AllConditions
  BY ConditionsAssumption
<1>3. cond' \in [Urls -> AllConditions] /\ \A v \in Urls : cond'[v] \in Conditions[v]
  BY <1>1, <1>2 DEF HealthInv, TypeOK
<1>4. UNCHANGED <<cfg, states, probes, round, gauge>>
  BY DEF ServerChanges
<1>. QED
  BY <1>3, <1>4 DEF HealthInv, TypeOK, CfgCovered, VerdictFromFailures, GaugeShowsVerdict

(* HealthInv is inductive. *)
LEMMA StepHealthInv == HealthInv /\ [Next]_healthVars => HealthInv'
<1>. SUFFICES ASSUME HealthInv, [Next]_healthVars PROVE HealthInv'
  OBVIOUS
<1>1. CASE CheckAll
  BY <1>1, CheckAllInv
<1>2. CASE \E p \in probes : ProbeAnswered(p)
  BY <1>2, AnsweredInv
<1>3. CASE \E p \in probes : ProbeApplied(p)
  BY <1>3, AppliedInv
<1>4. CASE \E new \in Configs : UpdateConfig(new)
  BY <1>4, UpdateConfigInv
<1>5. CASE \E u \in Urls : ServerChanges(u)
  BY <1>5, ServerChangesInv
<1>6. CASE UNCHANGED healthVars
  BY <1>6 DEF healthVars, HealthInv, TypeOK, CfgCovered, VerdictFromFailures, GaugeShowsVerdict
<1>. QED BY <1>1, <1>2, <1>3, <1>4, <1>5, <1>6 DEF Next

THEOREM HealthInvariant == Spec => []HealthInv
  BY InitHealthInv, StepHealthInv, PTL DEF Spec

(* Every variable keeps its type. *)
THEOREM TypeCorrect == Spec => []TypeOK
<1>1. HealthInv => TypeOK BY DEF HealthInv
<1>. QED BY <1>1, HealthInvariant, PTL

(* hc.states always covers exactly the configured names. *)
THEOREM StatesCoverConfig == Spec => []CfgCovered
<1>1. HealthInv => CfgCovered BY DEF HealthInv
<1>. QED BY <1>1, HealthInvariant, PTL

(* A backend is out of rotation exactly when its failures reach the threshold. *)
THEOREM VerdictTheorem == Spec => []VerdictFromFailures
<1>1. HealthInv => VerdictFromFailures BY DEF HealthInv
<1>. QED BY <1>1, HealthInvariant, PTL

(* The exported gauge never contradicts a verdict. *)
THEOREM GaugeTheorem == Spec => []GaugeShowsVerdict
<1>1. HealthInv => GaugeShowsVerdict BY DEF HealthInv
<1>. QED BY <1>1, HealthInvariant, PTL

(* One step of the recovery property. *)
LEMMA RecoveryStep ==
  HealthInv /\ [Next]_healthVars =>
    [\A n \in DOMAIN states \cap DOMAIN states' :
       states[n].state = "unhealthy" /\ states'[n].state # "unhealthy"
         => \E p \in probes \ probes' : p.entry.name = n /\ p.res = "ok"]_healthVars
<1>. SUFFICES ASSUME HealthInv, Next,
                     NEW n \in DOMAIN states \cap DOMAIN states',
                     states[n].state = "unhealthy", states'[n].state # "unhealthy"
              PROVE  \E p \in probes \ probes' : p.entry.name = n /\ p.res = "ok"
  OBVIOUS
<1>1. CASE CheckAll
  BY <1>1 DEF CheckAll
<1>2. CASE \E p \in probes : ProbeAnswered(p)
  BY <1>2 DEF ProbeAnswered
<1>3. ASSUME NEW p \in probes, ProbeApplied(p)
      PROVE  \E q \in probes \ probes' : q.entry.name = n /\ q.res = "ok"
  <2>1. p \in probes \ probes'
    BY <1>3 DEF ProbeApplied
  <2>2. p.entry.name = n /\ states'[n] = Judged(states[n], p.res)
    BY <1>3 DEF ProbeApplied, HealthInv, TypeOK
  <2>3. /\ states[n] \in [state : BackendStates, failures : 0..FailureCap]
        /\ states[n].state = "unhealthy" <=> states[n].failures >= Threshold
    BY DEF HealthInv, TypeOK, CfgCovered, VerdictFromFailures
  <2>4. p.res = "ok"
    BY <2>2, <2>3, JudgedEntry
  <2>. QED BY <2>1, <2>2, <2>4
<1>4. CASE \E new \in Configs : UpdateConfig(new)
  BY <1>4 DEF UpdateConfig, Refreshed
<1>5. CASE \E u \in Urls : ServerChanges(u)
  BY <1>5 DEF ServerChanges
<1>. QED BY <1>1, <1>2, <1>3, <1>4, <1>5 DEF Next

(* No reload and no late failure returns an unhealthy backend to rotation. *)
THEOREM RecoveryTheorem == Spec => RecoveryNeedsSuccess
  BY HealthInvariant, RecoveryStep, PTL DEF Spec, RecoveryNeedsSuccess
=============================================================================
