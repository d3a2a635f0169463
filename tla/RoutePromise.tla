---------------------------- MODULE RoutePromise ----------------------------
(***************************************************************************)
(* What routing promises a client, whatever the health checker, the        *)
(* configuration reloads and the backend servers do: a request is given    *)
(* candidates once, they are ruled out strictly in order of precedence,    *)
(* the answer is that of the first one left, and only a request with no    *)
(* candidate left is refused.                                              *)
(***************************************************************************)
CONSTANTS Requests, Entries, NoEntry, Precedes(_, _)

VARIABLES
  phase,      \* "idle", "open", "answered" or "refused"
  remaining,  \* the candidates not ruled out yet
  answer      \* the backend whose answer the client got, or NoEntry

promiseVars == <<phase, remaining, answer>>

IsFirst(e, S) == e \in S /\ \A f \in S \ {e} : Precedes(e, f)

Init ==
  /\ phase = [r \in Requests |-> "idle"]
  /\ remaining = [r \in Requests |-> {}]
  /\ answer = [r \in Requests |-> NoEntry]

Open(r) ==
  /\ phase[r] = "idle"
  /\ phase' = [phase EXCEPT ![r] = "open"]
  /\ \E S \in SUBSET Entries : remaining' = [remaining EXCEPT ![r] = S]
  /\ UNCHANGED answer

RuleOut(r) ==
  /\ phase[r] = "open"
  /\ \E e \in remaining[r] :
       IsFirst(e, remaining[r]) /\ remaining' = [remaining EXCEPT ![r] = @ \ {e}]
  /\ UNCHANGED <<phase, answer>>

Answer(r) ==
  /\ phase[r] = "open"
  /\ phase' = [phase EXCEPT ![r] = "answered"]
  /\ \E e \in remaining[r] :
       IsFirst(e, remaining[r]) /\ answer' = [answer EXCEPT ![r] = e]
  /\ UNCHANGED remaining

Refuse(r) ==
  /\ phase[r] \in {"idle", "open"}
  /\ remaining[r] = {}
  /\ phase' = [phase EXCEPT ![r] = "refused"]
  /\ UNCHANGED <<remaining, answer>>

Next == \E r \in Requests : Open(r) \/ RuleOut(r) \/ Answer(r) \/ Refuse(r)

Spec == Init /\ [][Next]_promiseVars
=============================================================================
