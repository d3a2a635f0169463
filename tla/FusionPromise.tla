---------------------------- MODULE FusionPromise ----------------------------
(***************************************************************************)
(* What a fusion tier promises: every seat of the panel settles once and   *)
(* for all, the panel is counted when all have settled, and the request    *)
(* succeeds exactly when enough seats gave an opinion, whatever becomes of *)
(* the judge and the synthesizer afterwards.  Only a request whose panel   *)
(* was never asked can be dropped.                                         *)
(***************************************************************************)
CONSTANTS
  Seats,   \* the panel
  Quorums  \* the sets of seats whose opinions are enough

VARIABLES
  opinion,  \* "open", "given" or "missing" for each seat
  outcome   \* "open", "agreed", "refused" or "dropped"

promiseVars == <<opinion, outcome>>

Init ==
  /\ opinion = [s \in Seats |-> "open"]
  /\ outcome = "open"

Given == {s \in Seats : opinion[s] = "given"}
Settled == \A s \in Seats : opinion[s] # "open"

Settle(s) ==
  /\ outcome = "open" /\ opinion[s] = "open"
  /\ \E o \in {"given", "missing"} : opinion' = [opinion EXCEPT ![s] = o]
  /\ UNCHANGED outcome

Count ==
  /\ outcome = "open" /\ Settled
  /\ outcome' = IF Given \in Quorums THEN "agreed" ELSE "refused"
  /\ UNCHANGED opinion

Drop ==
  /\ outcome = "open" /\ \A s \in Seats : opinion[s] = "open"
  /\ outcome' = "dropped"
  /\ UNCHANGED opinion

Next == Count \/ Drop \/ \E s \in Seats : Settle(s)

Spec == Init /\ [][Next]_promiseVars
=============================================================================
