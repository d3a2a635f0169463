----------------------------- MODULE RatePromise -----------------------------
(***************************************************************************)
(* What rate limiting promises: each consumer has one bucket in each set   *)
(* of limits, full when the limits come into force, which gains its rate   *)
(* every second and never holds more than its burst.  A request is held to *)
(* the limits in force when it came, and is admitted or refused at one     *)
(* moment: admitted exactly when its bucket holds a token, which it takes. *)
(***************************************************************************)
EXTENDS Integers

CONSTANTS
  Consumers, Handlers,
  Token,   \* how many parts of a bucket's level make one request
  Nobody   \* what a handler without a request serves

VARIABLES
  bucket,  \* for each set of limits so far, numbered, the bucket of each consumer
  serves   \* the limits' number and the consumer of each handler's request

promiseVars == <<bucket, serves>>

Full(b) == b.level = b.burst

Init ==
  /\ DOMAIN bucket = {1}
  /\ \A x \in Consumers : Full(bucket[1][x])
  /\ serves = [h \in Handlers |-> Nobody]

(* New limits come into force, with full buckets; the old ones stay for    *)
(* the requests that still hold them.                                      *)
Replace ==
  \E g \in DOMAIN bucket :
    /\ \A f \in DOMAIN bucket : f <= g
    /\ DOMAIN bucket' = DOMAIN bucket \cup {g + 1}
    /\ \A f \in DOMAIN bucket : bucket'[f] = bucket[f]
    /\ \A x \in Consumers : Full(bucket'[g + 1][x])
    /\ UNCHANGED serves

Least(m, n) == IF m <= n THEN m ELSE n
Refilled(b) == [b EXCEPT !.level = Least(b.burst, b.level + b.rate)]

(* A second passes, for all buckets at once. *)
Second ==
  /\ bucket' = [g \in DOMAIN bucket |-> [x \in Consumers |-> Refilled(bucket[g][x])]]
  /\ UNCHANGED serves

Ask(h) ==
  /\ serves[h] = Nobody
  /\ \E g \in DOMAIN bucket, x \in Consumers :
       /\ \A f \in DOMAIN bucket : f <= g
       /\ serves' = [serves EXCEPT ![h] = <<g, x>>]
  /\ UNCHANGED bucket

Admit(h) ==
  /\ \E g \in DOMAIN bucket, x \in Consumers :
       /\ serves[h] = <<g, x>>
       /\ bucket[g][x].level >= Token
       /\ bucket' = [bucket EXCEPT ![g][x].level = @ - Token]
  /\ serves' = [serves EXCEPT ![h] = Nobody]

Refuse(h) ==
  /\ \E g \in DOMAIN bucket, x \in Consumers :
       serves[h] = <<g, x>> /\ bucket[g][x].level < Token
  /\ serves' = [serves EXCEPT ![h] = Nobody]
  /\ UNCHANGED bucket

Next ==
  \/ Replace
  \/ Second
  \/ \E h \in Handlers : Ask(h) \/ Admit(h) \/ Refuse(h)

Spec == Init /\ [][Next]_promiseVars
=============================================================================
