--------------------------- MODULE MCRateLimiter ---------------------------
(* Small instances of RateLimiter for TLC. *)
EXTENDS RateLimiter, TLC

NoNames == [x \in {} |-> 0]
Lim(r, b) == [rpm |-> r, burst |-> b]

(* A burst of one or two; the consumer has limits of its own or not. *)
MCLimitConfigs ==
  {[default |-> Lim(90, 1), named |-> [x \in {"x"} |-> Lim(25, 2)]],
   [default |-> Lim(0, 1), named |-> NoNames]}

(* One consumer, whose limits the two configurations set differently. *)
OneConsumer == {"x"}

(* Handlers are alike. *)
Symmetry == Permutations(Handlers)

(* The deployed file: one consumer is listed with zeros. *)
DeployedConfigs ==
  {[default |-> Lim(60, 1), named |-> [x \in {"openclaude"} |-> Lim(0, 0)]]}
DeployedConsumers == {"openclaude"}
=============================================================================
