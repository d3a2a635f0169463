------------------------- MODULE MCGatewayLifecycle -------------------------
(* A small instance of GatewayLifecycle for TLC: one key, whose consumer   *)
(* the second configuration no longer knows.                               *)
EXTENDS GatewayLifecycle

MCNames == {"x", Default}
MCKeys == {"key"}
MCConfigs ==
  {[keys |-> [k \in MCKeys |-> "x"], limited |-> {}], [keys |-> [k \in {} |-> "x"], limited |-> {}]}
=============================================================================
