------------------------------ MODULE MCFusion ------------------------------
(* A small instance of Fusion for TLC: a panel of three on two backends,   *)
(* two seats falling back on each other's and one without a fallback, a    *)
(* judge that no backend serves, a deliberator and synthesizer with one.   *)
EXTENDS Fusion

MCSeats == {"s1", "s2", "s3"}
MCBackends == {"b1", "b2"}
MCChain ==
  [c \in MCSeats \cup {"deliberator", "judge", "synth"} |->
    CASE c = "s1" -> <<"b1", "b2">> [] c = "s2" -> <<"b2", "b1">>
      [] c = "judge" -> <<>> [] OTHER -> <<"b1">>]
=============================================================================
