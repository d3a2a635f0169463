-------------------------- MODULE MCModelLifecycle --------------------------
(* Small instances of ModelLifecycle for TLC. *)
EXTENDS ModelLifecycle, TLC

CONSTANTS a, b

(* One model fits only without draft steps. *)
MCSizes == (a :> 16000) @@ (b :> 23000)
MCOptions == {[ctx |-> 4096, draft |-> 0], [ctx |-> 4096, draft |-> 8]}

Symmetry == Permutations(Commands) \cup Permutations(Pids)

(* The limit: 8 GiB of context beside 16 GiB of model fit, one draft step  *)
(* or one MiB more does not.                                               *)
ASSUME FitsAtTheLimit ==
  LET o(ctx, draft) == [ctx |-> ctx, draft |-> draft] IN
  /\ Fits(16384, o(65536, 0)) /\ ~Fits(16385, o(65536, 0)) /\ ~Fits(16384, o(65536, 1))
  /\ Fits(24576, o(0, 0)) /\ ~Fits(24576, o(1, 0))
=============================================================================
