SPECIFICATION Spec
CONSTANTS
  Seats <- MCSeats
  Deliberator = "deliberator"
  Judge = "judge"
  Synth = "synth"
  Backends <- MCBackends
  Chain <- MCChain
  MinQuorum = 0
INVARIANT AlwaysResponds
