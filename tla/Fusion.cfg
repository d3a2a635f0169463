SPECIFICATION FairSpec
CONSTANTS
  Seats <- MCSeats
  Deliberator = "deliberator"
  Judge = "judge"
  Synth = "synth"
  Backends <- MCBackends
  Chain <- MCChain
  MinQuorum = 0
INVARIANTS
  TypeOK
  NothingLeftBehind
  NoFalseExhaustion
PROPERTIES
  NoLateSynthesis
  KeepsPromise
  EveryFusionEnds
