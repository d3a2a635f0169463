SPECIFICATION Spec
CONSTANTS
  Commands = {c1, c2}
  a = a
  b = b
  Names = {a, b}
  Pids = {p1, p2}
  Sizes <- MCSizes
  Options <- MCOptions
  NoName = NoName
  NoPid = NoPid
SYMMETRY Symmetry
INVARIANTS
  TypeOK
  NothingLost
  SwapClears
PROPERTIES
  StrangersSafe
