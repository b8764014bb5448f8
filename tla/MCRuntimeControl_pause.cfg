SPECIFICATION FairSpec
CONSTANTS
  n0 = n0
  n1 = n1
  k1 = k1
  k2 = k2
  Nodes = {n0, n1}
  Root = n0
  Rounds = 2
  Pauses = 2
  Tokens = {k1, k2}
  Hops <- MCHops
  Null = Null
INVARIANTS BarrierHolds PauseHolds
PROPERTY EverythingEnds
