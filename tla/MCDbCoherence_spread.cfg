SPECIFICATION FairSpec
CONSTANTS
  n1 = n1  n2 = n2  n3 = n3  a = a  b = b  c = c  d = d
  NodeStream = NodeStream  NoNode = NoNode
  Nodes = {n1, n2, n3}
  Owner = n1
  InitialMaster = n1
  Tasks = {a, b, c, d}
  Home <- SpreadHome
  Mode <- SpreadMode
  Destroyers = {b}
INVARIANTS TypeOK OnlyLateElevationAborts LocksCompatible Coherence
PROPERTIES ImplementsPromise EveryTaskCompletes
