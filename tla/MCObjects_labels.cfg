SPECIFICATION FairSpec
CONSTANTS
  Nodes <- TwoNodes
  Count = 2
  Tasks = {main, a, b, c}
  At <- Placed
  After <- Starts
  Script <- Mixed
  Names = {r, t, x, y}
  None = None
  main = main  a = a  b = b  c = c  r = r  t = t  x = x  y = y
INVARIANT ObjectsSound
PROPERTIES CachedStays EverythingEnds
