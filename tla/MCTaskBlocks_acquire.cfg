CONSTANTS
  t1 = t1
  t2 = t2
  t3 = t3
  Null = Null
  Tasks = {t1, t2, t3}
  Blocks = {1, 2}
  Slots <- SlotsOf
  Body <- BodyOf
  Remote = {2}
  Copied = {1}
  Asks = 1
  Moves = 2
  Pauses = 1
SPECIFICATION FairSpec
INVARIANTS BlocksSound ReleaseIsSynchronous
PROPERTY EveryTaskEnds
