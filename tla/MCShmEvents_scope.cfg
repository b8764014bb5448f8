SPECIFICATION FairSpec
CONSTANTS
  main = main  tF = tF  tC = tC  tG = tG  tK = tK
  oMain = oMain  oF = oF  oC = oC  oG = oG  oK = oK
  start = start  st = st  id = id  ch = ch
  dX = dX  dY = dY
  Null = Null  Unsatisfied = Unsatisfied  Free = Free
  Tasks = {main, tF, tC, tG, tK}
  Main = main
  Finish = {tF, tG}
  Depc <- ScopeDepc
  Output <- OutputOf
  Program <- ScopeProgram
  Result <- NoResult
  Events = {oMain, oF, oC, oG, oK, start, st, id, ch}
  Type <- ScopeType
  Guid <- ScopeGuid
  Data = {dX, dY}
  CounterSize = 8
INVARIANT EventsSound
PROPERTIES ImplementsPromise EveryTaskEnds
