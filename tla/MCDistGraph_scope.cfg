SPECIFICATION FairSpec
CONSTANTS
  na = na  nb = nb
  main = main  tF = tF  p1 = p1  q1 = q1  q2 = q2  tK = tK
  oMain = oMain  oF = oF  o1 = o1  oq = oq  or = or  oK = oK
  lab = lab  ch = ch  ret = ret  sum = sum  dX = dX  dY = dY
  Nodes = {na, nb}
  Tasks = {main, tF, p1, q1, q2, tK}
  Main = main
  Finish = {tF}
  Depc <- ScopeDepc
  Output <- OutputOf
  Program <- ScopeProgram
  Events = {oMain, oF, o1, oq, or, oK, lab, ch, ret}
  Type <- ScopeType
  Labelled = {lab}
  Collectives = {sum}
  MaxGen = 1
  NbContribs = 2
  Home <- ScopeHome
  Data = {dX, dY}
  Null = Null
INVARIANTS GraphSound GenerationsComplete
PROPERTIES ImplementsPromise EveryTaskEnds
