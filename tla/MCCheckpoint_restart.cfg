CONSTANTS
  home = home
  w = w
  t0 = t0
  t1 = t1
  t2 = t2
  t3 = t3
  t4 = t4
  Null = Null
  Label = Label
  Nodes = {home, w}
  Root = home
  Builds = {TRUE, FALSE}
  Saves = 2
  Tasks <- AllTasks
  First = {t0, t1, t2}
  Home <- Homes
  Program <- Programs
  Child <- Children
  Local = {t3}
  Remote = {t2}
SPECIFICATION FairSpec
INVARIANTS LoadsSound WorkBalanced
PROPERTY EveryRunEnds
CHECK_DEADLOCK FALSE
