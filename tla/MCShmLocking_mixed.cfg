SPECIFICATION FairSpec
CONSTANTS
  main = main  t1 = t1  t2 = t2  t3 = t3  t4 = t4
  Free = Free  Satisfier = Satisfier
  DBs = {1, 2}
  Tasks = {main, t1, t2, t3, t4}
  Main = main
  Slots <- MixedSlots
  EarlyReleases <- MixedReleases
  CounterSize = 8
INVARIANTS LocksExclude RunningTaskHoldsItsBlocks WaitersServed
PROPERTY EveryTaskFinishes
