CONSTANTS
  NTasks = 2
  Billable = {1}
  Worker = {w1, w2}
  NoTask = NoTask
  MaxCrashes = 1
  MaxStops = 1
  MaxFaults = 2
SPECIFICATION FairSpec
INVARIANTS DraftedAtMostOnce OrphansHaveACause OutputIsWrappedOrLoud
PROPERTY EveryTaskSettles
