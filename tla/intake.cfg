CONSTANTS
  Session = {s1}
  Caller = {c1, c2}
  MatterType = {a, b}
  NoSession = NoSession
  NQuestions = 2
  DaysLeft = {0, 2}
  AlertDays = 1
  UrgentDays = 1
  LastDay = 2
  MaxMishaps = 1
SPECIFICATION FairSpec
INVARIANTS OneMatterPerSession AlertedUnlessFlagged 
PROPERTY EverySessionSettles
CHECK_DEADLOCK FALSE
