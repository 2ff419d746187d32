SPECIFICATION GovernorSpec
CONSTANTS
  Call = {c1, c2}
  Skill = {research, tidying}
  HighRisk = {research}
  HighPoints = 1
  MediumPoints = 2
  Hour = 2
  Minute = 1
  MinActions = 2
  InARow = 2
  RapidFire = 2
  MinForRate = 3
  KeepActions = 4
  MaxTasks = 5
  LastMoment = 2
  MaxRestarts = 1
INVARIANTS RateIsBounded
CHECK_DEADLOCK FALSE
