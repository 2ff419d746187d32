SPECIFICATION MCSpec
CONSTANTS
  MaxEdits = 5
  MaxMishaps = 1
  Person = {ann, bob, cy}
  Browser = {x, y}
  MaxUsers = 2
  SessionLife = 1
  LastHour = 2
  Study = {s1, s2, s3}
  Cap = 3
  Line = {a, b}
  MaxLines = 4
  Trigger <- MCTrigger
  Elapsed = {0, 20, 400}
  MaxCount = 2
  Occasion <- MCOccasion
  Passed <- MCPassed
  Amount = {0, 1, 100, 750}
  MaxAmount = 20
  File = {k1, k2}
  LastMonth = 5
  Screening = {g1, g2}
  Sum <- MCSum
  MaxSpent = 400
  Partner = {leap, clio}
  Sync = {p1, p2}
  Own = {m1}
  Foreign = {f1}
  Matter = {m1, m2}
  Paper = {d1}
  Client = {c1}
  PortalLife = 1
  LinkLife = 1
  Brief = {b1, b2}
  BriefLife = 1
  LastMoment = 2
INVARIANTS LostPowersEnd StrategiesAreInOrder RedlineIsFaithful WarningsCanBeReliedOn BriefsCanBeReliedOn CopiesHaveACause NothingIsMissedSilently ShownWasShared
CHECK_DEADLOCK FALSE
