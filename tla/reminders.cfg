CONSTANTS
  NDeadlines = 2
  Due <- MCDue
  Offset = {1, 2}
  Window = 1
  Sweep = {s1, s2}
  LastDay = 1
  MaxSnooze = 1
  MaxMishaps = 1
SPECIFICATION Spec
INVARIANTS RepeatsHaveACause MailIsOnRecord
SYMMETRY Alike
