CONSTANTS
  Mail = {letter, enquiry}
  Letter = {letter}
  Poller = {p1, p2}
  NoMail = NoMail
  MaxMatters = 1
  TopNumber = 2
  MaxOthers = 1
  MaxYear = 1
  MaxMishaps = 1
SPECIFICATION FairSpec
INVARIANTS MadeOnce CapIsKept
PROPERTY EveryMailIsSeen
CHECK_DEADLOCK FALSE
