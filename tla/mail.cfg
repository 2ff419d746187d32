CONSTANTS
  r1 = r1
  r2 = r2
  m1 = m1
  Review = {r1}
  Lawyer = {junior, partner}
  Skill = Skill
  Body = {draft, bare}
  Disclaimed = {draft}
  NoOne = NoOne
  NoBody = NoBody
  MaxCrashes = 1
  Matter = {m1}
  MatterOf <- MCMatterOf
  KindOf <- MCKindOf
  Sender = {s1, s2}
  NoReview = NoReview
  StoreMayFail = TRUE
  MaxLapses = 1
SPECIFICATION FairSpec
INVARIANTS ResendsAreBounded LedgerIsTruthful NoOrphanedSecondary
PROPERTIES ImplementsPromise SendSettles
