CONSTANTS
  r1 = r1
  r2 = r2
  m1 = m1
  Review = {r1}
  Lawyer = {junior, partner}
  Skill = Skill
  Body = {draft}
  Disclaimed = {draft}
  NoOne = NoOne
  NoBody = NoBody
  MaxCrashes = 0
  Matter = {m1}
  MatterOf <- MCMatterOf
  KindOf <- MCKindOf
  Sender = {s1}
  NoReview = NoReview
  StoreMayFail = FALSE
  MaxLapses = 0
SPECIFICATION Spec
PROPERTY SupervisedNeedsPartner
