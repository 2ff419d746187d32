CONSTANTS
  national = national
  international = international
  Review = {r1}
  Lawyer = {junior, partner}
  Skill = Skill
  Body = {draft}
  Disclaimed = {draft}
  NoOne = NoOne
  NoBody = NoBody
  MaxCrashes = 1
  Sender = {s1, s2}
  NoReview = NoReview
  Phone = {national, international}
  E164 <- MCE164
  StoreMayFail = TRUE
  MaxTexts = 3
SPECIFICATION Spec
INVARIANTS StopIsKept DeliveredIsTrue
PROPERTY TextsKeepPromise
