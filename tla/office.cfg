SPECIFICATION MCSpec
CONSTANTS
  MaxEdits = 5
  MaxMishaps = 2
  Document = {d1}
  Bytes = {a, b}
  Torn = Torn
  NoFile = NoFile
  Entry = {e1}
  Slug = {nda, own}
  BuiltIn = {nda}
  ShippedText <- MCShippedText
  Text = {a, b}
  NoText = NoText
  a = a
  Negotiation = {n1}
  Upload = {u1, u2}
  Draft = {x, y}
  NoDraft = NoDraft
  User = {lawyer}
  Duty = {p, q}
  p = p
  q = q
  SeedTemplates <- MCSeedTemplates
  DocumentRequest = {r1}
  FirstAfter = 1
  SecondAfter = 2
  EscalateAfter = 3
  LastDay = 3
  Scored = {k0, k1, k2}
  k0 = k0
  k1 = k1
  k2 = k2
  History <- MCHistory
  KeepDaily = 1
  KeepMonthly = 2
  DaysPerMonth = 2
  LastDate = 5
  MaxRuns = 5
  Reviewed = {v1, v2}
  v1 = v1
  v2 = v2
  SearchIndex = SearchIndex
  Kind = {letter, deed}
  letter = letter
  Mentions <- MCMentions
  Offer = {o1, o2, o3}
INVARIANTS LatestIsInForce DraftsFormAChain SeriesGoesOn ChasedOnce ArchivesAreKept
PROPERTY OverwrittenIsPreserved
CHECK_DEADLOCK FALSE
