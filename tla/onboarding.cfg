CONSTANTS
  a = a
  b = b
  joannaRoe = joannaRoe
  ann = ann
  roe = roe
  joanna = joanna
  com = com
  Case = {a, b}
  Name = {joannaRoe, ann, roe, NoName}
  NoName = NoName
  Word = {joanna, ann, roe}
  Tokens <- MCTokens
  Within <- MCWithin
  Client <- MCClient
  Opponent <- MCOpponent
  Domain <- MCDomain
  NoDomain = NoDomain
  Envelope = {e1}
  Signer = {s1, s2}
  NoEnvelope = NoEnvelope
  MaxMishaps = 1
SPECIFICATION OnboardingSpec
INVARIANTS OneSideIsEngaged EnvelopeTellsItsSigners
