---------------------------- MODULE MCOnboarding ----------------------------
(* Two clients of whom one's name is found in the other's, in the middle of *)
(* a word; the other matter's opponent bears a part of it.                  *)
EXTENDS Onboarding, TLC

CONSTANTS a, b, joannaRoe, ann, roe, joanna, com

MCTokens == joannaRoe :> {joanna, roe} @@ ann :> {ann} @@ roe :> {roe} @@ NoName :> {}
MCWithin == {<<n, n>> : n \in Name} \cup {<<NoName, n>> : n \in Name}
              \cup {<<ann, joannaRoe>>, <<roe, joannaRoe>>}
MCClient == a :> joannaRoe @@ b :> ann
MCOpponent == a :> NoName @@ b :> roe
MCDomain == a :> com @@ b :> NoDomain

Alike == Permutations(Envelope)

=============================================================================
