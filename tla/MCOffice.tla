------------------------------ MODULE MCOffice ------------------------------
(* One record of each kind, a built-in template beside a firm's own, one    *)
(* lawyer with two duties, and trust scores next to the levels' borders.    *)
(*                                                                          *)
(* The parts of the office share no variable but those of their handlers,   *)
(* and every property is about one part: it is enough to follow the         *)
(* behaviours of each part alone.                                           *)
EXTENDS Office, TLC

CONSTANTS a, p, q, k0, k1, k2, v1, v2, letter

VARIABLE part    \* the part that is followed

MCShippedText == [s \in BuiltIn |-> a]
MCMentions == v1 :> {letter} @@ v2 :> {}
MCSeedTemplates == <<p, q>>
MCHistory == k1 :> <<18, 0>> @@ k2 :> <<26, 1>>

MCInit ==
  Init /\ part \in {"documents", "texts", "deals", "duties", "chasing", "scores", "archives",
                    "shelf"}

MCNext ==
  /\ UNCHANGED part
  /\ \/ part = "documents" /\ Documents
     \/ part = "texts" /\ Texts
     \/ part = "deals" /\ Deals
     \/ part = "duties" /\ Duties
     \/ part = "chasing" /\ Chasing
     \/ part = "scores" /\ Scores
     \/ part = "archives" /\ Archives
     \/ part = "shelf" /\ Shelf

MCSpec == MCInit /\ [][MCNext]_<<vars, part>>

=============================================================================
