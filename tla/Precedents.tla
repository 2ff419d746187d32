----------------------------- MODULE Precedents -----------------------------
(***************************************************************************)
(* The firm's precedents (precedents/repo.ts): approved drafts that a      *)
(* lawyer offers for reuse (dashboard/server.ts), found by the search once *)
(* its index has been rebuilt (search/smart-search.ts) and picked by the   *)
(* drafting skill.                                                         *)
(*                                                                         *)
(* Whether a draft is approved is asked when an offer arrives; the         *)
(* precedent is added when its form is there.                              *)
(***************************************************************************)
EXTENDS Handlers

CONSTANTS
  Reviewed,     \* drafts in review_queue
  Kind,         \* types of documents
  SearchIndex,  \* the index, as a record of the handlers
  Mentions,     \* the types each draft's text or title mentions
  Offer         \* bound: offers that are made


VARIABLES
  verdict,    \* review_queue: status
  offers,     \* the draft each request was let in for
  shelf,      \* precedents, the oldest first
  hits,       \* the precedents that are in document_embeddings
  rebuilt     \* (history) how many there were at the last whole rebuild

precedentVars == <<verdict, offers, shelf, hits, rebuilt>>

NoDraftOffered == "no draft"
Over == "over"

ASSUME PrecedentAssumption ==
  /\ Mentions \in [Reviewed -> SUBSET Kind]
  /\ {NoDraftOffered, Over} \cap Reviewed = {}

Verdicts == {"none", "pending", "approved", "rejected", "sent"}
Precedent == [review : Reviewed, kind : Kind]

PrecedentsTypeOK ==
  /\ verdict \in [Reviewed -> Verdicts]
  /\ offers \in [Offer -> Reviewed \cup {NoDraftOffered, Over}]
  /\ shelf \in Seq(Precedent)
  /\ hits \subseteq DOMAIN shelf
  /\ rebuilt \in Nat

PrecedentsInit ==
  /\ verdict = [r \in Reviewed |-> "none"]
  /\ offers = [o \in Offer |-> NoDraftOffered]
  /\ shelf = << >> /\ hits = {} /\ rebuilt = 0

-----------------------------------------------------------------------------

(* What the review gate does with a draft.                                 *)
Review(r) ==
  /\ \/ verdict[r] = "none" /\ verdict' = [verdict EXCEPT ![r] = "pending"]
     \/ /\ verdict[r] = "pending"
        /\ \E v \in {"approved", "rejected"} : verdict' = [verdict EXCEPT ![r] = v]
     \/ verdict[r] = "approved" /\ verdict' = [verdict EXCEPT ![r] = "sent"]
  /\ UNCHANGED <<handlerVars, offers, shelf, hits, rebuilt>>

(* POST /precedents/from-review/:id, before its body is read.              *)
BeginOffer(o, r) ==
  /\ offers[o] = NoDraftOffered /\ verdict[r] = "approved" /\ Request
  /\ offers' = [offers EXCEPT ![o] = r]
  /\ UNCHANGED <<mishaps, hurt, verdict, shelf, hits, rebuilt>>

(* addPrecedent, with the type of the form, or the handler is cut short.   *)
EndOffer(o, k) ==
  /\ offers[o] \in Reviewed
  /\ offers' = [offers EXCEPT ![o] = Over]
  /\ \/ shelf' = Append(shelf, [review |-> offers[o], kind |-> k]) /\ UNCHANGED mishaps
     \/ mishaps < MaxMishaps /\ mishaps' = mishaps + 1 /\ UNCHANGED shelf
  /\ UNCHANGED <<edits, hurt, verdict, hits, rebuilt>>

(* rebuildIndex: the newest first, each deleted and inserted anew; cut     *)
(* short, it leaves the others as they were, and one perhaps deleted.      *)
RebuildIndex ==
  LET n == Len(shelf) IN
  /\ Request
  /\ \/ hits' = DOMAIN shelf /\ rebuilt' = n /\ hurt' = hurt \ {SearchIndex} /\ UNCHANGED mishaps
     \/ /\ mishaps < MaxMishaps /\ mishaps' = mishaps + 1
        /\ hurt' = hurt \cup {SearchIndex}
        /\ \E i \in DOMAIN shelf : hits' \in {hits \cup ((i + 1)..n), (hits \cup ((i + 1)..n)) \ {i}}
        /\ UNCHANGED rebuilt
  /\ UNCHANGED <<verdict, offers, shelf>>

PrecedentStep ==
  \/ RebuildIndex
  \/ \E r \in Reviewed : Review(r) \/ \E o \in Offer : BeginOffer(o, r)
  \/ \E o \in Offer, k \in Kind : EndOffer(o, k)

-----------------------------------------------------------------------------

MatchScore(i, k) ==
  (IF shelf[i].kind = k THEN 6 ELSE 0) + (IF k \in Mentions[shelf[i].review] THEN 1 ELSE 0)

(* pickBestPrecedent, for the drafting skill: one of these, rows of the    *)
(* same second in the order the database has them.                         *)
PickBestPrecedent(k) ==
  {i \in DOMAIN shelf :
     MatchScore(i, k) > 0 /\ \A j \in DOMAIN shelf : MatchScore(j, k) <= MatchScore(i, k)}

(* What stands on the shelf was approved, whatever became of the draft     *)
(* while the form was filled in.  The drafting skill finds a precedent of  *)
(* the type it drafts if there is one, else one that mentions it, else     *)
(* none.  The search finds all that stood there at the last whole rebuild, *)
(* unless one was cut short since (server.ts:541-568, repo.ts:134-152,     *)
(* smart-search.ts:141-178).                                               *)
ShelfIsSound ==
  /\ \A i \in DOMAIN shelf : verdict[shelf[i].review] \in {"approved", "sent"}
  /\ \A k \in Kind :
       LET ofKind == {i \in DOMAIN shelf : shelf[i].kind = k}
           mention == {i \in DOMAIN shelf : k \in Mentions[shelf[i].review]}
       IN /\ PickBestPrecedent(k) \subseteq IF ofKind # {} THEN ofKind ELSE mention
          /\ PickBestPrecedent(k) = {} => ofKind \cup mention = {}
  /\ SearchIndex \notin hurt => 1..rebuilt \subseteq hits

=============================================================================
