------------------------------ MODULE Studies ------------------------------
(***************************************************************************)
(* What the lawyers of a matter ask of a model (intelligence, documents/   *)
(* classifier.ts): strategies, predicted outcomes, preparations of         *)
(* witnesses, comparisons of jurisdictions, explanations of documents,     *)
(* their classification, and the month's market report.  A handler awaits  *)
(* the model and then writes: a review for the lawyer, the row, the bill,  *)
(* the audit entry, each on its own.  Meanwhile others ask, and the        *)
(* reviews are decided here or in the queue.                               *)
(*                                                                         *)
(* One matter and one document are followed; the texts are left out.       *)
(***************************************************************************)
EXTENDS Handlers, FiniteSetsExt

CONSTANT Study    \* what is asked for

ASSUME StudyAssumption == IsFiniteSet(Study)

VARIABLES
  study,     \* what became of each
  memo,      \* the strategy whose text the matter's strategy.md holds
  label,     \* document_classifications: the row of the document
  newest,    \* outcome_analyses: the latest of the matter
  inQueue    \* (history) reviews decided in the review queue

studyVars == <<study, memo, label, newest, inQueue>>

NoStudy == "no study"
Kind == {"strategy", "deposition", "explainer", "outcome", "comparison", "classification", "market"}

StudyState == [kind : Kind,
               at : {"idle", "asked", "answered"},
               review : {"none", "pending", "approved", "rejected"},
               row : {"none", "draft", "approved", "rejected"},
               version : Nat,          \* of a strategy
               noticed : BOOLEAN,      \* acknowledged_by of an outcome
               dated : BOOLEAN,        \* the deadlines a classification found are entered
               billed : BOOLEAN,
               audited : BOOLEAN]

Label == [by : Study \cup {NoStudy}, corrected : BOOLEAN]

StudiesTypeOK ==
  /\ study \in [Study -> StudyState]
  /\ memo \in Study \cup {NoStudy}
  /\ label \in Label
  /\ newest \in Study \cup {NoStudy}
  /\ inQueue \subseteq Study

StudiesInit ==
  /\ study = [s \in Study |-> [kind |-> "market", at |-> "idle", review |-> "none",
       row |-> "none", version |-> 0, noticed |-> FALSE, dated |-> FALSE, billed |-> FALSE,
       audited |-> FALSE]]
  /\ memo = NoStudy
  /\ label = [by |-> NoStudy, corrected |-> FALSE]
  /\ newest = NoStudy
  /\ inQueue = {}

-----------------------------------------------------------------------------

(* The states the records of s pass through: the row and the file.         *)
Become(s, steps) ==
  \E x \in {steps[i] : i \in DOMAIN steps} :
    /\ Leaves(s, steps, x)
    /\ study' = [study EXCEPT ![s] = x[1]]
    /\ memo' = x[2]

(* A handler has looked up the matter and the document and awaits.         *)
Ask(s, kind) ==
  /\ study[s].at = "idle"
  /\ Request
  /\ study' = [study EXCEPT ![s].kind = kind, ![s].at = "asked"]
  /\ UNCHANGED <<mishaps, hurt, memo, label, newest, inQueue>>

Versions == {study[t].version : t \in Study}

(* Seeded fault: the rows that were not rejected are counted.              *)
CountVersions ==
  Cardinality({t \in Study : study[t].kind = "strategy" /\ study[t].row \in {"draft", "approved"}}) + 1

(* nextVersion                                                             *)
NextVersion == Max(Versions) + 1

(* recordAiRun when the answer cost something, then appendLegalAudit; a    *)
(* market report has no matter to be billed to.                            *)
BillAndAudit(r, cost) ==
  LET billed == IF cost /\ r.kind # "market" THEN [r EXCEPT !.billed = TRUE] ELSE r
  IN << billed, [billed EXCEPT !.audited = TRUE] >>

Rows(rows) == [i \in DOMAIN rows |-> <<rows[i], memo>>]

(* After the await, whether the model answered or failed.                  *)
Answered(s, kind) ==
  IF study[s].at = "asked" /\ study[s].kind = kind THEN {[study[s] EXCEPT !.at = "answered"]} ELSE {}

(* The review is queued, the row is written, the run billed and audited.   *)
Reviews(s, kind, version, cost) ==
  \E r \in Answered(s, kind) :
    LET queued == [r EXCEPT !.review = "pending"]
        drafted == [queued EXCEPT !.row = "draft", !.version = version]
    IN Become(s, Rows(<<r, queued, drafted>> \o BillAndAudit(drafted, cost)))

GenerateMatterStrategy(s, cost) ==
  /\ Reviews(s, "strategy", NextVersion, cost)
  /\ UNCHANGED <<edits, label, newest, inQueue>>

GenerateDepositionPrep(s, cost) ==
  /\ Reviews(s, "deposition", 0, cost)
  /\ UNCHANGED <<edits, label, newest, inQueue>>

ExplainDocument(s, cost) ==
  /\ Reviews(s, "explainer", 0, cost)
  /\ UNCHANGED <<edits, label, newest, inQueue>>

(* Others are shown as they are; of a classification the deadlines are     *)
(* entered too, which fails with no more than a line in the log.           *)
Shows(s, kind, dated, cost) ==
  \E r \in Answered(s, kind) :
    LET kept == [r EXCEPT !.row = "draft"]
        entered == [kept EXCEPT !.dated = dated]
    IN Become(s, Rows(<<r, kept, entered>> \o BillAndAudit(entered, cost)))

IsKept(s) == study'[s].row = "draft"

PredictMatterOutcome(s, cost) ==
  /\ Shows(s, "outcome", FALSE, cost)
  /\ newest' = IF IsKept(s) THEN s ELSE newest
  /\ UNCHANGED <<edits, label, inQueue>>

CompareJurisdictions(s, cost) ==
  /\ Shows(s, "comparison", FALSE, cost)
  /\ UNCHANGED <<edits, label, newest, inQueue>>

GenerateMarketReport(s, cost) ==
  /\ Shows(s, "market", FALSE, cost)
  /\ UNCHANGED <<edits, label, newest, inQueue>>

(* A new classification replaces the old row, with the lawyer's            *)
(* correction; each deadline it finds is handed to UpsertDeadline, whose   *)
(* work is the matter of Reminders.                                        *)
ClassifyDocument(s, cost) ==
  /\ \E dated \in BOOLEAN : Shows(s, "classification", dated, cost)
  /\ label' = IF IsKept(s) THEN [by |-> s, corrected |-> FALSE] ELSE label
  /\ UNCHANGED <<edits, newest, inQueue>>

(* approveStrategy: approveReview throws unless the review is pending; a   *)
(* strategy.md that cannot be written is only logged.                      *)
ApproveStrategy(s) ==
  LET told == [study[s] EXCEPT !.review = "approved"]
      row == [told EXCEPT !.row = "approved"] IN
  /\ study[s].kind = "strategy" /\ study[s].row = "draft" /\ study[s].review = "pending"
  /\ Request
  /\ \E written \in {memo, s} : Become(s, << <<told, memo>>, <<row, memo>>, <<row, written>> >>)
  /\ UNCHANGED <<label, newest, inQueue>>

RejectStrategy(s) ==
  LET told == [study[s] EXCEPT !.review = "rejected"] IN
  /\ study[s].kind = "strategy" /\ study[s].row = "draft" /\ study[s].review = "pending"
  /\ Request
  /\ Become(s, Rows(<<told, [told EXCEPT !.row = "rejected"]>>))
  /\ UNCHANGED <<label, newest, inQueue>>

(* Or the review is decided in the queue, which knows nothing of the row.  *)
DecideInQueue(s, verdict) ==
  /\ study[s].review = "pending"
  /\ Request
  /\ study' = [study EXCEPT ![s].review = verdict]
  /\ inQueue' = inQueue \cup {s}
  /\ UNCHANGED <<mishaps, hurt, memo, label, newest>>

(* GET /matter/:id/outcome?ack=1: the latest one, whichever was shown.     *)
AcknowledgeOutcome ==
  /\ newest # NoStudy
  /\ Request
  /\ study' = [study EXCEPT ![newest].noticed = TRUE]
  /\ UNCHANGED <<mishaps, hurt, memo, label, newest, inQueue>>

CorrectClassification ==
  /\ label.by # NoStudy
  /\ Request
  /\ label' = [label EXCEPT !.corrected = TRUE]
  /\ UNCHANGED <<mishaps, hurt, study, memo, newest, inQueue>>

StudyStep ==
  \/ AcknowledgeOutcome \/ CorrectClassification
  \/ \E s \in Study :
       \/ \E kind \in Kind : Ask(s, kind)
       \/ \E cost \in BOOLEAN :
            \/ GenerateMatterStrategy(s, cost) \/ GenerateDepositionPrep(s, cost)
            \/ ExplainDocument(s, cost) \/ PredictMatterOutcome(s, cost)
            \/ CompareJurisdictions(s, cost) \/ GenerateMarketReport(s, cost)
            \/ ClassifyDocument(s, cost)
       \/ ApproveStrategy(s) \/ RejectStrategy(s)
       \/ \E verdict \in {"approved", "rejected"} : DecideInQueue(s, verdict)

-----------------------------------------------------------------------------

Strategies == {s \in Study : study[s].kind = "strategy" /\ study[s].row # "none"}

(* Strategies of a matter that were awaited at the same time, or decided   *)
(* from two places, keep apart: no two have one version; what stands in    *)
(* strategy.md was approved, and so was its review; and a draft whose      *)
(* review is no longer pending was decided in the queue, or its decision   *)
(* was cut short (strategy-generator.ts:49-55, 201-262).                   *)
StrategiesAreInOrder ==
  /\ \A s, t \in Strategies : s # t => study[s].version # study[t].version
  /\ memo # NoStudy => study[memo].row = "approved"
  /\ \A s \in Strategies :
       \/ study[s].row = study[s].review
       \/ study[s].row = "draft" /\ (study[s].review = "pending" \/ s \in inQueue \cup hurt)

=============================================================================
