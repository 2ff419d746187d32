------------------------------ MODULE Practice ------------------------------
(***************************************************************************)
(* What the lawyers reach through the dashboard besides the records of     *)
(* Office: the accounts they work under, what they ask of a model, the     *)
(* figures they act upon, the interviews of new clients, what is watched   *)
(* for the regulator, the partners they exchange matters with and the      *)
(* people outside they show documents to.                                  *)
(* The parts run in one process and share its calls and its mishaps, and   *)
(* no table that matters to two of them.                                   *)
(***************************************************************************)
EXTENDS Accounts, Studies, Questionnaires, Compliance, Exchange, Sharing

(* The records of two kinds are told apart by their names.                 *)
ASSUME PracticeAssumption == Person \cap Study = {}

figureVars == <<figure, interview>>
vars == <<handlerVars, accountVars, studyVars, figureVars, complianceVars, exchangeVars, sharingVars>>

TypeOK ==
  /\ HandlersTypeOK(Person \cup Study)
  /\ AccountsTypeOK
  /\ StudiesTypeOK
  /\ ComplianceTypeOK
  /\ ExchangeTypeOK
  /\ SharingTypeOK

Init ==
  /\ HandlersInit
  /\ AccountsInit
  /\ StudiesInit
  /\ FiguresInit
  /\ InterviewsInit
  /\ ComplianceInit
  /\ ExchangeInit
  /\ SharingInit

Access ==
  AccountStep /\ UNCHANGED <<studyVars, figureVars, complianceVars, exchangeVars, sharingVars>>
Advice ==
  StudyStep /\ UNCHANGED <<accountVars, figureVars, complianceVars, exchangeVars, sharingVars>>

notFigures == <<handlerVars, accountVars, studyVars, complianceVars, exchangeVars, sharingVars>>
Sums == FiguresStep /\ UNCHANGED <<interview, notFigures>>
Interviews == InterviewStep /\ UNCHANGED <<figure, notFigures>>

notCompliance == <<accountVars, studyVars, figureVars, exchangeVars, sharingVars>>
FileReviews == FileReviewStep /\ UNCHANGED notCompliance
Screenings == ScreeningStep /\ UNCHANGED notCompliance
Budgets == BudgetStep /\ UNCHANGED notCompliance

Partners ==
  ExchangeStep /\ UNCHANGED <<accountVars, studyVars, figureVars, complianceVars, sharingVars>>

notSharing == <<handlerVars, accountVars, studyVars, figureVars, complianceVars, exchangeVars>>
Outsiders == ShareStep /\ UNCHANGED notSharing
Counsel == CounselStep /\ UNCHANGED notSharing

Next ==
  Access \/ Advice \/ Sums \/ Interviews \/ FileReviews \/ Screenings \/ Budgets \/ Partners \/ Outsiders
  \/ Counsel

Spec == Init /\ [][Next]_vars

-----------------------------------------------------------------------------

(* The dates and warnings a lawyer acts upon are there when they should    *)
(* be: deadlines keep to the calendar (limitation-periods.ts), no warning  *)
(* is taken back while its cause lasts (pi-risk.ts), a file that is        *)
(* neglected is listed (file-review.ts), a match is answered by a decision *)
(* (aml.ts) and a budget that is exceeded shows so (budgeting.ts).         *)
WarningsCanBeReliedOn ==
  /\ DeadlinesKeepToTheCalendar
  /\ WarningsAreNotTakenBack
  /\ NeglectIsListed
  /\ MatchesAreDecided
  /\ OverrunsShow

=============================================================================
