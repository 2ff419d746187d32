----------------------------- MODULE Compliance -----------------------------
(***************************************************************************)
(* What is kept about matters and clients for the regulator: when each     *)
(* file is due to be reviewed (compliance/file-review.ts), whether a list  *)
(* of sanctions names the client (aml.ts), and what of a matter's budget   *)
(* is spent (matters/budgeting.ts).                                        *)
(*                                                                         *)
(* Time passes in thirties of days, the unit of the review intervals, and  *)
(* one client and one budget are followed.  The entries of the audit log   *)
(* are the matter of AuditChain.                                           *)
(***************************************************************************)
EXTENDS Handlers, Integers

CONSTANTS
  File,        \* matters
  LastMonth,   \* bound: the calendar
  Screening,   \* bound: screenings of the client
  Sum,         \* bound: amounts that are estimated or spent
  MaxSpent     \* bound: the total

ASSUME ComplianceAssumption == Sum \subseteq Int /\ {LastMonth, MaxSpent} \subseteq Nat

VARIABLES
  month,       \* the time
  files,       \* matters: status and type
  schedule,    \* file_review_schedules
  watched,     \* (history) when each file was last reviewed, or when the watch over it began
  named,       \* whether the list names the client
  screening,   \* aml_screenings, and those that await the list
  decision,    \* (history) what a lawyer decided last about each
  budget,      \* matter_budgets: the estimated total
  spent,       \* matter_disbursements and the lawyers' time
  wasOver      \* (history) over budget since it was last set or credited

reviewVars == <<month, files, schedule, watched>>
screeningVars == <<named, screening, decision>>
budgetVars == <<budget, spent, wasOver>>
complianceVars == <<reviewVars, screeningVars, budgetVars>>

IntervalByType == [litigation |-> 1, contract |-> 2, wills |-> 3]
FileState == [status : {"none", "open", "on_hold", "closed"}, type : DOMAIN IntervalByType]

ReviewSchedule == [interval : 1..3, due : Nat]
NoSchedule == [interval |-> 0, due |-> 0]
Never == 0

ScreeningState == [status : {"none", "asked", "clear", "flagged", "cleared_by_review", "blocked"},
                   lookup : {"none", "match", "no match", "failed"}]

ComplianceTypeOK ==
  /\ month \in Nat
  /\ files \in [File -> FileState]
  /\ schedule \in [File -> ReviewSchedule \cup {NoSchedule}]
  /\ watched \in [File -> Nat]
  /\ named \in BOOLEAN
  /\ screening \in [Screening -> ScreeningState]
  /\ decision \in [Screening -> {"none", "cleared_by_review", "blocked"}]
  /\ budget \in Int /\ spent \in Int /\ wasOver \in BOOLEAN

ComplianceInit ==
  /\ month = 1
  /\ files = [f \in File |-> [status |-> "none", type |-> "contract"]]
  /\ schedule = [f \in File |-> NoSchedule]
  /\ watched = [f \in File |-> Never]
  /\ named = FALSE
  /\ screening = [s \in Screening |-> [status |-> "none", lookup |-> "none"]]
  /\ decision = [s \in Screening |-> "none"]
  /\ budget = 0 /\ spent = 0 /\ wasOver = FALSE

-----------------------------------------------------------------------------

NextMonth ==
  /\ month < LastMonth /\ month' = month + 1
  /\ UNCHANGED <<handlerVars, files, schedule, watched>>

OpenFile(f, type) ==
  /\ files[f].status = "none"
  /\ files' = [files EXCEPT ![f] = [status |-> "open", type |-> type]]
  /\ UNCHANGED <<handlerVars, month, schedule, watched>>

(* PATCH of a matter: the schedule keeps the interval of the old type.     *)
UpdateFile(f, status, type) ==
  /\ files[f].status # "none" /\ Request
  /\ files' = [files EXCEPT ![f] = [status |-> status, type |-> type]]
  /\ UNCHANGED <<mishaps, hurt, month, schedule, watched>>

(* ensureSchedule                                                          *)
EnsureSchedule(f) ==
  LET interval == IntervalByType[files[f].type] IN
  IF schedule[f] # NoSchedule THEN schedule[f] ELSE [interval |-> interval, due |-> month + interval]

(* ensureSchedulesForAllOpenMatters, at each start: the first statement    *)
(* that throws ends it.                                                    *)
Start ==
  LET open == {f \in File : files[f].status = "open"} IN
  \E seen \in SUBSET open :
    /\ schedule' = [f \in File |-> IF f \in seen THEN EnsureSchedule(f) ELSE schedule[f]]
    /\ watched' = [f \in File |-> IF f \in seen /\ watched[f] = Never THEN month ELSE watched[f]]
    /\ IF seen = open THEN UNCHANGED mishaps ELSE mishaps < MaxMishaps /\ mishaps' = mishaps + 1
    /\ UNCHANGED <<edits, hurt, month, files>>

(* POST /compliance/file-review/:id/complete: ensureSchedule, then         *)
(* recordReview.                                                           *)
CompleteReview(f) ==
  /\ files[f].status # "none" /\ Request
  /\ \/ /\ schedule' = [schedule EXCEPT ![f] =
             [interval |-> EnsureSchedule(f).interval, due |-> month + EnsureSchedule(f).interval]]
        /\ watched' = [watched EXCEPT ![f] = month]
        /\ UNCHANGED mishaps
     \/ /\ mishaps < MaxMishaps /\ mishaps' = mishaps + 1
        /\ schedule' = [schedule EXCEPT ![f] = EnsureSchedule(f)]
        /\ watched' = [watched EXCEPT ![f] = IF @ = Never THEN month ELSE @]
  /\ UNCHANGED <<hurt, month, files>>

(* listOverdueReviews                                                      *)
IsOverdue(f) == schedule[f] # NoSchedule /\ schedule[f].due < month

FileReviewStep ==
  /\ \/ NextMonth \/ Start
     \/ \E f \in File : \/ CompleteReview(f)
                        \/ \E type \in DOMAIN IntervalByType :
                             \/ OpenFile(f, type)
                             \/ \E status \in {"open", "on_hold", "closed"} : UpdateFile(f, status, type)
  /\ UNCHANGED <<screeningVars, budgetVars>>

-----------------------------------------------------------------------------

(* The list changes, and whoever keeps it tells nobody.                    *)
ListChanges ==
  /\ named' = ~named
  /\ UNCHANGED <<handlerVars, screening, decision>>

(* screenClient up to the await of the list.                               *)
AskList(s) ==
  /\ screening[s].status = "none" /\ Request
  /\ screening' = [screening EXCEPT ![s].status = "asked"]
  /\ UNCHANGED <<mishaps, hurt, named, decision>>

(* externalLookup answers; one that failed counts as no match.             *)
ScreenClient(s) ==
  /\ screening[s].status = "asked"
  /\ \E lookup \in {IF named THEN "match" ELSE "no match", "failed"} :
       screening' = [screening EXCEPT ![s] =
         [status |-> IF lookup = "match" THEN "flagged" ELSE "clear", lookup |-> lookup]]
  /\ UNCHANGED <<handlerVars, named, decision>>

DecidedAlone(s, verdict) == [screening EXCEPT ![s].status = verdict]

(* reviewScreening, of whatever screening the request names.               *)
ReviewScreening(s, verdict) ==
  /\ screening[s].lookup # "none" /\ Request
  /\ screening' = DecidedAlone(s, verdict)
  /\ decision' = [decision EXCEPT ![s] = verdict]
  /\ UNCHANGED <<mishaps, hurt, named>>

ScreeningStep ==
  /\ \/ ListChanges
     \/ \E s \in Screening : \/ AskList(s) \/ ScreenClient(s)
                             \/ \E v \in {"cleared_by_review", "blocked"} : ReviewScreening(s, v)
  /\ UNCHANGED <<reviewVars, budgetVars>>

-----------------------------------------------------------------------------

(* The alerts alert_75_sent_at and alert_90_sent_at hold: only             *)
(* dispatchBudgetAlerts writes them, and nothing calls it.                 *)
AlertsSent == {}

(* getBudgetStatus: the percentage is rounded, and no alert is due that    *)
(* was sent.                                                               *)
BudgetStatus(total, estimate) ==
  LET percentage == IF estimate > 0 THEN (200 * total + estimate) \div (2 * estimate) ELSE 0
  IN [alert75 |-> percentage >= 75 /\ 75 \notin AlertsSent,
      alert90 |-> percentage >= 90 /\ 90 \notin AlertsSent,
      over |-> percentage >= 100]

SetMatterBudget(estimate) ==
  /\ budget' = estimate /\ wasOver' = BudgetStatus(spent, estimate).over
  /\ UNCHANGED <<handlerVars, spent>>

(* recordDisbursement, a credit too, and the lawyers' hours.               *)
RecordDisbursement(amount) ==
  /\ spent + amount \in (-MaxSpent)..MaxSpent
  /\ spent' = spent + amount
  /\ wasOver' = (BudgetStatus(spent', budget).over \/ (wasOver /\ amount > 0))
  /\ UNCHANGED <<handlerVars, budget>>

BudgetStep ==
  /\ \E amount \in Sum : SetMatterBudget(amount) \/ RecordDisbursement(amount)
  /\ UNCHANGED <<reviewVars, screeningVars>>

-----------------------------------------------------------------------------

(* An open file that was not reviewed for the interval it was given is     *)
(* listed as overdue, from the first start or review that saw it on,       *)
(* whatever the matter went through and however often the program is       *)
(* started; one reviewed in time is not (file-review.ts:48-95, 130-142).   *)
NeglectIsListed ==
  \A f \in File : watched[f] # Never =>
    (IsOverdue(f) <=> month > watched[f] + schedule[f].interval)

(* A match stays on the list of the flagged until a lawyer decides about   *)
(* it, and what he decided stays, whatever other screenings of the client  *)
(* bring; a client the list named is clear only of a lookup that failed    *)
(* (aml.ts:76-140, 167-186).                                               *)
MatchesAreDecided ==
  \A s \in Screening : screening[s].lookup # "none" =>
    screening[s].status = IF decision[s] # "none" THEN decision[s]
                          ELSE IF screening[s].lookup = "match" THEN "flagged" ELSE "clear"

(* A matter over its budget shows so until the budget is set anew or a    *)
(* credit comes, whatever is recorded meanwhile; it does when all is       *)
(* spent, and not while more than half a percent is left                   *)
(* (budgeting.ts:172-188).                                                 *)
OverrunsShow ==
  LET status == BudgetStatus(spent, budget) IN
  /\ wasOver => status.over
  /\ (budget > 0 /\ spent >= budget) => status.over
  /\ status.over => 200 * spent >= 199 * budget

=============================================================================
