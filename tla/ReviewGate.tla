----------------------------- MODULE ReviewGate -----------------------------
(***************************************************************************)
(* The human review gate (compliance/reviewGate.ts): the review_queue      *)
(* table, the decisions lawyers take on its rows, and the review_queue.*   *)
(* rows of the append-only legal audit log that record them.               *)
(*                                                                         *)
(* The program is one Node.js process over synchronous SQLite, so a        *)
(* handler that does not await runs without interruption; but each of its  *)
(* SQL statements commits on its own, so the process may die after any of  *)
(* them.  Every handler here writes the queue first and the log second:    *)
(* Log(e) is that second statement, which either happens or is cut off.    *)
(***************************************************************************)
EXTENDS Naturals

CONSTANTS
  Review,       \* ids of review_queue rows
  Lawyer,       \* the people who decide
  Skill,        \* the actor of an enqueue ("skill:<id>")
  Body,         \* markdown bodies
  Disclaimed,   \* the bodies that carry the AI disclaimer block
  NoOne,        \* reviewed_by IS NULL
  NoBody,       \* the body of a row that does not exist
  MaxCrashes    \* bound: how often the process dies

ASSUME GateAssumption ==
  /\ Disclaimed \subseteq Body
  /\ NoOne \notin Lawyer
  /\ NoBody \notin Body
  /\ MaxCrashes \in Nat

VARIABLES
  status,     \* review_queue.status; "none" before the INSERT
  reviewer,   \* review_queue.reviewed_by
  body,       \* review_queue.body_markdown
  ledger,     \* the review_queue.* rows of legal_audit_log
  up,         \* is the process running?
  crashes     \* how often it has died (bounded by MaxCrashes)

gateVars == <<status, reviewer, body, ledger, up, crashes>>

Status == {"none", "pending", "approved", "rejected", "sent"}
Entry == [act : {"enqueue", "approve", "reject", "sent"},
          by : Lawyer \cup {Skill}, ref : Review]

GateTypeOK ==
  /\ status \in [Review -> Status]
  /\ reviewer \in [Review -> Lawyer \cup {NoOne}]
  /\ body \in [Review -> Body \cup {NoBody}]
  /\ ledger \subseteq Entry
  /\ up \in BOOLEAN
  /\ crashes \in Nat

GateInit ==
  /\ status = [r \in Review |-> "none"]
  /\ reviewer = [r \in Review |-> NoOne]
  /\ body = [r \in Review |-> NoBody]
  /\ ledger = {}
  /\ up = TRUE
  /\ crashes = 0

-----------------------------------------------------------------------------

Die ==
  /\ up
  /\ crashes < MaxCrashes
  /\ up' = FALSE
  /\ crashes' = crashes + 1

(* The process dies between two handlers.                                  *)
Crash == Die /\ UNCHANGED <<status, reviewer, body, ledger>>

(* The service manager starts it again; the tables are as they were.       *)
Restart ==
  /\ ~up
  /\ up' = TRUE
  /\ UNCHANGED <<status, reviewer, body, ledger, crashes>>

(* The statement after the UPDATE or INSERT: the audit row is appended, or *)
(* the process dies before it is.                                          *)
Log(act, by, r) ==
  \/ /\ ledger' = ledger \cup {[act |-> act, by |-> by, ref |-> r]}
     /\ UNCHANGED <<up, crashes>>
  \/ /\ Die
     /\ UNCHANGED ledger

(* enqueueForReview: refuses a body without the disclaimer, otherwise      *)
(* inserts a pending row.                                                  *)
EnqueueForReview(r, b) ==
  /\ up
  /\ status[r] = "none"
  /\ b \in Disclaimed
  /\ status' = [status EXCEPT ![r] = "pending"]
  /\ body' = [body EXCEPT ![r] = b]
  /\ UNCHANGED reviewer
  /\ Log("enqueue", Skill, r)

(* Seeded fault: a decision that does not look at the current status.      *)
ApproveUnguarded(r, u) ==
  /\ up
  /\ status[r] # "none"
  /\ status' = [status EXCEPT ![r] = "approved"]
  /\ reviewer' = [reviewer EXCEPT ![r] = u]
  /\ UNCHANGED body
  /\ Log("approve", u, r)

(* approveReview throws unless the row is pending.                         *)
ApproveReview(r, u) ==
  /\ up
  /\ status[r] = "pending"
  /\ status' = [status EXCEPT ![r] = "approved"]
  /\ reviewer' = [reviewer EXCEPT ![r] = u]
  /\ UNCHANGED body
  /\ Log("approve", u, r)

(* rejectReview has the same guard.                                        *)
RejectReview(r, u) ==
  /\ up
  /\ status[r] = "pending"
  /\ status' = [status EXCEPT ![r] = "rejected"]
  /\ reviewer' = [reviewer EXCEPT ![r] = u]
  /\ UNCHANGED body
  /\ Log("reject", u, r)

(* markReviewSent throws unless the row is approved.                       *)
MarkReviewSent(r, u) ==
  /\ up
  /\ status[r] = "approved"
  /\ status' = [status EXCEPT ![r] = "sent"]
  /\ UNCHANGED <<reviewer, body>>
  /\ Log("sent", u, r)

(* The outbound channels' guard.                                           *)
AssertApproved(r) == status[r] = "approved"

GateStep ==
  \E r \in Review :
    \/ \E b \in Body : EnqueueForReview(r, b)
    \/ \E u \in Lawyer :
         \/ ApproveReview(r, u)
         \/ RejectReview(r, u)
         \/ MarkReviewSent(r, u)

-----------------------------------------------------------------------------

Granted(r) == status[r] \in {"approved", "sent"}
Decided(r) == Granted(r) \/ status[r] = "rejected"

(* How the promise of GatedRelease reads a status.                         *)
VerdictOf == [none |-> "absent", pending |-> "open", approved |-> "granted",
              rejected |-> "refused", sent |-> "granted"]

(* Nobody changes a decision after it is taken, however many reviewers,    *)
(* supervisors and channels act on the row: an approved row can only       *)
(* become sent, the others stay, and reviewed_by stays (the status guards  *)
(* of approveReview, rejectReview and markReviewSent).                     *)
VerdictIsFinal ==
  [][\A r \in Review :
       /\ Granted(r) => Granted(r)'
       /\ status[r] = "sent" => status'[r] = "sent"
       /\ status[r] = "rejected" => status'[r] = "rejected"
       /\ Decided(r) => reviewer'[r] = reviewer[r]]_<<status, reviewer>>

(* The log never tells a story the queue contradicts: an approval or       *)
(* rejection row names the reviewer and the verdict the queue holds, so no *)
(* item has two verdicts on record (reviewGate.ts:10-12).                  *)
LedgerIsTruthful ==
  \A e \in ledger :
    /\ e.act = "approve" => Granted(e.ref) /\ reviewer[e.ref] = e.by
    /\ e.act = "reject" => status[e.ref] = "rejected" /\ reviewer[e.ref] = e.by
    /\ e.act = "sent" => status[e.ref] = "sent"

=============================================================================
