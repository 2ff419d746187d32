----------------------------- MODULE Supervision -----------------------------
(***************************************************************************)
(* Matter supervision (matters/supervision.ts) over the review gate: a     *)
(* junior's approval on a supervised matter queues a secondary review for  *)
(* the partner instead of approving.  The dashboard's /review page keeps   *)
(* calling approveReview and rejectReview directly, so both ways of        *)
(* deciding a row run against each other.                                  *)
(***************************************************************************)
EXTENDS ReviewGate

CONSTANTS
  Matter,
  MatterOf,   \* review_queue.matter_id
  KindOf      \* review_queue.output_kind

OutputKind == {"contract_review", "research_memo", "drafted_document",
               "client_email", "matter_management", "regulatory_alert"}
SupervisionLevel == {"all", "client_only", "court_only"}

ASSUME SupervisionAssumption ==
  /\ MatterOf \in [Review -> Matter]
  /\ KindOf \in [Review -> OutputKind]

VARIABLES
  level,      \* matter_supervision: the level, or "off" without an enabled row
  secondary   \* secondary_reviews.status, one row per review (UNIQUE)

supVars == <<level, secondary>>

SupTypeOK ==
  /\ level \in [Matter -> SupervisionLevel \cup {"off"}]
  /\ secondary \in [Review -> {"none", "pending", "approved", "edited", "rejected"}]

SupInit ==
  /\ level = [m \in Matter |-> "off"]
  /\ secondary = [r \in Review |-> "none"]

-----------------------------------------------------------------------------

EnableSupervision(m, l) ==
  /\ up
  /\ level' = [level EXCEPT ![m] = l]
  /\ UNCHANGED <<secondary, gateVars>>

DisableSupervision(m) ==
  /\ up
  /\ level[m] # "off"
  /\ level' = [level EXCEPT ![m] = "off"]
  /\ UNCHANGED <<secondary, gateVars>>

NeedsSecondary(r) ==
  LET l == level[MatterOf[r]] IN
    \/ l = "all"
    \/ l = "client_only" /\ KindOf[r] \in {"client_email", "drafted_document"}
    \/ l = "court_only" /\ KindOf[r] = "drafted_document"

(* juniorApprove on a supervised item: insert the secondary review.  The   *)
(* INSERT throws when the review already has one; the review's own status  *)
(* is not looked at.                                                       *)
QueueSecondary(r) ==
  /\ up
  /\ status[r] # "none"
  /\ NeedsSecondary(r)
  /\ secondary[r] = "none"
  /\ secondary' = [secondary EXCEPT ![r] = "pending"]
  /\ UNCHANGED <<level, gateVars>>

JuniorApprove(r, u) ==
  \/ QueueSecondary(r)
  \/ ~NeedsSecondary(r) /\ ApproveReview(r, u) /\ UNCHANGED supVars

(* Seeded fault: the supervisor's verdict never reaches the gate.          *)
ThenForget(r, u, verdict) == UNCHANGED <<status, reviewer, ledger, up, crashes>>

(* The second half of a supervisor's decision.  secondary_reviews is       *)
(* already updated when the gate is asked: the gate may take the decision, *)
(* throw because the row is decided already, or never be reached because   *)
(* the process dies first.                                                 *)
ThenDecide(r, u, verdict) ==
  \/ /\ status[r] = "pending"
     /\ status' = [status EXCEPT ![r] = verdict]
     /\ reviewer' = [reviewer EXCEPT ![r] = u]
     /\ Log(IF verdict = "approved" THEN "approve" ELSE "reject", u, r)
  \/ /\ status[r] # "pending"
     /\ UNCHANGED <<status, reviewer, ledger, up, crashes>>
  \/ /\ Die
     /\ UNCHANGED <<status, reviewer, ledger>>

SupervisorApprove(r, u) ==
  /\ up
  /\ secondary[r] # "none"
  /\ secondary' = [secondary EXCEPT ![r] = "approved"]
  /\ UNCHANGED <<level, body>>
  /\ ThenDecide(r, u, "approved")

(* supervisorEdit rewrites the review's body before the gate is asked, and *)
(* without looking for the disclaimer.                                     *)
SupervisorEdit(r, u, b) ==
  /\ up
  /\ secondary[r] # "none"
  /\ body' = [body EXCEPT ![r] = b]
  /\ UNCHANGED level
  /\ \/ /\ secondary' = [secondary EXCEPT ![r] = "edited"]
        /\ ThenDecide(r, u, "approved")
     \/ /\ Die
        /\ UNCHANGED <<secondary, status, reviewer, ledger>>

SupervisorReject(r, u) ==
  /\ up
  /\ secondary[r] # "none"
  /\ secondary' = [secondary EXCEPT ![r] = "rejected"]
  /\ UNCHANGED <<level, body>>
  /\ ThenDecide(r, u, "rejected")

SupStep ==
  \/ GateStep /\ UNCHANGED supVars
  \/ \E m \in Matter :
       \/ \E l \in SupervisionLevel : EnableSupervision(m, l)
       \/ DisableSupervision(m)
  \/ \E r \in Review, u \in Lawyer :
       \/ JuniorApprove(r, u)
       \/ SupervisorApprove(r, u)
       \/ \E b \in Body : SupervisorEdit(r, u, b)
       \/ SupervisorReject(r, u)

-----------------------------------------------------------------------------

(* Once the supervisor has acted and nothing was cut off, the item is no   *)
(* longer open on anyone's desk: it never sits pending with a secondary    *)
(* review that is closed (supervisorApprove, -Edit and -Reject go through  *)
(* the gate).                                                              *)
NoOrphanedSecondary ==
  \A r \in Review :
    secondary[r] \in {"approved", "edited", "rejected"} /\ crashes = 0
      => Decided(r)

(* supervision.ts:5-6: "any review-queue item approved by a junior lawyer  *)
(* enters a secondary_reviews queue for the supervising partner": while a  *)
(* matter stays supervised, an item of a captured kind is not approved     *)
(* without one.  Stated on the step that approves.                         *)
SupervisedNeedsPartner ==
  [][\A r \in Review :
       NeedsSecondary(r) /\ ~Granted(r) /\ Granted(r)' => secondary'[r] # "none"
    ]_<<status, secondary, level>>

=============================================================================
