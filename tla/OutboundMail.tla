---------------------------- MODULE OutboundMail ----------------------------
(***************************************************************************)
(* Outbound email behind the review gate (communication/outbound-email.ts) *)
(* with the decisions of ReviewGate and Supervision running against it.    *)
(*                                                                         *)
(* sendOutboundEmail reads its row and passes the gate before it awaits    *)
(* the SMTP relay, and writes the row after; a second call may start, a    *)
(* supervisor may act, or the process may die in between.  A call is a     *)
(* Sender; its phases are the points at which it can be overtaken.         *)
(***************************************************************************)
EXTENDS Supervision, FiniteSets

CONSTANTS
  Sender,         \* calls of sendOutboundEmail in flight at the same time
  NoReview,       \* the target of a sender that is idle
  StoreMayFail,   \* may the bookkeeping after the send throw?
  MaxLapses       \* bound: how often calls for one email end without it

ASSUME MailAssumption ==
  /\ NoReview \notin Review
  /\ IsFiniteSet(Sender)
  /\ StoreMayFail \in BOOLEAN
  /\ MaxLapses \in Nat

VARIABLES
  mail,       \* outbound_emails.status; one row per review (UNIQUE)
  mailBody,   \* outbound_emails.body_markdown
  phase,      \* where each call of sendOutboundEmail is
  target,     \* the review whose email it sends
  shipped,    \* how often the relay has accepted the email of each review
  lapses      \* history: how often a call has ended with its row untouched

mailVars == <<mail, mailBody, phase, target, shipped, lapses>>
vars == <<gateVars, supVars, mailVars>>

Phase == {"idle", "dialling", "accepted", "refused"}

MailTypeOK ==
  /\ mail \in [Review -> {"none", "queued", "sent", "failed"}]
  /\ mailBody \in [Review -> Body \cup {NoBody}]
  /\ phase \in [Sender -> Phase]
  /\ target \in [Sender -> Review \cup {NoReview}]
  /\ shipped \in [Review -> Nat]
  /\ lapses \in [Review -> Nat]

TypeOK == GateTypeOK /\ SupTypeOK /\ MailTypeOK

Init ==
  /\ GateInit
  /\ SupInit
  /\ mail = [r \in Review |-> "none"]
  /\ mailBody = [r \in Review |-> NoBody]
  /\ phase = [s \in Sender |-> "idle"]
  /\ target = [s \in Sender |-> NoReview]
  /\ shipped = [r \in Review |-> 0]
  /\ lapses = [r \in Review |-> 0]

-----------------------------------------------------------------------------

(* queueOutboundEmail copies the text it is given; the caller passes the   *)
(* text the review holds at that moment.                                   *)
QueueOutboundEmail(r) ==
  /\ up
  /\ status[r] # "none"
  /\ mail[r] = "none"
  /\ mail' = [mail EXCEPT ![r] = "queued"]
  /\ mailBody' = [mailBody EXCEPT ![r] = body[r]]
  /\ UNCHANGED <<phase, target, shipped, lapses, gateVars, supVars>>

(* Seeded faults: the gate is not asked; a failed email may be sent again. *)
BeginSendUngated(s, r) ==
  /\ up
  /\ phase[s] = "idle"
  /\ mail[r] = "queued"
  /\ phase' = [phase EXCEPT ![s] = "dialling"]
  /\ target' = [target EXCEPT ![s] = r]
  /\ UNCHANGED <<mail, mailBody, shipped, lapses, gateVars, supVars>>

BeginSendAgain(s, r) ==
  /\ up
  /\ phase[s] = "idle"
  /\ mail[r] \in {"queued", "failed"}
  /\ AssertApproved(r)
  /\ phase' = [phase EXCEPT ![s] = "dialling"]
  /\ target' = [target EXCEPT ![s] = r]
  /\ UNCHANGED <<mail, mailBody, shipped, lapses, gateVars, supVars>>

(* sendOutboundEmail up to the await: the row is queued, the review is     *)
(* approved, the transport is dialled.  Otherwise it throws, unchanged.    *)
BeginSend(s, r) ==
  /\ up
  /\ phase[s] = "idle"
  /\ mail[r] = "queued"
  /\ AssertApproved(r)
  /\ phase' = [phase EXCEPT ![s] = "dialling"]
  /\ target' = [target EXCEPT ![s] = r]
  /\ UNCHANGED <<mail, mailBody, shipped, lapses, gateVars, supVars>>

(* The relay, outside the process: it accepts or refuses the message, and  *)
(* its acceptance may get lost on the way back.                            *)
RelayAccepts(s) ==
  /\ phase[s] = "dialling"
  /\ phase' = [phase EXCEPT ![s] = "accepted"]
  /\ shipped' = [shipped EXCEPT ![target[s]] = @ + 1]
  /\ UNCHANGED <<mail, mailBody, target, lapses, gateVars, supVars>>

RelayRefuses(s) ==
  /\ phase[s] = "dialling"
  /\ phase' = [phase EXCEPT ![s] = "refused"]
  /\ UNCHANGED <<mail, mailBody, target, shipped, lapses, gateVars, supVars>>

AcceptanceIsLost(s) ==
  /\ phase[s] = "accepted"
  /\ phase' = [phase EXCEPT ![s] = "refused"]
  /\ UNCHANGED <<mail, mailBody, target, shipped, lapses, gateVars, supVars>>

(* Seeded fault: a refused send leaves the row queued.                     *)
SettleForgets(s, outcome) ==
  /\ up
  /\ mail' = [mail EXCEPT ![target[s]] =
                IF outcome = "failed" THEN "queued" ELSE outcome]
  /\ phase' = [phase EXCEPT ![s] = "idle"]
  /\ target' = [target EXCEPT ![s] = NoReview]
  /\ UNCHANGED <<mailBody, shipped, lapses, gateVars, supVars>>

(* The call returns with the given outcome on its row.                     *)
Settle(s, outcome) ==
  /\ up
  /\ mail' = [mail EXCEPT ![target[s]] = outcome]
  /\ phase' = [phase EXCEPT ![s] = "idle"]
  /\ target' = [target EXCEPT ![s] = NoReview]
  /\ UNCHANGED <<mailBody, shipped, lapses, gateVars, supVars>>

FinishSend(s) == phase[s] = "accepted" /\ Settle(s, "sent")

(* The catch block marks the row failed: after a refusal, and also when    *)
(* the UPDATE or the audit row after a successful send throws.             *)
FailSend(s) ==
  /\ phase[s] = "refused" \/ (phase[s] = "accepted" /\ StoreMayFail)
  /\ Settle(s, "failed")

(* The catch block's own UPDATE may throw as well, after a refusal or      *)
(* after the first UPDATE threw: the call ends and the row is as it was,   *)
(* queued unless another call has settled it.                              *)
Lapse(s) ==
  /\ up
  /\ StoreMayFail
  /\ phase[s] \in {"accepted", "refused"}
  /\ lapses[target[s]] < MaxLapses
  /\ lapses' = [lapses EXCEPT ![target[s]] = @ + 1]
  /\ phase' = [phase EXCEPT ![s] = "idle"]
  /\ target' = [target EXCEPT ![s] = NoReview]
  /\ UNCHANGED <<mail, mailBody, shipped, gateVars, supVars>>

(* After a crash the calls in flight are gone; their rows stay queued.     *)
RestartMail ==
  /\ Restart
  /\ phase' = [s \in Sender |-> "idle"]
  /\ target' = [s \in Sender |-> NoReview]
  /\ UNCHANGED <<mail, mailBody, shipped, lapses, supVars>>

MailStep ==
  \/ \E r \in Review : QueueOutboundEmail(r)
  \/ \E s \in Sender :
       \/ \E r \in Review : BeginSend(s, r)
       \/ RelayAccepts(s)
       \/ RelayRefuses(s)
       \/ AcceptanceIsLost(s)
       \/ FinishSend(s)
       \/ FailSend(s)
       \/ Lapse(s)

Next ==
  \/ SupStep /\ UNCHANGED mailVars
  \/ MailStep
  \/ Crash /\ UNCHANGED <<supVars, mailVars>>
  \/ RestartMail

Spec == Init /\ [][Next]_vars

(* The relay answers or the dialogue times out, the event loop runs the    *)
(* continuation, and the service manager restarts a dead process.  Nobody  *)
(* is obliged to approve, to send or to crash.                             *)
Fairness ==
  /\ \A s \in Sender :
       /\ WF_vars(RelayAccepts(s) \/ RelayRefuses(s))
       /\ WF_vars(FinishSend(s) \/ FailSend(s) \/ Lapse(s))
  /\ WF_vars(RestartMail)

FairSpec == Spec /\ Fairness

-----------------------------------------------------------------------------

(* reviewGate.ts:4-8: nothing reaches a client without a named lawyer's    *)
(* approval.  The relay accepts long after the guard was passed.           *)
ShippedWasApproved ==
  \A r \in Review : shipped[r] > 0 => Granted(r) /\ reviewer[r] \in Lawyer

(* A row marked sent was really sent: no refusal, lost answer, second call *)
(* or crash marks an email sent that never left.                           *)
SentMeansShipped == \A r \in Review : mail[r] = "sent" => shipped[r] > 0

(* What the status check is worth all the same: one email ships at most    *)
(* once per overlapping call, again after each crash, and once more for    *)
(* each call whose own UPDATEs threw, since such a row stays queued; with  *)
(* calls that do not overlap and a store that works, once, whatever the    *)
(* relay answers.                                                          *)
ResendsAreBounded ==
  \A r \in Review : shipped[r] <= Cardinality(Sender) * (1 + crashes) + lapses[r]

(* A call in flight settles its row, whatever the relay does; only a crash *)
(* or an UPDATE of the catch block that throws leaves the row queued.      *)
SendSettles ==
  \A r \in Review :
    (\E s \in Sender : target[s] = r)
      ~> (mail[r] \in {"sent", "failed"} \/ crashes > 0 \/ lapses[r] > 0)

(* The gate and its mail channel implement the abstract promise of         *)
(* GatedRelease: an item is granted once approved, released once a relay   *)
(* has accepted it (reviewGate.ts:4-8).                                    *)
Promise == INSTANCE GatedRelease WITH
  Item <- Review,
  verdict <- [r \in Review |-> VerdictOf[status[r]]],
  released <- {r \in Review : shipped[r] > 0}

(* Every step of gate, supervision and channel is a step of the promise.   *)
ImplementsPromise == Promise!Spec

-----------------------------------------------------------------------------

(* What makes ShippedWasApproved inductive: a call past the gate holds a   *)
(* review that is granted and stays so, and a decided row has a reviewer.  *)
InFlightIsGranted ==
  \A s \in Sender :
    /\ phase[s] = "idle" => target[s] = NoReview
    /\ phase[s] # "idle" => target[s] \in Review /\ Granted(target[s])
    /\ phase[s] = "accepted" => shipped[target[s]] > 0

DecidedIsSigned == \A r \in Review : Decided(r) => reviewer[r] \in Lawyer

IInv ==
  /\ TypeOK
  /\ InFlightIsGranted
  /\ DecidedIsSigned
  /\ ShippedWasApproved
  /\ SentMeansShipped

(* What makes NoOrphanedSecondary inductive: a secondary review is of a    *)
(* review that is there.                                                   *)
SecondaryHasReview == \A r \in Review : secondary[r] # "none" => status[r] # "none"

(* What makes ResendsAreBounded inductive.  While the row is queued each   *)
(* call for it that has returned in this life of the process has lapsed,   *)
(* so an accepted email is of an earlier life, of a lapse or of a call     *)
(* that is still in flight; once it is settled no call is added, and those *)
(* that dial are all that can still ship.                                  *)
InFlight(r) == {s \in Sender : target[s] = r}
Dialling(r) == {s \in Sender : target[s] = r /\ phase[s] = "dialling"}
Lives == IF up THEN crashes + 1 ELSE crashes

SendsAreCounted ==
  /\ ~up => crashes > 0
  /\ \A r \in Review :
       /\ mail[r] = "none" => shipped[r] = 0 /\ InFlight(r) = {}
       /\ mail[r] = "queued" =>
            shipped[r] + Cardinality(Dialling(r))
              <= Cardinality(Sender) * (Lives - 1) + Cardinality(InFlight(r)) + lapses[r]
       /\ shipped[r] + Cardinality(Dialling(r)) <= Cardinality(Sender) * Lives + lapses[r]

=============================================================================
