------------------------- MODULE OutboundMail_proofs -------------------------
(***************************************************************************)
(* Safety of the review gate and its mail channel for any number of        *)
(* reviews, lawyers, matters and concurrent sends, and any bound on the    *)
(* crashes.                                                                *)
(***************************************************************************)
EXTENDS OutboundMail, FiniteSetTheorems, TLAPS

(* What a step of the gate or of supervision may do to the queue: nothing, *)
(* or move one row one status forward.                                     *)
Enqueues(r) ==
  /\ status[r] = "none"
  /\ status' = [status EXCEPT ![r] = "pending"]
  /\ UNCHANGED reviewer

Decides(r) ==
  /\ status[r] = "pending"
  /\ \E v \in {"approved", "rejected"} : status' = [status EXCEPT ![r] = v]
  /\ \E u \in Lawyer : reviewer' = [reviewer EXCEPT ![r] = u]

MarksSent(r) ==
  /\ status[r] = "approved"
  /\ status' = [status EXCEPT ![r] = "sent"]
  /\ UNCHANGED reviewer

QueueMove ==
  \/ UNCHANGED <<status, reviewer>>
  \/ \E r \in Review : Enqueues(r) \/ Decides(r) \/ MarksSent(r)

(* The second half of a supervisor's decision obeys the gate: it moves the *)
(* row only from pending (supervision.ts:142, :163 and :182).              *)
LEMMA ThenDecideMoves ==
  ASSUME NEW r \in Review, NEW u \in Lawyer, NEW v \in {"approved", "rejected"},
         ThenDecide(r, u, v)
  PROVE  QueueMove
  BY DEF ThenDecide, QueueMove, Decides

(* Whatever the dashboard, a junior or a supervisor does, the queue makes  *)
(* one of those moves (reviewGate.ts:164-244, supervision.ts:105-192).     *)
LEMMA SupStepMoves == SupStep => QueueMove
<1> SUFFICES ASSUME SupStep PROVE QueueMove
  OBVIOUS
<1>1. CASE GateStep
  BY <1>1 DEF GateStep, EnqueueForReview, ApproveReview, RejectReview, MarkReviewSent,
              QueueMove, Enqueues, Decides, MarksSent
<1>2. CASE \E m \in Matter : \/ \E l \in SupervisionLevel : EnableSupervision(m, l)
                             \/ DisableSupervision(m)
  BY <1>2 DEF EnableSupervision, DisableSupervision, gateVars, QueueMove
<1>3. ASSUME NEW r \in Review, NEW u \in Lawyer, JuniorApprove(r, u)
      PROVE  QueueMove
  BY <1>3 DEF JuniorApprove, QueueSecondary, ApproveReview, gateVars, QueueMove, Decides
<1>4. ASSUME NEW r \in Review, NEW u \in Lawyer, SupervisorApprove(r, u)
      PROVE  QueueMove
  BY <1>4, ThenDecideMoves DEF SupervisorApprove
<1>5. ASSUME NEW r \in Review, NEW u \in Lawyer, NEW b \in Body, SupervisorEdit(r, u, b)
      PROVE  QueueMove
  <2>1. CASE ThenDecide(r, u, "approved")
    BY <2>1, ThenDecideMoves
  <2>2. CASE UNCHANGED <<status, reviewer>>
    BY <2>2 DEF QueueMove
  <2>3. QED
    BY <1>5, <2>1, <2>2 DEF SupervisorEdit
<1>6. ASSUME NEW r \in Review, NEW u \in Lawyer, SupervisorReject(r, u)
      PROVE  QueueMove
  BY <1>6, ThenDecideMoves DEF SupervisorReject
<1>7. QED
  BY <1>1, <1>2, <1>3, <1>4, <1>5, <1>6 DEF SupStep

(* No step of the whole system moves the queue in any other way.           *)
LEMMA NextMoves == [Next]_vars => QueueMove
<1>1. SupStep => QueueMove
  BY SupStepMoves
<1>2. MailStep => UNCHANGED <<status, reviewer>>
  BY DEF MailStep, QueueOutboundEmail, BeginSend, RelayAccepts, RelayRefuses,
         AcceptanceIsLost, FinishSend, FailSend, Lapse, Settle, gateVars
<1>3. Crash \/ RestartMail \/ UNCHANGED vars => UNCHANGED <<status, reviewer>>
  BY DEF Crash, RestartMail, Restart, vars, gateVars
<1>4. QED
  BY <1>1, <1>2, <1>3 DEF Next, QueueMove

-----------------------------------------------------------------------------

QueueIsKept ==
  /\ status' \in [Review -> Status]
  /\ reviewer' \in [Review -> Lawyer \cup {NoOne}]
  /\ DecidedIsSigned'
  /\ \A r \in Review : Granted(r) => Granted(r)' /\ reviewer'[r] = reviewer[r]
  /\ \A r \in Review : status[r] = "sent" => status'[r] = "sent"
  /\ \A r \in Review : status[r] = "rejected" =>
       status'[r] = "rejected" /\ reviewer'[r] = reviewer[r]

(* What those moves preserve: a grant, and the name of who decided.        *)
LEMMA MovesKeepGrants ==
  ASSUME GateTypeOK, DecidedIsSigned, QueueMove
  PROVE  QueueIsKept
<1> USE DEF QueueIsKept, GateTypeOK, DecidedIsSigned, Granted, Decided, Status
<1>1. CASE UNCHANGED <<status, reviewer>>
  BY <1>1
<1>2. ASSUME NEW q \in Review, Enqueues(q)
      PROVE  QueueIsKept
  BY <1>2 DEF Enqueues
<1>3. ASSUME NEW q \in Review, Decides(q)
      PROVE  QueueIsKept
  <2>1. PICK v \in {"approved", "rejected"} : status' = [status EXCEPT ![q] = v]
    BY <1>3 DEF Decides
  <2>2. PICK u \in Lawyer : reviewer' = [reviewer EXCEPT ![q] = u]
    BY <1>3 DEF Decides
  <2>3. QED
    BY <1>3, <2>1, <2>2 DEF Decides
<1>4. ASSUME NEW q \in Review, MarksSent(q)
      PROVE  QueueIsKept
  BY <1>4 DEF MarksSent
<1>5. QED
  BY <1>1, <1>2, <1>3, <1>4 DEF QueueMove

(* A dying process leaves the crash counter and the up flag well typed.    *)
LEMMA DieTyped ==
  ASSUME crashes \in Nat, Die
  PROVE  up' \in BOOLEAN /\ crashes' \in Nat
<1>1. crashes' \in Nat
  BY SMT DEF Die
<1>2. up' \in BOOLEAN
  BY Zenon DEF Die
<1>3. QED
  BY <1>1, <1>2

(* The audit rows the gate writes are well formed.                         *)
LEMMA LogTyped ==
  ASSUME GateTypeOK, NEW act \in {"enqueue", "approve", "reject", "sent"},
         NEW by \in Lawyer \cup {Skill}, NEW r \in Review, Log(act, by, r)
  PROVE  ledger' \subseteq Entry /\ up' \in BOOLEAN /\ crashes' \in Nat
<1>1. [act |-> act, by |-> by, ref |-> r] \in Entry
  BY DEF Entry
<1>2. ledger' \subseteq Entry
  BY <1>1 DEF GateTypeOK, Log
<1>3. up' \in BOOLEAN /\ crashes' \in Nat
  BY DieTyped, Zenon DEF GateTypeOK, Log
<1>4. QED
  BY <1>2, <1>3

(* The remaining gate and supervision variables keep their types.          *)
LEMMA ThenDecideTyped ==
  ASSUME GateTypeOK, NEW r \in Review, NEW u \in Lawyer,
         NEW v \in {"approved", "rejected"}, ThenDecide(r, u, v)
  PROVE  ledger' \subseteq Entry /\ up' \in BOOLEAN /\ crashes' \in Nat
<1>1. CASE Log(IF v = "approved" THEN "approve" ELSE "reject", u, r)
  BY <1>1, LogTyped
<1>2. CASE UNCHANGED <<ledger, up, crashes>>
  BY <1>2 DEF GateTypeOK
<1>3. CASE Die /\ UNCHANGED ledger
  BY <1>3, DieTyped, Zenon DEF GateTypeOK
<1>4. QED
  BY <1>1, <1>2, <1>3 DEF ThenDecide

SideTypes ==
  /\ body \in [Review -> Body \cup {NoBody}]
  /\ ledger \subseteq Entry
  /\ up \in BOOLEAN
  /\ crashes \in Nat
  /\ SupTypeOK

(* Steps of gate and supervision keep bodies, log, process and supervision *)
(* well typed.                                                             *)
LEMMA SupStepTyped ==
  ASSUME GateTypeOK, SupTypeOK, SupStep
  PROVE  SideTypes'
<1>1. ASSUME NEW r \in Review, NEW b \in Body, EnqueueForReview(r, b), UNCHANGED supVars
      PROVE  SideTypes'
  <2>1. ledger' \subseteq Entry /\ up' \in BOOLEAN /\ crashes' \in Nat
    BY <1>1, LogTyped DEF EnqueueForReview
  <2>2. QED
    BY <1>1, <2>1 DEF EnqueueForReview, GateTypeOK, SupTypeOK, SideTypes, supVars
<1>2. ASSUME NEW r \in Review, NEW u \in Lawyer, UNCHANGED supVars,
             ApproveReview(r, u) \/ RejectReview(r, u) \/ MarkReviewSent(r, u)
      PROVE  SideTypes'
  <2>1. ledger' \subseteq Entry /\ up' \in BOOLEAN /\ crashes' \in Nat
    BY <1>2, LogTyped DEF ApproveReview, RejectReview, MarkReviewSent
  <2>2. QED
    BY <1>2, <2>1 DEF ApproveReview, RejectReview, MarkReviewSent, GateTypeOK,
                      SupTypeOK, SideTypes, supVars
<1>3. CASE \E m \in Matter : \/ \E l \in SupervisionLevel : EnableSupervision(m, l)
                             \/ DisableSupervision(m)
  BY <1>3 DEF EnableSupervision, DisableSupervision, gateVars, GateTypeOK, SupTypeOK,
              SideTypes
<1>4. ASSUME NEW r \in Review, QueueSecondary(r)
      PROVE  SideTypes'
  BY <1>4 DEF QueueSecondary, gateVars, GateTypeOK, SupTypeOK, SideTypes
<1>5. ASSUME NEW r \in Review, NEW u \in Lawyer,
             SupervisorApprove(r, u) \/ SupervisorReject(r, u)
      PROVE  SideTypes'
  <2>1. ledger' \subseteq Entry /\ up' \in BOOLEAN /\ crashes' \in Nat
    BY <1>5, ThenDecideTyped DEF SupervisorApprove, SupervisorReject
  <2>2. QED
    BY <1>5, <2>1 DEF SupervisorApprove, SupervisorReject, GateTypeOK, SupTypeOK,
                      SideTypes
<1>6. ASSUME NEW r \in Review, NEW u \in Lawyer, NEW b \in Body, SupervisorEdit(r, u, b)
      PROVE  SideTypes'
  <2> DEFINE LogTypes == ledger \subseteq Entry /\ up \in BOOLEAN /\ crashes \in Nat
  <2>1. ThenDecide(r, u, "approved") => LogTypes'
    BY ThenDecideTyped
  <2>2. Die /\ UNCHANGED ledger => LogTypes'
    BY DieTyped, Zenon DEF GateTypeOK
  <2>3. LogTypes'
    BY <1>6, <2>1, <2>2 DEF SupervisorEdit
  <2>4. QED
    BY <1>6, <2>3 DEF SupervisorEdit, GateTypeOK, SupTypeOK, SideTypes
<1>7. CASE GateStep /\ UNCHANGED supVars
  BY <1>1, <1>2, <1>7 DEF GateStep
<1>8. CASE \E r \in Review, u \in Lawyer : JuniorApprove(r, u)
  BY <1>2, <1>4, <1>8 DEF JuniorApprove
<1>9. QED
  BY <1>3, <1>5, <1>6, <1>7, <1>8 DEF SupStep

-----------------------------------------------------------------------------

(* A step outside the mail channel keeps what the channel relies on: the   *)
(* reviews its calls hold stay granted, with the same reviewer.            *)
LEMMA ChannelUndisturbed ==
  ASSUME IInv, QueueIsKept, SideTypes', UNCHANGED mailVars
  PROVE  IInv'
<1> USE DEF IInv
<1>1. TypeOK'
  BY DEF QueueIsKept, SideTypes, TypeOK, GateTypeOK, MailTypeOK, mailVars
<1>2. InFlightIsGranted'
  BY DEF InFlightIsGranted, QueueIsKept, mailVars
<1>3. ShippedWasApproved'
  BY DEF ShippedWasApproved, QueueIsKept, mailVars, TypeOK, GateTypeOK
<1>4. SentMeansShipped'
  BY DEF SentMeansShipped, mailVars
<1>5. QED
  BY <1>1, <1>2, <1>3, <1>4 DEF QueueIsKept

(* The initial tables satisfy the invariant.                               *)
LEMMA InitInv == Init => IInv
<1> SUFFICES ASSUME Init PROVE IInv
  OBVIOUS
<1> USE DEF Init, GateInit, SupInit
<1>1. TypeOK
  BY DEF TypeOK, GateTypeOK, SupTypeOK, MailTypeOK, Status, Phase
<1>2. InFlightIsGranted /\ DecidedIsSigned /\ ShippedWasApproved /\ SentMeansShipped
  BY DEF InFlightIsGranted, DecidedIsSigned, ShippedWasApproved, SentMeansShipped,
         Decided, Granted
<1>3. QED
  BY <1>1, <1>2 DEF IInv

(* Every step of the mail channel preserves the invariant: the gate is     *)
(* asked before a call takes a target, and the target stays granted.       *)
LEMMA MailStepInv == IInv /\ MailStep => IInv'
<1> SUFFICES ASSUME IInv, MailStep PROVE IInv'
  OBVIOUS
<1> USE DEF IInv, TypeOK, MailTypeOK, Phase
<1>0. UNCHANGED <<gateVars, supVars>>
  BY DEF MailStep, QueueOutboundEmail, BeginSend, RelayAccepts, RelayRefuses,
         AcceptanceIsLost, FinishSend, FailSend, Lapse, Settle
<1>1. /\ GateTypeOK' /\ SupTypeOK' /\ DecidedIsSigned'
      /\ \A r \in Review : Granted(r)' = Granted(r) /\ reviewer'[r] = reviewer[r]
  BY <1>0 DEF gateVars, supVars, GateTypeOK, SupTypeOK, DecidedIsSigned, Decided, Granted
<1>2. ASSUME NEW r \in Review, QueueOutboundEmail(r)
      PROVE  IInv'
  <2>1. MailTypeOK'
    BY <1>2 DEF QueueOutboundEmail, GateTypeOK
  <2>2. QED
    BY <1>1, <1>2, <2>1 DEF QueueOutboundEmail, InFlightIsGranted, ShippedWasApproved,
                            SentMeansShipped
<1>3. ASSUME NEW s \in Sender, NEW r \in Review, BeginSend(s, r)
      PROVE  IInv'
  <2>1. MailTypeOK'
    BY <1>3 DEF BeginSend
  <2>2. Granted(r)
    BY <1>3 DEF BeginSend, AssertApproved, Granted
  <2>3. InFlightIsGranted'
    BY <1>1, <1>3, <2>2 DEF BeginSend, InFlightIsGranted
  <2>4. QED
    BY <1>1, <1>3, <2>1, <2>3 DEF BeginSend, ShippedWasApproved, SentMeansShipped
<1>4. ASSUME NEW s \in Sender, RelayAccepts(s)
      PROVE  IInv'
  <2>1. target[s] \in Review /\ Granted(target[s])
    BY <1>4 DEF RelayAccepts, InFlightIsGranted
  <2>2. reviewer[target[s]] \in Lawyer
    BY <2>1 DEF DecidedIsSigned, Decided
  <2>3. MailTypeOK'
    BY <1>4, <2>1 DEF RelayAccepts
  <2>4. \A r \in Review : /\ shipped[r] > 0 => shipped'[r] > 0
                          /\ r # target[s] => shipped'[r] = shipped[r]
    BY <1>4, <2>1 DEF RelayAccepts
  <2>5. shipped'[target[s]] > 0
    BY <1>4, <2>1 DEF RelayAccepts
  <2>6. InFlightIsGranted'
    BY <1>1, <1>4, <2>1, <2>4, <2>5 DEF RelayAccepts, InFlightIsGranted
  <2>7. ShippedWasApproved' /\ SentMeansShipped'
    BY <1>1, <1>4, <2>1, <2>2, <2>4 DEF RelayAccepts, ShippedWasApproved, SentMeansShipped
  <2>8. QED
    BY <1>1, <2>3, <2>6, <2>7
<1>5. ASSUME NEW s \in Sender, RelayRefuses(s) \/ AcceptanceIsLost(s)
      PROVE  IInv'
  <2>1. MailTypeOK'
    BY <1>5 DEF RelayRefuses, AcceptanceIsLost
  <2>2. QED
    BY <1>1, <1>5, <2>1 DEF RelayRefuses, AcceptanceIsLost, InFlightIsGranted,
                            ShippedWasApproved, SentMeansShipped
<1>6. ASSUME NEW s \in Sender, FinishSend(s) \/ FailSend(s)
      PROVE  IInv'
  <2>1. PICK outcome \in {"sent", "failed"} :
          /\ Settle(s, outcome)
          /\ phase[s] # "idle"
          /\ outcome = "sent" => phase[s] = "accepted"
    BY <1>6 DEF FinishSend, FailSend
  <2>2. MailTypeOK'
    BY <2>1 DEF Settle
  <2>3. InFlightIsGranted' /\ ShippedWasApproved'
    BY <1>1, <2>1 DEF Settle, InFlightIsGranted, ShippedWasApproved
  <2>4. SentMeansShipped'
    BY <2>1 DEF Settle, SentMeansShipped, InFlightIsGranted
  <2>5. QED
    BY <1>1, <2>2, <2>3, <2>4
<1>7. ASSUME NEW s \in Sender, Lapse(s)
      PROVE  IInv'
  <2>1. MailTypeOK'
    <3>1. target[s] \in Review
      BY <1>7 DEF Lapse, InFlightIsGranted
    <3>2. QED
      BY <1>7, <3>1 DEF Lapse
  <2>2. QED
    BY <1>1, <1>7, <2>1 DEF Lapse, InFlightIsGranted, ShippedWasApproved, SentMeansShipped
<1>8. QED
  BY <1>2, <1>3, <1>4, <1>5, <1>6, <1>7 DEF MailStep

(* A crash and a restart preserve it: the calls in flight are forgotten.   *)
LEMMA CrashInv ==
  ASSUME IInv, (Crash /\ UNCHANGED <<supVars, mailVars>>) \/ RestartMail
  PROVE  IInv'
<1> USE DEF IInv
<1>1. UNCHANGED <<status, reviewer, body, ledger, supVars, mail, mailBody, shipped, lapses>>
  BY DEF Crash, RestartMail, Restart, mailVars
<1>2. up' \in BOOLEAN /\ crashes' \in Nat
  <2>1. CASE Crash
    BY <2>1, DieTyped, Zenon DEF Crash, TypeOK, GateTypeOK
  <2>2. CASE Restart
    <3>1. up' = TRUE /\ UNCHANGED crashes
      BY <2>2, Zenon DEF Restart
    <3>2. QED
      BY <3>1 DEF TypeOK, GateTypeOK
  <2>3. QED
    BY <2>1, <2>2 DEF RestartMail
<1>3. /\ phase' \in [Sender -> Phase]
      /\ target' \in [Sender -> Review \cup {NoReview}]
      /\ InFlightIsGranted'
  <2>1. CASE UNCHANGED mailVars
    BY <1>1, <2>1 DEF mailVars, InFlightIsGranted, TypeOK, MailTypeOK, Granted
  <2>2. CASE RestartMail
    BY <2>2 DEF RestartMail, InFlightIsGranted, Phase
  <2>3. QED
    BY <2>1, <2>2
<1>4. TypeOK'
  BY <1>1, <1>2, <1>3 DEF TypeOK, GateTypeOK, SupTypeOK, MailTypeOK, supVars
<1>5. DecidedIsSigned' /\ ShippedWasApproved' /\ SentMeansShipped'
  BY <1>1 DEF DecidedIsSigned, ShippedWasApproved, SentMeansShipped, Decided, Granted
<1>6. QED
  BY <1>3, <1>4, <1>5

(* The invariant is inductive.                                             *)
LEMMA NextInv == IInv /\ [Next]_vars => IInv'
<1> SUFFICES ASSUME IInv, [Next]_vars PROVE IInv'
  OBVIOUS
<1>1. QueueIsKept
  BY NextMoves, MovesKeepGrants DEF IInv, TypeOK
<1>2. CASE SupStep /\ UNCHANGED mailVars
  BY <1>1, <1>2, SupStepTyped, ChannelUndisturbed DEF IInv, TypeOK
<1>3. CASE MailStep
  BY <1>3, MailStepInv
<1>4. CASE Crash /\ UNCHANGED <<supVars, mailVars>>
  BY <1>4, CrashInv
<1>5. CASE RestartMail
  BY <1>5, CrashInv
<1>6. CASE UNCHANGED vars
  <2>1. SideTypes' /\ UNCHANGED mailVars
    BY <1>6 DEF vars, gateVars, supVars, SideTypes, IInv, TypeOK, GateTypeOK, SupTypeOK
  <2>2. QED
    BY <1>1, <2>1, ChannelUndisturbed
<1>7. QED
  BY <1>2, <1>3, <1>4, <1>5, <1>6 DEF Next

(* The inductive invariant holds of every behaviour.                       *)
THEOREM InvariantHolds == Spec => []IInv
  BY InitInv, NextInv, PTL DEF Spec

(* Every table and every call in flight keeps its type                     *)
(* (reviewGate.ts:35, supervision.ts:33, outbound-email.ts:146).           *)
THEOREM TypeCorrect == Spec => []TypeOK
<1>1. IInv => TypeOK
  BY DEF IInv
<1>2. QED
  BY <1>1, InvariantHolds, PTL

(* Nothing leaves through the mail channel without a named lawyer's        *)
(* approval, whatever overtakes the call while the relay is dialled        *)
(* (reviewGate.ts:4-8, outbound-email.ts:190-248).                         *)
THEOREM NothingShipsUnapproved == Spec => []ShippedWasApproved
<1>1. IInv => ShippedWasApproved
  BY DEF IInv
<1>2. QED
  BY <1>1, InvariantHolds, PTL

(* An email marked sent did leave (outbound-email.ts:236-238).             *)
THEOREM SentIsTrue == Spec => []SentMeansShipped
<1>1. IInv => SentMeansShipped
  BY DEF IInv
<1>2. QED
  BY <1>1, InvariantHolds, PTL

(* A decision is never changed after it is taken, through whichever of the *)
(* two ways it was taken (reviewGate.ts:169-171, :197-199, :228-232).      *)
THEOREM VerdictsAreFinal == Spec => VerdictIsFinal
<1>1. IInv /\ [Next]_vars => QueueIsKept
  BY NextMoves, MovesKeepGrants DEF IInv, TypeOK
<1>2. QueueIsKept =>
        \A r \in Review :
          /\ Granted(r) => Granted(r)'
          /\ status[r] = "sent" => status'[r] = "sent"
          /\ status[r] = "rejected" => status'[r] = "rejected"
          /\ Decided(r) => reviewer'[r] = reviewer[r]
  BY DEF QueueIsKept, Decided
<1>3. QED
  BY <1>1, <1>2, InvariantHolds, PTL DEF Spec, VerdictIsFinal

-----------------------------------------------------------------------------

VerdictNow == [r \in Review |-> VerdictOf[status[r]]]
ReleasedNow == {r \in Review : shipped[r] > 0}

(* The queue's moves are the promise's submissions and decisions, as long  *)
(* as nothing is released in the same step.                                *)
LEMMA MovesImplement ==
  ASSUME GateTypeOK, QueueMove, UNCHANGED shipped
  PROVE  Promise!Next \/ UNCHANGED Promise!vars
<1> USE DEF GateTypeOK, Status, VerdictOf, Promise!vars
<1>1. CASE UNCHANGED <<status, reviewer>>
  BY <1>1
<1>2. ASSUME NEW r \in Review, Enqueues(r)
      PROVE  Promise!Next
  <2>1. /\ VerdictNow[r] = "absent"
        /\ VerdictNow' = [VerdictNow EXCEPT ![r] = VerdictOf["pending"]]
        /\ VerdictOf["pending"] = "open"
    <3>1. VerdictNow' = [VerdictNow EXCEPT ![r] = VerdictOf["pending"]]
      BY <1>2 DEF Enqueues, VerdictNow
    <3>2. VerdictNow[r] = "absent" /\ VerdictOf["pending"] = "open"
      BY <1>2 DEF Enqueues, VerdictNow
    <3>3. QED
      BY <3>1, <3>2
  <2>2. ReleasedNow' = ReleasedNow
    BY DEF ReleasedNow
  <2>3. Promise!Submit(r)
    BY <2>1, <2>2, Zenon DEF Promise!Submit, VerdictNow, ReleasedNow
  <2>4. QED
    BY <2>3 DEF Promise!Next
<1>3. ASSUME NEW r \in Review, Decides(r)
      PROVE  Promise!Next
  <2>1. PICK v \in {"approved", "rejected"} : status' = [status EXCEPT ![r] = v]
    BY <1>3 DEF Decides
  <2>2. VerdictNow' = [VerdictNow EXCEPT ![r] = VerdictOf[v]]
    BY <2>1 DEF VerdictNow
  <2>3. VerdictNow[r] = "open" /\ VerdictOf[v] \in {"granted", "refused"}
    BY <1>3 DEF Decides, VerdictNow
  <2>4. ReleasedNow' = ReleasedNow
    BY DEF ReleasedNow
  <2>5. Promise!Decide(r)
    BY <2>2, <2>3, <2>4 DEF Promise!Decide, VerdictNow, ReleasedNow
  <2>6. QED
    BY <2>5 DEF Promise!Next
<1>4. ASSUME NEW r \in Review, MarksSent(r)
      PROVE  UNCHANGED Promise!vars
  BY <1>4 DEF MarksSent
<1>5. QED
  BY <1>1, <1>2, <1>3, <1>4 DEF QueueMove

(* A step of the mail channel releases an item that is granted, or nothing *)
(* the promise can see.                                                    *)
LEMMA MailImplements ==
  ASSUME IInv, MailStep
  PROVE  Promise!Next \/ UNCHANGED Promise!vars
<1> USE DEF Promise!vars
<1>1. UNCHANGED status
  BY DEF MailStep, QueueOutboundEmail, BeginSend, RelayAccepts, RelayRefuses,
         AcceptanceIsLost, FinishSend, FailSend, Lapse, Settle, gateVars
<1>2. CASE UNCHANGED shipped
  BY <1>1, <1>2
<1>3. ASSUME NEW s \in Sender, NEW r \in Review, RelayAccepts(s), target[s] = r
      PROVE  Promise!Next
  <2>1. Granted(r)
    BY <1>3 DEF RelayAccepts, InFlightIsGranted, IInv
  <2>2. VerdictNow[r] = "granted" /\ VerdictNow' = VerdictNow
    BY <1>1, <2>1 DEF VerdictNow, VerdictOf, Granted
  <2>3. ReleasedNow' = ReleasedNow \cup {r}
    <3>1. shipped \in [Review -> Nat]
      BY DEF IInv, TypeOK, MailTypeOK
    <3>2. shipped' = [shipped EXCEPT ![r] = @ + 1]
      BY <1>3 DEF RelayAccepts
    <3>3. shipped'[r] > 0
      BY <3>1, <3>2
    <3>4. \A q \in Review : q # r => shipped'[q] = shipped[q]
      BY <3>1, <3>2
    <3>5. \A q \in Review : shipped'[q] > 0 <=> shipped[q] > 0 \/ q = r
      BY <3>3, <3>4
    <3>6. QED
      BY <3>5, Zenon DEF ReleasedNow
  <2>4. Promise!Release(r)
    BY <2>2, <2>3, Zenon DEF Promise!Release, VerdictNow, ReleasedNow
  <2>5. QED
    BY <2>4 DEF Promise!Next
<1>4. \A s \in Sender : RelayAccepts(s) => target[s] \in Review
  BY DEF RelayAccepts, InFlightIsGranted, IInv
<1>5. QED
  BY <1>2, <1>3, <1>4 DEF MailStep, QueueOutboundEmail, BeginSend, RelayRefuses,
                          AcceptanceIsLost, FinishSend, FailSend, Lapse, Settle

(* Gate, supervision and mail channel together implement GatedRelease:     *)
(* every item is decided at most once and released only once granted       *)
(* (reviewGate.ts:1-17).                                                   *)
THEOREM PromiseIsKept == Spec => ImplementsPromise
<1>1. Init => Promise!Init
  BY DEF Init, GateInit, Promise!Init, VerdictOf
<1>2. IInv /\ [Next]_vars => [Promise!Next]_(Promise!vars)
  <2> SUFFICES ASSUME IInv, [Next]_vars PROVE Promise!Next \/ UNCHANGED Promise!vars
    OBVIOUS
  <2>1. CASE MailStep
    BY <2>1, MailImplements
  <2>2. CASE ~MailStep
    <3>1. UNCHANGED shipped
      BY <2>2 DEF Next, RestartMail, mailVars, vars
    <3>2. QED
      BY <3>1, NextMoves, MovesImplement DEF IInv, TypeOK
  <2>3. QED
    BY <2>1, <2>2
<1>3. QED
  BY <1>1, <1>2, InvariantHolds, PTL DEF Spec, ImplementsPromise, Promise!Spec

-----------------------------------------------------------------------------

(* What an entry of the log says of its row.                               *)
Tells(e) ==
  /\ e.act = "approve" => Granted(e.ref) /\ reviewer[e.ref] = e.by
  /\ e.act = "reject" => status[e.ref] = "rejected" /\ reviewer[e.ref] = e.by
  /\ e.act = "sent" => status[e.ref] = "sent"

(* A supervisor's decision, if the gate takes it, is logged as it is.      *)
LEMMA ThenDecideTells ==
  ASSUME GateTypeOK, NEW r \in Review, NEW u \in Lawyer,
         NEW v \in {"approved", "rejected"}, ThenDecide(r, u, v)
  PROVE  \A e \in ledger' \ ledger : Tells(e)'
<1>1. CASE UNCHANGED ledger
  BY <1>1
<1>2. CASE /\ status' = [status EXCEPT ![r] = v]
           /\ reviewer' = [reviewer EXCEPT ![r] = u]
           /\ Log(IF v = "approved" THEN "approve" ELSE "reject", u, r)
  <2>1. status'[r] = v /\ reviewer'[r] = u
    BY <1>2 DEF GateTypeOK
  <2>2. \A e \in ledger' \ ledger :
          e = [act |-> IF v = "approved" THEN "approve" ELSE "reject", by |-> u, ref |-> r]
    BY <1>2 DEF Log
  <2>3. QED
    BY <2>1, <2>2 DEF Tells, Granted
<1>3. QED
  BY <1>1, <1>2 DEF ThenDecide

(* Whatever is logged is what was done to the row (reviewGate.ts:164-244). *)
LEMMA NewEntriesTell ==
  ASSUME GateTypeOK, SupStep
  PROVE  \A e \in ledger' \ ledger : Tells(e)'
<1>1. CASE UNCHANGED ledger
  BY <1>1
<1>2. ASSUME NEW r \in Review, NEW b \in Body, EnqueueForReview(r, b)
      PROVE  \A e \in ledger' \ ledger : Tells(e)'
  <2>1. \A e \in ledger' \ ledger : e = [act |-> "enqueue", by |-> Skill, ref |-> r]
    BY <1>2 DEF EnqueueForReview, Log
  <2>2. QED
    BY <2>1 DEF Tells
<1>3. ASSUME NEW r \in Review, NEW u \in Lawyer, ApproveReview(r, u)
      PROVE  \A e \in ledger' \ ledger : Tells(e)'
  <2>1. status'[r] = "approved" /\ reviewer'[r] = u
    BY <1>3 DEF ApproveReview, GateTypeOK
  <2>2. \A e \in ledger' \ ledger : e = [act |-> "approve", by |-> u, ref |-> r]
    BY <1>3 DEF ApproveReview, Log
  <2>3. QED
    BY <2>1, <2>2 DEF Tells, Granted
<1>4. ASSUME NEW r \in Review, NEW u \in Lawyer, RejectReview(r, u)
      PROVE  \A e \in ledger' \ ledger : Tells(e)'
  <2>1. status'[r] = "rejected" /\ reviewer'[r] = u
    BY <1>4 DEF RejectReview, GateTypeOK
  <2>2. \A e \in ledger' \ ledger : e = [act |-> "reject", by |-> u, ref |-> r]
    BY <1>4 DEF RejectReview, Log
  <2>3. QED
    BY <2>1, <2>2 DEF Tells
<1>5. ASSUME NEW r \in Review, NEW u \in Lawyer, MarkReviewSent(r, u)
      PROVE  \A e \in ledger' \ ledger : Tells(e)'
  <2>1. status'[r] = "sent"
    BY <1>5 DEF MarkReviewSent, GateTypeOK
  <2>2. \A e \in ledger' \ ledger : e = [act |-> "sent", by |-> u, ref |-> r]
    BY <1>5 DEF MarkReviewSent, Log
  <2>3. QED
    BY <2>1, <2>2 DEF Tells
<1>6. ASSUME NEW r \in Review, NEW u \in Lawyer,
             \/ SupervisorApprove(r, u)
             \/ \E b \in Body : SupervisorEdit(r, u, b)
             \/ SupervisorReject(r, u)
      PROVE  \A e \in ledger' \ ledger : Tells(e)'
  <2>1. \/ UNCHANGED ledger
        \/ ThenDecide(r, u, "approved")
        \/ ThenDecide(r, u, "rejected")
    BY <1>6 DEF SupervisorApprove, SupervisorEdit, SupervisorReject
  <2>2. QED
    BY <1>1, <2>1, ThenDecideTells
<1>7. CASE GateStep
  BY <1>2, <1>3, <1>4, <1>5, <1>7 DEF GateStep
<1>8. CASE \E m \in Matter : \/ \E l \in SupervisionLevel : EnableSupervision(m, l)
                             \/ DisableSupervision(m)
  BY <1>1, <1>8 DEF EnableSupervision, DisableSupervision, gateVars
<1>9. ASSUME NEW r \in Review, NEW u \in Lawyer, JuniorApprove(r, u)
      PROVE  \A e \in ledger' \ ledger : Tells(e)'
  BY <1>1, <1>3, <1>9 DEF JuniorApprove, QueueSecondary, gateVars
<1>10. QED
  BY <1>6, <1>7, <1>8, <1>9 DEF SupStep

(* A row that changes never contradicts what the log holds already.        *)
LEMMA OldEntriesTell ==
  ASSUME QueueIsKept, NEW e \in Entry, Tells(e)
  PROVE  Tells(e)'
<1>1. e.ref \in Review
  BY DEF Entry
<1>2. QED
  BY <1>1 DEF Tells, QueueIsKept

(* The log never contradicts the queue, with a crash between any row and   *)
(* its entry and a verdict from any of the ways to one                     *)
(* (reviewGate.ts:10-12).                                                  *)
THEOREM LogTellsTheTruth == Spec => []LedgerIsTruthful
<1>1. Init => LedgerIsTruthful
  BY DEF Init, GateInit, LedgerIsTruthful
<1>2. IInv /\ LedgerIsTruthful /\ [Next]_vars => LedgerIsTruthful'
  <2> SUFFICES ASSUME IInv, LedgerIsTruthful, [Next]_vars, NEW e \in ledger'
               PROVE  Tells(e)'
    BY DEF LedgerIsTruthful, Tells
  <2>1. GateTypeOK /\ QueueIsKept
    BY NextMoves, MovesKeepGrants DEF IInv, TypeOK
  <2>2. CASE e \in ledger
    <3>1. e \in Entry /\ Tells(e)
      BY <2>1, <2>2 DEF GateTypeOK, LedgerIsTruthful, Tells
    <3>2. QED
      BY <2>1, <3>1, OldEntriesTell
  <2>3. CASE e \notin ledger
    <3>1. CASE SupStep
      BY <2>1, <2>3, <3>1, NewEntriesTell
    <3>2. CASE ~SupStep
      <4>1. UNCHANGED ledger
        BY <3>2 DEF Next, MailStep, QueueOutboundEmail, BeginSend, RelayAccepts, RelayRefuses,
                    AcceptanceIsLost, FinishSend, FailSend, Lapse, Settle, Crash, RestartMail,
                    Restart, vars, gateVars
      <4>2. QED
        BY <2>3, <4>1
    <3>3. QED
      BY <3>1, <3>2
  <2>4. QED
    BY <2>2, <2>3
<1>3. QED
  BY <1>1, <1>2, InvariantHolds, PTL DEF Spec

-----------------------------------------------------------------------------

(* Deaths are counted and never uncounted.                                 *)
LEMMA CrashesCount ==
  ASSUME crashes \in Nat, [Next]_vars
  PROVE  crashes' \in Nat /\ crashes' >= crashes /\ (Die => crashes' > 0)
<1>1. crashes' = crashes \/ Die
  BY DEF Next, SupStep, GateStep, EnqueueForReview, ApproveReview, RejectReview, MarkReviewSent,
         EnableSupervision, DisableSupervision, JuniorApprove, QueueSecondary, SupervisorApprove,
         SupervisorEdit, SupervisorReject, ThenDecide, Log, MailStep, QueueOutboundEmail,
         BeginSend, RelayAccepts, RelayRefuses, AcceptanceIsLost, FinishSend, FailSend, Lapse, Settle,
         Crash, RestartMail, Restart, vars, gateVars
<1>2. Die => crashes' = crashes + 1
  BY DEF Die
<1>3. QED
  BY <1>1, <1>2

(* While nothing died, a secondary review that closes closes a row that is *)
(* decided, or decides it (supervision.ts:129-192).                        *)
LEMMA ClosedIsDecided ==
  ASSUME GateTypeOK, SupTypeOK, SecondaryHasReview, QueueIsKept, SupStep, ~Die, NEW r \in Review,
         secondary'[r] \in {"approved", "edited", "rejected"}, secondary'[r] # secondary[r]
  PROVE  Decided(r)'
<1>1. PICK u \in Lawyer, v \in {"approved", "rejected"} :
        ThenDecide(r, u, v) /\ secondary[r] # "none"
  <2>1. CASE UNCHANGED secondary
    BY <2>1
  <2>2. CASE \E q \in Review : QueueSecondary(q)
    BY <2>2 DEF QueueSecondary, SupTypeOK
  <2>3. CASE \E q \in Review, u \in Lawyer : SupervisorApprove(q, u) \/ SupervisorReject(q, u)
    BY <2>3 DEF SupervisorApprove, SupervisorReject, SupTypeOK
  <2>4. CASE \E q \in Review, u \in Lawyer, b \in Body : SupervisorEdit(q, u, b)
    BY <2>4 DEF SupervisorEdit, SupTypeOK
  <2>5. QED
    BY <2>1, <2>2, <2>3, <2>4
       DEF SupStep, supVars, EnableSupervision, DisableSupervision, JuniorApprove
<1>2. status[r] # "none"
  BY <1>1 DEF SecondaryHasReview
<1>3. CASE status' = [status EXCEPT ![r] = v]
  BY <1>3 DEF Decided, Granted, GateTypeOK
<1>4. CASE status[r] # "pending"
  BY <1>2, <1>4 DEF Decided, Granted, GateTypeOK, Status, QueueIsKept
<1>5. QED
  BY <1>1, <1>3, <1>4 DEF ThenDecide

SupervisionIsTidy == NoOrphanedSecondary /\ SecondaryHasReview

LEMMA TidyNext ==
  ASSUME IInv, SupervisionIsTidy, [Next]_vars
  PROVE  SupervisionIsTidy'
<1>1. /\ GateTypeOK /\ SupTypeOK /\ QueueIsKept
      /\ crashes \in Nat
  BY NextMoves, MovesKeepGrants DEF IInv, TypeOK, GateTypeOK
<1>2. crashes' \in Nat /\ crashes' >= crashes /\ (Die => crashes' > 0)
  BY <1>1, CrashesCount
<1>3. \A r \in Review : status[r] # "none" => status'[r] # "none"
  BY <1>1, NextMoves DEF QueueMove, Enqueues, Decides, MarksSent, GateTypeOK
<1>4. \A r \in Review : Decided(r) => Decided(r)'
  BY <1>1 DEF QueueIsKept, Decided
<1>5. CASE UNCHANGED secondary
  BY <1>1, <1>2, <1>3, <1>4, <1>5 DEF SupervisionIsTidy, NoOrphanedSecondary, SecondaryHasReview
<1>6. CASE SupStep
  <2>1. \A r \in Review : secondary'[r] # "none" => secondary[r] # "none" \/ status[r] # "none"
    BY <1>1, <1>6 DEF SupStep, supVars, EnableSupervision, DisableSupervision, JuniorApprove,
       QueueSecondary, SupervisorApprove, SupervisorReject, SupervisorEdit, SupTypeOK
  <2>2. SecondaryHasReview'
    BY <1>3, <2>1 DEF SecondaryHasReview, SupervisionIsTidy
  <2>3. ASSUME NEW r \in Review, secondary'[r] \in {"approved", "edited", "rejected"},
               crashes' = 0
        PROVE  Decided(r)'
    <3>1. ~Die /\ crashes = 0
      BY <1>1, <1>2, <2>3
    <3>2. CASE secondary'[r] = secondary[r]
      BY <1>4, <2>3, <3>1, <3>2 DEF SupervisionIsTidy, NoOrphanedSecondary
    <3>3. CASE secondary'[r] # secondary[r]
      BY <1>1, <1>6, <2>3, <3>1, <3>3, ClosedIsDecided DEF SupervisionIsTidy
    <3>4. QED
      BY <3>2, <3>3
  <2>4. QED
    BY <2>2, <2>3 DEF SupervisionIsTidy, NoOrphanedSecondary
<1>7. QED
  BY <1>5, <1>6 DEF Next, MailStep, QueueOutboundEmail, BeginSend, RelayAccepts, RelayRefuses,
     AcceptanceIsLost, FinishSend, FailSend, Lapse, Settle, Crash, RestartMail, vars, supVars

(* An item whose secondary review is closed is decided, unless the process *)
(* died in between (supervision.ts:129-192).                               *)
THEOREM SupervisedItemsClose == Spec => []NoOrphanedSecondary
<1>1. Init => SupervisionIsTidy
  BY DEF Init, SupInit, SupervisionIsTidy, NoOrphanedSecondary, SecondaryHasReview
<1>2. SupervisionIsTidy => NoOrphanedSecondary
  BY DEF SupervisionIsTidy
<1>3. QED
  BY <1>1, <1>2, TidyNext, InvariantHolds, PTL DEF Spec

-----------------------------------------------------------------------------

NSenders == Cardinality(Sender)

(* The calls for a row are counted by numbers no larger than that of all.  *)
LEMMA CallsAreFew ==
  ASSUME NEW r \in Review
  PROVE  /\ IsFiniteSet(InFlight(r)) /\ IsFiniteSet(Dialling(r))
         /\ NSenders \in Nat
         /\ Cardinality(InFlight(r)) \in Nat /\ Cardinality(InFlight(r)) <= NSenders
         /\ Cardinality(Dialling(r)) \in Nat
         /\ Cardinality(Dialling(r)) <= Cardinality(InFlight(r))
<1>1. IsFiniteSet(Sender)
  BY MailAssumption
<1>2. InFlight(r) \in SUBSET Sender /\ Dialling(r) \in SUBSET InFlight(r)
  BY DEF InFlight, Dialling
<1>3. IsFiniteSet(InFlight(r)) /\ Cardinality(InFlight(r)) <= NSenders
  BY <1>1, <1>2, FS_Subset DEF NSenders
<1>4. IsFiniteSet(Dialling(r)) /\ Cardinality(Dialling(r)) <= Cardinality(InFlight(r))
  BY <1>2, <1>3, FS_Subset
<1>5. QED
  BY <1>1, <1>3, <1>4, FS_CardinalityType DEF NSenders

(* What SendsAreCounted says of one row.                                   *)
Counted(r) ==
  /\ mail[r] = "none" => shipped[r] = 0 /\ InFlight(r) = {}
  /\ mail[r] = "queued" =>
       shipped[r] + Cardinality(Dialling(r))
         <= NSenders * (Lives - 1) + Cardinality(InFlight(r)) + lapses[r]
  /\ shipped[r] + Cardinality(Dialling(r)) <= NSenders * Lives + lapses[r]

(* A row is counted as before when neither it, its calls nor the process   *)
(* have changed.                                                           *)
LEMMA CountStays ==
  ASSUME NEW r \in Review, Counted(r), mail'[r] = mail[r], shipped'[r] = shipped[r],
         lapses'[r] = lapses[r], InFlight(r)' = InFlight(r), Dialling(r)' = Dialling(r), Lives' = Lives
  PROVE  Counted(r)'
  BY DEF Counted, NSenders

(* Whatever happens between the calls leaves their count alone: when the   *)
(* process dies it has had the life that was counted.                      *)
LEMMA LivesStay ==
  ASSUME IInv, SendsAreCounted, [Next]_vars, ~RestartMail
  PROVE  Lives' = Lives /\ (~up' => crashes' > 0)
<1>1. \/ UNCHANGED <<up, crashes>>
      \/ Die
  BY DEF Next, SupStep, GateStep, EnqueueForReview, ApproveReview, RejectReview, MarkReviewSent,
         EnableSupervision, DisableSupervision, JuniorApprove, QueueSecondary, SupervisorApprove,
         SupervisorEdit, SupervisorReject, ThenDecide, Log, MailStep, QueueOutboundEmail,
         BeginSend, RelayAccepts, RelayRefuses, AcceptanceIsLost, FinishSend, FailSend, Lapse, Settle,
         Crash, vars, gateVars
<1>2. crashes \in Nat
  BY DEF IInv, TypeOK, GateTypeOK
<1>3. CASE Die
  <2>1. up = TRUE /\ up' = FALSE /\ crashes' = crashes + 1
    BY <1>3, Zenon DEF Die, IInv, TypeOK, GateTypeOK
  <2>2. QED
    BY <1>2, <2>1 DEF Lives
<1>4. CASE UNCHANGED <<up, crashes>>
  BY <1>4 DEF Lives, SendsAreCounted
<1>5. QED
  BY <1>1, <1>3, <1>4

(* Beginning, shipping and settling a send keep the count: a call that     *)
(* begins is one more in flight, one that ships dials no more, one that    *)
(* lapses is counted as that, and after one has settled none begins        *)
(* (outbound-email.ts:190-262).                                            *)
LEMMA MailStepCounts ==
  ASSUME IInv, SendsAreCounted, MailStep, NEW q \in Review
  PROVE  Counted(q)'
<1> USE DEF IInv, TypeOK, MailTypeOK, Phase
<1>0. Counted(q) /\ Lives \in Nat /\ Lives' = Lives
  <2>1. UNCHANGED <<up, crashes>>
    BY DEF MailStep, QueueOutboundEmail, BeginSend, RelayAccepts, RelayRefuses,
           AcceptanceIsLost, FinishSend, FailSend, Lapse, Settle, gateVars
  <2>2. QED
    BY <2>1 DEF SendsAreCounted, Counted, NSenders, Lives, GateTypeOK
<1> DEFINE dial == Cardinality(Dialling(q))
           fly == Cardinality(InFlight(q))
<1>1. /\ IsFiniteSet(InFlight(q)) /\ IsFiniteSet(Dialling(q))
      /\ NSenders \in Nat /\ dial \in Nat /\ fly \in Nat
      /\ fly <= NSenders /\ dial <= fly
      /\ shipped[q] \in Nat /\ lapses[q] \in Nat
  BY CallsAreFew
<1>2. NSenders * (Lives - 1) + NSenders = NSenders * Lives
  BY <1>0, <1>1
<1>4. ASSUME NEW r \in Review, QueueOutboundEmail(r)
      PROVE  Counted(q)'
  <2>1. /\ InFlight(q)' = InFlight(q) /\ Dialling(q)' = Dialling(q)
        /\ shipped'[q] = shipped[q] /\ lapses'[q] = lapses[q]
        /\ q # r => mail'[q] = mail[q]
    BY <1>4 DEF QueueOutboundEmail, InFlight, Dialling
  <2>2. CASE q # r
    BY <1>0, <2>1, <2>2, CountStays
  <2>3. CASE q = r
    <3>1. mail[q] = "none" /\ mail'[q] = "queued" /\ Lives >= 1
      BY <1>0, <1>4, <2>3 DEF QueueOutboundEmail, Lives, GateTypeOK
    <3>2. shipped[q] = 0 /\ InFlight(q) = {} /\ dial = 0 /\ fly = 0
      BY <1>0, <1>1, <3>1, FS_EmptySet DEF Counted
    <3>3. shipped'[q] + Cardinality(Dialling(q)') = 0 /\ Cardinality(InFlight(q)') = 0
      BY <2>1, <3>2
    <3>4. NSenders * Lives >= 0 /\ NSenders * (Lives - 1) >= 0
      <4>1. Lives - 1 \in Nat
        BY <1>0, <3>1
      <4>2. QED
        BY <1>0, <1>1, <4>1
    <3>5. shipped'[q] + Cardinality(Dialling(q)') <= NSenders * Lives + lapses'[q]
      <4>1. NSenders * Lives \in Int
        BY <1>0, <1>1
      <4>2. NSenders * Lives + lapses[q] >= 0
        BY <1>1, <3>4, <4>1
      <4>3. QED
        BY <2>1, <3>3, <4>2
    <3>6. shipped'[q] + Cardinality(Dialling(q)')
            <= NSenders * (Lives - 1) + Cardinality(InFlight(q)') + lapses'[q]
      BY <1>0, <1>1, <2>1, <3>3, <3>4
    <3>7. QED
      BY <1>0, <3>1, <3>5, <3>6 DEF Counted, NSenders
  <2>4. QED
    BY <2>2, <2>3
<1>5. ASSUME NEW s \in Sender, NEW r \in Review, BeginSend(s, r)
      PROVE  Counted(q)'
  <2>0. phase[s] = "idle" /\ target[s] = NoReview /\ NoReview \notin Review
    BY <1>5, MailAssumption DEF BeginSend, InFlightIsGranted
  <2>1. mail'[q] = mail[q] /\ shipped'[q] = shipped[q] /\ lapses'[q] = lapses[q]
    BY <1>5 DEF BeginSend
  <2>2. CASE q # r
    <3>1. InFlight(q)' = InFlight(q) /\ Dialling(q)' = Dialling(q)
      BY <1>5, <2>0, <2>2 DEF BeginSend, InFlight, Dialling
    <3>2. QED
      BY <1>0, <2>1, <3>1, CountStays
  <2>3. CASE q = r
    <3>1. /\ InFlight(q)' = InFlight(q) \cup {s} /\ s \notin InFlight(q)
          /\ Dialling(q)' = Dialling(q) \cup {s} /\ s \notin Dialling(q)
      BY <1>5, <2>0, <2>3 DEF BeginSend, InFlight, Dialling
    <3>2. Cardinality(InFlight(q)') = fly + 1 /\ Cardinality(Dialling(q)') = dial + 1
      BY <1>1, <3>1, FS_AddElement
    <3>3. Cardinality(InFlight(q)') <= NSenders
      <4>1. InFlight(q)' \in SUBSET Sender /\ IsFiniteSet(Sender)
        BY MailAssumption DEF InFlight
      <4>2. QED
        BY <4>1, FS_Subset DEF NSenders
    <3>4. mail[q] = "queued"
      BY <1>5, <2>3 DEF BeginSend
    <3>5. shipped'[q] + Cardinality(Dialling(q)')
            <= NSenders * (Lives - 1) + Cardinality(InFlight(q)') + lapses'[q]
      BY <1>0, <1>1, <2>1, <3>2, <3>4 DEF Counted
    <3>6. shipped'[q] + Cardinality(Dialling(q)') <= NSenders * Lives + lapses'[q]
      BY <1>0, <1>1, <1>2, <2>1, <3>2, <3>3, <3>5
    <3>7. QED
      BY <1>0, <2>1, <3>4, <3>5, <3>6 DEF Counted, NSenders
  <2>4. QED
    BY <2>2, <2>3
<1>6. ASSUME NEW s \in Sender, RelayAccepts(s)
      PROVE  Counted(q)'
  <2>0. phase[s] = "dialling" /\ target[s] \in Review
    BY <1>6 DEF RelayAccepts, InFlightIsGranted
  <2>1. mail'[q] = mail[q] /\ InFlight(q)' = InFlight(q) /\ lapses'[q] = lapses[q]
    BY <1>6 DEF RelayAccepts, InFlight
  <2>2. CASE q # target[s]
    <3>1. shipped'[q] = shipped[q] /\ Dialling(q)' = Dialling(q)
      BY <1>6, <2>0, <2>2 DEF RelayAccepts, Dialling
    <3>2. QED
      BY <1>0, <2>1, <3>1, CountStays
  <2>3. CASE q = target[s]
    <3>1. s \in InFlight(q) /\ s \in Dialling(q)
      BY <2>0, <2>3 DEF InFlight, Dialling
    <3>2. Dialling(q)' = Dialling(q) \ {s}
      BY <1>6, <2>3 DEF RelayAccepts, Dialling
    <3>3. Cardinality(Dialling(q)') = dial - 1
      BY <1>1, <3>1, <3>2, FS_RemoveElement
    <3>4. shipped'[q] = shipped[q] + 1
      BY <1>6, <2>3 DEF RelayAccepts
    <3>5. shipped'[q] + Cardinality(Dialling(q)') = shipped[q] + dial
      BY <1>1, <3>3, <3>4
    <3>6. mail[q] # "none"
      BY <1>0, <3>1 DEF Counted
    <3>7. QED
      BY <1>0, <2>1, <3>5, <3>6 DEF Counted, NSenders
  <2>4. QED
    BY <2>2, <2>3
<1>7. ASSUME NEW s \in Sender, RelayRefuses(s) \/ AcceptanceIsLost(s)
      PROVE  Counted(q)'
  <2>1. /\ mail'[q] = mail[q] /\ InFlight(q)' = InFlight(q)
        /\ shipped'[q] = shipped[q] /\ lapses'[q] = lapses[q]
    BY <1>7 DEF RelayRefuses, AcceptanceIsLost, InFlight
  <2>2. Dialling(q)' \in SUBSET Dialling(q)
    BY <1>7 DEF RelayRefuses, AcceptanceIsLost, Dialling
  <2>3. Cardinality(Dialling(q)') \in Nat /\ Cardinality(Dialling(q)') <= dial
    BY <1>1, <2>2, FS_Subset, FS_CardinalityType
  <2>4. QED
    BY <1>0, <1>1, <1>2, <2>1, <2>3 DEF Counted, NSenders
<1>8. ASSUME NEW s \in Sender, FinishSend(s) \/ FailSend(s)
      PROVE  Counted(q)'
  <2>1. PICK outcome \in {"sent", "failed"} : Settle(s, outcome)
    BY <1>8 DEF FinishSend, FailSend
  <2>2. phase[s] \in {"accepted", "refused"} /\ NoReview \notin Review
    BY <1>8, MailAssumption DEF FinishSend, FailSend
  <2>3. /\ shipped'[q] = shipped[q] /\ lapses'[q] = lapses[q]
        /\ Dialling(q)' = Dialling(q)
    BY <2>1, <2>2 DEF Settle, Dialling
  <2>4. CASE q # target[s]
    <3>1. mail'[q] = mail[q] /\ InFlight(q)' = InFlight(q)
      BY <2>1, <2>2, <2>4 DEF Settle, InFlight
    <3>2. QED
      BY <1>0, <2>3, <3>1, CountStays
  <2>5. CASE q = target[s]
    <3>1. mail'[q] \in {"sent", "failed"}
      BY <2>1, <2>5 DEF Settle
    <3>2. QED
      BY <1>0, <2>3, <3>1 DEF Counted, NSenders
  <2>6. QED
    BY <2>4, <2>5
<1>9. ASSUME NEW s \in Sender, Lapse(s)
      PROVE  Counted(q)'
  <2>1. /\ phase[s] \in {"accepted", "refused"} /\ NoReview \notin Review
        /\ target[s] \in Review
    BY <1>9, MailAssumption DEF Lapse, InFlightIsGranted
  <2>2. mail'[q] = mail[q] /\ shipped'[q] = shipped[q] /\ Dialling(q)' = Dialling(q)
    BY <1>9, <2>1 DEF Lapse, Dialling
  <2>3. CASE q # target[s]
    <3>1. InFlight(q)' = InFlight(q) /\ lapses'[q] = lapses[q]
      BY <1>9, <2>1, <2>3 DEF Lapse, InFlight
    <3>2. QED
      BY <1>0, <2>2, <3>1, CountStays
  <2>4. CASE q = target[s]
    <3>1. s \in InFlight(q) /\ InFlight(q)' = InFlight(q) \ {s}
      BY <1>9, <2>1, <2>4 DEF Lapse, InFlight
    <3>2. Cardinality(InFlight(q)') = fly - 1
      BY <1>1, <3>1, FS_RemoveElement
    <3>3. lapses'[q] = lapses[q] + 1
      BY <1>9, <2>4 DEF Lapse
    <3>4. mail[q] # "none"
      BY <1>0, <3>1 DEF Counted
    <3>5. QED
      BY <1>0, <1>1, <1>2, <2>2, <3>2, <3>3, <3>4 DEF Counted, NSenders
  <2>5. QED
    BY <2>3, <2>4
<1>10. QED
  BY <1>4, <1>5, <1>6, <1>7, <1>8, <1>9 DEF MailStep

(* A restart begins a life in which nothing is in flight yet.              *)
LEMMA RestartCounts ==
  ASSUME IInv, SendsAreCounted, RestartMail
  PROVE  SendsAreCounted'
<1>1. /\ up = FALSE /\ up' = TRUE /\ crashes' = crashes /\ crashes \in Nat
      /\ UNCHANGED <<mail, shipped, lapses>>
  BY DEF RestartMail, Restart, IInv, TypeOK, GateTypeOK
<1>2. Lives' = Lives + 1 /\ Lives \in Nat
  BY <1>1 DEF Lives
<1>3. ASSUME NEW r \in Review
      PROVE  Counted(r)'
  <2>1. InFlight(r)' = {} /\ Dialling(r)' = {}
    BY MailAssumption DEF RestartMail, InFlight, Dialling
  <2>2. Cardinality(InFlight(r)') = 0 /\ Cardinality(Dialling(r)') = 0
    BY <2>1, FS_EmptySet
  <2>3. Counted(r) /\ NSenders \in Nat /\ Cardinality(Dialling(r)) \in Nat
    BY CallsAreFew DEF SendsAreCounted, Counted, NSenders
  <2>4. shipped[r] \in Nat /\ lapses[r] \in Nat
    BY DEF IInv, TypeOK, MailTypeOK
  <2>5. NSenders * Lives \in Nat
    BY <1>2, <2>3
  <2>6. shipped'[r] + 0 <= NSenders * Lives + lapses'[r]
    BY <1>1, <2>3, <2>4, <2>5 DEF Counted
  <2>7. Lives' - 1 = Lives /\ NSenders * Lives' = NSenders * Lives + NSenders
    BY <1>2, <2>3
  <2>8. QED
    BY <1>1, <2>1, <2>2, <2>3, <2>4, <2>5, <2>6, <2>7 DEF Counted, NSenders
<1>4. QED
  BY <1>1, <1>3 DEF SendsAreCounted, Counted, NSenders

LEMMA CountsNext ==
  ASSUME IInv, SendsAreCounted, [Next]_vars
  PROVE  SendsAreCounted'
<1>1. CASE RestartMail
  BY <1>1, RestartCounts
<1>2. CASE ~RestartMail
  <2>1. Lives' = Lives /\ (~up' => crashes' > 0)
    BY <1>2, LivesStay
  <2>2. CASE MailStep
    BY <2>1, <2>2, MailStepCounts DEF SendsAreCounted, Counted, NSenders
  <2>3. CASE UNCHANGED mailVars
    <3>1. ASSUME NEW r \in Review
          PROVE  Counted(r)'
      <4>1. InFlight(r)' = InFlight(r) /\ Dialling(r)' = Dialling(r)
        BY <2>3 DEF mailVars, InFlight, Dialling
      <4>2. QED
        BY <2>1, <2>3, <4>1, CountStays DEF mailVars, SendsAreCounted, Counted, NSenders
    <3>2. QED
      BY <2>1, <3>1 DEF SendsAreCounted, Counted, NSenders
  <2>4. QED
    BY <1>2, <2>2, <2>3 DEF Next, vars
<1>3. QED
  BY <1>1, <1>2

(* An email ships at most once per call that can overlap and per life of   *)
(* the process, and once more for each call that could not write its row,  *)
(* for any number of calls (outbound-email.ts:190-265).                    *)
THEOREM ResendsAreFew == Spec => []ResendsAreBounded
<1>1. Init => SendsAreCounted
  <2> SUFFICES ASSUME Init PROVE SendsAreCounted
    OBVIOUS
  <2>1. up = TRUE /\ Lives = 1
    BY DEF Init, GateInit, Lives
  <2>2. ASSUME NEW r \in Review
        PROVE  Counted(r)
    <3>1. InFlight(r) = {} /\ Dialling(r) = {}
      BY MailAssumption DEF Init, InFlight, Dialling
    <3>2. Cardinality(InFlight(r)) = 0 /\ Cardinality(Dialling(r)) = 0 /\ NSenders \in Nat
      BY <3>1, FS_EmptySet, CallsAreFew
    <3>3. mail[r] = "none" /\ shipped[r] = 0 /\ lapses[r] = 0
      BY DEF Init
    <3>4. QED
      BY <2>1, <3>1, <3>2, <3>3 DEF Counted
  <2>3. QED
    BY <2>1, <2>2 DEF SendsAreCounted, Counted, NSenders
<1>2. IInv /\ SendsAreCounted => ResendsAreBounded
  <2> SUFFICES ASSUME IInv, SendsAreCounted, NEW r \in Review
               PROVE  shipped[r] <= Cardinality(Sender) * (1 + crashes) + lapses[r]
    BY DEF ResendsAreBounded
  <2>1. /\ NSenders \in Nat /\ Cardinality(Dialling(r)) \in Nat
        /\ shipped[r] \in Nat /\ lapses[r] \in Nat /\ crashes \in Nat
    BY CallsAreFew DEF IInv, TypeOK, MailTypeOK, GateTypeOK
  <2>2. shipped[r] <= NSenders * Lives + lapses[r]
    <3>1. Lives \in Nat
      BY <2>1 DEF Lives
    <3>2. /\ shipped[r] + Cardinality(Dialling(r)) <= NSenders * Lives + lapses[r]
          /\ NSenders * Lives \in Nat
      BY <2>1, <3>1 DEF SendsAreCounted, NSenders
    <3>3. QED
      BY <2>1, <3>2
  <2>3. NSenders * (1 + crashes) = NSenders * crashes + NSenders
    BY <2>1
  <2>4. Lives = 1 + crashes \/ Lives = crashes
    BY <2>1 DEF Lives
  <2>5. NSenders * crashes \in Nat
    BY <2>1
  <2>6. QED
    BY <2>1, <2>2, <2>3, <2>4, <2>5 DEF NSenders
<1>3. QED
  BY <1>1, <1>2, CountsNext, InvariantHolds, PTL DEF Spec

=============================================================================
