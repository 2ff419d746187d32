--------------------------- MODULE Clients_proofs ---------------------------
(***************************************************************************)
(* The firm's side of its clients.  The text channel (SmsChannel's Spec),  *)
(* for any number of reviews, lawyers, phones and overlapping calls: no    *)
(* text leaves without a grant, a STOP holds, and a row marked delivered   *)
(* tells the truth.                                                        *)
(*                                                                         *)
(* Onboarding and its envelopes (OnboardingSpec), for any cases, names,    *)
(* envelopes and signers and any number of handlers that are cut off: the  *)
(* types, the conflict check's promise, and the agreement of envelopes and *)
(* signers.                                                                *)
(***************************************************************************)
EXTENDS SmsChannel, Onboarding, FiniteSetTheorems, TLAPS

(* What a step of the channel or of the gate may do to the queue: nothing, *)
(* or move one row one status forward.                                     *)
Moves(r, from, to) ==
  /\ status[r] = from
  /\ status' = [status EXCEPT ![r] = to]

QueueMove ==
  \/ UNCHANGED status
  \/ \E r \in Review :
       \/ Moves(r, "none", "pending")
       \/ Moves(r, "pending", "approved")
       \/ Moves(r, "pending", "rejected")
       \/ Moves(r, "approved", "sent")

(* The calls of sendSms and Twilio leave the gate's rows alone.            *)
CallStep ==
  \/ \E r \in Review :
       \/ Block(r)
       \/ \E s \in Sender : AskTwilio(s, r)
       \/ \E n \in DOMAIN texts[r] : CarrierEnds(r, n) \/ HandleTwilioWebhook(r, n)
  \/ \E p \in Phone : RecordOptOut(p)
  \/ \E s \in Sender :
       \/ TwilioAccepts(s)
       \/ TwilioRefuses(s)
       \/ AnswerIsLost(s)
       \/ FinishSend(s)
       \/ FailSend(s)
       \/ Lapse(s)

LEMMA CallStepLeavesGate == CallStep => UNCHANGED gateVars
  BY DEF CallStep, Block, AskTwilio, CarrierEnds, HandleTwilioWebhook, Callback, RecordOptOut,
         TwilioAccepts, TwilioRefuses, AnswerIsLost, FinishSend, FailSend, Lapse, Return

(* The three ways a step goes: a row of the queue, a call, or the process. *)
LEMMA StepKinds ==
  ASSUME [Next]_vars
  PROVE  \/ CallStep
         \/ RestartSms
         \/ /\ QueueMove
            /\ UNCHANGED <<toNumber, sid, opted, phase, target, mine, texts, late>>
            /\ \/ UNCHANGED sms
               \/ \E r \in Review : sms' = [sms EXCEPT ![r] = IF up' THEN "pending" ELSE @]
<1>1. CASE GateStep /\ UNCHANGED smsVars
  BY <1>1 DEF GateStep, EnqueueForReview, ApproveReview, RejectReview, MarkReviewSent,
              QueueMove, Moves, smsVars
<1>2. CASE \E r \in Review : DraftSms(r)
  BY <1>2 DEF DraftSms, EnqueueForReview, QueueMove, Moves
<1>3. CASE \E r \in Review : DraftIsCutOff(r)
  BY <1>3 DEF DraftIsCutOff, QueueMove, Moves, smsVars
<1>4. CASE Crash /\ UNCHANGED smsVars
  BY <1>4 DEF Crash, QueueMove, smsVars
<1>5. CASE UNCHANGED vars
  BY <1>5 DEF vars, gateVars, smsVars, QueueMove
<1>6. QED
  BY <1>1, <1>2, <1>3, <1>4, <1>5 DEF Next, SmsStep, CallStep

LEMMA QueueMoves == [Next]_vars => QueueMove
  BY StepKinds, CallStepLeavesGate DEF QueueMove, RestartSms, Restart, gateVars

(* A grant is never withdrawn.                                             *)
LEMMA GrantsStay ==
  ASSUME GateTypeOK, [Next]_vars
  PROVE  /\ status' \in [Review -> Status]
         /\ \A r \in Review : Granted(r) => Granted(r)'
  BY QueueMoves DEF QueueMove, Moves, GateTypeOK, Granted, Status

-----------------------------------------------------------------------------
(* Types.                                                                  *)

LEMMA DieTyped ==
  ASSUME crashes \in Nat, Die
  PROVE  up' \in BOOLEAN /\ crashes' \in Nat
<1>1. crashes' \in Nat
  BY SMT DEF Die
<1>2. up' \in BOOLEAN
  BY Zenon DEF Die
<1>3. QED
  BY <1>1, <1>2

LEMMA LogTyped ==
  ASSUME GateTypeOK, NEW act \in {"enqueue", "approve", "reject", "sent"},
         NEW by \in Lawyer \cup {Skill}, NEW r \in Review, Log(act, by, r)
  PROVE  ledger' \subseteq Entry /\ up' \in BOOLEAN /\ crashes' \in Nat
<1>1. [act |-> act, by |-> by, ref |-> r] \in Entry
  BY DEF Entry
<1>2. ledger' \subseteq Entry
  BY <1>1 DEF GateTypeOK, Log
<1>3. up' \in BOOLEAN /\ crashes' \in Nat
  BY DieTyped, Zenon DEF GateTypeOK, Log
<1>4. QED
  BY <1>2, <1>3

LEMMA EnqueueTyped ==
  ASSUME GateTypeOK, NEW r \in Review, NEW b \in Body, EnqueueForReview(r, b)
  PROVE  GateTypeOK'
<1>1. ledger' \subseteq Entry /\ up' \in BOOLEAN /\ crashes' \in Nat
  BY LogTyped DEF EnqueueForReview
<1>2. QED
  BY <1>1 DEF EnqueueForReview, GateTypeOK, Status

LEMMA GateStepTyped ==
  ASSUME GateTypeOK, GateStep
  PROVE  GateTypeOK'
<1>1. ASSUME NEW r \in Review, NEW u \in Lawyer,
             ApproveReview(r, u) \/ RejectReview(r, u) \/ MarkReviewSent(r, u)
      PROVE  GateTypeOK'
  <2>1. ledger' \subseteq Entry /\ up' \in BOOLEAN /\ crashes' \in Nat
    BY <1>1, LogTyped DEF ApproveReview, RejectReview, MarkReviewSent
  <2>2. QED
    BY <1>1, <2>1 DEF ApproveReview, RejectReview, MarkReviewSent, GateTypeOK, Status
<1>2. QED
  BY <1>1, EnqueueTyped DEF GateStep

LEMMA GateTyped ==
  ASSUME GateTypeOK, [Next]_vars
  PROVE  GateTypeOK'
<1>1. CASE UNCHANGED gateVars
  BY <1>1 DEF gateVars, GateTypeOK
<1>2. CASE GateStep
  BY <1>2, GateStepTyped
<1>3. ASSUME NEW r \in Review, DraftSms(r) PROVE GateTypeOK'
  BY <1>3, EnqueueTyped, GateAssumption DEF DraftSms
<1>4. ASSUME NEW r \in Review, DraftIsCutOff(r) PROVE GateTypeOK'
  <2>1. up' \in BOOLEAN /\ crashes' \in Nat
    BY <1>4, DieTyped DEF DraftIsCutOff, GateTypeOK
  <2>2. [act |-> "enqueue", by |-> Skill, ref |-> r] \in Entry
    BY DEF Entry
  <2>3. QED
    BY <1>4, <2>1, <2>2, GateAssumption DEF DraftIsCutOff, GateTypeOK, Status
<1>5. CASE Crash
  <2>1. up' \in BOOLEAN /\ crashes' \in Nat
    BY <1>5, DieTyped DEF Crash, GateTypeOK
  <2>2. QED
    BY <1>5, <2>1 DEF Crash, GateTypeOK
<1>6. CASE RestartSms
  BY <1>6 DEF RestartSms, Restart, GateTypeOK
<1>7. QED
  BY <1>1, <1>2, <1>3, <1>4, <1>5, <1>6, CallStepLeavesGate DEF Next, SmsStep, CallStep, vars

-----------------------------------------------------------------------------

(* Rows, calls and texts; LateIsCounted follows below.                     *)
Sound ==
  /\ SmsTypeOK
  /\ CallsAreGranted
  /\ SidIsItsText
  /\ DeliveredIsTrue

(* A step that leaves calls and texts alone and grants nothing away.       *)
LEMMA QuietStepKeepsSound ==
  ASSUME Sound, \A r \in Review : Granted(r) => Granted(r)',
         UNCHANGED <<toNumber, sid, phase, target, mine, texts, late>>, opted' \subseteq Phone,
         \/ UNCHANGED sms
         \/ \E r \in Review, st \in {"pending", "blocked"} : sms' = [sms EXCEPT ![r] = st]
  PROVE  Sound'
<1>1. SmsTypeOK'
  BY DEF Sound, SmsTypeOK, SmsStatus
<1>2. CallsAreGranted'
  BY DEF Sound, CallsAreGranted
<1>3. SidIsItsText'
  BY DEF Sound, SidIsItsText
<1>4. DeliveredIsTrue'
  BY DEF Sound, DeliveredIsTrue, SmsTypeOK
<1>5. QED
  BY <1>1, <1>2, <1>3, <1>4 DEF Sound

(* A call that takes up a granted text, or is answered.                    *)
LEMMA AskingKeepsSound ==
  ASSUME Sound, NEW s \in Sender,
         (\E r \in Review : AskTwilio(s, r)) \/ TwilioRefuses(s) \/ AnswerIsLost(s)
  PROVE  Sound'
<1> USE DEF Sound
<1>1. /\ UNCHANGED <<toNumber, sms, sid, opted, mine, texts, late>>
      /\ UNCHANGED status
  BY DEF AskTwilio, TwilioRefuses, AnswerIsLost, gateVars
<1>2. PICK l \in {"asking", "refused", "cut off"} : phase' = [phase EXCEPT ![s] = l]
  BY DEF AskTwilio, TwilioRefuses, AnswerIsLost
<1>3. /\ target' \in [Sender -> Review \cup {NoReview}]
      /\ target'[s] \in Review /\ Granted(target'[s])
      /\ \A v \in Sender \ {s} : target'[v] = target[v]
  <2>1. CASE \E r \in Review : AskTwilio(s, r)
    BY <2>1 DEF AskTwilio, AssertApproved, Granted, SmsTypeOK
  <2>2. CASE TwilioRefuses(s) \/ AnswerIsLost(s)
    BY <2>2 DEF TwilioRefuses, AnswerIsLost, CallsAreGranted, SmsTypeOK
  <2>3. QED
    BY <2>1, <2>2
<1>4. SmsTypeOK'
  BY <1>1, <1>2, <1>3 DEF SmsTypeOK
<1>5. CallsAreGranted'
  <2>1. SUFFICES ASSUME NEW v \in Sender
                 PROVE  /\ phase'[v] # "idle" =>
                             target'[v] \in Review /\ status'[target'[v]] \in {"approved", "sent"}
                        /\ phase'[v] = "accepted" => mine'[v] \in DOMAIN texts'[target'[v]]
    BY DEF CallsAreGranted, Granted
  <2>2. CASE v = s
    BY <1>1, <1>2, <1>3, <2>2 DEF Granted, SmsTypeOK
  <2>3. CASE v # s
    BY <1>1, <1>2, <1>3, <2>3 DEF Granted, SmsTypeOK, CallsAreGranted
  <2>4. QED
    BY <2>2, <2>3
<1>6. SidIsItsText' /\ DeliveredIsTrue'
  BY <1>1 DEF SidIsItsText, DeliveredIsTrue
<1>7. QED
  BY <1>4, <1>5, <1>6

(* Twilio takes one more text of the message.                              *)
LEMMA AcceptKeepsSound ==
  ASSUME Sound, NEW s \in Sender, TwilioAccepts(s)
  PROVE  Sound'
<1> USE DEF Sound
<1> DEFINE r == target[s]
<1>1. r \in Review /\ Granted(r)
  BY DEF TwilioAccepts, CallsAreGranted
<1>2. /\ texts[r] \in Seq(Fate)
      /\ texts' = [texts EXCEPT ![r] = Append(texts[r], "carried")]
      /\ mine' = [mine EXCEPT ![s] = Len(texts[r]) + 1]
      /\ phase' = [phase EXCEPT ![s] = "accepted"]
      /\ UNCHANGED <<toNumber, sms, sid, opted, target, status>>
  BY <1>1 DEF TwilioAccepts, SmsTypeOK, gateVars
<1>3. /\ texts' \in [Review -> Seq(Fate)]
      /\ DOMAIN texts[r] = 1 .. Len(texts[r])
      /\ DOMAIN texts'[r] = 1 .. Len(texts[r]) + 1
      /\ \A n \in 1 .. Len(texts[r]) : texts'[r][n] = texts[r][n]
      /\ \A q \in Review \ {r} : texts'[q] = texts[q]
      /\ Len(texts[r]) \in Nat
  <2>1. Append(texts[r], "carried") \in Seq(Fate)
    BY <1>2 DEF Fate
  <2>2. texts'[r] = Append(texts[r], "carried")
    BY <1>1, <1>2 DEF SmsTypeOK
  <2>3. texts' \in [Review -> Seq(Fate)] /\ \A q \in Review \ {r} : texts'[q] = texts[q]
    BY <1>1, <1>2, <2>1 DEF SmsTypeOK
  <2>4. /\ Len(texts[r]) \in Nat
        /\ DOMAIN texts[r] = 1 .. Len(texts[r])
        /\ DOMAIN texts'[r] = 1 .. Len(texts[r]) + 1
        /\ \A n \in 1 .. Len(texts[r]) : texts'[r][n] = texts[r][n]
    BY <1>2, <2>2
  <2>5. QED
    BY <2>3, <2>4
<1>4. late' \in [Phone -> Nat]
  <2>1. toNumber[r] \in Phone /\ late \in [Phone -> Nat]
    BY <1>1 DEF SmsTypeOK
  <2>2. \/ late' = [late EXCEPT ![toNumber[r]] = late[toNumber[r]] + 1]
        \/ late' = [late EXCEPT ![toNumber[r]] = late[toNumber[r]]]
    BY DEF TwilioAccepts
  <2>3. QED
    BY <2>1, <2>2
<1>5. SmsTypeOK'
  <2>1. mine' \in [Sender -> Nat]
    <3>1. Len(texts[r]) + 1 \in Nat
      BY <1>3
    <3>2. mine \in [Sender -> Nat] /\ mine' = [mine EXCEPT ![s] = Len(texts[r]) + 1]
      BY <1>2 DEF SmsTypeOK
    <3>3. QED
      BY <3>1, <3>2
  <2>2. texts' \in [Review -> Seq(Fate)]
    BY <1>3
  <2>3. QED
    BY <1>2, <1>4, <2>1, <2>2 DEF SmsTypeOK
<1>6. CallsAreGranted'
  <2>1. SUFFICES ASSUME NEW v \in Sender
                 PROVE  /\ phase'[v] # "idle" => target[v] \in Review /\ Granted(target[v])
                        /\ phase'[v] = "accepted" => mine'[v] \in DOMAIN texts'[target[v]]
    BY <1>2 DEF CallsAreGranted, Granted
  <2>2. CASE v = s
    <3>1. mine'[v] = Len(texts[r]) + 1
      BY <1>2, <2>2 DEF SmsTypeOK
    <3>2. QED
      BY <1>1, <1>3, <2>2, <3>1
  <2>3. CASE v # s
    <3>1. phase'[v] = phase[v] /\ mine'[v] = mine[v]
      BY <1>2, <2>3 DEF SmsTypeOK
    <3>2. phase[v] # "idle" => target[v] \in Review /\ Granted(target[v])
      BY DEF CallsAreGranted
    <3>3. ASSUME phase[v] = "accepted" PROVE mine[v] \in DOMAIN texts'[target[v]]
      <4>1. mine[v] \in DOMAIN texts[target[v]] /\ target[v] \in Review
        BY <3>3 DEF CallsAreGranted
      <4>2. CASE target[v] = r
        BY <1>3, <4>1, <4>2
      <4>3. CASE target[v] # r
        BY <1>3, <4>1, <4>3
      <4>4. QED
        BY <4>2, <4>3
    <3>4. QED
      BY <3>1, <3>2, <3>3
  <2>4. QED
    BY <2>2, <2>3
<1>7. ASSUME NEW q \in Review, sid[q] \in DOMAIN texts[q]
      PROVE  sid[q] \in DOMAIN texts'[q] /\ texts'[q][sid[q]] = texts[q][sid[q]]
  <2>1. CASE q = r
    BY <1>3, <1>7, <2>1
  <2>2. CASE q # r
    BY <1>3, <1>7, <2>2
  <2>3. QED
    BY <2>1, <2>2
<1>8. SidIsItsText' /\ DeliveredIsTrue'
  BY <1>2, <1>7 DEF SidIsItsText, DeliveredIsTrue
<1>9. QED
  BY <1>5, <1>6, <1>8

(* Twilio delivers a text it carries, or gives it up.                      *)
LEMMA CarrierKeepsSound ==
  ASSUME Sound, NEW r \in Review, NEW n \in DOMAIN texts[r], CarrierEnds(r, n)
  PROVE  Sound'
<1> USE DEF Sound
<1>1. /\ UNCHANGED <<toNumber, sms, sid, opted, phase, target, mine, late, status>>
      /\ texts[r][n] = "carried"
  BY DEF CarrierEnds, gateVars
<1>2. PICK f \in Fate : texts' = [texts EXCEPT ![r][n] = f]
  BY DEF CarrierEnds, Fate
<1>3. texts[r] \in Seq(Fate)
  BY DEF SmsTypeOK
<1>4. texts' = [texts EXCEPT ![r] = [texts[r] EXCEPT ![n] = f]]
  BY <1>2
<1>5. [texts[r] EXCEPT ![n] = f] \in Seq(Fate)
  BY <1>3
<1>6. /\ texts' \in [Review -> Seq(Fate)]
      /\ texts'[r] = [texts[r] EXCEPT ![n] = f]
      /\ \A q \in Review \ {r} : texts'[q] = texts[q]
  BY <1>4, <1>5 DEF SmsTypeOK
<1>7. \A q \in Review : DOMAIN texts'[q] = DOMAIN texts[q]
  BY <1>6
<1>8. \A q \in Review : \A k \in DOMAIN texts[q] :
        texts[q][k] # "carried" => texts'[q][k] = texts[q][k]
  BY <1>1, <1>6
<1>9. SmsTypeOK'
  BY <1>1, <1>6 DEF SmsTypeOK
<1>10. CallsAreGranted'
  BY <1>1, <1>7 DEF CallsAreGranted, Granted
<1>11. SidIsItsText'
  BY <1>1, <1>7 DEF SidIsItsText
<1>12. DeliveredIsTrue'
  <2>1. \A q \in Review : sms[q] = "delivered" =>
          sid[q] \in DOMAIN texts[q] /\ texts[q][sid[q]] = "delivered"
    BY DEF DeliveredIsTrue, SidIsItsText
  <2>2. QED
    BY <1>1, <1>8, <2>1 DEF DeliveredIsTrue
<1>13. QED
  BY <1>9, <1>10, <1>11, <1>12

(* A callback names the text the row names, and says what became of it.    *)
LEMMA CallbackKeepsSound ==
  ASSUME Sound, NEW r \in Review, NEW n \in DOMAIN texts[r], HandleTwilioWebhook(r, n)
  PROVE  Sound'
<1> USE DEF Sound
<1>1. PICK st \in {"sent", texts[r][n]} \ {"carried"} : Callback(r, n, st)
  BY DEF HandleTwilioWebhook
<1>2. /\ sid[r] = n /\ sms' = [sms EXCEPT ![r] = st]
      /\ UNCHANGED <<toNumber, sid, opted, phase, target, mine, texts, late, status>>
  BY <1>1 DEF Callback, gateVars
<1>3. texts[r] \in Seq(Fate) /\ n \in 1 .. Len(texts[r])
  <2>1. texts[r] \in Seq(Fate)
    BY DEF SmsTypeOK
  <2>2. QED
    BY <2>1
<1>4. n # 0 /\ texts[r][n] \in Fate
  BY <1>3
<1>5. st \in {"sent", "delivered", "failed"} /\ (st = "delivered" => texts[r][n] = "delivered")
  BY <1>1, <1>4 DEF Fate
<1>6. SmsTypeOK'
  BY <1>2, <1>5 DEF SmsTypeOK, SmsStatus
<1>7. CallsAreGranted' /\ SidIsItsText'
  BY <1>2 DEF CallsAreGranted, SidIsItsText, Granted
<1>8. DeliveredIsTrue'
  BY <1>2, <1>4, <1>5 DEF DeliveredIsTrue, SmsTypeOK
<1>9. QED
  BY <1>6, <1>7, <1>8

(* A call returns: the row gets the sid of its own text, keeps the one it  *)
(* had, or none; and it is sent only with one.                             *)
LEMMA ReturnKeepsSound ==
  ASSUME Sound, NEW s \in Sender, FinishSend(s) \/ FailSend(s) \/ Lapse(s)
  PROVE  Sound'
<1> USE DEF Sound
<1> DEFINE r == target[s]
<1>1. r \in Review
  BY DEF FinishSend, FailSend, Lapse, CallsAreGranted
<1>2. PICK st \in SmsStatus, id \in Nat :
        /\ Return(s, st, id)
        /\ id # 0 => id \in DOMAIN texts[r]
        /\ st = "sent" => id # 0
        /\ st = "delivered" => id # 0 /\ texts[r][id] = "delivered"
  <2>1. /\ sid[r] \in Nat /\ (sid[r] # 0 => sid[r] \in DOMAIN texts[r])
        /\ sms[r] \in SmsStatus
        /\ sms[r] = "sent" => sid[r] # 0
        /\ sms[r] = "delivered" => sid[r] # 0 /\ texts[r][sid[r]] = "delivered"
    BY <1>1 DEF SidIsItsText, DeliveredIsTrue, SmsTypeOK
  <2>2. CASE FinishSend(s)
    <3>1. mine[s] \in DOMAIN texts[r] /\ mine[s] \in Nat /\ texts[r] \in Seq(Fate)
      BY <1>1, <2>2 DEF FinishSend, CallsAreGranted, SmsTypeOK
    <3>2. mine[s] # 0
      BY <3>1
    <3>3. \/ Return(s, "sent", mine[s])
          \/ Return(s, "failed", mine[s]) \/ Return(s, "failed", sid[r])
      BY <2>2 DEF FinishSend
    <3>4. QED
      BY <2>1, <3>1, <3>2, <3>3 DEF SmsStatus
  <2>3. CASE FailSend(s)
    <3>1. Return(s, "failed", 0) \/ Return(s, "failed", sid[r])
      BY <2>3 DEF FailSend
    <3>2. QED
      BY <2>1, <3>1 DEF SmsStatus
  <2>4. CASE Lapse(s)
    BY <2>1, <2>4 DEF Lapse
  <2>5. QED
    BY <2>2, <2>3, <2>4
<1>3. /\ sms' = [sms EXCEPT ![r] = st] /\ sid' = [sid EXCEPT ![r] = id]
      /\ phase' = [phase EXCEPT ![s] = "idle"]
      /\ target' = [target EXCEPT ![s] = NoReview]
      /\ mine' = [mine EXCEPT ![s] = 0]
      /\ UNCHANGED <<toNumber, opted, texts, late, status>>
  BY <1>2 DEF Return, gateVars
<1>4. SmsTypeOK'
  BY <1>1, <1>3 DEF SmsTypeOK
<1>5. CallsAreGranted'
  BY <1>3 DEF CallsAreGranted, Granted, SmsTypeOK
<1>6. SidIsItsText'
  BY <1>1, <1>2, <1>3 DEF SidIsItsText, SmsTypeOK
<1>7. DeliveredIsTrue'
  BY <1>1, <1>2, <1>3 DEF DeliveredIsTrue, SmsTypeOK
<1>8. QED
  BY <1>4, <1>5, <1>6, <1>7

(* The calls in flight are forgotten; their rows stay as they are.         *)
LEMMA RestartKeepsSound ==
  ASSUME Sound, RestartSms
  PROVE  Sound'
<1> USE DEF Sound
<1>1. /\ phase' = [s \in Sender |-> "idle"] /\ target' = [s \in Sender |-> NoReview]
      /\ mine' = [s \in Sender |-> 0]
      /\ UNCHANGED <<toNumber, sms, sid, opted, texts, late>>
  BY DEF RestartSms
<1>2. SmsTypeOK'
  BY <1>1 DEF SmsTypeOK
<1>3. CallsAreGranted' /\ SidIsItsText' /\ DeliveredIsTrue'
  BY <1>1 DEF CallsAreGranted, SidIsItsText, DeliveredIsTrue
<1>4. QED
  BY <1>2, <1>3

LEMMA NextKeepsSound ==
  ASSUME GateTypeOK, Sound, [Next]_vars
  PROVE  Sound'
<1>1. CASE CallStep
  <2>1. ASSUME NEW r \in Review, Block(r) PROVE Sound'
    <3>1. \A q \in Review : Granted(q) => Granted(q)'
      BY GrantsStay
    <3>2. QED
      BY <2>1, <3>1, QuietStepKeepsSound DEF Block, Sound, SmsTypeOK
  <2>2. ASSUME NEW p \in Phone, RecordOptOut(p) PROVE Sound'
    <3>1. opted' \subseteq Phone
      <4>1. E164[p] \in Phone
        BY <2>2, SmsAssumption
      <4>2. opted \subseteq Phone /\ opted' = opted \cup {E164[p]}
        BY <2>2 DEF RecordOptOut, Sound, SmsTypeOK
      <4>3. QED
        BY <4>1, <4>2
    <3>2. \A q \in Review : Granted(q) => Granted(q)'
      BY GrantsStay
    <3>3. QED
      BY <2>2, <3>1, <3>2, QuietStepKeepsSound DEF RecordOptOut
  <2>3. QED
    BY <1>1, <2>1, <2>2, AskingKeepsSound, AcceptKeepsSound, CarrierKeepsSound,
       CallbackKeepsSound, ReturnKeepsSound
       DEF CallStep
<1>2. CASE RestartSms
  BY <1>2, RestartKeepsSound
<1>3. CASE /\ UNCHANGED <<toNumber, sid, opted, phase, target, mine, texts, late>>
           /\ \/ UNCHANGED sms
              \/ \E r \in Review : sms' = [sms EXCEPT ![r] = IF up' THEN "pending" ELSE @]
  <2>1. \/ UNCHANGED sms
        \/ \E r \in Review : sms' = [sms EXCEPT ![r] = "pending"]
    BY <1>3 DEF Sound, SmsTypeOK
  <2>2. QED
    BY <1>3, <2>1, GrantsStay, QuietStepKeepsSound DEF Sound, SmsTypeOK
<1>4. QED
  BY <1>1, <1>2, <1>3, StepKinds

-----------------------------------------------------------------------------
(* Late texts.                                                             *)

LEMMA AskingAreFew ==
  ASSUME NEW p
  PROVE  /\ IsFiniteSet(Asking(p)) /\ Cardinality(Sender) \in Nat
         /\ Cardinality(Asking(p)) \in Nat
         /\ Cardinality(Asking(p)) <= Cardinality(Sender)
<1>1. Asking(p) \in SUBSET Sender
  BY DEF Asking
<1>2. QED
  BY <1>1, SmsAssumption, FS_Subset, FS_CardinalityType

(* No more calls ask than before and no text came late.                    *)
LEMMA FewerAskingKeepsLate ==
  ASSUME SmsTypeOK, LateIsCounted, UNCHANGED late, opted \subseteq opted',
         \A p \in Phone : Asking(p)' \subseteq Asking(p)
  PROVE  LateIsCounted'
<1>1. SUFFICES ASSUME NEW p \in Phone, E164[p] = p
               PROVE  /\ late[p] + Cardinality(Asking(p)') <= Cardinality(Sender)
                      /\ p \notin opted => late[p] = 0
  BY DEF LateIsCounted
<1>2. /\ Cardinality(Asking(p)') \in Nat /\ Cardinality(Asking(p)) \in Nat
      /\ Cardinality(Sender) \in Nat
      /\ Cardinality(Asking(p)') <= Cardinality(Asking(p))
  <2>1. IsFiniteSet(Asking(p)) /\ Cardinality(Sender) \in Nat
    BY AskingAreFew
  <2>2. Asking(p)' \in SUBSET Asking(p)
    OBVIOUS
  <2>3. QED
    BY <2>1, <2>2, FS_Subset, FS_CardinalityType
<1>3. /\ late[p] \in Nat
      /\ late[p] + Cardinality(Asking(p)) <= Cardinality(Sender)
      /\ p \notin opted => late[p] = 0
  BY <1>1 DEF SmsTypeOK, LateIsCounted
<1>4. QED
  BY <1>2, <1>3

(* A call only starts to ask for a phone that has not opted out.           *)
LEMMA AskKeepsLate ==
  ASSUME SmsTypeOK, LateIsCounted, NEW s \in Sender, NEW r \in Review, AskTwilio(s, r)
  PROVE  LateIsCounted'
<1>1. SUFFICES ASSUME NEW p \in Phone, E164[p] = p
               PROVE  /\ late[p] + Cardinality(Asking(p)') <= Cardinality(Sender)
                      /\ p \notin opted => late[p] = 0
  BY DEF LateIsCounted, AskTwilio
<1>2. late[p] \in Nat /\ (p \notin opted => late[p] = 0)
  BY <1>1 DEF SmsTypeOK, LateIsCounted
<1>3. CASE p \notin opted
  <2>1. Asking(p)' \in SUBSET Sender
    BY DEF Asking
  <2>2. /\ Cardinality(Asking(p)') <= Cardinality(Sender)
        /\ Cardinality(Asking(p)') \in Nat
    BY <2>1, SmsAssumption, FS_Subset, FS_CardinalityType
  <2>3. QED
    BY <1>2, <1>3, <2>2
<1>4. CASE p \in opted
  <2>1. toNumber[r] # p
    BY <1>4 DEF AskTwilio
  <2>2. Asking(p)' = Asking(p)
    BY <2>1 DEF AskTwilio, Asking, SmsTypeOK
  <2>3. QED
    BY <1>1, <1>2, <2>2 DEF LateIsCounted
<1>5. QED
  BY <1>3, <1>4

(* A text that comes late was asked for before the STOP: one call less     *)
(* asks.                                                                   *)
LEMMA AcceptKeepsLate ==
  ASSUME Sound, LateIsCounted, NEW s \in Sender, TwilioAccepts(s)
  PROVE  LateIsCounted'
<1> DEFINE q == toNumber[target[s]]
<1>1. target[s] \in Review /\ phase[s] = "asking" /\ q \in Phone
  BY DEF TwilioAccepts, Sound, CallsAreGranted, SmsTypeOK
<1>2. /\ phase' = [phase EXCEPT ![s] = "accepted"] /\ UNCHANGED <<toNumber, target, opted>>
      /\ late' = [late EXCEPT ![q] = IF E164[q] \in opted THEN late[q] + 1 ELSE late[q]]
      /\ late \in [Phone -> Nat]
  BY DEF TwilioAccepts, Sound, SmsTypeOK
<1>3. SUFFICES ASSUME NEW p \in Phone, E164[p] = p
               PROVE  /\ late'[p] + Cardinality(Asking(p)') <= Cardinality(Sender)
                      /\ p \notin opted => late'[p] = 0
  BY <1>2 DEF LateIsCounted
<1>4. /\ late[p] + Cardinality(Asking(p)) <= Cardinality(Sender)
      /\ p \notin opted => late[p] = 0
  BY <1>3 DEF LateIsCounted
<1>5. /\ IsFiniteSet(Asking(p)) /\ Cardinality(Sender) \in Nat
      /\ Cardinality(Asking(p)) \in Nat
  BY AskingAreFew
<1>6. CASE p = q
  <2>1. s \in Asking(p) /\ Asking(p)' = Asking(p) \ {s}
    BY <1>1, <1>2, <1>6 DEF Asking, Sound, SmsTypeOK
  <2>2. Cardinality(Asking(p)') = Cardinality(Asking(p)) - 1
    BY <1>5, <2>1, FS_RemoveElement
  <2>3. late'[p] <= late[p] + 1 /\ late'[p] \in Nat /\ late[p] \in Nat
    BY <1>2, <1>6
  <2>4. p \notin opted => late'[p] = late[p]
    BY <1>2, <1>3, <1>6
  <2>5. QED
    BY <1>4, <1>5, <2>2, <2>3, <2>4
<1>7. CASE p # q
  <2>1. Asking(p)' = Asking(p)
    BY <1>1, <1>2, <1>7 DEF Asking, Sound, SmsTypeOK
  <2>2. late'[p] = late[p]
    BY <1>2, <1>7
  <2>3. QED
    BY <1>4, <2>1, <2>2
<1>8. QED
  BY <1>6, <1>7

LEMMA NextKeepsLate ==
  ASSUME Sound, LateIsCounted, [Next]_vars
  PROVE  LateIsCounted'
<1> DEFINE Fewer == /\ UNCHANGED late /\ opted \subseteq opted'
                    /\ \A p \in Phone : Asking(p)' \subseteq Asking(p)
<1>1. ASSUME Fewer PROVE LateIsCounted'
  BY <1>1, FewerAskingKeepsLate DEF Sound
<1>2. ASSUME UNCHANGED <<toNumber, phase, target, late>>, opted \subseteq opted' PROVE Fewer
  BY <1>2 DEF Asking
<1>3. ASSUME NEW r \in Review,
             \/ Block(r)
             \/ \E n \in DOMAIN texts[r] : CarrierEnds(r, n) \/ HandleTwilioWebhook(r, n)
      PROVE  UNCHANGED <<toNumber, phase, target, late, opted>>
  BY <1>3 DEF Block, CarrierEnds, HandleTwilioWebhook, Callback
<1>4. ASSUME NEW p \in Phone, RecordOptOut(p)
      PROVE  UNCHANGED <<toNumber, phase, target, late>> /\ opted \subseteq opted'
  BY <1>4 DEF RecordOptOut
<1>5. ASSUME NEW s \in Sender, \/ TwilioRefuses(s) \/ AnswerIsLost(s)
             \/ FinishSend(s) \/ FailSend(s) \/ Lapse(s)
      PROVE  Fewer
  <2>1. UNCHANGED <<toNumber, late, opted>>
    BY <1>5 DEF TwilioRefuses, AnswerIsLost, FinishSend, FailSend, Lapse, Return
  <2>2. phase'[s] # "asking" /\ \A v \in Sender \ {s} : phase'[v] = phase[v] /\ target'[v] = target[v]
    BY <1>5 DEF TwilioRefuses, AnswerIsLost, FinishSend, FailSend, Lapse, Return, Sound,
                SmsTypeOK
  <2>3. QED
    BY <2>1, <2>2 DEF Asking
<1>6. CASE RestartSms
  <2>1. UNCHANGED <<toNumber, late, opted>> /\ \A v \in Sender : phase'[v] = "idle"
    BY <1>6 DEF RestartSms
  <2>2. QED
    BY <1>1, <2>1 DEF Asking
<1>7. CASE CallStep
  BY <1>1, <1>2, <1>3, <1>4, <1>5, <1>7, AskKeepsLate, AcceptKeepsLate DEF CallStep, Sound
<1>8. CASE UNCHANGED <<toNumber, sid, opted, phase, target, mine, texts, late>>
  BY <1>1, <1>2, <1>8
<1>9. QED
  BY <1>6, <1>7, <1>8, StepKinds

-----------------------------------------------------------------------------

LEMMA InitInv == Init => IInv
<1>1. SUFFICES ASSUME Init PROVE IInv
  OBVIOUS
<1>2. GateTypeOK
  BY <1>1 DEF Init, GateInit, GateTypeOK, Status
<1>3. SmsTypeOK
  BY <1>1 DEF Init, SmsTypeOK, SmsStatus
<1>4. CallsAreGranted /\ SidIsItsText /\ DeliveredIsTrue
  BY <1>1 DEF Init, CallsAreGranted, SidIsItsText, DeliveredIsTrue
<1>5. LateIsCounted
  <2>1. \A p \in Phone : late[p] = 0
    BY <1>1 DEF Init
  <2>2. QED
    BY <2>1, AskingAreFew DEF LateIsCounted
<1>6. QED
  BY <1>2, <1>3, <1>4, <1>5 DEF IInv, TypeOK

LEMMA NextInv == IInv /\ [Next]_vars => IInv'
  BY GateTyped, NextKeepsSound, NextKeepsLate DEF IInv, TypeOK, Sound

(* Gate, rows, calls and texts keep the invariant in every instance.       *)
THEOREM InvariantHolds == Spec => []IInv
  BY InitInv, NextInv, PTL DEF Spec

(* Every row, call and text keeps its type.                                *)
THEOREM TypeCorrect == Spec => []TypeOK
<1>1. IInv => TypeOK
  BY DEF IInv
<1>2. QED
  BY <1>1, InvariantHolds, PTL

(* After a STOP no more texts go out to the number it came from, in the    *)
(* form Twilio gives it, than calls of sendSms were in flight, for any     *)
(* ways of writing any lines (sms.ts:5-8, :66-68, sendSms).                *)
THEOREM StopHolds == Spec => []StopIsKept
<1>1. IInv => StopIsKept
  <2>1. SUFFICES ASSUME IInv, NEW p \in Phone, E164[p] = p
                 PROVE  late[p] <= Cardinality(Sender)
    BY DEF StopIsKept
  <2>2. late[p] \in Nat /\ late[p] + Cardinality(Asking(p)) <= Cardinality(Sender)
    BY <2>1 DEF IInv, TypeOK, SmsTypeOK, LateIsCounted
  <2>3. QED
    BY <2>2, AskingAreFew
<1>2. QED
  BY <1>1, InvariantHolds, PTL

(* A row marked sent names a text Twilio took, one marked delivered names  *)
(* a text that was delivered, whatever order the callbacks come in         *)
(* (sms.ts, sendSms and handleTwilioWebhook).                              *)
THEOREM DeliveriesAreTrue == Spec => []DeliveredIsTrue
<1>1. IInv => DeliveredIsTrue
  BY DEF IInv
<1>2. QED
  BY <1>1, InvariantHolds, PTL

-----------------------------------------------------------------------------

VerdictNow == [r \in Review |-> VerdictOf[status[r]]]
TextedNow == {r \in Review : texts[r] # << >>}

(* A row of the queue moves as the promise lets an item move.              *)
LEMMA MovesImplement ==
  ASSUME GateTypeOK, QueueMove, TextedNow' = TextedNow
  PROVE  Promise!Next \/ UNCHANGED Promise!vars
<1> USE DEF GateTypeOK, VerdictOf, Promise!vars
<1>1. CASE UNCHANGED status
  BY <1>1 DEF TextedNow
<1>2. ASSUME NEW r \in Review, NEW from \in Status, NEW to \in Status, Moves(r, from, to)
      PROVE  /\ VerdictNow[r] = VerdictOf[from]
             /\ VerdictNow' = [VerdictNow EXCEPT ![r] = VerdictOf[to]]
  BY <1>2 DEF Moves, VerdictNow
<1>3. ASSUME NEW r \in Review, Moves(r, "none", "pending")
      PROVE  Promise!Next
  <2>1. VerdictNow[r] = "absent" /\ VerdictNow' = [VerdictNow EXCEPT ![r] = "open"]
    BY <1>2, <1>3 DEF Status
  <2>2. Promise!Submit(r)
    BY <2>1, Zenon DEF Promise!Submit, VerdictNow, TextedNow
  <2>3. QED
    BY <2>2 DEF Promise!Next
<1>4. ASSUME NEW r \in Review, NEW to \in {"approved", "rejected"}, Moves(r, "pending", to)
      PROVE  Promise!Next
  <2>1. /\ VerdictNow[r] = "open"
        /\ VerdictNow' = [VerdictNow EXCEPT ![r] = VerdictOf[to]]
        /\ VerdictOf[to] \in {"granted", "refused"}
    BY <1>2, <1>4 DEF Status
  <2>2. Promise!Decide(r)
    BY <2>1 DEF Promise!Decide, VerdictNow, TextedNow
  <2>3. QED
    BY <2>2 DEF Promise!Next
<1>5. ASSUME NEW r \in Review, Moves(r, "approved", "sent")
      PROVE  UNCHANGED Promise!vars
  BY <1>5 DEF Moves, TextedNow
<1>6. QED
  BY <1>1, <1>3, <1>4, <1>5 DEF QueueMove

LEMMA AcceptImplements ==
  ASSUME IInv, NEW s \in Sender, NEW r \in Review, target[s] = r, TwilioAccepts(s)
  PROVE  Promise!Next
<1>1. Granted(r) /\ texts[r] \in Seq(Fate)
  BY DEF TwilioAccepts, IInv, CallsAreGranted, TypeOK, SmsTypeOK
<1>2. /\ texts' = [texts EXCEPT ![r] = Append(texts[r], "carried")]
      /\ UNCHANGED status
  BY DEF TwilioAccepts, gateVars
<1>3. VerdictNow[r] = "granted" /\ VerdictNow' = VerdictNow
  BY <1>1, <1>2 DEF VerdictNow, VerdictOf, Granted
<1>4. TextedNow' = TextedNow \cup {r}
  <2>1. texts'[r] = Append(texts[r], "carried") /\ \A q \in Review \ {r} : texts'[q] = texts[q]
    BY <1>1, <1>2 DEF IInv, TypeOK, SmsTypeOK
  <2>2. Append(texts[r], "carried") # << >>
    BY <1>1
  <2>3. QED
    BY <1>1, <2>1, <2>2 DEF TextedNow
<1>5. Promise!Release(r)
  BY <1>3, <1>4, Zenon DEF Promise!Release, VerdictNow, TextedNow
<1>6. QED
  BY <1>5 DEF Promise!Next

(* Twilio's fate for a text neither adds nor takes away one.               *)
LEMMA OthersTextNobody ==
  ASSUME IInv, [Next]_vars, ~ \E s \in Sender : TwilioAccepts(s)
  PROVE  TextedNow' = TextedNow
<1>1. CASE UNCHANGED texts
  BY <1>1 DEF TextedNow
<1>2. ASSUME NEW r \in Review, NEW n \in DOMAIN texts[r], CarrierEnds(r, n)
      PROVE  TextedNow' = TextedNow
  <2>1. PICK f : texts' = [texts EXCEPT ![r] = [texts[r] EXCEPT ![n] = f]]
    BY <1>2 DEF CarrierEnds
  <2>2. texts \in [Review -> Seq(Fate)]
    BY DEF IInv, TypeOK, SmsTypeOK
  <2>3. texts[r] # << >> /\ texts'[r] # << >>
    BY <2>1, <2>2
  <2>4. \A q \in Review \ {r} : texts'[q] = texts[q]
    BY <2>1, <2>2
  <2>5. QED
    BY <2>3, <2>4 DEF TextedNow
<1>3. CASE CallStep
  BY <1>1, <1>2, <1>3
     DEF CallStep, Block, AskTwilio, HandleTwilioWebhook, Callback, RecordOptOut,
         TwilioRefuses, AnswerIsLost, FinishSend, FailSend, Lapse, Return
<1>4. CASE RestartSms
  BY <1>1, <1>4 DEF RestartSms
<1>5. QED
  BY <1>1, <1>3, <1>4, StepKinds

(* Gate and text channel implement GatedRelease: an item is decided once   *)
(* and texted only once granted (reviewGate.ts:1-17, sms.ts:6).            *)
THEOREM TextsAreGranted == Spec => TextsKeepPromise
<1>1. Init => Promise!Init
  BY DEF Init, GateInit, Promise!Init, VerdictOf
<1>2. IInv /\ [Next]_vars => [Promise!Next]_(Promise!vars)
  <2> SUFFICES ASSUME IInv, [Next]_vars PROVE Promise!Next \/ UNCHANGED Promise!vars
    OBVIOUS
  <2>1. CASE \E s \in Sender : TwilioAccepts(s)
    <3>1. PICK s \in Sender : TwilioAccepts(s)
      BY <2>1
    <3>2. target[s] \in Review
      BY <3>1 DEF TwilioAccepts, IInv, CallsAreGranted
    <3>3. QED
      BY <3>1, <3>2, AcceptImplements
  <2>2. CASE ~ \E s \in Sender : TwilioAccepts(s)
    BY <2>2, OthersTextNobody, QueueMoves, MovesImplement DEF IInv, TypeOK
  <2>3. QED
    BY <2>1, <2>2
<1>3. QED
  BY <1>1, <1>2, InvariantHolds, PTL DEF Spec, TextsKeepPromise, Promise!Spec

-----------------------------------------------------------------------------
(* Onboarding.                                                             *)

(* What makes it inductive: a case whose letter was drafted has a matter,  *)
(* in sight of every later check unless it was in the archive.             *)
EngagedIsInSight ==
  \A c \in Case : Engaged(c) => matter[c] = "open" \/ c \in shelved

LEMMA StepsAreTyped == OnboardingTypeOK /\ [OnboardingNext]_onboardingVars => OnboardingTypeOK'
<1>0. SUFFICES ASSUME OnboardingTypeOK, [OnboardingNext]_onboardingVars PROVE OnboardingTypeOK'
  OBVIOUS
<1> DEFINE FirmTyped == /\ matter \in [Case -> {"none", "open", "archived"}]
                        /\ shelved \subseteq Case
                        /\ check \in [Case -> {"none", "pending", "cleared", "blocked"}]
                        /\ matches \in [Case -> SUBSET Case]
           ClientTyped == /\ onboarding \in [Case -> Stage]
                          /\ letter \in [Case -> {"none", "pending", "approved", "rejected"}]
                          /\ letterEnv \in [Case -> Envelope \cup {NoEnvelope}]
                          /\ active \subseteq Case
           MailTyped == mail \in [Case -> {"none", "notifying", "replying", "acknowledged", "unanswered"}]
<1>1. MaxMishaps \in Nat /\ mishaps \in Nat /\ mishaps <= MaxMishaps
  BY <1>0, SignatureAssumption DEF OnboardingTypeOK, SignatureTypeOK
<1>2. ASSUME NEW n \in Nat, NEW done \in Upto(n), Count(done, n)
      PROVE  mishaps' \in 0..MaxMishaps
  BY <1>1, <1>2 DEF Upto, Count
<1>3. FirmTyped /\ ClientTyped /\ MailTyped /\ SignatureTypeOK
  BY <1>0 DEF OnboardingTypeOK
<1>4. ASSUME NEW c \in Case, RunConflictCheck(c)
      PROVE  /\ check' \in [Case -> {"none", "pending", "cleared", "blocked"}]
             /\ matches' \in [Case -> SUBSET Case]
  BY <1>3, <1>4 DEF RunConflictCheck, Find
<1>5. CASE UNCHANGED onboardingVars
  BY <1>0, <1>5 DEF onboardingVars, firmVars, clientVars, signatureVars, OnboardingTypeOK, SignatureTypeOK
<1>6. ASSUME SignatureStep, UNCHANGED <<firmVars, clientVars, mail>> PROVE OnboardingTypeOK'
  <2>1. SignatureTypeOK'
    <3>1. ASSUME NEW e \in Envelope, SendEnvelope(e) PROVE SignatureTypeOK'
      BY <1>3, <3>1 DEF SendEnvelope, SetEnvelope, SignatureTypeOK, EnvelopeStatus
    <3>2. ASSUME NEW e \in Envelope, NEW s \in Signer, AddSigner(e, s) PROVE SignatureTypeOK'
      BY <1>3, <3>2 DEF AddSigner, SetSigner, SignatureTypeOK, SignerStatus
    <3>3. ASSUME NEW e \in Envelope, NEW s \in Signer, RecordSignature(e, s)
          PROVE  SignatureTypeOK'
      <4>1. mishaps' \in 0..MaxMishaps
        BY <1>2, <3>3 DEF RecordSignature
      <4>2. QED
        BY <1>3, <3>3, <4>1
           DEF RecordSignature, SetSigner, SetEnvelope, SignatureTypeOK, SignerStatus, EnvelopeStatus
    <3>4. ASSUME NEW e \in Envelope, NEW s \in Signer, DeclineSignature(e, s)
          PROVE  SignatureTypeOK'
      <4>1. mishaps' \in 0..MaxMishaps
        BY <1>2, <3>4 DEF DeclineSignature
      <4>2. QED
        BY <1>3, <3>4, <4>1
           DEF DeclineSignature, SetSigner, SetEnvelope, SignatureTypeOK, SignerStatus, EnvelopeStatus
    <3>5. QED
      BY <1>6, <3>1, <3>2, <3>3, <3>4 DEF SignatureStep
  <2>2. QED
    BY <1>3, <1>6, <2>1 DEF OnboardingTypeOK, firmVars, clientVars
<1>7. ASSUME NEW c \in Case, CaseStep(c) PROVE OnboardingTypeOK'
  <2>1. CASE ResolveConflictCheck(c) \/ OtherMatter(c) \/ PatchStatus(c)
    <3>1. ASSUME ResolveConflictCheck(c) PROVE OnboardingTypeOK'
      BY <1>3, <3>1
         DEF ResolveConflictCheck, clientVars, signatureVars, OnboardingTypeOK, SignatureTypeOK
    <3>2. ASSUME OtherMatter(c) PROVE OnboardingTypeOK'
      BY <1>3, <3>2 DEF OtherMatter, clientVars, signatureVars, OnboardingTypeOK, SignatureTypeOK
    <3>3. ASSUME PatchStatus(c) PROVE OnboardingTypeOK'
      <4>1. FirmTyped'
        BY <1>3, <3>3 DEF PatchStatus
      <4>2. QED
        BY <1>3, <3>3, <4>1 DEF PatchStatus, clientVars, signatureVars, OnboardingTypeOK, SignatureTypeOK
    <3>4. QED
      BY <2>1, <3>1, <3>2, <3>3
  <2>2. CASE StartOnboarding(c)
    <3>1. PICK done \in Upto(5) \ {0} :
            /\ IF done >= 2 THEN matter' = [matter EXCEPT ![c] = "open"] ELSE UNCHANGED matter
            /\ IF done >= 3 THEN RunConflictCheck(c) ELSE UNCHANGED <<check, matches>>
            /\ onboarding' = [onboarding EXCEPT ![c] =
                 IF done < 4 THEN "started"
                 ELSE IF Find(c) = {} THEN "engagement_letter" ELSE "conflict_check"]
            /\ letter' = [letter EXCEPT ![c] =
                 IF done = 5 /\ Find(c) = {} THEN "pending" ELSE @]
            /\ Count(done, 5)
      BY <2>2 DEF StartOnboarding
    <3>2. mishaps' \in 0..MaxMishaps
      BY <1>2, <3>1
    <3>3. FirmTyped'
      BY <1>3, <1>4, <2>2, <3>1 DEF StartOnboarding
    <3>4. ClientTyped'
      BY <1>3, <2>2, <3>1 DEF StartOnboarding, Stage
    <3>5. QED
      BY <1>3, <2>2, <3>2, <3>3, <3>4 DEF StartOnboarding, signatureVars, OnboardingTypeOK, SignatureTypeOK
  <2>3. CASE ReviewLetter(c)
    BY <1>3, <2>3 DEF ReviewLetter, firmVars, signatureVars, OnboardingTypeOK, SignatureTypeOK
  <2>4. ASSUME NEW e \in Envelope, NEW s \in Signer, ApproveEngagementLetter(c, e, s)
        PROVE  OnboardingTypeOK'
    <3>1. mishaps' \in 0..MaxMishaps
      BY <1>2, <2>4 DEF ApproveEngagementLetter
    <3>2. ClientTyped'
      <4>1. PICK done \in Upto(3) \ {0} :
              /\ letterEnv' = [letterEnv EXCEPT ![c] = IF done = 3 THEN e ELSE @]
              /\ onboarding' = [onboarding EXCEPT ![c] =
                   IF done = 3 THEN "awaiting_signature" ELSE @]
        BY <2>4 DEF ApproveEngagementLetter
      <4>2. onboarding' \in [Case -> Stage]
        BY <1>3, <4>1 DEF Stage
      <4>3. letterEnv' \in [Case -> Envelope \cup {NoEnvelope}]
        BY <1>3, <4>1
      <4>4. QED
        BY <1>3, <2>4, <4>2, <4>3 DEF ApproveEngagementLetter
    <3>3. envelope' \in [Envelope -> EnvelopeStatus] /\ signer' \in [Envelope -> [Signer -> SignerStatus]]
      <4>1. envelope' = [envelope EXCEPT ![e] = "draft"]
        BY <2>4 DEF ApproveEngagementLetter, SetEnvelope
      <4>2. signer' = [signer EXCEPT ![e][s] = "pending"] \/ signer' = signer
        BY <2>4 DEF ApproveEngagementLetter, SetSigner
      <4>3. QED
        BY <1>3, <4>1, <4>2 DEF SignatureTypeOK, EnvelopeStatus, SignerStatus
    <3>4. QED
      BY <1>3, <2>4, <3>1, <3>2, <3>3
         DEF ApproveEngagementLetter, firmVars, OnboardingTypeOK, SignatureTypeOK
  <2>5. CASE MarkIdentityVerified(c)
    <3>1. mishaps' \in 0..MaxMishaps
      BY <1>2, <2>5 DEF MarkIdentityVerified
    <3>2. ClientTyped'
      BY <1>3, <2>5 DEF MarkIdentityVerified, Stage
    <3>3. QED
      BY <1>3, <2>5, <3>1, <3>2
         DEF MarkIdentityVerified, firmVars, signatureVars, OnboardingTypeOK, SignatureTypeOK
  <2>6. CASE TakeMail(c)
    <3>1. mishaps' \in 0..MaxMishaps
      BY <1>2, <2>6 DEF TakeMail
    <3>2. FirmTyped'
      BY <1>3, <1>4, <2>6 DEF TakeMail
    <3>3. QED
      BY <1>3, <2>6, <3>1, <3>2 DEF TakeMail, clientVars, signatureVars, OnboardingTypeOK, SignatureTypeOK
  <2>7. CASE LawyerNotified(c) \/ SendAutoReply(c)
    BY <1>3, <2>7
       DEF LawyerNotified, SendAutoReply, firmVars, clientVars, signatureVars, OnboardingTypeOK,
           SignatureTypeOK
  <2>8. QED
    BY <1>7, <2>1, <2>2, <2>3, <2>4, <2>5, <2>6, <2>7 DEF CaseStep
<1>8. QED
  BY <1>0, <1>5, <1>6, <1>7 DEF OnboardingNext

(* The types of tables, stages and envelopes hold for any cases and names. *)
THEOREM OnboardingTypes == OnboardingSpec => []OnboardingTypeOK
<1>1. OnboardingInit => OnboardingTypeOK
  BY SignatureAssumption, OnboardingAssumption
     DEF OnboardingInit, SignatureInit, OnboardingTypeOK, SignatureTypeOK, Stage, EnvelopeStatus, SignerStatus
<1>2. QED
  BY <1>1, StepsAreTyped, PTL DEF OnboardingSpec

-----------------------------------------------------------------------------

LEMMA OneSideIsKept ==
  OnboardingTypeOK /\ EngagedIsInSight /\ OneSideIsEngaged /\ [OnboardingNext]_onboardingVars
    => EngagedIsInSight' /\ OneSideIsEngaged'
<1>0. SUFFICES ASSUME OnboardingTypeOK, EngagedIsInSight, OneSideIsEngaged, [OnboardingNext]_onboardingVars
               PROVE  EngagedIsInSight' /\ OneSideIsEngaged'
  OBVIOUS
(* Most steps take no matter out of sight and draft no letter.             *)
<1>1. ASSUME \A d \in Case : /\ Engaged(d)' => Engaged(d)
                             /\ matter[d] = "open" => matter'[d] = "open" \/ d \in shelved',
             shelved \subseteq shelved'
      PROVE  EngagedIsInSight' /\ OneSideIsEngaged'
  <2>1. EngagedIsInSight'
    BY <1>0, <1>1 DEF EngagedIsInSight, Engaged
  <2>2. OneSideIsEngaged'
    BY <1>0, <1>1 DEF OneSideIsEngaged, Engaged
  <2>3. QED
    BY <2>1, <2>2
<1>2. ASSUME UNCHANGED <<firmVars, letter>>
      PROVE  EngagedIsInSight' /\ OneSideIsEngaged'
  BY <1>1, <1>2 DEF firmVars, Engaged
<1>3. ASSUME NEW c \in Case, StartOnboarding(c)
      PROVE  EngagedIsInSight' /\ OneSideIsEngaged'
  <2>1. matter[c] = "none" /\ shelved' = shelved
    BY <1>3 DEF StartOnboarding, Unknown
  <2>2. PICK done \in Upto(5) \ {0} :
          /\ IF done >= 2 THEN matter' = [matter EXCEPT ![c] = "open"] ELSE UNCHANGED matter
          /\ letter' = [letter EXCEPT ![c] =
               IF done = 5 /\ Find(c) = {} THEN "pending" ELSE @]
    BY <1>3 DEF StartOnboarding
  <2>3. /\ matter \in [Case -> {"none", "open", "archived"}]
        /\ letter \in [Case -> {"none", "pending", "approved", "rejected"}]
    BY <1>0 DEF OnboardingTypeOK
  <2>4. \A d \in Case : matter[d] = "open" => matter'[d] = "open"
    BY <2>2, <2>3
  <2>5. CASE done = 5 /\ Find(c) = {}
    <3>1. matter' = [matter EXCEPT ![c] = "open"] /\ letter' = [letter EXCEPT ![c] = "pending"]
      BY <2>2, <2>5
    <3>2. matter'[c] = "open" /\ \A d \in Case \ {c} : Engaged(d)' <=> Engaged(d)
      BY <2>3, <3>1 DEF Engaged
    <3>3. ASSUME NEW d \in Case \ {c}, Engaged(d), d \notin shelved
          PROVE  ~Resembles(Client[c], Client[d])
      BY <1>0, <2>5, <3>3 DEF EngagedIsInSight, Find, Clash
    <3>4. EngagedIsInSight'
      BY <1>0, <2>1, <2>4, <3>2 DEF EngagedIsInSight
    <3>5. OneSideIsEngaged'
      BY <1>0, <2>1, <3>2, <3>3 DEF OneSideIsEngaged
    <3>6. QED
      BY <3>4, <3>5
  <2>6. CASE ~(done = 5 /\ Find(c) = {})
    <3>1. \A d \in Case : Engaged(d)' <=> Engaged(d)
      BY <2>2, <2>3, <2>6 DEF Engaged
    <3>2. QED
      BY <1>1, <2>1, <2>4, <3>1
  <2>7. QED
    BY <2>5, <2>6
<1>4. ASSUME NEW c \in Case, OtherMatter(c) \/ TakeMail(c) \/ PatchStatus(c)
      PROVE  EngagedIsInSight' /\ OneSideIsEngaged'
  <2>1. letter' = letter
    BY <1>4 DEF OtherMatter, TakeMail, PatchStatus, clientVars
  <2>2. matter \in [Case -> {"none", "open", "archived"}]
    BY <1>0 DEF OnboardingTypeOK
  <2>3. CASE OtherMatter(c) \/ TakeMail(c)
    <3>1. matter[c] = "none" /\ matter' = [matter EXCEPT ![c] = "open"] /\ shelved' = shelved
      BY <2>3 DEF OtherMatter, TakeMail, Unknown
    <3>2. QED
      BY <1>1, <2>1, <2>2, <3>1 DEF Engaged
  <2>4. CASE PatchStatus(c)
    <3>1. /\ matter' = [matter EXCEPT ![c] = IF @ = "open" THEN "archived" ELSE "open"]
          /\ shelved' = shelved \cup {c}
      BY <2>4 DEF PatchStatus
    <3>2. QED
      BY <1>1, <2>1, <2>2, <3>1 DEF Engaged
  <2>5. QED
    BY <1>4, <2>3, <2>4
<1>5. ASSUME NEW c \in Case, ResolveConflictCheck(c) PROVE EngagedIsInSight' /\ OneSideIsEngaged'
  BY <1>1, <1>5 DEF ResolveConflictCheck, clientVars, Engaged
<1>6. ASSUME NEW c \in Case, ReviewLetter(c) PROVE EngagedIsInSight' /\ OneSideIsEngaged'
  <2>1. \A d \in Case : Engaged(d)' => Engaged(d)
    BY <1>0, <1>6 DEF ReviewLetter, Engaged, OnboardingTypeOK
  <2>2. QED
    BY <1>1, <1>6, <2>1 DEF ReviewLetter, firmVars
<1>7. CASE UNCHANGED onboardingVars
  BY <1>2, <1>7 DEF onboardingVars, clientVars
<1>8. CASE SignatureStep /\ UNCHANGED <<firmVars, clientVars, mail>>
  BY <1>2, <1>8 DEF clientVars
<1>9. ASSUME NEW c \in Case, CaseStep(c) PROVE EngagedIsInSight' /\ OneSideIsEngaged'
  <2>1. CASE \E e \in Envelope, s \in Signer : ApproveEngagementLetter(c, e, s)
    BY <1>2, <2>1 DEF ApproveEngagementLetter
  <2>2. CASE MarkIdentityVerified(c) \/ LawyerNotified(c) \/ SendAutoReply(c)
    BY <1>2, <2>2 DEF MarkIdentityVerified, LawyerNotified, SendAutoReply, clientVars
  <2>3. QED
    BY <1>3, <1>4, <1>5, <1>6, <1>9, <2>1, <2>2 DEF CaseStep
<1>10. QED
  BY <1>0, <1>7, <1>8, <1>9 DEF OnboardingNext

(* OneSideIsEngaged, for any number of cases, names and domains: the check *)
(* of client-onboarding.ts sees every earlier engagement that was not put  *)
(* in the archive.                                                         *)
THEOREM OneSideOnly == OnboardingSpec => []OneSideIsEngaged
<1>1. OnboardingInit => EngagedIsInSight /\ OneSideIsEngaged
  BY DEF OnboardingInit, EngagedIsInSight, OneSideIsEngaged, Engaged
<1>2. QED
  BY <1>1, OnboardingTypes, OneSideIsKept, PTL DEF OnboardingSpec

-----------------------------------------------------------------------------

(* What EnvelopeTellsItsSigners says of one envelope.                      *)
Tells(st, sig) ==
  /\ st = "declined" <=> \E s \in Signer : sig[s] = "declined"
  /\ SignedByAll(sig) /\ (\E s \in Signer : sig[s] = "signed") => st = "completed"
  /\ st = "completed" => \E s \in Signer : sig[s] = "signed"
  /\ st = "none" => \A s \in Signer : sig[s] = "none"

TellAll == mishaps = 0 => \A e \in Envelope : Tells(envelope[e], signer[e])

LEMMA TellersStay == OnboardingTypeOK /\ TellAll /\ [OnboardingNext]_onboardingVars => TellAll'
<1>0. SUFFICES ASSUME OnboardingTypeOK, TellAll, [OnboardingNext]_onboardingVars, mishaps' = 0
               PROVE  \A e \in Envelope : Tells(envelope'[e], signer'[e])
  BY DEF TellAll
<1>1. /\ envelope \in [Envelope -> EnvelopeStatus]
      /\ signer \in [Envelope -> [Signer -> SignerStatus]]
      /\ mishaps \in Nat
  BY <1>0 DEF OnboardingTypeOK, SignatureTypeOK
<1>2. ASSUME NEW n \in Nat, NEW done \in Upto(n), Count(done, n)
      PROVE  mishaps = 0 /\ done = n
  BY <1>0, <1>1, <1>2 DEF Count
(* A step that leaves all envelopes but one alone.                         *)
<1>3. ASSUME NEW e \in Envelope, NEW st \in EnvelopeStatus, NEW sig \in [Signer -> SignerStatus],
             envelope' = [envelope EXCEPT ![e] = st], signer' = [signer EXCEPT ![e] = sig],
             mishaps = 0, Tells(st, sig)
      PROVE  \A x \in Envelope : Tells(envelope'[x], signer'[x])
  <2>1. TAKE x \in Envelope
  <2>2. CASE x = e
    BY <1>1, <1>3, <2>2
  <2>3. CASE x # e
    <3>1. envelope'[x] = envelope[x] /\ signer'[x] = signer[x] /\ Tells(envelope[x], signer[x])
      BY <1>0, <1>1, <1>3, <2>3 DEF TellAll
    <3>2. QED
      BY <3>1
  <2>4. QED
    BY <2>2, <2>3
<1>4. ASSUME mishaps = 0
      PROVE  \A e \in Envelope : Tells(envelope[e], signer[e])
  BY <1>0, <1>4 DEF TellAll
<1>5. CASE UNCHANGED <<signatureVars, mishaps>>
  BY <1>0, <1>4, <1>5 DEF signatureVars
<1>6. ASSUME NEW e \in Envelope, SendEnvelope(e)
      PROVE  \A x \in Envelope : Tells(envelope'[x], signer'[x])
  <2>1. mishaps = 0 /\ Tells("draft", signer[e])
    BY <1>0, <1>4, <1>6 DEF SendEnvelope
  <2>2. Tells("sent", signer[e])
    BY <2>1 DEF Tells
  <2>3. envelope' = [envelope EXCEPT ![e] = "sent"] /\ signer' = [signer EXCEPT ![e] = signer[e]]
    BY <1>1, <1>6 DEF SendEnvelope, SetEnvelope
  <2>4. "sent" \in EnvelopeStatus /\ signer[e] \in [Signer -> SignerStatus]
    BY <1>1 DEF EnvelopeStatus
  <2>5. QED
    BY <1>3, <2>1, <2>2, <2>3, <2>4
<1>7. ASSUME NEW e \in Envelope, NEW s \in Signer,
             AddSigner(e, s) \/ RecordSignature(e, s) \/ DeclineSignature(e, s)
      PROVE  \A x \in Envelope : Tells(envelope'[x], signer'[x])
  <2>1. ASSUME NEW st \in EnvelopeStatus, NEW new \in SignerStatus,
               envelope' = [envelope EXCEPT ![e] = st], SetSigner(e, s, new),
               mishaps = 0, Tells(st, [signer[e] EXCEPT ![s] = new])
        PROVE  \A x \in Envelope : Tells(envelope'[x], signer'[x])
    <3>1. signer' = [signer EXCEPT ![e] = [signer[e] EXCEPT ![s] = new]]
      BY <1>1, <2>1 DEF SetSigner
    <3>2. [signer[e] EXCEPT ![s] = new] \in [Signer -> SignerStatus]
      BY <1>1
    <3>3. QED
      BY <1>3, <2>1, <3>1, <3>2
  <2>2. signer[e] \in [Signer -> SignerStatus] /\ envelope[e] \in EnvelopeStatus
    BY <1>1
  <2>3. envelope' = envelope => envelope' = [envelope EXCEPT ![e] = envelope[e]]
    BY <1>1
  <2>4. CASE AddSigner(e, s)
    <3>1. mishaps = 0 /\ envelope[e] # "none" /\ signer[e][s] = "none" /\ Tells(envelope[e], signer[e])
      BY <1>0, <1>4, <2>4 DEF AddSigner
    <3>2. Tells(envelope[e], [signer[e] EXCEPT ![s] = "pending"])
      BY <2>2, <3>1 DEF Tells, SignedByAll, SignerStatus
    <3>3. QED
      BY <2>1, <2>2, <2>3, <2>4, <3>1, <3>2 DEF AddSigner, SignerStatus
  <2>5. CASE RecordSignature(e, s)
    <3>1. /\ mishaps = 0 /\ SetSigner(e, s, "signed") /\ signer[e][s] = "pending"
          /\ IF SignedByAll(signer'[e]) THEN SetEnvelope(e, "completed") ELSE envelope' = envelope
      BY <1>2, <2>5 DEF RecordSignature
    <3>2. signer'[e] = [signer[e] EXCEPT ![s] = "signed"] /\ Tells(envelope[e], signer[e])
      BY <1>1, <1>4, <3>1 DEF SetSigner
    <3>3. CASE SignedByAll(signer'[e])
      <4>1. Tells("completed", [signer[e] EXCEPT ![s] = "signed"])
        BY <2>2, <3>2, <3>3 DEF Tells, SignedByAll, SignerStatus
      <4>2. QED
        BY <2>1, <3>1, <3>3, <4>1 DEF SetEnvelope, EnvelopeStatus, SignerStatus
    <3>4. CASE ~SignedByAll(signer'[e])
      <4>1. Tells(envelope[e], [signer[e] EXCEPT ![s] = "signed"])
        BY <2>2, <3>1, <3>2, <3>4 DEF Tells, SignerStatus
      <4>2. QED
        BY <2>1, <2>2, <2>3, <3>1, <3>4, <4>1 DEF SignerStatus
    <3>5. QED
      BY <3>3, <3>4
  <2>6. CASE DeclineSignature(e, s)
    <3>1. /\ mishaps = 0 /\ SetSigner(e, s, "declined") /\ envelope' = [envelope EXCEPT ![e] = "declined"]
      BY <1>2, <2>6 DEF DeclineSignature, SetEnvelope
    <3>2. Tells("declined", [signer[e] EXCEPT ![s] = "declined"])
      BY <2>2 DEF Tells, SignedByAll
    <3>3. QED
      BY <2>1, <3>1, <3>2 DEF EnvelopeStatus, SignerStatus
  <2>7. QED
    BY <1>7, <2>4, <2>5, <2>6
<1>8. ASSUME NEW c \in Case, NEW e \in Envelope, NEW s \in Signer, ApproveEngagementLetter(c, e, s)
      PROVE  \A x \in Envelope : Tells(envelope'[x], signer'[x])
  <2>1. /\ mishaps = 0 /\ envelope[e] = "none"
        /\ envelope' = [envelope EXCEPT ![e] = "draft"]
        /\ SetSigner(e, s, "pending") \/ signer' = signer
    BY <1>2, <1>8 DEF ApproveEngagementLetter, SetEnvelope
  <2>2. \A x \in Signer : signer[e][x] = "none"
    BY <1>4, <2>1 DEF Tells
  <2>3. "draft" \in EnvelopeStatus /\ signer[e] \in [Signer -> SignerStatus]
    BY <1>1 DEF EnvelopeStatus
  <2>4. CASE signer' = signer
    <3>1. Tells("draft", signer[e])
      BY <2>2 DEF Tells
    <3>2. signer' = [signer EXCEPT ![e] = signer[e]]
      BY <1>1, <2>4
    <3>3. QED
      BY <1>3, <2>1, <2>3, <3>1, <3>2
  <2>5. CASE SetSigner(e, s, "pending")
    <3>1. Tells("draft", [signer[e] EXCEPT ![s] = "pending"])
      BY <2>2, <2>3 DEF Tells, SignedByAll
    <3>2. signer' = [signer EXCEPT ![e] = [signer[e] EXCEPT ![s] = "pending"]]
      BY <1>1, <2>5 DEF SetSigner
    <3>3. [signer[e] EXCEPT ![s] = "pending"] \in [Signer -> SignerStatus]
      BY <2>3 DEF SignerStatus
    <3>4. QED
      BY <1>3, <2>1, <2>3, <3>1, <3>2, <3>3
  <2>6. QED
    BY <2>1, <2>4, <2>5
(* The steps that may be cut off and touch no envelope.                    *)
<1>9. ASSUME NEW c \in Case, StartOnboarding(c) \/ MarkIdentityVerified(c) \/ TakeMail(c)
      PROVE  \A x \in Envelope : Tells(envelope'[x], signer'[x])
  <2>1. mishaps = 0
    BY <1>2, <1>9 DEF StartOnboarding, MarkIdentityVerified, TakeMail
  <2>2. UNCHANGED signatureVars
    BY <1>9 DEF StartOnboarding, MarkIdentityVerified, TakeMail
  <2>3. QED
    BY <1>4, <2>1, <2>2 DEF signatureVars
<1>10. ASSUME NEW c \in Case, CaseStep(c) PROVE \A x \in Envelope : Tells(envelope'[x], signer'[x])
  <2>1. CASE \/ ResolveConflictCheck(c) \/ OtherMatter(c) \/ PatchStatus(c)
             \/ ReviewLetter(c) \/ LawyerNotified(c) \/ SendAutoReply(c)
    BY <1>5, <2>1
       DEF ResolveConflictCheck, OtherMatter, PatchStatus, ReviewLetter, LawyerNotified, SendAutoReply
  <2>2. QED
    BY <1>8, <1>9, <1>10, <2>1 DEF CaseStep
<1>11. QED
  BY <1>0, <1>5, <1>6, <1>7, <1>10 DEF OnboardingNext, SignatureStep, onboardingVars

(* EnvelopeTellsItsSigners, for any number of envelopes and signers: what  *)
(* recordSignature and declineSignature (esignature.ts:158-192) leave in   *)
(* the two tables agrees in whatever order people are added and answer.    *)
THEOREM EnvelopesTellTheTruth == OnboardingSpec => []EnvelopeTellsItsSigners
<1>1. OnboardingInit => TellAll
  <2>1. ASSUME OnboardingInit, NEW e \in Envelope
        PROVE  envelope[e] = "none" /\ \A s \in Signer : signer[e][s] = "none"
    BY <2>1 DEF OnboardingInit, SignatureInit
  <2>2. ASSUME OnboardingInit, NEW e \in Envelope PROVE Tells(envelope[e], signer[e])
    BY <2>1, <2>2 DEF Tells
  <2>3. QED
    BY <2>2 DEF TellAll
<1>2. TellAll => EnvelopeTellsItsSigners
  BY DEF TellAll, Tells, EnvelopeTellsItsSigners
<1>3. QED
  BY <1>1, <1>2, OnboardingTypes, TellersStay, PTL DEF OnboardingSpec

=============================================================================
