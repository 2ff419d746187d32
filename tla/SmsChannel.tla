----------------------------- MODULE SmsChannel -----------------------------
(***************************************************************************)
(* Text messages to clients (communication/sms.ts) behind the review gate, *)
(* with the decisions of ReviewGate running against them.                  *)
(*                                                                         *)
(* sendSms looks at its row, at the opt-outs and at the gate, then awaits  *)
(* Twilio, then writes the row.  Twilio's status callbacks find the row by *)
(* the provider_sid written then; they come late, twice, out of order or   *)
(* not at all.  A client's STOP comes in by the same route.                *)
(*                                                                         *)
(* A phone is a number as normalisePhone leaves it, without blanks and     *)
(* brackets and otherwise as it was written: a line may be written in more *)
(* ways than one (0412 ..., +61412 ...), each of them a phone of its own.  *)
(***************************************************************************)
EXTENDS ReviewGate, Sequences, FiniteSets

CONSTANTS
  Sender,        \* calls of sendSms in flight at the same time
  NoReview,      \* the target of a sender that is idle
  Phone,         \* numbers as they are written
  E164,          \* how Twilio writes the line a number rings
  StoreMayFail,  \* may the statements after the send throw?
  MaxTexts       \* bound: how many texts Twilio takes of one message

ASSUME SmsAssumption ==
  /\ IsFiniteSet(Sender)
  /\ NoReview \notin Review
  /\ E164 \in [Phone -> Phone]
  /\ \A p \in Phone : E164[E164[p]] = E164[p]
  /\ StoreMayFail \in BOOLEAN
  /\ MaxTexts \in Nat

VARIABLES
  toNumber,  \* sms_messages.to_number, given by whoever drafts, for good
  sms,       \* sms_messages.status; "none" before the INSERT
  sid,       \* sms_messages.provider_sid: which of the texts it names, or 0
  opted,     \* sms_opt_outs
  phase,     \* where each call of sendSms is
  target,    \* the message it sends
  mine,      \* which of the message's texts it was that Twilio accepted
  texts,     \* what became of each text that Twilio accepted, in order
  late       \* how many to each number it accepted after the line's STOP

smsVars == <<toNumber, sms, sid, opted, phase, target, mine, texts, late>>
vars == <<gateVars, smsVars>>

SmsStatus == {"none", "pending", "sent", "delivered", "failed", "blocked"}
Fate == {"carried", "delivered", "failed"}

SmsTypeOK ==
  /\ toNumber \in [Review -> Phone]
  /\ sms \in [Review -> SmsStatus]
  /\ sid \in [Review -> Nat]
  /\ opted \subseteq Phone
  /\ phase \in [Sender -> {"idle", "asking", "accepted", "refused", "cut off"}]
  /\ target \in [Sender -> Review \cup {NoReview}]
  /\ mine \in [Sender -> Nat]
  /\ texts \in [Review -> Seq(Fate)]
  /\ late \in [Phone -> Nat]

TypeOK == GateTypeOK /\ SmsTypeOK

Init ==
  /\ GateInit
  /\ toNumber \in [Review -> Phone]
  /\ sms = [r \in Review |-> "none"]
  /\ sid = [r \in Review |-> 0]
  /\ opted = {}
  /\ phase = [s \in Sender |-> "idle"]
  /\ target = [s \in Sender |-> NoReview]
  /\ mine = [s \in Sender |-> 0]
  /\ texts = [r \in Review |-> << >>]
  /\ late = [p \in Phone |-> 0]

-----------------------------------------------------------------------------

(* draftSms refuses a number that has opted out, enqueues the text for     *)
(* review and inserts its row.  It may be cut off between the two INSERTs, *)
(* before or after the enqueue is on record.                               *)
DraftSms(r) ==
  /\ toNumber[r] \notin opted
  /\ \E b \in Disclaimed : EnqueueForReview(r, b)
  /\ sms' = [sms EXCEPT ![r] = IF up' THEN "pending" ELSE @]
  /\ UNCHANGED <<toNumber, sid, opted, phase, target, mine, texts, late>>

DraftIsCutOff(r) ==
  /\ toNumber[r] \notin opted
  /\ status[r] = "none"
  /\ Die
  /\ status' = [status EXCEPT ![r] = "pending"]
  /\ \E b \in Disclaimed : body' = [body EXCEPT ![r] = b]
  /\ ledger' = ledger \cup {[act |-> "enqueue", by |-> Skill, ref |-> r]}
  /\ UNCHANGED <<reviewer, smsVars>>

(* A STOP from a line: Twilio gives the number in its own form, and that   *)
(* is what recordOptOut writes (INSERT OR IGNORE); no other way of writing *)
(* the line is looked for, then or later.                                  *)
RecordOptOut(p) ==
  /\ up
  /\ opted' = opted \cup {E164[p]}
  /\ UNCHANGED <<toNumber, sms, sid, phase, target, mine, texts, late, gateVars>>

(* sendSms on a pending row whose number has opted out.  This comes before *)
(* the gate is asked, so an unapproved text is blocked too.                *)
Block(r) ==
  /\ up
  /\ sms[r] = "pending"
  /\ toNumber[r] \in opted
  /\ sms' = [sms EXCEPT ![r] = "blocked"]
  /\ UNCHANGED <<toNumber, sid, opted, phase, target, mine, texts, late, gateVars>>

(* Seeded faults: the opt-out is only asked when the text is drafted; the  *)
(* gate is not asked.                                                      *)
AskTwilioUnasked(s, r) ==
  /\ up
  /\ phase[s] = "idle"
  /\ sms[r] = "pending"
  /\ AssertApproved(r)
  /\ phase' = [phase EXCEPT ![s] = "asking"]
  /\ target' = [target EXCEPT ![s] = r]
  /\ UNCHANGED <<toNumber, sms, sid, opted, mine, texts, late, gateVars>>

AskTwilioUngated(s, r) ==
  /\ up
  /\ phase[s] = "idle"
  /\ sms[r] = "pending"
  /\ toNumber[r] \notin opted
  /\ phase' = [phase EXCEPT ![s] = "asking"]
  /\ target' = [target EXCEPT ![s] = r]
  /\ UNCHANGED <<toNumber, sms, sid, opted, mine, texts, late, gateVars>>

(* sendSms up to the await of Twilio.                                      *)
AskTwilio(s, r) ==
  /\ up
  /\ phase[s] = "idle"
  /\ sms[r] = "pending"
  /\ toNumber[r] \notin opted
  /\ AssertApproved(r)
  /\ phase' = [phase EXCEPT ![s] = "asking"]
  /\ target' = [target EXCEPT ![s] = r]
  /\ UNCHANGED <<toNumber, sms, sid, opted, mine, texts, late, gateVars>>

(* Twilio takes the text, says no, or cannot be reached; its yes may be    *)
(* lost on the way back, and so may its no.                                *)
TwilioAccepts(s) ==
  /\ phase[s] = "asking"
  /\ Len(texts[target[s]]) < MaxTexts
  /\ phase' = [phase EXCEPT ![s] = "accepted"]
  /\ texts' = [texts EXCEPT ![target[s]] = Append(@, "carried")]
  /\ mine' = [mine EXCEPT ![s] = Len(texts[target[s]]) + 1]
  /\ late' = [late EXCEPT ![toNumber[target[s]]] =
                IF E164[toNumber[target[s]]] \in opted THEN @ + 1 ELSE @]
  /\ UNCHANGED <<toNumber, sms, sid, opted, target, gateVars>>

TwilioRefuses(s) ==
  /\ phase[s] = "asking"
  /\ phase' = [phase EXCEPT ![s] = "refused"]
  /\ UNCHANGED <<toNumber, sms, sid, opted, target, mine, texts, late, gateVars>>

AnswerIsLost(s) ==
  /\ phase[s] \in {"asking", "accepted"}
  /\ phase' = [phase EXCEPT ![s] = "cut off"]
  /\ UNCHANGED <<toNumber, sms, sid, opted, target, mine, texts, late, gateVars>>

(* The call returns, leaving this status and this provider_sid on the row. *)
Return(s, st, id) ==
  /\ up
  /\ sms' = [sms EXCEPT ![target[s]] = st]
  /\ sid' = [sid EXCEPT ![target[s]] = id]
  /\ phase' = [phase EXCEPT ![s] = "idle"]
  /\ target' = [target EXCEPT ![s] = NoReview]
  /\ mine' = [mine EXCEPT ![s] = 0]
  /\ UNCHANGED <<toNumber, opted, texts, late, gateVars>>

(* After Twilio's yes the UPDATE writes both columns.  When it or the audit *)
(* statement after it throws, the catch block marks the row failed and     *)
(* leaves it the sid it has: its old one, or that of a text on its way.    *)
FinishSend(s) ==
  /\ phase[s] = "accepted"
  /\ \/ Return(s, "sent", mine[s])
     \/ /\ StoreMayFail
        /\ \E id \in {mine[s], sid[target[s]]} : Return(s, "failed", id)

(* Twilio's no is written like its yes, without a sid: it takes away the   *)
(* sid of another call's text.  A fetch or an UPDATE that throws reaches   *)
(* the catch block, which writes the status alone.                         *)
FailSend(s) ==
  \/ phase[s] = "refused" /\ Return(s, "failed", 0)
  \/ /\ phase[s] = "cut off" \/ (phase[s] = "refused" /\ StoreMayFail)
     /\ Return(s, "failed", sid[target[s]])

(* The UPDATE of the catch block throws as well: the row stays as it was,  *)
(* pending unless another call has written it.                             *)
Lapse(s) ==
  /\ StoreMayFail
  /\ phase[s] \in {"accepted", "refused", "cut off"}
  /\ Return(s, sms[target[s]], sid[target[s]])

(* Twilio delivers a text it carries, or gives it up.                      *)
CarrierEnds(r, n) ==
  /\ n \in DOMAIN texts[r]
  /\ texts[r][n] = "carried"
  /\ \E f \in {"delivered", "failed"} : texts' = [texts EXCEPT ![r][n] = f]
  /\ UNCHANGED <<toNumber, sms, sid, opted, phase, target, mine, late, gateVars>>

(* Seeded fault: the callback is matched to the message, not to the text.  *)
CallbackForAnyText(r, n, st) ==
  /\ up
  /\ sms' = [sms EXCEPT ![r] = st]
  /\ UNCHANGED <<toNumber, sid, opted, phase, target, mine, texts, late, gateVars>>

(* handleTwilioWebhook: UPDATE ... WHERE provider_sid = the text's.        *)
Callback(r, n, st) ==
  /\ up
  /\ sid[r] = n
  /\ sms' = [sms EXCEPT ![r] = st]
  /\ UNCHANGED <<toNumber, sid, opted, phase, target, mine, texts, late, gateVars>>

(* What Twilio may say of a text at any time after, once or often: that it *)
(* is on its way (queued, sending, sent), and how it ended.                *)
HandleTwilioWebhook(r, n) ==
  /\ n \in DOMAIN texts[r]
  /\ \E st \in {"sent", texts[r][n]} \ {"carried"} : Callback(r, n, st)

(* After a crash the calls in flight are gone; their rows stay pending.    *)
RestartSms ==
  /\ Restart
  /\ phase' = [s \in Sender |-> "idle"]
  /\ target' = [s \in Sender |-> NoReview]
  /\ mine' = [s \in Sender |-> 0]
  /\ UNCHANGED <<toNumber, sms, sid, opted, texts, late>>

SmsStep ==
  \/ \E r \in Review :
       \/ DraftSms(r)
       \/ DraftIsCutOff(r)
       \/ Block(r)
       \/ \E s \in Sender : AskTwilio(s, r)
       \/ \E n \in DOMAIN texts[r] : CarrierEnds(r, n) \/ HandleTwilioWebhook(r, n)
  \/ \E p \in Phone : RecordOptOut(p)
  \/ \E s \in Sender :
       \/ TwilioAccepts(s)
       \/ TwilioRefuses(s)
       \/ AnswerIsLost(s)
       \/ FinishSend(s)
       \/ FailSend(s)
       \/ Lapse(s)

Next ==
  \/ GateStep /\ UNCHANGED smsVars
  \/ SmsStep
  \/ Crash /\ UNCHANGED smsVars
  \/ RestartSms

Spec == Init /\ [][Next]_vars

-----------------------------------------------------------------------------

(* sms.ts:5-8: after a STOP "any subsequent attempts to send to that       *)
(* number are blocked".  The opt-out is read before Twilio is awaited, so  *)
(* what still goes out is what was in flight: one text per call, however   *)
(* many messages, callbacks, throwing UPDATEs and crashes there are.  It   *)
(* is kept for the number as Twilio writes it and for no other: texts to   *)
(* the same line written another way are not held back (sms.ts:66-68).     *)
StopIsKept == \A p \in Phone : E164[p] = p => late[p] <= Cardinality(Sender)

(* A row marked delivered was delivered, and it is the row's own text that *)
(* was, with overlapping calls, lost answers and callbacks in any order    *)
(* (handleTwilioWebhook finds the row by its provider_sid).                *)
DeliveredIsTrue ==
  \A r \in Review :
    /\ sms[r] = "sent" => sid[r] # 0
    /\ sms[r] = "delivered" => sid[r] # 0 /\ texts[r][sid[r]] = "delivered"

(* The texts of the channel keep the promise of GatedRelease: drafted,     *)
(* decided once, and taken by Twilio only when granted (sms.ts:6).         *)
Promise == INSTANCE GatedRelease WITH
  Item <- Review,
  verdict <- [r \in Review |-> VerdictOf[status[r]]],
  released <- {r \in Review : texts[r] # << >>}

(* Every step of the gate and of the text channel is one of the promise.   *)
TextsKeepPromise == Promise!Spec

-----------------------------------------------------------------------------

(* What makes the three inductive: a call in flight sends a text that was  *)
(* granted; a row names a text of its own; and at most as many texts go    *)
(* out late as calls were in flight when the client said STOP.             *)
CallsAreGranted ==
  \A s \in Sender :
    /\ phase[s] # "idle" => target[s] \in Review /\ Granted(target[s])
    /\ phase[s] = "accepted" => mine[s] \in DOMAIN texts[target[s]]

SidIsItsText == \A r \in Review : sid[r] # 0 => sid[r] \in DOMAIN texts[r]

Asking(p) == {s \in Sender : phase[s] = "asking" /\ toNumber[target[s]] = p}

LateIsCounted ==
  \A p \in Phone : E164[p] = p =>
    /\ late[p] + Cardinality(Asking(p)) <= Cardinality(Sender)
    /\ p \notin opted => late[p] = 0

IInv ==
  /\ TypeOK
  /\ CallsAreGranted
  /\ SidIsItsText
  /\ DeliveredIsTrue
  /\ LateIsCounted

=============================================================================
