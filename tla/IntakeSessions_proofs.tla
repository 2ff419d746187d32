----------------------- MODULE IntakeSessions_proofs -----------------------
(***************************************************************************)
(* An enquiry becomes one matter, a complete session has a brief that a    *)
(* lawyer must review, and a client is reminded once, for any number of    *)
(* sessions, overlapping calls, questions, days, crashes and throws.       *)
(***************************************************************************)
EXTENDS IntakeSessions, TLAPS

-----------------------------------------------------------------------------

(* No session has started and nobody calls.                                *)
THEOREM InitHolds == Init => IInv
<1>1. SUFFICES ASSUME Init PROVE IInv
  OBVIOUS
<1>2. TypeOK
  <2>1. /\ today \in Nat /\ sweepDay \in Nat /\ mishaps \in Nat
        /\ due \in [Session -> [MatterType -> Int]]
        /\ matters \in [Session -> Nat] /\ reviews \in [Session -> Nat]
        /\ briefs \in [Session -> Nat] /\ nudges \in [Session -> Nat]
        /\ started \in [Session -> Nat]
    BY <1>1 DEF Init, NoDate
  <2>2. /\ status \in [Session -> {"none", "in-progress"} \cup Closed]
        /\ type \in [Session -> MatterType \cup {Unknown}]
        /\ answers \in [Session -> SUBSET (MatterType \X Question)]
        /\ flag \in [Session -> BOOLEAN] /\ briefed \in [Session -> BOOLEAN]
        /\ nudged \in [Session -> BOOLEAN]
    BY <1>1 DEF Init
  <2>3. QED
    BY <1>1, <2>1, <2>2 DEF Init, TypeOK
<1>3. CallersAreConsistent /\ DraftersAreAlone
  BY <1>1 DEF Init, CallersAreConsistent, DraftersAreAlone
<1>4. UnbriefedHasNoMatter /\ OneMatterPerSession
  BY <1>1 DEF Init, UnbriefedHasNoMatter, OneMatterPerSession
<1>5. CompleteMeansBriefed
  BY <1>1 DEF Init, CompleteMeansBriefed
<1>6. UnnudgedWasNotReminded /\ NudgedOnce
  BY <1>1 DEF Init, UnnudgedWasNotReminded, NudgedOnce
<1>7. QED
  BY <1>2, <1>3, <1>4, <1>5, <1>6 DEF IInv

-----------------------------------------------------------------------------
(* The drafting half of the invariant: calls, matters, reviews and briefs. *)

Drafted ==
  /\ status \in [Session -> {"none", "in-progress"} \cup Closed]
  /\ briefed \in [Session -> BOOLEAN]
  /\ matters \in [Session -> Nat] /\ reviews \in [Session -> Nat]
  /\ briefs \in [Session -> Nat]
  /\ pc \in [Caller -> {"idle", "classifying", "alerting", "drafting"}]
  /\ target \in [Caller -> Session \cup {NoSession}]
  /\ overlapped \in BOOLEAN
  /\ mishaps \in Nat
  /\ CallersAreConsistent
  /\ DraftersAreAlone
  /\ UnbriefedHasNoMatter
  /\ OneMatterPerSession
  /\ CompleteMeansBriefed

MishapsGrow == mishaps' = mishaps \/ mishaps' = mishaps + 1

(* Where a call can be after a step of submitAnswer: at any await, and at  *)
(* the drafting of s only if s has no brief; others drafting it show.      *)
StepsTo(c, s) ==
  \/ \E l \in {"idle", "classifying", "alerting"}, u \in Session \cup {NoSession} :
       Goto(c, l, u) /\ (l # "idle" => u \in Session) /\ UNCHANGED overlapped
  \/ /\ Goto(c, "drafting", s) /\ ~briefed[s]
     /\ overlapped' = (overlapped \/ Drafting(s) # {})

LEMMA BeginFinishSteps ==
  ASSUME NEW c \in Caller, NEW s \in Session, BeginFinish(c, s)
  PROVE  StepsTo(c, s)
BY DEF BeginFinish, StepsTo, Return

LEMMA AdvanceSteps ==
  ASSUME NEW c \in Caller, NEW s \in Session, NEW given, Advance(c, s, given)
  PROVE  StepsTo(c, s) /\ MishapsGrow
<1>1. Return(c) /\ UNCHANGED overlapped => StepsTo(c, s)
  BY DEF StepsTo, Return
<1>2. QED
  BY <1>1, BeginFinishSteps DEF Advance, Mishap, MishapsGrow

LEMMA SubmitAnswerSteps ==
  ASSUME NEW c \in Caller, NEW s \in Session, SubmitAnswer(c, s)
  PROVE  StepsTo(c, s) /\ MishapsGrow
<1>1. CASE Goto(c, "classifying", s) /\ UNCHANGED <<overlapped, mishaps>>
  BY <1>1 DEF StepsTo, MishapsGrow
<1>2. CASE BeginFinish(c, s) /\ UNCHANGED mishaps
  BY <1>2, BeginFinishSteps DEF MishapsGrow
<1>3. CASE AnswerQuestion(c, s)
  <2>1. CASE Goto(c, "alerting", s) /\ UNCHANGED <<overlapped, mishaps>>
    BY <2>1 DEF StepsTo, MishapsGrow
  <2>2. CASE Advance(c, s, answers'[s])
    BY <2>2, AdvanceSteps
  <2>3. CASE Return(c) /\ Mishap /\ UNCHANGED overlapped
    BY <2>3 DEF StepsTo, Return, Mishap, MishapsGrow
  <2>4. QED
    BY <1>3, <2>1, <2>2, <2>3 DEF AnswerQuestion
<1>4. QED
  BY <1>1, <1>2, <1>3 DEF SubmitAnswer

(* A step of submitAnswer that writes no matter, review or brief.          *)
LEMMA StepKeepsDrafted ==
  ASSUME Drafted, NEW c \in Caller, NEW s \in Session, pc[c] # "drafting",
         StepsTo(c, s), MishapsGrow, UNCHANGED <<status, briefed, output>>
  PROVE  Drafted'
<1>1. UNCHANGED <<status, briefed, matters, reviews, briefs>>
  BY DEF output
<1>2. PICK l \in {"idle", "classifying", "alerting", "drafting"}, u \in Session \cup {NoSession} :
        /\ Goto(c, l, u)
        /\ l # "idle" => u \in Session
        /\ l = "drafting" => ~briefed[u] /\ overlapped' = (overlapped \/ Drafting(u) # {})
        /\ l # "drafting" => overlapped' = overlapped
  <2>1. CASE /\ Goto(c, "drafting", s) /\ ~briefed[s]
             /\ overlapped' = (overlapped \/ Drafting(s) # {})
    BY <2>1
  <2>2. CASE \E l \in {"idle", "classifying", "alerting"}, u \in Session \cup {NoSession} :
               Goto(c, l, u) /\ (l # "idle" => u \in Session) /\ UNCHANGED overlapped
    <3>1. PICK l \in {"idle", "classifying", "alerting"}, u \in Session \cup {NoSession} :
            Goto(c, l, u) /\ (l # "idle" => u \in Session) /\ overlapped' = overlapped
      BY <2>2
    <3>2. l # "drafting"
      OBVIOUS
    <3>3. QED
      BY <3>1, <3>2
  <2>3. QED
    BY <2>1, <2>2 DEF StepsTo
<1>3. /\ pc' \in [Caller -> {"idle", "classifying", "alerting", "drafting"}]
      /\ target' \in [Caller -> Session \cup {NoSession}]
      /\ pc'[c] = l /\ target'[c] = u
      /\ \A e \in Caller \ {c} : pc'[e] = pc[e] /\ target'[e] = target[e]
  BY <1>2 DEF Drafted, Goto
<1>4. overlapped' \in BOOLEAN /\ (overlapped => overlapped')
  <2>1. CASE l = "drafting"
    <3>1. overlapped' = (overlapped \/ Drafting(u) # {})
      BY <1>2, <2>1
    <3>2. overlapped \in BOOLEAN
      BY DEF Drafted
    <3>3. QED
      BY <3>1, <3>2
  <2>2. CASE l # "drafting"
    BY <1>2, <2>2 DEF Drafted
  <2>3. QED
    BY <2>1, <2>2
<1>5. mishaps' \in Nat /\ (mishaps' = 0 => mishaps = 0)
  BY DEF Drafted, MishapsGrow
<1>6. CallersAreConsistent'
  BY <1>2, <1>3 DEF Drafted, CallersAreConsistent
<1>7. ASSUME ~overlapped', l = "drafting"
      PROVE  \A e \in Caller : pc[e] = "drafting" => target[e] # u
  BY <1>2, <1>7 DEF Drafting
<1>8. DraftersAreAlone'
  BY <1>3, <1>4, <1>7 DEF Drafted, DraftersAreAlone
<1>9. UnbriefedHasNoMatter'
  BY <1>1, <1>2, <1>3, <1>4, <1>5 DEF Drafted, UnbriefedHasNoMatter, NoMishap
<1>10. OneMatterPerSession' /\ CompleteMeansBriefed'
  BY <1>1, <1>4, <1>5 DEF Drafted, OneMatterPerSession, CompleteMeansBriefed, NoMishap
<1>11. QED
  BY <1>1, <1>3, <1>4, <1>5, <1>6, <1>8, <1>9, <1>10 DEF Drafted

(* What generateBrief wrote when it returned or was cut off: as many rows  *)
(* as it got to, in order, and the completion only after all of them.      *)
Wrote(s, m, r, b) ==
  /\ m \in {0, 1} /\ r \in {0, 1} /\ b \in {0, 1}
  /\ b <= r /\ r <= m
  /\ Insert(s, m, r, b)
  /\ \/ briefed' = briefed
     \/ b = 1 /\ briefed' = [briefed EXCEPT ![s] = TRUE]
  /\ \/ status' = status
     \/ status' = [status EXCEPT ![s] = "escalated"]
     \/ b = 1 /\ briefed' = [briefed EXCEPT ![s] = TRUE]
        /\ status' = [status EXCEPT ![s] = "complete"]

LEMMA WroteInOrder ==
  ASSUME Drafted, NEW s \in Session, NEW m, NEW r, NEW b, Wrote(s, m, r, b)
  PROVE  /\ status' \in [Session -> {"none", "in-progress"} \cup Closed]
         /\ briefed' \in [Session -> BOOLEAN]
         /\ matters' \in [Session -> Nat] /\ reviews' \in [Session -> Nat]
         /\ briefs' \in [Session -> Nat]
         /\ matters'[s] = matters[s] + m
         /\ \A u \in Session \ {s} : matters'[u] = matters[u] /\ briefed'[u] = briefed[u]
         /\ CompleteMeansBriefed'
<1>1. /\ matters' = [matters EXCEPT ![s] = @ + m]
      /\ reviews' = [reviews EXCEPT ![s] = @ + r]
      /\ briefs' = [briefs EXCEPT ![s] = @ + b]
      /\ m \in {0, 1} /\ r \in {0, 1} /\ b \in {0, 1} /\ b <= r /\ r <= m
  BY DEF Wrote, Insert
<1>2. /\ matters' \in [Session -> Nat] /\ reviews' \in [Session -> Nat]
      /\ briefs' \in [Session -> Nat]
      /\ matters'[s] = matters[s] + m /\ reviews'[s] = reviews[s] + r
      /\ briefs'[s] = briefs[s] + b
      /\ \A u \in Session \ {s} :
           matters'[u] = matters[u] /\ reviews'[u] = reviews[u] /\ briefs'[u] = briefs[u]
  BY <1>1 DEF Drafted
<1>3. /\ briefed' \in [Session -> BOOLEAN]
      /\ \A u \in Session \ {s} : briefed'[u] = briefed[u]
      /\ briefed'[s] => briefed[s] \/ b = 1
      /\ briefed[s] => briefed'[s]
  BY DEF Drafted, Wrote
<1>4. /\ status' \in [Session -> {"none", "in-progress"} \cup Closed]
      /\ \A u \in Session \ {s} : status'[u] = status[u]
      /\ status'[s] = "complete" => status[s] = "complete" \/ briefed'[s]
  BY DEF Drafted, Wrote, Closed
<1>5. ASSUME NEW u \in Session
      PROVE  /\ status[u] = "complete" => briefed[u]
             /\ briefed[u] => briefs[u] > 0
             /\ briefs[u] <= reviews[u] /\ reviews[u] <= matters[u]
             /\ briefs[u] \in Nat /\ reviews[u] \in Nat /\ matters[u] \in Nat
  BY <1>5 DEF Drafted, CompleteMeansBriefed
<1>6. briefs'[s] <= reviews'[s] /\ reviews'[s] <= matters'[s]
  BY <1>1, <1>2, <1>5
<1>7. briefs'[s] >= briefs[s] /\ (b = 1 => briefs'[s] > 0)
  BY <1>1, <1>2, <1>5
<1>8. briefed'[s] => briefs'[s] > 0
  <2>1. CASE briefed[s]
    <3>1. briefs[s] > 0 /\ briefs[s] \in Nat
      BY <1>5, <2>1
    <3>2. briefs'[s] > 0
      BY <1>1, <1>2, <3>1
    <3>3. QED
      BY <3>2
  <2>2. CASE ~briefed[s]
    BY <1>3, <1>7, <2>2
  <2>3. QED
    BY <2>1, <2>2
<1>9. status'[s] = "complete" => briefed'[s]
  BY <1>3, <1>4, <1>5
<1>10. CompleteMeansBriefed'
  BY <1>2, <1>3, <1>4, <1>5, <1>6, <1>8, <1>9 DEF CompleteMeansBriefed
<1>11. QED
  BY <1>2, <1>3, <1>4, <1>10

(* What BriefIsReady and DraftIsCutOff write; without a mishap, all of it. *)
LEMMA ReadyWrote ==
  ASSUME Drafted, NEW c \in Caller, NEW s \in Session, s = target[c], BriefIsReady(c)
  PROVE  \E m, r, b \in {0, 1} :
           /\ Wrote(s, m, r, b)
           /\ \/ mishaps' = mishaps + 1
              \/ mishaps' = mishaps /\ briefed' = [briefed EXCEPT ![s] = TRUE]
<1>1. CASE Insert(s, 1, 1, 1) /\ Conclude(s, "complete") /\ UNCHANGED mishaps
  <2>1. Wrote(s, 1, 1, 1)
    BY <1>1 DEF Wrote, Conclude
  <2>2. QED
    BY <1>1, <2>1 DEF Conclude
<1>2. CASE /\ \E p \in Progress : Insert(s, p[1], p[2], p[3])
           /\ \E st \in {"escalated", status[s]} : status' = [status EXCEPT ![s] = st]
           /\ UNCHANGED <<briefed, flag>>
           /\ Mishap
  <2>1. PICK p \in Progress : Insert(s, p[1], p[2], p[3])
    BY <1>2
  <2>2. p[1] \in {0, 1} /\ p[2] \in {0, 1} /\ p[3] \in {0, 1} /\ p[3] <= p[2] /\ p[2] <= p[1]
    BY <2>1 DEF Progress
  <2>3. [status EXCEPT ![s] = status[s]] = status
    BY DEF Drafted
  <2>4. Wrote(s, p[1], p[2], p[3])
    BY <1>2, <2>1, <2>2, <2>3 DEF Wrote
  <2>5. QED
    BY <1>2, <2>2, <2>4 DEF Mishap
<1>3. CASE /\ Insert(s, 1, 1, 1)
           /\ \E st \in {"escalated", "complete"} : Conclude(s, st)
           /\ Mishap
  <2>1. PICK st \in {"escalated", "complete"} : Conclude(s, st)
    BY <1>3
  <2>2. /\ briefed' = [briefed EXCEPT ![s] = TRUE]
        /\ \/ status' = [status EXCEPT ![s] = "escalated"]
           \/ status' = [status EXCEPT ![s] = "complete"]
    BY <2>1 DEF Conclude
  <2>3. Wrote(s, 1, 1, 1)
    BY <1>3, <2>2 DEF Wrote
  <2>4. QED
    BY <1>3, <2>3 DEF Mishap
<1>4. QED
  BY <1>1, <1>2, <1>3 DEF BriefIsReady

LEMMA CutOffWrote ==
  ASSUME Drafted, NEW c \in Caller, NEW s \in Session, s = target[c], DraftIsCutOff(c)
  PROVE  \E m, r, b \in {0, 1} : Wrote(s, m, r, b)
<1>1. CASE \E p \in Progress : Insert(s, p[1], p[2], p[3]) /\ UNCHANGED <<status, briefed, flag>>
  <2>1. PICK p \in Progress :
          Insert(s, p[1], p[2], p[3]) /\ UNCHANGED <<status, briefed, flag>>
    BY <1>1
  <2>2. p[1] \in {0, 1} /\ p[2] \in {0, 1} /\ p[3] \in {0, 1} /\ p[3] <= p[2] /\ p[2] <= p[1]
    BY <2>1 DEF Progress
  <2>3. Wrote(s, p[1], p[2], p[3])
    BY <2>1, <2>2 DEF Wrote
  <2>4. QED
    BY <2>2, <2>3
<1>2. CASE Insert(s, 1, 1, 1) /\ Conclude(s, "complete")
  <2>1. Wrote(s, 1, 1, 1)
    BY <1>2 DEF Wrote, Conclude
  <2>2. QED
    BY <2>1
<1>3. QED
  BY <1>1, <1>2 DEF DraftIsCutOff

LEMMA DraftReturnsKeepsDrafted ==
  ASSUME Drafted, NEW c \in Caller, DraftReturns(c)
  PROVE  Drafted'
<1> DEFINE s == target[c]
<1>1. pc[c] = "drafting" /\ BriefIsReady(c) /\ UNCHANGED overlapped /\ Return(c)
  BY DEF DraftReturns, BriefIsReady
<1>2. s \in Session
  BY <1>1 DEF Drafted, CallersAreConsistent
<1>3. PICK m \in {0, 1}, r \in {0, 1}, b \in {0, 1} :
        /\ Wrote(s, m, r, b)
        /\ \/ mishaps' = mishaps + 1
           \/ mishaps' = mishaps /\ briefed' = [briefed EXCEPT ![s] = TRUE]
  BY <1>1, <1>2, ReadyWrote
<1>4. /\ status' \in [Session -> {"none", "in-progress"} \cup Closed]
      /\ briefed' \in [Session -> BOOLEAN]
      /\ matters' \in [Session -> Nat] /\ reviews' \in [Session -> Nat]
      /\ briefs' \in [Session -> Nat]
      /\ matters'[s] = matters[s] + m
      /\ \A u \in Session \ {s} : matters'[u] = matters[u] /\ briefed'[u] = briefed[u]
      /\ CompleteMeansBriefed'
  BY <1>2, <1>3, WroteInOrder
<1>5. /\ pc' \in [Caller -> {"idle", "classifying", "alerting", "drafting"}]
      /\ target' \in [Caller -> Session \cup {NoSession}]
      /\ pc'[c] = "idle"
      /\ \A e \in Caller \ {c} : pc'[e] = pc[e] /\ target'[e] = target[e]
  BY <1>1 DEF Drafted, Return, Goto
<1>6. mishaps' \in Nat /\ (mishaps' = 0 => mishaps = 0 /\ briefed'[s])
  BY <1>2, <1>3 DEF Drafted
<1>7. CallersAreConsistent' /\ DraftersAreAlone'
  BY <1>1, <1>5 DEF Drafted, CallersAreConsistent, DraftersAreAlone
<1>8. ASSUME ~overlapped', NoMishap'
      PROVE  /\ \A u \in Session : ~briefed'[u] => matters'[u] = 0
             /\ \A u \in Session : matters'[u] <= 1
             /\ \A e \in Caller : pc'[e] = "drafting" => ~briefed'[target'[e]]
  <2>1. ~overlapped /\ NoMishap /\ briefed'[s]
    BY <1>1, <1>6, <1>8 DEF NoMishap
  <2>2. /\ \A u \in Session : ~briefed[u] => matters[u] = 0
        /\ \A u \in Session : matters[u] <= 1
        /\ \A e \in Caller : pc[e] = "drafting" => ~briefed[target[e]]
    BY <2>1 DEF Drafted, UnbriefedHasNoMatter, OneMatterPerSession
  <2>3. \A u \in Session \ {s} :
          (~briefed'[u] => matters'[u] = 0) /\ matters'[u] <= 1
    BY <1>4, <2>2
  <2>4. matters'[s] <= 1
    <3>1. matters[s] = 0
      BY <1>1, <1>2, <2>2
    <3>2. QED
      BY <1>3, <1>4, <3>1
  <2>5. ASSUME NEW e \in Caller, pc'[e] = "drafting"
        PROVE  ~briefed'[target'[e]]
    <3>1. e # c /\ pc[e] = "drafting" /\ target'[e] = target[e]
      BY <1>5, <2>5
    <3>2. target[e] # s
      BY <1>1, <2>1, <3>1 DEF Drafted, DraftersAreAlone
    <3>3. target[e] \in Session
      BY <3>1 DEF Drafted, CallersAreConsistent
    <3>4. ~briefed[target[e]]
      BY <2>2, <3>1
    <3>5. QED
      BY <1>4, <3>1, <3>2, <3>3, <3>4
  <2>6. QED
    BY <2>1, <2>3, <2>4, <2>5
<1>9. UnbriefedHasNoMatter' /\ OneMatterPerSession'
  BY <1>8 DEF UnbriefedHasNoMatter, OneMatterPerSession
<1>10. overlapped' \in BOOLEAN
  BY <1>1 DEF Drafted
<1>11. QED
  BY <1>4, <1>5, <1>6, <1>7, <1>9, <1>10 DEF Drafted

LEMMA DeathKeepsDrafted ==
  ASSUME Drafted, AllReturn, Mishap, UNCHANGED overlapped,
         /\ status' \in [Session -> {"none", "in-progress"} \cup Closed]
         /\ briefed' \in [Session -> BOOLEAN]
         /\ matters' \in [Session -> Nat] /\ reviews' \in [Session -> Nat]
         /\ briefs' \in [Session -> Nat]
         /\ CompleteMeansBriefed'
  PROVE  Drafted'
<1>1. /\ pc' = [c \in Caller |-> "idle"] /\ target' = [c \in Caller |-> NoSession]
  BY DEF AllReturn
<1>2. mishaps' \in Nat /\ mishaps' # 0
  BY DEF Drafted, Mishap
<1>3. CallersAreConsistent' /\ DraftersAreAlone'
  BY <1>1 DEF CallersAreConsistent, DraftersAreAlone
<1>4. UnbriefedHasNoMatter' /\ OneMatterPerSession'
  BY <1>2 DEF UnbriefedHasNoMatter, OneMatterPerSession, NoMishap
<1>5. QED
  BY <1>1, <1>2, <1>3, <1>4 DEF Drafted

(* Steps that leave calls and output alone, and complete no session.       *)
LEMMA OtherStepsKeepDrafted ==
  ASSUME Drafted, MishapsGrow, UNCHANGED <<briefed, output, callers, overlapped>>,
         status' \in [Session -> {"none", "in-progress"} \cup Closed],
         \A s \in Session : status'[s] = "complete" => status[s] = "complete"
  PROVE  Drafted'
<1>1. UNCHANGED <<briefed, matters, reviews, briefs, pc, target, overlapped>>
  BY DEF output, callers
<1>2. mishaps' \in Nat /\ (mishaps' = 0 => mishaps = 0)
  BY DEF Drafted, MishapsGrow
<1>3. CompleteMeansBriefed'
  BY <1>1 DEF Drafted, CompleteMeansBriefed
<1>4. CallersAreConsistent' /\ DraftersAreAlone'
  BY <1>1 DEF Drafted, CallersAreConsistent, DraftersAreAlone
<1>5. UnbriefedHasNoMatter' /\ OneMatterPerSession'
  BY <1>1, <1>2 DEF Drafted, UnbriefedHasNoMatter, OneMatterPerSession, NoMishap
<1>6. QED
  BY <1>1, <1>2, <1>3, <1>4, <1>5 DEF Drafted

-----------------------------------------------------------------------------
(* The reminders' half of the invariant.                                   *)

Nudged ==
  /\ nudged \in [Session -> BOOLEAN]
  /\ nudges \in [Session -> Nat]
  /\ nudging \in Session \cup {NoSession}
  /\ mishaps \in Nat
  /\ UnnudgedWasNotReminded
  /\ NudgedOnce

LEMMA OtherStepsKeepNudged ==
  ASSUME Nudged, MishapsGrow, UNCHANGED <<nudged, nudges>>,
         \/ UNCHANGED nudging
         \/ nudging' = NoSession
         \/ nudging' \in Session /\ ~nudged[nudging']
  PROVE  Nudged'
<1>1. mishaps' \in Nat /\ mishaps' >= mishaps
  BY DEF Nudged, MishapsGrow
<1>2. ASSUME NEW s \in Session
      PROVE  (~nudged[s] => nudges[s] <= mishaps') /\ nudges[s] <= 1 + mishaps'
  <2>1. nudges[s] \in Nat /\ mishaps \in Nat /\ nudges[s] <= 1 + mishaps
    BY DEF Nudged, NudgedOnce
  <2>2. ~nudged[s] => nudges[s] <= mishaps
    BY DEF Nudged, UnnudgedWasNotReminded
  <2>3. nudges[s] <= 1 + mishaps'
    BY <1>1, <2>1
  <2>4. CASE ~nudged[s]
    <3>1. nudges[s] <= mishaps
      BY <2>2, <2>4
    <3>2. nudges[s] <= mishaps'
      BY <1>1, <2>1, <3>1
    <3>3. QED
      BY <2>3, <3>2
  <2>5. CASE nudged[s]
    BY <2>3, <2>5
  <2>6. QED
    BY <2>4, <2>5
<1>3. nudging' # NoSession => ~nudged[nudging']
  BY DEF Nudged, UnnudgedWasNotReminded
<1>4. nudging' \in Session \cup {NoSession}
  BY DEF Nudged
<1>5. QED
  BY <1>1, <1>2, <1>3, <1>4 DEF Nudged, UnnudgedWasNotReminded, NudgedOnce

(* Who is being reminded was reminded only by sweeps that broke off.       *)
LEMMA NudgingIsNew ==
  ASSUME Nudged, nudging # NoSession
  PROVE  /\ nudging \in Session /\ ~nudged[nudging]
         /\ nudges[nudging] \in Nat /\ nudges[nudging] <= mishaps
BY DEF Nudged, UnnudgedWasNotReminded

LEMMA MarkKeepsNudged ==
  ASSUME Nudged, MarkFollowUpSent
  PROVE  Nudged'
<1>1. PICK s \in Session :
        /\ nudges[s] \in Nat /\ nudges[s] <= mishaps
        /\ nudged' = [nudged EXCEPT ![s] = TRUE]
        /\ \/ nudges' = [nudges EXCEPT ![s] = @ + 1]
           \/ UNCHANGED nudges
  BY NudgingIsNew DEF MarkFollowUpSent
<1>2. mishaps' = mishaps /\ nudging' = NoSession
  BY DEF MarkFollowUpSent
<1>3. /\ nudged' \in [Session -> BOOLEAN] /\ nudged'[s] = TRUE
      /\ \A u \in Session \ {s} : nudged'[u] = nudged[u]
  BY <1>1 DEF Nudged
<1>4. /\ nudges' \in [Session -> Nat]
      /\ nudges'[s] = nudges[s] \/ nudges'[s] = nudges[s] + 1
      /\ \A u \in Session \ {s} : nudges'[u] = nudges[u]
  BY <1>1 DEF Nudged
<1>5. nudges'[s] <= 1 + mishaps /\ mishaps \in Nat
  BY <1>1, <1>4 DEF Nudged
<1>6. UnnudgedWasNotReminded'
  BY <1>2, <1>3, <1>4 DEF Nudged, UnnudgedWasNotReminded
<1>7. NudgedOnce'
  BY <1>2, <1>4, <1>5 DEF Nudged, NudgedOnce
<1>8. QED
  BY <1>2, <1>3, <1>4, <1>5, <1>6, <1>7 DEF Nudged

LEMMA BreakKeepsNudged ==
  ASSUME Nudged, SweepBreaks
  PROVE  Nudged'
<1>1. nudging' = NoSession /\ mishaps' = mishaps + 1 /\ UNCHANGED nudged
  BY DEF SweepBreaks, Mishap, rows
<1>2. CASE UNCHANGED nudges
  BY <1>1, <1>2, OtherStepsKeepNudged DEF MishapsGrow
<1>3. CASE nudging # NoSession /\ nudges' = [nudges EXCEPT ![nudging] = @ + 1]
  <2>1. PICK s \in Session :
          /\ nudges[s] \in Nat /\ nudges[s] <= mishaps
          /\ nudges' = [nudges EXCEPT ![s] = @ + 1]
    BY <1>3, NudgingIsNew
  <2>2. /\ nudges' \in [Session -> Nat]
        /\ nudges'[s] = nudges[s] + 1
        /\ \A u \in Session \ {s} : nudges'[u] = nudges[u]
    BY <2>1 DEF Nudged
  <2>3. mishaps \in Nat /\ mishaps' \in Nat
    BY <1>1 DEF Nudged
  <2>4. ASSUME NEW u \in Session
        PROVE  (~nudged[u] => nudges'[u] <= mishaps') /\ nudges'[u] <= 1 + mishaps'
    <3>1. CASE u = s
      <4>1. nudges'[u] <= mishaps'
        BY <1>1, <2>1, <2>2, <2>3, <3>1
      <4>2. nudges'[u] <= 1 + mishaps'
        BY <2>2, <2>3, <4>1
      <4>3. QED
        BY <4>1, <4>2
    <3>2. CASE u # s
      <4>1. nudges'[u] = nudges[u] /\ nudges[u] \in Nat /\ nudges[u] <= 1 + mishaps
        BY <2>2, <3>2 DEF Nudged, NudgedOnce
      <4>2. nudges'[u] <= 1 + mishaps' /\ nudges'[u] <= mishaps'
        BY <1>1, <2>3, <4>1
      <4>3. QED
        BY <4>2
    <3>3. QED
      BY <3>1, <3>2
  <2>5. UnnudgedWasNotReminded' /\ NudgedOnce'
    BY <1>1, <2>4 DEF UnnudgedWasNotReminded, NudgedOnce
  <2>6. QED
    BY <1>1, <2>2, <2>3, <2>5 DEF Nudged
<1>4. QED
  BY <1>2, <1>3 DEF SweepBreaks

-----------------------------------------------------------------------------
(* The rest of the type invariant.                                         *)

Typed ==
  /\ today \in Nat /\ sweepDay \in Nat
  /\ type \in [Session -> MatterType \cup {Unknown}]
  /\ answers \in [Session -> SUBSET (MatterType \X Question)]
  /\ due \in [Session -> [MatterType -> Int]]
  /\ flag \in [Session -> BOOLEAN]
  /\ started \in [Session -> Nat]
  /\ snap \subseteq Session
  /\ sweeping \in BOOLEAN
  /\ alerted \subseteq Session /\ close \subseteq Session /\ early \subseteq Session

(* Saving an answer and noting its urgency.                                *)
LEMMA SubmitAnswerKeepsTyped ==
  ASSUME Typed, NEW c \in Caller, NEW s \in Session, SubmitAnswer(c, s)
  PROVE  Typed'
<1>1. UNCHANGED <<today, sweepDay, type, started, snap, sweeping>>
  BY DEF SubmitAnswer, sweep
<1>2. CASE UNCHANGED <<answers, due, flag, alerted, close, early>>
  BY <1>1, <1>2 DEF Typed
<1>3. CASE type[s] # Unknown /\ AnswerQuestion(c, s)
  <2>1. PICK n \in Question : SaveAnswer(s, n)
    BY <1>3 DEF AnswerQuestion
  <2>2. type[s] \in MatterType
    BY <1>3 DEF Typed
  <2>3. answers' \in [Session -> SUBSET (MatterType \X Question)]
    BY <2>1, <2>2 DEF Typed, SaveAnswer
  <2>4. due' \in [Session -> [MatterType -> Int]]
    <3>1. CASE UNCHANGED due
      BY <3>1 DEF Typed
    <3>2. CASE \E dy \in {NoDate} \cup {today + left : left \in DaysLeft} :
                 due' = [due EXCEPT ![s][type[s]] = dy]
      <4>1. PICK dy \in {NoDate} \cup {today + left : left \in DaysLeft} :
              due' = [due EXCEPT ![s][type[s]] = dy]
        BY <3>2
      <4>2. dy \in Int
        BY IntakeAssumption DEF NoDate, Typed
      <4>3. QED
        BY <2>2, <4>1, <4>2 DEF Typed
    <3>3. QED
      BY <2>1, <3>1, <3>2 DEF SaveAnswer
  <2>5. /\ flag' \in [Session -> BOOLEAN]
        /\ close' \subseteq Session /\ early' \subseteq Session
    <3>1. CASE UNCHANGED <<flag, close, early>>
      BY <3>1 DEF Typed
    <3>2. CASE NoteUrgency(s)
      <4>1. Urgent(s) \in BOOLEAN
        BY DEF Urgent
      <4>2. QED
        BY <3>2, <4>1 DEF NoteUrgency, Typed
    <3>3. QED
      BY <1>3, <3>1, <3>2 DEF AnswerQuestion
  <2>6. UNCHANGED alerted
    BY <1>3 DEF AnswerQuestion
  <2>7. QED
    BY <1>1, <2>3, <2>4, <2>5, <2>6 DEF Typed
<1>4. QED
  BY <1>2, <1>3 DEF SubmitAnswer, urgency

-----------------------------------------------------------------------------

LEMMA NextKeepsParts ==
  ASSUME Drafted, Nudged, Typed, [Next]_vars
  PROVE  Drafted' /\ Nudged' /\ Typed'
<1>1. CASE NextDay
  <2>1. today' \in Nat
    BY <1>1 DEF NextDay, Typed
  <2>2. Typed'
    BY <1>1, <2>1 DEF NextDay, Typed, rows, sweep, urgency
  <2>3. Drafted'
    BY <1>1, OtherStepsKeepDrafted DEF NextDay, MishapsGrow, rows, Drafted
  <2>4. Nudged'
    BY <1>1, OtherStepsKeepNudged DEF NextDay, MishapsGrow, rows, sweep
  <2>5. QED
    BY <2>2, <2>3, <2>4
<1>2. ASSUME NEW s \in Session, StartIntake(s)
      PROVE  Drafted' /\ Nudged' /\ Typed'
  <2>1. status' = [status EXCEPT ![s] = "in-progress"]
    BY <1>2 DEF StartIntake
  <2>2. Drafted'
    BY <1>2, <2>1, OtherStepsKeepDrafted DEF StartIntake, MishapsGrow, Drafted
  <2>3. Nudged'
    BY <1>2, OtherStepsKeepNudged DEF StartIntake, MishapsGrow, sweep
  <2>4. Typed'
    BY <1>2 DEF StartIntake, Typed, sweep, urgency
  <2>5. QED
    BY <2>2, <2>3, <2>4
<1>3. ASSUME NEW c \in Caller, NEW s \in Session, SubmitAnswer(c, s)
      PROVE  Drafted' /\ Nudged' /\ Typed'
  <2>1. pc[c] # "drafting" /\ UNCHANGED <<status, briefed, nudged, output, sweep>>
    BY <1>3 DEF SubmitAnswer
  <2>2. Drafted'
    BY <1>3, <2>1, SubmitAnswerSteps, StepKeepsDrafted
  <2>3. Nudged'
    BY <1>3, <2>1, SubmitAnswerSteps, OtherStepsKeepNudged DEF sweep
  <2>4. QED
    BY <1>3, <2>2, <2>3, SubmitAnswerKeepsTyped
<1>4. ASSUME NEW c \in Caller, Classified(c)
      PROVE  Drafted' /\ Nudged' /\ Typed'
  <2>1. target[c] \in Session /\ pc[c] # "drafting"
    BY <1>4 DEF Classified, Drafted, CallersAreConsistent
  <2>2. StepsTo(c, target[c]) /\ MishapsGrow
    BY <1>4 DEF Classified, StepsTo, Return, MishapsGrow
  <2>3. Drafted'
    BY <1>4, <2>1, <2>2, StepKeepsDrafted DEF Classified
  <2>4. Nudged'
    BY <1>4, <2>2, OtherStepsKeepNudged DEF Classified, sweep
  <2>5. Typed'
    BY <1>4 DEF Classified, Typed, sweep, urgency
  <2>6. QED
    BY <2>3, <2>4, <2>5
<1>5. ASSUME NEW c \in Caller, AlertSent(c)
      PROVE  Drafted' /\ Nudged' /\ Typed'
  <2>1. target[c] \in Session /\ pc[c] # "drafting"
    BY <1>5 DEF AlertSent, Drafted, CallersAreConsistent
  <2>2. StepsTo(c, target[c]) /\ MishapsGrow
    BY <1>5, <2>1, AdvanceSteps DEF AlertSent
  <2>3. Drafted'
    BY <1>5, <2>1, <2>2, StepKeepsDrafted DEF AlertSent, rows
  <2>4. Nudged'
    BY <1>5, <2>2, OtherStepsKeepNudged DEF AlertSent, sweep, rows
  <2>5. Typed'
    BY <1>5, <2>1 DEF AlertSent, Typed, sweep, rows
  <2>6. QED
    BY <2>3, <2>4, <2>5
<1>6. ASSUME NEW c \in Caller, DraftReturns(c)
      PROVE  Drafted' /\ Nudged' /\ Typed'
  <2>1. MishapsGrow /\ UNCHANGED <<nudged, sweep>>
    BY <1>6 DEF DraftReturns, BriefIsReady, MishapsGrow, Mishap
  <2>2. flag' \in [Session -> BOOLEAN]
    BY <1>6 DEF DraftReturns, BriefIsReady, Conclude, Typed
  <2>3. Drafted'
    BY <1>6, DraftReturnsKeepsDrafted
  <2>4. Nudged'
    BY <2>1, OtherStepsKeepNudged DEF sweep
  <2>5. Typed'
    BY <1>6, <2>2 DEF DraftReturns, Typed, sweep, urgency
  <2>6. QED
    BY <2>3, <2>4, <2>5
<1>7. ASSUME NEW c \in Caller, DraftIsCutOff(c)
      PROVE  Drafted' /\ Nudged' /\ Typed'
  <2>1. target[c] \in Session
    BY <1>7 DEF DraftIsCutOff, Drafted, CallersAreConsistent
  <2>2. PICK m \in {0, 1}, r \in {0, 1}, b \in {0, 1} : Wrote(target[c], m, r, b)
    BY <1>7, <2>1, CutOffWrote
  <2>3. AllReturn /\ Mishap /\ UNCHANGED <<overlapped, nudged, sweep>>
    BY <1>7 DEF DraftIsCutOff
  <2>4. Drafted'
    BY <2>1, <2>2, <2>3, WroteInOrder, DeathKeepsDrafted
  <2>5. Nudged'
    BY <2>3, OtherStepsKeepNudged DEF sweep, Mishap, MishapsGrow
  <2>6. flag' \in [Session -> BOOLEAN]
    BY <1>7 DEF DraftIsCutOff, Conclude, Typed
  <2>7. Typed'
    BY <1>7, <2>6 DEF DraftIsCutOff, Typed, sweep, urgency
  <2>8. QED
    BY <2>4, <2>5, <2>7
<1>8. CASE Crash
  <2>1. Drafted'
    <3>1. UNCHANGED <<status, briefed, matters, reviews, briefs, overlapped>>
      BY <1>8 DEF Crash, rows, output
    <3>2. CompleteMeansBriefed'
      BY <3>1 DEF Drafted, CompleteMeansBriefed
    <3>3. QED
      BY <1>8, <3>1, <3>2, DeathKeepsDrafted DEF Crash, Drafted
  <2>2. Nudged'
    BY <1>8, OtherStepsKeepNudged DEF Crash, Mishap, MishapsGrow, sweep, rows
  <2>3. Typed'
    BY <1>8 DEF Crash, Typed, sweep, rows, urgency
  <2>4. QED
    BY <2>1, <2>2, <2>3
<1>9. CASE StartFollowUps
  <2>1. Drafted'
    BY <1>9, OtherStepsKeepDrafted DEF StartFollowUps, MishapsGrow, rows, Drafted
  <2>2. Nudged'
    BY <1>9, OtherStepsKeepNudged DEF StartFollowUps, MishapsGrow, rows
  <2>3. Typed'
    BY <1>9 DEF StartFollowUps, Typed, rows, urgency
  <2>4. QED
    BY <2>1, <2>2, <2>3
<1>10. ASSUME NEW s \in Session, SweepTurn(s)
       PROVE  Drafted' /\ Nudged' /\ Typed'
  <2>1. \/ status' = [status EXCEPT ![s] = "abandoned"] /\ UNCHANGED nudging
        \/ status' = status /\ UNCHANGED nudging
        \/ status' = status /\ nudging' = s /\ ~nudged[s]
    BY <1>10 DEF SweepTurn, FollowUp
  <2>2. Drafted'
    BY <1>10, <2>1, OtherStepsKeepDrafted DEF SweepTurn, MishapsGrow, Drafted, Closed
  <2>3. Nudged'
    BY <1>10, <2>1, OtherStepsKeepNudged DEF SweepTurn, MishapsGrow
  <2>4. Typed'
    BY <1>10 DEF SweepTurn, Typed, urgency
  <2>5. QED
    BY <2>2, <2>3, <2>4
<1>11. CASE MarkFollowUpSent
  <2>1. Drafted'
    BY <1>11, OtherStepsKeepDrafted DEF MarkFollowUpSent, MishapsGrow, Drafted
  <2>2. Typed'
    BY <1>11 DEF MarkFollowUpSent, Typed, urgency
  <2>3. QED
    BY <1>11, <2>1, <2>2, MarkKeepsNudged
<1>12. CASE SweepEnds
  <2>1. Drafted'
    BY <1>12, OtherStepsKeepDrafted DEF SweepEnds, MishapsGrow, rows, Drafted
  <2>2. Nudged'
    BY <1>12, OtherStepsKeepNudged DEF SweepEnds, MishapsGrow, rows
  <2>3. Typed'
    BY <1>12 DEF SweepEnds, Typed, rows, urgency
  <2>4. QED
    BY <2>1, <2>2, <2>3
<1>13. CASE SweepBreaks
  <2>1. Drafted'
    BY <1>13, OtherStepsKeepDrafted DEF SweepBreaks, Mishap, MishapsGrow, rows, Drafted
  <2>2. Typed'
    BY <1>13 DEF SweepBreaks, Typed, rows, urgency
  <2>3. QED
    BY <1>13, <2>1, <2>2, BreakKeepsNudged
<1>14. CASE UNCHANGED vars
  <2>1. Drafted'
    BY <1>14, OtherStepsKeepDrafted DEF vars, rows, MishapsGrow, Drafted
  <2>2. Nudged'
    BY <1>14, OtherStepsKeepNudged DEF vars, rows, sweep, MishapsGrow
  <2>3. Typed'
    BY <1>14 DEF vars, rows, sweep, urgency, Typed
  <2>4. QED
    BY <2>1, <2>2, <2>3
<1>15. QED
  BY <1>1, <1>2, <1>3, <1>4, <1>5, <1>6, <1>7, <1>8, <1>9, <1>10, <1>11, <1>12,
     <1>13, <1>14 DEF Next

(* Every step keeps the invariant.                                         *)
THEOREM NextHolds == IInv /\ [Next]_vars => IInv'
<1>1. SUFFICES ASSUME IInv, [Next]_vars PROVE IInv'
  OBVIOUS
<1>2. Drafted /\ Nudged /\ Typed
  BY <1>1 DEF IInv, TypeOK, Drafted, Nudged, Typed
<1>3. Drafted' /\ Nudged' /\ Typed'
  BY <1>1, <1>2, NextKeepsParts
<1>4. QED
  BY <1>3 DEF IInv, TypeOK, Drafted, Nudged, Typed

-----------------------------------------------------------------------------

(* The invariant of calls, tables and sweep, for every instance.           *)
THEOREM InvariantHolds == Spec => []IInv
BY InitHolds, NextHolds, PTL DEF Spec

(* Every row, call and counter keeps its type.                             *)
THEOREM TypeCorrect == Spec => []TypeOK
<1>1. IInv => TypeOK
  BY DEF IInv
<1>2. QED
  BY <1>1, InvariantHolds, PTL

(* While no two calls draft at once and nothing dies or throws, generate-  *)
(* Brief makes one matter of an enquiry.                                   *)
THEOREM EnquiriesBecomeOneMatter == Spec => []OneMatterPerSession
<1>1. IInv => OneMatterPerSession
  BY DEF IInv
<1>2. QED
  BY <1>1, InvariantHolds, PTL

(* However calls, sweeps, crashes and throws interleave in generateBrief,  *)
(* a complete session has its brief, the brief its review, the review its  *)
(* matter.                                                                 *)
THEOREM CompletionsAreBriefed == Spec => []CompleteMeansBriefed
<1>1. IInv => CompleteMeansBriefed
  BY DEF IInv
<1>2. QED
  BY <1>1, InvariantHolds, PTL

(* dispatchIntakeFollowUps reminds a client once, and once more at most    *)
(* for each time a process died or a statement threw.                      *)
THEOREM RemindersAreSingle == Spec => []NudgedOnce
<1>1. IInv => NudgedOnce
  BY DEF IInv
<1>2. QED
  BY <1>1, InvariantHolds, PTL

-----------------------------------------------------------------------------
(* Alerts.  Every step but a crash writes the status or the urgency of at  *)
(* most one session and moves at most one call.                            *)

(* No step takes an answer, nothing is found urgent and no alert is lost.  *)
QuietStep ==
  /\ UNCHANGED <<close, early>>
  /\ \A s \in Session :
       \/ status'[s] = status[s] /\ flag'[s] = flag[s]
       \/ status[s] = "none" /\ flag'[s] = flag[s]
       \/ status'[s] \in Closed
  /\ alerted \subseteq alerted'
  /\ mishaps' = 0 => mishaps = 0 /\ \A s \in Session : Alerting(s) => s \in alerted' \/ Alerting(s)'

LEMMA QuietStepKeepsAlerts ==
  ASSUME IInv, FlagHasACause, AlertedUnlessFlagged, QuietStep
  PROVE  FlagHasACause' /\ AlertedUnlessFlagged'
<1>1. FlagHasACause'
  BY DEF FlagHasACause, QuietStep, Closed
<1>2. AlertedUnlessFlagged'
  <2>1. SUFFICES ASSUME mishaps' = 0, NEW s \in close \ early
                 PROVE  s \in alerted' \/ Alerting(s)'
    BY DEF AlertedUnlessFlagged, NoMishap, QuietStep
  <2>2. s \in Session
    BY DEF IInv, TypeOK
  <2>3. s \in alerted \/ Alerting(s)
    BY <2>1 DEF AlertedUnlessFlagged, NoMishap, QuietStep
  <2>4. QED
    BY <2>1, <2>2, <2>3 DEF QuietStep
<1>3. QED
  BY <1>1, <1>2

(* One call moves on; the other calls stay where they are.                 *)
LEMMA OthersStillAlert ==
  ASSUME IInv, NEW c \in Caller, NEW l, NEW u, Goto(c, l, u), pc[c] # "alerting"
  PROVE  \A s \in Session : Alerting(s) => Alerting(s)'
<1>1. \A e \in Caller \ {c} : pc'[e] = pc[e] /\ target'[e] = target[e]
  BY DEF IInv, TypeOK, Goto
<1>2. QED
  BY <1>1 DEF Alerting

(* An answer that makes the session urgent: who finds a close deadline     *)
(* first goes to alert, and a flag set before was set by such a check.     *)
LEMMA NotedUrgencyKeepsAlerts ==
  ASSUME IInv, FlagHasACause, AlertedUnlessFlagged,
         NEW c \in Caller, NEW s \in Session, status[s] = "in-progress",
         pc[c] = "idle", NoteUrgency(s), UNCHANGED <<status, alerted>>,
         NEW l, NEW u, Goto(c, l, u),
         IsClose(s) /\ ~flag[s] => l = "alerting" /\ u = s,
         MishapsGrow
  PROVE  FlagHasACause' /\ AlertedUnlessFlagged'
<1>1. /\ flag \in [Session -> BOOLEAN] /\ mishaps \in Nat
      /\ pc'[c] = l /\ target'[c] = u
      /\ close \subseteq close' /\ early \subseteq early'
      /\ \A v \in Session \ {s} :
           (v \in close' <=> v \in close) /\ (v \in early' <=> v \in early)
  BY DEF IInv, TypeOK, Goto, NoteUrgency
<1>2. \A v \in Session : Alerting(v) => Alerting(v)'
  BY OthersStillAlert
<1>3. Urgent(s) \in BOOLEAN /\ IsClose(s) \in BOOLEAN
  BY DEF Urgent, IsClose
<1>4. /\ flag'[s] = Urgent(s)
      /\ \A v \in Session \ {s} : flag'[v] = flag[v]
      /\ Urgent(s) => s \in close' \cup early'
      /\ s \in close' <=> s \in close \/ IsClose(s)
  BY <1>1, <1>3 DEF NoteUrgency
<1>5. FlagHasACause'
  BY <1>1, <1>4 DEF FlagHasACause
<1>6. ASSUME mishaps' = 0, NEW v \in close' \ early', v \in Session
      PROVE  v \in alerted' \/ Alerting(v)'
  <2>1. mishaps = 0
    BY <1>1, <1>6 DEF MishapsGrow
  <2>2. v \in close \ early => v \in alerted \/ Alerting(v)
    BY <2>1 DEF AlertedUnlessFlagged, NoMishap
  <2>3. CASE v \in close
    BY <1>1, <1>2, <1>6, <2>2, <2>3
  <2>4. CASE v \notin close
    <3>1. v = s /\ IsClose(s)
      BY <1>1, <1>4, <1>6, <2>4
    <3>2. ~flag[s]
      BY <1>1, <1>6, <2>4, <3>1 DEF FlagHasACause
    <3>3. QED
      BY <1>1, <3>1, <3>2 DEF Alerting
  <2>5. QED
    BY <2>3, <2>4
<1>7. close' \subseteq Session
  BY DEF NoteUrgency, IInv, TypeOK
<1>8. AlertedUnlessFlagged'
  BY <1>6, <1>7 DEF AlertedUnlessFlagged, NoMishap
<1>9. QED
  BY <1>5, <1>8

LEMMA SubmitAnswerKeepsAlerts ==
  ASSUME IInv, FlagHasACause, AlertedUnlessFlagged,
         NEW c \in Caller, NEW s \in Session, SubmitAnswer(c, s)
  PROVE  FlagHasACause' /\ AlertedUnlessFlagged'
<1>1. /\ pc[c] = "idle" /\ status[s] = "in-progress"
      /\ status' = status /\ mishaps \in Nat
  BY DEF SubmitAnswer, IInv, TypeOK
<1>2. SubmitAnswer(c, s) => StepsTo(c, s) /\ MishapsGrow
  BY SubmitAnswerSteps
<1>3. PICK l, u : Goto(c, l, u)
  BY <1>2 DEF StepsTo
<1>4. CASE UNCHANGED <<flag, alerted, close, early>>
  <2>1. mishaps' = 0 => mishaps = 0
    BY <1>1, <1>2 DEF MishapsGrow
  <2>2. QuietStep
    BY <1>1, <1>3, <1>4, <2>1, OthersStillAlert DEF QuietStep
  <2>3. QED
    BY <2>2, QuietStepKeepsAlerts
<1>5. CASE AnswerQuestion(c, s)
  <2>1. UNCHANGED alerted
    BY <1>5 DEF AnswerQuestion
  <2>2. CASE UNCHANGED <<flag, close, early>>
    BY <1>4, <2>1, <2>2
  <2>3. CASE NoteUrgency(s)
    <3>1. PICK k, v : Goto(c, k, v) /\ (IsClose(s) /\ ~flag[s] => k = "alerting" /\ v = s)
      <4>1. CASE IsClose(s) /\ ~flag[s]
        <5>1. CASE Goto(c, "alerting", s)
          BY <5>1
        <5>2. CASE UNCHANGED <<flag, close, early>>
          <6>1. flag'[s] = TRUE
            BY <2>3, <4>1 DEF NoteUrgency, IInv, TypeOK, IsClose, Urgent
          <6>2. QED
            BY <4>1, <5>2, <6>1
        <5>3. QED
          BY <1>5, <4>1, <5>1, <5>2 DEF AnswerQuestion
      <4>2. CASE ~(IsClose(s) /\ ~flag[s])
        BY <1>3, <4>2
      <4>3. QED
        BY <4>1, <4>2
    <3>2. QED
      BY <1>1, <1>2, <2>1, <2>3, <3>1, NotedUrgencyKeepsAlerts
  <2>4. QED
    BY <1>5, <2>2, <2>3 DEF AnswerQuestion
<1>6. QED
  BY <1>4, <1>5 DEF SubmitAnswer, urgency

LEMMA OtherStepsAreQuiet ==
  ASSUME IInv, Next, ~ \E c \in Caller, s \in Session : SubmitAnswer(c, s)
  PROVE  QuietStep
<1>0. /\ status \in [Session -> {"none", "in-progress"} \cup Closed]
      /\ flag \in [Session -> BOOLEAN] /\ mishaps \in Nat
  BY DEF IInv, TypeOK
<1>1. ASSUME UNCHANGED <<status, flag, alerted, close, early, pc, target>>,
             MishapsGrow
      PROVE  QuietStep
  BY <1>0, <1>1 DEF QuietStep, Alerting, MishapsGrow
<1>2. ASSUME NEW s \in Session, StartIntake(s) PROVE QuietStep
  BY <1>0, <1>2 DEF StartIntake, callers, urgency, QuietStep, Alerting
<1>3. ASSUME NEW c \in Caller, Classified(c) PROVE QuietStep
  <2>1. \A s \in Session : Alerting(s) => Alerting(s)'
    BY <1>3, OthersStillAlert DEF Classified, Return
  <2>2. QED
    BY <1>3, <2>1 DEF Classified, urgency, QuietStep
<1>4. ASSUME NEW c \in Caller, AlertSent(c) PROVE QuietStep
  <2>1. target[c] \in Session
    BY <1>4 DEF AlertSent, IInv, CallersAreConsistent
  <2>2. StepsTo(c, target[c]) /\ MishapsGrow
    BY <1>4, <2>1, AdvanceSteps DEF AlertSent
  <2>3. \A e \in Caller \ {c} : pc'[e] = pc[e] /\ target'[e] = target[e]
    BY <2>2 DEF StepsTo, Goto, IInv, TypeOK
  <2>4. \A s \in Session : Alerting(s) => s \in alerted' \/ Alerting(s)'
    BY <1>4, <2>3 DEF Alerting, AlertSent
  <2>5. QED
    BY <1>0, <1>4, <2>2, <2>4 DEF AlertSent, rows, QuietStep, MishapsGrow
<1>5. ASSUME NEW c \in Caller, DraftReturns(c) PROVE QuietStep
  <2>1. \A s \in Session : Alerting(s) => Alerting(s)'
    BY <1>5, OthersStillAlert DEF DraftReturns, BriefIsReady, Return
  <2>2. \A s \in Session : \/ status'[s] = status[s] /\ flag'[s] = flag[s]
                           \/ status'[s] \in Closed
    <3>1. CASE \E st \in {"escalated", "complete"} : Conclude(target[c], st)
      BY <1>0, <3>1 DEF Conclude, Closed
    <3>2. CASE /\ \E st \in {"escalated", status[target[c]]} :
                    status' = [status EXCEPT ![target[c]] = st]
               /\ UNCHANGED flag
      BY <1>0, <3>2 DEF Closed
    <3>3. QED
      BY <1>5, <3>1, <3>2 DEF DraftReturns, BriefIsReady
  <2>3. UNCHANGED <<alerted, close, early>> /\ (mishaps' = 0 => mishaps = 0)
    BY <1>0, <1>5 DEF DraftReturns, BriefIsReady, Mishap, urgency
  <2>4. QED
    BY <2>1, <2>2, <2>3 DEF QuietStep
<1>6. ASSUME NEW c \in Caller, DraftIsCutOff(c) PROVE QuietStep
  <2>1. \A s \in Session : \/ status'[s] = status[s] /\ flag'[s] = flag[s]
                           \/ status'[s] \in Closed
    BY <1>0, <1>6 DEF DraftIsCutOff, Conclude, Closed
  <2>2. UNCHANGED <<alerted, close, early>> /\ mishaps' # 0
    BY <1>0, <1>6 DEF DraftIsCutOff, Mishap, urgency
  <2>3. QED
    BY <2>1, <2>2 DEF QuietStep
<1>7. ASSUME Crash PROVE QuietStep
  BY <1>0, <1>7 DEF Crash, Mishap, rows, urgency, QuietStep
<1>8. ASSUME NEW s \in Session, SweepTurn(s) PROVE QuietStep
  BY <1>0, <1>8 DEF SweepTurn, FollowUp, callers, urgency, QuietStep, Closed, Alerting
<1>9. ASSUME NextDay \/ StartFollowUps \/ MarkFollowUpSent \/ SweepEnds \/ SweepBreaks
      PROVE  QuietStep
  <2>1. UNCHANGED <<status, flag, alerted, close, early, pc, target>>
    BY <1>9
       DEF NextDay, StartFollowUps, MarkFollowUpSent, SweepEnds, SweepBreaks,
           rows, callers, urgency
  <2>2. MishapsGrow
    BY <1>9
       DEF NextDay, StartFollowUps, MarkFollowUpSent, SweepEnds, SweepBreaks,
           Mishap, MishapsGrow
  <2>3. QED
    BY <1>1, <2>1, <2>2
<1>10. QED
  BY <1>2, <1>3, <1>4, <1>5, <1>6, <1>7, <1>8, <1>9 DEF Next

(* The lawyer is alerted of every deadline found within AlertDays, unless  *)
(* the session was called urgent with more days left or a crash or a throw *)
(* came between, however calls overlap (intake-agent.ts:276-305).          *)
THEOREM CloseDeadlinesAreAlerted == Spec => []AlertedUnlessFlagged
<1>1. Init => FlagHasACause /\ AlertedUnlessFlagged
  BY DEF Init, FlagHasACause, AlertedUnlessFlagged
<1>2. /\ IInv /\ FlagHasACause /\ AlertedUnlessFlagged
      /\ [Next]_vars
      => (FlagHasACause /\ AlertedUnlessFlagged)'
  <2>1. SUFFICES ASSUME IInv, FlagHasACause, AlertedUnlessFlagged, [Next]_vars
                 PROVE  FlagHasACause' /\ AlertedUnlessFlagged'
    OBVIOUS
  <2>2. ASSUME NEW c \in Caller, NEW s \in Session, SubmitAnswer(c, s)
        PROVE  FlagHasACause' /\ AlertedUnlessFlagged'
    BY <2>1, <2>2, SubmitAnswerKeepsAlerts
  <2>3. CASE Next /\ ~ \E c \in Caller, s \in Session : SubmitAnswer(c, s)
    BY <2>1, <2>3, OtherStepsAreQuiet, QuietStepKeepsAlerts
  <2>4. CASE UNCHANGED vars
    <3>1. QuietStep
      BY <2>1, <2>4 DEF vars, rows, callers, urgency, QuietStep, Alerting
    <3>2. QED
      BY <2>1, <3>1, QuietStepKeepsAlerts
  <2>5. QED
    BY <2>1, <2>2, <2>3, <2>4
<1>3. QED
  BY <1>1, <1>2, InvariantHolds, PTL DEF Spec

=============================================================================
