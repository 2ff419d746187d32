--------------------------- MODULE IntakeSessions ---------------------------
(***************************************************************************)
(* Client intake (intake/client-questionnaire): a prospective client       *)
(* answers a questionnaire, by email and on the portal, until the answers  *)
(* are complete and a brief is drafted, a matter created and the brief     *)
(* queued for review.  Beside it runs the sweep of stale sessions, in a    *)
(* process of its own (scripts/overseer-tick.ts).                          *)
(*                                                                         *)
(* A call of submitAnswer awaits the classifier, the relay when the lawyer *)
(* is alerted, and the models when the brief is drafted; between two       *)
(* awaits it runs alone in its process.  Nothing locks a session: calls    *)
(* for one session, and the sweep, interleave at the awaits.  A day is the *)
(* unit of time.                                                           *)
(***************************************************************************)
EXTENDS Integers, FiniteSets

CONSTANTS
  Session, Caller,   \* conversations, and calls of submitAnswer that may overlap
  MatterType,        \* the types that have a question set
  NoSession,
  NQuestions,        \* how many questions a set has
  DaysLeft,          \* the days that may be left when asked; past is as bad as 0
  AlertDays,         \* the lawyer is alerted when fewer days are left
  UrgentDays,        \* a question set calls this many days left urgent
  LastDay,           \* bound: the last day of the model
  MaxMishaps         \* bound: how often a process dies or a statement throws

FollowUpAfter == 1   \* FOLLOW_UP_AFTER_MS and ABANDON_AFTER_MS, in days
AbandonAfter == 2
Unknown == "unknown"
NoDate == -1         \* the client has not given the date that starts the clock

ASSUME IntakeAssumption ==
  /\ NoSession \notin Session
  /\ Unknown \notin MatterType
  /\ NQuestions \in Nat \ {0}
  /\ DaysLeft \subseteq Nat
  /\ AlertDays \in Nat /\ UrgentDays \in Nat /\ LastDay \in Nat
  /\ MaxMishaps \in Nat

VARIABLES
  today,
  status,       \* intake_sessions.status; "none" before startIntake
  type,         \* matter_type
  answers,      \* the questions answered, as <<matter type, number>>
  due,          \* the last day of the limitation period, per matter type
  flag,         \* urgency_flag
  briefed,      \* brief_generated
  started,      \* started_at
  nudged,       \* follow_up_sent
  matters, reviews, briefs,   \* how many rows each session has led to
  pc, target,   \* the await each call is at, and its session
  snap,         \* the sessions the sweep has still to look at
  sweepDay,     \* the day it started; 0 between sweeps
  sweeping,     \* is it running?
  nudging,      \* the session whose reminder it is mailing
  nudges,       \* how many reminders each client got
  alerted,      \* the sessions whose lawyer was alerted
  close, early, \* those found urgent with fewer, and with more days left than AlertDays
  overlapped,   \* did two calls ever draft the brief of one session at once?
  mishaps       \* how often a process died or a statement threw

rows == <<status, type, answers, due, flag, briefed, started, nudged>>
output == <<matters, reviews, briefs>>
callers == <<pc, target>>
sweep == <<snap, sweepDay, sweeping, nudging, nudges>>
urgency == <<alerted, close, early>>
vars == <<today, rows, output, callers, sweep, urgency, overlapped, mishaps>>

Question == 1 .. NQuestions
Closed == {"complete", "abandoned", "escalated"}

TypeOK ==
  /\ today \in Nat /\ sweepDay \in Nat
  /\ status \in [Session -> {"none", "in-progress"} \cup Closed]
  /\ type \in [Session -> MatterType \cup {Unknown}]
  /\ answers \in [Session -> SUBSET (MatterType \X Question)]
  /\ due \in [Session -> [MatterType -> Int]]
  /\ flag \in [Session -> BOOLEAN] /\ briefed \in [Session -> BOOLEAN]
  /\ started \in [Session -> Nat] /\ nudged \in [Session -> BOOLEAN]
  /\ matters \in [Session -> Nat] /\ reviews \in [Session -> Nat]
  /\ briefs \in [Session -> Nat] /\ nudges \in [Session -> Nat]
  /\ pc \in [Caller -> {"idle", "classifying", "alerting", "drafting"}]
  /\ target \in [Caller -> Session \cup {NoSession}]
  /\ snap \subseteq Session
  /\ sweeping \in BOOLEAN /\ nudging \in Session \cup {NoSession}
  /\ alerted \subseteq Session /\ close \subseteq Session /\ early \subseteq Session
  /\ overlapped \in BOOLEAN
  /\ mishaps \in Nat

Init ==
  /\ today = 0 /\ sweepDay = 0
  /\ status = [s \in Session |-> "none"]
  /\ type = [s \in Session |-> Unknown]
  /\ answers = [s \in Session |-> {}]
  /\ due = [s \in Session |-> [t \in MatterType |-> NoDate]]
  /\ flag = [s \in Session |-> FALSE] /\ briefed = [s \in Session |-> FALSE]
  /\ started = [s \in Session |-> 0] /\ nudged = [s \in Session |-> FALSE]
  /\ matters = [s \in Session |-> 0] /\ reviews = [s \in Session |-> 0]
  /\ briefs = [s \in Session |-> 0] /\ nudges = [s \in Session |-> 0]
  /\ pc = [c \in Caller |-> "idle"]
  /\ target = [c \in Caller |-> NoSession]
  /\ snap = {} /\ sweeping = FALSE /\ nudging = NoSession
  /\ alerted = {} /\ close = {} /\ early = {}
  /\ overlapped = FALSE
  /\ mishaps = 0

-----------------------------------------------------------------------------

(* A statement throws, or a process dies.                                  *)
Mishap == mishaps < MaxMishaps /\ mishaps' = mishaps + 1

NextDay ==
  /\ today < LastDay
  /\ today' = today + 1
  /\ UNCHANGED <<rows, output, callers, sweep, urgency, overlapped, mishaps>>

(* The classifier is asked first; the insert is all that changes state.    *)
(* Bound: no session starts so late that the sweep cannot reach it.        *)
StartIntake(s) ==
  /\ status[s] = "none"
  /\ today + AbandonAfter <= LastDay
  /\ status' = [status EXCEPT ![s] = "in-progress"]
  /\ \E t \in MatterType \cup {Unknown} : type' = [type EXCEPT ![s] = t]
  /\ started' = [started EXCEPT ![s] = today]
  /\ UNCHANGED <<today, answers, due, flag, briefed, nudged, output, callers, sweep,
                 urgency, overlapped, mishaps>>

-----------------------------------------------------------------------------

Goto(c, label, s) ==
  /\ pc' = [pc EXCEPT ![c] = label]
  /\ target' = [target EXCEPT ![c] = s]

Return(c) == Goto(c, "idle", NoSession)

(* nextQuestion returns null.                                              *)
Answered(s, t, given) == \A n \in Question : <<t, n>> \in given

NextQuestion(s, n) ==
  /\ <<type[s], n>> \notin answers[s]
  /\ \A k \in Question : k < n => <<type[s], k>> \in answers[s]

Drafting(s) == {c \in Caller : pc[c] = "drafting" /\ target[c] = s}

(* Seeded fault: finishIntake does not ask whether the brief is there.     *)
BeginFinishAgain(c, s) ==
  /\ Goto(c, "drafting", s)
  /\ overlapped' = (overlapped \/ Drafting(s) # {})

(* finishIntake up to its await.                                           *)
BeginFinish(c, s) ==
  IF briefed[s]
  THEN Return(c) /\ UNCHANGED overlapped
  ELSE /\ Goto(c, "drafting", s)
       /\ overlapped' = (overlapped \/ Drafting(s) # {})

(* What follows the alert: the next question, or the end; or the update of *)
(* the row throws.                                                         *)
Advance(c, s, given) ==
  \/ /\ IF Answered(s, type[s], given)
        THEN BeginFinish(c, s)
        ELSE Return(c) /\ UNCHANGED overlapped
     /\ UNCHANGED mishaps
  \/ Return(c) /\ Mishap /\ UNCHANGED overlapped

(* Answering the first question dates the limitation period, if the answer *)
(* is a date.  A mail without a text is saved and answers nothing.         *)
SaveAnswer(s, n) ==
  \/ UNCHANGED <<answers, due>>
  \/ /\ answers' = [answers EXCEPT ![s] = @ \cup {<<type[s], n>>}]
     /\ IF n = 1
        THEN \E dy \in {NoDate} \cup {today + left : left \in DaysLeft} :
               due' = [due EXCEPT ![s][type[s]] = dy]
        ELSE UNCHANGED due

(* urgencyCheck on the saved answers.                                      *)
Urgent(s) == due'[s][type[s]] # NoDate /\ due'[s][type[s]] - today <= UrgentDays

IsClose(s) == Urgent(s) /\ due'[s][type[s]] - today < AlertDays

NoteUrgency(s) ==
  /\ flag' = [flag EXCEPT ![s] = Urgent(s)]
  /\ close' = close \cup {u \in {s} : IsClose(s)}
  /\ early' = early \cup {u \in {s} : Urgent(s) /\ ~IsClose(s)}

(* Seeded fault: the flag is looked at after it was set.                   *)
AnswerQuestionLate(c, s) ==
  /\ \E n \in Question :
       /\ NextQuestion(s, n)
       /\ SaveAnswer(s, n)
       /\ NoteUrgency(s)
       /\ Advance(c, s, answers'[s])
  /\ UNCHANGED alerted

AnswerQuestion(c, s) ==
  /\ \E n \in Question :
       /\ NextQuestion(s, n)
       /\ SaveAnswer(s, n)
       /\ \/ /\ NoteUrgency(s)
             /\ IF IsClose(s) /\ ~flag[s]
                THEN Goto(c, "alerting", s) /\ UNCHANGED <<overlapped, mishaps>>
                ELSE Advance(c, s, answers'[s])
          \/ Return(c) /\ Mishap /\ UNCHANGED <<flag, close, early, overlapped>>
  /\ UNCHANGED alerted

(* A call of submitAnswer up to its first await.  A session that is closed *)
(* takes no answer.                                                        *)
SubmitAnswer(c, s) ==
  /\ pc[c] = "idle"
  /\ status[s] = "in-progress"
  /\ \/ /\ type[s] = Unknown
        /\ Goto(c, "classifying", s)
        /\ UNCHANGED <<answers, due, flag, urgency, overlapped, mishaps>>
     \/ /\ type[s] # Unknown /\ Answered(s, type[s], answers[s])
        /\ BeginFinish(c, s)
        /\ UNCHANGED <<answers, due, flag, urgency, mishaps>>
     \/ type[s] # Unknown /\ AnswerQuestion(c, s)
  /\ UNCHANGED <<today, status, type, briefed, started, nudged, output, sweep>>

(* The type is written whatever happened to the session meanwhile.         *)
Classified(c) ==
  /\ pc[c] = "classifying"
  /\ \/ \E t \in MatterType : type' = [type EXCEPT ![target[c]] = t]
     \/ UNCHANGED type
  /\ Return(c)
  /\ UNCHANGED <<today, status, answers, due, flag, briefed, started, nudged, output,
                 sweep, urgency, overlapped, mishaps>>

(* The alert was handed to the relay, whose refusal nobody hears of.       *)
AlertSent(c) ==
  LET s == target[c] IN
  /\ pc[c] = "alerting"
  /\ alerted' = alerted \cup {s}
  /\ Advance(c, s, answers[s])
  /\ UNCHANGED <<today, rows, output, sweep, close, early>>

-----------------------------------------------------------------------------

(* generateBrief after its awaits: a matter, a review, a brief, in this    *)
(* order, each committed on its own.                                       *)
Insert(s, m, r, b) ==
  /\ matters' = [matters EXCEPT ![s] = @ + m]
  /\ reviews' = [reviews EXCEPT ![s] = @ + r]
  /\ briefs' = [briefs EXCEPT ![s] = @ + b]

Progress == {<<0, 0, 0>>, <<1, 0, 0>>, <<1, 1, 0>>, <<1, 1, 1>>}

(* The update that ends the session.  Its flag is what the session and the *)
(* limitation rules said when drafting began; nobody reads it again.       *)
Conclude(s, st) ==
  /\ status' = [status EXCEPT ![s] = st]
  /\ briefed' = [briefed EXCEPT ![s] = TRUE]
  /\ \E urgent \in BOOLEAN : flag' = [flag EXCEPT ![s] = urgent]

(* Everything is written and the session is complete; or something throws: *)
(* then the session is escalated, even when only the audit row after the   *)
(* completion is missing, or stays as it is when that update throws too.   *)
BriefIsReady(c) ==
  LET s == target[c] IN
  /\ \/ Insert(s, 1, 1, 1) /\ Conclude(s, "complete") /\ UNCHANGED mishaps
     \/ /\ \/ /\ \E p \in Progress : Insert(s, p[1], p[2], p[3])
              /\ \E st \in {"escalated", status[s]} : status' = [status EXCEPT ![s] = st]
              /\ UNCHANGED <<briefed, flag>>
           \/ /\ Insert(s, 1, 1, 1)
              /\ \E st \in {"escalated", "complete"} : Conclude(s, st)
        /\ Mishap
  /\ Return(c)

DraftReturns(c) ==
  /\ pc[c] = "drafting"
  /\ BriefIsReady(c)
  /\ UNCHANGED <<today, type, answers, due, started, nudged, sweep, urgency, overlapped>>

AllReturn ==
  /\ pc' = [c \in Caller |-> "idle"]
  /\ target' = [c \in Caller |-> NoSession]

(* The process dies between two statements of generateBrief; or anywhere.  *)
DraftIsCutOff(c) ==
  LET s == target[c] IN
  /\ pc[c] = "drafting"
  /\ Mishap
  /\ \/ \E p \in Progress : Insert(s, p[1], p[2], p[3]) /\ UNCHANGED <<status, briefed, flag>>
     \/ Insert(s, 1, 1, 1) /\ Conclude(s, "complete")
  /\ AllReturn
  /\ UNCHANGED <<today, type, answers, due, started, nudged, sweep, urgency, overlapped>>

Crash ==
  /\ \E c \in Caller : pc[c] # "idle"
  /\ Mishap
  /\ AllReturn
  /\ UNCHANGED <<today, rows, output, sweep, urgency, overlapped>>

-----------------------------------------------------------------------------
(* dispatchIntakeFollowUps.  Idle time counts from started_at.             *)

StartFollowUps ==
  /\ ~sweeping
  /\ sweeping' = TRUE
  /\ snap' = {s \in Session : status[s] = "in-progress"}
  /\ sweepDay' = today
  /\ UNCHANGED <<today, rows, output, callers, nudging, nudges, urgency, overlapped, mishaps>>

IdleFor(s) == sweepDay - started[s]

(* Seeded fault: the reminder is looked at first, and ends the turn.       *)
FollowUpFirst(s) ==
  \/ /\ IdleFor(s) >= FollowUpAfter /\ ~nudged[s]
     /\ nudging' = s /\ UNCHANGED status
  \/ /\ IdleFor(s) < FollowUpAfter \/ nudged[s]
     /\ UNCHANGED <<status, nudging>>

(* One turn of the loop: the session is abandoned, whatever it became      *)
(* since the sweep read it, or reminded, or left alone.                    *)
FollowUp(s) ==
  \/ /\ IdleFor(s) >= AbandonAfter
     /\ status' = [status EXCEPT ![s] = "abandoned"]
     /\ UNCHANGED nudging
  \/ /\ IdleFor(s) \in FollowUpAfter .. AbandonAfter - 1 /\ ~nudged[s]
     /\ nudging' = s /\ UNCHANGED status
  \/ /\ IdleFor(s) < FollowUpAfter \/ (IdleFor(s) < AbandonAfter /\ nudged[s])
     /\ UNCHANGED <<status, nudging>>

SweepTurn(s) ==
  /\ s \in snap
  /\ nudging = NoSession
  /\ FollowUp(s)
  /\ snap' = snap \ {s}
  /\ UNCHANGED <<today, type, answers, due, flag, briefed, started, nudged, output, callers,
                 sweepDay, sweeping, nudges, urgency, overlapped, mishaps>>

(* The relay has answered, or failed unheard, and the reminder is marked.  *)
MarkFollowUpSent ==
  /\ nudging # NoSession
  /\ \/ nudges' = [nudges EXCEPT ![nudging] = @ + 1]
     \/ UNCHANGED nudges
  /\ nudged' = [nudged EXCEPT ![nudging] = TRUE]
  /\ nudging' = NoSession
  /\ UNCHANGED <<today, status, type, answers, due, flag, briefed, started, output, callers,
                 snap, sweepDay, sweeping, urgency, overlapped, mishaps>>

SweepEnds ==
  /\ sweeping /\ snap = {} /\ nudging = NoSession
  /\ sweeping' = FALSE /\ sweepDay' = 0
  /\ UNCHANGED <<today, rows, output, callers, snap, nudging, nudges, urgency, overlapped,
                 mishaps>>

(* The script dies, or a statement throws and ends it; a reminder under    *)
(* way may be out already.                                                 *)
SweepBreaks ==
  /\ sweeping
  /\ Mishap
  /\ sweeping' = FALSE /\ snap' = {} /\ nudging' = NoSession /\ sweepDay' = 0
  /\ \/ UNCHANGED nudges
     \/ nudging # NoSession /\ nudges' = [nudges EXCEPT ![nudging] = @ + 1]
  /\ UNCHANGED <<today, rows, output, callers, urgency, overlapped>>

-----------------------------------------------------------------------------

Next ==
  \/ NextDay
  \/ \E s \in Session : StartIntake(s)
  \/ \E c \in Caller, s \in Session : SubmitAnswer(c, s)
  \/ \E c \in Caller : Classified(c) \/ AlertSent(c) \/ DraftReturns(c) \/ DraftIsCutOff(c)
  \/ Crash
  \/ StartFollowUps \/ MarkFollowUpSent \/ SweepEnds \/ SweepBreaks
  \/ \E s \in Session : SweepTurn(s)

Spec == Init /\ [][Next]_vars

(* Days pass, and the sweep is run again and again and goes on.  Nothing   *)
(* is assumed of clients, models or relays.                                *)
FairSpec ==
  /\ Spec
  /\ WF_vars(NextDay)
  /\ WF_vars(StartFollowUps)
  /\ WF_vars(SweepEnds)
  /\ WF_vars(MarkFollowUpSent)
  /\ \A s \in Session : WF_vars(SweepTurn(s))

-----------------------------------------------------------------------------

NoMishap == mishaps = 0

(* An enquiry becomes one matter: a second one takes two calls that draft  *)
(* at the same time, as a double click on the last answer makes them, or a *)
(* crash or a throw in the middle of generateBrief.                        *)
OneMatterPerSession ==
  ~overlapped /\ NoMishap => \A s \in Session : matters[s] <= 1

(* brief-generator.ts:283-284: no brief without a review that a lawyer     *)
(* must decide, no review without its matter, and a session is complete    *)
(* only when it has all of them, however calls and sweeps overlap.         *)
CompleteMeansBriefed ==
  \A s \in Session :
    /\ status[s] = "complete" => briefed[s]
    /\ briefed[s] => briefs[s] > 0
    /\ briefs[s] <= reviews[s] /\ reviews[s] <= matters[s]

Alerting(s) == \E c \in Caller : pc[c] = "alerting" /\ target[c] = s

(* The lawyer is alerted of a deadline found within AlertDays, unless the  *)
(* session was called urgent before, with more days left, or a crash or a  *)
(* throw came between.                                                     *)
AlertedUnlessFlagged ==
  NoMishap => \A s \in close \ early : s \in alerted \/ Alerting(s)

(* intake-agent.ts:403-406: a single reminder, and one more at most for    *)
(* each time the sweep broke off.                                          *)
NudgedOnce == \A s \in Session : nudges[s] <= 1 + mishaps

(* Whatever crashes and throws cut off, no enquiry stays in progress for   *)
(* ever: it is completed, escalated or abandoned with word to the firm.    *)
EverySessionSettles ==
  \A s \in Session : status[s] = "in-progress" ~> status[s] \in Closed

-----------------------------------------------------------------------------

(* What makes OneMatterPerSession inductive: who drafts is alone, and the  *)
(* matters of a session that has no brief yet are none.                    *)
DraftersAreAlone ==
  ~overlapped =>
    \A c, e \in Caller :
      pc[c] = "drafting" /\ pc[e] = "drafting" /\ target[c] = target[e] => c = e

UnbriefedHasNoMatter ==
  ~overlapped /\ NoMishap =>
    /\ \A s \in Session : ~briefed[s] => matters[s] = 0
    /\ \A c \in Caller : pc[c] = "drafting" => ~briefed[target[c]]

(* What makes NudgedOnce inductive: who may still be reminded was reminded *)
(* only by sweeps that broke off.                                          *)
UnnudgedWasNotReminded ==
  /\ \A s \in Session : ~nudged[s] => nudges[s] <= mishaps
  /\ nudging # NoSession => ~nudged[nudging]

(* What makes AlertedUnlessFlagged inductive: until a session ends its     *)
(* flag is set by a check of its urgency only.                             *)
FlagHasACause ==
  \A s \in Session :
    status[s] \in {"none", "in-progress"} /\ flag[s] => s \in close \cup early

CallersAreConsistent ==
  \A c \in Caller : pc[c] # "idle" => target[c] \in Session

IInv ==
  /\ TypeOK
  /\ CallersAreConsistent
  /\ DraftersAreAlone
  /\ UnbriefedHasNoMatter
  /\ OneMatterPerSession
  /\ CompleteMeansBriefed
  /\ UnnudgedWasNotReminded
  /\ NudgedOnce

=============================================================================
