-------------------------- MODULE DocumentChasing ---------------------------
(***************************************************************************)
(* Chasing documents from clients (communication/document-chasing.ts): a   *)
(* request, two reminders that are drafted into the review queue, and the  *)
(* escalation to the lawyer.  Nothing but the escalation is mailed, and    *)
(* the sweep runs when somebody presses its button, not every day.         *)
(*                                                                         *)
(* No code sets a request to any status but open.                          *)
(***************************************************************************)
EXTENDS Handlers

CONSTANTS
  DocumentRequest,   \* ids
  FirstAfter,        \* 3 days
  SecondAfter,       \* 7 days
  EscalateAfter,     \* 14 days
  LastDay            \* bound: the calendar

ASSUME ChasingAssumption ==
  /\ {FirstAfter, SecondAfter, EscalateAfter, LastDay} \subseteq Nat
  /\ FirstAfter <= SecondAfter /\ SecondAfter <= EscalateAfter

VARIABLES
  day,      \* today
  chase     \* the row of each request, and what was put before the lawyers

chasingVars == <<day, chase>>

Stage == {"request", "first", "second"}

(* drafts counts the texts of each stage in the review queue; drafted are  *)
(* the stages whose review id the row holds, so that there is a row when   *)
(* the request's own is among them; made is the day of created_at; told    *)
(* counts the mails of the escalation.                                     *)
ChaseState == [drafts : [Stage -> Nat], drafted : SUBSET Stage, made : Nat,
               escalated : BOOLEAN, told : Nat]

ChasingInit ==
  /\ day = 0
  /\ chase = [r \in DocumentRequest |->
       [drafts |-> [s \in Stage |-> 0], drafted |-> {}, made |-> 0,
        escalated |-> FALSE, told |-> 0]]

-----------------------------------------------------------------------------

NextDay ==
  /\ day < LastDay
  /\ day' = day + 1
  /\ UNCHANGED <<chase, handlerVars>>

ChaseBecomes(r, steps) ==
  /\ \E i \in DOMAIN steps :
       Leaves(r, steps, steps[i]) /\ chase' = [chase EXCEPT ![r] = steps[i]]
  /\ UNCHANGED day

(* Seeded fault: the row is marked for the other reminder.                 *)
PutWrongMark(x, s) ==
  << [x EXCEPT !.drafts[s] = @ + 1],
     [x EXCEPT !.drafts[s] = @ + 1, !.drafted = @ \cup {"second"}] >>

(* A text goes into the review queue, then its review id into the row.     *)
Put(x, s) ==
  LET queued == [x EXCEPT !.drafts[s] = @ + 1] IN
  << queued, [queued EXCEPT !.drafted = @ \cup {s}] >>

(* createDocumentRequest, again if the last attempt left no row.           *)
CreateDocumentRequest(r) ==
  /\ "request" \notin chase[r].drafted
  /\ Request
  /\ ChaseBecomes(r, Put([chase[r] EXCEPT !.made = day], "request"))

(* The row first; then the mail, which is not awaited: there is one more   *)
(* (mails = 1) if the matter has its lawyer's address and the relay takes  *)
(* it, and none (0) if there is no address or the failure is swallowed.    *)
Escalate(x, mails) ==
  << [x EXCEPT !.escalated = TRUE],
     [x EXCEPT !.escalated = TRUE, !.told = @ + mails] >>

(* dispatchReminders for one open request: at most one step of the three,  *)
(* the first that is due and not marked in the row.                        *)
DispatchReminder(r) ==
  LET x == chase[r]
      due(s, after) == s \notin x.drafted /\ day - x.made >= after
      age == day - x.made IN
  /\ "request" \in x.drafted
  /\ \/ due("first", FirstAfter) /\ ChaseBecomes(r, Put(x, "first"))
     \/ /\ ~due("first", FirstAfter)
        /\ due("second", SecondAfter) /\ ChaseBecomes(r, Put(x, "second"))
     \/ /\ ~due("first", FirstAfter) /\ ~due("second", SecondAfter)
        /\ age >= EscalateAfter /\ ~x.escalated
        /\ \E mails \in {0, 1} : ChaseBecomes(r, Escalate(x, mails))
  /\ UNCHANGED edits

ChasingStep ==
  \/ NextDay
  \/ \E r \in DocumentRequest : CreateDocumentRequest(r) \/ DispatchReminder(r)

-----------------------------------------------------------------------------

(* The client is chased in order and each time once: whatever is cut short *)
(* between the review queue and the row, and whenever the button is        *)
(* pressed, a stage has one text before the lawyers, and one more for each *)
(* handler cut short; and a stage follows the one before it.  The lawyer   *)
(* is mailed once at most, whatever is cut short, and after both reminders *)
(* (document-chasing.ts:55-80, 193-252); that an escalated request's       *)
(* lawyer was told at all does not hold.                                   *)
ChasedOnce ==
  \A r \in DocumentRequest :
    LET x == chase[r] IN
    /\ \A s \in Stage : x.drafts[s] <= 1 + mishaps
    /\ \A s \in x.drafted : x.drafts[s] > 0
    /\ x.drafts["first"] > 0 => "request" \in x.drafted
    /\ x.drafts["second"] > 0 => "first" \in x.drafted
    /\ x.escalated => x.drafted = Stage
    /\ x.told > 0 => x.escalated
    /\ x.told <= 1

=============================================================================
