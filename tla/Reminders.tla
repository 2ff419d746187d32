----------------------------- MODULE Reminders -----------------------------
(***************************************************************************)
(* Deadlines (db/repositories/deadlines.ts), the two loops that act on     *)
(* them and the lawyer's buttons on the calendar:                          *)
(*   - the overseer loop (agent/overseer-loop.ts) creates one drafting     *)
(*     task per deadline that is close, and marks it reminded;             *)
(*   - the reminder sweep (reminders/dispatcher.ts), run by cron or by     *)
(*     hand, mails the responsible lawyer at fixed numbers of days before  *)
(*     the due date and every day after it, and records each mail in       *)
(*     deadline_reminders (reminders/repo.ts);                             *)
(*   - snooze and dismiss write the same table (dashboard/server.ts).      *)
(*                                                                         *)
(* A sweep reads the deadlines once and then awaits the relay once per     *)
(* reminder; everything between two awaits runs alone.  A day is the unit  *)
(* of time.                                                                *)
(***************************************************************************)
EXTENDS Integers, FiniteSets

CONSTANTS
  NDeadlines,    \* bound: how many deadlines are ever found
  Due,           \* their due days
  Offset,        \* REMINDER_OFFSETS: days before the due day
  Window,        \* REMINDER_WINDOW_DAYS of the overseer loop
  Sweep,         \* runs of runReminderSweep that may overlap
  LastDay,       \* bound: the last day of the model
  MaxSnooze,     \* bound: the longest snooze, in days
  MaxMishaps     \* bound: how often the process dies or a statement throws

Deadline == 1 .. NDeadlines    \* in the order of their rows

ASSUME ReminderAssumption ==
  /\ NDeadlines \in Nat
  /\ Due \in [Deadline -> Nat]
  /\ Offset \subseteq Nat \ {0}
  /\ Window \in Nat /\ LastDay \in Nat /\ MaxSnooze \in Nat
  /\ MaxMishaps \in Nat

VARIABLES
  today,
  status,      \* deadlines.status; "none" before the insert
  tasks,       \* how many drafting tasks the overseer made for each deadline
  sent,        \* the <<deadline, offset_days>> rows written by recordReminder
  snooze,      \* snoozed_until of the row snoozeDeadline wrote; 0: no row
  dismissed,   \* the <<deadline, offset_days>> rows with dismissed_at
  mailed,      \* the reminders the relay has accepted
  again,       \* the ones it has accepted more than once
  pc,          \* the await each sweep is at
  at,          \* the deadline it is mailing about; 0: none
  snap,        \* the deadlines it read when it started
  day,         \* the day it started
  overlapped,  \* did two sweeps ever run at the same time?
  up, crashes, faults

reminders == <<sent, snooze, dismissed>>
post == <<mailed, again>>
sweeps == <<pc, at, snap, day, overlapped>>
process == <<up, crashes>>
vars == <<today, status, tasks, reminders, post, sweeps, process, faults>>

TypeOK ==
  /\ today \in Nat
  /\ status \in [Deadline -> {"none", "open", "reminded"}]
  /\ tasks \in [Deadline -> Nat]
  /\ sent \subseteq Deadline \X Int
  /\ snooze \in [Deadline -> Nat]
  /\ dismissed \subseteq Deadline \X Int
  /\ mailed \subseteq Deadline \X Int
  /\ again \subseteq mailed
  /\ pc \in [Sweep -> {"idle", "mailing", "answered"}]
  /\ at \in [Sweep -> Deadline \cup {0}]
  /\ snap \in [Sweep -> SUBSET Deadline]
  /\ day \in [Sweep -> Nat]
  /\ overlapped \in BOOLEAN /\ up \in BOOLEAN
  /\ crashes \in Nat /\ faults \in Nat

Init ==
  /\ today = 0
  /\ status = [d \in Deadline |-> "none"]
  /\ tasks = [d \in Deadline |-> 0]
  /\ sent = {} /\ dismissed = {}
  /\ snooze = [d \in Deadline |-> 0]
  /\ mailed = {} /\ again = {}
  /\ pc = [s \in Sweep |-> "idle"]
  /\ at = [s \in Sweep |-> 0]
  /\ snap = [s \in Sweep |-> {}]
  /\ day = [s \in Sweep |-> 0]
  /\ overlapped = FALSE /\ up = TRUE
  /\ crashes = 0 /\ faults = 0

-----------------------------------------------------------------------------

Faulty == crashes + faults < MaxMishaps /\ faults' = faults + 1

Die ==
  /\ crashes + faults < MaxMishaps
  /\ crashes' = crashes + 1
  /\ up' = FALSE

NextDay ==
  /\ today < LastDay
  /\ today' = today + 1
  /\ UNCHANGED <<status, tasks, reminders, post, sweeps, process, faults>>

(* A skill or the document classifier finds a deadline.  Finding it again  *)
(* rewrites its texts and leaves its status alone.  Nothing calls          *)
(* resolveDeadline, so a deadline stays open or reminded for good.         *)
UpsertDeadline(d) ==
  /\ up
  /\ status[d] = "none"
  /\ \A e \in Deadline : e < d => status[e] # "none"
  /\ status' = [status EXCEPT ![d] = "open"]
  /\ UNCHANGED <<today, tasks, reminders, post, sweeps, process, faults>>

(* daysFromNow rounds to the nearest day: in the afternoon it is one less. *)
CloseToDue(d) ==
  \E rounding \in {0, 1} : Due[d] - today - rounding \in 0 .. Window

(* Tasks for the deadlines of D; the ones in done are marked reminded.     *)
EnqueueReminders(D, done) ==
  /\ tasks' = [d \in Deadline |-> tasks[d] + (IF d \in D THEN 1 ELSE 0)]
  /\ status' = [d \in Deadline |-> IF d \in done THEN "reminded" ELSE status[d]]

(* One tick over the open matters.  It runs to its end, or a statement     *)
(* throws, or the process dies: then the deadlines of done were finished   *)
(* and one more may have its task without being marked.                    *)
OverseerTick ==
  /\ up
  /\ \E D \in SUBSET {d \in Deadline : status[d] = "open" /\ CloseToDue(d)} :
       \/ EnqueueReminders(D, D) /\ UNCHANGED <<process, faults>>
       \/ /\ \E done \in SUBSET D : \E e \in D \ done :
               \E begun \in {done, done \cup {e}} : EnqueueReminders(begun, done)
          /\ \/ Faulty /\ UNCHANGED process
             \/ Die /\ UNCHANGED faults
  /\ UNCHANGED <<today, reminders, post, sweeps>>

-----------------------------------------------------------------------------

(* The unique index on (deadline_id, offset_days).  The snooze has its row *)
(* at offset -1, and so has the reminder of the first day overdue.         *)
Taken(d, k) == <<d, k>> \in sent \/ (k = -1 /\ snooze[d] # 0)

(* Seeded fault: the rows of overdue days are not looked at.               *)
SentAheadOfTime(d, k) == k > 0 /\ Taken(d, k) /\ <<d, k>> \notin dismissed

HasReminderBeenSent(d, k) == Taken(d, k) /\ <<d, k>> \notin dismissed

IsDeadlineSnoozed(d) == snooze[d] > today /\ <<d, -1>> \notin dismissed

DaysLeft(d, dy) == Due[d] - dy

PickOffset(d, dy) == DaysLeft(d, dy) \in Offset \/ DaysLeft(d, dy) < 0

Wants(d, dy) ==
  /\ PickOffset(d, dy)
  /\ ~IsDeadlineSnoozed(d)
  /\ ~HasReminderBeenSent(d, DaysLeft(d, dy))

Place(s, label, d, D, dy) ==
  /\ pc' = [pc EXCEPT ![s] = label]
  /\ at' = [at EXCEPT ![s] = d]
  /\ snap' = [snap EXCEPT ![s] = D]
  /\ day' = [day EXCEPT ![s] = dy]

(* The sweep is over: it came to its end or something threw.               *)
Return(s) == Place(s, "idle", 0, {}, 0)

(* The loop from the deadline after d on: to the next one that wants a     *)
(* reminder, or to the end, or a read throws.                              *)
Walk(s, D, d, dy) ==
  LET due == {e \in D : e > d /\ Wants(e, dy)} IN
  \/ due = {} /\ Return(s) /\ UNCHANGED faults
  \/ /\ \E e \in due :
          /\ \A f \in due : e <= f
          /\ Place(s, "mailing", e, D, dy)
     /\ UNCHANGED faults
  \/ Return(s) /\ Faulty

StartSweep(s) ==
  /\ up
  /\ pc[s] = "idle"
  /\ overlapped' = (overlapped \/ \E u \in Sweep : pc[u] # "idle")
  /\ Walk(s, {d \in Deadline : status[d] \in {"open", "reminded"}}, 0, today)
  /\ UNCHANGED <<today, status, tasks, reminders, post, process>>

Reminder(s) == <<at[s], DaysLeft(at[s], day[s])>>

(* The relay, outside the process.                                         *)
RelayAccepts(s) ==
  /\ pc[s] = "mailing"
  /\ pc' = [pc EXCEPT ![s] = "answered"]
  /\ mailed' = mailed \cup {Reminder(s)}
  /\ again' = again \cup ({Reminder(s)} \cap mailed)
  /\ UNCHANGED <<today, status, tasks, reminders, at, snap, day, overlapped, process, faults>>

(* sendEmail swallows the failure, sendNotification drops its result: the  *)
(* sweep goes on as if the mail were out.                                  *)
RelayFails(s) ==
  /\ pc[s] = "mailing"
  /\ pc' = [pc EXCEPT ![s] = "answered"]
  /\ UNCHANGED <<today, status, tasks, reminders, post, at, snap, day, overlapped, process, faults>>

(* Seeded fault: a reminder snoozed while its mail was out is not recorded *)
(* any more.                                                               *)
RecordUnlessSnoozed(s) ==
  /\ up
  /\ pc[s] = "answered"
  /\ sent' = IF IsDeadlineSnoozed(at[s]) THEN sent ELSE sent \cup {Reminder(s)}
  /\ Walk(s, snap[s], at[s], day[s])
  /\ UNCHANGED <<today, status, tasks, snooze, dismissed, post, overlapped, process>>

(* recordReminder inserts the row; or it throws on the unique index, where *)
(* an overlapping sweep has put this reminder's row or the snooze has its  *)
(* own, and nothing is written, in which last case the mail that has left  *)
(* has no row; or it throws for another reason; the audit row may throw    *)
(* after it.  Whatever throws ends the sweep.                              *)
Record(s) ==
  /\ up
  /\ pc[s] = "answered"
  /\ LET d == at[s]  k == DaysLeft(at[s], day[s]) IN
       \/ /\ ~Taken(d, k)
          /\ sent' = sent \cup {<<d, k>>}
          /\ \/ Walk(s, snap[s], d, day[s])
             \/ Return(s) /\ Faulty
       \/ Taken(d, k) /\ Return(s) /\ UNCHANGED <<sent, faults>>
       \/ Return(s) /\ Faulty /\ UNCHANGED sent
  /\ UNCHANGED <<today, status, tasks, snooze, dismissed, post, overlapped, process>>

-----------------------------------------------------------------------------

(* The form takes 1 to 30 days; the insert throws when the row at offset   *)
(* -1 is there already.                                                    *)
SnoozeDeadline(d) ==
  /\ up
  /\ status[d] # "none"
  /\ ~Taken(d, -1)
  /\ \E n \in 1 .. MaxSnooze : snooze' = [snooze EXCEPT ![d] = today + n]
  /\ UNCHANGED <<today, status, tasks, sent, dismissed, post, sweeps, process, faults>>

RowsOf(d) ==
  {p \in sent : p[1] = d} \cup (IF snooze[d] # 0 THEN {<<d, -1>>} ELSE {})

DismissDeadline(d) ==
  /\ up
  /\ dismissed' = dismissed \cup RowsOf(d)
  /\ UNCHANGED <<today, status, tasks, sent, snooze, post, sweeps, process, faults>>

Crash ==
  /\ up
  /\ Die
  /\ UNCHANGED <<today, status, tasks, reminders, post, sweeps, faults>>

Restart ==
  /\ ~up
  /\ up' = TRUE
  /\ pc' = [s \in Sweep |-> "idle"]
  /\ at' = [s \in Sweep |-> 0]
  /\ snap' = [s \in Sweep |-> {}]
  /\ day' = [s \in Sweep |-> 0]
  /\ UNCHANGED <<today, status, tasks, reminders, post, overlapped, crashes, faults>>

Next ==
  \/ NextDay
  \/ \E d \in Deadline :
       \/ UpsertDeadline(d) \/ SnoozeDeadline(d) \/ DismissDeadline(d)
  \/ OverseerTick
  \/ \E s \in Sweep :
       StartSweep(s) \/ RelayAccepts(s) \/ RelayFails(s) \/ Record(s)
  \/ Crash \/ Restart

Spec == Init /\ [][Next]_vars

-----------------------------------------------------------------------------

NoMishap == crashes = 0 /\ faults = 0

(* A reminder whose mail is under way.                                     *)
InFlight(d, k) == \E s \in Sweep : pc[s] # "idle" /\ Reminder(s) = <<d, k>>

(* What is left of "we never double-send" (reminders/repo.ts:4-7): a       *)
(* reminder is mailed again only if its row was dismissed, or sweeps ran   *)
(* at the same time, or a crash or a throw kept its row from being         *)
(* written.                                                                *)
RepeatsHaveACause ==
  ~overlapped /\ NoMishap => again \subseteq dismissed

(* Every mail has a row of its own once its sweep has gone on, whatever    *)
(* the lawyer snoozed and dismissed meanwhile, unless a crash or a throw   *)
(* kept it from being written, with one exception that the code does have: *)
(* the mail of the first day overdue has none when the deadline was        *)
(* snoozed, for the snooze is kept in that day's place (reminders/         *)
(* repo.ts:90) and the insert throws (dispatcher.ts:132).                  *)
SnoozeHoldsPlace(d, k) == k = -1 /\ snooze[d] # 0

MailIsOnRecord ==
  NoMishap =>
    \A p \in mailed :
      p \in sent \/ InFlight(p[1], p[2]) \/ SnoozeHoldsPlace(p[1], p[2])

(* overseer-loop.ts:11-12: a deadline marked reminded has its drafting     *)
(* task, and ticks do not make another one; only a crash or a throw after  *)
(* the insert lets the next tick repeat it, once each.                     *)
OneTaskPerDeadline ==
  \A d \in Deadline :
    /\ status[d] = "reminded" => tasks[d] > 0
    /\ tasks[d] <= 1 + crashes + faults

-----------------------------------------------------------------------------

(* The strengthening that makes RepeatsHaveACause inductive: sweeps that   *)
(* do not overlap run one at a time, and the one under way mails again     *)
(* only what was dismissed.                                                *)
SweepsAreAlone ==
  ~overlapped =>
    \A s, u \in Sweep : pc[s] # "idle" /\ pc[u] # "idle" => s = u

MailingIsNew ==
  ~overlapped /\ NoMishap =>
    \A s \in Sweep :
      pc[s] = "mailing" /\ Reminder(s) \in mailed => Reminder(s) \in dismissed

(* The strengthening that makes OneTaskPerDeadline inductive: what may     *)
(* still be taken up has a task only because of a mishap.                  *)
UnmarkedHasNoTask ==
  \A d \in Deadline :
    status[d] \in {"none", "open"} => tasks[d] <= crashes + faults

SweepsAreConsistent ==
  /\ \A s \in Sweep : pc[s] # "idle" => at[s] \in Deadline
  /\ up \/ crashes > 0

IInv ==
  /\ TypeOK
  /\ SweepsAreConsistent
  /\ SweepsAreAlone
  /\ MailIsOnRecord
  /\ MailingIsNew
  /\ RepeatsHaveACause
  /\ UnmarkedHasNoTask
  /\ OneTaskPerDeadline

=============================================================================
