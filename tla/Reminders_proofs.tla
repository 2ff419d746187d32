-------------------------- MODULE Reminders_proofs --------------------------
(***************************************************************************)
(* Reminders are mailed again only for a cause, every mail is on record,   *)
(* and a deadline has one drafting task, for any number of deadlines,      *)
(* overlapping sweeps, snoozes, crashes and throwing statements.           *)
(***************************************************************************)
EXTENDS Reminders, TLAPS

-----------------------------------------------------------------------------

(* Where a sweep can be after it walked on from the deadline d: over, or   *)
(* mailing about a later deadline that wants its reminder.                 *)
Walked(s, D, d, dy) ==
  \/ Return(s) /\ (faults' = faults \/ faults' = faults + 1)
  \/ \E e \in D :
       e > d /\ Wants(e, dy) /\ Place(s, "mailing", e, D, dy) /\ faults' = faults

LEMMA WalkGoesForward ==
  ASSUME NEW s \in Sweep, NEW D \in SUBSET Deadline, NEW d, NEW dy, Walk(s, D, d, dy)
  PROVE  Walked(s, D, d, dy)
BY DEF Walk, Walked, Faulty

(* A row that may be missing although its mail is out.                     *)
LEMMA WantedIsNew ==
  ASSUME NEW e, NEW dy, Wants(e, dy), Taken(e, DaysLeft(e, dy))
  PROVE  <<e, DaysLeft(e, dy)>> \in dismissed
BY DEF Wants, HasReminderBeenSent

-----------------------------------------------------------------------------

(* The tables start empty and no sweep runs.                               *)
THEOREM InitHolds == Init => IInv
<1>1. SUFFICES ASSUME Init PROVE IInv
  OBVIOUS
<1>2. TypeOK
  BY <1>1 DEF Init, TypeOK
<1>3. SweepsAreConsistent /\ SweepsAreAlone
  BY <1>1 DEF Init, SweepsAreConsistent, SweepsAreAlone
<1>4. MailIsOnRecord /\ RepeatsHaveACause
  BY <1>1 DEF Init, MailIsOnRecord, RepeatsHaveACause
<1>5. MailingIsNew
  BY <1>1 DEF Init, MailingIsNew
<1>6. UnmarkedHasNoTask /\ OneTaskPerDeadline
  BY <1>1 DEF Init, UnmarkedHasNoTask, OneTaskPerDeadline
<1>7. QED
  BY <1>2, <1>3, <1>4, <1>5, <1>6 DEF IInv

-----------------------------------------------------------------------------
(* The overseer's half: only UpsertDeadline and OverseerTick touch it.     *)

Tasked ==
  /\ status \in [Deadline -> {"none", "open", "reminded"}]
  /\ tasks \in [Deadline -> Nat]
  /\ crashes \in Nat /\ faults \in Nat
  /\ UnmarkedHasNoTask
  /\ OneTaskPerDeadline

LEMMA TickKeepsTasked ==
  ASSUME Tasked, OverseerTick
  PROVE  Tasked'
<1>1. /\ status \in [Deadline -> {"none", "open", "reminded"}]
      /\ tasks \in [Deadline -> Nat]
      /\ crashes \in Nat /\ faults \in Nat
      /\ \A d \in Deadline :
           /\ status[d] \in {"none", "open"} => tasks[d] <= crashes + faults
           /\ status[d] = "reminded" => tasks[d] > 0
           /\ tasks[d] <= 1 + crashes + faults
  BY DEF Tasked, UnmarkedHasNoTask, OneTaskPerDeadline
<1>2. PICK begun \in SUBSET Deadline, done \in SUBSET Deadline :
        /\ done \subseteq begun
        /\ \A d \in begun : status[d] = "open"
        /\ EnqueueReminders(begun, done)
        /\ \/ begun = done /\ UNCHANGED <<crashes, faults>>
           \/ faults' = faults + 1 /\ UNCHANGED crashes
           \/ crashes' = crashes + 1 /\ UNCHANGED faults
  <2>1. PICK D \in SUBSET {d \in Deadline : status[d] = "open" /\ CloseToDue(d)} :
          \/ EnqueueReminders(D, D) /\ UNCHANGED <<process, faults>>
          \/ /\ \E done \in SUBSET D : \E e \in D \ done :
                  \E begun \in {done, done \cup {e}} : EnqueueReminders(begun, done)
             /\ \/ Faulty /\ UNCHANGED process
                \/ Die /\ UNCHANGED faults
    BY DEF OverseerTick
  <2>2. CASE EnqueueReminders(D, D) /\ UNCHANGED <<process, faults>>
    BY <2>1, <2>2 DEF process
  <2>3. CASE /\ \E done \in SUBSET D : \E e \in D \ done :
                  \E begun \in {done, done \cup {e}} : EnqueueReminders(begun, done)
             /\ \/ Faulty /\ UNCHANGED process
                \/ Die /\ UNCHANGED faults
    <3>1. PICK done \in SUBSET D, begun \in SUBSET D :
            done \subseteq begun /\ EnqueueReminders(begun, done)
      BY <2>3
    <3>2. \/ faults' = faults + 1 /\ UNCHANGED crashes
          \/ crashes' = crashes + 1 /\ UNCHANGED faults
      BY <2>3 DEF Faulty, Die, process
    <3>3. QED
      BY <2>1, <3>1, <3>2
  <2>4. QED
    BY <2>1, <2>2, <2>3
<1>3. /\ crashes' \in Nat /\ faults' \in Nat
      /\ crashes' + faults' >= crashes + faults
      /\ begun # done => crashes' + faults' = 1 + crashes + faults
  BY <1>1, <1>2
<1>4. /\ tasks' \in [Deadline -> Nat]
      /\ status' \in [Deadline -> {"none", "open", "reminded"}]
  BY <1>1, <1>2 DEF EnqueueReminders
<1>5. ASSUME NEW d \in Deadline
      PROVE  /\ status'[d] \in {"none", "open"} => tasks'[d] <= crashes' + faults'
             /\ status'[d] = "reminded" => tasks'[d] > 0
             /\ tasks'[d] <= 1 + crashes' + faults'
  <2>1. /\ tasks'[d] = tasks[d] + (IF d \in begun THEN 1 ELSE 0)
        /\ status'[d] = IF d \in done THEN "reminded" ELSE status[d]
    BY <1>2 DEF EnqueueReminders
  <2>2. tasks[d] \in Nat
    BY <1>1
  <2>3. CASE d \in done
    BY <1>1, <1>2, <1>3, <2>1, <2>2, <2>3
  <2>4. CASE d \in begun \ done
    BY <1>1, <1>2, <1>3, <2>1, <2>2, <2>4
  <2>5. CASE d \notin begun
    BY <1>1, <1>2, <1>3, <2>1, <2>2, <2>5
  <2>6. QED
    BY <2>3, <2>4, <2>5
<1>6. QED
  BY <1>3, <1>4, <1>5 DEF Tasked, UnmarkedHasNoTask, OneTaskPerDeadline

LEMMA MishapsKeepTasked ==
  ASSUME Tasked, UNCHANGED <<status, tasks>>,
         crashes' = crashes \/ crashes' = crashes + 1,
         faults' = faults \/ faults' = faults + 1
  PROVE  Tasked'
<1>1. /\ crashes' \in Nat /\ faults' \in Nat
      /\ crashes' + faults' >= crashes + faults
  BY DEF Tasked
<1>2. ASSUME NEW d \in Deadline
      PROVE  /\ status[d] \in {"none", "open"} => tasks[d] <= crashes' + faults'
             /\ tasks[d] <= 1 + crashes' + faults'
  BY <1>1 DEF Tasked, UnmarkedHasNoTask, OneTaskPerDeadline
<1>3. QED
  BY <1>1, <1>2 DEF Tasked, UnmarkedHasNoTask, OneTaskPerDeadline

LEMMA UpsertKeepsTasked ==
  ASSUME Tasked, NEW d \in Deadline, UpsertDeadline(d)
  PROVE  Tasked'
<1>1. /\ status[d] = "none"
      /\ status' = [status EXCEPT ![d] = "open"]
      /\ UNCHANGED <<tasks, crashes, faults>>
  BY DEF UpsertDeadline, process
<1>2. QED
  BY <1>1 DEF Tasked, UnmarkedHasNoTask, OneTaskPerDeadline

-----------------------------------------------------------------------------
(* The types of what the sweeps and the lawyer touch.                      *)

MailTypes ==
  /\ today \in Nat
  /\ sent \subseteq Deadline \X Int
  /\ snooze \in [Deadline -> Nat]
  /\ dismissed \subseteq Deadline \X Int
  /\ mailed \subseteq Deadline \X Int
  /\ again \subseteq mailed
  /\ pc \in [Sweep -> {"idle", "mailing", "answered"}]
  /\ at \in [Sweep -> Deadline \cup {0}]
  /\ snap \in [Sweep -> SUBSET Deadline]
  /\ day \in [Sweep -> Nat]
  /\ overlapped \in BOOLEAN /\ up \in BOOLEAN
  /\ crashes \in Nat /\ faults \in Nat
  /\ SweepsAreConsistent

(* A reminder is mailed only once its place is taken, by its own row or by *)
(* a snooze, or while a sweep holds it.                                    *)
OnRecord ==
  NoMishap =>
    \A p \in mailed : Taken(p[1], p[2]) \/ InFlight(p[1], p[2])

LEMMA SameRecord == MailTypes => (OnRecord <=> MailIsOnRecord)
<1>1. SUFFICES ASSUME MailTypes PROVE OnRecord <=> MailIsOnRecord
  OBVIOUS
<1>2. \A p \in mailed : p = <<p[1], p[2]>>
  BY <1>1 DEF MailTypes
<1>3. \A p \in mailed :
        Taken(p[1], p[2]) <=> p \in sent \/ SnoozeHoldsPlace(p[1], p[2])
  BY <1>2 DEF Taken, SnoozeHoldsPlace
<1>4. QED
  BY <1>3 DEF OnRecord, MailIsOnRecord

LEMMA SameRecordNext == MailTypes' => (OnRecord' <=> MailIsOnRecord')
<1>1. SUFFICES ASSUME MailTypes' PROVE OnRecord' <=> MailIsOnRecord'
  OBVIOUS
<1>2. \A p \in mailed' : p = <<p[1], p[2]>>
  BY <1>1 DEF MailTypes
<1>3. \A p \in mailed' :
        Taken(p[1], p[2])' <=> p \in sent' \/ SnoozeHoldsPlace(p[1], p[2])'
  BY <1>2 DEF Taken, SnoozeHoldsPlace
<1>4. QED
  BY <1>3 DEF OnRecord, MailIsOnRecord

(* The invariant is these four parts.                                      *)
Records == SweepsAreAlone /\ OnRecord /\ MailingIsNew /\ RepeatsHaveACause

LEMMA InvariantParts == IInv <=> Tasked /\ MailTypes /\ Records
BY SameRecord DEF IInv, TypeOK, Tasked, MailTypes, Records

LEMMA DueIsInt == \A d \in Deadline, dy \in Nat : DaysLeft(d, dy) \in Int
BY ReminderAssumption DEF DaysLeft

LEMMA DeadlinesArePositive == \A d \in Deadline : d \in Nat /\ d > 0
BY ReminderAssumption DEF Deadline

(* A sweep that walked on keeps its types.                                 *)
LEMMA WalkedKeepsTypes ==
  ASSUME MailTypes, NEW s \in Sweep, NEW D \in SUBSET Deadline, NEW d,
         NEW dy \in Nat, Walked(s, D, d, dy)
  PROVE  /\ pc' \in [Sweep -> {"idle", "mailing", "answered"}]
         /\ at' \in [Sweep -> Deadline \cup {0}]
         /\ snap' \in [Sweep -> SUBSET Deadline]
         /\ day' \in [Sweep -> Nat]
         /\ faults' \in Nat
         /\ \A u \in Sweep : pc'[u] # "idle" => at'[u] \in Deadline
<1>1. CASE Return(s) /\ (faults' = faults \/ faults' = faults + 1)
  BY <1>1 DEF MailTypes, SweepsAreConsistent, Return, Place
<1>2. ASSUME NEW e \in D, Place(s, "mailing", e, D, dy), faults' = faults
      PROVE  /\ pc' \in [Sweep -> {"idle", "mailing", "answered"}]
             /\ at' \in [Sweep -> Deadline \cup {0}]
             /\ snap' \in [Sweep -> SUBSET Deadline]
             /\ day' \in [Sweep -> Nat]
             /\ faults' \in Nat
             /\ \A u \in Sweep : pc'[u] # "idle" => at'[u] \in Deadline
  BY <1>2 DEF MailTypes, SweepsAreConsistent, Place
<1>3. QED
  BY <1>1, <1>2 DEF Walked

(* What Record does, with its outcomes told apart by what is written.      *)
LEMMA RecordOutcomes ==
  ASSUME MailTypes, NEW s \in Sweep, Record(s)
  PROVE  /\ Walked(s, snap[s], at[s], day[s])
         /\ \/ Taken(at[s], Reminder(s)[2]) /\ UNCHANGED sent
            \/ sent' = sent \cup {Reminder(s)}
            \/ UNCHANGED sent /\ faults' = faults + 1
<1>1. snap[s] \in SUBSET Deadline
  BY DEF MailTypes
<1>2. Walk(s, snap[s], at[s], day[s]) => Walked(s, snap[s], at[s], day[s])
  BY <1>1, WalkGoesForward
<1>3. Reminder(s) = <<at[s], DaysLeft(at[s], day[s])>>
  BY DEF Reminder
<1>4. QED
  BY <1>2, <1>3 DEF Record, Walked, Faulty

-----------------------------------------------------------------------------
(* Each step keeps the types.                                              *)

LEMMA StepKeepsTypes ==
  ASSUME MailTypes, Next
  PROVE  MailTypes'
<1> USE DEF MailTypes, SweepsAreConsistent
<1>1. CASE NextDay
  BY <1>1 DEF NextDay, reminders, post, sweeps, process
<1>2. ASSUME NEW d \in Deadline, UpsertDeadline(d) PROVE MailTypes'
  BY <1>2 DEF UpsertDeadline, reminders, post, sweeps, process
<1>3. ASSUME NEW d \in Deadline, SnoozeDeadline(d) PROVE MailTypes'
  <2>1. PICK n \in 1 .. MaxSnooze : snooze' = [snooze EXCEPT ![d] = today + n]
    BY <1>3 DEF SnoozeDeadline
  <2>2. today + n \in Nat
    BY <2>1, ReminderAssumption
  <2>3. snooze' \in [Deadline -> Nat]
    BY <2>1, <2>2
  <2>4. QED
    BY <1>3, <2>3 DEF SnoozeDeadline, post, sweeps, process
<1>4. ASSUME NEW d \in Deadline, DismissDeadline(d) PROVE MailTypes'
  <2>1. RowsOf(d) \subseteq Deadline \X Int
    BY DEF RowsOf
  <2>2. QED
    BY <1>4, <2>1 DEF DismissDeadline, post, sweeps, process
<1>5. CASE OverseerTick
  <2>1. \/ up' = TRUE /\ crashes' = crashes /\ (faults' = faults \/ faults' = faults + 1)
        \/ up' = FALSE /\ crashes' = crashes + 1 /\ faults' = faults
    BY <1>5 DEF OverseerTick, Faulty, Die, process
  <2>2. UNCHANGED <<today, reminders, post, sweeps>>
    BY <1>5, Zenon DEF OverseerTick
  <2>3. crashes \in Nat /\ faults \in Nat
    OBVIOUS
  <2>4. /\ crashes' \in Nat /\ faults' \in Nat
        /\ up' \in BOOLEAN
        /\ up' \/ crashes' > 0
    <3> HIDE DEF MailTypes
    <3>1. CASE up' = TRUE /\ crashes' = crashes /\ (faults' = faults \/ faults' = faults + 1)
      BY <2>3, <3>1
    <3>2. CASE up' = FALSE /\ crashes' = crashes + 1 /\ faults' = faults
      <4>1. crashes' \in Nat /\ crashes' > 0
        BY <2>3, <3>2
      <4>2. QED
        BY <2>3, <3>2, <4>1
    <3>3. QED
      BY <2>1, <3>1, <3>2
  <2>5. QED
    BY <2>2, <2>4 DEF reminders, post, sweeps
<1>6. ASSUME NEW s \in Sweep, StartSweep(s) PROVE MailTypes'
  <2>1. PICK D \in SUBSET Deadline : Walk(s, D, 0, today)
    BY <1>6 DEF StartSweep
  <2>2. Walked(s, D, 0, today)
    BY <2>1, WalkGoesForward
  <2>3. overlapped' \in BOOLEAN
    BY <1>6 DEF StartSweep
  <2>4. UNCHANGED <<today, status, tasks, reminders, post, process>>
    BY <1>6, Zenon DEF StartSweep
  <2>5. QED
    BY <2>2, <2>3, <2>4, WalkedKeepsTypes DEF reminders, post, process
<1>7. ASSUME NEW s \in Sweep, RelayAccepts(s) PROVE MailTypes'
  <2>1. Reminder(s) \in Deadline \X Int
    BY <1>7, DueIsInt DEF RelayAccepts, Reminder
  <2>2. QED
    BY <1>7, <2>1 DEF RelayAccepts, reminders, process
<1>8. ASSUME NEW s \in Sweep, RelayFails(s) PROVE MailTypes'
  BY <1>8 DEF RelayFails, reminders, post, process
<1>9. ASSUME NEW s \in Sweep, Record(s) PROVE MailTypes'
  <2>1. Walked(s, snap[s], at[s], day[s])
    BY <1>9, RecordOutcomes
  <2>2. Reminder(s) \in Deadline \X Int
    BY <1>9, DueIsInt DEF Record, Reminder
  <2>3. sent' \subseteq Deadline \X Int
    BY <1>9, <2>2, RecordOutcomes
  <2>4. UNCHANGED <<today, status, tasks, snooze, dismissed, post, overlapped, process>>
    BY <1>9, Zenon DEF Record
  <2>5. snap[s] \in SUBSET Deadline /\ day[s] \in Nat
    OBVIOUS
  <2>6. QED
    BY <2>1, <2>3, <2>4, <2>5, WalkedKeepsTypes DEF post, process
<1>10. CASE Crash
  <2>1. crashes' = crashes + 1 /\ up' = FALSE
    BY <1>10 DEF Crash, Die
  <2>2. crashes' \in Nat /\ crashes' > 0
    BY <2>1
  <2>3. QED
    BY <1>10, <2>1, <2>2 DEF Crash, reminders, post, sweeps
<1>11. CASE Restart
  BY <1>11 DEF Restart, reminders, post
<1>12. QED
  BY <1>1, <1>2, <1>3, <1>4, <1>5, <1>6, <1>7, <1>8, <1>9, <1>10, <1>11 DEF Next

LEMMA StepKeepsTasked ==
  ASSUME Tasked, MailTypes, Next
  PROVE  Tasked'
<1>1. ASSUME UNCHANGED <<status, tasks>>,
             crashes' = crashes \/ crashes' = crashes + 1,
             faults' = faults \/ faults' = faults + 1
      PROVE  Tasked'
  BY <1>1, MishapsKeepTasked
<1>2. ASSUME NEW d \in Deadline, SnoozeDeadline(d) \/ DismissDeadline(d) PROVE Tasked'
  BY <1>1, <1>2 DEF SnoozeDeadline, DismissDeadline, process
<1>3. ASSUME NEW s \in Sweep, RelayAccepts(s) \/ RelayFails(s) PROVE Tasked'
  BY <1>1, <1>3 DEF RelayAccepts, RelayFails, process
<1>4. ASSUME NEW s \in Sweep, StartSweep(s) PROVE Tasked'
  BY <1>1, <1>4 DEF StartSweep, Walk, Faulty, process
<1>5. ASSUME NEW s \in Sweep, Record(s) PROVE Tasked'
  <2>1. faults' = faults \/ faults' = faults + 1
    BY <1>5, RecordOutcomes DEF Walked
  <2>2. QED
    BY <1>1, <1>5, <2>1 DEF Record, process
<1>6. CASE NextDay
  BY <1>1, <1>6 DEF NextDay, process
<1>7. CASE Crash
  BY <1>1, <1>7 DEF Crash, Die
<1>8. CASE Restart
  BY <1>1, <1>8 DEF Restart
<1>9. QED
  BY <1>2, <1>3, <1>4, <1>5, <1>6, <1>7, <1>8, TickKeepsTasked, UpsertKeepsTasked DEF Next

-----------------------------------------------------------------------------
(* The sweeps' half.                                                       *)

(* Without a mishap after a step there was none before it.                 *)
LEMMA MishapsStay ==
  ASSUME MailTypes, Next, NoMishap'
  PROVE  NoMishap
<1>1. crashes \in Nat /\ faults \in Nat
  BY DEF MailTypes
<1>2. /\ crashes' = crashes \/ crashes' = crashes + 1
      /\ faults' = faults \/ faults' = faults + 1
  <2>1. ASSUME NEW s \in Sweep, Record(s) PROVE faults' = faults \/ faults' = faults + 1
    BY <2>1, RecordOutcomes DEF Walked
  <2>2. ASSUME NEW s \in Sweep, Record(s) PROVE crashes' = crashes
    BY <2>2 DEF Record, process
  <2>3. ASSUME NEW s \in Sweep, StartSweep(s) PROVE <1>2!1 /\ <1>2!2
    BY <2>3 DEF StartSweep, Walk, Faulty, process
  <2>4. CASE OverseerTick
    BY <2>4 DEF OverseerTick, Faulty, Die, process
  <2>5. ASSUME \/ NextDay \/ Crash \/ Restart
               \/ \E d \in Deadline : UpsertDeadline(d) \/ SnoozeDeadline(d) \/ DismissDeadline(d)
               \/ \E s \in Sweep : RelayAccepts(s) \/ RelayFails(s)
        PROVE  <1>2!1 /\ <1>2!2
    BY <2>5 DEF NextDay, Crash, Die, Restart, UpsertDeadline, SnoozeDeadline,
                DismissDeadline, RelayAccepts, RelayFails, process
  <2>6. QED
    BY <2>1, <2>2, <2>3, <2>4, <2>5 DEF Next
<1>3. QED
  BY <1>1, <1>2 DEF NoMishap

(* A step that moves no sweep and mails nothing keeps the records.         *)
LEMMA QuietKeepsRecords ==
  ASSUME MailTypes, Records, NoMishap' => NoMishap,
         UNCHANGED <<pc, at, day, mailed, again, overlapped, sent>>,
         dismissed \subseteq dismissed',
         \A d \in Deadline : snooze[d] # 0 => snooze'[d] # 0
  PROVE  Records'
<1>1. SweepsAreAlone'
  BY DEF Records, SweepsAreAlone
<1>2. OnRecord'
  <2>1. SUFFICES ASSUME NoMishap, NEW p \in mailed
                 PROVE  Taken(p[1], p[2])' \/ InFlight(p[1], p[2])'
    BY DEF OnRecord
  <2>2. p[1] \in Deadline
    BY DEF MailTypes
  <2>3. Taken(p[1], p[2]) => Taken(p[1], p[2])'
    BY <2>2 DEF Taken
  <2>4. InFlight(p[1], p[2]) => InFlight(p[1], p[2])'
    BY DEF InFlight, Reminder, DaysLeft
  <2>5. QED
    BY <2>1, <2>3, <2>4 DEF Records, OnRecord
<1>3. MailingIsNew'
  BY DEF Records, MailingIsNew, Reminder, DaysLeft
<1>4. RepeatsHaveACause'
  BY DEF Records, RepeatsHaveACause
<1>5. QED
  BY <1>1, <1>2, <1>3, <1>4 DEF Records

(* A sweep that walks on leaves the others where they are, and goes        *)
(* nowhere or to a later deadline that wants its reminder.                 *)
LEMMA WalkedMovesOne ==
  ASSUME MailTypes, NEW s \in Sweep, NEW D \in SUBSET Deadline, NEW d, NEW dy,
         Walked(s, D, d, dy)
  PROVE  /\ \A u \in Sweep \ {s} :
              pc'[u] = pc[u] /\ at'[u] = at[u] /\ day'[u] = day[u]
         /\ \/ pc'[s] = "idle"
            \/ \E e \in D : /\ e > d /\ Wants(e, dy)
                            /\ pc'[s] = "mailing" /\ at'[s] = e /\ day'[s] = dy
<1>1. CASE Return(s)
  BY <1>1 DEF MailTypes, Return, Place
<1>2. ASSUME NEW e \in D, e > d, Wants(e, dy), Place(s, "mailing", e, D, dy)
      PROVE  /\ \A u \in Sweep \ {s} :
                  pc'[u] = pc[u] /\ at'[u] = at[u] /\ day'[u] = day[u]
             /\ pc'[s] = "mailing" /\ at'[s] = e /\ day'[s] = dy
  BY <1>2 DEF MailTypes, Place
<1>3. QED
  BY <1>1, <1>2 DEF Walked

LEMMA StartKeepsRecords ==
  ASSUME MailTypes, Records, NoMishap' => NoMishap, NEW s \in Sweep, StartSweep(s)
  PROVE  Records'
<1>1. PICK D \in SUBSET Deadline : Walked(s, D, 0, today)
  BY WalkGoesForward DEF StartSweep
<1>2. /\ pc[s] = "idle"
      /\ overlapped' = (overlapped \/ \E u \in Sweep : pc[u] # "idle")
      /\ UNCHANGED <<sent, snooze, dismissed, mailed, again>>
  BY DEF StartSweep, reminders, post
<1>3. /\ \A u \in Sweep \ {s} :
           pc'[u] = pc[u] /\ at'[u] = at[u] /\ day'[u] = day[u]
      /\ \/ pc'[s] = "idle"
         \/ \E e \in D : /\ Wants(e, today)
                         /\ pc'[s] = "mailing" /\ at'[s] = e /\ day'[s] = today
  BY <1>1, WalkedMovesOne
<1>4. ~overlapped' => ~overlapped /\ \A u \in Sweep : pc[u] = "idle"
  BY <1>2
<1>5. SweepsAreAlone'
  BY <1>3, <1>4 DEF SweepsAreAlone
<1>6. OnRecord'
  <2>1. SUFFICES ASSUME NoMishap, NEW p \in mailed
                 PROVE  Taken(p[1], p[2])' \/ InFlight(p[1], p[2])'
    BY <1>2 DEF OnRecord
  <2>2. Taken(p[1], p[2]) => Taken(p[1], p[2])'
    BY <1>2 DEF Taken
  <2>3. ASSUME NEW u \in Sweep, pc[u] # "idle", Reminder(u) = <<p[1], p[2]>>
        PROVE  InFlight(p[1], p[2])'
    <3>1. u # s
      BY <1>2, <2>3
    <3>2. pc'[u] # "idle" /\ Reminder(u)' = Reminder(u)
      BY <1>3, <2>3, <3>1 DEF Reminder, DaysLeft
    <3>3. QED
      BY <2>3, <3>2 DEF InFlight
  <2>4. QED
    BY <2>1, <2>2, <2>3 DEF Records, OnRecord, InFlight
<1>7. MailingIsNew'
  <2>1. SUFFICES ASSUME ~overlapped', NoMishap, NEW u \in Sweep,
                        pc'[u] = "mailing", Reminder(u)' \in mailed
                 PROVE  Reminder(u)' \in dismissed
    BY <1>2 DEF MailingIsNew
  <2>2. u = s
    BY <1>3, <1>4, <2>1
  <2>3. PICK e \in D : Wants(e, today) /\ at'[s] = e /\ day'[s] = today
    BY <1>3, <2>1, <2>2
  <2>4. Reminder(u)' = <<e, DaysLeft(e, today)>>
    BY <2>2, <2>3 DEF Reminder, DaysLeft
  <2>5. Taken(e, DaysLeft(e, today))
    BY <1>4, <2>1, <2>4 DEF Records, OnRecord, InFlight
  <2>6. QED
    BY <2>3, <2>4, <2>5, WantedIsNew
<1>8. RepeatsHaveACause'
  BY <1>2, <1>4 DEF Records, RepeatsHaveACause
<1>9. QED
  BY <1>5, <1>6, <1>7, <1>8 DEF Records

LEMMA AnswerKeepsRecords ==
  ASSUME MailTypes, Records, NEW s \in Sweep, RelayAccepts(s) \/ RelayFails(s)
  PROVE  Records'
<1>1. /\ pc[s] = "mailing" /\ pc' = [pc EXCEPT ![s] = "answered"]
      /\ UNCHANGED <<at, day, overlapped, sent, snooze, dismissed, crashes, faults>>
      /\ \/ UNCHANGED <<mailed, again>>
         \/ /\ mailed' = mailed \cup {Reminder(s)}
            /\ again' = again \cup ({Reminder(s)} \cap mailed)
  BY DEF RelayAccepts, RelayFails, reminders, post, process
<1>2. /\ pc'[s] = "answered"
      /\ \A u \in Sweep \ {s} : pc'[u] = pc[u]
      /\ NoMishap' <=> NoMishap
  BY <1>1 DEF MailTypes, NoMishap
<1>3. \A u \in Sweep : Reminder(u)' = Reminder(u)
  BY <1>1 DEF Reminder, DaysLeft
<1>4. SweepsAreAlone'
  BY <1>1, <1>2 DEF Records, SweepsAreAlone
<1>5. OnRecord'
  <2>1. SUFFICES ASSUME NoMishap, NEW p \in mailed'
                 PROVE  Taken(p[1], p[2])' \/ InFlight(p[1], p[2])'
    BY <1>2 DEF OnRecord
  <2>2. CASE p = Reminder(s)
    BY <1>2, <1>3, <2>2 DEF InFlight, Reminder
  <2>3. CASE p \in mailed
    <3>1. Taken(p[1], p[2]) => Taken(p[1], p[2])'
      BY <1>1 DEF Taken
    <3>2. InFlight(p[1], p[2]) => InFlight(p[1], p[2])'
      BY <1>1, <1>2, <1>3 DEF InFlight
    <3>3. QED
      BY <2>1, <2>3, <3>1, <3>2 DEF Records, OnRecord
  <2>4. QED
    BY <1>1, <2>1, <2>2, <2>3
<1>6. MailingIsNew'
  <2>1. SUFFICES ASSUME ~overlapped, NoMishap, NEW u \in Sweep,
                        pc'[u] = "mailing"
                 PROVE  FALSE
    BY <1>1, <1>2 DEF MailingIsNew
  <2>2. u # s /\ pc[u] = "mailing"
    BY <1>2, <2>1
  <2>3. QED
    BY <1>1, <2>1, <2>2 DEF Records, SweepsAreAlone
<1>7. RepeatsHaveACause'
  BY <1>1, <1>2 DEF Records, RepeatsHaveACause, MailingIsNew
<1>8. QED
  BY <1>4, <1>5, <1>6, <1>7 DEF Records

LEMMA RecordKeepsRecords ==
  ASSUME MailTypes, Records, NoMishap' => NoMishap, NEW s \in Sweep, Record(s)
  PROVE  Records'
<1>1. /\ pc[s] = "answered"
      /\ UNCHANGED <<overlapped, snooze, dismissed, mailed, again>>
  BY DEF Record, post
<1>2. /\ \A u \in Sweep \ {s} :
           pc'[u] = pc[u] /\ at'[u] = at[u] /\ day'[u] = day[u]
      /\ \/ pc'[s] = "idle"
         \/ \E e \in snap[s] :
              /\ e > at[s] /\ Wants(e, day[s])
              /\ pc'[s] = "mailing" /\ at'[s] = e /\ day'[s] = day[s]
  <2>1. snap[s] \in SUBSET Deadline
    BY DEF MailTypes
  <2>2. Walked(s, snap[s], at[s], day[s])
    BY RecordOutcomes
  <2>3. QED
    BY <2>1, <2>2, WalkedMovesOne
<1>3. ASSUME NEW d, NEW k, Reminder(s) = <<d, k>>, NoMishap'
      PROVE  Taken(d, k)'
  <2>1. faults \in Nat /\ d = at[s] /\ k = Reminder(s)[2]
    BY <1>3 DEF MailTypes, Reminder
  <2>2. CASE Taken(at[s], Reminder(s)[2]) /\ UNCHANGED sent
    BY <1>1, <2>1, <2>2 DEF Taken
  <2>3. CASE sent' = sent \cup {Reminder(s)}
    BY <1>3, <2>3 DEF Taken
  <2>4. CASE faults' = faults + 1
    BY <1>3, <2>1, <2>4 DEF NoMishap
  <2>5. QED
    BY <2>2, <2>3, <2>4, RecordOutcomes
<1>4. sent \subseteq sent'
  BY RecordOutcomes
<1>5. SweepsAreAlone'
  BY <1>1, <1>2 DEF Records, SweepsAreAlone
<1>6. OnRecord'
  <2>1. SUFFICES ASSUME NoMishap', NEW p \in mailed
                 PROVE  Taken(p[1], p[2])' \/ InFlight(p[1], p[2])'
    BY <1>1 DEF OnRecord
  <2>2. Taken(p[1], p[2]) => Taken(p[1], p[2])'
    BY <1>1, <1>4 DEF Taken
  <2>3. ASSUME NEW u \in Sweep, pc[u] # "idle", Reminder(u) = <<p[1], p[2]>>
        PROVE  Taken(p[1], p[2])' \/ InFlight(p[1], p[2])'
    <3>1. CASE u = s
      BY <1>3, <2>1, <2>3, <3>1
    <3>2. CASE u # s
      <4>1. pc'[u] # "idle" /\ Reminder(u)' = Reminder(u)
        BY <1>2, <2>3, <3>2 DEF Reminder, DaysLeft
      <4>2. QED
        BY <2>3, <4>1 DEF InFlight
    <3>3. QED
      BY <3>1, <3>2
  <2>4. QED
    BY <2>1, <2>2, <2>3 DEF Records, OnRecord, InFlight
<1>7. MailingIsNew'
  <2>1. SUFFICES ASSUME ~overlapped, NoMishap, NEW u \in Sweep,
                        pc'[u] = "mailing", Reminder(u)' \in mailed
                 PROVE  Reminder(u)' \in dismissed
    BY <1>1 DEF MailingIsNew
  <2>2. \A v \in Sweep : pc[v] # "idle" => v = s
    BY <1>1, <2>1 DEF Records, SweepsAreAlone
  <2>3. u = s
    BY <1>2, <2>1, <2>2
  <2>4. PICK e \in snap[s] :
          e > at[s] /\ Wants(e, day[s]) /\ at'[s] = e /\ day'[s] = day[s]
    BY <1>2, <2>1, <2>3
  <2>5. Reminder(u)' = <<e, DaysLeft(e, day[s])>>
    BY <2>3, <2>4 DEF Reminder, DaysLeft
  <2>6. e # at[s]
    <3>1. e \in Int /\ at[s] \in Int
      BY DeadlinesArePositive DEF MailTypes
    <3>2. QED
      BY <2>4, <3>1
  <2>7. ~InFlight(e, DaysLeft(e, day[s]))
    BY <2>2, <2>6 DEF InFlight, Reminder
  <2>8. Taken(e, DaysLeft(e, day[s]))
    BY <2>1, <2>5, <2>7 DEF Records, OnRecord
  <2>9. QED
    BY <2>4, <2>5, <2>8, WantedIsNew
<1>8. RepeatsHaveACause'
  BY <1>1 DEF Records, RepeatsHaveACause
<1>9. QED
  BY <1>5, <1>6, <1>7, <1>8 DEF Records

-----------------------------------------------------------------------------

LEMMA StepKeepsRecords ==
  ASSUME MailTypes, Records, Next
  PROVE  Records'
<1>1. NoMishap' => NoMishap
  BY MishapsStay
<1>2. CASE NextDay
  BY <1>1, <1>2, QuietKeepsRecords DEF NextDay, reminders, post, sweeps
<1>3. ASSUME NEW d \in Deadline, UpsertDeadline(d) PROVE Records'
  BY <1>1, <1>3, QuietKeepsRecords DEF UpsertDeadline, reminders, post, sweeps
<1>4. ASSUME NEW d \in Deadline, SnoozeDeadline(d) PROVE Records'
  <2>1. PICK n \in 1 .. MaxSnooze : snooze' = [snooze EXCEPT ![d] = today + n]
    BY <1>4 DEF SnoozeDeadline
  <2>2. today + n # 0
    BY <2>1, ReminderAssumption DEF MailTypes
  <2>3. \A e \in Deadline : snooze[e] # 0 => snooze'[e] # 0
    BY <2>1, <2>2 DEF MailTypes
  <2>4. QED
    BY <1>1, <1>4, <2>3, QuietKeepsRecords DEF SnoozeDeadline, post, sweeps
<1>5. ASSUME NEW d \in Deadline, DismissDeadline(d) PROVE Records'
  BY <1>1, <1>5, QuietKeepsRecords DEF DismissDeadline, post, sweeps
<1>6. CASE OverseerTick
  <2>1. UNCHANGED <<today, reminders, post, sweeps>>
    BY <1>6, Zenon DEF OverseerTick
  <2>2. QED
    BY <1>1, <2>1, QuietKeepsRecords DEF reminders, post, sweeps
<1>7. ASSUME NEW s \in Sweep,
             StartSweep(s) \/ RelayAccepts(s) \/ RelayFails(s) \/ Record(s)
      PROVE  Records'
  BY <1>1, <1>7, StartKeepsRecords, AnswerKeepsRecords, RecordKeepsRecords
<1>8. CASE Crash
  BY <1>1, <1>8, QuietKeepsRecords DEF Crash, reminders, post, sweeps
<1>9. CASE Restart
  <2>1. crashes > 0 /\ UNCHANGED crashes
    BY <1>9 DEF Restart, MailTypes, SweepsAreConsistent
  <2>2. ~NoMishap' /\ crashes \in Nat
    BY <2>1 DEF NoMishap, MailTypes
  <2>3. SweepsAreAlone'
    BY <1>9 DEF Restart, SweepsAreAlone
  <2>4. QED
    BY <2>2, <2>3 DEF Records, OnRecord, MailingIsNew, RepeatsHaveACause
<1>10. QED
  BY <1>2, <1>3, <1>4, <1>5, <1>6, <1>7, <1>8, <1>9 DEF Next

LEMMA StutterKeepsInvariant ==
  ASSUME IInv, UNCHANGED vars
  PROVE  IInv'
<1>1. UNCHANGED <<today, status, tasks, sent, snooze, dismissed, mailed, again,
                  pc, at, snap, day, overlapped, up, crashes, faults>>
  BY DEF vars, reminders, post, sweeps, process
<1>2. Tasked'
  BY <1>1, InvariantParts DEF Tasked, UnmarkedHasNoTask, OneTaskPerDeadline
<1>3. MailTypes'
  BY <1>1, InvariantParts DEF MailTypes, SweepsAreConsistent
<1>4. Records'
  BY <1>1, InvariantParts, QuietKeepsRecords DEF NoMishap
<1>5. QED
  BY <1>2, <1>3, <1>4, SameRecordNext DEF IInv, TypeOK, Tasked, MailTypes, Records

LEMMA StepKeepsInvariant ==
  ASSUME IInv, Next
  PROVE  IInv'
<1>1. Tasked' /\ MailTypes' /\ Records'
  BY InvariantParts, StepKeepsTasked, StepKeepsTypes, StepKeepsRecords
<1>2. QED
  BY <1>1, SameRecordNext DEF IInv, TypeOK, Tasked, MailTypes, Records

-----------------------------------------------------------------------------

(* The inductive invariant holds in every reachable state.                 *)
THEOREM InvariantHolds == Spec => []IInv
<1>1. IInv /\ [Next]_vars => IInv'
  BY StepKeepsInvariant, StutterKeepsInvariant
<1>2. QED
  BY <1>1, InitHolds, PTL DEF Spec

(* Every table and every sweep keeps its type.                             *)
THEOREM TypeCorrect == Spec => []TypeOK
<1>1. IInv => TypeOK
  BY DEF IInv
<1>2. QED
  BY <1>1, InvariantHolds, PTL

(* Without overlapping sweeps, crashes and throws, only what the lawyer    *)
(* dismissed is mailed again.                                              *)
THEOREM NoCauselessRepeat == Spec => []RepeatsHaveACause
<1>1. IInv => RepeatsHaveACause
  BY DEF IInv
<1>2. QED
  BY <1>1, InvariantHolds, PTL

(* Without crashes and throws every mail has its row once its sweep has    *)
(* gone on, however sweeps overlap and whatever is snoozed and dismissed.  *)
THEOREM MailsAreOnRecord == Spec => []MailIsOnRecord
<1>1. IInv => MailIsOnRecord
  BY DEF IInv
<1>2. QED
  BY <1>1, InvariantHolds, PTL

(* Ticks make one drafting task per deadline, and at most one more per     *)
(* crash or throw.                                                         *)
THEOREM TasksAreNotRepeated == Spec => []OneTaskPerDeadline
<1>1. IInv => OneTaskPerDeadline
  BY DEF IInv
<1>2. QED
  BY <1>1, InvariantHolds, PTL

=============================================================================
