------------------------- MODULE RegulatoryCalendar -------------------------
(***************************************************************************)
(* The yearly duties of the firm's lawyers                                 *)
(* (compliance/regulatory-calendar.ts): certificates, trust audits,        *)
(* indemnity.  A duty lives on as a series of events: completing one       *)
(* inserts the next.  Nobody counts the series; if an event is missing,    *)
(* so are all that should have followed.                                   *)
(***************************************************************************)
EXTENDS Handlers, FiniteSets

CONSTANTS
  User,             \* admins and lawyers
  Duty,             \* what a lawyer must do every year
  SeedTemplates     \* SEED_TEMPLATES: the duties in the order they are seeded

ASSUME CalendarAssumption ==
  /\ SeedTemplates \in Seq(Duty)
  /\ \A i, j \in DOMAIN SeedTemplates : SeedTemplates[i] = SeedTemplates[j] => i = j
  /\ \A d \in Duty : \E i \in DOMAIN SeedTemplates : SeedTemplates[i] = d

VARIABLES
  events,      \* regulatory_calendar_events in the order they were inserted
  repeated     \* how often a completed event of a series was completed again

calendarVars == <<events, repeated>>

Series == User \X Duty
Event == [of : Series, year : Nat, done : BOOLEAN]

CalendarInit ==
  /\ events = << >>
  /\ repeated = [s \in Series |-> 0]

-----------------------------------------------------------------------------

(* createRegulatoryEvent.                                                  *)
NewEvent(s, year) == [of |-> s, year |-> year, done |-> FALSE]

HasEvents(u) == \E i \in DOMAIN events : events[i].of[1] = u

(* The first k duties of a lawyer.                                         *)
Seeded(u, k) == [i \in 1..k |-> NewEvent(<<u, SeedTemplates[i]>>, 0)]

(* Seeded fault: every start of the program seeds the duties.              *)
SeedAgain(u) ==
  /\ Leaves(u, << events \o Seeded(u, Len(SeedTemplates)) >>, events')
  /\ Len(events) < 2 * Len(SeedTemplates)
  /\ UNCHANGED <<edits, repeated>>

(* ensureSeededForAllLawyers, at each start of the program: a lawyer who   *)
(* has no event yet gets all of them, one by one.                          *)
EnsureSeeded(u) ==
  LET seeded == [k \in DOMAIN SeedTemplates |-> events \o Seeded(u, k)] IN
  /\ ~HasEvents(u)
  /\ \E k \in DOMAIN SeedTemplates : events' = seeded[k] /\ Leaves(u, seeded, seeded[k])
  /\ UNCHANGED <<edits, repeated>>

(* markEventComplete, on an event the calendar listed when the lawyer's    *)
(* page was made: it does not look whether the event is completed by now.  *)
MarkEventComplete(i) ==
  LET completed == [events EXCEPT ![i].done = TRUE]
      steps == << completed, Append(completed, NewEvent(events[i].of, events[i].year + 1)) >> IN
  /\ Request
  /\ \E n \in DOMAIN steps :
       /\ events' = steps[n]
       /\ Leaves(events[i].of, steps, steps[n])
  /\ repeated' = IF events[i].done THEN [repeated EXCEPT ![events[i].of] = @ + 1]
                 ELSE repeated

CalendarStep ==
  \/ \E u \in User : EnsureSeeded(u)
  \/ \E i \in DOMAIN events : MarkEventComplete(i)

-----------------------------------------------------------------------------

Open(s) == {i \in DOMAIN events : events[i].of = s /\ ~events[i].done}

(* A duty does not drop out of the calendar, and is not due twice: however *)
(* often the program starts and lawyers complete events, each series has   *)
(* one open event, unless seeding or completing it was cut short, and one  *)
(* more for each time a completed event was completed again                *)
(* (regulatory-calendar.ts:118-132, 195-205).                              *)
SeriesGoesOn ==
  \A s \in Series :
    /\ HasEvents(s[1]) /\ {s, s[1]} \cap hurt = {} => Open(s) # {}
    /\ Cardinality(Open(s)) <= 1 + repeated[s]

=============================================================================
