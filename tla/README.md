# Legal Overseer: a TLA+ model of its protocols and rules

Legal Overseer is a back office for a small law firm. Skills driven by language
models draft letters, memos and briefs; lawyers decide what leaves the firm;
timers remind, chase and take in mail; a dashboard keeps the firm's records. The
program is one Node.js process, with a few command line scripts beside it, over
one SQLite file and a directory of documents.

Three facts about that architecture shape every model here:

- **A handler runs alone until it awaits.** SQLite is called synchronously, so
  nothing interleaves between two statements of one process. At an `await` (mail
  relay, language model, mail server, the body of a request) everything else may
  run: timers do not wait for their last call, the dashboard serves requests.
- **Scripts are processes of their own** on the same file: there, two statements
  can interleave.
- **Every statement commits by itself.** Of the functions modelled here only the
  one that picks the next task (tasks.ts:88) opens a transaction. So a crash, or
  a statement that throws, may fall between any two writes of a handler, to
  tables or to files.

Accordingly an action is the code between two awaits, with every statement in
it; where a crash or a throw can cut it short, that is a disjunct of the same
action, which stops after each possible number of writes.

## 1. Inventory

What each part keeps, does, and what makes it correct. `PROJECT.json` has the
same list with source files, and the line of every hazard.

### Modelled, whole or in part

| Part | State | Operations | Hard about it | Correct when |
|---|---|---|---|---|
| Review gate `compliance/reviewGate.ts` | `review_queue`, the log's verdicts | enqueue, approve, reject, mark sent, assert approved | verdict and log entry are two commits; many deciders | a verdict is final, on record, and nothing ships without one |
| Supervision `matters/supervision.ts` | `matter_supervision`, `secondary_reviews` | switch, junior approves, partner approves, edits, rejects | writes its own table before it asks the gate | a partner has seen what a supervised junior approved |
| Outbound email, SMS `communication/` | `outbound_emails`, `sms_messages`, opt-outs | queue, send, STOP, status callbacks | status and opt-out are read before the await; answers lost; callbacks late, twice, reordered | only approved texts ship; rows tell the truth; after a STOP nothing new leaves to the number as Twilio writes it |
| Tasks and processor `agent/processor.ts` | `tasks` | create, pick up, classify, run, wrap | calls overlap; the compliance wrap comes after completion | one call per task, one review per output, none lost in silence |
| Kill switches, limiter, anomalies `governance/` | switches, a 5 s cache, windows, recent actions, in memory | stop, enable, ask, count | fixed windows, results laid to the wrong action, all lost at a restart | no skill starts after a stop; every hour is bounded |
| Trust scores `db/repositories/trustScores.ts` | `trust_scores` | count, rate, anomaly | borders of levels | counters and level agree |
| Overseer loop, reminders, deadlines `reminders/` | `deadlines`, `deadline_reminders` | tick, sweep, snooze, dismiss | the sweep keeps what it read across awaits; the row comes after the mail | each reminder goes out once and is on record, but for the one whose place a snooze holds; one task per deadline |
| Client questionnaire `intake/client-questionnaire/` | sessions, answers, briefs | start, answer, classify, alert, finish, follow up | nothing locks a session; four commits at its end; a sweep in another process | one matter per enquiry; close deadlines alerted; every session ends |
| Question sets and briefs (same directory) | the answers | order of questions, urgency rules, limitation periods, forums | two tables of deadlines that must agree; questions found by name | interview and brief say the same of the same answers |
| Inbox, licence, matter numbers `inbox-monitor/`, `legal-intake/`, `licence/` | `processed_emails`, `matters`, `\Seen` | poll, route, take in, reply, record, flag | limit and number are read before the classifier | no mail lost or handled twice; the licence's limit holds |
| Conflict checks, onboarding, e-signatures `compliance/conflicts.ts`, `onboarding/`, `documents/esignature.ts` | checks, onboardings, letters, envelopes, signers | check, resolve, onboard, approve, sign, decline | many doors for a client; two tables per signature; handlers cut off | never letters for two clients of like names; envelopes say what signers did |
| Audit hash chain, trust account `compliance/audit.ts`, `trust-reconciliation.ts` | `legal_audit_log`, `trust_transactions`, reports | append, verify, import, reconcile, sign off | last hash and insert are two statements of several processes; borders of periods | breaks have a cause; in a chain that verifies each row vouches for those before it; reports add up |
| Records of the dashboard: documents, knowledge, templates, negotiations, duties, chasing, backups, precedents | files and rows with their versions | save, overwrite, roll back, compare, complete, chase, archive, prune, offer | several writes, cut short after any; an await in the middle; torn files | nothing overwritten is lost; the latest is in force; series go on; archives can be restored |
| Accounts `users/`, `auth/`, `onboarding/server.ts` | users, sessions | set up, log in, change role, suspend | rights are read when a request arrives, used when its body is there | lost powers end |
| Studies of a matter `intelligence/` | strategies, predictions, comparisons, `strategy.md` | ask, decide, show | several await a model at once; two places decide | versions, reviews and files keep apart |
| Figures: redline, limitation, scores, estimates, intake rules | none: functions | compute | ties, ends of months, borders, percentages | redline loses nothing, warnings are not taken back |
| File reviews, AML screening, budgets `compliance/`, `matters/budgeting.ts` | schedules, screenings, budgets | schedule, review, screen, decide, set | an awaited list that may fail; thresholds | neglect is listed, matches are decided, overruns show |
| LEAP and Clio `integrations/` | `matters`, sent marks, SYNC_KEY | pull, push | overlapping syncs, lost answers, look-ups that fail, people at work at the partner | no copies and no omissions without a cause |
| Client portal, share links, briefs to counsel | grants, visibility, links, briefs | grant, show, hide, link, upload, brief, revoke | a request names matter and document apart; access asked before the upload | nobody is shown what was not shared |

### Not modelled

| Part | Why not |
|---|---|
| Invoices, ageing, payment chasing, receipts | invoices can never be drafted: the generator writes `client_invoice_sequence` (invoice-generator.ts:57) where migration 015 has `invoice_sequence` (:1041), so the rest has no rows to work on |
| Circuit breaker | no code creates one |
| Governance audit, decision traces, other compliance records, referrals, surveys, notes, chat, groups | one statement per request, read by nothing that decides |
| Briefings, analytics, profitability | read-only aggregation and prompts |
| Skills, document generation, Xero, DocuSign, Teams, Zapier, Outlook | prompts and clients of outside services: a choice of outcomes behind an await; most of their events have no caller |
| Pages, migrations, scripts, installers, branding, update check | HTML, schema and wrappers; a unique index appears as a guard of the inserts it can refuse, a route as a caller of what it calls |

## 2. Modules

```
GatedRelease                       what the firm is promised
   ^ implements          ^ implements
OutboundMail           SmsChannel
   |   Supervision        |
   |     ReviewGate  -----+         (EXTENDS, upwards)

TaskProcessor   Governor   Reminders   IntakeSessions   InboxMonitor

Onboarding -> Signatures           TrustLedger -> AuditChain

Office   -> Versions Negotiations RegulatoryCalendar
            DocumentChasing TrustScores Backups Precedents      -> Handlers
Practice -> Accounts Studies Compliance Exchange -> Handlers
            Questionnaires -> Figures          Sharing
```

Gate, supervision and mail act on one row and are one specification; so are gate
and SMS, onboarding and signatures, chain and trust account. The others meet
through inserts that the receiver takes in any state (a task created, a review
queued, a session started), so each has the other side as an action or a counter
of rows: `CreateTask` in TaskProcessor, `tasks` in Reminders, `reviews` and
`matters` in IntakeSessions, `made` in InboxMonitor. The parts of `Office` and of
`Practice` share the process: requests, and handlers cut short, are counted in
common (`Handlers`).

- **GatedRelease**: items are submitted, decided once, and released only when
  granted. The abstract specification of both channels.
- **ReviewGate, Supervision, OutboundMail**: `status`, `reviewer`, `body` are the
  row, `ledger` its entries in the log. Each handler writes the row and then
  `Log`s, unless the process dies between. The supervisor's calls write the
  secondary row first and then `ThenDecide`. A `Sender` is one call of
  `sendOutboundEmail`; `shipped` counts what the relay took, which the program
  does not know. `Lapse` is a call whose UPDATEs both threw, the one after the
  answer and the one of the catch block: it leaves its row as it was.
- **SmsChannel**: `AskTwilio` is `sendSms` up to the await, after the row, the
  opt-out and the gate were read; `texts` is what became of each text Twilio
  took; `Callback` finds a row by its `sid`. A `Phone` is a number as it is
  written, less blanks and brackets; `E164` is how Twilio writes the same line.
- **TaskProcessor**: a `Worker` is one call of `processNextTask`; `pc` is its
  await. `SkillReturns` goes on with the wrap statement by statement; `killed`
  and `cache` are the switches.
- **Governor**: `window` is the limiter's fixed window of a skill, `recent` the
  detector's list. `admitted` is a history of what was let through.
- **Reminders**: `sent`, `snooze`, `dismissed` are the kinds of rows in
  `deadline_reminders`. A `Sweep` reads once, `Walk`s to the next deadline that
  `Wants` a reminder, awaits the relay, `Record`s. A row that is `Taken`, the
  snooze among them, makes the insert throw and ends the sweep.
- **IntakeSessions**: a `Caller` is one call of `submitAnswer`. `Conclude` is
  `generateBrief` with matter, review, brief, completion, each of which may be
  the last. The sweep holds `snap` and decides on it with `FollowUp`.
- **InboxMonitor**: a `Poller` is a process; `at` is its await. `used` holds the
  numbers of each year; `OtherMatter`, `CloseMatter` and `NewYear` are the rest
  of the firm.
- **Onboarding, Signatures**: a `Case` is a matter with the person it is for, who
  comes by one of three doors. `Find` is the conflict check; `shelved` remembers
  what was ever out of its sight. An envelope and its signers are two tables.
- **AuditChain, TrustLedger**: an append is `GetLastHash` and then the insert; a
  `Writer` is a process. A hash is a number, and `hashed` says what it was
  computed from, by the program or by somebody else: `Tamper` changes a row,
  removes one, puts one back that once stood there, or writes one of its own with
  a hash that fits, over a row or between two. Imports record rows one by one,
  each with its entry on the chain.
- **The parts of Office**: each is one record with its files, versions and index.
  A handler passes through a sequence of states and `Leaves` the record in the
  last, or, cut short, in an earlier one (`hurt`).
- **The parts of Practice**: Accounts has requests in two steps, let in and
  acting; Studies has a handler around an await; Figures are functions, and a step
  asks for one value; Questionnaires is one interview, a step opens it or answers
  the next question, and brief and rules are functions of the answers; an amount
  (`Claim`) is what the client means and what detectKeyValue reads in it; Compliance
  has a clock; Exchange has
  partners, syncs and the record of what was lost; Sharing has people outside
  and what they were shown.

MC modules hold definitions that a `.cfg` cannot. The `_proofs` modules extend
the components they are about, and where they are about two (`Agent_proofs`:
TaskProcessor and Governor; `Clients_proofs`: SmsChannel and Onboarding;
`Office_proofs`: Office, TrustLedger and AuditChain) the second specification
has names of its own: `GovernorSpec`, `OnboardingSpec`, `LedgerSpec`.
Definitions named like an action with words added (`BeginSendUngated`,
`SeedAgain`, `SendAlways`) are the same code with a plausible mistake;
`PROJECT.json` pairs each property with one that violates it. They are no part
of any specification.

## 3. Runs

| Run | Question | Bounds |
|---|---|---|
| `mail` | Do verdict, log and secondary queue agree? Does what ships have an approval, and how often can it ship, under supervision, overlapping sends, lost answers, failing bookkeeping and a crash? Does it implement GatedRelease? Does a send settle? | 1 review, 2 senders, 2 lawyers, 2 bodies, 1 crash, throws in each call, 1 of them in the catch block too |
| `sms` | Does a STOP hold against texts in flight; do callbacks in any order mark the right row; does the channel keep the promise? | 1 message to 1 line written in 2 ways, 2 senders, 3 texts, 2 lawyers, 1 crash, statements that may throw |
| `tasks` | Are tasks drafted twice, lost without cause, left unwrapped in silence, or left waiting? | 2 tasks (1 billable), 2 calls, 1 crash, 1 stop, 2 throwing statements |
| `governor` | How much work does a stretch of an hour let through? | 2 calls, 5 tasks of 2 skills with limits 1 and 2, an hour of 2 moments over 3, 1 stop |
| `reminders` | When can a reminder repeat, and which mails are not on record? | 2 deadlines (due days 0 and 2), 2 sweeps, days 0 and 1, offsets 1 and 2, a snooze, 1 crash or throw |
| `intake` | One matter per enquiry? Close deadlines alerted? Does every session end? | 1 session, 2 calls, 2 types of 2 questions, days 0 to 2, 1 crash or throw |
| `inbox` | Is a mail made something of once, and always seen in the end? Does the licence's limit hold? | a letter and an enquiry, 2 pollers, limit 1, numbers to 2, 1 import, 1 new year, 1 crash or throw |
| `onboarding` | Are letters ever drafted for two clients that resemble each other? Do envelopes say what their signers did? | 2 cases, 3 words, names that contain others as a word or within one, 1 envelope, 2 signers, 1 handler cut off |
| `trust` | Does the chain break only for a cause, what does one that verifies vouch for, and do reports add up? | 2 processes, 4 hashes, 2 changes by other means, 2 transactions on 2 days, 2 imports, 2 reports |
| `office` | Is anything overwritten lost, the latest in force, drafts a chain, duties due once, clients chased once, archives kept, precedents approved and found? | one record of each kind, 5 requests, 2 handlers cut short; limits of pruning, chasing and months cut to 1 to 3 |
| `practice` | Do lost powers end, strategies keep apart, figures hold, interviews and briefs agree, warnings stay, neglect, matches and exceeded budgets show, partners get no copies, outsiders see only what was shared? | 5 requests, 1 handler cut short; 3 people, 3 studies, texts of up to 4 lines with a limit of 3, 2 partners and syncs, 1 client beside 2 matters, 2 briefs, 4 amounts in figures or not |
| `supervision_bypassed` | Violation: see below | 1 review, 2 lawyers, no crash |

`supervision_bypassed` looks for, and finds, a violation of
`SupervisedNeedsPartner`: dashboard/server.ts:483 approves a supervised item
directly, while supervision.ts:4-6 promises the partner's queue for any item a
junior approved.

**Why these bounds show something.** Every race here needs two calls and one
await, so two senders, workers, sweeps, callers, pollers and syncs show it, and
a third brings no new kind of overlap. One crash or throw shows every torn
handler once; where the error path itself writes (tasks) or a handler repairs
what another left (office) there are two. Two rows appear where rows compete
(the oldest task, the deadlines of one sweep, two mails of one poll, two clients
of one name) and one row where nothing relates rows to each other. Clocks run as
long as it takes for the last timer to fire: remind and then abandon a session,
escalate a request, prune a month, let a link expire. Figures are asked around
every border their code has: the ends of months, leap days, and each threshold
with its neighbours (`MCPassed`, `MCSum`); the limits 100, 20 and 10 of the
governor are scaled down so that they are reached.

**One part at a time.** The parts of Office and of Practice share no variable but
those of `Handlers`, and every property is about one part. Their MC modules
choose a part at the start (`part`) and follow it, with all of the requests and
mishaps for it: the behaviours of each part are all there, their product is not.
`Init`, `Next` and `Spec` of Office and Practice are the whole composition, and the
theorems are about `Spec`: that the parts leave each other alone is proved, not
assumed. `trust` chooses likewise between the account, with a log nobody touches,
and the log, with one report whose rows are appended while somebody changes it.

Deadlock is checked except where the model really ends: `intake` and `inbox`
(the last day has passed, every mail is seen, all bounds are used up), `governor`,
`office` and `practice` (requests and time are used up). `reminders` uses
symmetry over sweeps and checks no liveness.

### What the properties say

*Gate, supervision, mail.* `LedgerIsTruthful` (no log entry contradicts its row,
with crashes); `NoOrphanedSecondary` (when the supervisor is done, the item is);
`ResendsAreBounded` (what the status check is worth: one shipment per
overlapping call and per life of the process, and one more for each call whose
UPDATEs all threw); `ImplementsPromise`; `SendSettles` (with the same exception).

*SMS.* `StopIsKept` (after a STOP, at most the texts in flight, to the number as
Twilio writes it; a line written otherwise is not held back, section 7);
`DeliveredIsTrue` (a row takes no other text's fate for its own);
`TextsKeepPromise`.

*Tasks, governor.* `DraftedAtMostOnce` (and no bill without its review);
`OrphansHaveACause`; `OutputIsWrappedOrLoud` (one throw never hides an output
from both queue and log); `EveryTaskSettles`; `RateIsBounded` (any stretch of an
hour, not only the limiter's own, holds less than twice the points).

*Reminders.* `RepeatsHaveACause` (a repeat takes overlapping sweeps, a dismissal
or a mishap); `MailIsOnRecord` (every mail has its row once its sweep has gone on,
but for that of the first overdue day of a snoozed deadline, whose insert throws).

*Intake, inbox.* `OneMatterPerSession`; `AlertedUnlessFlagged`;
`EverySessionSettles`; `MadeOnce`; `CapIsKept` (the limit is asked before the
classifier is awaited, and what holds it is the number drawn with it: only the
turn of a year lets one more in); `EveryMailIsSeen`.

*Onboarding.* `OneSideIsEngaged` (whatever the order of doors, checks, overrides
and mishaps, only the archive hides from the check a client of a like name;
opponents, which no caller gives the check, are not what it is about);
`EnvelopeTellsItsSigners`.

*Trust.* `BreaksHaveACause` and `EachRowVouches` (what a chain that breaks, and
one that verifies, proves: not that the log is whole, since its end can be cut off
or hashed anew, but that what precedes a row of the program is what its writer
read, if that verified then); `ReportsAddUp` (of periods that do not end before the
day before they begin: the route takes any two dates, and a report of a period
that ends earlier says nothing).

*Office.* `OverwrittenIsPreserved` and `LatestIsInForce` (with torn writes, and
repaired by the next handler that ends); `DraftsFormAChain` (numbers without a
gap, each compared with the one before, although uploads overlap);
`SeriesGoesOn`; `ChasedOnce` (each stage once, and once more per torn handler;
the lawyer mailed at most once, and only after both reminders);
`ArchivesAreKept` (pruning keeps the latest and the months).

*Practice.* `LostPowersEnd`; `StrategiesAreInOrder`; `RedlineIsFaithful` (against
every way of laying the two texts side by side); `WarningsCanBeReliedOn` (deadlines
against the calendar, scores that never improve because things got worse,
neglect listed, matches decided, an overrun shown until the budget is set anew
or credited, and never of a budget with more than half a percent left);
`BriefsCanBeReliedOn` (the interview's rules against the brief's; and of two
clients alike but for an amount, written in figures, who claims more is not sent
to a lower court);
`CopiesHaveACause` (a lost answer, overlapping posts, a look-up that failed),
`NothingIsMissedSilently` (of partners; a matter that was sent
comes back under the partner's prefix, so what was sent is no exception);
`ShownWasShared`.

A property with a cause in it (`overlapped`, `NoMishap`, `crashes`, `hurt`) is
both a promise and a description: it names what it takes to break the plain
statement, and nothing else does.

## 4. Fairness

Stated only where a liveness property needs it, and only of what the program or
its environment does by itself:

- `OutboundMail`: a send in flight gets its answer or an error (nodemailer has
  timeouts), its continuation runs to an end, be it one that leaves no trace, and
  the service manager restarts a dead process. Nobody must queue, approve or send.
- `TaskProcessor`: the interval picks up pending work; classifier, alert and
  skill return or throw; a scheduled exit and a restart happen. Nobody must
  create, stop or enable.
- `IntakeSessions`: days pass, cron starts the follow-up sweep, and the sweep
  goes on. Nothing is assumed of clients, models or calls: a session must end
  even if all of them fall silent.
- `InboxMonitor`: each poller's tick goes on to its next step. It assumes that
  every await of the mail server and the models ends, in success or in error.

Everything is weak fairness: an action that stays enabled is taken. The records
of Office and Practice change only when a lawyer asks, so nothing there must
happen and no liveness is claimed.

## 5. Proofs

TLAPS checks the theorems of eight modules. For each component the proof has the
same shape: `Init => IInv`; one lemma per action or group of actions for
`IInv /\ [Next]_vars => IInv'`; the invariant by PTL; the properties as
consequences of it. TLC checked each inductive invariant on the component's run
before it was proved.

A theorem holds for every value of the constants that meets the named
assumptions of the module. These say only what the code gives: types; that the
"none" values (`NoMatter`, `Wizard`, `Nobody`, `NoStudy` and the like) are none
of the real ones; that browsers, syncs and studies are finitely many; the
governor's order of thresholds; `CalendarAssumption`, that the seeded duties are
each listed once, as `SEED_TEMPLATES` has them; `FiguresAssumption` and
`QuestionnairesAssumption`, that periods start on days of the calendar and
clients name such days; `RecordsAssumption` and `PracticeAssumption`, that the
records of different tables, which share only the set `hurt`, are told apart;
`ExchangeAssumption`, that a number given here is none a partner gives (the code
compares them with the partner's prefix only), that there is a partner and that
syncs are finitely many.

**OutboundMail** (`GateAssumption`, `SupervisionAssumption`, `MailAssumption`).
That what ships was approved is not inductive: the relay accepts long after the
gate was asked. `InFlightIsGranted` says that a call past the gate still holds a
granted review, which rests on verdicts being final. `SendsAreCounted` bounds
shipments by the calls that could still dial, the lives of the process and the
calls that lapsed, a count over sets (FiniteSetTheorems); `SecondaryHasReview`
ties the supervisor's row to its item. From these: `TypeCorrect`,
`NothingShipsUnapproved`, `SentIsTrue`, `VerdictsAreFinal`, `LogTellsTheTruth`,
`SupervisedItemsClose`, `ResendsAreFew`, and `PromiseIsKept`: every step of
every handler is a step of GatedRelease or a stutter.

**SmsChannel**, in `Clients_proofs` (`GateAssumption`, `SmsAssumption`).
`LateIsCounted` keeps the texts that went out after a STOP and the calls still
asking Twilio together under the number of calls, for each number as Twilio
writes it; `SidIsItsText` says that a row names a text of its own. From these:
`TypeCorrect`, `StopHolds`, `DeliveriesAreTrue`, and `TextsAreGranted`, the
refinement of GatedRelease by the second channel.

**TaskProcessor**, in `Agent_proofs` (`TaskAssumption`). `UnsettledIsBlank` says
that a task that can still be run has produced nothing, which makes
`DraftedAtMostOnce` inductive; `WorkersAreConsistent` ties await and job
together; `CacheIsTrue` says a cached answer is never staler than the last stop
or enable, because both clear it; `DownHasACause` that only a crash or a stop
takes calls away. From these: `TypeCorrect`, `CallsDoNotShare`,
`NothingIsDraftedTwice`, `StopStopsNewSkills`, `NobodyLosesATaskUnprovoked`,
`CompletedIsWrappedOrLoud`.

**Governor**, in `Agent_proofs` (`GovernorAssumption`). A fixed window bounds
its own hour; any other stretch overlaps two windows. `WindowIsFull` says that
the window's points are the latest tasks and that the first of them opened it;
`OlderTasks` that of those before it, fewer than the limit are younger than an
hour before it opened. From these: `GovernorTypes`, `HoursAreBounded`.

**Reminders** (`ReminderAssumption`). `SweepsAreAlone` and `MailingIsNew` say
that without overlaps the sweep under way mails again only what was dismissed;
`UnmarkedHasNoTask` counts the tasks of an open deadline by the mishaps. From
these: `TypeCorrect`, `NoCauselessRepeat`, `MailsAreOnRecord`,
`TasksAreNotRepeated`.

**IntakeSessions** (`IntakeAssumption`). `DraftersAreAlone` and
`UnbriefedHasNoMatter` carry `OneMatterPerSession` over the drafting await,
`UnnudgedWasNotReminded` carries `NudgedOnce` over the relay's, `FlagHasACause`
says why a session was called urgent. From these: `TypeCorrect`,
`EnquiriesBecomeOneMatter`, `CompletionsAreBriefed`, `RemindersAreSingle`,
`CloseDeadlinesAreAlerted`.

**InboxMonitor** (`InboxAssumption`). `CapIsKept` counts, and the strengthening
counts more: an unused number that a poller holds (`Pending`) is a matter to
come. `CapCountsHeld` keeps open matters and held numbers together under the
limit; it needs `HeldNumbersAreFew`, that at most one held number per import or
new year differs from the next one to draw, so that pollers which all hold the
next number count once. From these: `TypeCorrect`, `MailsAreMadeOnce`,
`SeenMailsAreHandled`, `LicenceIsKept`, for any number of mails and of pollers.

**Onboarding**, in `Clients_proofs` (`SignatureAssumption`, `OnboardingAssumption`).
`OneSideIsEngaged` needs `EngagedIsInSight`: a case whose letter was drafted has
a matter that later checks see, unless it was in the archive. `TellAll` says of
each envelope what its signers make of it, and that nobody is asked to sign one
that is not there. From these: `OnboardingTypes`, `OneSideOnly`,
`EnvelopesTellTheTruth`, for any names, any words and any containment of one
name in another, and any number of clients and signers.

**AuditChain**, in `Office_proofs` (`ChainAssumption`, `LedgerAssumption`), for the
specification of the ledger, in which the trust account and any other processes
append. `Untouched` is the property with what makes it inductive: a process about
to insert holds the hash of the last row. It needs `OneAtATime`, that without
overlaps one process reads at a time. `EachRowVouches` must also survive rows
that are changed, removed, put back or forged. `HashesSpeak` says that an unaltered
row is what its hash was computed from, in the log and in all that writers ever
read of it, and that a writer names the last row it read. Then two logs that
verify and end with the same hash are the same (`SameEndSameLog`: counted from the
end, there is no least distance at which they differ, and neither is longer, since
its next row would have to name none), and the theorem compares what precedes a row
with what its writer read. From these: `ChainIsKept`,
`BreaksHaveACauseHolds`, `EachRowVouchesHolds`.

**TrustLedger**, in `Office_proofs`. `ReportsAreSums` says that a report is the
sum of what was recorded when it was drawn (`held`), before it and within it; a
few lemmas on sums over finite sets (disjoint unions, equal terms) make that the
bank's balance. The proof showed that the property is false, for clocks of three
days or more, of periods that end long before they begin; it is now stated of
the others. From these: `LedgerIsKept`, `LedgerTypeOKHolds`,
`ReportsAddUpHolds`.

**Office**, in `Office_proofs` (the parts' assumptions and `RecordsAssumption`).
Every part has an invariant of its own and `OfficeInv` is their conjunction. A
handler marks only records of its part as hurt (`HurtsOnly`) and none as mended
that it did not write, which is why the others keep theirs (`OthersStay`). A
handler that is cut short may leave its record in any state of its sequence, so
each part has a notion of a sound record, which every step of the sequence is,
and of a settled one, which the last is: `DocumentSound` and `DocumentSettled`,
`EntrySettled`, `TemplateSettled`, `ChaseSound`. `Preserves` makes
`OverwrittenIsPreserved` a fact on any two neighbours of such a sequence.
`DraftsFormAChain` rests on `Follows`: what a call compared before the await is
still in its place, for drafts are only added, and only at the end.
`SeriesGoesOn` counts the open events of a series over a sequence of rows; for
`ArchivesAreKept` the invariant says of every run what pruning has left of it,
and the newest of a finite set of runs exists. From these: `OfficeIsKept`,
`OfficeTypeOKHolds`, `LatestIsInForceHolds`, `OverwrittenIsPreservedHolds`,
`DraftsFormAChainHolds`, `SeriesGoesOnHolds`, `ChasedOnceHolds`,
`ArchivesAreKeptHolds`.

**Practice**, in `Practice_proofs` (the parts' assumptions and
`PracticeAssumption`). `PracticeInv` is the conjunction of seven invariants, one
per part.

- *Accounts.* `LostPowersEnd` is a bound on acts after the fact. `AccessInv` counts
  forward: acts that were late and requests that are still let in, together, are
  no more than the requests in flight when the power was lost. Ending a request
  takes one from the count (`RequestsEnd`, `SomebodyActs`); none can be let in
  again without a role.
- *Studies.* `AdviceInv` says that no two strategies have the same version, which
  rests on `NextVersionIsNew`: the next version is greater than all because a
  finite set of numbers has a greatest (`GreatestExists`, by a well-founded order
  on subsets). A row that is cut short is written in the order review, row, file.
- *Compliance.* `WatchInv` adds the due month of each schedule; what shows of a
  budget needs facts on the rounding of a quotient (`QuotientAtLeast`,
  `BudgetIsRounded`).
- *Figures.* Each step asks for one figure, so `FiguresInv` needs no strengthening,
  only facts on what is computed. `MonthsRunOver`: adding months ends on the day of
  the same number or at most three days after the last of its month, because all
  days of a month follow the same day (`DaysAddUp`). `WorseIsNotLess`: the sum
  behind a risk score rises with each of its parts. `ShareFalls`: one half of a
  payment less in time, of one half more owed, is no greater share, also when
  both are rounded (`RoundRises`, `RoundAtLeast`).
- *Redline*, of any two texts and any limit. The table of diffLines and the walk
  back through it are recursive functions; that they have the value their
  definition says is a fact (`RecursionHasAValue`, for a function that calls itself
  only on what comes before), and what holds of all cells follows by a least
  counterexample on their rank (`ByRank`). Each cell bounds every alignment of its
  two prefixes (`TableBounds`: take the last pair away), and the walk leaves as many
  lines unmarked as its cell says, no line lost (`WalkTells`, `DiffIsFaithful`).
- *Questionnaires.* The question sets are data, so the proof has a table of
  facts for each (`Sound`: what kind of answer each question takes, which
  question starts a clock, what a rule reads; `FollowsBrief`: the period of its
  one clock is the brief's or ends before it), checked against the set's entries
  and collected in `SetsAreSound`; nothing else opens the sets. `InterviewInv`
  says of an interview that whoever has answered a question was asked it, with
  the conditions met, and gave one of its answers (`AsAsked`); a condition that
  is met stays so, since answers are only added. The sets share no rule for
  family property, which has two clocks: there the invariant adds that the
  separation was asked about before the divorce, for the next question is the
  first that is open (`FamilyDoesAgree`). `DeadlinesDoAgree` then compares days
  of the calendar with `PeriodsEnd` and `LongerEndsLater`. The two disagreements
  left out are those of `KnownToDisagree`, which section 7 names.
  `QuestionnairesAssumption` says that what clients name are dates, days and
  amounts. By `ForumsDoRise` an amount in figures is what a claim is worth if it
  is read at all, and a larger one is then in its place.
- *Exchange.* `CopiesAreAccounted` counts a partner's records of a number together
  with the posts under way that may still become records; a stop or a lost
  answer moves one from the second count to the history, and a post after a failed
  look-up is in the history from its start. `AnswersArePulled` says
  of a sync what it has in hand, by which `NothingIsMissedSilently` is kept when
  SYNC_KEY moves. The proof never used the property's exception for matters sent
  from here; it was dropped, and the stronger statement is the one that is now
  checked and proved.
- *Sharing.* `ShareInv` ties what is visible, linked or being uploaded to the
  histories of what was shared, whatever is withdrawn in between.

From these: `PracticeIsKept`, `PracticeTypes`, `LostPowersEndHolds`,
`StrategiesAreInOrderHolds`, `RedlineIsFaithfulHolds`,
`BriefsCanBeReliedOnHolds`, `WarningsCanBeReliedOnHolds`,
`CopiesHaveACauseHolds`, `NothingIsMissedSilentlyHolds`, `ShownWasSharedHolds`.
`late`, `inFlight`, `excused`, `repeats` and the other variables marked
(history) record what happened and are read by no guard.

**Types.** Each specification states one type invariant, and each is a theorem.
For Practice that takes, besides `PracticeInv`, one fact on every handler:
`Counts`, that it counts its request and its mishap and hurts no records but its
own.

**Only model-checked.** Liveness (`SendSettles`, `EveryTaskSettles`,
`EverySessionSettles`, `EveryMailIsSeen`): fairness and ENABLED are out of the
prover's reach. Everything else the passing runs check, every safety invariant and
every action property, is a theorem. No module declares a RECURSIVE operator.

## 6. Abstractions

Texts, addresses, prompts and layouts are left out; a body is a model value that
carries the disclaimer or not. Time is a day, an hour or a month where those
matter, and an interleaving elsewhere. Further:

- Mail, texts: a statement after the answer may throw, and so may the UPDATE of the
  catch block; of mail, `MaxLapses` bounds how often it does. The read at the end
  of the call changes nothing and is left out.
- Tasks: created in the order of their ids; in TaskProcessor the detector's
  answer is a choice (Governor has its rules), and the update of the trust score
  may throw.
- Intake: in IntakeSessions a question set is `NQuestions` required questions and
  the clock an answer starts is a choice of days left; Questionnaires has the
  fifteen sets with their real questions, conditions and rules, one interview at
  a time. The lawyer's address is configured. One follow-up sweep runs at a time.
- Inbox: one inbox connection is one await per mail; the licence is present with
  a limit, and only the inbox's own gate is asked. Import, API, onboarding and
  the connectors make matters without asking (`OtherMatter`).
- Onboarding: a name is its longer words and the names it contains; names,
  opponents and mail domains of a case do not change (PATCH may change them and
  starts no check); the score that orders matches is left out.
- SMS: a phone number is one of the ways to write a line.
- Chain: sha256 has no collisions; who changes the table can compute it, too.
  Trust: amounts are whole cents.
- Office: a file is whole, torn or missing; encryption and the remote copy of a
  backup may fail as one step each.
- Studies: one matter and one document. Compliance: time in thirties of days,
  one client, one budget. Exchange: a record is its number. Sharing: one kind of
  document.
- Functions: amounts are whole numbers or halves counted in halves; the clock is
  the server's and has no daylight saving.
- Two models share no variables unless they are one specification: a task that
  InboxMonitor makes is not followed into TaskProcessor.

## 7. Observations without a run

Met while modelling. No run asserts the contrary; those of modelled code are in
the models, as the code has them.

**Gate, mail, tasks.**
- Two overlapping sends of one email ship it twice (outbound-email.ts:194); a
  crash after the relay accepted leaves the row queued, to be sent again, and so
  does an UPDATE of the catch block that throws (:251-253); a lost answer leaves
  it failed although the email is out. The email ships its own copy of the text
  (:184): an edit after queueing does not reach it.
- The supervisor's verdict is written although the gate then refuses
  (supervision.ts:179), and `supervisorEdit` rewrites an approved body (:159).
- A crash between `markCompleted` and the wrap (processor.ts:186) leaves an
  output outside the review queue for ever. A throw after the wrap (:290) marks a
  completed task failed. index.ts:295 speaks of 25 seconds to finish and exits
  after 1.5.
- `trust_scores` has a foreign key to `agents`, foreign keys are on
  (connection.ts:49), and no code inserts the agent: `updateTrustMetrics`
  (processor.ts:239) throws for every task, so a finished task ends as failed
  after its output was queued. `recordAnomaly` fails likewise.
- `recordActionResult` marks the oldest action of the type, failures that throw
  are invisible to the detector, and a block of high-risk skills after failures
  ends only with a lower-risk action or a restart. Autonomy never exceeds level 3,
  and nothing reads it.

**Reminders, intake, inbox.**
- repo.ts:4-7 says "we never double-send"; overlapping sweeps do. A mail the
  relay refused is recorded as sent (dispatcher.ts:132, notifier.ts:200). A
  dismissed reminder is mailed again, and the insert then throws and ends the
  sweep. The snooze shares offset -1 with the first overdue day (repo.ts:90):
  the mail of that day gets no row when the deadline was snoozed while it was with
  the relay, or was snoozed and dismissed before, and the sweep ends there. A
  deadline marked `reminded` leaves `listUpcoming`; no reminder goes out on the
  due day.
- The flag of an early dated answer suppresses the alert of a close one later
  (intake-agent.ts:293 against :8). The sweep writes `abandoned` over a session
  completed since its snapshot; idle time counts from `started_at`. A late
  classification replaces the type under answers already stored. When the
  questionnaire throws, the old matter intake runs as well.
- A mail whose pipeline failed is never retried although router.ts:13-16 says it
  stays unread for that (router.ts:58). Matter numbers sort as strings: after
  9999 in a year none can be made (matters.ts:90).
- will-and-estate counts 12 months in every state, the brief 6 or 9 or 3 in some
  (will-and-estate.ts:107, limitation-periods.ts:56); for family property the
  brief counts from the separation, the rule from the divorce; a state written in
  full by mail disables the cooling-off flag; a settlement date that has passed is
  "not imminent"; a claim of unknown value goes to the intermediate court;
  "1.2 million" is read as 1.2 and "between 50 and 100" as 50100
  (context-builder.ts:63);
  "Wagga" is Western Australia. Months overflow: 31 August and six months is
  3 March (date-utils.ts:47-58).

**Clients and signatures.**
- A STOP is kept under the number as Twilio reports it, +61412..., and looked up
  under the number as the lawyer wrote it: texts to 0412... go on (sms.ts:66,
  against :5-8). No check compares a new matter's opponent with the clients there
  are: no caller passes it.
- The auto-reply goes out despite a pending conflict check
  (legal-intake/index.ts:402, conflicts.ts:21). Brief generator, bulk import,
  API, LEAP and Clio create matters without a check; a matter out of the archive
  is not checked again; a name of short words alone matches nothing. Bulk import
  tells duplicates by number only.
- `approveEngagementLetter` ignores the review's verdict, and an onboarding
  completes from any stage (client-onboarding.ts:201-293). A signed signer may
  still decline. `notifySignatureComplete`, `cancelOnboarding`,
  `sendDocuSignEnvelope` and `sendSms` have no callers.

**Accounts and routes.**
- All routes of feature-routes.ts lie behind the session check
  (server.ts:318-331), so those meant for people without an account (/sign,
  /survey, /external-portal, /calendar-feed, /sso, the SMS webhook, REST keys) need
  a lawyer's session.
- Single sign-on sets the cookie `sid`, sessions are read from `lo_session`; its
  users skip the user limit. No guard keeps a last admin. A set-up form that
  arrives after completion still makes an admin. A trial licence is issued anew at
  each load. Share links survive unsharing; sharing under another matter's path
  replaces the row. `revokeClientMatter` has no route.

**Records.**
- Built-in templates are restored at each start (templates/index.ts:32-38 against
  :5-7). Of two overlapping uploads of a draft the loser is neither recorded nor
  billed. Seeding of duties that was cut short is never completed; an overdue duty
  vanishes from the list, so its series ends; local midnights become UTC dates.
  Chasing runs from a button only, and no request is ever completed; an
  escalation is marked before its mail, which is not sent without the lawyer's
  address and whose failure is swallowed (document-chasing.ts:231-238), so that the
  lawyer may never hear of it. A rollback
  leaves text and size of a document stale. Backups of /data include
  /data/backups; "30 daily" keeps the 30 newest files.
- A redline compares the first 5,000 lines of each text and says nothing of the
  rest. redline.ts:48-49 leaves it to the caller to "chunk by section"; the one
  caller (feature-routes.ts:578-588) passes what it was sent.
- A precedent's default type is the review's `output_kind` (server.ts:533), while
  the drafting skill asks by document type; only the search page rebuilds the
  index. `deactivateKnowledgeEntry`, `setNegotiationStatus`, `replaceDocumentBytes`
  and others that feature-routes.ts:1364-1382 mentions as `void` have no callers.
- A fork of the audit chain by two processes breaks its verification for ever. The
  hash takes no key: a log whose rows were cut off, or hashed anew, from some place
  to its end verifies (audit.ts:7-9 says tampering can be detected). A
  statement imported twice counts twice; day-first dates compare as text.
  dictation/server.ts:175, decisionTraces.ts:198 and agent/tools.ts:49 name
  columns that are not there.
- A strategy decided in the queue stays a draft; strategy.md holds the last
  approved while readers take the highest version; a new classification discards
  the lawyer's correction. 'wills' has no baseline and is estimated as
  unclassified.
- `dispatchReviewReminders`, `dispatchBudgetAlerts`,
  `assertCostsDisclosurePassed`, `dispatchRegulatoryReminders`, `runAlertCheck`
  and `emitWebhookEvent` have no callers, so no budget ever warns anybody.
  Review schedules are made only at a start or a completion. The AML page lists
  the flagged without a form to decide them; seed lists are empty and a lookup
  that failed counts as clear (aml.ts:48-92).
- SYNC_KEY advances after a failed pull and past records that changed during it. A
  pushed matter that changes at the partner comes back as a second row under its
  prefix (against leap/index.ts:22-27), and with two partners rows echo between
  them. A look-up of the sent mark that throws counts as not sent, and the matter is
  posted again (leap/index.ts:69-71, 151).

## 8. Plan

Done: every protocol with an await, a second process or a repair after a crash;
the rules a lawyer relies on; inductive proofs of every component with state, so
that each safety property of the runs is a theorem.

Next, in this order:

1. file-review.ts:130, as a liveness property: a matter opened later is watched
   in the end, which holds only if the program is started again.
2. InboxMonitor with TaskProcessor as one specification, so that a mail is
   followed to its reviewed answer.
3. Invoices, once their sequence table exists.
