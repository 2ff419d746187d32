---------------------------- MODULE InboxMonitor ----------------------------
(***************************************************************************)
(* The inbox monitor (inbox-monitor, legal-intake): pollers read the       *)
(* unread mails of the firm's inboxes one by one, make a task of a letter  *)
(* and an intake session or a matter of an enquiry, acknowledge the mail,  *)
(* put it on record in processed_emails and mark it \Seen.                 *)
(*                                                                         *)
(* A poller is a process: the service, whose ticks never overlap, or       *)
(* scripts/inbox-monitor.ts beside it.  Within a poller the steps follow   *)
(* each other; two pollers, and whoever else makes matters, interleave at  *)
(* every await.                                                            *)
(***************************************************************************)
EXTENDS Integers, FiniteSetsExt

CONSTANTS
  Mail, Poller,
  Letter,       \* the mails to the client, court and internal inboxes
  NoMail,
  MaxMatters,   \* the licence's limit of open matters
  TopNumber,    \* the last matter number with four digits (9999)
  MaxOthers,    \* bound: how many matters are made outside the inbox
  MaxYear,      \* bound: how often a new year begins
  MaxMishaps    \* bound: how often a process dies or something throws

ASSUME InboxAssumption ==
  /\ Letter \subseteq Mail
  /\ NoMail \notin Mail
  /\ MaxMatters \in Nat /\ TopNumber \in Nat \ {0}
  /\ MaxOthers \in Nat /\ MaxYear \in Nat /\ MaxMishaps \in Nat

VARIABLES
  unseen, seen,    \* the mails delivered, without and with \Seen
  row,             \* processed_emails.status; "none" without a row
  made,            \* the tasks, sessions and matters each mail has led to
  replies,         \* how many acknowledgements went out for each mail
  open, others,    \* open matters, and how many were made outside the inbox
  year, used,      \* the year, and the matter numbers of every year
  at, mail, queue, \* where each poller is, its mail, and the mails to come
  number,          \* the matter number it holds, <<year, number>>
  outcome,         \* did its pipeline succeed?
  overlapped,      \* were two pollers ever at work on one mail?
  mishaps

inbox == <<unseen, seen>>
records == <<row, made, replies>>
register == <<open, others, year, used>>
pollers == <<at, mail, queue, number, outcome>>
vars == <<inbox, records, register, pollers, overlapped, mishaps>>

NoNumber == <<0, 0>>

(* The awaits of a poller; "ready" for the next mail or, without one, for  *)
(* the next tick.                                                          *)
Place == {"ready", "interviewing", "classifying", "replying", "flagging"}

TypeOK ==
  /\ unseen \subseteq Mail /\ seen \subseteq Mail
  /\ row \in [Mail -> {"none", "routed", "failed"}]
  /\ made \in [Mail -> Nat]
  /\ replies \in [Mail -> Nat]
  /\ open \in Nat /\ others \in Nat /\ year \in Nat
  /\ used \in [0 .. MaxYear -> SUBSET (1 .. TopNumber + 1)]
  /\ at \in [Poller -> Place]
  /\ mail \in [Poller -> Mail \cup {NoMail}]
  /\ queue \in [Poller -> SUBSET Mail]
  /\ number \in [Poller -> (0 .. MaxYear) \X Nat]
  /\ outcome \in [Poller -> BOOLEAN]
  /\ overlapped \in BOOLEAN
  /\ mishaps \in Nat

Init ==
  /\ unseen = {} /\ seen = {}
  /\ row = [m \in Mail |-> "none"]
  /\ made = [m \in Mail |-> 0]
  /\ replies = [m \in Mail |-> 0]
  /\ open = 0 /\ others = 0 /\ year = 0
  /\ used = [y \in 0 .. MaxYear |-> {}]
  /\ at = [p \in Poller |-> "ready"]
  /\ mail = [p \in Poller |-> NoMail]
  /\ queue = [p \in Poller |-> {}]
  /\ number = [p \in Poller |-> NoNumber]
  /\ outcome = [p \in Poller |-> FALSE]
  /\ overlapped = FALSE
  /\ mishaps = 0

-----------------------------------------------------------------------------
(* The world around the pollers.                                           *)

Mishap == mishaps < MaxMishaps /\ mishaps' = mishaps + 1

Arrive(m) ==
  /\ m \notin unseen \cup seen
  /\ unseen' = unseen \cup {m}
  /\ UNCHANGED <<seen, records, register, pollers, overlapped, mishaps>>

(* nextMatterNumber reads the highest number as a string, by which one of  *)
(* five digits sorts below TopNumber.                                      *)
NextMatterNumber ==
  LET fourDigits == used[year] \cap (1 .. TopNumber) IN
  <<year, IF fourDigits = {} THEN 1 ELSE Max(fourDigits) + 1>>

Taken(n) == n[2] \in used[n[1]]

CreateMatter(n) ==
  /\ open' = open + 1
  /\ used' = [used EXCEPT ![n[1]] = @ \cup {n[2]}]

(* The API, the onboarding and the questionnaire number a matter and       *)
(* create it in one go, without asking the licence; the bulk import brings *)
(* numbers of its own, the practice systems foreign ones; and a closed     *)
(* matter may be opened again.                                             *)
OtherMatter ==
  /\ others < MaxOthers
  /\ others' = others + 1
  /\ \/ \E n \in {NextMatterNumber} \cup ({year} \X (1 .. TopNumber)) :
          ~Taken(n) /\ CreateMatter(n)
     \/ open' = open + 1 /\ UNCHANGED used
  /\ UNCHANGED <<inbox, records, year, pollers, overlapped, mishaps>>

CloseMatter ==
  /\ open > 0
  /\ open' = open - 1
  /\ UNCHANGED <<inbox, records, others, year, used, pollers, overlapped, mishaps>>

NewYear ==
  /\ year < MaxYear
  /\ year' = year + 1
  /\ UNCHANGED <<inbox, records, open, others, used, pollers, overlapped, mishaps>>

-----------------------------------------------------------------------------

(* Where p goes, and the mail it has in hand there.                        *)
Goto(p, place, m) ==
  /\ at' = [at EXCEPT ![p] = place]
  /\ mail' = [mail EXCEPT ![p] = m]

(* On to the next mail.                                                    *)
Leave(p) == Goto(p, "ready", NoMail)

(* What the pipeline returned; with it the acknowledgement is sent.        *)
Reply(p, m, success) ==
  /\ Goto(p, "replying", m)
  /\ outcome' = [outcome EXCEPT ![p] = success]

Make(m) == made' = [made EXCEPT ![m] = @ + 1]

(* The row is written if there is none: the index refuses a second one, as *)
(* any other error of the insert unheard.                                  *)
PersistProcessed(m, status) ==
  row' = [row EXCEPT ![m] = IF @ = "none" THEN status ELSE @]

(* The pipeline threw: the mail stays unread, with a row.                  *)
PipelineThrows(p, m) ==
  /\ Mishap
  /\ PersistProcessed(m, "failed")
  /\ Leave(p)
  /\ UNCHANGED <<outcome, replies>>

(* The turn of an inbox, when the one before is done.                      *)
StartPoll(p) ==
  /\ at[p] = "ready" /\ queue[p] = {}
  /\ \E inboxMail \in {Letter, Mail \ Letter} :
       /\ unseen \cap inboxMail # {}
       /\ queue' = [queue EXCEPT ![p] = unseen \cap inboxMail]
  /\ UNCHANGED <<inbox, records, register, at, mail, number, outcome, overlapped, mishaps>>

(* Seeded fault: the licence is not asked.                                 *)
GateIsOpen(p, m) ==
  \/ Reply(p, m, FALSE) /\ UNCHANGED number
  \/ /\ number' = [number EXCEPT ![p] = NextMatterNumber]
     /\ Goto(p, "classifying", m) /\ UNCHANGED outcome

(* The licence gate and the number: one step, up to the classifier.  An    *)
(* expired licence declines as a full one does.                            *)
Gate(p, m) ==
  \/ Reply(p, m, FALSE) /\ UNCHANGED number
  \/ /\ open < MaxMatters
     /\ number' = [number EXCEPT ![p] = NextMatterNumber]
     /\ Goto(p, "classifying", m) /\ UNCHANGED outcome

(* The correspondence pipeline does all before the first await.            *)
TakeLetter(p, m) ==
  /\ \/ Make(m) /\ Reply(p, m, TRUE) /\ UNCHANGED <<row, replies, mishaps>>
     \/ (Make(m) \/ UNCHANGED made) /\ PipelineThrows(p, m)
  /\ UNCHANGED number

(* A client with a matter goes straight to matter creation, another one to *)
(* the questionnaire: anyone's matter may be among those made elsewhere,   *)
(* so which of the two it is, is a choice.                                 *)
TakeEnquiry(p, m) ==
  \/ Gate(p, m) /\ UNCHANGED <<records, mishaps>>
  \/ Goto(p, "interviewing", m) /\ UNCHANGED <<records, number, outcome, mishaps>>
  \/ PipelineThrows(p, m) /\ UNCHANGED <<made, number>>

(* Seeded fault: a mail on record stays unread.                            *)
PassProcessed(p, m) ==
  /\ row[m] # "none"
  /\ Leave(p)
  /\ UNCHANGED <<records, number, outcome, overlapped, mishaps>>

(* A mail on record, failed or not, is only marked \Seen.                  *)
SkipProcessed(p, m) ==
  /\ row[m] # "none"
  /\ Goto(p, "flagging", m)
  /\ UNCHANGED <<records, number, outcome, overlapped, mishaps>>

AtWork(p) == at[p] # "ready"

Enter(p, m) ==
  overlapped' = (overlapped \/ \E q \in Poller \ {p} : AtWork(q) /\ mail[q] = m)

(* Seeded fault: nobody asks whether the mail is on record.                *)
RouteAgain(p, m) ==
  /\ Enter(p, m)
  /\ IF m \in Letter THEN TakeLetter(p, m) ELSE TakeEnquiry(p, m)

RouteEmail(p, m) ==
  /\ row[m] = "none"
  /\ Enter(p, m)
  /\ IF m \in Letter THEN TakeLetter(p, m) ELSE TakeEnquiry(p, m)

(* The next mail of the tick, in any order; its download may fail.         *)
TakeMail(p) ==
  /\ at[p] = "ready"
  /\ \E m \in queue[p] :
       /\ queue' = [queue EXCEPT ![p] = @ \ {m}]
       /\ \/ SkipProcessed(p, m)
          \/ RouteEmail(p, m)
          \/ Mishap /\ UNCHANGED <<records, at, mail, number, outcome, overlapped>>
  /\ UNCHANGED <<inbox, register>>

(* The questionnaire has taken the mail, as the start of a session or as   *)
(* an answer; or it threw, and the mail goes on to matter creation.        *)
Interviewed(p) ==
  LET m == mail[p] IN
  /\ at[p] = "interviewing"
  /\ \/ Make(m) /\ Reply(p, m, TRUE) /\ UNCHANGED <<number, mishaps>>
     \/ (Make(m) \/ UNCHANGED made) /\ Mishap /\ Gate(p, m)
  /\ UNCHANGED <<inbox, row, replies, register, queue, overlapped>>

(* Classified: the matter is created and audited, unless its number is     *)
(* there by now; the folder may throw before it, the audit after it.       *)
FileMatter(p) ==
  LET m == mail[p] IN
  /\ at[p] = "classifying"
  /\ \/ /\ Taken(number[p]) /\ Reply(p, m, FALSE)
        /\ UNCHANGED <<row, made, replies, open, used, mishaps>>
     \/ /\ ~Taken(number[p]) /\ CreateMatter(number[p])
        /\ Make(m)
        /\ \/ Reply(p, m, TRUE) /\ UNCHANGED <<row, replies, mishaps>>
           \/ PipelineThrows(p, m)
     \/ PipelineThrows(p, m) /\ UNCHANGED <<made, open, used>>
  /\ number' = [number EXCEPT ![p] = NoNumber]
  /\ UNCHANGED <<inbox, others, year, queue, overlapped>>

(* The acknowledgement was tried (of a matter after the lawyer's notice,   *)
(* of a question by the questionnaire); the mail goes on record.           *)
Replied(p) ==
  LET m == mail[p] IN
  /\ at[p] = "replying"
  /\ replies' = [replies EXCEPT ![m] = @ + 1]
  /\ \/ PersistProcessed(m, IF outcome[p] THEN "routed" ELSE "failed") /\ UNCHANGED mishaps
     \/ Mishap /\ UNCHANGED row
  /\ IF outcome[p] THEN Goto(p, "flagging", m) ELSE Leave(p)
  /\ outcome' = [outcome EXCEPT ![p] = FALSE]
  /\ UNCHANGED <<inbox, made, register, queue, number, overlapped>>

(* The server has set the flag, or refused it unheard.                     *)
Flagged(p) ==
  /\ at[p] = "flagging"
  /\ \/ /\ unseen' = unseen \ {mail[p]} /\ seen' = seen \cup {mail[p]}
        /\ UNCHANGED mishaps
     \/ Mishap /\ UNCHANGED inbox
  /\ Leave(p)
  /\ UNCHANGED <<records, register, queue, number, outcome, overlapped>>

(* The process dies in one of its awaits.                                  *)
Crash(p) ==
  /\ AtWork(p) \/ queue[p] # {}
  /\ Mishap
  /\ Leave(p)
  /\ queue' = [queue EXCEPT ![p] = {}]
  /\ number' = [number EXCEPT ![p] = NoNumber]
  /\ outcome' = [outcome EXCEPT ![p] = FALSE]
  /\ UNCHANGED <<inbox, records, register, overlapped>>

-----------------------------------------------------------------------------

Poll(p) ==
  \/ StartPoll(p) \/ TakeMail(p) \/ Interviewed(p) \/ FileMatter(p)
  \/ Replied(p) \/ Flagged(p)

Next ==
  \/ \E m \in Mail : Arrive(m)
  \/ OtherMatter \/ CloseMatter \/ NewYear
  \/ \E p \in Poller : Poll(p) \/ Crash(p)

Spec == Init /\ [][Next]_vars

(* The timer polls again and again, and every await ends.                  *)
FairSpec == Spec /\ \A p \in Poller : WF_vars(Poll(p))

-----------------------------------------------------------------------------

NoMishap == mishaps = 0

(* router.ts:6-7: a re-poll of the same mail is a no-op.  A mail leads to  *)
(* one task, session or matter, and its sender hears of it once, unless    *)
(* two pollers had it at the same time or something died or threw.         *)
MadeOnce ==
  ~overlapped /\ NoMishap => \A m \in Mail : made[m] <= 1 /\ replies[m] <= 1

(* No mail is put out of sight before something came of it or its failure  *)
(* is on record, whatever dies or throws between pipeline, row and flag.   *)
SeenMeansHandled ==
  \A m \in seen : made[m] > 0 \/ row[m] = "failed"

(* enforce.ts:4-6: the licence's limit is asked before the classifier is   *)
(* awaited and the matter made after it.  Yet the inbox never takes the    *)
(* firm past it: the number is drawn with the answer, and another matter   *)
(* of the same year takes it away.  Only the turn of a year lets one slip. *)
CapIsKept == open <= MaxMatters + others + year

(* No mail stays unread for ever: one that failed is not tried again, as   *)
(* router.ts:13-16 has it, but put out of sight by its row at the next     *)
(* poll.                                                                   *)
EveryMailIsSeen == \A m \in Mail : m \in unseen ~> m \in seen

=============================================================================
