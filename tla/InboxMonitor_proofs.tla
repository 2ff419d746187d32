------------------------ MODULE InboxMonitor_proofs ------------------------
(***************************************************************************)
(* A mail is handled once, none is put out of sight without a trace, and   *)
(* the inbox keeps to the licence's limit, for any number of mails,        *)
(* pollers, years, other matters and mishaps.                              *)
(*                                                                         *)
(* The limit needs the matter numbers: a poller between its question to    *)
(* the licence and its matter holds a number, pollers of one year hold the *)
(* same one, and the first matter made with it refuses the others.         *)
(***************************************************************************)
EXTENDS InboxMonitor, FiniteSetTheorems, WellFoundedInduction, TLAPS

-----------------------------------------------------------------------------

Less == OpToRel(<, Nat)

(* A set of numbers up to n has a highest member.                          *)
LEMMA HighestExists ==
  ASSUME NEW n \in Nat, NEW S \in SUBSET (1 .. n), S # {}
  PROVE  Max(S) \in S /\ \A k \in S : k <= Max(S)
<1> DEFINE Distance == {n - k : k \in S}
<1>1. \A x, y \in Nat : x < y => <<x, y>> \in Less
  BY DEF Less, OpToRel
<1>2. PICK d \in Distance : \A e \in Distance : ~ (<<e, d>> \in Less)
  <2>1. Distance \subseteq Nat
    OBVIOUS
  <2>2. Distance # {}
    OBVIOUS
  <2>3. IsWellFoundedOn(Less, Nat)
    BY NatLessThanWellFounded DEF Less
  <2>4. QED
    BY <2>1, <2>2, <2>3, WFMin
<1>3. PICK m \in S : d = n - m
  BY <1>2
<1>4. \A k \in S : m >= k
  <2>1. SUFFICES ASSUME NEW k \in S, k > m PROVE FALSE
    OBVIOUS
  <2>2. n - k \in Distance /\ n - k \in Nat /\ n - m \in Nat /\ n - k < n - m
    BY <2>1, <1>3
  <2>3. QED
    BY <2>2, <1>1, <1>2, <1>3
<1>5. QED
  BY <1>3, <1>4 DEF Max
-----------------------------------------------------------------------------

Years == 0 .. MaxYear
Numbers == 1 .. TopNumber + 1

(* The numbers that pollers hold and no matter has.                        *)
Pending == {n \in Years \X Numbers :
              n[2] \notin used[n[1]]
              /\ \E p \in Poller : at[p] = "classifying" /\ number[p] = n}

(* A poller that is not ready has a mail, one that classifies a number.    *)
HandsAreFull ==
  \A p \in Poller :
    /\ at[p] # "ready" => mail[p] \in Mail
    /\ at[p] = "classifying" => number[p] \in Years \X Numbers

(* A held number is this year's next one, or an import or the turn of a    *)
(* year has set it apart.                                                  *)
HeldNumbersAreFew == Cardinality(Pending \ {NextMatterNumber}) <= others + year

(* The licence's limit holds with the held numbers counted as matters.     *)
CapCountsHeld == open + Cardinality(Pending) <= MaxMatters + others + year

(* Beyond its pipeline a mail has led to something or failed.              *)
RecordsAreTruthful ==
  /\ \A m \in Mail : row[m] = "routed" => made[m] > 0
  /\ \A p \in Poller : at[p] = "replying" /\ outcome[p] => made[mail[p]] > 0
  /\ \A p \in Poller : at[p] = "flagging" => made[mail[p]] > 0 \/ row[mail[p]] = "failed"

Handling(p) == at[p] \in {"interviewing", "classifying", "replying"}

(* Who handles a mail is alone with it, and what it led to shows in the    *)
(* poller's place or in the row.                                           *)
Alone(p) ==
  Handling(p) =>
    /\ row[mail[p]] = "none" /\ replies[mail[p]] = 0
    /\ made[mail[p]] <= 1
    /\ at[p] # "replying" => made[mail[p]] = 0
    /\ \A q \in Poller \ {p} : AtWork(q) => mail[q] # mail[p]

Listed(p) == at[p] = "flagging" => row[mail[p]] # "none"

Clean(m) ==
  row[m] = "none" =>
    \/ made[m] = 0 /\ replies[m] = 0
    \/ \E p \in Poller : Handling(p) /\ mail[p] = m

Once(m) == made[m] <= 1 /\ replies[m] <= 1

(* All this while nothing goes wrong.                                      *)
HandledAlone ==
  ~overlapped /\ NoMishap =>
    /\ \A p \in Poller : Alone(p) /\ Listed(p)
    /\ \A m \in Mail : Clean(m) /\ Once(m)

Typed == TypeOK /\ HandsAreFull /\ year \in Years

IInv ==
  /\ Typed
  /\ HeldNumbersAreFew /\ CapCountsHeld
  /\ RecordsAreTruthful /\ SeenMeansHandled
  /\ HandledAlone

-----------------------------------------------------------------------------
(* Types, and what each poller has in hand.                                *)

(* The next number is one of this year.                                    *)
LEMMA NextNumberIsANumber ==
  ASSUME Typed
  PROVE  NextMatterNumber \in Years \X Numbers
<1> DEFINE four == used[year] \cap (1 .. TopNumber)
<1>1. TopNumber \in Nat /\ year \in Years
  BY InboxAssumption DEF Typed
<1>2. CASE four = {}
  BY <1>1, <1>2 DEF NextMatterNumber, Numbers
<1>3. CASE four # {}
  <2>1. Max(four) \in four
    BY <1>1, <1>3, HighestExists
  <2>2. Max(four) + 1 \in Numbers
    BY <1>1, <2>1 DEF Numbers
  <2>3. QED
    BY <1>1, <1>3, <2>2 DEF NextMatterNumber
<1>4. QED
  BY <1>2, <1>3

(* The outcome of a gate.                                                  *)
LEMMA GateTyped ==
  ASSUME Typed, NEW p \in Poller, NEW m \in Mail, Gate(p, m)
  PROVE  /\ at' \in [Poller -> Place] /\ mail' \in [Poller -> Mail \cup {NoMail}]
         /\ number' \in [Poller -> Years \X Nat] /\ outcome' \in [Poller -> BOOLEAN]
         /\ HandsAreFull'
<1>1. NextMatterNumber \in Years \X Numbers /\ NextMatterNumber \in Years \X Nat
  BY NextNumberIsANumber, InboxAssumption DEF Numbers
<1>2. CASE Reply(p, m, FALSE) /\ UNCHANGED number
  BY <1>2 DEF Reply, Goto, Typed, TypeOK, Years, Place, HandsAreFull
<1>3. CASE /\ number' = [number EXCEPT ![p] = NextMatterNumber]
           /\ Goto(p, "classifying", m) /\ UNCHANGED outcome
  <2>1. number \in [Poller -> Years \X Nat] /\ at \in [Poller -> Place]
        /\ mail \in [Poller -> Mail \cup {NoMail}] /\ outcome \in [Poller -> BOOLEAN]
    BY DEF Typed, TypeOK, Years
  <2>2. HandsAreFull'
    BY <1>1, <1>3, <2>1 DEF Goto, Typed, HandsAreFull
  <2>3. QED
    BY <1>1, <1>3, <2>1, <2>2 DEF Goto, Place
<1>4. QED
  BY <1>2, <1>3 DEF Gate

(* The pipeline threw.                                                     *)
LEMMA ThrowTyped ==
  ASSUME Typed, NEW p \in Poller, NEW m \in Mail, PipelineThrows(p, m)
  PROVE  /\ at' \in [Poller -> Place] /\ mail' \in [Poller -> Mail \cup {NoMail}]
         /\ row' \in [Mail -> {"none", "routed", "failed"}]
         /\ outcome' = outcome /\ replies' = replies /\ mishaps' \in Nat
         /\ at'[p] = "ready"
         /\ \A q \in Poller \ {p} : at'[q] = at[q] /\ mail'[q] = mail[q]
BY DEF PipelineThrows, Mishap, PersistProcessed, Leave, Goto, Typed, TypeOK, Place

(* The start of a pipeline.                                                *)
LEMMA RouteTyped ==
  ASSUME Typed, NEW p \in Poller, NEW m \in Mail, RouteEmail(p, m), at[p] = "ready",
         UNCHANGED <<inbox, register>>, queue' \in [Poller -> SUBSET Mail]
  PROVE  TypeOK' /\ HandsAreFull'
<1> DEFINE Kept ==
      /\ unseen' \subseteq Mail /\ seen' \subseteq Mail
      /\ open' \in Nat /\ others' \in Nat /\ year' \in Nat
      /\ used' \in [Years -> SUBSET Numbers]
      /\ overlapped' \in BOOLEAN
<1>1. Kept
  BY DEF RouteEmail, Enter, Typed, TypeOK, inbox, register, Years, Numbers
<1>2. /\ made \in [Mail -> Nat] /\ row \in [Mail -> {"none", "routed", "failed"}]
      /\ replies \in [Mail -> Nat] /\ mishaps \in Nat
      /\ number \in [Poller -> Years \X Nat] /\ outcome \in [Poller -> BOOLEAN]
      /\ at \in [Poller -> Place] /\ mail \in [Poller -> Mail \cup {NoMail}]
  BY DEF Typed, TypeOK, Years
<1>3. CASE TakeLetter(p, m)
  <2>1. number' = number /\ made' \in [Mail -> Nat]
    <3>1. number' = number /\ (Make(m) \/ UNCHANGED made)
      BY <1>3 DEF TakeLetter
    <3>2. QED
      BY <1>2, <3>1 DEF Make
  <2>2. CASE Reply(p, m, TRUE) /\ UNCHANGED <<row, replies, mishaps>>
    <3>1. HandsAreFull'
      BY <1>2, <2>1, <2>2 DEF Reply, Goto, Typed, HandsAreFull
    <3>2. at' \in [Poller -> Place] /\ mail' \in [Poller -> Mail \cup {NoMail}]
          /\ outcome' \in [Poller -> BOOLEAN]
      BY <1>2, <2>2 DEF Reply, Goto, Place
    <3>3. QED
      BY <1>1, <1>2, <2>1, <2>2, <3>1, <3>2 DEF TypeOK, Years, Numbers
  <2>3. CASE PipelineThrows(p, m)
    <3>1. HandsAreFull'
      BY <2>1, <2>3, ThrowTyped DEF Typed, HandsAreFull
    <3>2. QED
      BY <1>1, <1>2, <2>1, <2>3, <3>1, ThrowTyped DEF TypeOK, Years, Numbers
  <2>4. QED
    BY <1>3, <2>2, <2>3 DEF TakeLetter
<1>4. CASE Gate(p, m) /\ UNCHANGED <<records, mishaps>>
  BY <1>1, <1>2, <1>4, GateTyped DEF TypeOK, Years, Numbers, records
<1>5. CASE Goto(p, "interviewing", m) /\ UNCHANGED <<records, number, outcome, mishaps>>
  <2>1. HandsAreFull'
    BY <1>2, <1>5 DEF Goto, Typed, HandsAreFull
  <2>2. at' \in [Poller -> Place] /\ mail' \in [Poller -> Mail \cup {NoMail}]
    BY <1>2, <1>5 DEF Goto, Place
  <2>3. QED
    BY <1>1, <1>2, <1>5, <2>1, <2>2 DEF TypeOK, Years, Numbers, records
<1>6. CASE PipelineThrows(p, m) /\ UNCHANGED <<made, number>>
  <2>1. HandsAreFull'
    BY <1>6, ThrowTyped DEF Typed, HandsAreFull
  <2>2. QED
    BY <1>1, <1>2, <1>6, <2>1, ThrowTyped DEF TypeOK, Years, Numbers
<1>7. QED
  BY <1>3, <1>4, <1>5, <1>6 DEF RouteEmail, TakeEnquiry

LEMMA TypeStep ==
  ASSUME Typed, [Next]_vars
  PROVE  Typed'
<1>1. /\ year' \in Years /\ year' \in Nat
  <2>1. year' = year \/ NewYear
    BY DEF Next, vars, register, Arrive, OtherMatter, CloseMatter, Poll, StartPoll, TakeMail,
           Interviewed, FileMatter, Replied, Flagged, Crash
  <2>2. QED
    BY <2>1, InboxAssumption DEF NewYear, Typed, TypeOK, Years
<1>2. /\ unseen \subseteq Mail /\ seen \subseteq Mail
      /\ made \in [Mail -> Nat] /\ row \in [Mail -> {"none", "routed", "failed"}]
      /\ replies \in [Mail -> Nat] /\ mishaps \in Nat
      /\ open \in Nat /\ others \in Nat
      /\ used \in [Years -> SUBSET Numbers]
      /\ overlapped \in BOOLEAN
      /\ queue \in [Poller -> SUBSET Mail]
      /\ number \in [Poller -> Years \X Nat] /\ outcome \in [Poller -> BOOLEAN]
      /\ at \in [Poller -> Place] /\ mail \in [Poller -> Mail \cup {NoMail}]
  BY DEF Typed, TypeOK, Years, Numbers
<1>3. ASSUME NEW m \in Mail, Arrive(m)
      PROVE  Typed'
  BY <1>1, <1>2, <1>3
     DEF Arrive, Typed, TypeOK, HandsAreFull, records, register, pollers, Years, Numbers
<1>4. CASE OtherMatter
  <2>1. UNCHANGED <<inbox, records, year, pollers, overlapped, mishaps>> /\ others' \in Nat
    BY <1>2, <1>4 DEF OtherMatter
  <2>2. open' \in Nat /\ used' \in [Years -> SUBSET Numbers]
    <3>1. CASE open' = open + 1 /\ UNCHANGED used
      BY <1>2, <3>1
    <3>2. ASSUME NEW n \in {NextMatterNumber} \cup ({year} \X (1 .. TopNumber)),
                 CreateMatter(n)
          PROVE  open' \in Nat /\ used' \in [Years -> SUBSET Numbers]
      <4>1. n \in Years \X Numbers
        BY NextNumberIsANumber, InboxAssumption DEF Typed, Numbers
      <4>2. QED
        BY <1>2, <3>2, <4>1 DEF CreateMatter
    <3>3. QED
      BY <1>4, <3>1, <3>2 DEF OtherMatter
  <2>3. QED
    BY <1>1, <1>2, <2>1, <2>2
       DEF Typed, TypeOK, HandsAreFull, inbox, records, pollers, Years, Numbers
<1>5. CASE CloseMatter
  BY <1>1, <1>2, <1>5
     DEF CloseMatter, Typed, TypeOK, HandsAreFull, inbox, records, pollers, Years, Numbers
<1>6. CASE NewYear
  BY <1>1, <1>2, <1>6
     DEF NewYear, Typed, TypeOK, HandsAreFull, inbox, records, pollers, Years, Numbers
<1>7. ASSUME NEW p \in Poller, StartPoll(p)
      PROVE  Typed'
  <2>1. queue' \in [Poller -> SUBSET Mail]
    BY <1>2, <1>7 DEF StartPoll
  <2>2. UNCHANGED <<inbox, records, register, at, mail, number, outcome, overlapped, mishaps>>
    BY <1>7 DEF StartPoll
  <2>3. QED
    BY <1>1, <1>2, <2>1, <2>2
       DEF Typed, TypeOK, HandsAreFull, inbox, records, register, Years, Numbers
<1>8. ASSUME NEW p \in Poller, TakeMail(p)
      PROVE  Typed'
  <2>1. at[p] = "ready" /\ UNCHANGED <<inbox, register>>
    BY <1>8 DEF TakeMail
  <2>2. PICK m \in queue[p] :
          /\ queue' = [queue EXCEPT ![p] = @ \ {m}]
          /\ \/ SkipProcessed(p, m)
             \/ RouteEmail(p, m)
             \/ Mishap /\ UNCHANGED <<records, at, mail, number, outcome, overlapped>>
    BY <1>8 DEF TakeMail
  <2>3. m \in Mail /\ queue' \in [Poller -> SUBSET Mail]
    BY <1>2, <2>2
  <2>4. CASE SkipProcessed(p, m)
    <3>1. HandsAreFull'
      BY <1>2, <2>3, <2>4 DEF SkipProcessed, Goto, HandsAreFull, Typed
    <3>2. at' \in [Poller -> Place] /\ mail' \in [Poller -> Mail \cup {NoMail}]
      BY <1>2, <2>3, <2>4 DEF SkipProcessed, Goto, Place
    <3>3. UNCHANGED <<records, number, outcome, overlapped, mishaps>>
      BY <2>4 DEF SkipProcessed
    <3>4. QED
      BY <1>1, <1>2, <2>1, <2>3, <3>1, <3>2, <3>3
         DEF Typed, TypeOK, inbox, records, register, Years, Numbers
  <2>5. CASE RouteEmail(p, m)
    BY <1>1, <2>1, <2>3, <2>5, RouteTyped DEF Typed
  <2>6. CASE Mishap /\ UNCHANGED <<records, at, mail, number, outcome, overlapped>>
    BY <1>1, <1>2, <2>1, <2>3, <2>6
       DEF Mishap, Typed, TypeOK, HandsAreFull, inbox, records, register, Years, Numbers
  <2>7. QED
    BY <2>2, <2>4, <2>5, <2>6
<1>9. ASSUME NEW p \in Poller, Interviewed(p)
      PROVE  Typed'
  <2>1. /\ at[p] = "interviewing" /\ mail[p] \in Mail
        /\ UNCHANGED <<inbox, row, replies, register, queue, overlapped>>
    BY <1>9 DEF Interviewed, Typed, HandsAreFull
  <2>2. made' \in [Mail -> Nat] /\ mishaps' \in Nat
    <3>1. /\ Make(mail[p]) \/ UNCHANGED made
          /\ UNCHANGED mishaps \/ Mishap
      BY <1>9 DEF Interviewed
    <3>2. QED
      BY <1>2, <3>1 DEF Make, Mishap
  <2>3. CASE Reply(p, mail[p], TRUE) /\ UNCHANGED number
    <3>1. HandsAreFull'
      BY <1>2, <2>1, <2>3 DEF Reply, Goto, HandsAreFull, Typed
    <3>2. at' \in [Poller -> Place] /\ mail' \in [Poller -> Mail \cup {NoMail}]
          /\ outcome' \in [Poller -> BOOLEAN]
      BY <1>2, <2>1, <2>3 DEF Reply, Goto, Place
    <3>3. QED
      BY <1>1, <1>2, <2>1, <2>2, <2>3, <3>1, <3>2
         DEF Typed, TypeOK, inbox, register, Years, Numbers
  <2>4. CASE Gate(p, mail[p])
    BY <1>1, <1>2, <2>1, <2>2, <2>4, GateTyped
       DEF Typed, TypeOK, inbox, register, Years, Numbers
  <2>5. QED
    BY <1>9, <2>3, <2>4 DEF Interviewed
<1>10. ASSUME NEW p \in Poller, FileMatter(p)
       PROVE  Typed'
  <2>1. /\ at[p] = "classifying" /\ mail[p] \in Mail /\ number[p] \in Years \X Numbers
        /\ number' = [number EXCEPT ![p] = NoNumber]
        /\ UNCHANGED <<inbox, others, year, queue, overlapped>>
    BY <1>10 DEF FileMatter, Typed, HandsAreFull
  <2>2. /\ made' \in [Mail -> Nat] /\ open' \in Nat
        /\ used' \in [Years -> SUBSET Numbers]
    <3>1. /\ Make(mail[p]) \/ UNCHANGED made
          /\ CreateMatter(number[p]) \/ UNCHANGED <<open, used>>
      BY <1>10 DEF FileMatter
    <3>2. made' \in [Mail -> Nat]
      BY <1>2, <3>1 DEF Make
    <3>3. QED
      BY <1>2, <2>1, <3>1, <3>2 DEF CreateMatter
  <2>3. number' \in [Poller -> Years \X Nat]
    BY <1>2, <2>1, InboxAssumption DEF NoNumber, Years
  <2>4. CASE /\ \E success \in BOOLEAN : Reply(p, mail[p], success)
             /\ UNCHANGED <<row, replies, mishaps>>
    <3>1. HandsAreFull'
      BY <1>2, <2>1, <2>4 DEF Reply, Goto, HandsAreFull, Typed
    <3>2. at' \in [Poller -> Place] /\ mail' \in [Poller -> Mail \cup {NoMail}]
          /\ outcome' \in [Poller -> BOOLEAN]
      BY <1>2, <2>1, <2>4 DEF Reply, Goto, Place
    <3>3. QED
      BY <1>1, <1>2, <2>1, <2>2, <2>3, <2>4, <3>1, <3>2
         DEF Typed, TypeOK, inbox, Years, Numbers
  <2>5. CASE PipelineThrows(p, mail[p])
    <3>1. HandsAreFull'
      BY <1>2, <2>1, <2>5, ThrowTyped DEF Typed, HandsAreFull
    <3>2. QED
      BY <1>1, <1>2, <2>1, <2>2, <2>3, <2>5, <3>1, ThrowTyped
         DEF Typed, TypeOK, inbox, Years, Numbers
  <2>6. QED
    BY <1>10, <2>4, <2>5 DEF FileMatter
<1>11. ASSUME NEW p \in Poller, Replied(p)
       PROVE  Typed'
  <2>1. /\ at[p] = "replying" /\ mail[p] \in Mail
        /\ UNCHANGED <<inbox, made, register, queue, number, overlapped>>
    BY <1>11 DEF Replied, Typed, HandsAreFull
  <2>2. replies' \in [Mail -> Nat] /\ outcome' \in [Poller -> BOOLEAN]
    BY <1>2, <2>1, <1>11 DEF Replied
  <2>3. row' \in [Mail -> {"none", "routed", "failed"}] /\ mishaps' \in Nat
    <3>1. CASE /\ PersistProcessed(mail[p], IF outcome[p] THEN "routed" ELSE "failed")
               /\ UNCHANGED mishaps
      BY <1>2, <2>1, <3>1 DEF PersistProcessed
    <3>2. CASE Mishap /\ UNCHANGED row
      BY <1>2, <3>2 DEF Mishap
    <3>3. QED
      BY <1>11, <3>1, <3>2 DEF Replied
  <2>4. Goto(p, "flagging", mail[p]) \/ Goto(p, "ready", NoMail)
    BY <1>11 DEF Replied, Leave
  <2>5. HandsAreFull'
    BY <1>2, <2>1, <2>4 DEF Goto, Typed, HandsAreFull
  <2>6. at' \in [Poller -> Place] /\ mail' \in [Poller -> Mail \cup {NoMail}]
    BY <1>2, <2>1, <2>4 DEF Goto, Place
  <2>7. QED
    BY <1>1, <1>2, <2>1, <2>2, <2>3, <2>5, <2>6
       DEF Typed, TypeOK, inbox, register, Years, Numbers
<1>12. ASSUME NEW p \in Poller, Flagged(p) \/ Crash(p)
       PROVE  Typed'
  <2>1. UNCHANGED <<records, register, overlapped>> /\ Leave(p)
    BY <1>12 DEF Flagged, Crash
  <2>2. HandsAreFull'
    <3>1. /\ at' = [at EXCEPT ![p] = "ready"] /\ mail' = [mail EXCEPT ![p] = NoMail]
          /\ \A q \in Poller \ {p} : number'[q] = number[q]
      BY <1>2, <1>12, <2>1 DEF Flagged, Crash, Leave, Goto
    <3>2. QED
      BY <1>2, <3>1 DEF Typed, HandsAreFull
  <2>3. at' \in [Poller -> Place] /\ mail' \in [Poller -> Mail \cup {NoMail}]
    BY <1>2, <2>1 DEF Leave, Goto, Place
  <2>4. CASE Flagged(p)
    <3>1. mail[p] \in Mail
      BY <2>4 DEF Flagged, Typed, HandsAreFull
    <3>2. unseen' \subseteq Mail /\ seen' \subseteq Mail /\ mishaps' \in Nat
      BY <1>2, <2>4, <3>1 DEF Flagged, Mishap, inbox
    <3>3. UNCHANGED <<queue, number, outcome>>
      BY <2>4 DEF Flagged
    <3>4. QED
      BY <1>1, <1>2, <2>1, <2>2, <2>3, <3>2, <3>3
         DEF Typed, TypeOK, records, register, Years, Numbers
  <2>5. CASE Crash(p)
    <3>1. UNCHANGED inbox /\ mishaps' \in Nat
      BY <1>2, <2>5 DEF Crash, Mishap
    <3>2. /\ queue' \in [Poller -> SUBSET Mail] /\ outcome' \in [Poller -> BOOLEAN]
          /\ number' \in [Poller -> Years \X Nat]
      BY <1>2, <2>5, InboxAssumption DEF Crash, NoNumber, Years
    <3>3. QED
      BY <1>1, <1>2, <2>1, <2>2, <2>3, <3>1, <3>2
         DEF Typed, TypeOK, inbox, records, register, Years, Numbers
  <2>6. QED
    BY <1>12, <2>4, <2>5
<1>13. CASE UNCHANGED vars
  BY <1>1, <1>2, <1>13
     DEF vars, Typed, TypeOK, HandsAreFull, inbox, records, register, pollers, Years, Numbers
<1>14. QED
  BY <1>3, <1>4, <1>5, <1>6, <1>7, <1>8, <1>9, <1>10, <1>11, <1>12, <1>13 DEF Next, Poll

-----------------------------------------------------------------------------
(* The licence's limit.  A step does one of five things to the matters and *)
(* the held numbers.                                                       *)

(* Nobody starts to classify, and no number becomes free.                  *)
NobodyDraws ==
  /\ \A q \in Poller :
       at'[q] = "classifying" => at[q] = "classifying" /\ number'[q] = number[q]
  /\ \A y \in Years : used[y] \subseteq used'[y]

LEMMA HeldNumbersShrink ==
  ASSUME NobodyDraws
  PROVE  Pending' \subseteq Pending
<1>1. SUFFICES ASSUME NEW n \in Pending' PROVE n \in Pending
  OBVIOUS
<1>2. /\ n \in Years \X Numbers /\ n[2] \notin used'[n[1]]
      /\ \E p \in Poller : at'[p] = "classifying" /\ number'[p] = n
  BY <1>1 DEF Pending
<1>3. n[1] \in Years /\ n[2] \notin used[n[1]]
  BY <1>2 DEF NobodyDraws
<1>4. QED
  BY <1>2, <1>3 DEF NobodyDraws, Pending

Quiet == UNCHANGED <<others, year, used>> /\ open' <= open /\ Pending' \subseteq Pending

Draws ==
  /\ UNCHANGED register /\ open < MaxMatters
  /\ Pending' \subseteq Pending \cup {NextMatterNumber}

MadeElsewhere ==
  /\ others' = others + 1 /\ open' = open + 1 /\ year' = year
  /\ Pending' \subseteq Pending

YearTurns == others' = others /\ open' = open /\ year' = year + 1 /\ Pending' \subseteq Pending

UsesUp ==
  /\ others' = others /\ open' = open + 1 /\ year' = year
  /\ \E n \in Pending : Pending' \subseteq Pending \ {n}

LEMMA GateDrawsOrNot ==
  ASSUME Typed, NEW p \in Poller, NEW m, Gate(p, m), UNCHANGED register
  PROVE  Quiet \/ Draws
<1>1. /\ at \in [Poller -> Place] /\ number \in [Poller -> Years \X Nat]
      /\ open \in Nat /\ used' = used /\ UNCHANGED <<others, year, used, open>>
  BY DEF Typed, TypeOK, Years, register
<1>2. CASE Reply(p, m, FALSE) /\ UNCHANGED number
  <2>1. NobodyDraws
    BY <1>1, <1>2 DEF Reply, Goto, NobodyDraws
  <2>2. QED
    BY <1>1, <2>1, HeldNumbersShrink DEF Quiet
<1>3. CASE /\ open < MaxMatters
           /\ number' = [number EXCEPT ![p] = NextMatterNumber]
           /\ Goto(p, "classifying", m) /\ UNCHANGED outcome
  <2>1. ASSUME NEW n \in Pending', n # NextMatterNumber
        PROVE  n \in Pending
    <3>1. /\ n \in Years \X Numbers /\ n[2] \notin used[n[1]]
          /\ \E q \in Poller : at'[q] = "classifying" /\ number'[q] = n
      BY <1>1, <2>1 DEF Pending
    <3>2. PICK q \in Poller : at'[q] = "classifying" /\ number'[q] = n
      BY <3>1
    <3>3. at[q] = "classifying" /\ number[q] = n
      BY <1>1, <1>3, <2>1, <3>2 DEF Goto
    <3>4. QED
      BY <3>1, <3>3 DEF Pending
  <2>2. QED
    BY <1>3, <2>1 DEF Draws
<1>4. QED
  BY <1>2, <1>3 DEF Gate

LEMMA StepsOfTheCap ==
  ASSUME Typed, [Next]_vars
  PROVE  Quiet \/ Draws \/ MadeElsewhere \/ YearTurns \/ UsesUp
<1>1. /\ at \in [Poller -> Place] /\ number \in [Poller -> Years \X Nat]
      /\ open \in Nat /\ others \in Nat /\ year \in Nat
      /\ used \in [Years -> SUBSET Numbers]
  BY DEF Typed, TypeOK, Years, Numbers
<1>2. ASSUME NobodyDraws, UNCHANGED register
      PROVE  Quiet
  BY <1>1, <1>2, HeldNumbersShrink DEF Quiet, register
<1>3. ASSUME NEW p \in Poller, NEW place, NEW m, Goto(p, place, m), place # "classifying",
             \A q \in Poller \ {p} : number'[q] = number[q], UNCHANGED used
      PROVE  NobodyDraws
  BY <1>1, <1>3 DEF Goto, NobodyDraws
<1>4. ASSUME NEW m \in Mail, Arrive(m)
      PROVE  Quiet
  BY <1>2, <1>4 DEF Arrive, NobodyDraws, pollers, register
<1>5. CASE OtherMatter
  <2>1. others' = others + 1 /\ year' = year /\ UNCHANGED <<at, number>>
    BY <1>5 DEF OtherMatter, pollers
  <2>2. open' = open + 1 /\ \A y \in Years : used[y] \subseteq used'[y]
    BY <1>1, <1>5 DEF OtherMatter, CreateMatter
  <2>3. QED
    BY <2>1, <2>2, HeldNumbersShrink DEF NobodyDraws, MadeElsewhere
<1>6. CASE CloseMatter
  <2>1. NobodyDraws /\ open' <= open /\ UNCHANGED <<others, year, used>>
    BY <1>1, <1>6 DEF CloseMatter, NobodyDraws, pollers
  <2>2. QED
    BY <2>1, HeldNumbersShrink DEF Quiet
<1>7. CASE NewYear
  BY <1>7, HeldNumbersShrink DEF NewYear, NobodyDraws, pollers, YearTurns
<1>8. ASSUME NEW p \in Poller, StartPoll(p)
      PROVE  Quiet
  BY <1>2, <1>8 DEF StartPoll, NobodyDraws, register
<1>9. ASSUME NEW p \in Poller, TakeMail(p)
      PROVE  Quiet \/ Draws
  <2>1. UNCHANGED register /\ UNCHANGED used
    BY <1>9 DEF TakeMail, register
  <2>2. PICK m \in queue[p] :
          \/ SkipProcessed(p, m)
          \/ RouteEmail(p, m)
          \/ Mishap /\ UNCHANGED <<records, at, mail, number, outcome, overlapped>>
    BY <1>9 DEF TakeMail
  <2>3. CASE SkipProcessed(p, m)
    BY <1>2, <1>3, <2>1, <2>3 DEF SkipProcessed
  <2>4. CASE Mishap /\ UNCHANGED <<records, at, mail, number, outcome, overlapped>>
    BY <1>2, <2>1, <2>4 DEF NobodyDraws
  <2>5. CASE TakeLetter(p, m) \/ (PipelineThrows(p, m) /\ UNCHANGED number)
    <3>1. number' = number /\ (Goto(p, "replying", m) \/ Goto(p, "ready", NoMail))
      BY <2>5 DEF TakeLetter, Reply, PipelineThrows, Leave
    <3>2. QED
      BY <1>2, <1>3, <2>1, <3>1
  <2>6. CASE Gate(p, m)
    BY <2>1, <2>6, GateDrawsOrNot
  <2>7. CASE Goto(p, "interviewing", m) /\ UNCHANGED number
    BY <1>2, <1>3, <2>1, <2>7
  <2>8. QED
    BY <2>2, <2>3, <2>4, <2>5, <2>6, <2>7 DEF RouteEmail, TakeEnquiry
<1>10. ASSUME NEW p \in Poller, Interviewed(p)
       PROVE  Quiet \/ Draws
  <2>1. UNCHANGED register /\ UNCHANGED used
    BY <1>10 DEF Interviewed, register
  <2>2. CASE Gate(p, mail[p])
    BY <2>1, <2>2, GateDrawsOrNot
  <2>3. CASE Reply(p, mail[p], TRUE) /\ UNCHANGED number
    BY <1>2, <1>3, <2>1, <2>3 DEF Reply
  <2>4. QED
    BY <1>10, <2>2, <2>3 DEF Interviewed
<1>11. ASSUME NEW p \in Poller, FileMatter(p)
       PROVE  Quiet \/ UsesUp
  <2>1. /\ at[p] = "classifying" /\ number[p] \in Years \X Numbers
        /\ number' = [number EXCEPT ![p] = NoNumber]
        /\ UNCHANGED <<others, year>>
    BY <1>11 DEF FileMatter, Typed, HandsAreFull
  <2>2. Goto(p, "replying", mail[p]) \/ Goto(p, "ready", NoMail)
    BY <1>11 DEF FileMatter, Reply, PipelineThrows, Leave
  <2>3. \A q \in Poller : at'[q] = "classifying" => at[q] = "classifying" /\ number'[q] = number[q]
    BY <1>1, <2>1, <2>2 DEF Goto
  <2>4. CASE UNCHANGED <<open, used>>
    BY <1>2, <2>1, <2>3, <2>4 DEF NobodyDraws, register
  <2>5. CASE ~Taken(number[p]) /\ CreateMatter(number[p])
    <3>1. open' = open + 1 /\ used' = [used EXCEPT ![number[p][1]] = @ \cup {number[p][2]}]
      BY <2>5 DEF CreateMatter
    <3>2. NobodyDraws
      BY <1>1, <2>1, <2>3, <3>1 DEF NobodyDraws
    <3>3. number[p] \in Pending
      BY <2>1, <2>5 DEF Pending, Taken
    <3>4. number[p] \notin Pending'
      BY <1>1, <2>1, <3>1 DEF Pending
    <3>5. QED
      BY <2>1, <3>1, <3>2, <3>3, <3>4, HeldNumbersShrink DEF UsesUp
  <2>6. QED
    BY <1>11, <2>4, <2>5 DEF FileMatter
<1>12. ASSUME NEW p \in Poller, Replied(p) \/ Flagged(p)
       PROVE  Quiet
  <2>1. UNCHANGED <<register, number>>
    BY <1>12 DEF Replied, Flagged
  <2>2. Goto(p, "flagging", mail[p]) \/ Goto(p, "ready", NoMail)
    BY <1>12 DEF Replied, Flagged, Leave
  <2>3. QED
    BY <1>2, <1>3, <2>1, <2>2 DEF register
<1>13. ASSUME NEW p \in Poller, Crash(p)
       PROVE  Quiet
  <2>1. UNCHANGED register /\ Goto(p, "ready", NoMail)
        /\ number' = [number EXCEPT ![p] = NoNumber]
    BY <1>13 DEF Crash, Leave
  <2>2. QED
    BY <1>1, <1>2, <1>3, <2>1 DEF register
<1>14. CASE UNCHANGED vars
  BY <1>2, <1>14 DEF vars, pollers, NobodyDraws, register
<1>15. QED
  BY <1>4, <1>5, <1>6, <1>7, <1>8, <1>9, <1>10, <1>11, <1>12, <1>13, <1>14 DEF Next, Poll

(* Sets of numbers are finite; one without a member has one member less.   *)
LEMMA NumberSetsAreFinite ==
  ASSUME NEW S \in SUBSET (Years \X Numbers)
  PROVE  IsFiniteSet(S) /\ Cardinality(S) \in Nat
<1>1. IsFiniteSet(Years) /\ IsFiniteSet(Numbers)
  <2>1. MaxYear \in Int /\ TopNumber + 1 \in Int
    BY InboxAssumption
  <2>2. QED
    BY <2>1, FS_Interval DEF Years, Numbers
<1>2. IsFiniteSet(Years \X Numbers)
  BY <1>1, FS_Product
<1>3. IsFiniteSet(S)
  BY <1>2, FS_Subset
<1>4. QED
  BY <1>3, FS_CardinalityType

LEMMA WithoutOne ==
  ASSUME NEW S, IsFiniteSet(S), NEW x
  PROVE  /\ IsFiniteSet(S \ {x}) /\ Cardinality(S \ {x}) \in Nat
         /\ Cardinality(S \ {x}) = IF x \in S THEN Cardinality(S) - 1 ELSE Cardinality(S)
<1>1. IsFiniteSet(S \ {x})
  BY FS_RemoveElement
<1>2. Cardinality(S \ {x}) \in Nat
  BY <1>1, FS_CardinalityType
<1>3. QED
  BY <1>1, <1>2, FS_RemoveElement

LEMMA CapStep ==
  ASSUME Typed, Typed', HeldNumbersAreFew, CapCountsHeld, [Next]_vars
  PROVE  HeldNumbersAreFew' /\ CapCountsHeld'
<1> DEFINE apart == Pending \ {NextMatterNumber}
           apartNext == (Pending \ {NextMatterNumber})'
<1>1. /\ IsFiniteSet(Pending) /\ Cardinality(Pending) \in Nat
      /\ IsFiniteSet(Pending') /\ Cardinality(Pending') \in Nat
      /\ open \in Nat /\ others \in Nat /\ year \in Nat /\ MaxMatters \in Nat
      /\ open' \in Nat /\ year' \in Years
  <2>1. Pending \in SUBSET (Years \X Numbers) /\ Pending' \in SUBSET (Years \X Numbers)
    BY DEF Pending
  <2>2. QED
    BY <2>1, NumberSetsAreFinite, InboxAssumption DEF Typed, TypeOK
<1>2. /\ IsFiniteSet(apart) /\ Cardinality(apart) \in Nat
      /\ Cardinality(Pending) <= Cardinality(apart) + 1
  <2>1. /\ IsFiniteSet(apart) /\ Cardinality(apart) \in Nat
        /\ Cardinality(apart) = IF NextMatterNumber \in Pending
                                THEN Cardinality(Pending) - 1 ELSE Cardinality(Pending)
    BY <1>1, WithoutOne, Zenon
  <2>2. QED
    BY <1>1, <2>1
<1>3. /\ IsFiniteSet(apartNext) /\ Cardinality(apartNext) \in Nat
      /\ Cardinality(apartNext) <= Cardinality(Pending')
  <2>1. apartNext = Pending' \ {NextMatterNumber'}
    OBVIOUS
  <2>2. QED
    BY <1>1, <2>1, WithoutOne
<1>4. /\ Cardinality(apart) <= others + year
      /\ open + Cardinality(Pending) <= MaxMatters + others + year
  BY DEF HeldNumbersAreFew, CapCountsHeld
<1>5. CASE Quiet
  <2>1. Cardinality(Pending') <= Cardinality(Pending)
    BY <1>1, <1>5, FS_Subset DEF Quiet
  <2>2. apartNext \subseteq apart
    BY <1>5 DEF Quiet, NextMatterNumber
  <2>3. Cardinality(apartNext) <= Cardinality(apart)
    BY <1>2, <2>2, FS_Subset
  <2>4. QED
    BY <1>1, <1>2, <1>3, <1>4, <1>5, <2>1, <2>3 DEF Quiet, HeldNumbersAreFew, CapCountsHeld
<1>6. CASE Draws
  <2>1. UNCHANGED <<open, others, year, used>> /\ open < MaxMatters
    BY <1>6 DEF Draws, register
  <2>2. apartNext \subseteq apart
    BY <1>6, <2>1 DEF Draws, NextMatterNumber
  <2>3. Cardinality(apartNext) <= Cardinality(apart)
    BY <1>2, <2>2, FS_Subset
  <2>4. Cardinality(Pending') <= Cardinality(apart) + 1
    <3>1. Pending' \subseteq apart \cup {NextMatterNumber}
      BY <1>6 DEF Draws
    <3>2. /\ IsFiniteSet(apart \cup {NextMatterNumber})
          /\ Cardinality(apart \cup {NextMatterNumber}) = Cardinality(apart) + 1
      BY <1>2, FS_AddElement
    <3>3. QED
      BY <3>1, <3>2, FS_Subset
  <2>5. QED
    BY <1>1, <1>2, <1>3, <1>4, <2>1, <2>3, <2>4 DEF HeldNumbersAreFew, CapCountsHeld
<1>7. CASE MadeElsewhere \/ YearTurns
  <2>1. Cardinality(Pending') <= Cardinality(Pending)
    BY <1>1, <1>7, FS_Subset DEF MadeElsewhere, YearTurns
  <2>2. QED
    BY <1>1, <1>2, <1>3, <1>4, <1>7, <2>1
       DEF MadeElsewhere, YearTurns, HeldNumbersAreFew, CapCountsHeld
<1>8. CASE UsesUp
  <2>1. PICK n \in Pending : Pending' \subseteq Pending \ {n}
    BY <1>8 DEF UsesUp
  <2>2. IsFiniteSet(Pending \ {n}) /\ Cardinality(Pending \ {n}) = Cardinality(Pending) - 1
    BY <1>1, FS_RemoveElement
  <2>3. Cardinality(Pending') <= Cardinality(Pending) - 1
    BY <2>1, <2>2, FS_Subset
  <2>4. QED
    BY <1>1, <1>2, <1>3, <1>4, <1>8, <2>3 DEF UsesUp, HeldNumbersAreFew, CapCountsHeld
<1>9. QED
  BY <1>5, <1>6, <1>7, <1>8, StepsOfTheCap

-----------------------------------------------------------------------------
(* The records.                                                            *)

(* Nothing is unmade, and a row is written once, for what was made or for  *)
(* a failure.                                                              *)
RecordsGrow ==
  \A m \in Mail :
    /\ made'[m] >= made[m]
    /\ \/ row'[m] = row[m]
       \/ row[m] = "none" /\ (row'[m] = "failed" \/ made'[m] > 0)

HonestMove(p) ==
  /\ \A q \in Poller \ {p} : at'[q] = at[q] /\ mail'[q] = mail[q] /\ outcome'[q] = outcome[q]
  /\ at'[p] = "replying" /\ outcome'[p] => made'[mail'[p]] > 0
  /\ at'[p] = "flagging" => made'[mail'[p]] > 0 \/ row'[mail'[p]] = "failed"

FlagsOnly ==
  \A m \in seen' : m \in seen \/ \E p \in Poller : at[p] = "flagging" /\ mail[p] = m

LEMMA ThrowIsHonest ==
  ASSUME Typed, NEW p \in Poller, NEW m \in Mail, PipelineThrows(p, m),
         \A k \in Mail : made'[k] >= made[k]
  PROVE  RecordsGrow /\ HonestMove(p)
<1>1. at \in [Poller -> Place] /\ mail \in [Poller -> Mail \cup {NoMail}]
      /\ row \in [Mail -> {"none", "routed", "failed"}]
  BY DEF Typed, TypeOK
<1>2. RecordsGrow
  BY <1>1 DEF PipelineThrows, PersistProcessed, RecordsGrow
<1>3. HonestMove(p)
  BY <1>1 DEF PipelineThrows, Leave, Goto, HonestMove
<1>4. QED
  BY <1>2, <1>3

LEMMA StepsAreHonest ==
  ASSUME Typed, RecordsAreTruthful, [Next]_vars
  PROVE  /\ RecordsGrow /\ FlagsOnly
         /\ \/ UNCHANGED <<at, mail, outcome>>
            \/ \E p \in Poller : HonestMove(p)
<1>1. /\ at \in [Poller -> Place] /\ mail \in [Poller -> Mail \cup {NoMail}]
      /\ row \in [Mail -> {"none", "routed", "failed"}] /\ outcome \in [Poller -> BOOLEAN]
      /\ made \in [Mail -> Nat]
  BY DEF Typed, TypeOK
<1>2. UNCHANGED records => RecordsGrow
  BY <1>1 DEF records, RecordsGrow
<1>3. UNCHANGED seen => FlagsOnly
  BY DEF FlagsOnly
<1>4. ASSUME NEW m \in Mail, Make(m) \/ UNCHANGED made
      PROVE  \A k \in Mail : made'[k] >= made[k]
  BY <1>1, <1>4 DEF Make
<1>5. ASSUME NEW p \in Poller, NEW m \in Mail, Reply(p, m, FALSE)
      PROVE  HonestMove(p)
  BY <1>1, <1>5 DEF Reply, Goto, HonestMove
<1>6. ASSUME NEW p \in Poller, NEW m \in Mail, Make(m), Reply(p, m, TRUE), row' = row
      PROVE  RecordsGrow /\ HonestMove(p)
  <2>1. RecordsGrow
    BY <1>1, <1>6 DEF Make, RecordsGrow
  <2>2. made'[m] > 0
    BY <1>1, <1>6 DEF Make
  <2>3. HonestMove(p)
    BY <1>1, <1>6, <2>2 DEF Reply, Goto, HonestMove
  <2>4. QED
    BY <2>1, <2>3
<1>7. ASSUME NEW p \in Poller, NEW m \in Mail, Gate(p, m)
      PROVE  HonestMove(p)
  <2>1. CASE Goto(p, "classifying", m) /\ UNCHANGED outcome
    BY <1>1, <2>1 DEF Goto, HonestMove
  <2>2. QED
    BY <1>5, <1>7, <2>1 DEF Gate
<1>8. ASSUME (\E m \in Mail : Arrive(m)) \/ OtherMatter \/ CloseMatter \/ NewYear
             \/ (\E p \in Poller : StartPoll(p)) \/ UNCHANGED vars
      PROVE  UNCHANGED records /\ UNCHANGED seen /\ UNCHANGED <<at, mail, outcome>>
  BY <1>8 DEF Arrive, OtherMatter, CloseMatter, NewYear, StartPoll, vars, inbox, pollers
<1>9. ASSUME NEW p \in Poller, TakeMail(p)
      PROVE  RecordsGrow /\ FlagsOnly /\ (HonestMove(p) \/ UNCHANGED <<at, mail, outcome>>)
  <2>1. FlagsOnly
    BY <1>3, <1>9 DEF TakeMail, inbox
  <2>2. PICK m \in queue[p] :
          \/ SkipProcessed(p, m)
          \/ RouteEmail(p, m)
          \/ Mishap /\ UNCHANGED <<records, at, mail, number, outcome, overlapped>>
    BY <1>9 DEF TakeMail
  <2>3. m \in Mail
    BY <2>2 DEF Typed, TypeOK
  <2>4. CASE SkipProcessed(p, m)
    <3>1. row[m] \in {"routed", "failed"} /\ UNCHANGED records /\ UNCHANGED outcome
          /\ Goto(p, "flagging", m)
      BY <1>1, <2>3, <2>4 DEF SkipProcessed
    <3>2. made[m] > 0 \/ row[m] = "failed"
      BY <2>3, <3>1 DEF RecordsAreTruthful
    <3>3. HonestMove(p)
      BY <1>1, <3>1, <3>2 DEF Goto, HonestMove, records
    <3>4. QED
      BY <1>2, <2>1, <3>1, <3>3
  <2>5. CASE Mishap /\ UNCHANGED <<records, at, mail, number, outcome, overlapped>>
    BY <1>2, <2>1, <2>5
  <2>6. CASE TakeLetter(p, m)
    <3>1. CASE Make(m) /\ Reply(p, m, TRUE) /\ UNCHANGED <<row, replies, mishaps>>
      BY <1>6, <2>1, <2>3, <3>1
    <3>2. CASE (Make(m) \/ UNCHANGED made) /\ PipelineThrows(p, m)
      BY <1>4, <2>1, <2>3, <3>2, ThrowIsHonest
    <3>3. QED
      BY <2>6, <3>1, <3>2 DEF TakeLetter
  <2>7. CASE Gate(p, m) /\ UNCHANGED <<records, mishaps>>
    BY <1>2, <1>7, <2>1, <2>3, <2>7
  <2>8. CASE Goto(p, "interviewing", m) /\ UNCHANGED <<records, number, outcome, mishaps>>
    <3>1. HonestMove(p)
      BY <1>1, <2>8 DEF Goto, HonestMove
    <3>2. QED
      BY <1>2, <2>1, <2>8, <3>1
  <2>9. CASE PipelineThrows(p, m) /\ UNCHANGED <<made, number>>
    BY <1>4, <2>1, <2>3, <2>9, ThrowIsHonest
  <2>10. QED
    BY <2>2, <2>4, <2>5, <2>6, <2>7, <2>8, <2>9 DEF RouteEmail, TakeEnquiry
<1>10. ASSUME NEW p \in Poller, Interviewed(p)
       PROVE  RecordsGrow /\ FlagsOnly /\ HonestMove(p)
  <2>1. mail[p] \in Mail /\ UNCHANGED row /\ FlagsOnly
    BY <1>3, <1>10 DEF Interviewed, inbox, Typed, HandsAreFull
  <2>2. CASE Make(mail[p]) /\ Reply(p, mail[p], TRUE)
    BY <1>6, <2>1, <2>2
  <2>3. CASE (Make(mail[p]) \/ UNCHANGED made) /\ Gate(p, mail[p])
    BY <1>1, <1>4, <1>7, <2>1, <2>3 DEF RecordsGrow
  <2>4. QED
    BY <1>10, <2>2, <2>3 DEF Interviewed
<1>11. ASSUME NEW p \in Poller, FileMatter(p)
       PROVE  RecordsGrow /\ FlagsOnly /\ HonestMove(p)
  <2>1. mail[p] \in Mail /\ FlagsOnly
    BY <1>3, <1>11 DEF FileMatter, inbox, Typed, HandsAreFull
  <2>2. CASE Reply(p, mail[p], FALSE) /\ UNCHANGED <<row, made>>
    <3>1. HonestMove(p)
      BY <1>5, <2>1, <2>2
    <3>2. RecordsGrow
      BY <1>1, <2>2 DEF RecordsGrow
    <3>3. QED
      BY <2>1, <3>1, <3>2
  <2>3. CASE Make(mail[p]) /\ Reply(p, mail[p], TRUE) /\ UNCHANGED row
    BY <1>6, <2>1, <2>3
  <2>4. CASE (Make(mail[p]) \/ UNCHANGED made) /\ PipelineThrows(p, mail[p])
    BY <1>4, <2>1, <2>4, ThrowIsHonest
  <2>5. QED
    BY <1>11, <2>2, <2>3, <2>4 DEF FileMatter
<1>12. ASSUME NEW p \in Poller, Replied(p)
       PROVE  RecordsGrow /\ FlagsOnly /\ HonestMove(p)
  <2>1. /\ mail[p] \in Mail /\ made' = made /\ FlagsOnly
        /\ outcome[p] => made[mail[p]] > 0
    BY <1>3, <1>12 DEF Replied, inbox, Typed, HandsAreFull, RecordsAreTruthful
  <2>2. \/ PersistProcessed(mail[p], IF outcome[p] THEN "routed" ELSE "failed")
        \/ UNCHANGED row
    BY <1>12 DEF Replied
  <2>3. RecordsGrow
    BY <1>1, <2>1, <2>2 DEF PersistProcessed, RecordsGrow
  <2>4. /\ outcome' = [outcome EXCEPT ![p] = FALSE]
        /\ IF outcome[p] THEN Goto(p, "flagging", mail[p]) ELSE Goto(p, "ready", NoMail)
    BY <1>12 DEF Replied, Leave
  <2>5. HonestMove(p)
    BY <1>1, <2>1, <2>4 DEF Goto, HonestMove
  <2>6. QED
    BY <2>1, <2>3, <2>5
<1>13. ASSUME NEW p \in Poller, Flagged(p) \/ Crash(p)
       PROVE  RecordsGrow /\ FlagsOnly /\ HonestMove(p)
  <2>1. UNCHANGED records /\ Goto(p, "ready", NoMail)
        /\ \A q \in Poller \ {p} : outcome'[q] = outcome[q]
    BY <1>1, <1>13 DEF Flagged, Crash, Leave
  <2>2. FlagsOnly
    BY <1>3, <1>13 DEF Flagged, Crash, FlagsOnly, inbox
  <2>3. HonestMove(p)
    BY <1>1, <2>1 DEF Goto, HonestMove
  <2>4. QED
    BY <1>2, <2>1, <2>2, <2>3
<1>14. QED
  BY <1>2, <1>3, <1>8, <1>9, <1>10, <1>11, <1>12, <1>13 DEF Next, Poll

LEMMA SeenStep ==
  ASSUME Typed, Typed', RecordsAreTruthful, SeenMeansHandled, [Next]_vars
  PROVE  RecordsAreTruthful' /\ SeenMeansHandled'
<1>1. /\ RecordsGrow /\ FlagsOnly
      /\ \/ UNCHANGED <<at, mail, outcome>>
         \/ \E p \in Poller : HonestMove(p)
  BY StepsAreHonest
<1>2. /\ seen \subseteq Mail /\ seen' \subseteq Mail
      /\ made \in [Mail -> Nat] /\ made' \in [Mail -> Nat]
      /\ \A p \in Poller : at[p] # "ready" => mail[p] \in Mail
  BY DEF Typed, TypeOK, HandsAreFull
<1>3. ASSUME NEW m \in Mail
      PROVE  /\ made[m] > 0 => made'[m] > 0
             /\ row[m] = "failed" => row'[m] = "failed"
             /\ row'[m] = "routed" => row[m] = "routed" \/ made'[m] > 0
  BY <1>1, <1>2 DEF RecordsGrow
<1>4. \A m \in Mail : row'[m] = "routed" => made'[m] > 0
  BY <1>3 DEF RecordsAreTruthful
<1>5. ASSUME NEW p \in Poller
      PROVE  /\ at'[p] = "replying" /\ outcome'[p] => made'[mail'[p]] > 0
             /\ at'[p] = "flagging" => made'[mail'[p]] > 0 \/ row'[mail'[p]] = "failed"
  <2>1. CASE HonestMove(p)
    BY <2>1 DEF HonestMove
  <2>2. CASE at'[p] = at[p] /\ mail'[p] = mail[p] /\ outcome'[p] = outcome[p]
    BY <1>2, <1>3, <2>2 DEF RecordsAreTruthful
  <2>3. QED
    BY <1>1, <2>1, <2>2 DEF HonestMove
<1>6. SeenMeansHandled'
  BY <1>1, <1>2, <1>3 DEF FlagsOnly, SeenMeansHandled, RecordsAreTruthful
<1>7. QED
  BY <1>4, <1>5, <1>6 DEF RecordsAreTruthful

-----------------------------------------------------------------------------
(* Each mail is handled once.  While nothing goes wrong, a step does one   *)
(* of six things to the mails that are handled.                            *)

Same == UNCHANGED <<row, made, replies, at, mail>>

(* What p does leaves the other pollers and the records of the other mails *)
(* as they are.                                                            *)
Only(p, m) ==
  /\ \A q \in Poller \ {p} : at'[q] = at[q] /\ mail'[q] = mail[q]
  /\ \A k \in Mail \ {m} : row'[k] = row[k] /\ made'[k] = made[k] /\ replies'[k] = replies[k]

Passes(p, m) ==
  /\ Only(p, m) /\ at[p] = "ready" /\ row[m] # "none"
  /\ UNCHANGED <<row, made, replies>>
  /\ at'[p] = "flagging" /\ mail'[p] = m

Begins(p, m) ==
  /\ Only(p, m) /\ at[p] = "ready" /\ row[m] = "none"
  /\ \A q \in Poller \ {p} : AtWork(q) => mail[q] # m
  /\ UNCHANGED <<row, replies>> /\ mail'[p] = m
  /\ \/ at'[p] \in {"interviewing", "classifying"} /\ made'[m] = made[m]
     \/ at'[p] = "replying" /\ made'[m] \in {made[m], made[m] + 1}

Continues(p) ==
  /\ Only(p, mail[p]) /\ at[p] \in {"interviewing", "classifying"}
  /\ UNCHANGED <<row, replies>> /\ mail'[p] = mail[p]
  /\ at'[p] = "replying" /\ made'[mail[p]] \in {made[mail[p]], made[mail[p]] + 1}

Ends(p) ==
  /\ Only(p, mail[p]) /\ at[p] = "replying" /\ UNCHANGED made
  /\ replies'[mail[p]] = replies[mail[p]] + 1
  /\ row'[mail[p]] # "none"
  /\ \/ at'[p] = "flagging" /\ mail'[p] = mail[p]
     \/ at'[p] = "ready"

Turns(p) ==
  /\ Only(p, mail[p]) /\ at[p] = "flagging" /\ UNCHANGED <<row, made, replies>>
  /\ at'[p] = "ready"

Calm == ~overlapped' /\ mishaps' = 0

LEMMA StepsOfHandling ==
  ASSUME Typed, [Next]_vars, Calm
  PROVE  /\ ~overlapped /\ mishaps = 0
         /\ \/ Same
            \/ \E p \in Poller, m \in Mail : Passes(p, m) \/ Begins(p, m)
            \/ \E p \in Poller : Continues(p) \/ Ends(p) \/ Turns(p)
<1>1. /\ at \in [Poller -> Place] /\ mail \in [Poller -> Mail \cup {NoMail}]
      /\ row \in [Mail -> {"none", "routed", "failed"}]
      /\ made \in [Mail -> Nat] /\ replies \in [Mail -> Nat] /\ mishaps \in Nat
  BY DEF Typed, TypeOK
<1>2. ~Mishap
  BY <1>1 DEF Mishap, Calm
<1>3. \A p \in Poller, m \in Mail : ~PipelineThrows(p, m)
  BY <1>2 DEF PipelineThrows
<1>4. ASSUME (\E m \in Mail : Arrive(m)) \/ OtherMatter \/ CloseMatter \/ NewYear
             \/ (\E p \in Poller : StartPoll(p)) \/ UNCHANGED vars
      PROVE  Same /\ ~overlapped /\ mishaps = 0
  BY <1>4 DEF Arrive, OtherMatter, CloseMatter, NewYear, StartPoll, vars, records, pollers, Same, Calm
<1>5. ASSUME NEW p \in Poller, NEW m \in Mail, Make(m)
      PROVE  /\ made'[m] = made[m] + 1
             /\ \A k \in Mail \ {m} : made'[k] = made[k]
  BY <1>1, <1>5 DEF Make
<1>6. ASSUME NEW p \in Poller, NEW place, NEW m, Goto(p, place, m)
      PROVE  /\ at'[p] = place /\ mail'[p] = m
             /\ \A q \in Poller \ {p} : at'[q] = at[q] /\ mail'[q] = mail[q]
  BY <1>1, <1>6 DEF Goto
<1>7. ASSUME NEW p \in Poller, TakeMail(p)
      PROVE  /\ ~overlapped /\ mishaps = 0
             /\ \E m \in Mail : Passes(p, m) \/ Begins(p, m)
  <2>1. PICK m \in queue[p] : SkipProcessed(p, m) \/ RouteEmail(p, m)
    BY <1>2, <1>7 DEF TakeMail
  <2>2. m \in Mail /\ at[p] = "ready"
    BY <1>7, <2>1 DEF TakeMail, Typed, TypeOK
  <2>3. CASE SkipProcessed(p, m)
    <3>1. /\ row[m] # "none" /\ UNCHANGED <<row, made, replies>> /\ Goto(p, "flagging", m)
          /\ ~overlapped /\ mishaps = 0
      BY <2>3 DEF SkipProcessed, records, Calm
    <3>2. Passes(p, m)
      BY <1>6, <2>2, <3>1 DEF Passes, Only
    <3>3. QED
      BY <2>2, <3>1, <3>2
  <2>4. CASE RouteEmail(p, m)
    <3>1. /\ row[m] = "none" /\ ~overlapped
          /\ \A q \in Poller \ {p} : AtWork(q) => mail[q] # m
          /\ TakeLetter(p, m) \/ TakeEnquiry(p, m)
      BY <2>4 DEF RouteEmail, Enter, Calm
    <3>2. CASE Make(m) /\ Reply(p, m, TRUE) /\ UNCHANGED <<row, replies, mishaps>>
      <4>1. Goto(p, "replying", m)
        BY <3>2 DEF Reply
      <4>2. Begins(p, m) /\ mishaps = 0
        BY <1>5, <1>6, <2>2, <3>1, <3>2, <4>1 DEF Begins, Only, Calm
      <4>3. QED
        BY <2>2, <3>1, <4>2
    <3>3. CASE /\ \E place \in {"interviewing", "classifying", "replying"} : Goto(p, place, m)
               /\ UNCHANGED <<records, mishaps>>
      <4>1. Begins(p, m) /\ mishaps = 0
        BY <1>1, <1>6, <2>2, <3>1, <3>3 DEF Begins, Only, Calm, records
      <4>2. QED
        BY <2>2, <3>1, <4>1
    <3>4. QED
      BY <1>3, <2>2, <3>1, <3>2, <3>3 DEF TakeLetter, TakeEnquiry, Gate, Reply
  <2>5. QED
    BY <2>1, <2>3, <2>4
<1>8. ASSUME NEW p \in Poller, Interviewed(p) \/ FileMatter(p)
      PROVE  ~overlapped /\ mishaps = 0 /\ Continues(p)
  <2>1. /\ mail[p] \in Mail /\ at[p] \in {"interviewing", "classifying"}
        /\ overlapped' = overlapped
    BY <1>8 DEF Interviewed, FileMatter, Typed, HandsAreFull
  <2>2. /\ UNCHANGED <<row, replies, mishaps>>
        /\ Make(mail[p]) \/ UNCHANGED made
        /\ Goto(p, "replying", mail[p])
    BY <1>2, <1>3, <1>8, <2>1 DEF Interviewed, FileMatter, Reply
  <2>3. Only(p, mail[p]) /\ made'[mail[p]] \in {made[mail[p]], made[mail[p]] + 1}
    BY <1>1, <1>5, <1>6, <2>1, <2>2 DEF Only
  <2>4. QED
    BY <1>6, <2>1, <2>2, <2>3 DEF Continues, Calm
<1>9. ASSUME NEW p \in Poller, Replied(p)
      PROVE  ~overlapped /\ mishaps = 0 /\ Ends(p)
  <2>1. /\ mail[p] \in Mail /\ at[p] = "replying"
        /\ UNCHANGED <<overlapped, made, mishaps>>
        /\ replies' = [replies EXCEPT ![mail[p]] = @ + 1]
        /\ PersistProcessed(mail[p], IF outcome[p] THEN "routed" ELSE "failed")
        /\ Goto(p, "flagging", mail[p]) \/ Goto(p, "ready", NoMail)
    BY <1>2, <1>9 DEF Replied, Leave, Typed, HandsAreFull
  <2>2. row'[mail[p]] # "none" /\ \A k \in Mail \ {mail[p]} : row'[k] = row[k]
    BY <1>1, <2>1 DEF PersistProcessed
  <2>3. /\ replies'[mail[p]] = replies[mail[p]] + 1
        /\ \A k \in Mail \ {mail[p]} : replies'[k] = replies[k]
    BY <1>1, <2>1
  <2>4. QED
    BY <1>6, <2>1, <2>2, <2>3 DEF Ends, Only, Calm
<1>10. ASSUME NEW p \in Poller, Flagged(p)
       PROVE  ~overlapped /\ mishaps = 0 /\ Turns(p)
  <2>1. /\ at[p] = "flagging" /\ UNCHANGED <<overlapped, mishaps, row, made, replies>>
        /\ Goto(p, "ready", NoMail)
    BY <1>2, <1>10 DEF Flagged, Leave, records
  <2>2. QED
    BY <1>6, <2>1 DEF Turns, Only, Calm
<1>11. \A p \in Poller : ~Crash(p)
  BY <1>2 DEF Crash
<1>12. QED
  BY <1>4, <1>7, <1>8, <1>9, <1>10, <1>11 DEF Next, Poll

LEMMA OnceStep ==
  ASSUME Typed, Typed', HandledAlone, [Next]_vars
  PROVE  HandledAlone'
<1>1. SUFFICES ASSUME Calm
               PROVE  /\ \A q \in Poller : Alone(q)' /\ Listed(q)'
                      /\ \A k \in Mail : Clean(k)' /\ Once(k)'
  BY DEF HandledAlone, NoMishap, Calm
<1>2. /\ \A q \in Poller : Alone(q) /\ Listed(q)
      /\ \A k \in Mail : Clean(k) /\ Once(k)
  BY <1>1, StepsOfHandling DEF HandledAlone, NoMishap
<1>3. /\ at \in [Poller -> Place] /\ at' \in [Poller -> Place]
      /\ made \in [Mail -> Nat] /\ made' \in [Mail -> Nat]
      /\ replies \in [Mail -> Nat] /\ replies' \in [Mail -> Nat]
      /\ \A q \in Poller : at[q] # "ready" => mail[q] \in Mail
      /\ \A q \in Poller : at'[q] # "ready" => mail'[q] \in Mail
  BY DEF Typed, TypeOK, HandsAreFull
<1>4. CASE Same
  BY <1>2, <1>4 DEF Same, Alone, Listed, Clean, Once, Handling, AtWork
<1>5. ASSUME NEW p \in Poller, NEW m \in Mail, Passes(p, m)
      PROVE  /\ \A q \in Poller : Alone(q)' /\ Listed(q)'
             /\ \A k \in Mail : Clean(k)' /\ Once(k)'
  <2>1. \A q \in Poller \ {p} : Handling(q) => mail[q] # m
    BY <1>2, <1>5 DEF Passes, Alone
  <2>2. \A q \in Poller : Alone(q)' /\ Listed(q)'
    BY <1>2, <1>5, <2>1 DEF Passes, Only, Alone, Listed, Handling, AtWork
  <2>3. \A k \in Mail : Clean(k)' /\ Once(k)'
    BY <1>2, <1>5 DEF Passes, Only, Clean, Once, Handling
  <2>4. QED
    BY <2>2, <2>3
<1>6. ASSUME NEW p \in Poller, NEW m \in Mail, Begins(p, m)
      PROVE  /\ \A q \in Poller : Alone(q)' /\ Listed(q)'
             /\ \A k \in Mail : Clean(k)' /\ Once(k)'
  <2>1. made[m] = 0 /\ replies[m] = 0
    <3>1. ~\E q \in Poller : Handling(q) /\ mail[q] = m
      BY <1>6 DEF Begins, Handling, AtWork
    <3>2. QED
      BY <1>2, <1>6, <3>1 DEF Begins, Clean
  <2>2. Alone(p)' /\ Listed(p)'
    BY <1>3, <1>6, <2>1 DEF Begins, Only, Alone, Listed, Handling, AtWork
  <2>3. ASSUME NEW q \in Poller \ {p}
        PROVE  Alone(q)' /\ Listed(q)'
    <3>1. AtWork(q) => mail[q] # m /\ mail[q] \in Mail
      BY <1>3, <1>6 DEF Begins, AtWork
    <3>2. QED
      BY <1>2, <1>6, <3>1 DEF Begins, Only, Alone, Listed, Handling, AtWork
  <2>4. \A k \in Mail : Once(k)'
    BY <1>2, <1>3, <1>6, <2>1 DEF Begins, Only, Once
  <2>5. Clean(m)'
    BY <1>6 DEF Begins, Clean, Handling
  <2>6. ASSUME NEW k \in Mail \ {m}
        PROVE  Clean(k)'
    BY <1>2, <1>6 DEF Begins, Only, Clean, Handling
  <2>7. QED
    BY <2>2, <2>3, <2>4, <2>5, <2>6
<1>7. ASSUME NEW p \in Poller, Continues(p) \/ Ends(p)
      PROVE  /\ \A q \in Poller : Alone(q)' /\ Listed(q)'
             /\ \A k \in Mail : Clean(k)' /\ Once(k)'
  <2>1. /\ Handling(p) /\ mail[p] \in Mail /\ Only(p, mail[p])
        /\ row[mail[p]] = "none" /\ replies[mail[p]] = 0 /\ made[mail[p]] <= 1
        /\ at[p] # "replying" => made[mail[p]] = 0
        /\ \A q \in Poller \ {p} : AtWork(q) => mail[q] # mail[p]
    BY <1>2, <1>3, <1>7 DEF Continues, Ends, Handling, Alone
  <2>. PICK m \in Mail : m = mail[p]
    BY <2>1
  <2>2. ASSUME NEW q \in Poller \ {p}
        PROVE  Alone(q)' /\ Listed(q)'
    <3>1. AtWork(q) => mail[q] # mail[p] /\ mail[q] \in Mail
      BY <1>3, <2>1 DEF AtWork
    <3>2. AtWork(p)' => mail'[p] = mail[p]
      BY <1>7 DEF Continues, Ends, AtWork
    <3>3. QED
      BY <1>2, <2>1, <3>1, <3>2 DEF Only, Alone, Listed, Handling, AtWork
  <2>3. CASE Continues(p)
    <3>1. /\ at'[p] = "replying" /\ mail'[p] = mail[p] /\ UNCHANGED <<row, replies>>
          /\ made'[mail[p]] <= 1
      BY <1>3, <2>1, <2>3 DEF Continues
    <3>2. Alone(p)' /\ Listed(p)'
      BY <2>1, <3>1 DEF Only, Alone, Listed, AtWork
    <3>3. \A k \in Mail : Once(k)'
      BY <1>2, <2>1, <3>1 DEF Only, Once
    <3>4. Clean(m)'
      BY <3>1 DEF Clean, Handling
    <3>5. \A k \in Mail \ {m} : Clean(k)'
      BY <1>2, <2>1, <3>1 DEF Only, Clean, Handling
    <3>6. QED
      BY <2>2, <3>2, <3>3, <3>4, <3>5
  <2>4. CASE Ends(p)
    <3>1. /\ row'[mail[p]] # "none" /\ made' = made /\ replies'[mail[p]] = 1
          /\ \/ at'[p] = "flagging" /\ mail'[p] = mail[p]
             \/ at'[p] = "ready"
      BY <2>1, <2>4 DEF Ends
    <3>2. Alone(p)' /\ Listed(p)'
      BY <3>1 DEF Alone, Listed, Handling
    <3>3. \A k \in Mail : Once(k)'
      BY <1>2, <2>1, <3>1 DEF Only, Once
    <3>4. Clean(m)'
      BY <3>1 DEF Clean
    <3>5. \A k \in Mail \ {m} : Clean(k)'
      BY <1>2, <2>1, <3>1 DEF Only, Clean, Handling
    <3>6. QED
      BY <2>2, <3>2, <3>3, <3>4, <3>5
  <2>5. QED
    BY <1>7, <2>3, <2>4
<1>8. ASSUME NEW p \in Poller, Turns(p)
      PROVE  /\ \A q \in Poller : Alone(q)' /\ Listed(q)'
             /\ \A k \in Mail : Clean(k)' /\ Once(k)'
  <2>1. \A q \in Poller : Alone(q)' /\ Listed(q)'
    BY <1>2, <1>8 DEF Turns, Only, Alone, Listed, Handling, AtWork
  <2>2. \A k \in Mail : Clean(k)' /\ Once(k)'
    BY <1>2, <1>8 DEF Turns, Only, Clean, Once, Handling
  <2>3. QED
    BY <2>1, <2>2
<1>9. QED
  BY <1>1, <1>4, <1>5, <1>6, <1>7, <1>8, StepsOfHandling

-----------------------------------------------------------------------------
(* The invariant.                                                          *)

(* Nobody has polled: no mail, no matter, no number held.                  *)
THEOREM InitHolds == Init => IInv
<1>1. SUFFICES ASSUME Init PROVE IInv
  OBVIOUS
<1>2. TypeOK /\ year \in Years
  <2>1. MaxYear \in Nat /\ 0 \in Years /\ NoNumber \in Years \X Nat
    BY InboxAssumption DEF Years, NoNumber
  <2>2. number \in [Poller -> Years \X Nat]
    BY <1>1, <2>1 DEF Init
  <2>3. QED
    BY <1>1, <2>1, <2>2 DEF Init, TypeOK, Years, Place
<1>3. HandsAreFull /\ RecordsAreTruthful /\ SeenMeansHandled
  BY <1>1 DEF Init, HandsAreFull, RecordsAreTruthful, SeenMeansHandled
<1>4. HandledAlone
  BY <1>1 DEF Init, HandledAlone, Alone, Listed, Clean, Once, Handling
<1>5. Cardinality(Pending) = 0 /\ Cardinality(Pending \ {NextMatterNumber}) = 0
  <2>1. Pending = {} /\ Pending \ {NextMatterNumber} = {}
    BY <1>1 DEF Init, Pending
  <2>2. QED
    BY <2>1, FS_EmptySet
<1>6. HeldNumbersAreFew /\ CapCountsHeld
  BY <1>1, <1>2, <1>5, InboxAssumption DEF Init, HeldNumbersAreFew, CapCountsHeld
<1>7. QED
  BY <1>2, <1>3, <1>4, <1>6 DEF IInv, Typed

LEMMA StepKeeps ==
  ASSUME IInv, [Next]_vars
  PROVE  IInv'
<1>1. Typed /\ Typed'
  BY TypeStep DEF IInv
<1>2. HeldNumbersAreFew' /\ CapCountsHeld'
  BY <1>1, CapStep DEF IInv
<1>3. RecordsAreTruthful' /\ SeenMeansHandled'
  BY <1>1, SeenStep DEF IInv
<1>4. HandledAlone'
  BY <1>1, OnceStep DEF IInv
<1>5. QED
  BY <1>1, <1>2, <1>3, <1>4 DEF IInv

THEOREM StepHolds == IInv /\ [Next]_vars => IInv'
BY StepKeeps

(* However pollers, mishaps and other makers of matters interleave, the    *)
(* invariant holds.                                                        *)
THEOREM InvariantHolds == Spec => []IInv
BY InitHolds, StepHolds, PTL DEF Spec

(* Every row, poller and counter keeps its type.                           *)
THEOREM TypeCorrect == Spec => []TypeOK
<1>1. IInv => TypeOK
  BY DEF IInv, Typed
<1>2. QED
  BY <1>1, InvariantHolds, PTL

(* A mail leads to one task, session or matter, and to one acknowledgement *)
(* (router.ts:6-7), while pollers do not overlap on it and nothing throws. *)
THEOREM MailsAreMadeOnce == Spec => []MadeOnce
<1>1. IInv => MadeOnce
  BY DEF IInv, HandledAlone, MadeOnce, Once
<1>2. QED
  BY <1>1, InvariantHolds, PTL

(* A mail that is \Seen led to something, or its failure is on record,    *)
(* whatever happens between pipeline, row and flag (router.ts:60-79).      *)
THEOREM SeenMailsAreHandled == Spec => []SeenMeansHandled
<1>1. IInv => SeenMeansHandled
  BY DEF IInv
<1>2. QED
  BY <1>1, InvariantHolds, PTL

(* The inbox does not take the firm past its licence, although the limit   *)
(* is asked before an await and not after it (legal-intake/index.ts:293).  *)
THEOREM LicenceIsKept == Spec => []CapIsKept
<1>1. IInv => CapIsKept
  <2>1. SUFFICES ASSUME IInv PROVE CapIsKept
    OBVIOUS
  <2>2. Cardinality(Pending) \in Nat
    <3>1. Pending \in SUBSET (Years \X Numbers)
      BY DEF Pending
    <3>2. QED
      BY <3>1, NumberSetsAreFinite
  <2>3. open \in Nat /\ others \in Nat /\ year \in Nat /\ MaxMatters \in Nat
    BY <2>1, InboxAssumption DEF IInv, Typed, TypeOK
  <2>4. QED
    BY <2>1, <2>2, <2>3 DEF IInv, CapCountsHeld, CapIsKept
<1>2. QED
  BY <1>1, InvariantHolds, PTL

=============================================================================
