------------------------------ MODULE Figures ------------------------------
(***************************************************************************)
(* The figures the program works out and the lawyers act upon: the redline *)
(* of two texts (documents/redline.ts), the limitation period of a matter  *)
(* (jurisdiction/limitation-periods.ts), the scores of a matter's risk and *)
(* of a client's health (pi-risk.ts, health-score.ts), the state of a      *)
(* matter's costs (cost-estimator).  Each is a function of what is asked;  *)
(* a step asks for one.                                                    *)
(*                                                                         *)
(* Amounts and scores are whole numbers, or halves counted in halves.  The *)
(* clock is the server's own: no day is shorter than another.              *)
(***************************************************************************)
EXTENDS Integers, SequencesExt, FiniteSetsExt

CONSTANTS
  Cap,              \* maxLines: how many lines of a text a redline compares
  Line, MaxLines,   \* bound: the texts that are compared
  Trigger,          \* bound: the dates that start a period
  Elapsed,          \* bound: days passed when the period is looked at
  MaxCount,         \* bound: invoices and requests of each sort
  MaxAmount         \* bound: the amounts of money

ASSUME FiguresAssumption ==
  /\ {Cap, MaxLines, MaxCount, MaxAmount} \subseteq Nat /\ Elapsed \subseteq Nat
  /\ Trigger \subseteq Nat \X (1..12) \X (1..31)

VARIABLE figure    \* what was asked, and the answer

FiguresInit == figure = [kind |-> "none"]

Asked(kind) == figure.kind = kind

-----------------------------------------------------------------------------

(* left.slice(0, maxLines), right.slice(0, maxLines)                       *)
FirstLines(text) == SubSeq(text, 1, Min({Cap, Len(text)}))

Cells(a, b) == (0..Len(a)) \X (0..Len(b))

(* The table of longest common subsequences of the prefixes.               *)
Lcs(a, b) ==
  LET dp[c \in Cells(a, b)] ==
        LET i == c[1]
            j == c[2]
        IN IF i = 0 \/ j = 0 THEN 0
           ELSE IF a[i] = b[j] THEN dp[<<i - 1, j - 1>>] + 1
           ELSE Max({dp[<<i - 1, j>>], dp[<<i, j - 1>>]})
  IN dp

Op(kind, text) == [kind |-> kind, text |-> text]

(* Seeded fault: what is left of the new text when the old one is used up  *)
(* is forgotten.                                                           *)
DiffLinesOfCommonPart(a, b) ==
  LET dp == Lcs(a, b)
      ops[c \in Cells(a, b)] ==
        LET i == c[1]
            j == c[2]
        IN IF i = 0 THEN << >>
           ELSE IF j = 0 THEN Append(ops[<<i - 1, j>>], Op("remove", a[i]))
           ELSE IF a[i] = b[j] THEN Append(ops[<<i - 1, j - 1>>], Op("same", a[i]))
           ELSE IF dp[<<i - 1, j>>] >= dp[<<i, j - 1>>]
                THEN Append(ops[<<i - 1, j>>], Op("remove", a[i]))
           ELSE Append(ops[<<i, j - 1>>], Op("add", b[j]))
  IN ops[<<Len(a), Len(b)>>]

(* diffLines walks the table from its end and reverses what it collected.  *)
DiffLines(a, b) ==
  LET dp == Lcs(a, b)
      ops[c \in Cells(a, b)] ==
        LET i == c[1]
            j == c[2]
        IN IF i = 0 /\ j = 0 THEN << >>
           ELSE IF j = 0 THEN Append(ops[<<i - 1, j>>], Op("remove", a[i]))
           ELSE IF i = 0 THEN Append(ops[<<i, j - 1>>], Op("add", b[j]))
           ELSE IF a[i] = b[j] THEN Append(ops[<<i - 1, j - 1>>], Op("same", a[i]))
           ELSE IF dp[<<i - 1, j>>] >= dp[<<i, j - 1>>]
                THEN Append(ops[<<i - 1, j>>], Op("remove", a[i]))
           ELSE Append(ops[<<i, j - 1>>], Op("add", b[j]))
  IN ops[<<Len(a), Len(b)>>]

Count(ops, kind) == Cardinality({k \in DOMAIN ops : ops[k].kind = kind})

CompareTexts(left, right) ==
  LET ops == DiffLines(FirstLines(left), FirstLines(right)) IN
  figure' = [kind |-> "redline", left |-> left, right |-> right, ops |-> ops,
             added |-> Count(ops, "add"), removed |-> Count(ops, "remove")]

-----------------------------------------------------------------------------

(* A date is <<year, month, day>>.                                         *)
Leap(y) == y % 4 = 0 /\ y # 2100
DaysIn(y, m) == IF m = 2 THEN (IF Leap(y) THEN 29 ELSE 28)
                ELSE IF m \in {4, 6, 9, 11} THEN 30 ELSE 31

(* The days of a year before a month, February at its shortest.            *)
DaysBefore == <<0, 31, 59, 90, 120, 151, 181, 212, 243, 273, 304, 334>>

(* Days since the end of 1999.                                             *)
DayNumber(d) ==
  LET years == {y \in 2000..2150 : y < d[1]} IN
  365 * Cardinality(years) + Cardinality({y \in years : Leap(y)})
    + DaysBefore[d[2]] + (IF d[2] > 2 /\ Leap(d[1]) THEN 1 ELSE 0) + d[3]

(* Seeded fault: a month is thirty days.                                   *)
AddThirtyDays(d, n) == DayNumber(d) + 30 * n

(* addMonths: a day the month does not have runs over into the next.       *)
AddMonths(d, n) ==
  LET months == d[2] - 1 + n
  IN DayNumber(<<d[1] + months \div 12, (months % 12) + 1, 1>>) + d[3] - 1

AddYears(d, n) == AddMonths(d, 12 * n)

State == {"NSW", "VIC", "QLD", "WA", "SA", "TAS", "ACT", "NT", "unknown"}

Days(n) == [unit |-> "days", n |-> n]
Months(n) == [unit |-> "months", n |-> n]
Years(n) == [unit |-> "years", n |-> n]

In(state, windows, otherwise) ==
  IF state \in DOMAIN windows THEN windows[state] ELSE otherwise

WorkersCompDays == [NSW |-> 182, VIC |-> 730, QLD |-> 182, WA |-> 365, SA |-> 365]
MotorNotificationDays == [NSW |-> 28, VIC |-> 365, QLD |-> 273, WA |-> 1095, SA |-> 1095]
FamilyProvisionMonths == [NSW |-> 12, VIC |-> 6, QLD |-> 9, WA |-> 6, SA |-> 6,
                          TAS |-> 3, ACT |-> 12, NT |-> 12]
CoolingOffBusinessDays == [NSW |-> 5, VIC |-> 3, QLD |-> 5, SA |-> 2, ACT |-> 5,
                           WA |-> 0, TAS |-> 0]

(* Business days are padded with weekends, and rounded up.                 *)
CalendarDays(days) == (days * 7 + 4) \div 5

(* The types of matters that have a period of their own, and the others.   *)
PeriodType == {"unfair-dismissal", "workers-compensation", "family-law-property",
               "family-law-children", "conveyancing", "will-and-estate", "personal-injury-motor",
               "personal-injury-public-liability", "defamation", "criminal-defence",
               "contract"}

(* The period of a type of matter in a state.                              *)
Period(type, state) ==
  CASE type = "unfair-dismissal" -> Days(21)
    [] type = "workers-compensation" -> Days(In(state, WorkersCompDays, 182))
    [] type = "family-law-property" -> Years(2)
    [] type = "family-law-children" -> Years(100)
    [] type = "conveyancing" -> Days(CalendarDays(In(state, CoolingOffBusinessDays, 5)))
    [] type = "will-and-estate" -> Months(In(state, FamilyProvisionMonths, 12))
    [] type = "personal-injury-motor" -> Days(In(state, MotorNotificationDays, 28))
    [] type = "personal-injury-public-liability" -> Years(3)
    [] type = "defamation" -> Years(1)
    [] type = "criminal-defence" -> Months(12)
    [] OTHER -> Years(6)

Expiry(period, d) ==
  IF period.unit = "days" THEN DayNumber(d) + period.n
  ELSE IF period.unit = "months" THEN AddMonths(d, period.n)
  ELSE AddYears(d, period.n)

GetLimitationPeriod(type, state, d, elapsed) ==
  LET period == Period(type, state)
      expiry == Expiry(period, d)
      remaining == expiry - (DayNumber(d) + elapsed) IN
  figure' = [kind |-> "limitation", period |-> period, trigger |-> d, expiry |-> expiry,
             remaining |-> remaining, urgent |-> remaining <= 14, critical |-> remaining <= 3]

-----------------------------------------------------------------------------

(* Math.round(a / b)                                                       *)
Round(a, b) == (2 * a + b) \div (2 * b)

(* What a matter's risk is made of; the baseline depends on its type.      *)
Factor == [baseline : {2, 3, 4, 5, 6},
           sophistication : {"low", "medium", "high"},
           value : {"small", "over 250k", "over 1m"},
           pressed : BOOLEAN,
           complexity : {"simple", "medium", "complex"},
           crowded : BOOLEAN,
           multiJurisdiction : BOOLEAN]

If(b, n) == IF b THEN n ELSE 0

(* computePIRisk, in halves up to the rounding.                            *)
RiskScore(f) ==
  LET halves ==
        2 * f.baseline + If(f.sophistication = "low", 2) - If(f.sophistication = "high", 1)
        + If(f.value = "over 1m", 3) + If(f.value = "over 250k", 1) + If(f.pressed, 2)
        + If(f.complexity = "complex", 3) - If(f.complexity = "simple", 1)
        + If(f.crowded, 2) + If(f.multiJurisdiction, 2)
  IN Max({1, Min({10, Round(halves, 2)})})

ComputePIRisk(f) ==
  figure' = [kind |-> "risk", factors |-> f, score |-> RiskScore(f), flagged |-> RiskScore(f) >= 7]

(* How many invoices a client paid, owes past their dates and owes yet,    *)
(* and the same of the documents it was asked for, late ones apart.        *)
Record == [paid : 0..MaxCount, unpaid : 0..MaxCount, open : 0..MaxCount,
           sent : 0..MaxCount, late : 0..MaxCount, missing : 0..MaxCount, asked : 0..MaxCount]

(* computePaymentScore: what is owed yet counts half a payment in time.    *)
PaymentScore(r) ==
  LET onTime == 2 * r.paid + r.open
      all == onTime + 2 * r.unpaid
  IN IF all = 0 THEN 75 ELSE Round(100 * onTime, all)

(* computeResponsivenessScore: a late answer counts three tenths.          *)
ResponsivenessScore(r) ==
  LET all == r.sent + r.late + r.missing + r.asked
  IN IF all = 0 THEN 70 ELSE Round(100 * (10 * r.sent + 5 * r.asked + 3 * r.late), 10 * all)

(* computeClientHealthScore with the other parts at what they are for one  *)
(* matter, a new client and no survey.                                     *)
HealthScore(r) ==
  Round(30 * PaymentScore(r) + 25 * ResponsivenessScore(r) + 15 * 50 + 15 * 30 + 15 * 70, 100)

ComputeClientHealthScore(r) ==
  figure' = [kind |-> "health", record |-> r, score |-> HealthScore(r), alert |-> HealthScore(r) < 50]

(* The dollars for the models and the hours of lawyers that a matter of    *)
(* medium complexity takes.                                                *)
Baselines == [
  contract |-> <<8, 6>>, employment |-> <<6, 5>>, estates |-> <<4, 4>>, family |-> <<10, 12>>,
  property |-> <<6, 5>>, commercial |-> <<12, 10>>, litigation |-> <<25, 40>>,
  criminal |-> <<8, 20>>, immigration |-> <<5, 6>>, regulatory |-> <<18, 16>>,
  unclassified |-> <<6, 5>>]

ComplexityScale == [simple |-> 4, medium |-> 10, complex |-> 25]    \* in tenths

OtherType == "wills"    \* one that has no baseline

(* estimateMatterCost, in tenths; the intake saves it, once for a matter.  *)
EstimateOf(type, complexity) ==
  LET base == Baselines[IF type \in DOMAIN Baselines THEN type ELSE "unclassified"]
  IN [aiUsd |-> ComplexityScale[complexity] * base[1], hours |-> ComplexityScale[complexity] * base[2]]

EstimateMatterCost(type, complexity) ==
  figure' = [kind |-> "estimate", type |-> type, complexity |-> complexity,
             cost |-> EstimateOf(type, complexity)]

(* getMatterCostStatus                                                     *)
CostStatus(actual, estimate) ==
  LET pct == Round(100 * actual, estimate)
  IN [warning |-> pct >= 75 /\ pct < 100, over |-> pct >= 100]

GetMatterCostStatus(actual, estimate) ==
  figure' = [kind |-> "cost", actual |-> actual, estimate |-> estimate,
             status |-> CostStatus(actual, estimate)]

FiguresStep ==
  /\ Asked("none")
  /\ \/ \E a, b \in BoundedSeq(Line, MaxLines) : CompareTexts(a, b)
     \/ \E type \in PeriodType, state \in State, d \in Trigger, elapsed \in Elapsed :
          GetLimitationPeriod(type, state, d, elapsed)
     \/ \E f \in Factor : ComputePIRisk(f)
     \/ \E r \in Record : ComputeClientHealthScore(r)
     \/ \E type \in DOMAIN Baselines \cup {OtherType}, complexity \in DOMAIN ComplexityScale :
          EstimateMatterCost(type, complexity)
     \/ \E actual \in 0..MaxAmount, estimate \in 1..MaxAmount : GetMatterCostStatus(actual, estimate)

-----------------------------------------------------------------------------

(* The texts of the marked lines but those of a kind.                      *)
Without(kind, ops) ==
  LET text[k \in 0..Len(ops)] ==
        IF k = 0 THEN << >>
        ELSE IF ops[k].kind = kind THEN text[k - 1]
        ELSE Append(text[k - 1], ops[k].text)
  IN text[Len(ops)]

(* Two texts side by side: pairs of equal lines, in the order of both.     *)
Alignments(a, b) ==
  {m \in SUBSET {c \in (DOMAIN a) \X (DOMAIN b) : a[c[1]] = b[c[2]]} :
     \A x, y \in m : x[1] < y[1] <=> x[2] < y[2]}

(* A redline loses nothing of the lines it compares and marks no more than *)
(* it must: without what it adds they are the old text, without what it    *)
(* removes the new one, and no two texts side by side leave fewer lines    *)
(* without a partner.  What is beyond the first 5,000 lines is not in it   *)
(* (redline.ts:51-84, 138-160).                                            *)
RedlineIsFaithful ==
  Asked("redline") =>
    LET a == FirstLines(figure.left)
        b == FirstLines(figure.right)
    IN /\ Without("add", figure.ops) = a
       /\ Without("remove", figure.ops) = b
       /\ \A m \in Alignments(a, b) : Cardinality(m) <= Len(a) - figure.removed
       /\ Len(b) - figure.added = Len(a) - figure.removed

(* A period of months ends on the day of the same number, or on the last   *)
(* of a month that has none; the program's date is never before that day   *)
(* and runs over by three days at most.  Nothing is critical and not       *)
(* urgent (limitation-periods.ts:76-92, date-utils.ts:46-58).              *)
DeadlinesKeepToTheCalendar ==
  Asked("limitation") =>
    LET d == figure.trigger
        n == IF figure.period.unit = "years" THEN 12 * figure.period.n ELSE figure.period.n
        y == d[1] + (d[2] - 1 + n) \div 12
        m == ((d[2] - 1 + n) % 12) + 1
        due == DayNumber(<<y, m, Min({d[3], DaysIn(y, m)})>>)
    IN /\ figure.period.unit # "days" => figure.expiry \in due..(due + 3)
       /\ figure.critical => figure.urgent
       /\ figure.remaining < 0 => figure.critical

(* One factor worse.                                                       *)
Worse(f) ==
  {[f EXCEPT !.baseline = @ + 1], [f EXCEPT !.pressed = TRUE], [f EXCEPT !.crowded = TRUE],
   [f EXCEPT !.multiJurisdiction = TRUE], [f EXCEPT !.sophistication = "low"],
   [f EXCEPT !.value = "over 1m"], [f EXCEPT !.complexity = "complex"]}
  \cup (IF f.value = "small" THEN {[f EXCEPT !.value = "over 250k"]} ELSE {})
  \cup (IF f.complexity = "simple" THEN {[f EXCEPT !.complexity = "medium"]} ELSE {})
  \cup (IF f.sophistication = "high" THEN {[f EXCEPT !.sophistication = "medium"]} ELSE {})

(* The client lets a date pass, of an invoice or of a document.            *)
Slips(r) ==
  {s \in {[r EXCEPT !.open = @ - 1, !.unpaid = @ + 1],
          [r EXCEPT !.asked = @ - 1, !.missing = @ + 1]} : s.open >= 0 /\ s.asked >= 0}

(* No warning is taken back because things got worse: a factor of the risk *)
(* that rises never lowers the score, a date a client lets pass never      *)
(* raises its health, and a matter that cost more is still warned about.   *)
(* Every matter has an estimate to warn from, and a complex one is never   *)
(* estimated cheaper than a simple one (pi-risk.ts:51-117,                 *)
(* health-score.ts:48-115, cost-estimator/index.ts:33-75, 147-162).        *)
WarningsAreNotTakenBack ==
  /\ Asked("risk") => \A g \in Worse(figure.factors) : RiskScore(g) >= figure.score
  /\ Asked("health") => \A s \in Slips(figure.record) : HealthScore(s) <= figure.score
  /\ Asked("estimate") =>
       LET cost(complexity) == EstimateOf(figure.type, complexity) IN
       /\ figure.cost.aiUsd > 0 /\ figure.cost.hours > 0
       /\ cost("simple").aiUsd < cost("medium").aiUsd /\ cost("medium").aiUsd < cost("complex").aiUsd
       /\ cost("simple").hours < cost("medium").hours /\ cost("medium").hours < cost("complex").hours
  /\ Asked("cost") =>
       LET more == CostStatus(figure.actual + 1, figure.estimate) IN
       /\ figure.status.over => more.over
       /\ figure.status.warning => more.warning \/ more.over
       /\ 4 * figure.actual >= 3 * figure.estimate => figure.status.warning \/ figure.status.over

=============================================================================
