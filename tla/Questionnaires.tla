--------------------------- MODULE Questionnaires ---------------------------
(***************************************************************************)
(* What a client is asked before the first consultation, and what is made  *)
(* of the answers: the question sets (question-sets/*.ts), the order in    *)
(* which they are asked (intake-agent.ts), the rules that flag a matter as *)
(* urgent while it is asked, and the context of the brief                  *)
(* (context-builder.ts) with its limitation period and its forum           *)
(* (court-registry.ts).  How answers of one client overlap is the matter   *)
(* of IntakeSessions; here one interview runs to its end.                  *)
(*                                                                         *)
(* An answer no rule reads is "words".  Who answers by mail may write a    *)
(* state as he likes, a date so that it cannot be read, and an amount so   *)
(* that another is read.                                                   *)
(***************************************************************************)
EXTENDS Figures

CONSTANTS
  Occasion,   \* bound: the dates clients name
  Passed,     \* bound: the days between such a date and the day of an answer
  Amount      \* bound: the amounts clients name, in thousands

ASSUME QuestionnairesAssumption ==
  /\ Occasion \subseteq Nat \X (1..12) \X (1..31)
  /\ Passed \subseteq Int /\ Amount \subseteq Nat

VARIABLE interview    \* the type of the matter and the answers so far

Unreadable == << >>
Words == "words"

(* A state as the client writes it: NSW, nsw, New South Wales.             *)
Written == [state : State \ {"unknown"}, form : {"code", "lower", "name"}]
             \cup {[state |-> "unknown", form |-> "name"]}
Nowhere == [state |-> "unknown", form |-> "name"]

(* What the rules of workers compensation read, and those of the sets that *)
(* raise the answer to upper case first.                                   *)
Verbatim(w) == IF w.form = "code" THEN w.state ELSE "unknown"
UpperCase(w) == IF w.form = "name" THEN "unknown" ELSE w.state

(* normaliseState knows the codes in either case and the names.            *)
NormaliseState(w) == w.state

(* What the client means, and what parseFloat makes of the figures and     *)
(* dots in his words: the same when he writes the amount in figures, but   *)
(* next to nothing for "1.2 million".                                      *)
Claim == [meant : Amount, read : Amount]
InFigures(amount) == [meant |-> amount, read |-> amount]

-----------------------------------------------------------------------------

(* A question is asked if the answers are those of its condition: a set of *)
(* pairs, a question and its answer.                                       *)
Question(id, answers) == [id |-> id, answers |-> answers, starts |-> FALSE, if |-> {}]

Open(id) == Question(id, {Words})
YesNo(id) == Question(id, {"yes", "no", Words})
WhichState == Question("state", Written)
HowMuch(id) == Question(id, Claim)
When(id) == Question(id, Occasion \cup {Unreadable})

(* limitationPeriodTrigger                                                 *)
Starting(question) == [question EXCEPT !.starts = TRUE]

(* followUpIf                                                              *)
FollowUp(id, answer, question) == [question EXCEPT !.if = {<<id, answer>>}]

(* A rule that counts days: which answer starts the clock, how long it     *)
(* runs in a state, from how many days before its end the matter is        *)
(* urgent, and whether it still is when the end has passed.                *)
ClockIn(id, period, warning) ==
  [from |-> id, period |-> period, warning |-> warning, if |-> {}, past |-> TRUE]
Clock(id, period, warning) == ClockIn(id, [w \in Written |-> period], warning)

(* A question set: the questions, the clocks, and the answers that make a  *)
(* matter urgent whatever the day.                                         *)
QuestionSet(questions, clocks, alarms) ==
  [questions |-> questions, clocks |-> clocks, alarms |-> alarms]

-----------------------------------------------------------------------------

UnfairDismissal == QuestionSet(
  <<Starting(When("dismissal_date")), Open("length_of_service"), Open("small_business"),
    Open("reason_given"), Open("warnings"), Open("opportunity_to_respond"),
    Open("protected_reason"), Open("written_contract"), Open("fwc_lodged"),
    WhichState>>,
  {Clock("dismissal_date", Days(21), 21)}, {})

(* Seeded fault: where a scheme names no window the longest is taken.      *)
InTheLongest(state, windows, otherwise) ==
  IF state \in DOMAIN windows THEN windows[state] ELSE Max(Range(windows))

(* NOTIFICATION_DAYS[state] ?? otherwise                                   *)
Window(state, windows, otherwise) == In(state, windows, otherwise)

WorkersCompensation == QuestionSet(
  <<WhichState, Starting(When("injury_date")), Open("injury_kind"), Open("reported"),
    Open("still_employed"), YesNo("seen_doctor"),
    FollowUp("seen_doctor", "yes", Open("certificate_of_capacity")),
    Open("claim_lodged"), Open("receiving_payments"),
    HowMuch("average_weekly_earnings"), Open("mechanism")>>,
  {ClockIn("injury_date",
     [w \in Written |-> Days(Window(Verbatim(w),
        [NSW |-> 182, QLD |-> 182, WA |-> 365, SA |-> 365, VIC |-> 730], 182))], 30)}, {})

PersonalInjuryMotor == QuestionSet(
  <<WhichState, Starting(When("accident_date")), YesNo("police_report"),
    FollowUp("police_report", "no", Open("police_report_reason")), Open("role"),
    YesNo("at_fault_identified"),
    FollowUp("at_fault_identified", "no", Open("hit_and_run")),
    Open("at_fault_insured"), Open("injuries"), Open("ongoing_treatment"),
    Open("time_off_work"), Open("claim_lodged")>>,
  {ClockIn("accident_date",
     [w \in Written |-> Days(Window(UpperCase(w),
        [NSW |-> 28, QLD |-> 273, VIC |-> 365, WA |-> 1095, SA |-> 1095], 28))], 28)}, {})

PersonalInjuryPublicLiability == QuestionSet(
  <<Question("location", {Nowhere} \cup [state : {"VIC"}, form : {"name"}]), WhichState, Starting(When("incident_date")),
    Open("responsible_party"), Open("cause"), Open("reported"), Open("witnesses"),
    Open("photos"), Open("injuries"), YesNo("seen_doctor"),
    FollowUp("seen_doctor", "yes", Open("medical_records"))>>,
  {Clock("incident_date", Years(3), 180)}, {})

(* Married, the clock runs from the divorce, else from the separation.     *)
FamilyLawProperty == QuestionSet(
  <<Question("relationship_type", {"married", "de-facto"}),
    Starting(When("separation_date")), Starting(When("divorce_date")),
    Open("relationship_length"), Open("children"), Open("existing_orders"),
    Open("asset_value"), Open("debts"), Open("proceedings_filed"), WhichState>>,
  {[Clock("divorce_date", Months(12), 30) EXCEPT !.if = {<<"relationship_type", "married">>}],
   [Clock("separation_date", Years(2), 60) EXCEPT !.if = {<<"relationship_type", "de-facto">>}]},
  {})

FamilyLawChildren == QuestionSet(
  <<Open("living_arrangement"), Open("existing_order"), Open("arrangement_sought"),
    YesNo("safety_concerns"),
    FollowUp("safety_concerns", "yes", Open("safety_reported")),
    Open("mediation_attempted"), Open("children_ages"), Open("avo_applied"), WhichState,
    YesNo("relocation_risk")>>,
  {}, {{<<"safety_concerns", "yes">>}, {<<"relocation_risk", "yes">>}})

(* Urgent while a cooling-off period runs; the rule knows five states.     *)
ConveyancingPurchase == QuestionSet(
  <<WhichState, Open("property_use"), Open("buyer_entity"), Open("first_home"),
    Open("established_or_offplan"), HowMuch("purchase_price"), Open("foreign_person"),
    YesNo("contract_received"),
    FollowUp("contract_received", "yes", When("settlement_date")),
    Open("subject_to_finance"), Open("tenant_present")>>,
  {}, {{<<"state", w>>, <<"contract_received", "yes">>} :
         w \in {w \in Written : UpperCase(w) \in {"NSW", "VIC", "QLD", "SA", "ACT"}}})

(* Urgent in the two weeks before settlement, not after it.                *)
ConveyancingSale == QuestionSet(
  <<WhichState, Open("property_use"), Open("mortgage"), YesNo("tenanted"),
    FollowUp("tenanted", "yes", Open("tenant_notice")), Open("contract_received"),
    When("settlement_date"), Open("seller_entity"), Open("foreign_resident"),
    Open("deceased_estate"), Open("special_conditions")>>,
  {[Clock("settlement_date", Days(0), 14) EXCEPT !.past = FALSE]}, {})

WillAndEstate == QuestionSet(
  <<YesNo("has_will"), FollowUp("has_will", "yes", Open("executor")),
    Open("next_of_kin"), WhichState, Open("estate_value"), Open("real_property"),
    Open("non_estate_assets"), Open("dependants_not_provided"),
    Starting(When("death_date")), Open("previous_wills"), Open("spouse_at_death"),
    Open("estate_debts")>>,
  {Clock("death_date", Months(12), 30)}, {})

DebtRecovery == QuestionSet(
  <<HowMuch("amount_owed"), Open("basis"), Open("debtor_acknowledges"),
    Open("written_agreement"), Starting(When("last_acknowledgement")),
    Open("debtor_entity"), Open("debtor_assets"), YesNo("demand_sent"),
    FollowUp("demand_sent", "yes", Open("demand_response")), Open("secured"),
    WhichState>>,
  {Clock("last_acknowledgement", Years(6), 365)}, {})

CommercialDispute == QuestionSet(
  <<Open("dispute_nature"), Open("parties"), HowMuch("value"),
    YesNo("written_agreement"),
    FollowUp("written_agreement", "yes", Open("dispute_clause")), Open("conduct"),
    Starting(When("first_occurred")), Open("correspondence"),
    Open("regulator_complaint"), Open("ongoing_dealings"), WhichState>>,
  {Clock("first_occurred", Years(6), 180)}, {})

ResidentialTenancy == QuestionSet(
  <<Open("party_role"), WhichState, Open("written_agreement"),
    Question("dispute_nature", {"eviction", "illegal-entry", Words}), HowMuch("amount"),
    YesNo("notice_served"), FollowUp("notice_served", "yes", Open("notice_detail")),
    Open("tenancy_end_or_notice_date"), Open("prior_tribunal"),
    YesNo("tenant_in_property"), Open("outcome_sought")>>,
  {}, {{<<"dispute_nature", "eviction">>, <<"notice_served", "yes">>, <<"tenant_in_property", "yes">>},
       {<<"dispute_nature", "illegal-entry">>}})

BusinessPurchase == QuestionSet(
  <<Open("sale_structure"), Open("industry"), HowMuch("purchase_price"),
    Open("heads_of_agreement"), YesNo("sale_contract"), YesNo("subject_to_finance"),
    Open("employees_transfer"), Open("leases"), Open("restraint_expected"),
    Open("seller_stays_on")>>,
  {}, {{<<"sale_contract", "yes">>, <<"subject_to_finance", "yes">>}})

Defamation == QuestionSet(
  <<Open("publication_content"), Open("publication_medium"),
    Starting(When("publication_date")), Open("publisher"), Open("publisher_type"),
    Open("falsity"), Open("harm"), Open("concerns_notice_sent"),
    Open("publisher_responded"), WhichState>>,
  {Clock("publication_date", Years(1), 30)}, {})

CriminalDefence == QuestionSet(
  <<Open("stage"), Open("offence"), When("court_date"),
    Question("court_and_state", Written), YesNo("arrested_bail"),
    FollowUp("arrested_bail", "yes", Question("bail_conditions", {"breach", Words})),
    Open("spoke_to_police"), Open("maintains_innocence"), Open("witnesses"),
    Open("prior_history"), Open("personal_circumstances")>>,
  {Clock("court_date", Days(0), 7)}, {{<<"bail_conditions", "breach">>}})

MatterType == {"unfair-dismissal", "workers-compensation", "family-law-property",
               "family-law-children", "conveyancing-purchase", "conveyancing-sale",
               "will-and-estate", "debt-recovery", "personal-injury-motor",
               "personal-injury-public-liability", "commercial-dispute",
               "residential-tenancy", "business-purchase", "defamation",
               "criminal-defence"}

QuestionSets(type) ==
  CASE type = "unfair-dismissal" -> UnfairDismissal
    [] type = "workers-compensation" -> WorkersCompensation
    [] type = "family-law-property" -> FamilyLawProperty
    [] type = "family-law-children" -> FamilyLawChildren
    [] type = "conveyancing-purchase" -> ConveyancingPurchase
    [] type = "conveyancing-sale" -> ConveyancingSale
    [] type = "will-and-estate" -> WillAndEstate
    [] type = "debt-recovery" -> DebtRecovery
    [] type = "personal-injury-motor" -> PersonalInjuryMotor
    [] type = "personal-injury-public-liability" -> PersonalInjuryPublicLiability
    [] type = "commercial-dispute" -> CommercialDispute
    [] type = "residential-tenancy" -> ResidentialTenancy
    [] type = "business-purchase" -> BusinessPurchase
    [] type = "defamation" -> Defamation
    [] type = "criminal-defence" -> CriminalDefence

-----------------------------------------------------------------------------

IsAnswered(answers, id) == id \in DOMAIN answers

Meets(answers, condition) ==
  \A c \in condition : IsAnswered(answers, c[1]) /\ answers[c[1]] = c[2]

(* The questions that apply and have no answer yet, by their places.       *)
Pending(type, answers) ==
  LET questions == QuestionSets(type).questions IN
  {i \in DOMAIN questions : Meets(answers, questions[i].if)
                              /\ ~IsAnswered(answers, questions[i].id)}

(* The state in the answers, as a rule finds it.                           *)
StateAnswer(answers) == IF IsAnswered(answers, "state") THEN answers["state"] ELSE Nowhere

(* The clocks that run, each with its last day.                            *)
Running(type, answers) ==
  {[ends |-> Expiry(clock.period[StateAnswer(answers)], answers[clock.from]),
    warning |-> clock.warning, past |-> clock.past] :
     clock \in {clock \in QuestionSets(type).clocks :
                  /\ Meets(answers, clock.if)
                  /\ IsAnswered(answers, clock.from) /\ answers[clock.from] # Unreadable}}

(* urgencyCheck: an alarm comes first, then the clock.                     *)
IsUrgent(alarm, clocks, today) ==
  alarm \/ \E c \in clocks : c.ends - today <= c.warning /\ (c.past \/ c.ends >= today)

Alarm(type, answers) == \E a \in QuestionSets(type).alarms : Meets(answers, a)

-----------------------------------------------------------------------------

(* resolveState: criminal matters name the state with the court, and a     *)
(* place may name it too.                                                  *)
ResolveState(answers) ==
  IF IsAnswered(answers, "state") THEN NormaliseState(answers["state"])
  ELSE IF IsAnswered(answers, "court_and_state") THEN NormaliseState(answers["court_and_state"])
  ELSE IF IsAnswered(answers, "location") THEN NormaliseState(answers["location"])
  ELSE "unknown"

(* resolveTriggerDate: the first starting question with a readable date.   *)
TriggerDate(type, answers) ==
  LET questions == QuestionSets(type).questions
      read == {i \in DOMAIN questions :
                 /\ questions[i].starts
                 /\ IsAnswered(answers, questions[i].id)
                 /\ answers[questions[i].id] # Unreadable}
  IN IF read = {} THEN Unreadable ELSE answers[questions[Min(read)].id]

(* getLimitationPeriod's name for the type.                                *)
PeriodOf(type) ==
  IF type \in {"conveyancing-purchase", "conveyancing-sale"} THEN "conveyancing"
  ELSE IF type \in PeriodType THEN type ELSE "contract"

(* The last day of the period in the brief.                                *)
BriefExpiry(type, answers) ==
  Expiry(Period(PeriodOf(type), ResolveState(answers)), TriggerDate(type, answers))

(* detectKeyValue: the first amount that reads as more than nothing.       *)
MoneyKeys == <<"purchase_price", "amount_owed", "value", "amount", "average_weekly_earnings">>

KeyValue(answers) ==
  LET money == {i \in DOMAIN MoneyKeys :
                  IsAnswered(answers, MoneyKeys[i]) /\ answers[MoneyKeys[i]].read > 0}
  IN IF money = {} THEN 0 ELSE answers[MoneyKeys[Min(money)]].read

(* getRelevantCourt: 0 the one court or tribunal for such matters, and     *)
(* where the amount decides 1 the lower, 2 the intermediate, 3 the supreme *)
(* court; three have no intermediate court.                                *)
Intermediate(state) == IF state \in {"TAS", "ACT", "NT"} THEN 3 ELSE 2

CivilCourtByValue(state, value) ==
  IF value > 0 /\ value < 100 THEN 1
  ELSE IF value < 750 THEN Intermediate(state)
  ELSE 3

RelevantCourt(type, state, value) ==
  IF type = "defamation" THEN (IF value >= 750 THEN 3 ELSE Intermediate(state))
  ELSE IF type \in {"debt-recovery", "commercial-dispute", "personal-injury-motor",
                    "personal-injury-public-liability", "business-purchase"}
         THEN CivilCourtByValue(state, value)
  ELSE 0

-----------------------------------------------------------------------------

NoInterview == [type |-> "none", answers |-> << >>]

InterviewsInit == interview = NoInterview

OpenQuestionnaire(type) ==
  /\ interview = NoInterview
  /\ interview' = [type |-> type, answers |-> << >>]

SubmitAnswer ==
  /\ interview # NoInterview
  /\ LET pending == Pending(interview.type, interview.answers)
         question == QuestionSets(interview.type).questions[Min(pending)]
         old == interview.answers
     IN /\ pending # {}
        /\ \E answer \in question.answers :
             interview' = [interview EXCEPT !.answers =
               [id \in (DOMAIN old) \cup {question.id} |->
                  IF id = question.id THEN answer ELSE old[id]]]

InterviewStep == (\E type \in MatterType : OpenQuestionnaire(type)) \/ SubmitAnswer

-----------------------------------------------------------------------------

(* Where the program is known to disagree with itself: the rule for        *)
(* estates counts twelve months in every state, the brief fewer in most;   *)
(* the brief counts two years from the separation, or else from the        *)
(* divorce, whether a couple was married or not.                           *)
KnownToDisagree(type, answers) ==
  \/ type = "will-and-estate" /\ ResolveState(answers) \in {"VIC", "QLD", "WA", "SA", "TAS"}
  \/ type = "family-law-property" /\ \/ Meets(answers, {<<"relationship_type", "married">>})
                                       \/ Meets(answers, {<<"separation_date", Unreadable>>})

(* Rules and brief keep a table of deadlines each, and read the state each *)
(* in its own way.  Whatever the client writes, a period the brief calls   *)
(* urgent is flagged in the interview already, and the interview never     *)
(* counts more days than the brief (question-sets/*.ts: urgencyCheck,      *)
(* limitation-periods.ts:76-92).                                           *)
DeadlinesAgree(type, answers) ==
  (TriggerDate(type, answers) # Unreadable /\ ~KnownToDisagree(type, answers)) =>
    LET ends == BriefExpiry(type, answers)
        clocks == Running(type, answers)
        first == DayNumber(TriggerDate(type, answers))
    IN /\ \A days \in Passed :
            ends - (first + days) <= 14 => IsUrgent(Alarm(type, answers), clocks, first + days)
       /\ \A c \in clocks : c.ends <= ends

(* With the same answers a flag stays up as the days pass, but for a       *)
(* settlement that is over.                                                *)
FlagsLast(type, answers) ==
  \A c \in Running(type, answers) : \A days \in Passed :
    (IsUrgent(FALSE, {c}, c.ends - days) /\ ~IsUrgent(FALSE, {c}, c.ends - days + 1)) =>
      type = "conveyancing-sale" /\ days = 0

(* What a rule reads by its name has been asked when nothing is left to    *)
(* ask, unless it follows an answer that was not given.                    *)
RulesAreFed(type, answers) ==
  Pending(type, answers) = {} =>
    LET set == QuestionSets(type)
        question(i) == set.questions[i]
        asked == DOMAIN answers
        read(condition) == {c[1] : c \in condition}
        followUps == {i \in DOMAIN set.questions : question(i).if # {}}
    IN /\ \A c \in set.clocks : {c.from} \cup read(c.if) \subseteq asked
       /\ \A a \in set.alarms : read(a) \subseteq asked \cup {question(i).id : i \in followUps}
       /\ \A i \in followUps : question(i).id \in asked <=> Meets(answers, question(i).if)

(* The court of the brief, given these answers.                            *)
Forum(type, answers) == RelevantCourt(type, ResolveState(answers), KeyValue(answers))

(* Of two clients who answer alike but for an amount, each in figures, the *)
(* one who names more is not sent to a lower court (context-builder.ts:    *)
(* 59-68, court-registry.ts:74-90).  An amount in words may be read as     *)
(* another, and one that is not known is not the least.                    *)
ForumsRise(type, answers) ==
  \A i \in DOMAIN MoneyKeys :
    LET id == MoneyKeys[i] IN
    \A more \in Amount :
      IsAnswered(answers, id) /\ answers[id] = InFigures(answers[id].meant)
        /\ answers[id].meant > 0 /\ more >= answers[id].meant =>
          Forum(type, [answers EXCEPT ![id] = InFigures(more)]) >= Forum(type, answers)

(* What the interview flags, what the brief says of the same answers, what *)
(* the rules are given to read and where the claim would go fit together.  *)
BriefsCanBeReliedOn ==
  interview # NoInterview =>
    /\ DeadlinesAgree(interview.type, interview.answers)
    /\ FlagsLast(interview.type, interview.answers)
    /\ RulesAreFed(interview.type, interview.answers)
    /\ ForumsRise(interview.type, interview.answers)

=============================================================================
