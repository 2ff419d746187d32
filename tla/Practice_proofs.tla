--------------------------- MODULE Practice_proofs ---------------------------
(***************************************************************************)
(* Proofs about what the lawyers reach through the dashboard (Practice).   *)
(*                                                                         *)
(* Seven parts keep an inductive invariant each: who may act (Accounts),   *)
(* what a model was asked for (Studies), the figures the lawyers act upon  *)
(* (Figures), what new clients are asked (Questionnaires), what is watched for the regulator (Compliance), what is      *)
(* exchanged with partners (Exchange) and what is shown to outsiders       *)
(* (Sharing).  A step of one part leaves the variables of the others       *)
(* alone, but for the records that were cut short, which are told apart by *)
(* their names.  PracticeInv is the conjunction.                           *)
(***************************************************************************)
EXTENDS Practice, FiniteSetTheorems, SequenceTheorems, NaturalsInduction, WellFoundedInduction, TLAPS

-----------------------------------------------------------------------------

(* Studies: the strategies keep apart, and what stands in the file.        *)

(* A strategy whose row and review differ is a draft that awaits its       *)
(* decision, was decided in the queue or was cut short.                    *)
IsInOrder(s, r, queue, cut) ==
  r.kind = "strategy" /\ r.row # "none" =>
    \/ r.row = r.review
    \/ r.row = "draft" /\ (r.review = "pending" \/ s \in queue \cup cut)

(* What was not answered has neither row nor review; the parts of          *)
(* StrategiesAreInOrder.                                                   *)
AdviceInv ==
  /\ StudiesTypeOK
  /\ \A s \in Study :
       /\ study[s].at # "answered" => study[s].row = "none" /\ study[s].review = "none"
       /\ IsInOrder(s, study[s], inQueue, hurt)
  /\ \A s, t \in Strategies : s # t => study[s].version # study[t].version
  /\ memo # NoStudy => study[memo].row = "approved"

LEMMA AdviceIsInOrder == ASSUME AdviceInv PROVE StrategiesAreInOrder
BY DEF AdviceInv, StrategiesAreInOrder, Strategies, IsInOrder

(* The numbers on the elements of a finite set that is not empty have a    *)
(* greatest.                                                               *)
LEMMA GreatestExists ==
  ASSUME NEW D, IsFiniteSet(D), NEW v \in [D -> Nat], D # {}
  PROVE  \E x \in D : \A y \in D : v[y] <= v[x]
<1> DEFINE Has(s) == \E x \in s : \A y \in s : v[y] <= v[x]
           T == {s \in SUBSET D : s # {} /\ ~Has(s)}
<1> SUFFICES T = {}
  OBVIOUS
<1> SUFFICES ASSUME T # {} PROVE FALSE
  OBVIOUS
<1>1. PICK s \in T : \A r \in T : ~(<<r, s>> \in StrictSubsetOrdering(D))
  <2>1. IsWellFoundedOn(StrictSubsetOrdering(D), SUBSET D)
    BY FS_FiniteSubsetsOfFinite, FS_StrictSubsetOrderingWellFounded
  <2>2. T \subseteq SUBSET D
    OBVIOUS
  <2> HIDE DEF T
  <2>3. QED
    BY <2>1, <2>2, WFMin
<1>2. PICK x \in s : TRUE
  BY <1>1
<1> DEFINE r == s \ {x}
<1>3. r \in SUBSET D /\ r \notin T
  <2>1. r \in SUBSET D /\ <<r, s>> \in (SUBSET D) \X (SUBSET D) /\ r \subseteq s /\ r # s
    BY <1>1, <1>2
  <2>2. <<r, s>> \in StrictSubsetOrdering(D)
    BY <2>1 DEF StrictSubsetOrdering
  <2>3. QED
    BY <1>1, <2>1, <2>2
<1>4. CASE r = {}
  <2>1. \A y \in s : y = x
    BY <1>4
  <2>2. v[x] \in Nat
    BY <1>1, <1>2
  <2>3. QED
    BY <1>1, <1>2, <2>1, <2>2
<1>5. CASE Has(r)
  <2>1. PICK m \in r : \A y \in r : v[y] <= v[m]
    BY <1>5
  <2>2. \A y \in s : v[y] \in Nat /\ (y = x \/ y \in r)
    BY <1>1
  <2>3. CASE v[x] <= v[m]
    <3>1. m \in s /\ \A y \in s : v[y] <= v[m]
      BY <2>1, <2>2, <2>3
    <3>2. QED
      BY <1>1, <3>1
  <2>4. CASE ~(v[x] <= v[m])
    <3>1. \A y \in s : v[y] <= v[x]
      BY <1>2, <2>1, <2>2, <2>4
    <3>2. QED
      BY <1>1, <1>2, <3>1
  <2>5. QED
    BY <2>3, <2>4
<1>6. QED
  BY <1>3, <1>4, <1>5

(* The next version is one that no study has.                              *)
LEMMA NextVersionIsNew ==
  ASSUME StudiesTypeOK, NEW s \in Study
  PROVE  NextVersion \in Nat /\ \A t \in Study : study[t].version # NextVersion
<1> DEFINE v == [t \in Study |-> study[t].version]
<1>1. v \in [Study -> Nat]
  BY DEF StudiesTypeOK, StudyState
<1>2. PICK x \in Study : \A y \in Study : v[y] <= v[x]
  BY <1>1, StudyAssumption, GreatestExists
<1>3. Versions = {v[t] : t \in Study}
  BY DEF Versions
<1>4. v[x] \in Versions /\ \A k \in Versions : v[x] >= k
  BY <1>1, <1>2, <1>3
<1>5. Max(Versions) \in Versions /\ \A k \in Versions : Max(Versions) >= k
  BY <1>4 DEF Max
<1>6. Max(Versions) \in Nat
  BY <1>1, <1>3, <1>5
<1>7. \A t \in Study : study[t].version \in Nat /\ study[t].version \in Versions
  BY <1>1, <1>3
<1>8. QED
  BY <1>5, <1>6, <1>7 DEF NextVersion

LEMMA AdviceStarts == ASSUME StudiesInit PROVE AdviceInv
<1> DEFINE idle == [kind |-> "market", at |-> "idle", review |-> "none", row |-> "none",
                    version |-> 0, noticed |-> FALSE, dated |-> FALSE, billed |-> FALSE,
                    audited |-> FALSE]
<1>1. idle \in StudyState /\ idle.row = "none" /\ idle.review = "none"
  BY DEF StudyState, Kind
<1>2. study = [s \in Study |-> idle]
  BY DEF StudiesInit
<1> HIDE DEF idle
<1>3. StudiesTypeOK
  BY <1>1, <1>2 DEF StudiesInit, StudiesTypeOK, Label
<1>4. QED
  BY <1>1, <1>2, <1>3 DEF StudiesInit, AdviceInv, IsInOrder, Strategies

(* A study that goes on, with its row, its review and what is said of them.*)
LEMMA OneStudyGoesOn ==
  ASSUME AdviceInv, NEW s \in Study, NEW r \in StudyState,
         study' = [study EXCEPT ![s] = r],
         r.at # "answered" => r.row = "none" /\ r.review = "none",
         IsInOrder(s, r, inQueue', hurt'),
         r.kind = "strategy" /\ r.row # "none" =>
           \/ s \in Strategies /\ r.version = study[s].version
           \/ \A t \in Study : study[t].version # r.version,
         memo' = memo \/ (memo' = s /\ r.row = "approved"),
         memo # NoStudy /\ memo = s => r.row = "approved",
         label' \in Label, newest' \in Study \cup {NoStudy}, inQueue' \subseteq Study,
         inQueue \subseteq inQueue', \A t \in hurt \ {s} : t \in hurt'
  PROVE  AdviceInv'
<1>1. /\ study'[s] = r
      /\ \A t \in Study : t # s => study'[t] = study[t]
  BY DEF AdviceInv, StudiesTypeOK
<1>2. StudiesTypeOK'
  BY DEF AdviceInv, StudiesTypeOK
<1>3. ASSUME NEW t \in Study
      PROVE  /\ study'[t].at # "answered" => study'[t].row = "none" /\ study'[t].review = "none"
             /\ IsInOrder(t, study'[t], inQueue', hurt')
  BY <1>1 DEF AdviceInv, IsInOrder
<1>4. Strategies' \subseteq Strategies \cup {s}
  BY <1>1 DEF Strategies
<1>5. ASSUME NEW t \in Strategies', t # s, s \in Strategies' PROVE study'[t].version # study'[s].version
  <2>1. t \in Strategies /\ t \in Study /\ study'[t] = study[t] /\ r.kind = "strategy" /\ r.row # "none"
    BY <1>1, <1>4, <1>5 DEF Strategies
  <2>2. QED
    BY <1>1, <1>5, <2>1 DEF AdviceInv
<1>6. \A t, u \in Strategies' : t # u => study'[t].version # study'[u].version
  <2>1. ASSUME NEW t \in Strategies', NEW u \in Strategies', t # u
        PROVE  study'[t].version # study'[u].version
    <3>1. CASE t # s /\ u # s
      BY <1>1, <1>4, <2>1, <3>1 DEF AdviceInv, Strategies
    <3>2. CASE t = s \/ u = s
      BY <1>5, <2>1, <3>2
    <3>3. QED
      BY <3>1, <3>2
  <2>2. QED
    BY <2>1
<1>7. memo' # NoStudy => study'[memo'].row = "approved"
  BY <1>1 DEF AdviceInv, StudiesTypeOK
<1>8. QED
  BY <1>2, <1>3, <1>6, <1>7 DEF AdviceInv

(* What a handler that passes through the given rows leaves.               *)
LEMMA SomeRowIsLeft ==
  ASSUME NEW s, NEW rows, NEW n \in Nat \ {0}, DOMAIN rows = 1..n, Become(s, Rows(rows))
  PROVE  /\ memo' = memo
         /\ \A t \in hurt \ {s} : t \in hurt'
         /\ \E i \in 1..n : /\ study' = [study EXCEPT ![s] = rows[i]]
                            /\ i = n \/ s \in hurt'
<1> DEFINE steps == Rows(rows)
<1>1. /\ DOMAIN steps = 1..n /\ Len(steps) = n
      /\ \A i \in 1..n : steps[i] = <<rows[i], memo>>
  <2>1. DOMAIN steps = 1..n /\ \A i \in 1..n : steps[i] = <<rows[i], memo>>
    BY DEF Rows
  <2>2. steps \in Seq({<<rows[i], memo>> : i \in 1..n})
    BY DEF Rows
  <2>3. Len(steps) = n
    <3>1. Len(steps) \in Nat /\ DOMAIN steps = 1..Len(steps)
      BY <2>2
    <3> HIDE DEF steps
    <3>2. QED
      BY <2>1, <3>1
  <2>4. QED
    BY <2>1, <2>3
<1> HIDE DEF steps
<1>2. PICK x \in {steps[i] : i \in DOMAIN steps} :
        Leaves(s, steps, x) /\ study' = [study EXCEPT ![s] = x[1]] /\ memo' = x[2]
  BY DEF Become, steps
<1>3. \A t \in hurt \ {s} : t \in hurt'
  BY <1>2 DEF Leaves
<1>4. \E i \in 1..n : x = steps[i] /\ (i = n \/ s \in hurt')
  <2>1. CASE x = steps[Len(steps)]
    BY <1>1, <2>1
  <2>2. CASE (\E i \in 1..(Len(steps) - 1) : x = steps[i]) /\ hurt' = hurt \cup {s}
    BY <1>1, <2>2
  <2>3. QED
    BY <1>2, <2>1, <2>2 DEF Leaves
<1>5. PICK i \in 1..n : x = <<rows[i], memo>> /\ (i = n \/ s \in hurt')
  BY <1>1, <1>4
<1>6. x[1] = rows[i] /\ x[2] = memo
  BY <1>5
<1>7. study' = [study EXCEPT ![s] = rows[i]] /\ memo' = memo
  BY <1>2, <1>6
<1>8. QED
  BY <1>3, <1>5, <1>7

(* The rows of a handler whose run is billed and audited at the end.       *)
LEMMA BilledAndAudited ==
  ASSUME NEW r \in StudyState, NEW cost \in BOOLEAN
  PROVE  \E b, a \in StudyState :
           /\ BillAndAudit(r, cost) = <<b, a>>
           /\ \A x \in {a, b} : /\ x.kind = r.kind /\ x.at = r.at /\ x.row = r.row
                                /\ x.review = r.review /\ x.version = r.version
<1> DEFINE b == IF cost /\ r.kind # "market" THEN [r EXCEPT !.billed = TRUE] ELSE r
           a == [b EXCEPT !.audited = TRUE]
<1>1. /\ b \in StudyState
      /\ b.kind = r.kind /\ b.at = r.at /\ b.row = r.row /\ b.review = r.review /\ b.version = r.version
  BY DEF StudyState
<1>2. BillAndAudit(r, cost) = <<b, a>>
  BY DEF BillAndAudit
<1> HIDE DEF b
<1>3. /\ a \in StudyState
      /\ a.kind = b.kind /\ a.at = b.at /\ a.row = b.row /\ a.review = b.review /\ a.version = b.version
  BY <1>1 DEF StudyState
<1> HIDE DEF a
<1>4. QED
  BY <1>1, <1>2, <1>3

(* A review, its row and its bill, each a write of its own.                *)
LEMMA ReviewsGoOn ==
  ASSUME AdviceInv, NEW s \in Study, NEW kind \in {"strategy", "deposition", "explainer"},
         NEW version \in Nat, NEW cost \in BOOLEAN,
         kind = "strategy" => \A t \in Study : study[t].version # version,
         Reviews(s, kind, version, cost), UNCHANGED <<label, newest, inQueue>>
  PROVE  AdviceInv'
<1>1. study[s] \in StudyState /\ study[s].row = "none" /\ study[s].review = "none"
      /\ study[s].kind = kind /\ study[s].at = "asked"
  BY DEF Reviews, Answered, AdviceInv, StudiesTypeOK
<1> DEFINE r == [study[s] EXCEPT !.at = "answered"]
           queued == [r EXCEPT !.review = "pending"]
           drafted == [queued EXCEPT !.row = "draft", !.version = version]
<1>2. r \in StudyState /\ r.row = "none" /\ r.at = "answered" /\ r.kind = kind
  BY <1>1 DEF StudyState
<1>3. Become(s, Rows(<<r, queued, drafted>> \o BillAndAudit(drafted, cost)))
  BY <1>1 DEF Reviews, Answered
<1> HIDE DEF r
<1>4. queued \in StudyState /\ queued.row = "none" /\ queued.at = "answered"
      /\ queued.review = "pending" /\ queued.kind = kind
  BY <1>2 DEF StudyState
<1> HIDE DEF queued
<1>5. drafted \in StudyState /\ drafted.row = "draft" /\ drafted.at = "answered"
      /\ drafted.review = "pending" /\ drafted.kind = kind /\ drafted.version = version
  BY <1>4 DEF StudyState
<1> HIDE DEF drafted
<1>6. PICK b, a \in StudyState :
           /\ BillAndAudit(drafted, cost) = <<b, a>>
           /\ \A x \in {a, b} : /\ x.kind = drafted.kind /\ x.at = drafted.at /\ x.row = drafted.row
                                /\ x.review = drafted.review /\ x.version = drafted.version
  BY <1>5, BilledAndAudited
<1> DEFINE rows == <<r, queued, drafted>> \o <<b, a>>
<1>7. DOMAIN rows = 1..5 /\ \A i \in 1..5 : rows[i] \in {r, queued, drafted, b, a}
  OBVIOUS
<1>8. Become(s, Rows(rows))
  BY <1>3, <1>6
<1> HIDE DEF rows
<1>9. /\ memo' = memo
      /\ \A t \in hurt \ {s} : t \in hurt'
      /\ \E i \in 1..5 : study' = [study EXCEPT ![s] = rows[i]]
  <2>1. 5 \in Nat \ {0} /\ DOMAIN rows = 1..5
    BY <1>7
  <2>2. QED
    BY <1>8, <2>1, SomeRowIsLeft, Zenon
<1>10. PICK x \in {r, queued, drafted, b, a} : study' = [study EXCEPT ![s] = x]
  BY <1>7, <1>9
<1>11. /\ x \in StudyState /\ x.at = "answered" /\ x.kind = kind
       /\ x.row = "none" \/ (x.row = "draft" /\ x.review = "pending" /\ x.version = version)
  <2>1. CASE x \in {r, queued}
    BY <1>2, <1>4, <2>1
  <2>2. CASE x = drafted
    BY <1>5, <2>2
  <2>3. CASE x \in {b, a}
    BY <1>5, <1>6, <2>3
  <2>4. QED
    BY <2>1, <2>2, <2>3
<1>12. memo # NoStudy /\ memo = s => x.row = "approved"
  BY <1>1 DEF AdviceInv, StudiesTypeOK
<1>13. IsInOrder(s, x, inQueue', hurt')
  BY <1>11 DEF IsInOrder
<1>14. label' \in Label /\ newest' \in Study \cup {NoStudy} /\ inQueue' \subseteq Study
  BY DEF AdviceInv, StudiesTypeOK
<1>15. x.kind = "strategy" /\ x.row # "none" =>
         \/ s \in Strategies /\ x.version = study[s].version
         \/ \A t \in Study : study[t].version # x.version
  BY <1>11
<1>16. /\ x \in StudyState
       /\ x.at # "answered" => x.row = "none" /\ x.review = "none"
       /\ memo' = memo \/ (memo' = s /\ x.row = "approved")
       /\ inQueue \subseteq inQueue'
  BY <1>9, <1>11
<1>17. QED
  BY <1>9, <1>10, <1>12, <1>13, <1>14, <1>15, <1>16, OneStudyGoesOn, Zenon

(* The row and its bill, of what is not reviewed.                          *)
LEMMA ShownGoOn ==
  ASSUME AdviceInv, NEW s \in Study, NEW kind \in Kind \ {"strategy"}, NEW dated \in BOOLEAN,
         NEW cost \in BOOLEAN, Shows(s, kind, dated, cost),
         label' \in Label, newest' \in Study \cup {NoStudy}, UNCHANGED inQueue
  PROVE  AdviceInv'
<1>1. study[s] \in StudyState /\ study[s].row = "none" /\ study[s].kind = kind
  BY DEF Shows, Answered, AdviceInv, StudiesTypeOK
<1> DEFINE r == [study[s] EXCEPT !.at = "answered"]
           kept == [r EXCEPT !.row = "draft"]
           entered == [kept EXCEPT !.dated = dated]
<1>2. r \in StudyState /\ r.at = "answered" /\ r.kind = kind
  BY <1>1 DEF StudyState
<1>3. Become(s, Rows(<<r, kept, entered>> \o BillAndAudit(entered, cost)))
  BY <1>1 DEF Shows, Answered
<1> HIDE DEF r
<1>4. /\ kept \in StudyState /\ kept.at = "answered" /\ kept.kind = kind
      /\ entered \in StudyState /\ entered.at = "answered" /\ entered.kind = kind
  BY <1>2 DEF StudyState
<1> HIDE DEF kept, entered
<1>5. PICK b, a \in StudyState :
           /\ BillAndAudit(entered, cost) = <<b, a>>
           /\ \A x \in {a, b} : x.kind = entered.kind /\ x.at = entered.at
  <2>1. \E b, a \in StudyState :
           /\ BillAndAudit(entered, cost) = <<b, a>>
           /\ \A x \in {a, b} : /\ x.kind = entered.kind /\ x.at = entered.at /\ x.row = entered.row
                                /\ x.review = entered.review /\ x.version = entered.version
    BY <1>4, BilledAndAudited
  <2>2. QED
    BY <2>1
<1> DEFINE rows == <<r, kept, entered>> \o <<b, a>>
<1>6. DOMAIN rows = 1..5 /\ \A i \in 1..5 : rows[i] \in {r, kept, entered, b, a}
  OBVIOUS
<1>7. Become(s, Rows(rows))
  BY <1>3, <1>5
<1> HIDE DEF rows
<1>8. /\ memo' = memo
      /\ \A t \in hurt \ {s} : t \in hurt'
      /\ \E i \in 1..5 : study' = [study EXCEPT ![s] = rows[i]]
  <2>1. 5 \in Nat \ {0} /\ DOMAIN rows = 1..5
    BY <1>6
  <2>2. QED
    BY <1>7, <2>1, SomeRowIsLeft, Zenon
<1>9. PICK x \in {r, kept, entered, b, a} : study' = [study EXCEPT ![s] = x]
  BY <1>6, <1>8
<1>10. x \in StudyState /\ x.at = "answered" /\ x.kind # "strategy"
  BY <1>2, <1>4, <1>5
<1>11. memo # NoStudy /\ memo = s => x.row = "approved"
  BY <1>1 DEF AdviceInv, StudiesTypeOK
<1>12. IsInOrder(s, x, inQueue', hurt')
  BY <1>10 DEF IsInOrder
<1>13. inQueue' \subseteq Study
  BY DEF AdviceInv, StudiesTypeOK
<1>14. /\ x.at # "answered" => x.row = "none" /\ x.review = "none"
       /\ x.kind = "strategy" /\ x.row # "none" =>
         \/ s \in Strategies /\ x.version = study[s].version
         \/ \A t \in Study : study[t].version # x.version
       /\ memo' = memo \/ (memo' = s /\ x.row = "approved")
       /\ inQueue \subseteq inQueue'
  BY <1>8, <1>10
<1>15. QED
  BY <1>8, <1>9, <1>10, <1>11, <1>12, <1>13, <1>14, OneStudyGoesOn, Zenon

LEMMA AskingGoesOn ==
  ASSUME AdviceInv, NEW s \in Study, NEW kind \in Kind, Ask(s, kind)
  PROVE  AdviceInv'
<1> DEFINE r == [study[s] EXCEPT !.kind = kind, !.at = "asked"]
<1>1. study[s] \in StudyState /\ study[s].row = "none" /\ study[s].review = "none"
  BY DEF Ask, AdviceInv, StudiesTypeOK
<1>2. r \in StudyState /\ r.row = "none" /\ r.review = "none"
  BY <1>1 DEF StudyState
<1>3. study' = [study EXCEPT ![s] = r]
  BY DEF Ask
<1> HIDE DEF r
<1>4. IsInOrder(s, r, inQueue', hurt')
  BY <1>2 DEF IsInOrder
<1>5. memo # NoStudy /\ memo = s => r.row = "approved"
  BY <1>1 DEF AdviceInv, StudiesTypeOK
<1>6. /\ label' \in Label /\ newest' \in Study \cup {NoStudy} /\ inQueue' \subseteq Study
      /\ inQueue \subseteq inQueue' /\ memo' = memo
      /\ \A t \in hurt \ {s} : t \in hurt'
  BY DEF Ask, AdviceInv, StudiesTypeOK
<1>7. /\ r.at # "answered" => r.row = "none" /\ r.review = "none"
      /\ r.kind = "strategy" /\ r.row # "none" =>
         \/ s \in Strategies /\ r.version = study[s].version
         \/ \A t \in Study : study[t].version # r.version
      /\ memo' = memo \/ (memo' = s /\ r.row = "approved")
  BY <1>2, <1>6
<1>8. QED
  BY <1>2, <1>3, <1>4, <1>5, <1>6, <1>7, OneStudyGoesOn, Zenon

(* The steps of a decision: the review, the row, the file.                 *)
LEMMA ApprovalsGoOn == ASSUME AdviceInv, NEW s \in Study, ApproveStrategy(s) PROVE AdviceInv'
<1>1. /\ study[s] \in StudyState
      /\ study[s].kind = "strategy" /\ study[s].row = "draft" /\ study[s].review = "pending"
      /\ study[s].at = "answered"
  BY DEF ApproveStrategy, AdviceInv, StudiesTypeOK, StudyState
<1> DEFINE told == [study[s] EXCEPT !.review = "approved"]
           row == [told EXCEPT !.row = "approved"]
<1>2. /\ told \in StudyState /\ told.at = "answered" /\ told.kind = "strategy"
      /\ told.row = "draft" /\ told.version = study[s].version
  BY <1>1 DEF StudyState
<1>3. PICK written \in {memo, s} : Become(s, << <<told, memo>>, <<row, memo>>, <<row, written>> >>)
  BY DEF ApproveStrategy
<1> HIDE DEF told
<1>4. /\ row \in StudyState /\ row.at = "answered" /\ row.kind = "strategy"
      /\ row.row = "approved" /\ row.review = "approved" /\ row.version = study[s].version
  <2>1. row.review = told.review /\ told.review = "approved"
    BY <1>1, <1>2 DEF told, StudyState
  <2>2. QED
    BY <1>2, <2>1 DEF StudyState
<1> HIDE DEF row
<1> DEFINE steps == << <<told, memo>>, <<row, memo>>, <<row, written>> >>
<1>5. /\ DOMAIN steps = 1..3 /\ Len(steps) = 3
      /\ steps[1] = <<told, memo>> /\ steps[2] = <<row, memo>> /\ steps[3] = <<row, written>>
  OBVIOUS
<1> HIDE DEF steps
<1>6. PICK x \in {steps[i] : i \in DOMAIN steps} :
        Leaves(s, steps, x) /\ study' = [study EXCEPT ![s] = x[1]] /\ memo' = x[2]
  BY <1>3 DEF Become, steps
<1>7. \A t \in hurt \ {s} : t \in hurt'
  BY <1>6 DEF Leaves
<1>8. \/ x = <<told, memo>> /\ s \in hurt'
      \/ x \in {<<row, memo>>, <<row, written>>}
  BY <1>5, <1>6 DEF Leaves
<1> DEFINE r == x[1]
<1>9. \/ r = told /\ memo' = memo /\ s \in hurt'
      \/ r = row /\ memo' \in {memo, s}
  BY <1>6, <1>8
<1>10. study' = [study EXCEPT ![s] = r]
  BY <1>6
<1> HIDE DEF r
<1>11. memo # NoStudy /\ memo = s => r.row = "approved"
  BY <1>1 DEF AdviceInv
<1>12. IsInOrder(s, r, inQueue', hurt')
  BY <1>2, <1>4, <1>9 DEF IsInOrder
<1>13. /\ r \in StudyState /\ r.at = "answered" /\ r.version = study[s].version
       /\ memo' = memo \/ (memo' = s /\ r.row = "approved")
  BY <1>2, <1>4, <1>9
<1>14. /\ label' \in Label /\ newest' \in Study \cup {NoStudy} /\ inQueue' \subseteq Study
       /\ inQueue \subseteq inQueue'
  BY DEF ApproveStrategy, AdviceInv, StudiesTypeOK
<1>15. /\ r.at # "answered" => r.row = "none" /\ r.review = "none"
       /\ r.kind = "strategy" /\ r.row # "none" =>
          \/ s \in Strategies /\ r.version = study[s].version
          \/ \A t \in Study : study[t].version # r.version
  BY <1>1, <1>13 DEF Strategies
<1>16. QED
  BY <1>7, <1>10, <1>11, <1>12, <1>13, <1>14, <1>15, OneStudyGoesOn, Zenon

LEMMA RejectionsGoOn == ASSUME AdviceInv, NEW s \in Study, RejectStrategy(s) PROVE AdviceInv'
<1>1. /\ study[s] \in StudyState
      /\ study[s].kind = "strategy" /\ study[s].row = "draft" /\ study[s].review = "pending"
      /\ study[s].at = "answered"
  BY DEF RejectStrategy, AdviceInv, StudiesTypeOK, StudyState
<1> DEFINE told == [study[s] EXCEPT !.review = "rejected"]
           row == [told EXCEPT !.row = "rejected"]
<1>2. /\ told \in StudyState /\ told.at = "answered" /\ told.review = "rejected"
      /\ told.row = "draft" /\ told.version = study[s].version
  BY <1>1 DEF StudyState
<1>3. Become(s, Rows(<<told, row>>))
  BY DEF RejectStrategy
<1> HIDE DEF told
<1>4. /\ row \in StudyState /\ row.at = "answered" /\ row.review = "rejected"
      /\ row.row = "rejected" /\ row.version = study[s].version
  BY <1>2 DEF StudyState
<1> HIDE DEF row
<1> DEFINE rows == <<told, row>>
<1>5. DOMAIN rows = 1..2 /\ rows[1] = told /\ rows[2] = row /\ 2 \in Nat \ {0}
  OBVIOUS
<1>6. Become(s, Rows(rows))
  BY <1>3
<1> HIDE DEF rows
<1>7. /\ memo' = memo
      /\ \A t \in hurt \ {s} : t \in hurt'
      /\ \E i \in 1..2 : /\ study' = [study EXCEPT ![s] = rows[i]]
                         /\ i = 2 \/ s \in hurt'
  BY <1>5, <1>6, SomeRowIsLeft, Zenon
<1>8. PICK i \in 1..2 : study' = [study EXCEPT ![s] = rows[i]] /\ (i = 2 \/ s \in hurt')
  BY <1>7
<1> DEFINE r == rows[i]
<1>9. \/ r = told /\ s \in hurt'
      \/ r = row
  BY <1>5, <1>8
<1>10. study' = [study EXCEPT ![s] = r]
  BY <1>8
<1> HIDE DEF r
<1>11. memo # NoStudy /\ memo = s => r.row = "approved"
  BY <1>1 DEF AdviceInv
<1>12. IsInOrder(s, r, inQueue', hurt')
  BY <1>2, <1>4, <1>9 DEF IsInOrder
<1>13. r \in StudyState /\ r.at = "answered" /\ r.version = study[s].version
  BY <1>2, <1>4, <1>9
<1>14. /\ label' \in Label /\ newest' \in Study \cup {NoStudy} /\ inQueue' \subseteq Study
       /\ inQueue \subseteq inQueue'
       /\ memo' = memo \/ (memo' = s /\ r.row = "approved")
  BY <1>7 DEF RejectStrategy, AdviceInv, StudiesTypeOK
<1>15. /\ r.at # "answered" => r.row = "none" /\ r.review = "none"
       /\ r.kind = "strategy" /\ r.row # "none" =>
          \/ s \in Strategies /\ r.version = study[s].version
          \/ \A t \in Study : study[t].version # r.version
  BY <1>1, <1>13 DEF Strategies
<1>16. QED
  BY <1>7, <1>10, <1>11, <1>12, <1>13, <1>14, <1>15, OneStudyGoesOn, Zenon

LEMMA QueueDecisionsGoOn ==
  ASSUME AdviceInv, NEW s \in Study, NEW verdict \in {"approved", "rejected"}, DecideInQueue(s, verdict)
  PROVE  AdviceInv'
<1> DEFINE r == [study[s] EXCEPT !.review = verdict]
<1>1. /\ study[s] \in StudyState /\ study[s].review = "pending" /\ study[s].at = "answered"
      /\ IsInOrder(s, study[s], inQueue, hurt)
  BY DEF DecideInQueue, AdviceInv, StudiesTypeOK, StudyState
<1>2. /\ r \in StudyState /\ r.at = "answered" /\ r.row = study[s].row /\ r.kind = study[s].kind
      /\ r.version = study[s].version
  BY <1>1 DEF StudyState
<1>3. study' = [study EXCEPT ![s] = r] /\ inQueue' = inQueue \cup {s} /\ memo' = memo
  BY DEF DecideInQueue
<1> HIDE DEF r
<1>4. r.kind = "strategy" /\ r.row # "none" => r.row = "draft"
  BY <1>1, <1>2 DEF IsInOrder, StudyState
<1>5. IsInOrder(s, r, inQueue', hurt')
  BY <1>3, <1>4 DEF IsInOrder
<1>6. memo # NoStudy /\ memo = s => r.row = "approved"
  BY <1>2 DEF AdviceInv
<1>7. /\ label' \in Label /\ newest' \in Study \cup {NoStudy} /\ inQueue' \subseteq Study
      /\ inQueue \subseteq inQueue'
      /\ memo' = memo \/ (memo' = s /\ r.row = "approved")
      /\ \A t \in hurt \ {s} : t \in hurt'
  BY <1>3 DEF DecideInQueue, AdviceInv, StudiesTypeOK
<1>8. /\ r.at # "answered" => r.row = "none" /\ r.review = "none"
      /\ r.kind = "strategy" /\ r.row # "none" =>
         \/ s \in Strategies /\ r.version = study[s].version
         \/ \A t \in Study : study[t].version # r.version
  BY <1>2 DEF Strategies
<1>9. QED
  BY <1>2, <1>3, <1>5, <1>6, <1>7, <1>8, OneStudyGoesOn, Zenon

LEMMA AcknowledgingGoesOn == ASSUME AdviceInv, AcknowledgeOutcome PROVE AdviceInv'
<1> DEFINE s == newest
           r == [study[s] EXCEPT !.noticed = TRUE]
<1>1. s \in Study /\ study[s] \in StudyState
      /\ IsInOrder(s, study[s], inQueue, hurt)
  BY DEF AcknowledgeOutcome, AdviceInv, StudiesTypeOK
<1>2. /\ r \in StudyState /\ r.at = study[s].at /\ r.row = study[s].row /\ r.kind = study[s].kind
      /\ r.version = study[s].version /\ r.review = study[s].review
  BY <1>1 DEF StudyState
<1>3. study' = [study EXCEPT ![s] = r] /\ inQueue' = inQueue /\ memo' = memo /\ hurt' = hurt
  BY DEF AcknowledgeOutcome
<1> HIDE DEF r
<1>4. IsInOrder(s, r, inQueue', hurt')
  BY <1>1, <1>2, <1>3 DEF IsInOrder
<1>5. memo # NoStudy /\ memo = s => r.row = "approved"
  BY <1>2 DEF AdviceInv
<1>6. /\ label' \in Label /\ newest' \in Study \cup {NoStudy} /\ inQueue' \subseteq Study
      /\ inQueue \subseteq inQueue'
      /\ memo' = memo \/ (memo' = s /\ r.row = "approved")
      /\ \A t \in hurt \ {s} : t \in hurt'
  BY <1>3 DEF AcknowledgeOutcome, AdviceInv, StudiesTypeOK
<1>7. /\ r.at # "answered" => r.row = "none" /\ r.review = "none"
      /\ r.kind = "strategy" /\ r.row # "none" =>
         \/ s \in Strategies /\ r.version = study[s].version
         \/ \A t \in Study : study[t].version # r.version
  BY <1>1, <1>2 DEF Strategies, AdviceInv
<1> HIDE DEF s
<1>8. QED
  BY <1>1, <1>2, <1>3, <1>4, <1>5, <1>6, <1>7, OneStudyGoesOn, Zenon

(* What leaves the studies alone, and forgets no cut of theirs.            *)
LEMMA AdviceStays ==
  ASSUME AdviceInv, UNCHANGED <<study, memo, newest, inQueue>>, label' \in Label,
         \A s \in Study : s \in hurt => s \in hurt'
  PROVE  AdviceInv'
<1>1. StudiesTypeOK'
  BY DEF AdviceInv, StudiesTypeOK
<1>2. \A s \in Study : IsInOrder(s, study[s], inQueue, hurt)'
  BY DEF AdviceInv, IsInOrder
<1>3. Strategies' = Strategies
  BY DEF Strategies
<1>4. QED
  BY <1>1, <1>2, <1>3 DEF AdviceInv

LEMMA AdviceGoesOn == ASSUME AdviceInv, StudyStep PROVE AdviceInv'
<1>1. CASE AcknowledgeOutcome
  BY <1>1, AcknowledgingGoesOn
<1>2. CASE CorrectClassification
  <2>1. label' \in Label /\ hurt' = hurt /\ UNCHANGED <<study, memo, newest, inQueue>>
    BY <1>2 DEF CorrectClassification, AdviceInv, StudiesTypeOK, Label
  <2>2. QED
    BY <2>1, AdviceStays
<1>3. ASSUME NEW s \in Study, NEW kind \in Kind, Ask(s, kind) PROVE AdviceInv'
  BY <1>3, AskingGoesOn
<1>4. ASSUME NEW s \in Study, NEW cost \in BOOLEAN, GenerateMatterStrategy(s, cost) PROVE AdviceInv'
  <2>1. NextVersion \in Nat /\ \A t \in Study : study[t].version # NextVersion
    BY NextVersionIsNew DEF AdviceInv
  <2>2. Reviews(s, "strategy", NextVersion, cost) /\ UNCHANGED <<label, newest, inQueue>>
    BY <1>4 DEF GenerateMatterStrategy
  <2>3. QED
    BY <2>1, <2>2, ReviewsGoOn
<1>5. ASSUME NEW s \in Study, NEW cost \in BOOLEAN,
             GenerateDepositionPrep(s, cost) \/ ExplainDocument(s, cost)
      PROVE  AdviceInv'
  <2>1. UNCHANGED <<label, newest, inQueue>>
    BY <1>5 DEF GenerateDepositionPrep, ExplainDocument
  <2>2. 0 \in Nat /\ "deposition" # "strategy" /\ "explainer" # "strategy"
    OBVIOUS
  <2>3. ASSUME NEW kind \in {"deposition", "explainer"}, Reviews(s, kind, 0, cost) PROVE AdviceInv'
    <3>1. kind \in {"strategy", "deposition", "explainer"} /\ kind # "strategy"
      OBVIOUS
    <3>2. QED
      BY <2>1, <2>2, <2>3, <3>1, ReviewsGoOn
  <2>4. QED
    BY <1>5, <2>3 DEF GenerateDepositionPrep, ExplainDocument
<1>6. ASSUME NEW s \in Study, NEW cost \in BOOLEAN,
             \/ PredictMatterOutcome(s, cost) \/ CompareJurisdictions(s, cost)
             \/ GenerateMarketReport(s, cost) \/ ClassifyDocument(s, cost)
      PROVE  AdviceInv'
  <2>1. label' \in Label /\ newest' \in Study \cup {NoStudy} /\ UNCHANGED inQueue
    <3>1. label \in Label /\ newest \in Study \cup {NoStudy} /\ [by |-> s, corrected |-> FALSE] \in Label
      BY DEF AdviceInv, StudiesTypeOK, Label
    <3>2. CASE PredictMatterOutcome(s, cost)
      BY <3>1, <3>2 DEF PredictMatterOutcome
    <3>3. CASE CompareJurisdictions(s, cost) \/ GenerateMarketReport(s, cost)
      BY <3>1, <3>3 DEF CompareJurisdictions, GenerateMarketReport
    <3>4. CASE ClassifyDocument(s, cost)
      BY <3>1, <3>4 DEF ClassifyDocument
    <3>5. QED
      BY <1>6, <3>2, <3>3, <3>4
  <2>2. ASSUME NEW kind \in {"outcome", "comparison", "market", "classification"}, NEW dated \in BOOLEAN,
               Shows(s, kind, dated, cost)
        PROVE  AdviceInv'
    <3>1. kind \in Kind \ {"strategy"}
      BY DEF Kind
    <3>2. QED
      BY <2>1, <2>2, <3>1, ShownGoOn
  <2>3. QED
    BY <1>6, <2>2 DEF PredictMatterOutcome, CompareJurisdictions, GenerateMarketReport, ClassifyDocument
<1>7. ASSUME NEW s \in Study, ApproveStrategy(s) \/ RejectStrategy(s) PROVE AdviceInv'
  BY <1>7, ApprovalsGoOn, RejectionsGoOn
<1>8. ASSUME NEW s \in Study, NEW verdict \in {"approved", "rejected"}, DecideInQueue(s, verdict)
      PROVE  AdviceInv'
  BY <1>8, QueueDecisionsGoOn
<1>9. QED
  BY <1>1, <1>2, <1>3, <1>4, <1>5, <1>6, <1>7, <1>8 DEF StudyStep

-----------------------------------------------------------------------------

(* Accounts: powers that are lost are used no more, but by what is in      *)
(* flight.                                                                 *)

(* The requests in flight that were let in with u's powers.                *)
Admitted(requests, u) == {b \in Browser : requests[b].kind = "admin" /\ requests[b].by = u}

(* Who is no admin can act late once more for each request of his that was *)
(* let in as an admin's and is still in flight.                            *)
AccessInv ==
  /\ AccountsTypeOK
  /\ \A u \in Person :
       IF IsAdmin(u) THEN late[u] = 0
       ELSE late[u] + Cardinality(Admitted(request, u)) <= inFlight[u]

(* There are finitely many requests, of one person and of all.             *)
LEMMA AdmittedAreCounted ==
  ASSUME NEW requests, NEW u
  PROVE  /\ IsFiniteSet(Admitted(requests, u)) /\ Cardinality(Admitted(requests, u)) \in Nat
         /\ IsFiniteSet({b \in Browser : requests[b].by = u})
         /\ Cardinality({b \in Browser : requests[b].by = u}) \in Nat
         /\ Cardinality(Admitted(requests, u)) <= Cardinality({b \in Browser : requests[b].by = u})
<1>1. /\ Admitted(requests, u) \subseteq Browser
      /\ {b \in Browser : requests[b].by = u} \subseteq Browser
      /\ Admitted(requests, u) \subseteq {b \in Browser : requests[b].by = u}
  BY DEF Admitted
<1>2. QED
  BY <1>1, AccountAssumption, FS_Subset, FS_CardinalityType

(* Requests that end let nobody act who could not before; one of them less *)
(* is one of his less.                                                     *)
LEMMA RequestsEnd ==
  ASSUME NEW old, NEW new, NEW u,
         \A b \in Browser : new[b] = old[b] \/ new[b] = NoRequest
  PROVE  /\ Cardinality(Admitted(new, u)) <= Cardinality(Admitted(old, u))
         /\ \A b \in Admitted(old, u) :
              new[b] = NoRequest => Cardinality(Admitted(new, u)) + 1 <= Cardinality(Admitted(old, u))
<1>1. Admitted(new, u) \subseteq Admitted(old, u)
  BY DEF Admitted, NoRequest
<1>2. ASSUME NEW b \in Admitted(old, u), new[b] = NoRequest
      PROVE  Cardinality(Admitted(new, u)) + 1 <= Cardinality(Admitted(old, u))
  <2> DEFINE rest == Admitted(old, u) \ {b}
  <2>1. Admitted(new, u) \subseteq rest
    BY <1>1, <1>2 DEF Admitted, NoRequest
  <2>2. IsFiniteSet(rest) /\ Cardinality(rest) = Cardinality(Admitted(old, u)) - 1
    BY AdmittedAreCounted, FS_RemoveElement
  <2>3. Cardinality(Admitted(new, u)) <= Cardinality(rest)
    BY <2>1, <2>2, FS_Subset
  <2>4. Cardinality(Admitted(new, u)) \in Nat /\ Cardinality(Admitted(old, u)) \in Nat
    BY AdmittedAreCounted
  <2> HIDE DEF rest
  <2>5. QED
    BY <2>2, <2>3, <2>4
<1>3. QED
  BY <1>1, <1>2, AdmittedAreCounted, FS_Subset

LEMMA AccessStarts == ASSUME AccountsInit PROVE AccessInv
<1>1. \A b \in Browser : request[b] = NoRequest
  BY DEF AccountsInit
<1>2. ASSUME NEW u \in Person PROVE ~IsAdmin(u) /\ Cardinality(Admitted(request, u)) = 0
  <2>1. Admitted(request, u) = {}
    BY <1>1 DEF Admitted, NoRequest
  <2>2. QED
    BY <2>1, FS_EmptySet DEF AccountsInit, IsAdmin, IsActive
<1>3. AccountsTypeOK
  <2> DEFINE none == [status |-> "none", role |-> "lawyer"]
  <2>1. none \in UserState /\ NoRequest \in RequestState
    BY DEF UserState, RequestState, NoRequest
  <2>2. user = [u \in Person |-> none] /\ request = [b \in Browser |-> NoRequest]
    BY DEF AccountsInit
  <2> HIDE DEF none
  <2>3. QED
    BY <2>1, <2>2 DEF AccountsInit, AccountsTypeOK
<1>4. \A u \in Person : late[u] = 0 /\ inFlight[u] = 0
  BY DEF AccountsInit
<1>5. QED
  BY <1>2, <1>3, <1>4 DEF AccessInv

(* A step that makes nobody act and nobody an admin or not one any more.   *)
LEMMA NobodyActs ==
  ASSUME AccessInv, AccountsTypeOK', UNCHANGED <<late, inFlight>>,
         \A u \in Person : IsAdmin(u)' <=> IsAdmin(u),
         \A u \in Person : ~IsAdmin(u) =>
           Cardinality(Admitted(request', u)) <= Cardinality(Admitted(request, u))
  PROVE  AccessInv'
<1>1. ASSUME NEW u \in Person
      PROVE  IF IsAdmin(u)' THEN late'[u] = 0
             ELSE late'[u] + Cardinality(Admitted(request', u)) <= inFlight'[u]
  <2>1. /\ Cardinality(Admitted(request, u)) \in Nat /\ Cardinality(Admitted(request', u)) \in Nat
        /\ late[u] \in Nat /\ inFlight[u] \in Nat
    BY AdmittedAreCounted DEF AccessInv, AccountsTypeOK
  <2>2. CASE IsAdmin(u)
    BY <2>2 DEF AccessInv
  <2>3. CASE ~IsAdmin(u)
    <3>1. /\ late[u] + Cardinality(Admitted(request, u)) <= inFlight[u]
          /\ Cardinality(Admitted(request', u)) <= Cardinality(Admitted(request, u))
      BY <2>3 DEF AccessInv
    <3>2. QED
      BY <2>1, <2>3, <3>1
  <2>4. QED
    BY <2>2, <2>3
<1>2. QED
  BY <1>1 DEF AccessInv

(* An act: of an admin, of the wizard, or of somebody whose request was    *)
(* let in when he was one.                                                 *)
LEMMA SomebodyActs ==
  ASSUME AccessInv, NEW by, Acts(by),
         user' \in [Person -> UserState], request' \in [Browser -> RequestState],
         UNCHANGED <<hour, setUp>>, sessions' \subseteq AccountSession,
         \A b \in Browser : request'[b] = request[b] \/ request'[b] = NoRequest,
         by \in Person /\ ~IsAdmin(by) => \E b \in Admitted(request, by) : request'[b] = NoRequest
  PROVE  AccessInv'
<1> DEFINE InFlightOf(u) == {b \in Browser : request'[b].by = u}
<1>1. \A u \in Person : late[u] \in Nat /\ inFlight[u] \in Nat
  BY DEF AccessInv, AccountsTypeOK
<1>2. \A u \in Person :
        /\ Cardinality(Admitted(request, u)) \in Nat
        /\ Cardinality(Admitted(request', u)) \in Nat
        /\ Cardinality(InFlightOf(u)) \in Nat
        /\ Cardinality(Admitted(request', u)) <= Cardinality(InFlightOf(u))
        /\ Cardinality(Admitted(request', u)) <= Cardinality(Admitted(request, u))
  BY AdmittedAreCounted, RequestsEnd
<1>3. \A u \in Person :
        /\ late'[u] = IF IsAdmin(u) \/ IsAdmin(u)' THEN 0 ELSE late[u] + (IF u = by THEN 1 ELSE 0)
        /\ inFlight'[u] = IF IsAdmin(u)' THEN 0
                          ELSE IF IsAdmin(u) THEN Cardinality(InFlightOf(u)) ELSE inFlight[u]
  BY DEF Acts
<1> HIDE DEF InFlightOf
<1>4. AccountsTypeOK'
  <2>1. \A u \in Person : late'[u] \in Nat /\ inFlight'[u] \in Nat
    BY <1>1, <1>2, <1>3
  <2>2. late' = [u \in Person |-> late'[u]] /\ inFlight' = [u \in Person |-> inFlight'[u]]
    BY DEF Acts
  <2>3. late' \in [Person -> Nat] /\ inFlight' \in [Person -> Nat]
    BY <2>1, <2>2
  <2>4. hour' \in Nat /\ setUp' \in BOOLEAN
    BY DEF AccessInv, AccountsTypeOK
  <2>5. QED
    BY <2>3, <2>4 DEF AccountsTypeOK
<1>5. ASSUME NEW u \in Person
      PROVE  IF IsAdmin(u)' THEN late'[u] = 0
             ELSE late'[u] + Cardinality(Admitted(request', u)) <= inFlight'[u]
  <2>1. CASE IsAdmin(u)'
    BY <1>3, <2>1
  <2>2. CASE ~IsAdmin(u)' /\ IsAdmin(u)
    BY <1>2, <1>3, <2>2
  <2>3. CASE ~IsAdmin(u)' /\ ~IsAdmin(u)
    <3>1. late[u] + Cardinality(Admitted(request, u)) <= inFlight[u]
      BY <2>3 DEF AccessInv
    <3>2. CASE u # by
      BY <1>1, <1>2, <1>3, <2>3, <3>1, <3>2
    <3>3. CASE u = by
      <4>1. Cardinality(Admitted(request', u)) + 1 <= Cardinality(Admitted(request, u))
        BY <2>3, <3>3, RequestsEnd
      <4>2. QED
        BY <1>1, <1>2, <1>3, <2>3, <3>1, <3>3, <4>1
    <3>4. QED
      BY <3>2, <3>3
  <2>4. QED
    BY <2>1, <2>2, <2>3
<1>6. QED
  BY <1>4, <1>5 DEF AccessInv

(* The sessions and the clock.                                             *)
LEMMA SessionsGoOn ==
  ASSUME AccessInv, UNCHANGED <<user, request, late, inFlight>>,
         hour' \in Nat, setUp' \in BOOLEAN, sessions' \subseteq AccountSession
  PROVE  AccessInv'
<1>1. AccountsTypeOK'
  BY DEF AccessInv, AccountsTypeOK
<1>2. \A u \in Person : IsAdmin(u)' <=> IsAdmin(u)
  BY DEF IsAdmin, IsActive
<1>3. ASSUME NEW u \in Person
      PROVE  Cardinality(Admitted(request', u)) <= Cardinality(Admitted(request, u))
  <2>1. Admitted(request', u) = Admitted(request, u)
    BY DEF Admitted
  <2>2. Cardinality(Admitted(request, u)) \in Nat
    BY AdmittedAreCounted
  <2>3. QED
    BY <2>1, <2>2
<1>4. QED
  BY <1>1, <1>2, <1>3, NobodyActs

LEMMA NewSessionsAreTyped ==
  ASSUME AccessInv, NEW u \in Person
  PROVE  CreateSession(u) \subseteq AccountSession
<1>1. hour + SessionLife \in Nat
  BY AccountAssumption DEF AccessInv, AccountsTypeOK
<1>2. QED
  BY <1>1 DEF CreateSession, AccessInv, AccountsTypeOK, AccountSession

(* A request that comes in: an admin's is let in while he is one.          *)
LEMMA LettingInGoesOn == ASSUME AccessInv, NEW b \in Browser, LetIn(b) PROVE AccessInv'
<1>1. PICK r \in RequestState :
        /\ request' = [request EXCEPT ![b] = r]
        /\ r.kind = "admin" => r.by \in Person /\ IsAdmin(r.by)
  <2>1. CASE ~setUp /\ request' = [request EXCEPT ![b] = [kind |-> "setup", by |-> Wizard]]
    <3> DEFINE r == [kind |-> "setup", by |-> Wizard]
    <3>1. r \in RequestState /\ r.kind # "admin"
      BY DEF RequestState
    <3>2. QED
      BY <2>1, <3>1
  <2>2. ASSUME NEW s \in sessions, IsAdmin(s.of),
               request' = [request EXCEPT ![b] = [kind |-> "admin", by |-> s.of]]
        PROVE  \E r \in RequestState : /\ request' = [request EXCEPT ![b] = r]
                                       /\ r.kind = "admin" => r.by \in Person /\ IsAdmin(r.by)
    <3>1. s.of \in Person
      BY DEF AccessInv, AccountsTypeOK, AccountSession
    <3> DEFINE r == [kind |-> "admin", by |-> s.of]
    <3>2. r \in RequestState /\ r.by = s.of
      BY <3>1 DEF RequestState
    <3>3. QED
      BY <2>2, <3>1, <3>2
  <2>3. ASSUME NEW s \in sessions, request' = [request EXCEPT ![b] = [kind |-> "sso", by |-> s.of]]
        PROVE  \E r \in RequestState : /\ request' = [request EXCEPT ![b] = r]
                                       /\ r.kind = "admin" => r.by \in Person /\ IsAdmin(r.by)
    <3>1. s.of \in Person
      BY DEF AccessInv, AccountsTypeOK, AccountSession
    <3> DEFINE r == [kind |-> "sso", by |-> s.of]
    <3>2. r \in RequestState /\ r.kind # "admin"
      BY <3>1 DEF RequestState
    <3>3. QED
      BY <2>3, <3>2
  <2>4. QED
    BY <2>1, <2>2, <2>3 DEF LetIn
<1>2. request' \in [Browser -> RequestState] /\ UNCHANGED <<hour, user, sessions, setUp, late, inFlight>>
  BY <1>1 DEF LetIn, AccessInv, AccountsTypeOK
<1>3. AccountsTypeOK'
  BY <1>2 DEF AccessInv, AccountsTypeOK
<1>4. \A u \in Person : IsAdmin(u)' <=> IsAdmin(u)
  BY <1>2 DEF IsAdmin, IsActive
<1>5. ASSUME NEW u \in Person, ~IsAdmin(u)
      PROVE  Cardinality(Admitted(request', u)) <= Cardinality(Admitted(request, u))
  <2>1. /\ request'[b] = r
        /\ \A c \in Browser : c # b => request'[c] = request[c]
    BY <1>1 DEF AccessInv, AccountsTypeOK
  <2>2. Admitted(request', u) \subseteq Admitted(request, u)
    BY <1>1, <1>5, <2>1 DEF Admitted
  <2>3. QED
    BY <2>2, AdmittedAreCounted, FS_Subset
<1>6. QED
  BY <1>2, <1>3, <1>4, <1>5, NobodyActs

(* A request that has been dealt with.                                     *)
LEMMA DismissedOnce ==
  ASSUME AccessInv, NEW b \in Browser, Dismiss(b)
  PROVE  /\ request' \in [Browser -> RequestState]
         /\ request'[b] = NoRequest
         /\ \A c \in Browser : request'[c] = request[c] \/ request'[c] = NoRequest
<1>1. NoRequest \in RequestState
  BY DEF NoRequest, RequestState
<1>2. QED
  BY <1>1 DEF Dismiss, AccessInv, AccountsTypeOK

(* An act of the one an admin's request was let in for.                    *)
LEMMA AdmittedActs ==
  ASSUME AccessInv, NEW b \in Browser, request[b].kind = "admin", Dismiss(b), Acts(request[b].by),
         user' \in [Person -> UserState], UNCHANGED <<hour, sessions, setUp>>
  PROVE  AccessInv'
<1>1. b \in Admitted(request, request[b].by)
  BY DEF Admitted
<1>2. sessions' \subseteq AccountSession
  BY DEF AccessInv, AccountsTypeOK
<1>3. QED
  BY <1>1, <1>2, DismissedOnce, SomebodyActs

(* A request that is dealt with and changes no admin.                      *)
LEMMA DismissalsGoOn ==
  ASSUME AccessInv, NEW b \in Browser, Dismiss(b), UNCHANGED <<hour, sessions, setUp, late, inFlight>>,
         user' \in [Person -> UserState], \A u \in Person : IsAdmin(u)' <=> IsAdmin(u)
  PROVE  AccessInv'
<1>1. AccountsTypeOK'
  BY DismissedOnce DEF AccessInv, AccountsTypeOK
<1>2. \A u \in Person : Cardinality(Admitted(request', u)) <= Cardinality(Admitted(request, u))
  BY DismissedOnce, RequestsEnd
<1>3. QED
  BY <1>1, <1>2, NobodyActs

LEMMA UsersAreCreated ==
  ASSUME AccessInv, NEW b \in Browser, NEW u \in Person, NEW role \in {"admin", "lawyer"},
         CreateUser(b, u, role) \/ SetRole(b, u, role)
  PROVE  AccessInv'
<1>1. request[b].kind = "admin" /\ Dismiss(b) /\ UNCHANGED <<hour, sessions, setUp>>
  BY DEF CreateUser, SetRole
<1>2. user \in [Person -> UserState]
  BY DEF AccessInv, AccountsTypeOK
<1>3. CASE Acts(request[b].by) /\ user' = [user EXCEPT ![u] = [status |-> "active", role |-> role]]
  <2>1. user' \in [Person -> UserState]
    BY <1>2, <1>3 DEF UserState
  <2>2. QED
    BY <1>1, <1>3, <2>1, AdmittedActs
<1>4. CASE Acts(request[b].by) /\ user' = [user EXCEPT ![u].role = role]
  <2>1. user' \in [Person -> UserState]
    BY <1>2, <1>4 DEF UserState
  <2>2. QED
    BY <1>1, <1>4, <2>1, AdmittedActs
<1>5. CASE UNCHANGED <<user, late, inFlight>>
  <2>1. user' \in [Person -> UserState] /\ \A w \in Person : IsAdmin(w)' <=> IsAdmin(w)
    BY <1>2, <1>5 DEF IsAdmin, IsActive
  <2>2. QED
    BY <1>1, <1>5, <2>1, DismissalsGoOn
<1>6. QED
  BY <1>3, <1>4, <1>5 DEF CreateUser, SetRole

LEMMA StatusesAreSet ==
  ASSUME AccessInv, NEW s \in sessions, NEW u \in Person, NEW status \in {"active", "suspended"},
         SetStatus(s, u, status)
  PROVE  AccessInv'
<1>1. s.of \in Person /\ IsAdmin(s.of)
  BY DEF SetStatus, LoadSession, IsAdmin, AccessInv, AccountsTypeOK, AccountSession
<1>2. user' \in [Person -> UserState]
  BY DEF SetStatus, AccessInv, AccountsTypeOK, UserState
<1>3. /\ request' \in [Browser -> RequestState] /\ sessions' \subseteq AccountSession
      /\ UNCHANGED <<hour, setUp, request>> /\ Acts(s.of)
  BY DEF SetStatus, AccessInv, AccountsTypeOK
<1>4. QED
  BY <1>1, <1>2, <1>3, SomebodyActs

LEMMA SetupGoesOn ==
  ASSUME AccessInv, NEW b \in Browser, NEW u \in Person, SetupAdmin(b, u)
  PROVE  AccessInv'
<1>1. user' \in [Person -> UserState]
  BY DEF SetupAdmin, AccessInv, AccountsTypeOK, UserState
<1>2. sessions' \subseteq AccountSession
  BY NewSessionsAreTyped DEF SetupAdmin, AccessInv, AccountsTypeOK
<1>3. Dismiss(b) /\ Acts(Wizard) /\ UNCHANGED <<hour, setUp>> /\ Wizard \notin Person
  BY AccountAssumption DEF SetupAdmin
<1>4. QED
  BY <1>1, <1>2, <1>3, DismissedOnce, SomebodyActs

LEMMA SignOnGoesOn ==
  ASSUME AccessInv, NEW b \in Browser, NEW u \in Person, HandleSsoCallback(b, u)
  PROVE  AccessInv'
<1>1. Dismiss(b) /\ UNCHANGED <<hour, sessions, setUp, late, inFlight>>
  BY DEF HandleSsoCallback
<1>2. user \in [Person -> UserState]
  BY DEF AccessInv, AccountsTypeOK
<1>3. CASE user[u].status = "none" /\ user' = [user EXCEPT ![u] = [status |-> "active", role |-> "lawyer"]]
  <2>1. user' \in [Person -> UserState]
    BY <1>2, <1>3 DEF UserState
  <2>2. \A w \in Person : IsAdmin(w)' <=> IsAdmin(w)
    BY <1>2, <1>3 DEF IsAdmin, IsActive
  <2>3. QED
    BY <1>1, <2>1, <2>2, DismissalsGoOn
<1>4. CASE UNCHANGED user
  <2>1. user' \in [Person -> UserState] /\ \A w \in Person : IsAdmin(w)' <=> IsAdmin(w)
    BY <1>2, <1>4 DEF IsAdmin, IsActive
  <2>2. QED
    BY <1>1, <2>1, DismissalsGoOn
<1>5. QED
  BY <1>3, <1>4 DEF HandleSsoCallback

LEMMA AccessGoesOn == ASSUME AccessInv, AccountStep PROVE AccessInv'
<1>1. hour \in Nat /\ setUp \in BOOLEAN /\ sessions \subseteq AccountSession
  BY DEF AccessInv, AccountsTypeOK
<1>2. CASE NextHour \/ PurgeExpiredSessions \/ SetupFinish
  <2>1. /\ UNCHANGED <<user, request, late, inFlight>>
        /\ hour' \in Nat /\ setUp' \in BOOLEAN /\ sessions' \subseteq AccountSession
    <3>1. CASE NextHour
      BY <1>1, <3>1 DEF NextHour
    <3>2. CASE PurgeExpiredSessions
      BY <1>1, <3>2 DEF PurgeExpiredSessions
    <3>3. CASE SetupFinish
      BY <1>1, <3>3 DEF SetupFinish
    <3>4. QED
      BY <1>2, <3>1, <3>2, <3>3
  <2>2. QED
    BY <2>1, SessionsGoOn
<1>3. ASSUME NEW u \in Person, Login(u) PROVE AccessInv'
  <2>1. /\ UNCHANGED <<user, request, late, inFlight, hour, setUp>>
        /\ sessions' \subseteq AccountSession
    BY <1>3, NewSessionsAreTyped DEF Login
  <2>2. QED
    BY <1>1, <2>1, SessionsGoOn
<1>4. ASSUME NEW s \in sessions, TurnAway(s) \/ Logout(s) PROVE AccessInv'
  <2>1. /\ UNCHANGED <<user, request, late, inFlight, hour, setUp>>
        /\ sessions' \subseteq AccountSession
    BY <1>1, <1>4 DEF TurnAway, Logout
  <2>2. QED
    BY <1>1, <2>1, SessionsGoOn
<1>5. QED
  BY <1>2, <1>3, <1>4, StatusesAreSet, LettingInGoesOn, SetupGoesOn, SignOnGoesOn, UsersAreCreated
  DEF AccountStep

LEMMA AccessStays == ASSUME AccessInv, UNCHANGED accountVars PROVE AccessInv'
BY SessionsGoOn DEF accountVars, AccessInv, AccountsTypeOK

LEMMA PowersEnd == ASSUME AccessInv PROVE LostPowersEnd
<1>1. ASSUME NEW u \in Person PROVE late[u] <= inFlight[u]
  <2>1. /\ Cardinality(Admitted(request, u)) \in Nat /\ late[u] \in Nat /\ inFlight[u] \in Nat
    BY AdmittedAreCounted DEF AccessInv, AccountsTypeOK
  <2>2. QED
    BY <2>1 DEF AccessInv
<1>2. QED
  BY <1>1 DEF LostPowersEnd

(* What is cut short here is an account.                                   *)
LEMMA OnlyAccountsAreMended ==
  ASSUME AccountStep, NEW s, s \notin Person, s \in hurt
  PROVE  s \in hurt'
<1>1. ASSUME NEW b \in Browser, NEW u \in Person, SetupAdmin(b, u) PROVE s \in hurt'
  BY <1>1 DEF SetupAdmin, Leaves
<1>2. QED
  BY <1>1 DEF AccountStep, NextHour, PurgeExpiredSessions, SetupFinish, Login, TurnAway, Logout, SetStatus,
              LetIn, HandleSsoCallback, CreateUser, SetRole, handlerVars

-----------------------------------------------------------------------------

(* Compliance: reviews, screenings and budgets.                            *)

(* A file has a schedule from when it is watched, and the schedule says    *)
(* when it was reviewed last; nothing is decided before the list answered. *)
WatchInv ==
  /\ ComplianceTypeOK
  /\ month >= 1
  /\ \A f \in File :
       \/ schedule[f] = NoSchedule /\ watched[f] = Never
       \/ /\ schedule[f] \in ReviewSchedule /\ watched[f] \in Nat \ {Never}
          /\ schedule[f].due = watched[f] + schedule[f].interval
  /\ \A s \in Screening : screening[s].lookup = "none" => decision[s] = "none"
  /\ NeglectIsListed /\ MatchesAreDecided /\ OverrunsShow

(* A quotient is at least k when the dividend is at least k divisors.      *)
LEMMA QuotientAtLeast ==
  ASSUME NEW a \in Int, NEW d \in Nat \ {0}, NEW k \in Int
  PROVE  a \div d \in Int /\ (a \div d >= k <=> a >= d * k)
<1> DEFINE q == a \div d
           r == a % d
<1>1. q \in Int /\ r \in 0..(d - 1) /\ a = d * q + r
  OBVIOUS
<1> HIDE DEF q, r
<1>2. ASSUME q >= k PROVE a >= d * k
  <2>1. d * q >= d * k
    BY <1>1, <1>2
  <2>2. QED
    BY <1>1, <2>1
<1>3. ASSUME ~(q >= k) PROVE ~(a >= d * k)
  <2>1. q + 1 <= k
    BY <1>1, <1>3
  <2>2. d * (q + 1) <= d * k
    BY <1>1, <2>1
  <2>3. d * (q + 1) = d * q + d
    BY <1>1
  <2>4. QED
    BY <1>1, <2>2, <2>3
<1>4. QED
  BY <1>1, <1>2, <1>3 DEF q

(* The rounded percentage is a hundred when half a percent less is spent.  *)
LEMMA BudgetIsRounded ==
  ASSUME NEW total \in Int, NEW estimate \in Int
  PROVE  LET over == BudgetStatus(total, estimate).over IN
         /\ over <=> estimate > 0 /\ 200 * total >= 199 * estimate
         /\ over \in BOOLEAN
<1> DEFINE p == IF estimate > 0 THEN (200 * total + estimate) \div (2 * estimate) ELSE 0
           o == p >= 100
<1>1. BudgetStatus(total, estimate).over = o
  BY DEF BudgetStatus
<1>2. o \in BOOLEAN
  OBVIOUS
<1>3. o <=> estimate > 0 /\ 200 * total >= 199 * estimate
  <2>1. CASE estimate > 0
    <3> DEFINE a == 200 * total + estimate
               d == 2 * estimate
               q == a \div d
    <3>1. a \in Int /\ d \in Nat \ {0}
      BY <2>1
    <3>2. q >= 100 <=> a >= d * 100
      <4> HIDE DEF a, d
      <4>1. QED
        BY <3>1, QuotientAtLeast
    <3>3. p = q
      BY <2>1
    <3> HIDE DEF q, p
    <3>4. a >= d * 100 <=> 200 * total >= 199 * estimate
      OBVIOUS
    <3> HIDE DEF a, d
    <3>5. QED
      BY <2>1, <3>2, <3>3, <3>4
  <2>2. CASE ~(estimate > 0)
    <3>1. p = 0
      BY <2>2
    <3> HIDE DEF p
    <3>2. QED
      BY <2>2, <3>1
  <2>3. QED
    BY <2>1, <2>2
<1> HIDE DEF o
<1>4. QED
  BY <1>1, <1>2, <1>3

(* Who has spent all is over, and who is over has half a percent left at   *)
(* most.                                                                   *)
LEMMA BudgetsAreTold ==
  ASSUME NEW total \in Int, NEW estimate \in Int
  PROVE  LET over == BudgetStatus(total, estimate).over IN
         /\ estimate > 0 /\ total >= estimate => over
         /\ over => 200 * total >= 199 * estimate
<1>1. estimate > 0 /\ total >= estimate => 200 * total >= 199 * estimate
  OBVIOUS
<1>2. QED
  BY <1>1, BudgetIsRounded

LEMMA WatchStarts == ASSUME ComplianceInit PROVE WatchInv
<1>1. budget \in Int /\ spent \in Int /\ ~wasOver
  BY DEF ComplianceInit
<1>2. OverrunsShow
  <2>1. budget \in Int /\ spent \in Int
    BY <1>1
  <2> DEFINE st == BudgetStatus(spent, budget)
  <2>2. /\ budget > 0 /\ spent >= budget => st.over
        /\ st.over => 200 * spent >= 199 * budget
    BY <2>1, BudgetsAreTold
  <2>3. wasOver => st.over
    BY <1>1
  <2>4. QED
    BY <2>2, <2>3 DEF OverrunsShow
<1>3. ComplianceTypeOK
  <2>1. "contract" \in DOMAIN IntervalByType
    BY DEF IntervalByType
  <2>2. files \in [File -> FileState]
    <3> DEFINE none == [status |-> "none", type |-> "contract"]
    <3>1. none \in FileState
      BY <2>1 DEF FileState
    <3>2. files = [f \in File |-> none]
      BY DEF ComplianceInit
    <3> HIDE DEF none
    <3>3. QED
      BY <3>1, <3>2
  <2>3. schedule \in [File -> ReviewSchedule \cup {NoSchedule}] /\ watched \in [File -> Nat]
    <3> HIDE DEF NoSchedule
    <3>1. QED
      BY DEF ComplianceInit, Never
  <2>4. screening \in [Screening -> ScreeningState]
    <3> DEFINE none == [status |-> "none", lookup |-> "none"]
    <3>1. none \in ScreeningState
      BY DEF ScreeningState
    <3>2. screening = [s \in Screening |-> none]
      BY DEF ComplianceInit
    <3> HIDE DEF none
    <3>3. QED
      BY <3>1, <3>2
  <2>5. /\ month \in Nat /\ named \in BOOLEAN /\ wasOver \in BOOLEAN
        /\ decision \in [Screening -> {"none", "cleared_by_review", "blocked"}]
    BY DEF ComplianceInit
  <2>6. QED
    BY <1>1, <2>2, <2>3, <2>4, <2>5 DEF ComplianceTypeOK
<1>4. QED
  BY <1>2, <1>3 DEF ComplianceInit, WatchInv, NeglectIsListed, MatchesAreDecided, NoSchedule, Never

(* The schedule a file has, or gets from now on.                           *)
LEMMA SchedulesAreEnsured ==
  ASSUME WatchInv, NEW f \in File
  PROVE  /\ EnsureSchedule(f) \in ReviewSchedule
         /\ EnsureSchedule(f).interval \in 1..3
         /\ watched[f] = Never => EnsureSchedule(f).due = month + EnsureSchedule(f).interval
         /\ watched[f] # Never =>
              watched[f] \in Nat /\ EnsureSchedule(f).due = watched[f] + EnsureSchedule(f).interval
<1>1. files[f].type \in DOMAIN IntervalByType /\ month \in Nat
  BY DEF WatchInv, ComplianceTypeOK, FileState
<1> DEFINE i == IntervalByType[files[f].type]
<1>2. i \in 1..3
  BY <1>1 DEF IntervalByType
<1> HIDE DEF i
<1>3. [interval |-> i, due |-> month + i] \in ReviewSchedule
  BY <1>1, <1>2 DEF ReviewSchedule
<1>4. EnsureSchedule(f) = IF schedule[f] # NoSchedule THEN schedule[f] ELSE [interval |-> i, due |-> month + i]
  BY DEF EnsureSchedule, i
<1>5. CASE schedule[f] = NoSchedule
  BY <1>2, <1>3, <1>4, <1>5 DEF WatchInv, ReviewSchedule, NoSchedule
<1>6. CASE schedule[f] # NoSchedule
  BY <1>4, <1>6 DEF WatchInv, ReviewSchedule
<1>7. QED
  BY <1>5, <1>6

LEMMA FileReviewsGoOn == ASSUME WatchInv, FileReviewStep PROVE WatchInv'
<1>1. month \in Nat /\ month >= 1
  BY DEF WatchInv, ComplianceTypeOK
<1> DEFINE Watch(f) ==
      \/ schedule'[f] = NoSchedule /\ watched'[f] = Never
      \/ /\ schedule'[f] \in ReviewSchedule /\ watched'[f] \in Nat \ {Never}
         /\ schedule'[f].due = watched'[f] + schedule'[f].interval
<1>2. SUFFICES /\ month' \in Nat /\ month' >= 1 /\ files' \in [File -> FileState]
               /\ schedule' = [f \in File |-> schedule'[f]] /\ watched' = [f \in File |-> watched'[f]]
               /\ \A f \in File : Watch(f)
  <2>1. UNCHANGED <<named, screening, decision, budget, spent, wasOver>>
    BY DEF FileReviewStep, screeningVars, budgetVars
  <2>2. NeglectIsListed'
    <3>1. SUFFICES ASSUME NEW f \in File, watched'[f] # Never
                   PROVE  IsOverdue(f)' <=> month' > watched'[f] + schedule'[f].interval
      BY DEF NeglectIsListed, IsOverdue
    <3>2. /\ schedule'[f] \in ReviewSchedule /\ watched'[f] \in Nat
          /\ schedule'[f].due = watched'[f] + schedule'[f].interval
      BY <1>2, <3>1
    <3>3. /\ schedule'[f] # NoSchedule /\ schedule'[f].due \in Nat
          /\ schedule'[f].interval \in Nat
      BY <3>2 DEF ReviewSchedule, NoSchedule
    <3>4. QED
      BY <1>2, <3>2, <3>3 DEF IsOverdue
  <2>3. schedule' \in [File -> ReviewSchedule \cup {NoSchedule}] /\ watched' \in [File -> Nat]
    BY <1>2 DEF Never
  <2>4. ComplianceTypeOK'
    BY <1>2, <2>1, <2>3 DEF WatchInv, ComplianceTypeOK
  <2>5. MatchesAreDecided' /\ OverrunsShow'
    BY <2>1 DEF WatchInv, MatchesAreDecided, OverrunsShow
  <2>6. QED
    BY <1>2, <2>1, <2>2, <2>4, <2>5 DEF WatchInv
<1>3. /\ files \in [File -> FileState]
      /\ schedule = [f \in File |-> schedule[f]] /\ watched = [f \in File |-> watched[f]]
      /\ \A f \in File :
           \/ schedule[f] = NoSchedule /\ watched[f] = Never
           \/ /\ schedule[f] \in ReviewSchedule /\ watched[f] \in Nat \ {Never}
              /\ schedule[f].due = watched[f] + schedule[f].interval
  BY DEF WatchInv, ComplianceTypeOK
<1>4. CASE NextMonth
  BY <1>1, <1>3, <1>4 DEF NextMonth
<1>5. CASE Start
  <2> DEFINE open == {f \in File : files[f].status = "open"}
  <2>1. PICK seen \in SUBSET open :
          /\ schedule' = [f \in File |-> IF f \in seen THEN EnsureSchedule(f) ELSE schedule[f]]
          /\ watched' = [f \in File |-> IF f \in seen /\ watched[f] = Never THEN month ELSE watched[f]]
          /\ UNCHANGED <<month, files>>
    BY <1>5 DEF Start
  <2>2. ASSUME NEW f \in File PROVE Watch(f)
    <3>1. CASE f \in seen
      <4>1. schedule'[f] = EnsureSchedule(f) /\ watched'[f] = IF watched[f] = Never THEN month ELSE watched[f]
        BY <2>1, <3>1
      <4>2. QED
        BY <1>1, <4>1, SchedulesAreEnsured DEF Never
    <3>2. CASE f \notin seen
      <4>1. schedule'[f] = schedule[f] /\ watched'[f] = watched[f]
        BY <2>1, <3>2
      <4>2. QED
        BY <1>3, <4>1
    <3>3. QED
      BY <3>1, <3>2
  <2>3. schedule' = [f \in File |-> schedule'[f]] /\ watched' = [f \in File |-> watched'[f]]
    BY <2>1
  <2> HIDE DEF Watch
  <2>4. QED
    BY <1>1, <1>3, <2>1, <2>2, <2>3
<1>6. ASSUME NEW f \in File, CompleteReview(f)
      PROVE  /\ UNCHANGED <<month, files>>
             /\ schedule' = [x \in File |-> schedule'[x]] /\ watched' = [x \in File |-> watched'[x]]
             /\ \A x \in File : Watch(x)
  <2> DEFINE e == EnsureSchedule(f)
             now == [interval |-> e.interval, due |-> month + e.interval]
  <2>1. e \in ReviewSchedule /\ e.interval \in 1..3
    BY SchedulesAreEnsured
  <2>2. now \in ReviewSchedule /\ now.due = month + now.interval
    <3> HIDE DEF e
    <3>1. QED
      BY <1>1, <2>1 DEF ReviewSchedule
  <2>3. UNCHANGED <<month, files>>
    BY <1>6 DEF CompleteReview
  <2>4. \/ schedule' = [schedule EXCEPT ![f] = now] /\ watched' = [watched EXCEPT ![f] = month]
        \/ /\ schedule' = [schedule EXCEPT ![f] = e]
           /\ watched' = [watched EXCEPT ![f] = IF @ = Never THEN month ELSE @]
    BY <1>6 DEF CompleteReview
  <2>5. schedule' = [x \in File |-> schedule'[x]] /\ watched' = [x \in File |-> watched'[x]]
    <3> HIDE DEF now, e
    <3>1. QED
      BY <1>3, <2>4
  <2>6. \A x \in File \ {f} : schedule'[x] = schedule[x] /\ watched'[x] = watched[x]
    <3> HIDE DEF now, e
    <3>1. QED
      BY <1>3, <2>4
  <2>7. \/ schedule'[f] = now /\ watched'[f] = month
        \/ schedule'[f] = e /\ watched'[f] = IF watched[f] = Never THEN month ELSE watched[f]
    <3> HIDE DEF now, e
    <3>1. QED
      BY <1>3, <2>4
  <2>8. Watch(f)
    <3>1. CASE schedule'[f] = now /\ watched'[f] = month
      <4> HIDE DEF now
      <4>1. QED
        BY <1>1, <2>2, <3>1 DEF Never
    <3>2. CASE schedule'[f] = e /\ watched'[f] = IF watched[f] = Never THEN month ELSE watched[f]
      BY <1>1, <3>2, SchedulesAreEnsured DEF Never
    <3>3. QED
      BY <2>7, <3>1, <3>2
  <2>9. ASSUME NEW x \in File PROVE Watch(x)
    <3>1. CASE x = f
      BY <2>8, <3>1
    <3>2. CASE x # f
      <4> HIDE DEF now, e
      <4>1. schedule'[x] = schedule[x] /\ watched'[x] = watched[x]
        BY <2>6, <3>2
      <4>2. QED
        BY <1>3, <4>1
    <3>3. QED
      BY <3>1, <3>2
  <2> HIDE DEF Watch
  <2>10. QED
    BY <2>3, <2>5, <2>9
<1>7. ASSUME NEW f \in File, NEW type \in DOMAIN IntervalByType,
             \/ OpenFile(f, type)
             \/ \E status \in {"open", "on_hold", "closed"} : UpdateFile(f, status, type)
      PROVE  UNCHANGED <<month, schedule, watched>> /\ files' \in [File -> FileState]
  <2>1. PICK status \in {"open", "on_hold", "closed"} :
          /\ files' = [files EXCEPT ![f] = [status |-> status, type |-> type]]
          /\ UNCHANGED <<month, schedule, watched>>
    BY <1>7 DEF OpenFile, UpdateFile
  <2>2. [status |-> status, type |-> type] \in FileState
    BY DEF FileState
  <2>3. QED
    BY <1>3, <2>1, <2>2
<1> HIDE DEF Watch
<1>8. ASSUME UNCHANGED <<month, schedule, watched>> PROVE \A f \in File : Watch(f)
  BY <1>3, <1>8 DEF Watch
<1>9. CASE \E f \in File : CompleteReview(f)
  BY <1>1, <1>3, <1>6, <1>9
<1>10. CASE \E f \in File, type \in DOMAIN IntervalByType :
             \/ OpenFile(f, type)
             \/ \E status \in {"open", "on_hold", "closed"} : UpdateFile(f, status, type)
  BY <1>1, <1>3, <1>7, <1>8, <1>10
<1>11. QED
  BY <1>4, <1>5, <1>9, <1>10 DEF FileReviewStep

LEMMA ScreeningsGoOn == ASSUME WatchInv, ScreeningStep PROVE WatchInv'
<1>1. /\ screening \in [Screening -> ScreeningState]
      /\ decision \in [Screening -> {"none", "cleared_by_review", "blocked"}]
      /\ UNCHANGED <<month, files, schedule, watched, budget, spent, wasOver>>
  BY DEF WatchInv, ComplianceTypeOK, ScreeningStep, reviewVars, budgetVars
<1> DEFINE Decided(x, d) ==
      /\ x.lookup = "none" => d = "none"
      /\ x.lookup # "none" =>
           x.status = IF d # "none" THEN d ELSE IF x.lookup = "match" THEN "flagged" ELSE "clear"
<1>2. \A s \in Screening : Decided(screening[s], decision[s])
  BY DEF WatchInv, MatchesAreDecided
<1>3. SUFFICES /\ named' \in BOOLEAN /\ screening' \in [Screening -> ScreeningState]
               /\ decision' \in [Screening -> {"none", "cleared_by_review", "blocked"}]
               /\ \A s \in Screening : Decided(screening'[s], decision'[s])
  <2>1. ComplianceTypeOK'
    BY <1>1, <1>3 DEF WatchInv, ComplianceTypeOK
  <2>2. NeglectIsListed' /\ OverrunsShow'
    BY <1>1 DEF WatchInv, NeglectIsListed, IsOverdue, OverrunsShow
  <2>3. MatchesAreDecided' /\ \A s \in Screening : screening'[s].lookup = "none" => decision'[s] = "none"
    BY <1>3 DEF MatchesAreDecided
  <2>4. QED
    BY <1>1, <2>1, <2>2, <2>3 DEF WatchInv
<1>4. named \in BOOLEAN
  BY DEF WatchInv, ComplianceTypeOK
<1>5. CASE ListChanges
  BY <1>1, <1>2, <1>4, <1>5 DEF ListChanges
<1>6. ASSUME NEW s \in Screening, NEW x \in ScreeningState, NEW d \in {"none", "cleared_by_review", "blocked"},
             screening' = [screening EXCEPT ![s] = x], decision' = [decision EXCEPT ![s] = d],
             Decided(x, d), named' = named
      PROVE  /\ named' \in BOOLEAN /\ screening' \in [Screening -> ScreeningState]
             /\ decision' \in [Screening -> {"none", "cleared_by_review", "blocked"}]
             /\ \A t \in Screening : Decided(screening'[t], decision'[t])
  <2> HIDE DEF Decided
  <2>1. \A t \in Screening : /\ screening'[t] = IF t = s THEN x ELSE screening[t]
                             /\ decision'[t] = IF t = s THEN d ELSE decision[t]
    BY <1>1, <1>6
  <2>2. QED
    BY <1>1, <1>2, <1>4, <1>6, <2>1
<1>7. \A s \in Screening : decision = [decision EXCEPT ![s] = decision[s]]
  BY <1>1
<1>8. ASSUME NEW s \in Screening, AskList(s)
      PROVE  /\ named' \in BOOLEAN /\ screening' \in [Screening -> ScreeningState]
             /\ decision' \in [Screening -> {"none", "cleared_by_review", "blocked"}]
             /\ \A t \in Screening : Decided(screening'[t], decision'[t])
  <2> DEFINE x == [screening[s] EXCEPT !.status = "asked"]
  <2>1. screening[s] \in ScreeningState /\ screening[s].status = "none"
    BY <1>1, <1>8 DEF AskList
  <2>2. screening[s].lookup = "none"
    BY <1>2, <2>1
  <2>3. x \in ScreeningState /\ Decided(x, decision[s])
    BY <1>2, <2>1, <2>2 DEF ScreeningState
  <2>4. screening' = [screening EXCEPT ![s] = x] /\ UNCHANGED <<named, decision>>
    BY <1>8 DEF AskList
  <2> HIDE DEF x, Decided
  <2>5. decision' = [decision EXCEPT ![s] = decision[s]] /\ named' = named
        /\ decision[s] \in {"none", "cleared_by_review", "blocked"}
    BY <1>1, <1>7, <2>4
  <2>6. QED
    BY <1>6, <2>3, <2>4, <2>5
<1>9. ASSUME NEW s \in Screening, ScreenClient(s)
      PROVE  /\ named' \in BOOLEAN /\ screening' \in [Screening -> ScreeningState]
             /\ decision' \in [Screening -> {"none", "cleared_by_review", "blocked"}]
             /\ \A t \in Screening : Decided(screening'[t], decision'[t])
  <2>1. PICK lookup \in {"match", "no match", "failed"} :
          screening' = [screening EXCEPT ![s] =
            [status |-> IF lookup = "match" THEN "flagged" ELSE "clear", lookup |-> lookup]]
    BY <1>9 DEF ScreenClient
  <2> DEFINE x == [status |-> IF lookup = "match" THEN "flagged" ELSE "clear", lookup |-> lookup]
  <2>2. screening[s].status = "asked" /\ UNCHANGED <<named, decision>>
    BY <1>9 DEF ScreenClient
  <2>3. decision[s] = "none"
    BY <1>1, <1>2, <2>2
  <2>4. x \in ScreeningState /\ Decided(x, decision[s])
    BY <2>3 DEF ScreeningState
  <2>5. decision' = [decision EXCEPT ![s] = decision[s]] /\ named' = named
        /\ decision[s] \in {"none", "cleared_by_review", "blocked"}
    BY <1>1, <1>7, <2>2
  <2>6. screening' = [screening EXCEPT ![s] = x]
    BY <2>1
  <2> HIDE DEF x, Decided
  <2>7. QED
    BY <1>6, <2>4, <2>5, <2>6
<1>10. ASSUME NEW s \in Screening, NEW v \in {"cleared_by_review", "blocked"}, ReviewScreening(s, v)
       PROVE  /\ named' \in BOOLEAN /\ screening' \in [Screening -> ScreeningState]
              /\ decision' \in [Screening -> {"none", "cleared_by_review", "blocked"}]
              /\ \A t \in Screening : Decided(screening'[t], decision'[t])
  <2> DEFINE x == [screening[s] EXCEPT !.status = v]
  <2>1. /\ screening[s].lookup # "none" /\ screening' = [screening EXCEPT ![s] = x]
        /\ decision' = [decision EXCEPT ![s] = v] /\ UNCHANGED named
    BY <1>10 DEF ReviewScreening, DecidedAlone
  <2>2. x \in ScreeningState /\ Decided(x, v)
    BY <1>1, <2>1 DEF ScreeningState
  <2> HIDE DEF x, Decided
  <2>3. QED
    BY <1>6, <2>1, <2>2
<1> HIDE DEF Decided
<1>11. QED
  BY <1>5, <1>8, <1>9, <1>10 DEF ScreeningStep

LEMMA BudgetsGoOn == ASSUME WatchInv, BudgetStep PROVE WatchInv'
<1>1. /\ budget \in Int /\ spent \in Int /\ wasOver \in BOOLEAN
      /\ wasOver => BudgetStatus(spent, budget).over
      /\ UNCHANGED <<month, files, schedule, watched, named, screening, decision>>
  BY DEF WatchInv, ComplianceTypeOK, OverrunsShow, BudgetStep, reviewVars, screeningVars
<1>2. SUFFICES /\ budget' \in Int /\ spent' \in Int /\ wasOver' \in BOOLEAN
               /\ wasOver' => BudgetStatus(spent', budget').over
  <2>1. OverrunsShow'
    BY <1>2, BudgetsAreTold DEF OverrunsShow
  <2>2. ComplianceTypeOK'
    BY <1>1, <1>2 DEF WatchInv, ComplianceTypeOK
  <2>3. NeglectIsListed' /\ MatchesAreDecided'
    BY <1>1 DEF WatchInv, NeglectIsListed, IsOverdue, MatchesAreDecided
  <2>4. QED
    BY <1>1, <2>1, <2>2, <2>3 DEF WatchInv
<1>3. ASSUME NEW amount \in Sum, SetMatterBudget(amount)
      PROVE  /\ budget' \in Int /\ spent' \in Int /\ wasOver' \in BOOLEAN
             /\ wasOver' => BudgetStatus(spent', budget').over
  <2>1. amount \in Int /\ budget' = amount /\ wasOver' = BudgetStatus(spent, amount).over /\ UNCHANGED spent
    BY <1>3, ComplianceAssumption DEF SetMatterBudget
  <2>2. QED
    BY <1>1, <2>1, BudgetIsRounded
<1>4. ASSUME NEW amount \in Sum, RecordDisbursement(amount)
      PROVE  /\ budget' \in Int /\ spent' \in Int /\ wasOver' \in BOOLEAN
             /\ wasOver' => BudgetStatus(spent', budget').over
  <2>1. /\ amount \in Int /\ spent' = spent + amount /\ UNCHANGED budget
        /\ wasOver' = (BudgetStatus(spent', budget).over \/ (wasOver /\ amount > 0))
    BY <1>4, ComplianceAssumption DEF RecordDisbursement
  <2>2. spent' \in Int
    BY <1>1, <2>1
  <2>3. BudgetStatus(spent', budget).over \in BOOLEAN
    BY <1>1, <2>2, BudgetIsRounded
  <2>4. wasOver /\ amount > 0 => BudgetStatus(spent', budget).over
    <3>1. SUFFICES ASSUME wasOver, amount > 0 PROVE BudgetStatus(spent', budget).over
      OBVIOUS
    <3>2. budget > 0 /\ 200 * spent >= 199 * budget
      BY <1>1, <3>1, BudgetIsRounded
    <3>3. 200 * spent' >= 199 * budget
      BY <1>1, <2>1, <3>1, <3>2
    <3>4. QED
      BY <1>1, <2>2, <3>2, <3>3, BudgetIsRounded
  <2>5. QED
    BY <1>1, <2>1, <2>2, <2>3, <2>4
<1>5. QED
  BY <1>3, <1>4 DEF BudgetStep

LEMMA WatchStays == ASSUME WatchInv, UNCHANGED complianceVars PROVE WatchInv'
BY DEF WatchInv, ComplianceTypeOK, NeglectIsListed, IsOverdue, MatchesAreDecided, OverrunsShow,
       complianceVars, reviewVars, screeningVars, budgetVars

-----------------------------------------------------------------------------

(* Figures: the periods of matters, and the scores and estimates.          *)

(* What is promised of the figures, but for the redline.                   *)
SumsAreRight == DeadlinesKeepToTheCalendar /\ WarningsAreNotTakenBack

(* The day before the first of a month, which the day is added to.         *)
Eve(y, m) == DayNumber(<<y, m, 1>>) - 1

LEMMA DaysAddUp ==
  ASSUME NEW y \in Int, NEW m \in 1..12, NEW k \in Int
  PROVE  Eve(y, m) \in Int /\ DayNumber(<<y, m, k>>) = Eve(y, m) + k
<1> DEFINE years == {x \in 2000..2150 : x < y}
           leaps == {x \in years : Leap(x)}
           c == Cardinality(years)
           l == Cardinality(leaps)
           b == DaysBefore[m]
           f == IF m > 2 /\ Leap(y) THEN 1 ELSE 0
<1>1. PICK first \in Int, last \in Int : first = 2000 /\ last = 2150
  OBVIOUS
<1>2. IsFiniteSet(years) /\ IsFiniteSet(leaps)
  <2>1. IsFiniteSet(first..last)
    BY FS_Interval
  <2>2. years \subseteq first..last /\ leaps \subseteq first..last
    BY <1>1
  <2>3. QED
    BY <2>1, <2>2, FS_Subset
<1>3. c \in Int /\ l \in Int
  BY <1>2, FS_CardinalityType
<1>4. b \in Int
  BY DEF DaysBefore
<1>5. f \in Int
  OBVIOUS
<1>6. ASSUME NEW n \in Int PROVE DayNumber(<<y, m, n>>) = 365 * c + l + b + f + n
  BY DEF DayNumber
<1> HIDE DEF c, l, b, f
<1>7. DayNumber(<<y, m, 1>>) = 365 * c + l + b + f + 1
  BY <1>6
<1>8. DayNumber(<<y, m, k>>) = 365 * c + l + b + f + k
  BY <1>6
<1>9. QED
  BY <1>3, <1>4, <1>5, <1>7, <1>8 DEF Eve

LEMMA MonthsHaveDays ==
  ASSUME NEW y \in Int, NEW m \in 1..12
  PROVE  DaysIn(y, m) \in 28..31
BY DEF DaysIn

(* The lesser of two numbers, and the greater.                             *)
LEMMA LesserOfTwo ==
  ASSUME NEW a \in Int, NEW b \in Int
  PROVE  Min({a, b}) = IF a <= b THEN a ELSE b
<1>1. \E x \in {a, b} : \A z \in {a, b} : x =< z
  OBVIOUS
<1>2. Min({a, b}) \in {a, b} /\ \A z \in {a, b} : Min({a, b}) =< z
  BY <1>1 DEF Min
<1>3. QED
  BY <1>2

LEMMA GreaterOfTwo ==
  ASSUME NEW a \in Int, NEW b \in Int
  PROVE  Max({a, b}) = IF a >= b THEN a ELSE b
<1>1. \E x \in {a, b} : \A z \in {a, b} : x >= z
  OBVIOUS
<1>2. Max({a, b}) \in {a, b} /\ \A z \in {a, b} : Max({a, b}) >= z
  BY <1>1 DEF Max
<1>3. QED
  BY <1>2

(* Adding months ends on the day of the same number or at most three days  *)
(* after the last of the month.                                            *)
LEMMA MonthsRunOver ==
  ASSUME NEW d \in Nat \X (1..12) \X (1..31), NEW n \in Nat
  PROVE  LET y == d[1] + (d[2] - 1 + n) \div 12
             m == ((d[2] - 1 + n) % 12) + 1
             due == DayNumber(<<y, m, Min({d[3], DaysIn(y, m)})>>)
         IN AddMonths(d, n) \in due..(due + 3) /\ AddMonths(d, n) \in Int
<1> DEFINE t == d[2] - 1 + n
           y == d[1] + t \div 12
           m == (t % 12) + 1
           k == Min({d[3], DaysIn(y, m)})
<1>1. d[1] \in Nat /\ d[2] \in 1..12 /\ d[3] \in 1..31
  OBVIOUS
<1>2. t \in Nat
  BY <1>1
<1> HIDE DEF t
<1>3. y \in Int /\ m \in 1..12
  BY <1>1, <1>2
<1>4. AddMonths(d, n) = DayNumber(<<y, m, 1>>) + d[3] - 1
  BY DEF AddMonths, t
<1> HIDE DEF y, m
<1>5. DaysIn(y, m) \in 28..31
  BY <1>3, MonthsHaveDays
<1>6. k = IF d[3] <= DaysIn(y, m) THEN d[3] ELSE DaysIn(y, m)
  BY <1>1, <1>5, LesserOfTwo
<1> HIDE DEF k
<1>7. k \in Int /\ k <= d[3] /\ d[3] <= k + 3
  BY <1>1, <1>5, <1>6
<1>8. Eve(y, m) \in Int /\ DayNumber(<<y, m, 1>>) = Eve(y, m) + 1 /\ DayNumber(<<y, m, k>>) = Eve(y, m) + k
  BY <1>3, <1>7, DaysAddUp
<1>9. AddMonths(d, n) \in DayNumber(<<y, m, k>>)..(DayNumber(<<y, m, k>>) + 3) /\ AddMonths(d, n) \in Int
  BY <1>1, <1>4, <1>7, <1>8
<1>10. QED
  BY <1>9 DEF y, m, k, t

(* What a period can be.                                                   *)
PeriodState == [unit : {"days", "months", "years"}, n : Nat]

LEMMA LookedUp ==
  ASSUME NEW state, NEW windows, NEW otherwise \in Nat, \A s \in DOMAIN windows : windows[s] \in Nat
  PROVE  In(state, windows, otherwise) \in Nat
BY DEF In

LEMMA PeriodsAreTyped ==
  ASSUME NEW type, NEW state
  PROVE  Period(type, state) \in PeriodState
<1>1. \A n \in Nat : Days(n) \in PeriodState /\ Months(n) \in PeriodState /\ Years(n) \in PeriodState
  BY DEF Days, Months, Years, PeriodState
<1>2. \A s \in DOMAIN WorkersCompDays : WorkersCompDays[s] \in Nat
  BY DEF WorkersCompDays
<1>3. \A s \in DOMAIN MotorNotificationDays : MotorNotificationDays[s] \in Nat
  BY DEF MotorNotificationDays
<1>4. \A s \in DOMAIN FamilyProvisionMonths : FamilyProvisionMonths[s] \in Nat
  BY DEF FamilyProvisionMonths
<1>5. \A s \in DOMAIN CoolingOffBusinessDays : CoolingOffBusinessDays[s] \in Nat
  BY DEF CoolingOffBusinessDays
<1>6. /\ In(state, WorkersCompDays, 182) \in Nat
      /\ In(state, MotorNotificationDays, 28) \in Nat
      /\ In(state, FamilyProvisionMonths, 12) \in Nat
      /\ In(state, CoolingOffBusinessDays, 5) \in Nat
  BY <1>2, <1>3, <1>4, <1>5, LookedUp
<1>7. CalendarDays(In(state, CoolingOffBusinessDays, 5)) \in Nat
  <2> DEFINE n == In(state, CoolingOffBusinessDays, 5)
  <2>1. n \in Nat
    BY <1>6
  <2> HIDE DEF n
  <2>2. (n * 7 + 4) \div 5 \in Nat
    BY <2>1
  <2>3. QED
    BY <2>2 DEF CalendarDays, n
<1>8. QED
  BY <1>1, <1>6, <1>7 DEF Period

LEMMA LimitationKeeps ==
  ASSUME NEW type, NEW state, NEW d \in Trigger, NEW elapsed \in Elapsed,
         GetLimitationPeriod(type, state, d, elapsed)
  PROVE  SumsAreRight'
<1> DEFINE period == Period(type, state)
           expiry == Expiry(period, d)
           remaining == expiry - (DayNumber(d) + elapsed)
<1>1. figure' = [kind |-> "limitation", period |-> period, trigger |-> d, expiry |-> expiry,
                 remaining |-> remaining, urgent |-> remaining <= 14, critical |-> remaining <= 3]
  BY DEF GetLimitationPeriod
<1>2. d \in Nat \X (1..12) \X (1..31) /\ elapsed \in Nat
  BY FiguresAssumption
<1>3. period.unit \in {"days", "months", "years"} /\ period.n \in Nat
  BY PeriodsAreTyped DEF PeriodState
<1> HIDE DEF period
<1> DEFINE n == IF period.unit = "years" THEN 12 * period.n ELSE period.n
           y == d[1] + (d[2] - 1 + n) \div 12
           m == ((d[2] - 1 + n) % 12) + 1
           due == DayNumber(<<y, m, Min({d[3], DaysIn(y, m)})>>)
<1>4. n \in Nat
  BY <1>3
<1>5. DayNumber(d) \in Int
  <2>1. d = <<d[1], d[2], d[3]>> /\ d[1] \in Int /\ d[2] \in 1..12 /\ d[3] \in Int
    BY <1>2
  <2>2. Eve(d[1], d[2]) \in Int /\ DayNumber(<<d[1], d[2], d[3]>>) = Eve(d[1], d[2]) + d[3]
    BY <2>1, DaysAddUp
  <2>3. DayNumber(d) = Eve(d[1], d[2]) + d[3]
    BY <2>1, <2>2
  <2>4. QED
    BY <2>1, <2>2, <2>3
<1>6. AddMonths(d, n) \in due..(due + 3) /\ AddMonths(d, n) \in Int
  BY <1>2, <1>4, MonthsRunOver
<1>7. expiry = IF period.unit = "days" THEN DayNumber(d) + period.n ELSE AddMonths(d, n)
  BY <1>3 DEF Expiry, AddYears
<1> HIDE DEF due, expiry, n
<1>8. expiry \in Int /\ (period.unit # "days" => expiry \in due..(due + 3))
  BY <1>3, <1>5, <1>6, <1>7
<1>9. remaining \in Int
  BY <1>2, <1>5, <1>8
<1> HIDE DEF remaining
<1>10. (remaining <= 3 => remaining <= 14) /\ (remaining < 0 => remaining <= 3)
  BY <1>9
<1>11. figure'.kind = "limitation"
  BY <1>1
<1>12. DeadlinesKeepToTheCalendar'
  <2>1. /\ figure'.trigger = d /\ figure'.period = period /\ figure'.expiry = expiry
        /\ figure'.critical = (remaining <= 3) /\ figure'.urgent = (remaining <= 14)
        /\ figure'.remaining = remaining
    BY <1>1
  <2>2. QED
    BY <1>8, <1>10, <2>1 DEF DeadlinesKeepToTheCalendar, due, n
<1>13. WarningsAreNotTakenBack'
  BY <1>11 DEF WarningsAreNotTakenBack, Asked
<1>14. QED
  BY <1>12, <1>13 DEF SumsAreRight

-----------------------------------------------------------------------------

(* A quotient rises with its dividend.                                     *)
LEMMA QuotientRises ==
  ASSUME NEW a \in Int, NEW b \in Int, a <= b, NEW d \in Nat \ {0}
  PROVE  a \div d \in Int /\ b \div d \in Int /\ a \div d <= b \div d
<1> DEFINE k == a \div d
<1>1. k \in Int
  BY QuotientAtLeast
<1>2. a >= d * k
  <2>1. k >= k
    BY <1>1
  <2>2. QED
    BY <1>1, <2>1, QuotientAtLeast
<1> HIDE DEF k
<1>3. b >= d * k
  <2>1. d * k \in Int
    BY <1>1
  <2>2. QED
    BY <1>2, <2>1
<1>4. b \div d \in Int /\ b \div d >= k
  BY <1>1, <1>3, QuotientAtLeast
<1>5. QED
  BY <1>1, <1>4 DEF k

(* What the score is rounded from, in halves.                              *)
Halves(f) ==
  2 * f.baseline + If(f.sophistication = "low", 2) - If(f.sophistication = "high", 1)
  + If(f.value = "over 1m", 3) + If(f.value = "over 250k", 1) + If(f.pressed, 2)
  + If(f.complexity = "complex", 3) - If(f.complexity = "simple", 1)
  + If(f.crowded, 2) + If(f.multiJurisdiction, 2)

LEMMA ScoreRises ==
  ASSUME NEW f, NEW g, Halves(f) \in Int, Halves(g) \in Int, Halves(f) <= Halves(g)
  PROVE  RiskScore(f) \in Int /\ RiskScore(f) <= RiskScore(g)
<1> DEFINE Kept(k) == Max({1, Min({10, k})})
           p == Round(Halves(f), 2)
           q == Round(Halves(g), 2)
<1>1. p \in Int /\ q \in Int /\ p <= q
  <2>1. 2 * Halves(f) + 2 \in Int /\ 2 * Halves(g) + 2 \in Int
        /\ 2 * Halves(f) + 2 <= 2 * Halves(g) + 2
    OBVIOUS
  <2>2. 4 \in Nat \ {0}
    OBVIOUS
  <2>3. /\ (2 * Halves(f) + 2) \div 4 \in Int
        /\ (2 * Halves(g) + 2) \div 4 \in Int
        /\ (2 * Halves(f) + 2) \div 4 <= (2 * Halves(g) + 2) \div 4
    BY <2>1, <2>2, QuotientRises
  <2>4. 2 * 2 = 4
    OBVIOUS
  <2>5. QED
    BY <2>3, <2>4 DEF Round
<1>2. RiskScore(f) = Kept(p) /\ RiskScore(g) = Kept(q)
  BY DEF RiskScore, Halves
<1> HIDE DEF p, q
<1>3. ASSUME NEW k \in Int
      PROVE  Kept(k) = IF k >= 10 THEN 10 ELSE IF k >= 1 THEN k ELSE 1
  <2> DEFINE x == Min({10, k})
  <2>1. x = IF 10 <= k THEN 10 ELSE k
    BY LesserOfTwo
  <2> HIDE DEF x
  <2>2. x \in Int
    BY <2>1
  <2>3. Max({1, x}) = IF 1 >= x THEN 1 ELSE x
    BY <2>2, GreaterOfTwo
  <2>4. Kept(k) = Max({1, x})
    BY DEF x
  <2>5. QED
    BY <2>1, <2>3, <2>4
<1> HIDE DEF Kept
<1>4. QED
  BY <1>1, <1>2, <1>3

(* The shares the factors have in it.                                      *)
OfTheClient(s) == If(s = "low", 2) - If(s = "high", 1)
OfTheValue(v) == If(v = "over 1m", 3) + If(v = "over 250k", 1)
OfTheMatter(c) == If(c = "complex", 3) - If(c = "simple", 1)
OfTheRest(f) == If(f.pressed, 2) + If(f.crowded, 2) + If(f.multiJurisdiction, 2)

(* The factors of a risk, whatever the baseline: a worse one may leave its *)
(* table.                                                                  *)
AnyFactor == [baseline : Int,
              sophistication : {"low", "medium", "high"},
              value : {"small", "over 250k", "over 1m"},
              pressed : BOOLEAN,
              complexity : {"simple", "medium", "complex"},
              crowded : BOOLEAN,
              multiJurisdiction : BOOLEAN]

LEMMA FactorsAreAny == ASSUME NEW f \in Factor PROVE f \in AnyFactor
<1>1. PICK low : low = {2, 3, 4, 5, 6}
  OBVIOUS
<1>2. low \subseteq Int
  BY <1>1
<1>3. f \in [baseline : low, sophistication : {"low", "medium", "high"},
              value : {"small", "over 250k", "over 1m"}, pressed : BOOLEAN,
              complexity : {"simple", "medium", "complex"}, crowded : BOOLEAN,
              multiJurisdiction : BOOLEAN]
  BY <1>1, Zenon DEF Factor
<1>4. QED
  BY <1>2, <1>3 DEF AnyFactor

LEMMA BaselinesAreNumbers == ASSUME NEW f \in AnyFactor PROVE f.baseline \in Int
BY DEF AnyFactor

LEMMA ClientsAreKnown ==
  ASSUME NEW f \in AnyFactor
  PROVE  f.sophistication = "low" \/ f.sophistication = "medium" \/ f.sophistication = "high"
BY DEF AnyFactor

LEMMA ValuesAreKnown ==
  ASSUME NEW f \in AnyFactor
  PROVE  f.value = "small" \/ f.value = "over 250k" \/ f.value = "over 1m"
BY DEF AnyFactor

LEMMA MattersAreKnown ==
  ASSUME NEW f \in AnyFactor
  PROVE  f.complexity = "simple" \/ f.complexity = "medium" \/ f.complexity = "complex"
BY DEF AnyFactor

(* What each factor adds.                                                  *)
LEMMA ClientsShare ==
  OfTheClient("low") = 2 /\ OfTheClient("medium") = 0 /\ OfTheClient("high") = 0 - 1
<1>1. OfTheClient("low") = 2
  <2>1. If("low" = "low", 2) = 2 /\ If("low" = "high", 1) = 0
    BY DEF If
  <2>2. QED
    BY <2>1 DEF OfTheClient
<1>2. OfTheClient("medium") = 0
  BY DEF OfTheClient, If
<1>3. OfTheClient("high") = 0 - 1
  BY DEF OfTheClient, If
<1>4. QED
  BY <1>1, <1>2, <1>3

LEMMA ValuesShare ==
  OfTheValue("small") = 0 /\ OfTheValue("over 250k") = 1 /\ OfTheValue("over 1m") = 3
<1>1. OfTheValue("small") = 0
  BY DEF OfTheValue, If
<1>2. OfTheValue("over 250k") = 1
  BY DEF OfTheValue, If
<1>3. OfTheValue("over 1m") = 3
  BY DEF OfTheValue, If
<1>4. QED
  BY <1>1, <1>2, <1>3

LEMMA MattersShare ==
  OfTheMatter("complex") = 3 /\ OfTheMatter("medium") = 0 /\ OfTheMatter("simple") = 0 - 1
<1>1. OfTheMatter("complex") = 3
  <2>1. If("complex" = "complex", 3) = 3 /\ If("complex" = "simple", 1) = 0
    BY DEF If
  <2>2. QED
    BY <2>1 DEF OfTheMatter
<1>2. OfTheMatter("medium") = 0
  BY DEF OfTheMatter, If
<1>3. OfTheMatter("simple") = 0 - 1
  BY DEF OfTheMatter, If
<1>4. QED
  BY <1>1, <1>2, <1>3

LEMMA SharesAreNumbers ==
  ASSUME NEW f \in AnyFactor
  PROVE  /\ OfTheClient(f.sophistication) \in Int /\ OfTheValue(f.value) \in Int
         /\ OfTheMatter(f.complexity) \in Int /\ OfTheRest(f) \in Int
<1>1. OfTheClient(f.sophistication) \in Int
  <2>1. OfTheClient("low") \in Int /\ OfTheClient("medium") \in Int /\ OfTheClient("high") \in Int
    BY ClientsShare
  <2>2. QED
    BY <2>1, ClientsAreKnown, Zenon
<1>2. OfTheValue(f.value) \in Int
  <2>1. OfTheValue("small") \in Int /\ OfTheValue("over 250k") \in Int /\ OfTheValue("over 1m") \in Int
    <3>1. 0 \in Int /\ 1 \in Int /\ 3 \in Int
      OBVIOUS
    <3>2. QED
      BY <3>1, ValuesShare, Zenon
  <2>2. QED
    BY <2>1, ValuesAreKnown, Zenon
<1>3. OfTheMatter(f.complexity) \in Int
  <2>1. OfTheMatter("simple") \in Int /\ OfTheMatter("medium") \in Int /\ OfTheMatter("complex") \in Int
    BY MattersShare
  <2>2. QED
    BY <2>1, MattersAreKnown, Zenon
<1>4. OfTheRest(f) \in Int
  BY DEF OfTheRest, If
<1>5. QED
  BY <1>1, <1>2, <1>3, <1>4

LEMMA HalvesAddUp ==
  ASSUME NEW f \in AnyFactor
  PROVE  Halves(f) = 2 * f.baseline + OfTheClient(f.sophistication) + OfTheValue(f.value)
                       + OfTheMatter(f.complexity) + OfTheRest(f)
<1> DEFINE o == 2 * f.baseline
           a == If(f.sophistication = "low", 2)
           b == If(f.sophistication = "high", 1)
           c == If(f.value = "over 1m", 3)
           d == If(f.value = "over 250k", 1)
           e == If(f.pressed, 2)
           h == If(f.complexity = "complex", 3)
           i == If(f.complexity = "simple", 1)
           j == If(f.crowded, 2)
           k == If(f.multiJurisdiction, 2)
<1>1. {a, b, c, d, e, h, i, j, k} \subseteq Int
  BY DEF If
<1>2. o \in Int
  BY BaselinesAreNumbers
<1>3. /\ Halves(f) = o + a - b + c + d + e + h - i + j + k
      /\ OfTheClient(f.sophistication) = a - b /\ OfTheValue(f.value) = c + d
      /\ OfTheMatter(f.complexity) = h - i /\ OfTheRest(f) = e + j + k
  BY DEF Halves, OfTheClient, OfTheValue, OfTheMatter, OfTheRest
<1> HIDE DEF o, a, b, c, d, e, h, i, j, k
<1>4. QED
  BY <1>1, <1>2, <1>3 DEF o

LEMMA RestRises ==
  ASSUME NEW f, NEW g,
         g.pressed = f.pressed \/ g.pressed = TRUE,
         g.crowded = f.crowded \/ g.crowded = TRUE,
         g.multiJurisdiction = f.multiJurisdiction \/ g.multiJurisdiction = TRUE
  PROVE  OfTheRest(f) <= OfTheRest(g)
<1>1. ASSUME NEW x, NEW y, y = x \/ y = TRUE
      PROVE  If(x, 2) \in {0, 2} /\ If(y, 2) \in {0, 2} /\ If(x, 2) <= If(y, 2)
  BY <1>1 DEF If
<1> DEFINE p(h) == If(h.pressed, 2)
           c(h) == If(h.crowded, 2)
           m(h) == If(h.multiJurisdiction, 2)
<1>2. /\ {p(f), p(g), c(f), c(g), m(f), m(g)} \subseteq {0, 2}
      /\ p(f) <= p(g) /\ c(f) <= c(g) /\ m(f) <= m(g)
  BY <1>1
<1>3. OfTheRest(f) = p(f) + c(f) + m(f) /\ OfTheRest(g) = p(g) + c(g) + m(g)
  BY DEF OfTheRest
<1> HIDE DEF p, c, m
<1>4. QED
  BY <1>2, <1>3

(* One share that rises raises the sum.                                    *)
LEMMA SumRises ==
  ASSUME NEW f \in AnyFactor, NEW g \in AnyFactor,
         f.baseline <= g.baseline,
         OfTheClient(f.sophistication) <= OfTheClient(g.sophistication),
         OfTheValue(f.value) <= OfTheValue(g.value),
         OfTheMatter(f.complexity) <= OfTheMatter(g.complexity),
         OfTheRest(f) <= OfTheRest(g)
  PROVE  Halves(f) \in Int /\ Halves(g) \in Int /\ Halves(f) <= Halves(g)
<1>1. f.baseline \in Int /\ g.baseline \in Int
  BY BaselinesAreNumbers
<1>2. /\ Halves(f) = 2 * f.baseline + OfTheClient(f.sophistication) + OfTheValue(f.value)
                       + OfTheMatter(f.complexity) + OfTheRest(f)
      /\ Halves(g) = 2 * g.baseline + OfTheClient(g.sophistication) + OfTheValue(g.value)
                       + OfTheMatter(g.complexity) + OfTheRest(g)
  BY HalvesAddUp
<1>3. /\ OfTheClient(f.sophistication) \in Int /\ OfTheValue(f.value) \in Int
      /\ OfTheMatter(f.complexity) \in Int /\ OfTheRest(f) \in Int
      /\ OfTheClient(g.sophistication) \in Int /\ OfTheValue(g.value) \in Int
      /\ OfTheMatter(g.complexity) \in Int /\ OfTheRest(g) \in Int
  BY SharesAreNumbers
<1>4. QED
  BY <1>1, <1>2, <1>3

LEMMA WorseIsNotLess ==
  ASSUME NEW f \in AnyFactor, NEW g \in Worse(f)
  PROVE  Halves(f) \in Int /\ Halves(g) \in Int /\ Halves(f) <= Halves(g)
<1>1. f.baseline \in Int
  BY BaselinesAreNumbers
<1>2. /\ f.baseline <= f.baseline
      /\ OfTheClient(f.sophistication) <= OfTheClient(f.sophistication)
      /\ OfTheValue(f.value) <= OfTheValue(f.value)
      /\ OfTheMatter(f.complexity) <= OfTheMatter(f.complexity)
      /\ OfTheRest(f) <= OfTheRest(f)
  BY <1>1, SharesAreNumbers
<1>3. /\ g \in AnyFactor /\ f.baseline <= g.baseline
      /\ OfTheClient(f.sophistication) <= OfTheClient(g.sophistication)
      /\ OfTheValue(f.value) <= OfTheValue(g.value)
      /\ OfTheMatter(f.complexity) <= OfTheMatter(g.complexity)
      /\ OfTheRest(f) <= OfTheRest(g)
  <2>1. CASE g = [f EXCEPT !.baseline = @ + 1]
    <3>1. /\ g.baseline = f.baseline + 1
          /\ g.sophistication = f.sophistication /\ g.value = f.value /\ g.pressed = f.pressed
          /\ g.complexity = f.complexity /\ g.crowded = f.crowded /\ g.multiJurisdiction = f.multiJurisdiction
      BY <2>1 DEF AnyFactor
    <3>2. g \in AnyFactor
      <4>1. PICK worse \in Int : worse = f.baseline + 1
        BY <1>1
      <4>2. g = [f EXCEPT !.baseline = worse]
        BY <2>1, <4>1
      <4>3. QED
        BY <4>2 DEF AnyFactor
    <3>3. f.baseline <= g.baseline
      BY <1>1, <3>1
    <3>4. /\ OfTheClient(g.sophistication) = OfTheClient(f.sophistication)
          /\ OfTheValue(g.value) = OfTheValue(f.value)
          /\ OfTheMatter(g.complexity) = OfTheMatter(f.complexity)
          /\ OfTheRest(g) = OfTheRest(f)
      BY <3>1 DEF OfTheRest
    <3>5. QED
      BY <1>2, <3>3, <3>4, <3>2
  <2>2. CASE g = [f EXCEPT !.pressed = TRUE]
    <3>1. /\ g.pressed = TRUE
          /\ g.baseline = f.baseline /\ g.sophistication = f.sophistication /\ g.value = f.value
          /\ g.complexity = f.complexity /\ g.crowded = f.crowded /\ g.multiJurisdiction = f.multiJurisdiction
      BY <2>2 DEF AnyFactor
    <3>2. g \in AnyFactor
      BY <2>2 DEF AnyFactor
    <3>3. OfTheRest(f) <= OfTheRest(g)
      BY <3>1, RestRises
    <3>4. /\ g.baseline = f.baseline
          /\ OfTheClient(g.sophistication) = OfTheClient(f.sophistication)
          /\ OfTheValue(g.value) = OfTheValue(f.value)
          /\ OfTheMatter(g.complexity) = OfTheMatter(f.complexity)
      BY <3>1
    <3>5. QED
      BY <1>2, <3>3, <3>4, <3>2
  <2>3. CASE g = [f EXCEPT !.crowded = TRUE]
    <3>1. /\ g.crowded = TRUE
          /\ g.baseline = f.baseline /\ g.sophistication = f.sophistication /\ g.value = f.value
          /\ g.pressed = f.pressed /\ g.complexity = f.complexity /\ g.multiJurisdiction = f.multiJurisdiction
      BY <2>3 DEF AnyFactor
    <3>2. g \in AnyFactor
      BY <2>3 DEF AnyFactor
    <3>3. OfTheRest(f) <= OfTheRest(g)
      BY <3>1, RestRises
    <3>4. /\ g.baseline = f.baseline
          /\ OfTheClient(g.sophistication) = OfTheClient(f.sophistication)
          /\ OfTheValue(g.value) = OfTheValue(f.value)
          /\ OfTheMatter(g.complexity) = OfTheMatter(f.complexity)
      BY <3>1
    <3>5. QED
      BY <1>2, <3>3, <3>4, <3>2
  <2>4. CASE g = [f EXCEPT !.multiJurisdiction = TRUE]
    <3>1. /\ g.multiJurisdiction = TRUE
          /\ g.baseline = f.baseline /\ g.sophistication = f.sophistication /\ g.value = f.value
          /\ g.pressed = f.pressed /\ g.complexity = f.complexity /\ g.crowded = f.crowded
      BY <2>4 DEF AnyFactor
    <3>2. g \in AnyFactor
      BY <2>4 DEF AnyFactor
    <3>3. OfTheRest(f) <= OfTheRest(g)
      BY <3>1, RestRises
    <3>4. /\ g.baseline = f.baseline
          /\ OfTheClient(g.sophistication) = OfTheClient(f.sophistication)
          /\ OfTheValue(g.value) = OfTheValue(f.value)
          /\ OfTheMatter(g.complexity) = OfTheMatter(f.complexity)
      BY <3>1
    <3>5. QED
      BY <1>2, <3>3, <3>4, <3>2
  <2>5. CASE g = [f EXCEPT !.sophistication = "low"]
    <3>1. /\ g.sophistication = "low"
          /\ g.baseline = f.baseline /\ g.value = f.value /\ g.pressed = f.pressed
          /\ g.complexity = f.complexity /\ g.crowded = f.crowded /\ g.multiJurisdiction = f.multiJurisdiction
      BY <2>5 DEF AnyFactor
    <3>2. g \in AnyFactor
      BY <2>5 DEF AnyFactor
    <3>3. OfTheClient(f.sophistication) <= OfTheClient(g.sophistication)
      BY <2>5, <3>1, ClientsShare, ClientsAreKnown
    <3>4. /\ g.baseline = f.baseline
          /\ OfTheValue(g.value) = OfTheValue(f.value)
          /\ OfTheMatter(g.complexity) = OfTheMatter(f.complexity)
          /\ OfTheRest(g) = OfTheRest(f)
      BY <3>1 DEF OfTheRest
    <3>5. QED
      BY <1>2, <3>3, <3>4, <3>2
  <2>6. CASE g = [f EXCEPT !.sophistication = "medium"] /\ f.sophistication = "high"
    <3>1. /\ g.sophistication = "medium"
          /\ g.baseline = f.baseline /\ g.value = f.value /\ g.pressed = f.pressed
          /\ g.complexity = f.complexity /\ g.crowded = f.crowded /\ g.multiJurisdiction = f.multiJurisdiction
      BY <2>6 DEF AnyFactor
    <3>2. g \in AnyFactor
      BY <2>6 DEF AnyFactor
    <3>3. OfTheClient(f.sophistication) <= OfTheClient(g.sophistication)
      BY <2>6, <3>1, ClientsShare, ClientsAreKnown
    <3>4. /\ g.baseline = f.baseline
          /\ OfTheValue(g.value) = OfTheValue(f.value)
          /\ OfTheMatter(g.complexity) = OfTheMatter(f.complexity)
          /\ OfTheRest(g) = OfTheRest(f)
      BY <3>1 DEF OfTheRest
    <3>5. QED
      BY <1>2, <3>3, <3>4, <3>2
  <2>7. CASE g = [f EXCEPT !.value = "over 1m"]
    <3>1. /\ g.value = "over 1m"
          /\ g.baseline = f.baseline /\ g.sophistication = f.sophistication /\ g.pressed = f.pressed
          /\ g.complexity = f.complexity /\ g.crowded = f.crowded /\ g.multiJurisdiction = f.multiJurisdiction
      BY <2>7 DEF AnyFactor
    <3>2. g \in AnyFactor
      BY <2>7 DEF AnyFactor
    <3>3. OfTheValue(f.value) <= OfTheValue(g.value)
      <4>1. 0 <= 3 /\ 1 <= 3 /\ 3 <= 3
        OBVIOUS
      <4>2. OfTheValue(f.value) <= 3
        BY <4>1, ValuesShare, ValuesAreKnown, Zenon
      <4>3. QED
        BY <3>1, <4>2, ValuesShare, Zenon
    <3>4. /\ g.baseline = f.baseline
          /\ OfTheClient(g.sophistication) = OfTheClient(f.sophistication)
          /\ OfTheMatter(g.complexity) = OfTheMatter(f.complexity)
          /\ OfTheRest(g) = OfTheRest(f)
      BY <3>1 DEF OfTheRest
    <3>5. QED
      BY <1>2, <3>3, <3>4, <3>2
  <2>8. CASE g = [f EXCEPT !.value = "over 250k"] /\ f.value = "small"
    <3>1. /\ g.value = "over 250k"
          /\ g.baseline = f.baseline /\ g.sophistication = f.sophistication /\ g.pressed = f.pressed
          /\ g.complexity = f.complexity /\ g.crowded = f.crowded /\ g.multiJurisdiction = f.multiJurisdiction
      BY <2>8 DEF AnyFactor
    <3>2. g \in AnyFactor
      BY <2>8 DEF AnyFactor
    <3>3. OfTheValue(f.value) <= OfTheValue(g.value)
      <4>1. 0 <= 1
        OBVIOUS
      <4>2. QED
        BY <2>8, <3>1, <4>1, ValuesShare, Zenon
    <3>4. /\ g.baseline = f.baseline
          /\ OfTheClient(g.sophistication) = OfTheClient(f.sophistication)
          /\ OfTheMatter(g.complexity) = OfTheMatter(f.complexity)
          /\ OfTheRest(g) = OfTheRest(f)
      BY <3>1 DEF OfTheRest
    <3>5. QED
      BY <1>2, <3>3, <3>4, <3>2
  <2>9. CASE g = [f EXCEPT !.complexity = "complex"]
    <3>1. /\ g.complexity = "complex"
          /\ g.baseline = f.baseline /\ g.sophistication = f.sophistication /\ g.value = f.value
          /\ g.pressed = f.pressed /\ g.crowded = f.crowded /\ g.multiJurisdiction = f.multiJurisdiction
      BY <2>9 DEF AnyFactor
    <3>2. g \in AnyFactor
      BY <2>9 DEF AnyFactor
    <3>3. OfTheMatter(f.complexity) <= OfTheMatter(g.complexity)
      BY <2>9, <3>1, MattersShare, MattersAreKnown
    <3>4. /\ g.baseline = f.baseline
          /\ OfTheClient(g.sophistication) = OfTheClient(f.sophistication)
          /\ OfTheValue(g.value) = OfTheValue(f.value)
          /\ OfTheRest(g) = OfTheRest(f)
      BY <3>1 DEF OfTheRest
    <3>5. QED
      BY <1>2, <3>3, <3>4, <3>2
  <2>10. CASE g = [f EXCEPT !.complexity = "medium"] /\ f.complexity = "simple"
    <3>1. /\ g.complexity = "medium"
          /\ g.baseline = f.baseline /\ g.sophistication = f.sophistication /\ g.value = f.value
          /\ g.pressed = f.pressed /\ g.crowded = f.crowded /\ g.multiJurisdiction = f.multiJurisdiction
      BY <2>10 DEF AnyFactor
    <3>2. g \in AnyFactor
      BY <2>10 DEF AnyFactor
    <3>3. OfTheMatter(f.complexity) <= OfTheMatter(g.complexity)
      BY <2>10, <3>1, MattersShare, MattersAreKnown
    <3>4. /\ g.baseline = f.baseline
          /\ OfTheClient(g.sophistication) = OfTheClient(f.sophistication)
          /\ OfTheValue(g.value) = OfTheValue(f.value)
          /\ OfTheRest(g) = OfTheRest(f)
      BY <3>1 DEF OfTheRest
    <3>5. QED
      BY <1>2, <3>3, <3>4, <3>2
  <2>11. QED
    BY <2>1, <2>2, <2>3, <2>4, <2>5, <2>6, <2>7, <2>8, <2>9, <2>10 DEF Worse
<1>4. QED
  BY <1>3, SumRises

LEMMA RiskKeeps ==
  ASSUME NEW f \in Factor, ComputePIRisk(f) PROVE SumsAreRight'
<1>1. figure'.kind = "risk" /\ figure'.factors = f /\ figure'.score = RiskScore(f)
  BY DEF ComputePIRisk
<1>2. ASSUME NEW g \in Worse(f) PROVE RiskScore(g) >= RiskScore(f)
  <2>1. Halves(f) \in Int /\ Halves(g) \in Int /\ Halves(f) <= Halves(g)
    BY FactorsAreAny, WorseIsNotLess
  <2>2. RiskScore(f) \in Int /\ RiskScore(f) <= RiskScore(g)
    BY <2>1, ScoreRises
  <2>3. QED
    BY <2>2
<1>3. QED
  BY <1>1, <1>2 DEF SumsAreRight, DeadlinesKeepToTheCalendar, WarningsAreNotTakenBack, Asked

-----------------------------------------------------------------------------

(* A rounded quotient rises with its dividend.                             *)
LEMMA RoundRises ==
  ASSUME NEW a \in Int, NEW b \in Int, a <= b, NEW d \in Nat \ {0}
  PROVE  Round(a, d) \in Int /\ Round(b, d) \in Int /\ Round(a, d) <= Round(b, d)
<1>1. 2 * a + d \in Int /\ 2 * b + d \in Int /\ 2 * a + d <= 2 * b + d /\ 2 * d \in Nat \ {0}
  OBVIOUS
<1>2. /\ (2 * a + d) \div (2 * d) \in Int /\ (2 * b + d) \div (2 * d) \in Int
      /\ (2 * a + d) \div (2 * d) <= (2 * b + d) \div (2 * d)
  BY <1>1, QuotientRises
<1>3. QED
  BY <1>2 DEF Round

(* It is at least k when the dividend is at least k divisors less a half.  *)
LEMMA RoundAtLeast ==
  ASSUME NEW a \in Int, NEW d \in Nat \ {0}, NEW k \in Int
  PROVE  Round(a, d) \in Int /\ (Round(a, d) >= k <=> 2 * a + d >= 2 * d * k)
<1>1. 2 * a + d \in Int /\ 2 * d \in Nat \ {0}
  OBVIOUS
<1>2. /\ (2 * a + d) \div (2 * d) \in Int
      /\ ((2 * a + d) \div (2 * d) >= k <=> 2 * a + d >= (2 * d) * k)
  BY <1>1, QuotientAtLeast
<1>3. QED
  BY <1>2 DEF Round

(* One half of a payment less in time, of one half more owed.              *)
LEMMA ShareFalls ==
  ASSUME NEW t \in Nat \ {0}, NEW a \in Nat \ {0}
  PROVE  /\ Round(100 * (t - 1), a + 1) \in Int /\ Round(100 * t, a) \in Int
         /\ Round(100 * (t - 1), a + 1) <= Round(100 * t, a)
<1> DEFINE k == Round(100 * (t - 1), a + 1)
<1>1. 100 * (t - 1) \in Int /\ a + 1 \in Nat \ {0} /\ 100 * t \in Int /\ 0 \in Int
  OBVIOUS
<1>2. k \in Int
  BY <1>1, RoundAtLeast
<1>3. k >= 0
  <2>1. 2 * (100 * (t - 1)) + (a + 1) >= 2 * (a + 1) * 0
    OBVIOUS
  <2>2. QED
    BY <1>1, <2>1, RoundAtLeast
<1>4. 2 * (100 * (t - 1)) + (a + 1) >= 2 * (a + 1) * k
  <2>1. k >= k
    BY <1>2
  <2>2. QED
    BY <1>1, <1>2, <2>1, RoundAtLeast
<1> HIDE DEF k
<1>5. a * k \in Int /\ 2 * (a + 1) * k = 2 * (a * k) + 2 * k /\ 2 * a * k = 2 * (a * k)
  BY <1>2
<1>6. 2 * (100 * t) + a >= 2 * a * k
  BY <1>2, <1>3, <1>4, <1>5
<1>7. Round(100 * t, a) \in Int /\ Round(100 * t, a) >= k
  BY <1>1, <1>2, <1>6, RoundAtLeast
<1>8. QED
  BY <1>2, <1>7 DEF k

(* What a client is known for, however many invoices it has.               *)
AnyRecord == [paid : Nat, unpaid : Nat, open : Nat, sent : Nat, late : Nat, missing : Nat, asked : Nat]

LEMMA RecordsAreAny == ASSUME NEW r \in Record PROVE r \in AnyRecord
<1>1. 0..MaxCount \subseteq Nat
  BY FiguresAssumption
<1>2. QED
  BY <1>1 DEF Record, AnyRecord

LEMMA ScoresAreNumbers ==
  ASSUME NEW r \in AnyRecord
  PROVE  PaymentScore(r) \in Int /\ ResponsivenessScore(r) \in Int
<1>1. /\ r.paid \in Nat /\ r.unpaid \in Nat /\ r.open \in Nat /\ r.sent \in Nat
      /\ r.late \in Nat /\ r.missing \in Nat /\ r.asked \in Nat
  BY DEF AnyRecord
<1>2. PaymentScore(r) \in Int
  <2> DEFINE onTime == 2 * r.paid + r.open
             all == onTime + 2 * r.unpaid
  <2>1. all \in Nat /\ 100 * onTime \in Int
    BY <1>1
  <2>2. PaymentScore(r) = IF all = 0 THEN 75 ELSE Round(100 * onTime, all)
    BY DEF PaymentScore
  <2> HIDE DEF onTime, all
  <2>3. CASE all = 0
    BY <2>2, <2>3
  <2>4. CASE all # 0
    <3>1. all \in Nat \ {0}
      BY <2>1, <2>4
    <3>2. Round(100 * onTime, all) \in Int
      BY <2>1, <3>1, RoundAtLeast
    <3>3. QED
      BY <2>2, <2>4, <3>2
  <2>5. QED
    BY <2>3, <2>4
<1>3. ResponsivenessScore(r) \in Int
  <2> DEFINE all == r.sent + r.late + r.missing + r.asked
             n == 100 * (10 * r.sent + 5 * r.asked + 3 * r.late)
  <2>1. all \in Nat /\ n \in Int
    BY <1>1
  <2>2. ResponsivenessScore(r) = IF all = 0 THEN 70 ELSE Round(n, 10 * all)
    BY DEF ResponsivenessScore
  <2> HIDE DEF all, n
  <2>3. CASE all = 0
    BY <2>2, <2>3
  <2>4. CASE all # 0
    <3>1. 10 * all \in Nat \ {0}
      BY <2>1, <2>4
    <3>2. Round(n, 10 * all) \in Int
      BY <2>1, <3>1, RoundAtLeast
    <3>3. QED
      BY <2>2, <2>4, <3>2
  <2>5. QED
    BY <2>3, <2>4
<1>4. QED
  BY <1>2, <1>3

(* The client's health rises with the two scores.                          *)
LEMMA HealthRises ==
  ASSUME NEW r, NEW s,
         PaymentScore(r) \in Int, ResponsivenessScore(r) \in Int,
         PaymentScore(s) \in Int, ResponsivenessScore(s) \in Int,
         PaymentScore(s) <= PaymentScore(r), ResponsivenessScore(s) <= ResponsivenessScore(r)
  PROVE  HealthScore(s) <= HealthScore(r)
<1> DEFINE Whole(q) == 30 * PaymentScore(q) + 25 * ResponsivenessScore(q) + 15 * 50 + 15 * 30 + 15 * 70
<1>1. Whole(s) \in Int /\ Whole(r) \in Int /\ Whole(s) <= Whole(r)
  OBVIOUS
<1>2. HealthScore(s) = Round(Whole(s), 100) /\ HealthScore(r) = Round(Whole(r), 100)
  BY DEF HealthScore
<1> HIDE DEF Whole
<1>3. 100 \in Nat \ {0}
  OBVIOUS
<1>4. QED
  BY <1>1, <1>2, <1>3, RoundRises

LEMMA SlipsDoNotHelp ==
  ASSUME NEW r \in AnyRecord, NEW s \in Slips(r)
  PROVE  HealthScore(s) <= HealthScore(r)
<1>1. /\ r.paid \in Nat /\ r.unpaid \in Nat /\ r.open \in Nat /\ r.sent \in Nat
      /\ r.late \in Nat /\ r.missing \in Nat /\ r.asked \in Nat
  BY DEF AnyRecord
<1>2. PaymentScore(r) \in Int /\ ResponsivenessScore(r) \in Int
  BY ScoresAreNumbers
<1>3. CASE s = [r EXCEPT !.open = @ - 1, !.unpaid = @ + 1]
  <2>1. /\ s.open = r.open - 1 /\ s.unpaid = r.unpaid + 1 /\ s.paid = r.paid /\ s.sent = r.sent
        /\ s.late = r.late /\ s.missing = r.missing /\ s.asked = r.asked
    BY <1>3 DEF AnyRecord
  <2>2. s.open >= 0
    BY DEF Slips
  <2> DEFINE t == 2 * r.paid + r.open
             all == t + 2 * r.unpaid
  <2>3. t \in Nat \ {0} /\ all \in Nat \ {0} /\ all + 1 # 0
    BY <1>1, <2>1, <2>2
  <2>4. 2 * s.paid + s.open = t - 1 /\ (2 * s.paid + s.open) + 2 * s.unpaid = all + 1
    BY <1>1, <2>1
  <2>5. PaymentScore(r) = Round(100 * t, all)
    BY <2>3 DEF PaymentScore
  <2> HIDE DEF t, all
  <2>6. PaymentScore(s) = Round(100 * (t - 1), all + 1)
    BY <2>3, <2>4 DEF PaymentScore
  <2>7. PaymentScore(s) \in Int /\ PaymentScore(s) <= PaymentScore(r)
    BY <2>3, <2>5, <2>6, ShareFalls
  <2>8. ResponsivenessScore(s) = ResponsivenessScore(r)
    BY <2>1 DEF ResponsivenessScore
  <2>9. QED
    BY <1>2, <2>7, <2>8, HealthRises
<1>4. CASE s = [r EXCEPT !.asked = @ - 1, !.missing = @ + 1]
  <2>1. /\ s.asked = r.asked - 1 /\ s.missing = r.missing + 1 /\ s.paid = r.paid /\ s.open = r.open
        /\ s.unpaid = r.unpaid /\ s.sent = r.sent /\ s.late = r.late
    BY <1>4 DEF AnyRecord
  <2>2. s.asked >= 0
    BY DEF Slips
  <2> DEFINE all == r.sent + r.late + r.missing + r.asked
             n == 100 * (10 * r.sent + 5 * r.asked + 3 * r.late)
             m == 100 * (10 * s.sent + 5 * s.asked + 3 * s.late)
  <2>3. all \in Nat \ {0} /\ 10 * all \in Nat \ {0} /\ all # 0
    BY <1>1, <2>1, <2>2
  <2>4. s.sent + s.late + s.missing + s.asked = all
    BY <1>1, <2>1
  <2>5. n \in Int /\ m \in Int /\ m <= n
    BY <1>1, <2>1
  <2>6. ResponsivenessScore(r) = Round(n, 10 * all)
    BY <2>3 DEF ResponsivenessScore
  <2> HIDE DEF all, n
  <2>7. ResponsivenessScore(s) = Round(m, 10 * all)
    BY <2>3, <2>4 DEF ResponsivenessScore
  <2> HIDE DEF m
  <2>8. ResponsivenessScore(s) \in Int /\ ResponsivenessScore(s) <= ResponsivenessScore(r)
    BY <2>3, <2>5, <2>6, <2>7, RoundRises
  <2>9. PaymentScore(s) = PaymentScore(r)
    BY <2>1 DEF PaymentScore
  <2>10. QED
    BY <1>2, <2>8, <2>9, HealthRises
<1>5. QED
  BY <1>3, <1>4 DEF Slips

LEMMA HealthKeeps ==
  ASSUME NEW r \in Record, ComputeClientHealthScore(r) PROVE SumsAreRight'
<1>1. figure'.kind = "health" /\ figure'.record = r /\ figure'.score = HealthScore(r)
  BY DEF ComputeClientHealthScore
<1>2. ASSUME NEW s \in Slips(r) PROVE HealthScore(s) <= HealthScore(r)
  BY RecordsAreAny, SlipsDoNotHelp
<1>3. QED
  BY <1>1, <1>2 DEF SumsAreRight, DeadlinesKeepToTheCalendar, WarningsAreNotTakenBack, Asked

(* Every matter has a price of its own or the one of the unclassified.     *)
LEMMA BaselinesArePositive ==
  ASSUME NEW type \in DOMAIN Baselines
  PROVE  Baselines[type][1] \in Nat \ {0} /\ Baselines[type][2] \in Nat \ {0}
BY DEF Baselines

LEMMA ScaleOfComplexity ==
  ComplexityScale["simple"] = 4 /\ ComplexityScale["medium"] = 10 /\ ComplexityScale["complex"] = 25
BY DEF ComplexityScale

LEMMA EstimateKeeps ==
  ASSUME NEW type, NEW complexity \in DOMAIN ComplexityScale, EstimateMatterCost(type, complexity)
  PROVE  SumsAreRight'
<1> DEFINE key == IF type \in DOMAIN Baselines THEN type ELSE "unclassified"
           usd == Baselines[key][1]
           hours == Baselines[key][2]
<1>1. key \in DOMAIN Baselines
  <2>1. "unclassified" \in DOMAIN Baselines
    BY DEF Baselines
  <2>2. QED
    BY <2>1
<1> HIDE DEF key
<1>2. usd \in Nat \ {0} /\ hours \in Nat \ {0}
  BY <1>1, BaselinesArePositive
<1>3. ASSUME NEW c
      PROVE  /\ EstimateOf(type, c).aiUsd = ComplexityScale[c] * usd
             /\ EstimateOf(type, c).hours = ComplexityScale[c] * hours
  BY DEF EstimateOf, key
<1> HIDE DEF usd, hours
<1>4. /\ EstimateOf(type, "simple").aiUsd = 4 * usd /\ EstimateOf(type, "simple").hours = 4 * hours
      /\ EstimateOf(type, "medium").aiUsd = 10 * usd /\ EstimateOf(type, "medium").hours = 10 * hours
      /\ EstimateOf(type, "complex").aiUsd = 25 * usd /\ EstimateOf(type, "complex").hours = 25 * hours
  BY <1>3, ScaleOfComplexity
<1>5. /\ EstimateOf(type, "simple").aiUsd < EstimateOf(type, "medium").aiUsd
      /\ EstimateOf(type, "medium").aiUsd < EstimateOf(type, "complex").aiUsd
      /\ EstimateOf(type, "simple").hours < EstimateOf(type, "medium").hours
      /\ EstimateOf(type, "medium").hours < EstimateOf(type, "complex").hours
  BY <1>2, <1>4
<1>6. complexity = "simple" \/ complexity = "medium" \/ complexity = "complex"
  BY DEF ComplexityScale
<1>7. EstimateOf(type, complexity).aiUsd > 0 /\ EstimateOf(type, complexity).hours > 0
  <2>1. 4 * usd > 0 /\ 4 * hours > 0 /\ 10 * usd > 0 /\ 10 * hours > 0 /\ 25 * usd > 0 /\ 25 * hours > 0
    BY <1>2
  <2>2. QED
    BY <1>4, <1>6, <2>1
<1>8. figure'.kind = "estimate" /\ figure'.type = type /\ figure'.cost = EstimateOf(type, complexity)
  BY DEF EstimateMatterCost
<1>9. QED
  BY <1>5, <1>7, <1>8 DEF SumsAreRight, DeadlinesKeepToTheCalendar, WarningsAreNotTakenBack, Asked

LEMMA CostKeeps ==
  ASSUME NEW actual \in 0..MaxAmount, NEW estimate \in 1..MaxAmount, GetMatterCostStatus(actual, estimate)
  PROVE  SumsAreRight'
<1> DEFINE p == Round(100 * actual, estimate)
           q == Round(100 * (actual + 1), estimate)
<1>1. actual \in Int /\ estimate \in Nat \ {0}
  BY FiguresAssumption
<1>2. 100 * actual \in Int /\ 100 * (actual + 1) \in Int /\ 100 * actual <= 100 * (actual + 1)
  BY <1>1
<1>3. p \in Int /\ q \in Int /\ p <= q
  BY <1>1, <1>2, RoundRises
<1>4. ASSUME 4 * actual >= 3 * estimate PROVE p >= 75
  <2>1. 2 * (100 * actual) + estimate >= 2 * estimate * 75
    BY <1>1, <1>4
  <2>2. 75 \in Int
    OBVIOUS
  <2>3. QED
    BY <1>1, <1>2, <2>1, <2>2, RoundAtLeast
<1>5. /\ CostStatus(actual, estimate) = [warning |-> p >= 75 /\ p < 100, over |-> p >= 100]
      /\ CostStatus(actual + 1, estimate) = [warning |-> q >= 75 /\ q < 100, over |-> q >= 100]
  BY DEF CostStatus
<1> HIDE DEF p, q
<1>6. /\ CostStatus(actual, estimate).warning = (p >= 75 /\ p < 100)
      /\ CostStatus(actual, estimate).over = (p >= 100)
      /\ CostStatus(actual + 1, estimate).warning = (q >= 75 /\ q < 100)
      /\ CostStatus(actual + 1, estimate).over = (q >= 100)
  BY <1>5
<1>7. /\ p >= 100 => q >= 100
      /\ p >= 75 /\ p < 100 => (q >= 75 /\ q < 100) \/ q >= 100
      /\ 4 * actual >= 3 * estimate => (p >= 75 /\ p < 100) \/ p >= 100
  BY <1>1, <1>3, <1>4
<1>8. /\ CostStatus(actual, estimate).over => CostStatus(actual + 1, estimate).over
      /\ CostStatus(actual, estimate).warning =>
           CostStatus(actual + 1, estimate).warning \/ CostStatus(actual + 1, estimate).over
      /\ 4 * actual >= 3 * estimate =>
           CostStatus(actual, estimate).warning \/ CostStatus(actual, estimate).over
  BY <1>6, <1>7
<1>9. /\ figure'.kind = "cost" /\ figure'.actual = actual /\ figure'.estimate = estimate
      /\ figure'.status = CostStatus(actual, estimate)
  BY DEF GetMatterCostStatus
<1>10. QED
  BY <1>8, <1>9 DEF SumsAreRight, DeadlinesKeepToTheCalendar, WarningsAreNotTakenBack, Asked

LEMMA RedlineIsNoSum ==
  ASSUME NEW a, NEW b, CompareTexts(a, b) PROVE SumsAreRight'
<1>1. figure'.kind = "redline"
  BY DEF CompareTexts
<1>2. QED
  BY <1>1 DEF SumsAreRight, DeadlinesKeepToTheCalendar, WarningsAreNotTakenBack, Asked

LEMMA SumsGoOn ==
  ASSUME FiguresStep PROVE SumsAreRight'
<1>1. CASE \E a, b \in BoundedSeq(Line, MaxLines) : CompareTexts(a, b)
  BY <1>1, RedlineIsNoSum
<1>2. CASE \E type \in PeriodType, state \in State, d \in Trigger, elapsed \in Elapsed :
             GetLimitationPeriod(type, state, d, elapsed)
  BY <1>2, LimitationKeeps
<1>3. CASE \E f \in Factor : ComputePIRisk(f)
  BY <1>3, RiskKeeps
<1>4. CASE \E r \in Record : ComputeClientHealthScore(r)
  BY <1>4, HealthKeeps
<1>5. CASE \E type \in DOMAIN Baselines \cup {OtherType}, complexity \in DOMAIN ComplexityScale :
             EstimateMatterCost(type, complexity)
  BY <1>5, EstimateKeeps
<1>6. CASE \E actual \in 0..MaxAmount, estimate \in 1..MaxAmount : GetMatterCostStatus(actual, estimate)
  BY <1>6, CostKeeps
<1>7. QED
  BY <1>1, <1>2, <1>3, <1>4, <1>5, <1>6 DEF FiguresStep

-----------------------------------------------------------------------------

(* The redline.  Its table and its walk are functions that call themselves; *)
(* that such a definition has a value, and what the value is, is proved by  *)
(* the least cell for which it fails: a cell is told by those above it, to  *)
(* its left and across.                                                     *)

Less == OpToRel(<, Nat)

(* A set of numbers that is not empty has a least.                         *)
LEMMA LeastExists ==
  ASSUME NEW S \in SUBSET Nat, S # {}
  PROVE  \E m \in S : \A k \in S : m <= k
<1>1. \A x, y \in Nat : x < y => <<x, y>> \in Less
  BY DEF Less, OpToRel
<1>2. IsWellFoundedOn(Less, Nat)
  BY NatLessThanWellFounded DEF Less
<1>3. S \subseteq Nat
  OBVIOUS
<1>4. PICK m \in S : \A k \in S : ~ (<<k, m>> \in Less)
  BY <1>2, <1>3, WFMin
<1>5. \A k \in S : m <= k
  <2>1. ASSUME NEW k \in S PROVE m <= k
    <3>1. ~ (k < m)
      BY <1>1, <1>4
    <3>2. QED
      BY <3>1
  <2>2. QED
    BY <2>1
<1>6. QED
  BY <1>5

(* What holds where it holds of all that comes before holds everywhere.    *)
LEMMA ByRank ==
  ASSUME NEW D, NEW rank \in [D -> Nat], NEW Good,
         \A c \in D : (\A d \in D : rank[d] < rank[c] => d \in Good) => c \in Good
  PROVE  \A c \in D : c \in Good
<1> DEFINE Bad == {c \in D : c \notin Good}
           S == {rank[c] : c \in Bad}
<1> SUFFICES ASSUME Bad # {} PROVE FALSE
  OBVIOUS
<1>1. S \in SUBSET Nat /\ S # {}
  OBVIOUS
<1>2. PICK m \in S : \A k \in S : m <= k
  BY <1>1, LeastExists
<1>3. PICK c \in Bad : m = rank[c]
  BY <1>2
<1>4. ASSUME NEW d \in D, rank[d] < rank[c] PROVE d \in Good
  <2>1. SUFFICES ASSUME d \notin Good PROVE FALSE
    OBVIOUS
  <2>2. rank[d] \in S
    BY <2>1
  <2>3. rank[c] <= rank[d] /\ rank[d] \in Nat /\ rank[c] \in Nat
    BY <1>2, <1>3, <2>2
  <2>4. QED
    BY <1>4, <2>3
<1>5. QED
  BY <1>3, <1>4

(* F makes of what is known of a function its values where only what comes *)
(* before is needed.                                                       *)
CallsOnlyBefore(F, D, V, rank, top) ==
  /\ V # {} /\ top \in Nat
  /\ rank \in [D -> Nat] /\ \A c \in D : rank[c] <= top
  /\ F \in [[D -> V] -> [D -> V]]
  /\ \A f, g \in [D -> V] : \A c \in D :
       (\A d \in D : rank[d] < rank[c] => f[d] = g[d]) => F[f][c] = F[g][c]

(* A definition that calls itself only on what comes before has a value.   *)
LEMMA RecursionHasAValue ==
  ASSUME NEW F, NEW D, NEW V, NEW rank, NEW top, CallsOnlyBefore(F, D, V, rank, top)
  PROVE  \E f \in [D -> V] : f = F[f]
<1>0. PICK start : start \in V
  BY DEF CallsOnlyBefore
<1> USE <1>0 DEF CallsOnlyBefore
<1> DEFINE Upto(f, n) == \A c \in D : rank[c] < n => f[c] = F[f][c]
           Done == {n \in Nat : \E f \in [D -> V] : Upto(f, n)}
           NotYet == Nat \ Done
<1>1. 0 \in Done
  <2>1. [c \in D |-> start] \in [D -> V]
    OBVIOUS
  <2>2. \A c \in D : ~(rank[c] < 0)
    OBVIOUS
  <2>3. Upto([c \in D |-> start], 0)
    BY <2>2
  <2>4. QED
    BY <2>1, <2>3
<1>2. ASSUME NEW n \in Done PROVE n + 1 \in Done
  <2>1. PICK f \in [D -> V] : Upto(f, n)
    BY <1>2
  <2>2. F[f] \in [D -> V]
    OBVIOUS
  <2>3. ASSUME NEW c \in D, rank[c] < n + 1 PROVE F[f][c] = F[F[f]][c]
    <3>1. ASSUME NEW d \in D, rank[d] < rank[c] PROVE f[d] = F[f][d]
      <4>1. rank[d] \in Nat /\ rank[c] \in Nat /\ n \in Nat
        OBVIOUS
      <4>2. rank[d] < n
        BY <2>3, <3>1, <4>1
      <4>3. QED
        BY <2>1, <4>2
    <3>2. QED
      BY <2>2, <3>1
  <2>4. Upto(F[f], n + 1)
    BY <2>3
  <2>5. QED
    BY <2>2, <2>4
<1>3. NotYet = {}
  <2>1. SUFFICES ASSUME NotYet # {} PROVE FALSE
    OBVIOUS
  <2>2. PICK m \in NotYet : \A k \in NotYet : m <= k
    <3>1. NotYet \in SUBSET Nat
      OBVIOUS
    <3> HIDE DEF NotYet
    <3>2. QED
      BY <2>1, <3>1, LeastExists
  <2>3. m \in Nat /\ m \notin Done
    BY <2>2
  <2> HIDE DEF Done
  <2>4. m # 0
    BY <1>1, <2>3
  <2>5. m - 1 \in Nat /\ m - 1 < m /\ (m - 1) + 1 = m
    BY <2>3, <2>4
  <2>6. m - 1 \in Done
    BY <2>2, <2>5
  <2>7. QED
    BY <1>2, <2>3, <2>5, <2>6
<1>4. top + 1 \in Done
  <2>1. top + 1 \in Nat
    OBVIOUS
  <2> HIDE DEF Done
  <2>2. QED
    BY <1>3, <2>1
<1>5. PICK f \in [D -> V] : Upto(f, top + 1)
  BY <1>4
<1>6. \A c \in D : f[c] = F[f][c]
  <2>1. \A c \in D : rank[c] < top + 1
    OBVIOUS
  <2>2. QED
    BY <1>5, <2>1
<1>7. f = F[f]
  <2>1. F[f] \in [D -> V]
    OBVIOUS
  <2>2. QED
    BY <1>6, <2>1
<1>8. QED
  BY <1>7

-----------------------------------------------------------------------------

Rank(a, b) == [c \in Cells(a, b) |-> c[1] + c[2]]

(* Cells are ranked by the lines before them.                              *)
LEMMA RankIsBounded ==
  ASSUME NEW a, NEW b, Len(a) \in Nat, Len(b) \in Nat
  PROVE  /\ Rank(a, b) \in [Cells(a, b) -> Nat]
         /\ \A c \in Cells(a, b) : Rank(a, b)[c] = c[1] + c[2] /\ c[1] \in 0..Len(a) /\ c[2] \in 0..Len(b)
         /\ \A c \in Cells(a, b) : Rank(a, b)[c] <= Len(a) + Len(b)
<1>1. \A c \in Cells(a, b) : c[1] \in 0..Len(a) /\ c[2] \in 0..Len(b)
  BY DEF Cells
<1>2. \A c \in Cells(a, b) : c[1] + c[2] \in Nat /\ c[1] + c[2] <= Len(a) + Len(b)
  BY <1>1
<1>3. QED
  BY <1>1, <1>2 DEF Rank

(* The cells above, to the left and across.                                *)
LEMMA Neighbours ==
  ASSUME NEW a, NEW b, Len(a) \in Nat, Len(b) \in Nat, NEW c \in Cells(a, b)
  PROVE  /\ c[1] # 0 => /\ <<c[1] - 1, c[2]>> \in Cells(a, b)
                        /\ Rank(a, b)[<<c[1] - 1, c[2]>>] < Rank(a, b)[c]
         /\ c[2] # 0 => /\ <<c[1], c[2] - 1>> \in Cells(a, b)
                        /\ Rank(a, b)[<<c[1], c[2] - 1>>] < Rank(a, b)[c]
         /\ c[1] # 0 /\ c[2] # 0 => /\ <<c[1] - 1, c[2] - 1>> \in Cells(a, b)
                                    /\ Rank(a, b)[<<c[1] - 1, c[2] - 1>>] < Rank(a, b)[c]
<1>1. PICK i \in 0..Len(a), j \in 0..Len(b) : c = <<i, j>>
  BY DEF Cells
<1>2. ASSUME NEW k \in 0..Len(a), NEW l \in 0..Len(b) PROVE <<k, l>> \in Cells(a, b) /\ Rank(a, b)[<<k, l>>] = k + l
  BY DEF Cells, Rank
<1>3. c[1] = i /\ c[2] = j /\ Rank(a, b)[c] = i + j
  BY <1>1, <1>2
<1>4. CASE i # 0
  <2>1. i - 1 \in 0..Len(a) /\ (i - 1) + j < i + j
    BY <1>4
  <2>2. <<i - 1, j>> \in Cells(a, b) /\ Rank(a, b)[<<i - 1, j>>] < i + j
    BY <1>2, <2>1
  <2>3. ASSUME j # 0 PROVE /\ <<i - 1, j - 1>> \in Cells(a, b) /\ Rank(a, b)[<<i - 1, j - 1>>] < i + j
                           /\ <<i, j - 1>> \in Cells(a, b) /\ Rank(a, b)[<<i, j - 1>>] < i + j
    <3>1. j - 1 \in 0..Len(b) /\ (i - 1) + (j - 1) < i + j /\ i + (j - 1) < i + j
      BY <2>3
    <3>2. QED
      BY <1>2, <2>1, <3>1
  <2>4. QED
    BY <1>3, <2>2, <2>3
<1>5. CASE i = 0
  <2>1. ASSUME j # 0 PROVE <<i, j - 1>> \in Cells(a, b) /\ Rank(a, b)[<<i, j - 1>>] < i + j
    <3>1. j - 1 \in 0..Len(b) /\ i + (j - 1) < i + j
      BY <2>1
    <3>2. QED
      BY <1>2, <3>1
  <2>2. QED
    BY <1>3, <1>5, <2>1
<1>6. QED
  BY <1>4, <1>5

(* What stands in a cell of the table, by the cells before it.             *)
Cell(dp, a, b, c) ==
  LET i == c[1]
      j == c[2]
  IN IF i = 0 \/ j = 0 THEN 0
     ELSE IF a[i] = b[j] THEN dp[<<i - 1, j - 1>>] + 1
     ELSE Max({dp[<<i - 1, j>>], dp[<<i, j - 1>>]})

Table(dp, a, b) == [c \in Cells(a, b) |-> Cell(dp, a, b, c)]
IsTable(dp, a, b) == dp = Table(dp, a, b)

(* And in a cell of the walk.                                              *)
Step(ops, dp, a, b, c) ==
  LET i == c[1]
      j == c[2]
  IN IF i = 0 /\ j = 0 THEN << >>
     ELSE IF j = 0 THEN Append(ops[<<i - 1, j>>], Op("remove", a[i]))
     ELSE IF i = 0 THEN Append(ops[<<i, j - 1>>], Op("add", b[j]))
     ELSE IF a[i] = b[j] THEN Append(ops[<<i - 1, j - 1>>], Op("same", a[i]))
     ELSE IF dp[<<i - 1, j>>] >= dp[<<i, j - 1>>]
          THEN Append(ops[<<i - 1, j>>], Op("remove", a[i]))
     ELSE Append(ops[<<i, j - 1>>], Op("add", b[j]))

Walk(ops, dp, a, b) == [c \in Cells(a, b) |-> Step(ops, dp, a, b, c)]
IsWalk(ops, a, b) == ops = Walk(ops, Lcs(a, b), a, b)

LEMMA LcsIsItsTable ==
  ASSUME NEW a, NEW b, \E dp : IsTable(dp, a, b)
  PROVE  IsTable(Lcs(a, b), a, b)
BY Zenon DEF Lcs, IsTable, Table, Cell

LEMMA DiffLinesIsItsWalk ==
  ASSUME NEW a, NEW b, \E ops : IsWalk(ops, a, b)
  PROVE  \E ops : IsWalk(ops, a, b) /\ DiffLines(a, b) = ops[<<Len(a), Len(b)>>]
<1> DEFINE walk == CHOOSE ops : IsWalk(ops, a, b)
<1>1. IsWalk(walk, a, b)
  BY Zenon
<1>2. DiffLines(a, b) = walk[<<Len(a), Len(b)>>]
  BY Zenon DEF DiffLines, IsWalk, Walk, Step
<1>3. QED
  BY <1>1, <1>2

(* The cells of a table, each by those before it.                           *)
LEMMA TableFollows ==
  ASSUME NEW a, NEW b, NEW dp, IsTable(dp, a, b)
  PROVE  \A c \in Cells(a, b) : dp[c] = Cell(dp, a, b, c)
BY Zenon DEF IsTable, Table

(* The table has a value.                                                  *)
LEMMA TableExists ==
  ASSUME NEW a, NEW b, Len(a) \in Nat, Len(b) \in Nat
  PROVE  IsTable(Lcs(a, b), a, b)
<1> DEFINE D == Cells(a, b)
           F == [f \in [D -> Nat] |-> Table(f, a, b)]
<1>1. ASSUME NEW f \in [D -> Nat] PROVE Table(f, a, b) \in [D -> Nat]
  <2>1. ASSUME NEW c \in D PROVE Table(f, a, b)[c] \in Nat
    <3>1. Table(f, a, b)[c] = Cell(f, a, b, c)
      BY Zenon DEF Table
    <3>2. ASSUME c[1] # 0, c[2] # 0
          PROVE  /\ f[<<c[1] - 1, c[2] - 1>>] \in Nat
                 /\ f[<<c[1] - 1, c[2]>>] \in Nat
                 /\ f[<<c[1], c[2] - 1>>] \in Nat
      BY <3>2, Neighbours
    <3>3. ASSUME c[1] # 0, c[2] # 0
          PROVE  Max({f[<<c[1] - 1, c[2]>>], f[<<c[1], c[2] - 1>>]}) \in Nat
      <4>1. \A x, y \in Nat : Max({x, y}) \in Nat
        BY GreaterOfTwo
      <4>2. QED
        BY <3>2, <3>3, <4>1
    <3>4. QED
      BY <3>1, <3>2, <3>3 DEF Cell
  <2>2. Table(f, a, b) = [c \in D |-> Table(f, a, b)[c]]
    BY Zenon DEF Table
  <2> QED
    BY <2>1, <2>2
<1>2. F \in [[D -> Nat] -> [D -> Nat]]
  BY <1>1
<1>3. ASSUME NEW f \in [D -> Nat], NEW g \in [D -> Nat], NEW c \in D,
             \A d \in D : Rank(a, b)[d] < Rank(a, b)[c] => f[d] = g[d]
      PROVE  F[f][c] = F[g][c]
  <2>1. \A h \in [D -> Nat] : F[h][c] = Cell(h, a, b, c)
    BY Zenon DEF Table
  <2>2. ASSUME c[1] # 0, c[2] # 0
        PROVE  /\ f[<<c[1] - 1, c[2] - 1>>] = g[<<c[1] - 1, c[2] - 1>>]
               /\ f[<<c[1] - 1, c[2]>>] = g[<<c[1] - 1, c[2]>>]
               /\ f[<<c[1], c[2] - 1>>] = g[<<c[1], c[2] - 1>>]
    BY <1>3, <2>2, Neighbours
  <2> HIDE DEF F
  <2>3. QED
    BY <2>1, <2>2, Zenon DEF Cell
<1>4. \E f \in [D -> Nat] : f = F[f]
  <2>1. /\ Rank(a, b) \in [D -> Nat]
        /\ \A c \in D : Rank(a, b)[c] <= Len(a) + Len(b)
        /\ Len(a) + Len(b) \in Nat
        /\ 0 \in Nat
    BY RankIsBounded
  <2>2. \A f, g \in [D -> Nat] : \A c \in D :
          (\A d \in D : Rank(a, b)[d] < Rank(a, b)[c] => f[d] = g[d]) => F[f][c] = F[g][c]
    BY <1>3
  <2>3. CallsOnlyBefore(F, D, Nat, Rank(a, b), Len(a) + Len(b))
    BY <1>2, <2>1, <2>2 DEF CallsOnlyBefore
  <2> HIDE DEF D, F
  <2>4. QED
    BY <2>3, RecursionHasAValue
<1>5. \E dp : IsTable(dp, a, b)
  <2>1. PICK f \in [D -> Nat] : f = F[f]
    BY <1>4
  <2>2. IsTable(f, a, b)
    BY <2>1 DEF IsTable
  <2>3. QED
    BY <2>2
<1>6. QED
  BY <1>5, LcsIsItsTable

-----------------------------------------------------------------------------

(* The first i lines of a and the first j of b side by side.               *)
AlignedUpto(a, b, i, j) ==
  {m \in SUBSET ((1..i) \X (1..j)) :
     \A x \in m : a[x[1]] = b[x[2]] /\ \A y \in m : x[1] < y[1] <=> x[2] < y[2]}

LEMMA AlignedIsFinite ==
  ASSUME NEW a, NEW b, NEW i \in Nat, NEW j \in Nat, NEW m \in AlignedUpto(a, b, i, j)
  PROVE  IsFiniteSet(m) /\ Cardinality(m) \in Nat
<1>1. IsFiniteSet((1..i) \X (1..j))
  <2>1. IsFiniteSet(1..i) /\ IsFiniteSet(1..j)
    BY FS_Interval
  <2>2. QED
    BY <2>1, FS_Product
<1>2. IsFiniteSet(m)
  BY <1>1, FS_Subset DEF AlignedUpto
<1>3. QED
  BY <1>2, FS_CardinalityType

(* Side by side with the last lines apart, all but one pair remain.        *)
LEMMA LastPairAtMost ==
  ASSUME NEW a, NEW b, NEW i \in Nat \ {0}, NEW j \in Nat \ {0}, NEW m \in AlignedUpto(a, b, i, j)
  PROVE  \E k \in AlignedUpto(a, b, i - 1, j - 1) : Cardinality(m) <= Cardinality(k) + 1
<1> DEFINE k == {x \in m : x[1] < i /\ x[2] < j}
<1>1. \A x \in m : x[1] \in 1..i /\ x[2] \in 1..j /\ x = <<x[1], x[2]>>
  BY DEF AlignedUpto
<1>2. \A x, y \in m : x[1] < y[1] <=> x[2] < y[2]
  BY DEF AlignedUpto
<1>3. k \in AlignedUpto(a, b, i - 1, j - 1)
  <2>1. \A x \in k : x[1] \in 1..(i - 1) /\ x[2] \in 1..(j - 1)
    BY <1>1
  <2>2. k \subseteq (1..(i - 1)) \X (1..(j - 1))
    BY <1>1, <2>1
  <2>3. QED
    BY <2>2 DEF AlignedUpto
<1>4. ASSUME NEW x \in m \ k, NEW y \in m \ k PROVE x = y
  <2>1. x[1] \in Nat /\ x[2] \in Nat /\ y[1] \in Nat /\ y[2] \in Nat
    BY <1>1
  <2>2. ~(x[1] < y[1])
    BY <1>1, <1>2, <1>4
  <2>3. ~(y[1] < x[1])
    BY <1>1, <1>2, <1>4
  <2>4. x[1] = y[1] /\ x[2] = y[2]
    BY <1>2, <2>1, <2>2, <2>3
  <2>5. QED
    BY <1>1, <2>4
<1>5. IsFiniteSet(k) /\ Cardinality(k) \in Nat
  BY <1>3, AlignedIsFinite
<1> HIDE DEF k
<1>6. CASE m \subseteq k
  <2>1. Cardinality(m) <= Cardinality(k) /\ Cardinality(m) \in Nat
    BY <1>5, <1>6, FS_Subset, FS_CardinalityType
  <2>2. Cardinality(m) <= Cardinality(k) + 1
    BY <1>5, <2>1
  <2>3. QED
    BY <1>3, <2>2
<1>7. CASE \E x : x \in m \ k
  <2>1. PICK x : x \in m \ k
    BY <1>7
  <2>2. m \subseteq k \cup {x}
    BY <1>4, <2>1
  <2>3. IsFiniteSet(k \cup {x}) /\ Cardinality(k \cup {x}) <= Cardinality(k) + 1
    BY <1>5, FS_AddElement
  <2>4. Cardinality(m) <= Cardinality(k \cup {x})
    BY <2>2, <2>3, FS_Subset
  <2>5. Cardinality(m) \in Nat /\ Cardinality(k \cup {x}) \in Nat
    BY <2>2, <2>3, FS_Subset, FS_CardinalityType
  <2>6. Cardinality(m) <= Cardinality(k) + 1
    BY <1>5, <2>3, <2>4, <2>5
  <2>7. QED
    BY <1>3, <2>6
<1>8. QED
  BY <1>6, <1>7

(* Last lines that differ cannot both have a partner.                      *)
LEMMA LastPairIsNone ==
  ASSUME NEW a, NEW b, NEW i \in Nat \ {0}, NEW j \in Nat \ {0}, NEW m \in AlignedUpto(a, b, i, j),
         a[i] # b[j]
  PROVE  m \in AlignedUpto(a, b, i - 1, j) \/ m \in AlignedUpto(a, b, i, j - 1)
<1>1. \A x \in m : x[1] \in 1..i /\ x[2] \in 1..j /\ x = <<x[1], x[2]>> /\ a[x[1]] = b[x[2]]
  BY DEF AlignedUpto
<1>2. \A x, y \in m : x[1] < y[1] <=> x[2] < y[2]
  BY DEF AlignedUpto
<1>3. CASE \A x \in m : x[1] # i
  <2>1. \A x \in m : x[1] \in 1..(i - 1)
    BY <1>1, <1>3
  <2>2. m \subseteq (1..(i - 1)) \X (1..j)
    BY <1>1, <2>1
  <2>3. QED
    BY <2>2 DEF AlignedUpto
<1>4. ASSUME NEW x \in m, x[1] = i PROVE m \in AlignedUpto(a, b, i, j - 1)
  <2>1. x[2] # j
    BY <1>1, <1>4
  <2>2. ASSUME NEW y \in m PROVE y[2] \in 1..(j - 1)
    <3>1. x[1] \in 1..i /\ x[2] \in 1..j /\ y[1] \in 1..i /\ y[2] \in 1..j
      BY <1>1
    <3>2. x[2] < y[2] => x[1] < y[1]
      BY <1>2
    <3>3. y[2] # j
      BY <1>4, <2>1, <3>1, <3>2
    <3>4. QED
      BY <3>1, <3>3
  <2>3. m \subseteq (1..i) \X (1..(j - 1))
    BY <1>1, <2>2
  <2>4. QED
    BY <2>3 DEF AlignedUpto
<1>5. QED
  BY <1>3, <1>4

(* No two texts side by side have more pairs than the table says.          *)
LEMMA TableBounds ==
  ASSUME NEW a, NEW b, Len(a) \in Nat, Len(b) \in Nat, NEW dp, IsTable(dp, a, b)
  PROVE  \A c \in Cells(a, b) :
           dp[c] \in Nat /\ \A m \in AlignedUpto(a, b, c[1], c[2]) : Cardinality(m) <= dp[c]
<1> DEFINE Good == {c \in Cells(a, b) : dp[c] \in Nat /\ \A m \in AlignedUpto(a, b, c[1], c[2]) : Cardinality(m) <= dp[c]}
<1>0. \A c \in Cells(a, b) : dp[c] = Cell(dp, a, b, c)
  BY TableFollows
<1>1. ASSUME NEW c \in Cells(a, b),
             \A d \in Cells(a, b) : Rank(a, b)[d] < Rank(a, b)[c] => d \in Good
      PROVE  c \in Good
  <2>1. c[1] \in Nat /\ c[2] \in Nat
    BY RankIsBounded
  <2>0. dp[c] = Cell(dp, a, b, c)
    BY <1>0
  <2> DEFINE i == c[1]
             j == c[2]
  <2>2. CASE i = 0 \/ j = 0
    <3>1. dp[c] = 0
      BY <2>0, <2>2 DEF Cell
    <3>2. ASSUME NEW m \in AlignedUpto(a, b, i, j) PROVE Cardinality(m) <= 0
      <4>1. m = {}
        BY <2>2 DEF AlignedUpto
      <4>2. QED
        BY <4>1, FS_EmptySet
    <3>3. QED
      BY <3>1, <3>2
  <2>3. CASE i # 0 /\ j # 0 /\ a[i] = b[j]
    <3> DEFINE d == <<i - 1, j - 1>>
    <3>1. dp[c] = dp[d] + 1
      BY <2>0, <2>3 DEF Cell
    <3>2. d \in Good
      BY <1>1, <2>3, Neighbours
    <3>3. dp[d] \in Nat /\ \A m \in AlignedUpto(a, b, i - 1, j - 1) : Cardinality(m) <= dp[d]
      BY <3>2
    <3>4. ASSUME NEW m \in AlignedUpto(a, b, i, j) PROVE Cardinality(m) <= dp[d] + 1
      <4>1. PICK k \in AlignedUpto(a, b, i - 1, j - 1) : Cardinality(m) <= Cardinality(k) + 1
        BY <2>1, <2>3, LastPairAtMost
      <4>2. Cardinality(k) \in Nat /\ Cardinality(m) \in Nat
        BY <2>1, <2>3, AlignedIsFinite
      <4>3. QED
        BY <3>3, <4>1, <4>2
    <3>5. QED
      BY <3>1, <3>3, <3>4
  <2>4. CASE i # 0 /\ j # 0 /\ a[i] # b[j]
    <3> DEFINE d == <<i - 1, j>>
               e == <<i, j - 1>>
    <3>1. dp[c] = Max({dp[d], dp[e]})
      BY <2>0, <2>4 DEF Cell
    <3>2. d \in Good /\ e \in Good
      BY <1>1, <2>4, Neighbours
    <3>3. /\ dp[d] \in Nat /\ \A m \in AlignedUpto(a, b, i - 1, j) : Cardinality(m) <= dp[d]
          /\ dp[e] \in Nat /\ \A m \in AlignedUpto(a, b, i, j - 1) : Cardinality(m) <= dp[e]
      BY <3>2
    <3>4. dp[c] \in Nat /\ dp[c] >= dp[d] /\ dp[c] >= dp[e]
      BY <3>1, <3>3, GreaterOfTwo
    <3>5. ASSUME NEW m \in AlignedUpto(a, b, i, j) PROVE Cardinality(m) <= dp[c]
      <4>1. Cardinality(m) \in Nat
        BY <2>1, AlignedIsFinite
      <4>2. m \in AlignedUpto(a, b, i - 1, j) \/ m \in AlignedUpto(a, b, i, j - 1)
        BY <2>1, <2>4, LastPairIsNone
      <4>3. QED
        BY <3>3, <3>4, <4>1, <4>2
    <3>6. QED
      BY <3>4, <3>5
  <2>5. QED
    BY <2>2, <2>3, <2>4
<1>2. \A c \in Cells(a, b) : c \in Good
  <2>1. Rank(a, b) \in [Cells(a, b) -> Nat]
    BY RankIsBounded
  <2> HIDE DEF Good
  <2>2. QED
    BY <1>1, <2>1, ByRank
<1>3. QED
  BY <1>2

-----------------------------------------------------------------------------

(* What a walk collects.                                                   *)
Mark(T) == [kind : {"add", "remove", "same"}, text : T]

LEMMA MarksAreMade ==
  ASSUME NEW T, NEW t \in T, NEW kind \in {"add", "remove", "same"}
  PROVE  Op(kind, t) \in Mark(T) /\ Op(kind, t).kind = kind /\ Op(kind, t).text = t
BY DEF Op, Mark

LEMMA CountGrows ==
  ASSUME NEW T, NEW ops \in Seq(Mark(T)), NEW op \in Mark(T), NEW kind
  PROVE  /\ Count(ops, kind) \in Nat
         /\ Count(Append(ops, op), kind) = Count(ops, kind) + (IF op.kind = kind THEN 1 ELSE 0)
<1> DEFINE n == Len(ops)
           K == {k \in DOMAIN ops : ops[k].kind = kind}
           L == {k \in DOMAIN Append(ops, op) : Append(ops, op)[k].kind = kind}
<1>1. n \in Nat /\ DOMAIN ops = 1..n
  OBVIOUS
<1>2. IsFiniteSet(1..n)
  BY <1>1, FS_Interval
<1>3. IsFiniteSet(K) /\ Cardinality(K) \in Nat
  BY <1>1, <1>2, FS_Subset, FS_CardinalityType
<1>4. DOMAIN Append(ops, op) = 1..(n + 1) /\ Append(ops, op)[n + 1] = op
      /\ \A k \in 1..n : Append(ops, op)[k] = ops[k]
  BY <1>1
<1>5. L = IF op.kind = kind THEN K \cup {n + 1} ELSE K
  BY <1>1, <1>4
<1>6. n + 1 \notin K
  BY <1>1
<1> HIDE DEF K, L
<1>7. Cardinality(K \cup {n + 1}) = Cardinality(K) + 1
  BY <1>3, <1>6, FS_AddElement
<1>8. Cardinality(L) = Cardinality(K) + (IF op.kind = kind THEN 1 ELSE 0)
  BY <1>3, <1>5, <1>7
<1>9. QED
  BY <1>3, <1>8 DEF Count, K, L

LEMMA CountOfNone == ASSUME NEW kind PROVE Count(<< >>, kind) = 0
<1>1. {k \in DOMAIN << >> : << >>[k].kind = kind} = {}
  OBVIOUS
<1>2. QED
  BY <1>1, FS_EmptySet DEF Count

(* The texts kept up to a place, by those kept up to the one before.       *)
KeptAt(text, kind, ops, k) ==
  IF k = 0 THEN << >>
  ELSE IF ops[k].kind = kind THEN text[k - 1]
  ELSE Append(text[k - 1], ops[k].text)

IsKeptText(text, kind, ops) == text = [k \in 0..Len(ops) |-> KeptAt(text, kind, ops, k)]

LEMMA KeptExists ==
  ASSUME NEW T, NEW ops \in Seq(Mark(T)), NEW kind
  PROVE  \E text : IsKeptText(text, kind, ops)
<1> DEFINE D == 0..Len(ops)
           V == Seq(T)
           F == [f \in [D -> V] |-> [k \in D |-> KeptAt(f, kind, ops, k)]]
           rank == [k \in D |-> k]
<1>1. Len(ops) \in Nat
  OBVIOUS
<1>2. ASSUME NEW f \in [D -> V], NEW k \in D PROVE KeptAt(f, kind, ops, k) \in V
  <2>1. CASE k = 0
    BY <2>1 DEF KeptAt
  <2>2. CASE k # 0
    <3>1. k \in 1..Len(ops) /\ k - 1 \in D
      BY <1>1, <2>2
    <3>2. ops[k].text \in T
      <4>1. ops[k] \in Mark(T)
        BY <3>1
      <4>2. QED
        BY <4>1 DEF Mark
    <3>3. f[k - 1] \in V
      BY <3>1
    <3>4. Append(f[k - 1], ops[k].text) \in V
      BY <3>2, <3>3
    <3>5. QED
      BY <2>2, <3>3, <3>4 DEF KeptAt
  <2>3. QED
    BY <2>1, <2>2
<1>3. F \in [[D -> V] -> [D -> V]]
  BY <1>2
<1>4. ASSUME NEW f \in [D -> V], NEW g \in [D -> V], NEW k \in D,
             \A d \in D : rank[d] < rank[k] => f[d] = g[d]
      PROVE  F[f][k] = F[g][k]
  <2>1. F[f][k] = KeptAt(f, kind, ops, k) /\ F[g][k] = KeptAt(g, kind, ops, k)
    OBVIOUS
  <2>2. ASSUME k # 0 PROVE f[k - 1] = g[k - 1]
    <3>1. k - 1 \in D /\ k - 1 < k
      BY <1>1, <2>2
    <3>2. QED
      BY <1>4, <3>1
  <2> HIDE DEF F
  <2>3. QED
    BY <2>1, <2>2 DEF KeptAt
<1>5. CallsOnlyBefore(F, D, V, rank, Len(ops))
  <2>1. V # {} /\ rank \in [D -> Nat] /\ \A k \in D : rank[k] <= Len(ops)
    <3>1. << >> \in V
      OBVIOUS
    <3>2. rank \in [D -> Nat] /\ \A k \in D : rank[k] <= Len(ops)
      BY <1>1
    <3> HIDE DEF V
    <3>3. QED
      BY <3>1, <3>2
  <2> HIDE DEF F, V, D, rank
  <2>2. QED
    BY <1>1, <1>3, <1>4, <2>1 DEF CallsOnlyBefore
<1>6. PICK f \in [D -> V] : f = F[f]
  <2> HIDE DEF F, D, V
  <2>1. QED
    BY <1>5, RecursionHasAValue
<1>7. QED
  BY <1>6 DEF IsKeptText

LEMMA WithoutIsKept ==
  ASSUME NEW kind, NEW ops, \E text : IsKeptText(text, kind, ops)
  PROVE  \E text : IsKeptText(text, kind, ops) /\ Without(kind, ops) = text[Len(ops)]
<1> DEFINE text == CHOOSE t : IsKeptText(t, kind, ops)
<1>1. IsKeptText(text, kind, ops)
  BY Zenon
<1>2. Without(kind, ops) = text[Len(ops)]
  BY Zenon DEF Without, IsKeptText, KeptAt
<1>3. QED
  BY <1>1, <1>2

LEMMA WithoutNone == ASSUME NEW kind PROVE Without(kind, << >>) = << >>
<1>1. \E text : IsKeptText(text, kind, << >>)
  <2>1. << >> \in Seq(Mark({}))
    OBVIOUS
  <2>2. QED
    BY <2>1, KeptExists
<1>2. PICK text : IsKeptText(text, kind, << >>) /\ Without(kind, << >>) = text[Len(<< >>)]
  BY <1>1, WithoutIsKept
<1>3. Len(<< >>) = 0 /\ 0 \in 0..Len(<< >>)
  OBVIOUS
<1>4. text[0] = << >>
  BY <1>2, <1>3 DEF IsKeptText, KeptAt
<1>5. QED
  BY <1>2, <1>3, <1>4

LEMMA WithoutGrows ==
  ASSUME NEW T, NEW ops \in Seq(Mark(T)), NEW op \in Mark(T), NEW kind
  PROVE  Without(kind, Append(ops, op)) =
           IF op.kind = kind THEN Without(kind, ops) ELSE Append(Without(kind, ops), op.text)
<1> DEFINE n == Len(ops)
           more == Append(ops, op)
<1>1. /\ n \in Nat /\ more \in Seq(Mark(T)) /\ Len(more) = n + 1
      /\ more[n + 1] = op /\ \A k \in 1..n : more[k] = ops[k]
  OBVIOUS
<1> HIDE DEF more
<1>2. PICK s : IsKeptText(s, kind, ops) /\ Without(kind, ops) = s[n]
  BY KeptExists, WithoutIsKept
<1>3. PICK t : IsKeptText(t, kind, more) /\ Without(kind, more) = t[n + 1]
  BY <1>1, KeptExists, WithoutIsKept
<1>4. /\ \A k \in 0..n : s[k] = KeptAt(s, kind, ops, k)
      /\ \A k \in 0..(n + 1) : t[k] = KeptAt(t, kind, more, k)
  BY <1>1, <1>2, <1>3 DEF IsKeptText
<1>5. \A k \in 0..n : s[k] = t[k]
  <2> DEFINE D == 0..n
             rank == [k \in D |-> k]
             Good == {k \in D : s[k] = t[k]}
  <2>1. rank \in [D -> Nat]
    OBVIOUS
  <2>2. ASSUME NEW k \in D, \A d \in D : rank[d] < rank[k] => d \in Good PROVE k \in Good
    <3>1. k \in 0..(n + 1)
      BY <1>1
    <3>2. CASE k = 0
      BY <1>4, <3>1, <3>2 DEF KeptAt
    <3>3. CASE k # 0
      <4>1. k - 1 \in D /\ k - 1 < k /\ k \in 1..n
        BY <1>1, <3>3
      <4>2. s[k - 1] = t[k - 1]
        BY <2>2, <4>1
      <4>3. more[k] = ops[k]
        BY <1>1, <4>1
      <4>4. QED
        BY <1>4, <3>1, <3>3, <4>2, <4>3 DEF KeptAt
    <3>4. QED
      BY <3>2, <3>3
  <2>3. \A k \in D : k \in Good
    <3> HIDE DEF D, rank, Good
    <3>1. QED
      BY <2>1, <2>2, ByRank
  <2>4. QED
    BY <2>3
<1>6. t[n + 1] = IF op.kind = kind THEN t[n] ELSE Append(t[n], op.text)
  <2>1. n + 1 \in 0..(n + 1) /\ n + 1 # 0 /\ (n + 1) - 1 = n
    BY <1>1
  <2>2. t[n + 1] = KeptAt(t, kind, more, n + 1)
    BY <1>4, <2>1
  <2>3. QED
    BY <1>1, <2>1, <2>2 DEF KeptAt
<1>7. n \in 0..n
  BY <1>1
<1>8. QED
  BY <1>2, <1>3, <1>5, <1>6, <1>7 DEF more

-----------------------------------------------------------------------------

LEMMA StepIsSound ==
  ASSUME NEW T, NEW a \in Seq(T), NEW b \in Seq(T), NEW dp, NEW c \in Cells(a, b),
         NEW ops \in [Cells(a, b) -> Seq(Mark(T))]
  PROVE  Step(ops, dp, a, b, c) \in Seq(Mark(T))
<1> DEFINE i == c[1]
           j == c[2]
<1>1. Len(a) \in Nat /\ Len(b) \in Nat
  OBVIOUS
<1>2. i \in 0..Len(a) /\ j \in 0..Len(b)
  BY <1>1, RankIsBounded
<1>3. ASSUME i # 0 PROVE Op("remove", a[i]) \in Mark(T) /\ Op("same", a[i]) \in Mark(T)
  <2>1. a[i] \in T
    BY <1>1, <1>2, <1>3
  <2>2. QED
    BY <2>1, MarksAreMade
<1>4. ASSUME j # 0 PROVE Op("add", b[j]) \in Mark(T)
  <2>1. b[j] \in T
    BY <1>1, <1>2, <1>4
  <2>2. QED
    BY <2>1, MarksAreMade
<1>5. i # 0 => ops[<<i - 1, j>>] \in Seq(Mark(T))
  BY <1>1, Neighbours
<1>6. j # 0 => ops[<<i, j - 1>>] \in Seq(Mark(T))
  BY <1>1, Neighbours
<1>7. i # 0 /\ j # 0 => ops[<<i - 1, j - 1>>] \in Seq(Mark(T))
  BY <1>1, Neighbours
<1> DEFINE M == Mark(T)
<1>8. \A s \in Seq(M), x \in M : Append(s, x) \in Seq(M)
  OBVIOUS
<1>9. << >> \in Seq(M)
  OBVIOUS
<1>10. QED
  BY <1>3, <1>4, <1>5, <1>6, <1>7, <1>8, <1>9 DEF Step

(* The walk has a value.                                                   *)
LEMMA WalkExists ==
  ASSUME NEW T, NEW a \in Seq(T), NEW b \in Seq(T)
  PROVE  \E ops : IsWalk(ops, a, b)
<1> DEFINE D == Cells(a, b)
           V == Seq(Mark(T))
           dp == Lcs(a, b)
           F == [f \in [D -> V] |-> Walk(f, dp, a, b)]
<1>0. Len(a) \in Nat /\ Len(b) \in Nat
  OBVIOUS
<1>1. ASSUME NEW f \in [D -> V] PROVE Walk(f, dp, a, b) \in [D -> V]
  <2>1. \A c \in D : Step(f, dp, a, b, c) \in V
    BY StepIsSound
  <2> HIDE DEF V, dp
  <2>2. QED
    BY <2>1 DEF Walk
<1>2. F \in [[D -> V] -> [D -> V]]
  <2> HIDE DEF V, dp, D
  <2> QED
    BY <1>1
<1>3. ASSUME NEW f \in [D -> V], NEW g \in [D -> V], NEW c \in D,
             \A d \in D : Rank(a, b)[d] < Rank(a, b)[c] => f[d] = g[d]
      PROVE  F[f][c] = F[g][c]
  <2>1. \A h \in [D -> V] : F[h][c] = Step(h, dp, a, b, c)
    BY Zenon DEF Walk
  <2>2. /\ c[1] # 0 => f[<<c[1] - 1, c[2]>>] = g[<<c[1] - 1, c[2]>>]
        /\ c[2] # 0 => f[<<c[1], c[2] - 1>>] = g[<<c[1], c[2] - 1>>]
        /\ c[1] # 0 /\ c[2] # 0 => f[<<c[1] - 1, c[2] - 1>>] = g[<<c[1] - 1, c[2] - 1>>]
    BY <1>0, <1>3, Neighbours
  <2>3. Step(f, dp, a, b, c) = Step(g, dp, a, b, c)
    <3> HIDE DEF dp
    <3>1. QED
      BY <2>2, Zenon DEF Step
  <2> HIDE DEF F
  <2>4. QED
    BY <2>1, <2>3, Zenon
<1>4. PICK f \in [D -> V] : f = F[f]
  <2>1. << >> \in V
    OBVIOUS
  <2>2. Len(a) + Len(b) \in Nat
    BY <1>0
  <2>3. Rank(a, b) \in [D -> Nat] /\ \A c \in D : Rank(a, b)[c] <= Len(a) + Len(b)
    BY <1>0, RankIsBounded
  <2> HIDE DEF D, F, V
  <2>4. CallsOnlyBefore(F, D, V, Rank(a, b), Len(a) + Len(b))
    BY <1>2, <1>3, <2>1, <2>2, <2>3 DEF CallsOnlyBefore
  <2>5. QED
    BY <2>4, RecursionHasAValue
<1>5. IsWalk(f, a, b)
  BY <1>4 DEF IsWalk
<1>6. QED
  BY <1>5

LEMMA OneLineMore ==
  ASSUME NEW T, NEW a \in Seq(T), NEW i \in 1..Len(a)
  PROVE  SubSeq(a, 1, i) = Append(SubSeq(a, 1, i - 1), a[i])
<1> DEFINE s == SubSeq(a, 1, i - 1)
<1>1. Len(a) \in Nat /\ i \in Nat /\ i - 1 \in Nat /\ i - 1 <= Len(a) /\ i <= Len(a)
  OBVIOUS
<1>2. s \in Seq(T) /\ Len(s) = i - 1 /\ \A k \in 1..(i - 1) : s[k] = a[k]
  BY <1>1
<1>3. /\ SubSeq(a, 1, i) \in Seq(T) /\ Len(SubSeq(a, 1, i)) = i
      /\ \A k \in 1..i : SubSeq(a, 1, i)[k] = a[k]
  BY <1>1
<1> HIDE DEF s
<1>4. a[i] \in T
  OBVIOUS
<1>5. /\ Append(s, a[i]) \in Seq(T) /\ Len(Append(s, a[i])) = i
      /\ \A k \in 1..i : Append(s, a[i])[k] = a[k]
  <2>1. Append(s, a[i]) \in Seq(T) /\ Len(Append(s, a[i])) = (i - 1) + 1 /\ Append(s, a[i])[(i - 1) + 1] = a[i]
        /\ \A k \in 1..(i - 1) : Append(s, a[i])[k] = s[k]
    BY <1>2, <1>4
  <2>2. \A k \in 1..i : k \in 1..(i - 1) \/ k = (i - 1) + 1
    BY <1>1
  <2>3. (i - 1) + 1 = i
    BY <1>1
  <2>4. QED
    BY <1>2, <2>1, <2>2, <2>3
<1>6. QED
  BY <1>3, <1>5, SeqEqual DEF s

(* What the walk has collected in a cell tells the texts up to there, and  *)
(* leaves as many lines unmarked as the table says.                        *)
Tells(ops, dp, a, b, T, c) ==
  /\ ops[c] \in Seq(Mark(T))
  /\ Without("add", ops[c]) = SubSeq(a, 1, c[1])
  /\ Without("remove", ops[c]) = SubSeq(b, 1, c[2])
  /\ c[1] - Count(ops[c], "remove") = dp[c]
  /\ c[2] - Count(ops[c], "add") = dp[c]

LEMMA WalkTells ==
  ASSUME NEW T, NEW a \in Seq(T), NEW b \in Seq(T), NEW ops, IsWalk(ops, a, b)
  PROVE  \A c \in Cells(a, b) : Tells(ops, Lcs(a, b), a, b, T, c)
<1> DEFINE dp == Lcs(a, b)
           Good == {c \in Cells(a, b) : Tells(ops, dp, a, b, T, c)}
<1>1. Len(a) \in Nat /\ Len(b) \in Nat
  OBVIOUS
<1>2. IsTable(dp, a, b)
  BY <1>1, TableExists
<1> HIDE DEF dp
<1>3. \A c \in Cells(a, b) : dp[c] = Cell(dp, a, b, c) /\ dp[c] \in Nat
  <2>1. \A c \in Cells(a, b) : dp[c] = Cell(dp, a, b, c)
    BY <1>2, TableFollows
  <2>2. \A c \in Cells(a, b) : dp[c] \in Nat
    BY <1>1, <1>2, TableBounds
  <2>3. QED
    BY <2>1, <2>2
<1>4. \A c \in Cells(a, b) : ops[c] = Step(ops, dp, a, b, c)
  BY Zenon DEF IsWalk, Walk, dp
<1>5. ASSUME NEW c \in Cells(a, b),
             \A d \in Cells(a, b) : Rank(a, b)[d] < Rank(a, b)[c] => d \in Good
      PROVE  c \in Good
  <2> DEFINE i == c[1]
             j == c[2]
  <2>1. i \in 0..Len(a) /\ j \in 0..Len(b)
    BY <1>1, RankIsBounded
  <2>2. /\ i # 0 => <<i - 1, j>> \in Good
        /\ j # 0 => <<i, j - 1>> \in Good
        /\ i # 0 /\ j # 0 => <<i - 1, j - 1>> \in Good
    BY <1>1, <1>5, Neighbours
  <2>3. dp[c] = Cell(dp, a, b, c) /\ ops[c] = Step(ops, dp, a, b, c)
    BY <1>3, <1>4
  <2>4. i # 0 => a[i] \in T /\ SubSeq(a, 1, i) = Append(SubSeq(a, 1, i - 1), a[i])
    <3>1. \A k \in 1..Len(a) : SubSeq(a, 1, k) = Append(SubSeq(a, 1, k - 1), a[k])
      BY OneLineMore
    <3>2. i # 0 => i \in 1..Len(a)
      BY <1>1, <2>1
    <3>3. \A k \in 1..Len(a) : a[k] \in T
      OBVIOUS
    <3>4. QED
      BY <3>1, <3>2, <3>3, Zenon
  <2>5. j # 0 => b[j] \in T /\ SubSeq(b, 1, j) = Append(SubSeq(b, 1, j - 1), b[j])
    <3>1. \A k \in 1..Len(b) : SubSeq(b, 1, k) = Append(SubSeq(b, 1, k - 1), b[k])
      BY OneLineMore
    <3>2. j # 0 => j \in 1..Len(b)
      BY <1>1, <2>1
    <3>3. \A k \in 1..Len(b) : b[k] \in T
      OBVIOUS
    <3>4. QED
      BY <3>1, <3>2, <3>3, Zenon
  <2>6. CASE i = 0 /\ j = 0
    <3>1. ops[c] = << >> /\ dp[c] = 0
      BY <2>3, <2>6 DEF Step, Cell
    <3>2. SubSeq(a, 1, 0) = << >> /\ SubSeq(b, 1, 0) = << >>
      OBVIOUS
    <3>3. Without("add", << >>) = << >> /\ Without("remove", << >>) = << >>
      BY WithoutNone
    <3>4. Count(<< >>, "remove") = 0 /\ Count(<< >>, "add") = 0
      BY CountOfNone
    <3>5. << >> \in Seq(Mark(T))
      OBVIOUS
    <3>6. c[1] - Count(ops[c], "remove") = dp[c] /\ c[2] - Count(ops[c], "add") = dp[c]
      BY <2>6, <3>1, <3>4
    <3>7. /\ Without("add", ops[c]) = SubSeq(a, 1, c[1])
          /\ Without("remove", ops[c]) = SubSeq(b, 1, c[2])
      BY <2>6, <3>1, <3>2, <3>3, Zenon
    <3>8. Tells(ops, dp, a, b, T, c)
      BY <3>1, <3>5, <3>6, <3>7, Zenon DEF Tells
    <3>9. QED
      BY <3>8
  <2>7. ASSUME i # 0, ops[c] = Append(ops[<<i - 1, j>>], Op("remove", a[i])), dp[c] = dp[<<i - 1, j>>]
        PROVE  c \in Good
    <3> DEFINE d == <<i - 1, j>>
               op == Op("remove", a[i])
    <3>1. Tells(ops, dp, a, b, T, d) /\ d[1] = i - 1 /\ d[2] = j
      BY <2>2, <2>7
    <3>2. op \in Mark(T) /\ op.kind = "remove" /\ op.text = a[i]
      BY <2>4, <2>7, MarksAreMade
    <3>3. ops[d] \in Seq(Mark(T))
      BY <3>1 DEF Tells
    <3> HIDE DEF op, d
    <3>4. /\ Without("add", Append(ops[d], op)) = Append(Without("add", ops[d]), a[i])
          /\ Without("remove", Append(ops[d], op)) = Without("remove", ops[d])
      BY <3>2, <3>3, WithoutGrows
    <3>5. /\ Count(Append(ops[d], op), "remove") = Count(ops[d], "remove") + 1
          /\ Count(Append(ops[d], op), "add") = Count(ops[d], "add") + 0
          /\ Count(ops[d], "remove") \in Nat /\ Count(ops[d], "add") \in Nat
      BY <3>2, <3>3, CountGrows
    <3>6. ops[c] = Append(ops[d], op) /\ dp[c] = dp[d] /\ Append(ops[d], op) \in Seq(Mark(T))
      BY <2>7, <3>2, <3>3 DEF op, d
    <3>7. i - Count(ops[c], "remove") = dp[c] /\ j - Count(ops[c], "add") = dp[c]
      <4> DEFINE removed == Count(ops[d], "remove")
                 added == Count(ops[d], "add")
      <4>1. d[1] - removed = dp[d] /\ d[2] - added = dp[d]
        BY <3>1 DEF Tells
      <4>2. /\ Count(ops[c], "remove") = Count(Append(ops[d], op), "remove")
            /\ Count(ops[c], "add") = Count(Append(ops[d], op), "add")
        BY <3>6, Zenon
      <4>3. i \in Int /\ j \in Int
        BY <1>1, <2>1
      <4>4. removed \in Nat /\ added \in Nat
        BY <3>5
      <4>5. (i - 1) - removed = i - (removed + 1) /\ (j - 1) - added = j - (added + 1)
            /\ added + 0 = added /\ removed + 0 = removed
        <5>1. \A x \in Int, y \in Nat : (x - 1) - y = x - (y + 1) /\ y + 0 = y
          OBVIOUS
        <5>2. QED
          BY <4>3, <4>4, <5>1, Zenon
      <4> HIDE DEF removed, added
      <4>6. QED
        BY <3>1, <3>5, <3>6, <4>1, <4>2, <4>5, Zenon DEF removed, added
    <3>8. Tells(ops, dp, a, b, T, c)
      BY <2>4, <2>7, <3>1, <3>4, <3>6, <3>7 DEF Tells
    <3>9. QED
      BY <3>8
  <2>8. ASSUME j # 0, ops[c] = Append(ops[<<i, j - 1>>], Op("add", b[j])), dp[c] = dp[<<i, j - 1>>]
        PROVE  c \in Good
    <3> DEFINE d == <<i, j - 1>>
               op == Op("add", b[j])
    <3>1. Tells(ops, dp, a, b, T, d) /\ d[1] = i /\ d[2] = j - 1
      BY <2>2, <2>8
    <3>2. op \in Mark(T) /\ op.kind = "add" /\ op.text = b[j]
      BY <2>5, <2>8, MarksAreMade
    <3>3. ops[d] \in Seq(Mark(T))
      BY <3>1 DEF Tells
    <3> HIDE DEF op, d
    <3>4. /\ Without("remove", Append(ops[d], op)) = Append(Without("remove", ops[d]), b[j])
          /\ Without("add", Append(ops[d], op)) = Without("add", ops[d])
      BY <3>2, <3>3, WithoutGrows
    <3>5. /\ Count(Append(ops[d], op), "add") = Count(ops[d], "add") + 1
          /\ Count(Append(ops[d], op), "remove") = Count(ops[d], "remove") + 0
          /\ Count(ops[d], "remove") \in Nat /\ Count(ops[d], "add") \in Nat
      BY <3>2, <3>3, CountGrows
    <3>6. ops[c] = Append(ops[d], op) /\ dp[c] = dp[d] /\ Append(ops[d], op) \in Seq(Mark(T))
      BY <2>8, <3>2, <3>3 DEF op, d
    <3>7. i - Count(ops[c], "remove") = dp[c] /\ j - Count(ops[c], "add") = dp[c]
      <4> DEFINE removed == Count(ops[d], "remove")
                 added == Count(ops[d], "add")
      <4>1. d[1] - removed = dp[d] /\ d[2] - added = dp[d]
        BY <3>1 DEF Tells
      <4>2. /\ Count(ops[c], "remove") = Count(Append(ops[d], op), "remove")
            /\ Count(ops[c], "add") = Count(Append(ops[d], op), "add")
        BY <3>6, Zenon
      <4>3. i \in Int /\ j \in Int
        BY <1>1, <2>1
      <4>4. removed \in Nat /\ added \in Nat
        BY <3>5
      <4>5. (i - 1) - removed = i - (removed + 1) /\ (j - 1) - added = j - (added + 1)
            /\ added + 0 = added /\ removed + 0 = removed
        <5>1. \A x \in Int, y \in Nat : (x - 1) - y = x - (y + 1) /\ y + 0 = y
          OBVIOUS
        <5>2. QED
          BY <4>3, <4>4, <5>1, Zenon
      <4> HIDE DEF removed, added
      <4>6. QED
        BY <3>1, <3>5, <3>6, <4>1, <4>2, <4>5, Zenon DEF removed, added
    <3>8. Tells(ops, dp, a, b, T, c)
      BY <2>5, <2>8, <3>1, <3>4, <3>6, <3>7 DEF Tells
    <3>9. QED
      BY <3>8
  <2>9. ASSUME i # 0, j # 0, a[i] = b[j] PROVE c \in Good
    <3> DEFINE d == <<i - 1, j - 1>>
               op == Op("same", a[i])
    <3>1. Tells(ops, dp, a, b, T, d) /\ d[1] = i - 1 /\ d[2] = j - 1
      BY <2>2, <2>9
    <3>2. op \in Mark(T) /\ op.kind = "same" /\ op.text = a[i]
      BY <2>4, <2>9, MarksAreMade
    <3>3. ops[d] \in Seq(Mark(T)) /\ dp[d] \in Nat
      BY <1>1, <1>3, <2>9, <3>1, Neighbours DEF Tells
    <3>4. ops[c] = Append(ops[d], op) /\ dp[c] = dp[d] + 1
      BY <2>3, <2>9 DEF Step, Cell
    <3> HIDE DEF op, d
    <3>5. /\ Without("remove", Append(ops[d], op)) = Append(Without("remove", ops[d]), b[j])
          /\ Without("add", Append(ops[d], op)) = Append(Without("add", ops[d]), a[i])
      BY <2>9, <3>2, <3>3, WithoutGrows
    <3>6. /\ Count(Append(ops[d], op), "add") = Count(ops[d], "add") + 0
          /\ Count(Append(ops[d], op), "remove") = Count(ops[d], "remove") + 0
          /\ Count(ops[d], "remove") \in Nat /\ Count(ops[d], "add") \in Nat
      BY <3>2, <3>3, CountGrows
    <3>7. Append(ops[d], op) \in Seq(Mark(T))
      BY <3>2, <3>3
    <3>8. i - Count(ops[c], "remove") = dp[c] /\ j - Count(ops[c], "add") = dp[c]
      <4> DEFINE removed == Count(ops[d], "remove")
                 added == Count(ops[d], "add")
      <4>1. d[1] - removed = dp[d] /\ d[2] - added = dp[d]
        BY <3>1 DEF Tells
      <4>2. /\ Count(ops[c], "remove") = Count(Append(ops[d], op), "remove")
            /\ Count(ops[c], "add") = Count(Append(ops[d], op), "add")
        BY <3>4, Zenon
      <4>3. i \in Int /\ j \in Int
        BY <1>1, <2>1
      <4>4. removed \in Nat /\ added \in Nat
        BY <3>6
      <4>5. ((i - 1) - removed) + 1 = i - removed /\ ((j - 1) - added) + 1 = j - added
            /\ added + 0 = added /\ removed + 0 = removed
        BY <4>3, <4>4
      <4> HIDE DEF removed, added
      <4>6. QED
        BY <3>1, <3>4, <3>6, <4>1, <4>2, <4>5, Zenon DEF removed, added
    <3>9. Tells(ops, dp, a, b, T, c)
      BY <2>4, <2>5, <2>9, <3>1, <3>4, <3>5, <3>7, <3>8 DEF Tells
    <3>10. QED
      BY <3>9
  <2>10. CASE i # 0 /\ j = 0
    <3>1. <<i - 1, j>> \in Cells(a, b) /\ <<i - 1, j>>[2] = 0
      BY <1>1, <2>10, Neighbours
    <3>2. dp[<<i - 1, j>>] = 0 /\ dp[c] = 0
      BY <1>3, <2>3, <2>10, <3>1 DEF Cell
    <3>3. ops[c] = Append(ops[<<i - 1, j>>], Op("remove", a[i]))
      BY <2>3, <2>10 DEF Step
    <3>4. QED
      BY <2>7, <2>10, <3>2, <3>3
  <2>11. CASE i = 0 /\ j # 0
    <3>1. <<i, j - 1>> \in Cells(a, b) /\ <<i, j - 1>>[1] = 0
      BY <1>1, <2>11, Neighbours
    <3>2. dp[<<i, j - 1>>] = 0 /\ dp[c] = 0
      BY <1>3, <2>3, <2>11, <3>1 DEF Cell
    <3>3. ops[c] = Append(ops[<<i, j - 1>>], Op("add", b[j]))
      BY <2>3, <2>11 DEF Step
    <3>4. QED
      BY <2>8, <2>11, <3>2, <3>3
  <2>12. CASE i # 0 /\ j # 0 /\ a[i] # b[j]
    <3>1. dp[<<i - 1, j>>] \in Nat /\ dp[<<i, j - 1>>] \in Nat
      BY <1>1, <1>3, <2>12, Neighbours
    <3>2. dp[c] = IF dp[<<i - 1, j>>] >= dp[<<i, j - 1>>] THEN dp[<<i - 1, j>>] ELSE dp[<<i, j - 1>>]
      <4>1. dp[c] = Max({dp[<<i - 1, j>>], dp[<<i, j - 1>>]})
        BY <2>3, <2>12 DEF Cell
      <4>2. \A x, y \in Nat : Max({x, y}) = IF x >= y THEN x ELSE y
        BY GreaterOfTwo
      <4>3. QED
        BY <3>1, <4>1, <4>2, Zenon
    <3>3. ops[c] = IF dp[<<i - 1, j>>] >= dp[<<i, j - 1>>]
                   THEN Append(ops[<<i - 1, j>>], Op("remove", a[i]))
                   ELSE Append(ops[<<i, j - 1>>], Op("add", b[j]))
      BY <2>3, <2>12 DEF Step
    <3>4. QED
      BY <2>7, <2>8, <2>12, <3>2, <3>3
  <2>13. QED
    BY <2>6, <2>9, <2>10, <2>11, <2>12
<1>6. \A c \in Cells(a, b) : c \in Good
  <2>1. Rank(a, b) \in [Cells(a, b) -> Nat]
    BY <1>1, RankIsBounded
  <2> HIDE DEF Good
  <2>2. QED
    BY <1>5, <2>1, ByRank
<1>7. QED
  BY <1>6 DEF dp

(* RedlineIsFaithful, of any two texts.                                    *)
LEMMA DiffIsFaithful ==
  ASSUME NEW T, NEW a \in Seq(T), NEW b \in Seq(T)
  PROVE  /\ Without("add", DiffLines(a, b)) = a
         /\ Without("remove", DiffLines(a, b)) = b
         /\ \A m \in Alignments(a, b) :
              Cardinality(m) <= Len(a) - Count(DiffLines(a, b), "remove")
         /\ Len(b) - Count(DiffLines(a, b), "add") = Len(a) - Count(DiffLines(a, b), "remove")
<1> DEFINE c == <<Len(a), Len(b)>>
           dp == Lcs(a, b)
<1>1. Len(a) \in Nat /\ Len(b) \in Nat /\ DOMAIN a = 1..Len(a) /\ DOMAIN b = 1..Len(b)
  OBVIOUS
<1>2. c \in Cells(a, b) /\ c[1] = Len(a) /\ c[2] = Len(b)
  BY <1>1 DEF Cells
<1>3. PICK ops : IsWalk(ops, a, b) /\ DiffLines(a, b) = ops[<<Len(a), Len(b)>>]
  BY WalkExists, DiffLinesIsItsWalk
<1>4. Tells(ops, dp, a, b, T, c)
  BY <1>2, <1>3, WalkTells
<1>5. SubSeq(a, 1, Len(a)) = a /\ SubSeq(b, 1, Len(b)) = b
  OBVIOUS
<1>6. \A m \in Alignments(a, b) : Cardinality(m) <= dp[c]
  <2>1. \A m \in AlignedUpto(a, b, c[1], c[2]) : Cardinality(m) <= dp[c]
    BY <1>1, <1>2, TableExists, TableBounds
  <2>2. Alignments(a, b) \subseteq AlignedUpto(a, b, Len(a), Len(b))
    BY <1>1 DEF Alignments, AlignedUpto
  <2>3. QED
    BY <1>2, <2>1, <2>2
<1> HIDE DEF c, dp
<1>7. DiffLines(a, b) = ops[c]
  BY <1>3 DEF c
<1>8. QED
  BY <1>2, <1>4, <1>5, <1>6, <1>7 DEF Tells

(* What is compared is a text.                                             *)
LEMMA FirstLinesAreLines ==
  ASSUME NEW text \in BoundedSeq(Line, MaxLines) PROVE FirstLines(text) \in Seq(Line)
<1>1. text \in Seq(Line)
  <2>1. PICK n \in 0..MaxLines : text \in [1..n -> Line]
    BY DEF BoundedSeq, SeqOf
  <2>2. n \in Nat
    BY FiguresAssumption
  <2>3. QED
    BY <2>1, <2>2
<1>2. Cap \in Int /\ Len(text) \in Nat
  BY <1>1, FiguresAssumption
<1>3. Min({Cap, Len(text)}) \in Int /\ Min({Cap, Len(text)}) <= Len(text)
  <2>1. \A x, y \in Int : Min({x, y}) = IF x <= y THEN x ELSE y
    BY LesserOfTwo
  <2>2. QED
    BY <1>2, <2>1
<1>4. \A n \in Int : n <= Len(text) => SubSeq(text, 1, n) \in Seq(Line)
  BY <1>1
<1>5. QED
  BY <1>3, <1>4 DEF FirstLines

LEMMA RedlineKeeps ==
  ASSUME NEW left \in BoundedSeq(Line, MaxLines), NEW right \in BoundedSeq(Line, MaxLines),
         CompareTexts(left, right)
  PROVE  RedlineIsFaithful'
<1> DEFINE a == FirstLines(left)
           b == FirstLines(right)
           ops == DiffLines(a, b)
<1>1. a \in Seq(Line) /\ b \in Seq(Line)
  BY FirstLinesAreLines
<1>2. /\ figure'.left = left /\ figure'.right = right /\ figure'.ops = ops
      /\ figure'.added = Count(ops, "add") /\ figure'.removed = Count(ops, "remove")
  BY DEF CompareTexts
<1> HIDE DEF a, b
<1>3. /\ Without("add", ops) = a
      /\ Without("remove", ops) = b
      /\ \A m \in Alignments(a, b) : Cardinality(m) <= Len(a) - Count(ops, "remove")
      /\ Len(b) - Count(ops, "add") = Len(a) - Count(ops, "remove")
  BY <1>1, DiffIsFaithful
<1>4. QED
  BY <1>2, <1>3, Zenon DEF RedlineIsFaithful, a, b

(* Another figure than a redline.                                          *)
LEMMA NoRedline == ASSUME figure.kind # "redline" PROVE RedlineIsFaithful
BY Zenon DEF RedlineIsFaithful, Asked

LEMMA RedlinesGoOn ==
  ASSUME FiguresStep PROVE RedlineIsFaithful'
<1>1. CASE \E a, b \in BoundedSeq(Line, MaxLines) : CompareTexts(a, b)
  BY <1>1, RedlineKeeps
<1>2. ASSUME figure'.kind # "redline" PROVE RedlineIsFaithful'
  BY <1>2, Zenon DEF RedlineIsFaithful, Asked
<1>3. ASSUME ~ \E a, b \in BoundedSeq(Line, MaxLines) : CompareTexts(a, b)
      PROVE  figure'.kind # "redline"
  BY <1>3 DEF FiguresStep, GetLimitationPeriod, ComputePIRisk, ComputeClientHealthScore,
              EstimateMatterCost, GetMatterCostStatus
<1>4. QED
  BY <1>1, <1>2, <1>3

-----------------------------------------------------------------------------

(* The invariant of the figures is what is promised of them.               *)
FiguresInv == SumsAreRight /\ RedlineIsFaithful

LEMMA FiguresStart == FiguresInit => FiguresInv
<1>1. SUFFICES ASSUME FiguresInit PROVE FiguresInv
  OBVIOUS
<1>2. figure.kind = "none"
  BY <1>1 DEF FiguresInit
<1>3. SumsAreRight
  BY <1>2 DEF SumsAreRight, DeadlinesKeepToTheCalendar, WarningsAreNotTakenBack, Asked
<1>4. QED
  BY <1>2, <1>3, NoRedline DEF FiguresInv

LEMMA FiguresStay ==
  ASSUME FiguresInv, UNCHANGED figure PROVE FiguresInv'
<1>1. SumsAreRight'
  BY DEF FiguresInv, SumsAreRight, DeadlinesKeepToTheCalendar, WarningsAreNotTakenBack, Asked
<1>2. RedlineIsFaithful'
  BY Zenon DEF FiguresInv, RedlineIsFaithful, Asked
<1>3. QED
  BY <1>1, <1>2 DEF FiguresInv

LEMMA FiguresGoOn == ASSUME FiguresStep PROVE FiguresInv'
BY SumsGoOn, RedlinesGoOn DEF FiguresInv

-----------------------------------------------------------------------------

(* Questionnaires: the sets of questions as data.                          *)

Places(type) == DOMAIN QuestionSets(type).questions
At(type, i) == QuestionSets(type).questions[i]
Dates == Occasion \cup {Unreadable}

IsKnown(type, id) == \E i \in Places(type) : At(type, i).id = id
IsAsked(type, id) == \E i \in Places(type) : At(type, i).id = id /\ At(type, i).if = {}

(* The answers to a question are what the rules that know it by its name   *)
(* take them for; `follow' has the follow-ups with their conditions.       *)
Fits(q, dated, starting, follow) ==
  /\ q.id \in {"purchase_price", "amount_owed", "value", "amount", "average_weekly_earnings"}
       => q.answers = Claim
  /\ q.id \in {"state", "court_and_state"} => q.answers = Written
  /\ q.id \in dated => q.answers = Dates
  /\ q.starts => q.id \in starting
  /\ starting # {} => q.id # "court_and_state"
  /\ q.id = "location" => "incident_date" \in starting
  /\ q.if # {} => \E f \in follow : f[1] = q.id
  /\ \A f \in follow : f[1] = q.id => f[2] = q.if

(* A rule reads answers to questions that are always asked.                *)
ClockFits(type, c, dated) ==
  /\ c.from \in dated /\ IsAsked(type, c.from)
  /\ \A d \in c.if : IsAsked(type, d[1])
  /\ c.warning \in Nat /\ (c.past \/ type = "conveyancing-sale")
  /\ \A w \in Written : c.period[w] \in PeriodState

Sound(type, dated, starting, follow) ==
  /\ \E n \in Nat : Places(type) = 1..n
  /\ "incident_date" \in starting => type = "personal-injury-public-liability"
  /\ \A i \in Places(type) : Fits(At(type, i), dated, starting, follow)
  /\ \A c \in QuestionSets(type).clocks : ClockFits(type, c, dated)
  /\ \A a \in QuestionSets(type).alarms : \A d \in a : IsKnown(type, d[1])

(* A period is over no later than another from the same day.               *)
NoLonger(p, q) == p.unit = q.unit /\ (p = q \/ (p.unit = "days" /\ p.n <= q.n))

Fewer == {"VIC", "QLD", "WA", "SA", "TAS"}

(* The one clock of the rules is the brief's, or is over before it.        *)
FollowsBrief(type, starting) ==
  starting # {} =>
    \E c : /\ QuestionSets(type).clocks = {c} /\ starting = {c.from}
           /\ c.if = {} /\ c.past /\ c.warning >= 14
           /\ \A w \in Written : (type = "will-and-estate" => w.state \notin Fewer)
                => NoLonger(c.period[w], Period(PeriodOf(type), w.state))

LEMMA PeriodsAre ==
  ASSUME NEW n \in Nat
  PROVE  Days(n) \in PeriodState /\ Months(n) \in PeriodState /\ Years(n) \in PeriodState
BY DEF Days, Months, Years, PeriodState

(* The clocks of family law: twelve months from the divorce for who was    *)
(* married, two years from the separation for the others.                  *)
LEMMA FamilyHasTwoClocks ==
  \E d, s :
    /\ QuestionSets("family-law-property").clocks = {d, s}
    /\ d.from = "divorce_date" /\ d.if = {<<"relationship_type", "married">>}
    /\ d.warning = 30 /\ d.past = TRUE /\ \A w \in Written : d.period[w] = Months(12)
    /\ s.from = "separation_date" /\ s.if = {<<"relationship_type", "de-facto">>}
    /\ s.warning = 60 /\ s.past = TRUE /\ \A w \in Written : s.period[w] = Years(2)
<1> DEFINE d == [Clock("divorce_date", Months(12), 30) EXCEPT !.if = {<<"relationship_type", "married">>}]
           s == [Clock("separation_date", Years(2), 60) EXCEPT !.if = {<<"relationship_type", "de-facto">>}]
<1>1. QuestionSets("family-law-property").clocks = {d, s}
  BY DEF QuestionSets, FamilyLawProperty, QuestionSet
<1>2. /\ d.from = "divorce_date" /\ d.if = {<<"relationship_type", "married">>}
      /\ d.warning = 30 /\ d.past = TRUE /\ \A w \in Written : d.period[w] = Months(12)
  BY DEF Clock, ClockIn
<1>3. /\ s.from = "separation_date" /\ s.if = {<<"relationship_type", "de-facto">>}
      /\ s.warning = 60 /\ s.past = TRUE /\ \A w \in Written : s.period[w] = Years(2)
  BY DEF Clock, ClockIn
<1> HIDE DEF d, s
<1>4. QED
  BY <1>1, <1>2, <1>3

(* The fifteen sets, each with the dates it asks for, those that start a   *)
(* clock and its follow-ups (question-sets/*.ts).                          *)
LEMMA UnfairDismissalIsSound ==
  /\ Sound("unfair-dismissal", {"dismissal_date"}, {"dismissal_date"}, {})
  /\ FollowsBrief("unfair-dismissal", {"dismissal_date"})
<1> DEFINE set == UnfairDismissal
           F(i) == Fits(set.questions[i], {"dismissal_date"}, {"dismissal_date"}, {})
<1>1. QuestionSets("unfair-dismissal") = set
  BY DEF QuestionSets
<1>2. DOMAIN set.questions = 1..10
  BY DEF UnfairDismissal, QuestionSet
<1>3. F(1) /\ F(2) /\ F(3) /\ F(4) /\ F(5) /\ F(6) /\ F(7) /\ F(8) /\ F(9) /\ F(10)
  BY SMTT(40) DEF Fits, Dates, UnfairDismissal,
     QuestionSet, Question, Open, YesNo, HowMuch, When, Starting, FollowUp, WhichState
<1>4. ASSUME NEW i \in DOMAIN set.questions PROVE F(i)
  <2>1. i \in {1, 2, 3, 4, 5, 6, 7, 8, 9, 10}
    BY <1>2
  <2> HIDE DEF F
  <2>2. QED
    BY <2>1, <1>3
<1>5. set.questions[1].id = "dismissal_date" /\ set.questions[1].if = {}
  BY DEF UnfairDismissal,
     QuestionSet, Question, Open, YesNo, HowMuch, When, Starting, FollowUp, WhichState
<1>6. set.alarms = {}
  BY DEF UnfairDismissal, QuestionSet
<1> DEFINE c == Clock("dismissal_date", Days(21), 21)
<1>7. set.clocks = {c}
  BY DEF UnfairDismissal, QuestionSet
<1>8. /\ c.from = "dismissal_date" /\ c.if = {} /\ c.warning = 21 /\ c.past = TRUE
      /\ \A w \in Written : c.period[w] = Days(21)
  BY DEF Clock, ClockIn
<1>9. Days(21) \in PeriodState
  BY PeriodsAre
<1>10. \A s : Period(PeriodOf("unfair-dismissal"), s) = Days(21)
  BY DEF Period, PeriodOf, PeriodType
<1> HIDE DEF c, set
<1>11. ClockFits("unfair-dismissal", c, {"dismissal_date"})
  BY <1>1, <1>2, <1>5, <1>8, <1>9 DEF ClockFits, IsAsked, Places, At
<1>12. Sound("unfair-dismissal", {"dismissal_date"}, {"dismissal_date"}, {})
  BY <1>1, <1>2, <1>4, <1>6, <1>7, <1>11 DEF Sound, Places, At
<1>13. FollowsBrief("unfair-dismissal", {"dismissal_date"})
  BY <1>1, <1>7, <1>8, <1>10 DEF FollowsBrief, NoLonger
<1>14. QED
  BY <1>12, <1>13

LEMMA WorkersCompensationIsSound ==
  /\ Sound("workers-compensation", {"injury_date"}, {"injury_date"},
           {<<"certificate_of_capacity", {<<"seen_doctor", "yes">>}>>})
  /\ FollowsBrief("workers-compensation", {"injury_date"})
<1> DEFINE set == WorkersCompensation
           F(i) == Fits(set.questions[i], {"injury_date"}, {"injury_date"},
                        {<<"certificate_of_capacity", {<<"seen_doctor", "yes">>}>>})
<1>1. QuestionSets("workers-compensation") = set
  BY DEF QuestionSets
<1>2. DOMAIN set.questions = 1..11
  BY DEF WorkersCompensation, QuestionSet
<1>3. F(1) /\ F(2) /\ F(3) /\ F(4) /\ F(5) /\ F(6) /\ F(7) /\ F(8) /\ F(9) /\ F(10) /\ F(11)
  BY SMTT(40) DEF Fits, Dates, WorkersCompensation,
     QuestionSet, Question, Open, YesNo, HowMuch, When, Starting, FollowUp, WhichState
<1>4. ASSUME NEW i \in DOMAIN set.questions PROVE F(i)
  <2>1. i \in {1, 2, 3, 4, 5, 6, 7, 8, 9, 10, 11}
    BY <1>2
  <2> HIDE DEF F
  <2>2. QED
    BY <2>1, <1>3
<1>5. set.questions[2].id = "injury_date" /\ set.questions[2].if = {}
  BY DEF WorkersCompensation,
     QuestionSet, Question, Open, YesNo, HowMuch, When, Starting, FollowUp, WhichState
<1>6. set.alarms = {}
  BY DEF WorkersCompensation, QuestionSet
<1> DEFINE period(w) == Days(Window(Verbatim(w), [NSW |-> 182, QLD |-> 182, WA |-> 365, SA |-> 365, VIC |-> 730], 182))
           c == ClockIn("injury_date", [w \in Written |-> period(w)], 30)
<1>7. set.clocks = {c}
  BY DEF WorkersCompensation, QuestionSet
<1>8. /\ c.from = "injury_date" /\ c.if = {} /\ c.warning = 30 /\ c.past = TRUE
      /\ \A w \in Written : c.period[w] = period(w)
  BY DEF ClockIn
<1>9. \A w \in Written : /\ period(w) \in PeriodState
                          /\ NoLonger(period(w), Period(PeriodOf("workers-compensation"), w.state))
  <2>1. [NSW |-> 182, QLD |-> 182, WA |-> 365, SA |-> 365, VIC |-> 730] = WorkersCompDays
    BY DEF WorkersCompDays
  <2>2. \A s : In(s, WorkersCompDays, 182) \in Nat /\ In(s, WorkersCompDays, 182) >= 182
    BY DEF WorkersCompDays, In
  <2>3. In("unknown", WorkersCompDays, 182) = 182
    BY DEF WorkersCompDays, In
  <2>4. \A s : Period(PeriodOf("workers-compensation"), s) = Days(In(s, WorkersCompDays, 182))
    BY DEF Period, PeriodOf, PeriodType
  <2>5. \A w \in Written : Verbatim(w) = w.state \/ Verbatim(w) = "unknown"
    BY DEF Verbatim
  <2>6. \A w \in Written : period(w) = Days(In(Verbatim(w), WorkersCompDays, 182))
    BY <2>1 DEF Window
  <2> HIDE DEF period
  <2>7. \A m, k \in Nat : m <= k => NoLonger(Days(m), Days(k))
    BY DEF NoLonger, Days
  <2>8. QED
    BY <2>2, <2>3, <2>4, <2>5, <2>6, <2>7, PeriodsAre
<1> HIDE DEF c, set, period
<1>11. ClockFits("workers-compensation", c, {"injury_date"})
  BY <1>1, <1>2, <1>5, <1>8, <1>9 DEF ClockFits, IsAsked, Places, At
<1>12. Sound("workers-compensation", {"injury_date"}, {"injury_date"},
             {<<"certificate_of_capacity", {<<"seen_doctor", "yes">>}>>})
  BY <1>1, <1>2, <1>4, <1>6, <1>7, <1>11 DEF Sound, Places, At
<1>13. FollowsBrief("workers-compensation", {"injury_date"})
  BY <1>1, <1>7, <1>8, <1>9 DEF FollowsBrief
<1>14. QED
  BY <1>12, <1>13

LEMMA FamilyLawPropertyIsSound ==
  Sound("family-law-property", {"divorce_date", "separation_date"}, {"divorce_date", "separation_date"},
        {})
<1> DEFINE set == FamilyLawProperty
           F(i) == Fits(set.questions[i], {"divorce_date", "separation_date"}, {"divorce_date", "separation_date"},
                        {})
<1>1. QuestionSets("family-law-property") = set
  BY DEF QuestionSets
<1>2. DOMAIN set.questions = 1..10
  BY DEF FamilyLawProperty, QuestionSet
<1>3. F(1) /\ F(2) /\ F(3) /\ F(4) /\ F(5) /\ F(6) /\ F(7) /\ F(8) /\ F(9) /\ F(10)
  BY SMTT(40) DEF Fits, Dates, FamilyLawProperty,
     QuestionSet, Question, Open, YesNo, HowMuch, When, Starting, FollowUp, WhichState
<1>4. ASSUME NEW i \in DOMAIN set.questions PROVE F(i)
  <2>1. i \in {1, 2, 3, 4, 5, 6, 7, 8, 9, 10}
    BY <1>2
  <2> HIDE DEF F
  <2>2. QED
    BY <2>1, <1>3
<1>5. /\ set.questions[3].id = "divorce_date" /\ set.questions[3].if = {}
      /\ set.questions[2].id = "separation_date" /\ set.questions[2].if = {}
      /\ set.questions[1].id = "relationship_type" /\ set.questions[1].if = {}
  BY DEF FamilyLawProperty,
     QuestionSet, Question, Open, YesNo, HowMuch, When, Starting, FollowUp, WhichState
<1>6. set.alarms = {}
  BY DEF FamilyLawProperty, QuestionSet
<1>7. PICK d, s :
        /\ set.clocks = {d, s}
        /\ d.from = "divorce_date" /\ d.if = {<<"relationship_type", "married">>}
        /\ d.warning = 30 /\ d.past = TRUE /\ \A w \in Written : d.period[w] = Months(12)
        /\ s.from = "separation_date" /\ s.if = {<<"relationship_type", "de-facto">>}
        /\ s.warning = 60 /\ s.past = TRUE /\ \A w \in Written : s.period[w] = Years(2)
  BY <1>1, FamilyHasTwoClocks
<1>10. Months(12) \in PeriodState /\ Years(2) \in PeriodState
  BY PeriodsAre
<1> HIDE DEF set
<1>11. ClockFits("family-law-property", d, {"divorce_date", "separation_date"})
  BY <1>1, <1>2, <1>5, <1>7, <1>10 DEF ClockFits, IsAsked, Places, At
<1>12. ClockFits("family-law-property", s, {"divorce_date", "separation_date"})
  BY <1>1, <1>2, <1>5, <1>7, <1>10 DEF ClockFits, IsAsked, Places, At
<1>13. QED
  BY <1>1, <1>2, <1>4, <1>6, <1>7, <1>11, <1>12 DEF Sound, Places, At

LEMMA FamilyLawChildrenIsSound ==
  Sound("family-law-children", {}, {}, {<<"safety_reported", {<<"safety_concerns", "yes">>}>>})
<1> DEFINE set == FamilyLawChildren
           F(i) == Fits(set.questions[i], {}, {},
                        {<<"safety_reported", {<<"safety_concerns", "yes">>}>>})
<1>1. QuestionSets("family-law-children") = set
  BY DEF QuestionSets
<1>2. DOMAIN set.questions = 1..10
  BY DEF FamilyLawChildren, QuestionSet
<1>3. F(1) /\ F(2) /\ F(3) /\ F(4) /\ F(5) /\ F(6) /\ F(7) /\ F(8) /\ F(9) /\ F(10)
  BY SMTT(40) DEF Fits, Dates, FamilyLawChildren,
     QuestionSet, Question, Open, YesNo, HowMuch, When, Starting, FollowUp, WhichState
<1>4. ASSUME NEW i \in DOMAIN set.questions PROVE F(i)
  <2>1. i \in {1, 2, 3, 4, 5, 6, 7, 8, 9, 10}
    BY <1>2
  <2> HIDE DEF F
  <2>2. QED
    BY <2>1, <1>3
<1>5. /\ set.questions[4].id = "safety_concerns"
      /\ set.questions[10].id = "relocation_risk"
  BY DEF FamilyLawChildren,
     QuestionSet, Question, Open, YesNo, HowMuch, When, Starting, FollowUp, WhichState
<1>6. \A a \in set.alarms : \A d \in a : d[1] \in {"safety_concerns", "relocation_risk"}
  BY DEF FamilyLawChildren, QuestionSet
<1>7. set.clocks = {}
  BY DEF FamilyLawChildren, QuestionSet
<1> HIDE DEF set
<1>8. \A x \in {"safety_concerns", "relocation_risk"} : IsKnown("family-law-children", x)
  BY <1>1, <1>2, <1>5 DEF Places, At, IsKnown
<1>9. QED
  BY <1>1, <1>2, <1>4, <1>6, <1>7, <1>8 DEF Sound, Places, At

LEMMA ConveyancingPurchaseIsSound ==
  Sound("conveyancing-purchase", {}, {},
        {<<"settlement_date", {<<"contract_received", "yes">>}>>})
<1> DEFINE set == ConveyancingPurchase
           F(i) == Fits(set.questions[i], {}, {},
                        {<<"settlement_date", {<<"contract_received", "yes">>}>>})
<1>1. QuestionSets("conveyancing-purchase") = set
  BY DEF QuestionSets
<1>2. DOMAIN set.questions = 1..11
  BY DEF ConveyancingPurchase, QuestionSet
<1>3. F(1) /\ F(2) /\ F(3) /\ F(4) /\ F(5) /\ F(6) /\ F(7) /\ F(8) /\ F(9) /\ F(10) /\ F(11)
  BY SMTT(40) DEF Fits, Dates, ConveyancingPurchase,
     QuestionSet, Question, Open, YesNo, HowMuch, When, Starting, FollowUp, WhichState
<1>4. ASSUME NEW i \in DOMAIN set.questions PROVE F(i)
  <2>1. i \in {1, 2, 3, 4, 5, 6, 7, 8, 9, 10, 11}
    BY <1>2
  <2> HIDE DEF F
  <2>2. QED
    BY <2>1, <1>3
<1>5. /\ set.questions[1].id = "state"
      /\ set.questions[8].id = "contract_received"
  BY DEF ConveyancingPurchase,
     QuestionSet, Question, Open, YesNo, HowMuch, When, Starting, FollowUp, WhichState
<1>6. \A a \in set.alarms : \A d \in a : d[1] \in {"state", "contract_received"}
  BY DEF ConveyancingPurchase, QuestionSet
<1>7. set.clocks = {}
  BY DEF ConveyancingPurchase, QuestionSet
<1> HIDE DEF set
<1>8. \A x \in {"state", "contract_received"} : IsKnown("conveyancing-purchase", x)
  BY <1>1, <1>2, <1>5 DEF Places, At, IsKnown
<1>9. QED
  BY <1>1, <1>2, <1>4, <1>6, <1>7, <1>8 DEF Sound, Places, At

LEMMA ConveyancingSaleIsSound ==
  Sound("conveyancing-sale", {"settlement_date"}, {},
        {<<"tenant_notice", {<<"tenanted", "yes">>}>>})
<1> DEFINE set == ConveyancingSale
           F(i) == Fits(set.questions[i], {"settlement_date"}, {},
                        {<<"tenant_notice", {<<"tenanted", "yes">>}>>})
<1>1. QuestionSets("conveyancing-sale") = set
  BY DEF QuestionSets
<1>2. DOMAIN set.questions = 1..11
  BY DEF ConveyancingSale, QuestionSet
<1>3. F(1) /\ F(2) /\ F(3) /\ F(4) /\ F(5) /\ F(6) /\ F(7) /\ F(8) /\ F(9) /\ F(10) /\ F(11)
  BY SMTT(40) DEF Fits, Dates, ConveyancingSale,
     QuestionSet, Question, Open, YesNo, HowMuch, When, Starting, FollowUp, WhichState
<1>4. ASSUME NEW i \in DOMAIN set.questions PROVE F(i)
  <2>1. i \in {1, 2, 3, 4, 5, 6, 7, 8, 9, 10, 11}
    BY <1>2
  <2> HIDE DEF F
  <2>2. QED
    BY <2>1, <1>3
<1>5. set.questions[7].id = "settlement_date" /\ set.questions[7].if = {}
  BY DEF ConveyancingSale,
     QuestionSet, Question, Open, YesNo, HowMuch, When, Starting, FollowUp, WhichState
<1>6. set.alarms = {}
  BY DEF ConveyancingSale, QuestionSet
<1> DEFINE c == [Clock("settlement_date", Days(0), 14) EXCEPT !.past = FALSE]
<1>7. set.clocks = {c}
  BY DEF ConveyancingSale, QuestionSet
<1>8. /\ c.from = "settlement_date" /\ c.if = {} /\ c.warning = 14 /\ c.past = FALSE
      /\ \A w \in Written : c.period[w] = Days(0)
  BY DEF Clock, ClockIn
<1>9. Days(0) \in PeriodState
  BY PeriodsAre
<1> HIDE DEF c, set
<1>11. ClockFits("conveyancing-sale", c, {"settlement_date"})
  BY <1>1, <1>2, <1>5, <1>8, <1>9 DEF ClockFits, IsAsked, Places, At
<1>12. Sound("conveyancing-sale", {"settlement_date"}, {},
             {<<"tenant_notice", {<<"tenanted", "yes">>}>>})
  BY <1>1, <1>2, <1>4, <1>6, <1>7, <1>11 DEF Sound, Places, At
<1>13. QED
  BY <1>12

LEMMA WillAndEstateIsSound ==
  /\ Sound("will-and-estate", {"death_date"}, {"death_date"},
           {<<"executor", {<<"has_will", "yes">>}>>})
  /\ FollowsBrief("will-and-estate", {"death_date"})
<1> DEFINE set == WillAndEstate
           F(i) == Fits(set.questions[i], {"death_date"}, {"death_date"},
                        {<<"executor", {<<"has_will", "yes">>}>>})
<1>1. QuestionSets("will-and-estate") = set
  BY DEF QuestionSets
<1>2. DOMAIN set.questions = 1..12
  BY DEF WillAndEstate, QuestionSet
<1>3. F(1) /\ F(2) /\ F(3) /\ F(4) /\ F(5) /\ F(6) /\ F(7) /\ F(8) /\ F(9) /\ F(10) /\ F(11) /\ F(12)
  BY SMTT(40) DEF Fits, Dates, WillAndEstate,
     QuestionSet, Question, Open, YesNo, HowMuch, When, Starting, FollowUp, WhichState
<1>4. ASSUME NEW i \in DOMAIN set.questions PROVE F(i)
  <2>1. i \in {1, 2, 3, 4, 5, 6, 7, 8, 9, 10, 11, 12}
    BY <1>2
  <2> HIDE DEF F
  <2>2. QED
    BY <2>1, <1>3
<1>5. set.questions[9].id = "death_date" /\ set.questions[9].if = {}
  BY DEF WillAndEstate,
     QuestionSet, Question, Open, YesNo, HowMuch, When, Starting, FollowUp, WhichState
<1>6. set.alarms = {}
  BY DEF WillAndEstate, QuestionSet
<1> DEFINE c == Clock("death_date", Months(12), 30)
<1>7. set.clocks = {c}
  BY DEF WillAndEstate, QuestionSet
<1>8. /\ c.from = "death_date" /\ c.if = {} /\ c.warning = 30 /\ c.past = TRUE
      /\ \A w \in Written : c.period[w] = Months(12)
  BY DEF Clock, ClockIn
<1>9. Months(12) \in PeriodState
  BY PeriodsAre
<1>10. \A s \in State \ Fewer : Period(PeriodOf("will-and-estate"), s) = Months(12)
  BY DEF Period, PeriodOf, PeriodType, In, FamilyProvisionMonths, State, Fewer
<1> HIDE DEF c, set
<1>11. ClockFits("will-and-estate", c, {"death_date"})
  BY <1>1, <1>2, <1>5, <1>8, <1>9 DEF ClockFits, IsAsked, Places, At
<1>12. Sound("will-and-estate", {"death_date"}, {"death_date"},
             {<<"executor", {<<"has_will", "yes">>}>>})
  BY <1>1, <1>2, <1>4, <1>6, <1>7, <1>11 DEF Sound, Places, At
<1>13. FollowsBrief("will-and-estate", {"death_date"})
  <2>1. \A w \in Written : w.state \in State
    BY DEF Written, State
  <2>2. QED
    BY <2>1, <1>1, <1>7, <1>8, <1>10 DEF FollowsBrief, NoLonger
<1>14. QED
  BY <1>12, <1>13

LEMMA DebtRecoveryIsSound ==
  /\ Sound("debt-recovery", {"last_acknowledgement"}, {"last_acknowledgement"},
           {<<"demand_response", {<<"demand_sent", "yes">>}>>})
  /\ FollowsBrief("debt-recovery", {"last_acknowledgement"})
<1> DEFINE set == DebtRecovery
           F(i) == Fits(set.questions[i], {"last_acknowledgement"}, {"last_acknowledgement"},
                        {<<"demand_response", {<<"demand_sent", "yes">>}>>})
<1>1. QuestionSets("debt-recovery") = set
  BY DEF QuestionSets
<1>2. DOMAIN set.questions = 1..11
  BY DEF DebtRecovery, QuestionSet
<1>3. F(1) /\ F(2) /\ F(3) /\ F(4) /\ F(5) /\ F(6) /\ F(7) /\ F(8) /\ F(9) /\ F(10) /\ F(11)
  BY SMTT(40) DEF Fits, Dates, DebtRecovery,
     QuestionSet, Question, Open, YesNo, HowMuch, When, Starting, FollowUp, WhichState
<1>4. ASSUME NEW i \in DOMAIN set.questions PROVE F(i)
  <2>1. i \in {1, 2, 3, 4, 5, 6, 7, 8, 9, 10, 11}
    BY <1>2
  <2> HIDE DEF F
  <2>2. QED
    BY <2>1, <1>3
<1>5. set.questions[5].id = "last_acknowledgement" /\ set.questions[5].if = {}
  BY DEF DebtRecovery,
     QuestionSet, Question, Open, YesNo, HowMuch, When, Starting, FollowUp, WhichState
<1>6. set.alarms = {}
  BY DEF DebtRecovery, QuestionSet
<1> DEFINE c == Clock("last_acknowledgement", Years(6), 365)
<1>7. set.clocks = {c}
  BY DEF DebtRecovery, QuestionSet
<1>8. /\ c.from = "last_acknowledgement" /\ c.if = {} /\ c.warning = 365 /\ c.past = TRUE
      /\ \A w \in Written : c.period[w] = Years(6)
  BY DEF Clock, ClockIn
<1>9. Years(6) \in PeriodState
  BY PeriodsAre
<1>10. \A s : Period(PeriodOf("debt-recovery"), s) = Years(6)
  BY DEF Period, PeriodOf, PeriodType
<1> HIDE DEF c, set
<1>11. ClockFits("debt-recovery", c, {"last_acknowledgement"})
  BY <1>1, <1>2, <1>5, <1>8, <1>9 DEF ClockFits, IsAsked, Places, At
<1>12. Sound("debt-recovery", {"last_acknowledgement"}, {"last_acknowledgement"},
             {<<"demand_response", {<<"demand_sent", "yes">>}>>})
  BY <1>1, <1>2, <1>4, <1>6, <1>7, <1>11 DEF Sound, Places, At
<1>13. FollowsBrief("debt-recovery", {"last_acknowledgement"})
  BY <1>1, <1>7, <1>8, <1>10 DEF FollowsBrief, NoLonger
<1>14. QED
  BY <1>12, <1>13

LEMMA PersonalInjuryMotorIsSound ==
  /\ Sound("personal-injury-motor", {"accident_date"}, {"accident_date"},
           {<<"police_report_reason", {<<"police_report", "no">>}>>, <<"hit_and_run", {<<"at_fault_identified", "no">>}>>})
  /\ FollowsBrief("personal-injury-motor", {"accident_date"})
<1> DEFINE set == PersonalInjuryMotor
           F(i) == Fits(set.questions[i], {"accident_date"}, {"accident_date"},
                        {<<"police_report_reason", {<<"police_report", "no">>}>>, <<"hit_and_run", {<<"at_fault_identified", "no">>}>>})
<1>1. QuestionSets("personal-injury-motor") = set
  BY DEF QuestionSets
<1>2. DOMAIN set.questions = 1..12
  BY DEF PersonalInjuryMotor, QuestionSet
<1>3. F(1) /\ F(2) /\ F(3) /\ F(4) /\ F(5) /\ F(6) /\ F(7) /\ F(8) /\ F(9) /\ F(10) /\ F(11) /\ F(12)
  BY SMTT(40) DEF Fits, Dates, PersonalInjuryMotor,
     QuestionSet, Question, Open, YesNo, HowMuch, When, Starting, FollowUp, WhichState
<1>4. ASSUME NEW i \in DOMAIN set.questions PROVE F(i)
  <2>1. i \in {1, 2, 3, 4, 5, 6, 7, 8, 9, 10, 11, 12}
    BY <1>2
  <2> HIDE DEF F
  <2>2. QED
    BY <2>1, <1>3
<1>5. set.questions[2].id = "accident_date" /\ set.questions[2].if = {}
  BY DEF PersonalInjuryMotor,
     QuestionSet, Question, Open, YesNo, HowMuch, When, Starting, FollowUp, WhichState
<1>6. set.alarms = {}
  BY DEF PersonalInjuryMotor, QuestionSet
<1> DEFINE period(w) == Days(Window(UpperCase(w), [NSW |-> 28, QLD |-> 273, VIC |-> 365, WA |-> 1095, SA |-> 1095], 28))
           c == ClockIn("accident_date", [w \in Written |-> period(w)], 28)
<1>7. set.clocks = {c}
  BY DEF PersonalInjuryMotor, QuestionSet
<1>8. /\ c.from = "accident_date" /\ c.if = {} /\ c.warning = 28 /\ c.past = TRUE
      /\ \A w \in Written : c.period[w] = period(w)
  BY DEF ClockIn
<1>9. \A w \in Written : /\ period(w) \in PeriodState
                          /\ NoLonger(period(w), Period(PeriodOf("personal-injury-motor"), w.state))
  <2>1. [NSW |-> 28, QLD |-> 273, VIC |-> 365, WA |-> 1095, SA |-> 1095] = MotorNotificationDays
    BY DEF MotorNotificationDays
  <2>2. \A s : In(s, MotorNotificationDays, 28) \in Nat /\ In(s, MotorNotificationDays, 28) >= 28
    BY DEF MotorNotificationDays, In
  <2>3. In("unknown", MotorNotificationDays, 28) = 28
    BY DEF MotorNotificationDays, In
  <2>4. \A s : Period(PeriodOf("personal-injury-motor"), s) = Days(In(s, MotorNotificationDays, 28))
    BY DEF Period, PeriodOf, PeriodType
  <2>5. \A w \in Written : UpperCase(w) = w.state \/ UpperCase(w) = "unknown"
    BY DEF UpperCase
  <2>6. \A w \in Written : period(w) = Days(In(UpperCase(w), MotorNotificationDays, 28))
    BY <2>1 DEF Window
  <2> HIDE DEF period
  <2>7. \A m, k \in Nat : m <= k => NoLonger(Days(m), Days(k))
    BY DEF NoLonger, Days
  <2>8. QED
    BY <2>2, <2>3, <2>4, <2>5, <2>6, <2>7, PeriodsAre
<1> HIDE DEF c, set, period
<1>11. ClockFits("personal-injury-motor", c, {"accident_date"})
  BY <1>1, <1>2, <1>5, <1>8, <1>9 DEF ClockFits, IsAsked, Places, At
<1>12. Sound("personal-injury-motor", {"accident_date"}, {"accident_date"},
             {<<"police_report_reason", {<<"police_report", "no">>}>>, <<"hit_and_run", {<<"at_fault_identified", "no">>}>>})
  BY <1>1, <1>2, <1>4, <1>6, <1>7, <1>11 DEF Sound, Places, At
<1>13. FollowsBrief("personal-injury-motor", {"accident_date"})
  BY <1>1, <1>7, <1>8, <1>9 DEF FollowsBrief
<1>14. QED
  BY <1>12, <1>13

LEMMA PersonalInjuryPublicLiabilityIsSound ==
  /\ Sound("personal-injury-public-liability", {"incident_date"}, {"incident_date"},
           {<<"medical_records", {<<"seen_doctor", "yes">>}>>})
  /\ FollowsBrief("personal-injury-public-liability", {"incident_date"})
<1> DEFINE set == PersonalInjuryPublicLiability
           F(i) == Fits(set.questions[i], {"incident_date"}, {"incident_date"},
                        {<<"medical_records", {<<"seen_doctor", "yes">>}>>})
<1>1. QuestionSets("personal-injury-public-liability") = set
  BY DEF QuestionSets
<1>2. DOMAIN set.questions = 1..11
  BY DEF PersonalInjuryPublicLiability, QuestionSet
<1>3. F(1) /\ F(2) /\ F(3) /\ F(4) /\ F(5) /\ F(6) /\ F(7) /\ F(8) /\ F(9) /\ F(10) /\ F(11)
  BY SMTT(40) DEF Fits, Dates, PersonalInjuryPublicLiability,
     QuestionSet, Question, Open, YesNo, HowMuch, When, Starting, FollowUp, WhichState
<1>4. ASSUME NEW i \in DOMAIN set.questions PROVE F(i)
  <2>1. i \in {1, 2, 3, 4, 5, 6, 7, 8, 9, 10, 11}
    BY <1>2
  <2> HIDE DEF F
  <2>2. QED
    BY <2>1, <1>3
<1>5. set.questions[3].id = "incident_date" /\ set.questions[3].if = {}
  BY DEF PersonalInjuryPublicLiability,
     QuestionSet, Question, Open, YesNo, HowMuch, When, Starting, FollowUp, WhichState
<1>6. set.alarms = {}
  BY DEF PersonalInjuryPublicLiability, QuestionSet
<1> DEFINE c == Clock("incident_date", Years(3), 180)
<1>7. set.clocks = {c}
  BY DEF PersonalInjuryPublicLiability, QuestionSet
<1>8. /\ c.from = "incident_date" /\ c.if = {} /\ c.warning = 180 /\ c.past = TRUE
      /\ \A w \in Written : c.period[w] = Years(3)
  BY DEF Clock, ClockIn
<1>9. Years(3) \in PeriodState
  BY PeriodsAre
<1>10. \A s : Period(PeriodOf("personal-injury-public-liability"), s) = Years(3)
  BY DEF Period, PeriodOf, PeriodType
<1> HIDE DEF c, set
<1>11. ClockFits("personal-injury-public-liability", c, {"incident_date"})
  BY <1>1, <1>2, <1>5, <1>8, <1>9 DEF ClockFits, IsAsked, Places, At
<1>12. Sound("personal-injury-public-liability", {"incident_date"}, {"incident_date"},
             {<<"medical_records", {<<"seen_doctor", "yes">>}>>})
  BY <1>1, <1>2, <1>4, <1>6, <1>7, <1>11 DEF Sound, Places, At
<1>13. FollowsBrief("personal-injury-public-liability", {"incident_date"})
  BY <1>1, <1>7, <1>8, <1>10 DEF FollowsBrief, NoLonger
<1>14. QED
  BY <1>12, <1>13

LEMMA CommercialDisputeIsSound ==
  /\ Sound("commercial-dispute", {"first_occurred"}, {"first_occurred"},
           {<<"dispute_clause", {<<"written_agreement", "yes">>}>>})
  /\ FollowsBrief("commercial-dispute", {"first_occurred"})
<1> DEFINE set == CommercialDispute
           F(i) == Fits(set.questions[i], {"first_occurred"}, {"first_occurred"},
                        {<<"dispute_clause", {<<"written_agreement", "yes">>}>>})
<1>1. QuestionSets("commercial-dispute") = set
  BY DEF QuestionSets
<1>2. DOMAIN set.questions = 1..11
  BY DEF CommercialDispute, QuestionSet
<1>3. F(1) /\ F(2) /\ F(3) /\ F(4) /\ F(5) /\ F(6) /\ F(7) /\ F(8) /\ F(9) /\ F(10) /\ F(11)
  BY SMTT(40) DEF Fits, Dates, CommercialDispute,
     QuestionSet, Question, Open, YesNo, HowMuch, When, Starting, FollowUp, WhichState
<1>4. ASSUME NEW i \in DOMAIN set.questions PROVE F(i)
  <2>1. i \in {1, 2, 3, 4, 5, 6, 7, 8, 9, 10, 11}
    BY <1>2
  <2> HIDE DEF F
  <2>2. QED
    BY <2>1, <1>3
<1>5. set.questions[7].id = "first_occurred" /\ set.questions[7].if = {}
  BY DEF CommercialDispute,
     QuestionSet, Question, Open, YesNo, HowMuch, When, Starting, FollowUp, WhichState
<1>6. set.alarms = {}
  BY DEF CommercialDispute, QuestionSet
<1> DEFINE c == Clock("first_occurred", Years(6), 180)
<1>7. set.clocks = {c}
  BY DEF CommercialDispute, QuestionSet
<1>8. /\ c.from = "first_occurred" /\ c.if = {} /\ c.warning = 180 /\ c.past = TRUE
      /\ \A w \in Written : c.period[w] = Years(6)
  BY DEF Clock, ClockIn
<1>9. Years(6) \in PeriodState
  BY PeriodsAre
<1>10. \A s : Period(PeriodOf("commercial-dispute"), s) = Years(6)
  BY DEF Period, PeriodOf, PeriodType
<1> HIDE DEF c, set
<1>11. ClockFits("commercial-dispute", c, {"first_occurred"})
  BY <1>1, <1>2, <1>5, <1>8, <1>9 DEF ClockFits, IsAsked, Places, At
<1>12. Sound("commercial-dispute", {"first_occurred"}, {"first_occurred"},
             {<<"dispute_clause", {<<"written_agreement", "yes">>}>>})
  BY <1>1, <1>2, <1>4, <1>6, <1>7, <1>11 DEF Sound, Places, At
<1>13. FollowsBrief("commercial-dispute", {"first_occurred"})
  BY <1>1, <1>7, <1>8, <1>10 DEF FollowsBrief, NoLonger
<1>14. QED
  BY <1>12, <1>13

LEMMA ResidentialTenancyIsSound ==
  Sound("residential-tenancy", {}, {}, {<<"notice_detail", {<<"notice_served", "yes">>}>>})
<1> DEFINE set == ResidentialTenancy
           F(i) == Fits(set.questions[i], {}, {},
                        {<<"notice_detail", {<<"notice_served", "yes">>}>>})
<1>1. QuestionSets("residential-tenancy") = set
  BY DEF QuestionSets
<1>2. DOMAIN set.questions = 1..11
  BY DEF ResidentialTenancy, QuestionSet
<1>3. F(1) /\ F(2) /\ F(3) /\ F(4) /\ F(5) /\ F(6) /\ F(7) /\ F(8) /\ F(9) /\ F(10) /\ F(11)
  BY SMTT(40) DEF Fits, Dates, ResidentialTenancy,
     QuestionSet, Question, Open, YesNo, HowMuch, When, Starting, FollowUp, WhichState
<1>4. ASSUME NEW i \in DOMAIN set.questions PROVE F(i)
  <2>1. i \in {1, 2, 3, 4, 5, 6, 7, 8, 9, 10, 11}
    BY <1>2
  <2> HIDE DEF F
  <2>2. QED
    BY <2>1, <1>3
<1>5. /\ set.questions[4].id = "dispute_nature"
      /\ set.questions[6].id = "notice_served"
      /\ set.questions[10].id = "tenant_in_property"
  BY DEF ResidentialTenancy,
     QuestionSet, Question, Open, YesNo, HowMuch, When, Starting, FollowUp, WhichState
<1>6. \A a \in set.alarms : \A d \in a : d[1] \in {"dispute_nature", "notice_served", "tenant_in_property"}
  BY DEF ResidentialTenancy, QuestionSet
<1>7. set.clocks = {}
  BY DEF ResidentialTenancy, QuestionSet
<1> HIDE DEF set
<1>8. \A x \in {"dispute_nature", "notice_served", "tenant_in_property"} : IsKnown("residential-tenancy", x)
  BY <1>1, <1>2, <1>5 DEF Places, At, IsKnown
<1>9. QED
  BY <1>1, <1>2, <1>4, <1>6, <1>7, <1>8 DEF Sound, Places, At

LEMMA BusinessPurchaseIsSound ==
  Sound("business-purchase", {}, {}, {})
<1> DEFINE set == BusinessPurchase
           F(i) == Fits(set.questions[i], {}, {}, {})
<1>1. QuestionSets("business-purchase") = set
  BY DEF QuestionSets
<1>2. DOMAIN set.questions = 1..10
  BY DEF BusinessPurchase, QuestionSet
<1>3. F(1) /\ F(2) /\ F(3) /\ F(4) /\ F(5) /\ F(6) /\ F(7) /\ F(8) /\ F(9) /\ F(10)
  BY DEF Fits, Dates, BusinessPurchase,
     QuestionSet, Question, Open, YesNo, HowMuch, When, Starting, FollowUp, WhichState
<1>4. ASSUME NEW i \in DOMAIN set.questions PROVE F(i)
  <2>1. i \in {1, 2, 3, 4, 5, 6, 7, 8, 9, 10}
    BY <1>2
  <2> HIDE DEF F
  <2>2. QED
    BY <2>1, <1>3
<1>5. /\ set.questions[5].id = "sale_contract"
      /\ set.questions[6].id = "subject_to_finance"
  BY DEF BusinessPurchase,
     QuestionSet, Question, Open, YesNo, HowMuch, When, Starting, FollowUp, WhichState
<1>6. \A a \in set.alarms : \A d \in a : d[1] \in {"sale_contract", "subject_to_finance"}
  BY DEF BusinessPurchase, QuestionSet
<1>7. set.clocks = {}
  BY DEF BusinessPurchase, QuestionSet
<1> HIDE DEF set
<1>8. \A x \in {"sale_contract", "subject_to_finance"} : IsKnown("business-purchase", x)
  BY <1>1, <1>2, <1>5 DEF Places, At, IsKnown
<1>9. QED
  BY <1>1, <1>2, <1>4, <1>6, <1>7, <1>8 DEF Sound, Places, At

LEMMA DefamationIsSound ==
  /\ Sound("defamation", {"publication_date"}, {"publication_date"}, {})
  /\ FollowsBrief("defamation", {"publication_date"})
<1> DEFINE set == Defamation
           F(i) == Fits(set.questions[i], {"publication_date"}, {"publication_date"}, {})
<1>1. QuestionSets("defamation") = set
  BY DEF QuestionSets
<1>2. DOMAIN set.questions = 1..10
  BY DEF Defamation, QuestionSet
<1>3. F(1) /\ F(2) /\ F(3) /\ F(4) /\ F(5) /\ F(6) /\ F(7) /\ F(8) /\ F(9) /\ F(10)
  BY SMTT(40) DEF Fits, Dates, Defamation,
     QuestionSet, Question, Open, YesNo, HowMuch, When, Starting, FollowUp, WhichState
<1>4. ASSUME NEW i \in DOMAIN set.questions PROVE F(i)
  <2>1. i \in {1, 2, 3, 4, 5, 6, 7, 8, 9, 10}
    BY <1>2
  <2> HIDE DEF F
  <2>2. QED
    BY <2>1, <1>3
<1>5. set.questions[3].id = "publication_date" /\ set.questions[3].if = {}
  BY DEF Defamation,
     QuestionSet, Question, Open, YesNo, HowMuch, When, Starting, FollowUp, WhichState
<1>6. set.alarms = {}
  BY DEF Defamation, QuestionSet
<1> DEFINE c == Clock("publication_date", Years(1), 30)
<1>7. set.clocks = {c}
  BY DEF Defamation, QuestionSet
<1>8. /\ c.from = "publication_date" /\ c.if = {} /\ c.warning = 30 /\ c.past = TRUE
      /\ \A w \in Written : c.period[w] = Years(1)
  BY DEF Clock, ClockIn
<1>9. Years(1) \in PeriodState
  BY PeriodsAre
<1>10. \A s : Period(PeriodOf("defamation"), s) = Years(1)
  BY DEF Period, PeriodOf, PeriodType
<1> HIDE DEF c, set
<1>11. ClockFits("defamation", c, {"publication_date"})
  BY <1>1, <1>2, <1>5, <1>8, <1>9 DEF ClockFits, IsAsked, Places, At
<1>12. Sound("defamation", {"publication_date"}, {"publication_date"}, {})
  BY <1>1, <1>2, <1>4, <1>6, <1>7, <1>11 DEF Sound, Places, At
<1>13. FollowsBrief("defamation", {"publication_date"})
  BY <1>1, <1>7, <1>8, <1>10 DEF FollowsBrief, NoLonger
<1>14. QED
  BY <1>12, <1>13

LEMMA CriminalDefenceIsSound ==
  Sound("criminal-defence", {"court_date"}, {},
        {<<"bail_conditions", {<<"arrested_bail", "yes">>}>>})
<1> DEFINE set == CriminalDefence
           F(i) == Fits(set.questions[i], {"court_date"}, {},
                        {<<"bail_conditions", {<<"arrested_bail", "yes">>}>>})
<1>1. QuestionSets("criminal-defence") = set
  BY DEF QuestionSets
<1>2. DOMAIN set.questions = 1..11
  BY DEF CriminalDefence, QuestionSet
<1>3. F(1) /\ F(2) /\ F(3) /\ F(4) /\ F(5) /\ F(6) /\ F(7) /\ F(8) /\ F(9) /\ F(10) /\ F(11)
  BY SMTT(40) DEF Fits, Dates, CriminalDefence,
     QuestionSet, Question, Open, YesNo, HowMuch, When, Starting, FollowUp, WhichState
<1>4. ASSUME NEW i \in DOMAIN set.questions PROVE F(i)
  <2>1. i \in {1, 2, 3, 4, 5, 6, 7, 8, 9, 10, 11}
    BY <1>2
  <2> HIDE DEF F
  <2>2. QED
    BY <2>1, <1>3
<1>5. /\ set.questions[3].id = "court_date" /\ set.questions[3].if = {}
      /\ set.questions[6].id = "bail_conditions"
  BY DEF CriminalDefence,
     QuestionSet, Question, Open, YesNo, HowMuch, When, Starting, FollowUp, WhichState
<1>6. \A a \in set.alarms : \A d \in a : d[1] \in {"bail_conditions"}
  BY DEF CriminalDefence, QuestionSet
<1> DEFINE c == Clock("court_date", Days(0), 7)
<1>7. set.clocks = {c}
  BY DEF CriminalDefence, QuestionSet
<1>8. /\ c.from = "court_date" /\ c.if = {} /\ c.warning = 7 /\ c.past = TRUE
      /\ \A w \in Written : c.period[w] = Days(0)
  BY DEF Clock, ClockIn
<1>9. Days(0) \in PeriodState
  BY PeriodsAre
<1> HIDE DEF c, set
<1>11. ClockFits("criminal-defence", c, {"court_date"})
  BY <1>1, <1>2, <1>5, <1>8, <1>9 DEF ClockFits, IsAsked, Places, At
<1>10. \A x \in {"bail_conditions"} : IsKnown("criminal-defence", x)
  BY <1>1, <1>2, <1>5 DEF Places, At, IsKnown
<1>12. Sound("criminal-defence", {"court_date"}, {},
             {<<"bail_conditions", {<<"arrested_bail", "yes">>}>>})
  BY <1>1, <1>2, <1>4, <1>10, <1>6, <1>7, <1>11 DEF Sound, Places, At
<1>13. QED
  BY <1>12

(* Whatever the type of the matter, its set of questions is sound.         *)
LEMMA SetsAreSound ==
  ASSUME NEW type \in MatterType
  PROVE  \E dated, starting, follow :
           /\ Sound(type, dated, starting, follow)
           /\ type # "family-law-property" => FollowsBrief(type, starting)
<1>1. \A t : FollowsBrief(t, {})
  BY DEF FollowsBrief
<1>2. QED
  BY <1>1, UnfairDismissalIsSound, WorkersCompensationIsSound, FamilyLawPropertyIsSound,
     FamilyLawChildrenIsSound, ConveyancingPurchaseIsSound, ConveyancingSaleIsSound,
     WillAndEstateIsSound, DebtRecoveryIsSound, PersonalInjuryMotorIsSound,
     PersonalInjuryPublicLiabilityIsSound, CommercialDisputeIsSound, ResidentialTenancyIsSound,
     BusinessPurchaseIsSound, DefamationIsSound, CriminalDefenceIsSound DEF MatterType

-----------------------------------------------------------------------------

(* Questionnaires: an interview.                                           *)

(* The least of a set of places.                                           *)
LEMMA TheFirst ==
  ASSUME NEW S \in SUBSET Nat, S # {}
  PROVE  Min(S) \in S /\ \A k \in S : Min(S) <= k
<1>1. \E m \in S : \A k \in S : m <= k
  BY LeastExists
<1>2. QED
  BY <1>1 DEF Min

(* Who has answered a question was asked it, and gave one of its answers.  *)
(* A separation is asked after before a divorce, and both after the kind   *)
(* of the relationship; an incident after the state it happened in.        *)
AsAsked(type, answers) ==
  /\ \A id \in DOMAIN answers : \E i \in Places(type) :
       /\ At(type, i).id = id /\ Meets(answers, At(type, i).if)
       /\ answers[id] \in At(type, i).answers
  /\ type = "family-law-property" =>
       /\ "separation_date" \in DOMAIN answers => "relationship_type" \in DOMAIN answers
       /\ "divorce_date" \in DOMAIN answers => "separation_date" \in DOMAIN answers
  /\ type = "personal-injury-public-liability" =>
       ("incident_date" \in DOMAIN answers => "state" \in DOMAIN answers)

InterviewInv ==
  interview # NoInterview =>
    /\ interview = [type |-> interview.type, answers |-> interview.answers]
    /\ interview.type \in MatterType
    /\ AsAsked(interview.type, interview.answers)

LEMMA InterviewsStart == InterviewsInit => InterviewInv
BY DEF InterviewsInit, InterviewInv

LEMMA InterviewsOpen ==
  ASSUME NEW type \in MatterType, OpenQuestionnaire(type)
  PROVE  InterviewInv'
<1>1. interview' = [type |-> type, answers |-> << >>]
  BY DEF OpenQuestionnaire
<1>2. interview'.type = type /\ interview'.answers = << >>
  BY <1>1
<1>3. AsAsked(type, << >>)
  BY DEF AsAsked
<1>4. QED
  BY <1>1, <1>2, <1>3 DEF InterviewInv

(* In the set of family law the three come first.                          *)
LEMMA FamilyIsInOrder ==
  ASSUME NEW i \in Places("family-law-property")
  PROVE  LET id == At("family-law-property", i).id IN
         /\ id = "relationship_type" <=> i = 1
         /\ id = "separation_date" <=> i = 2
         /\ id = "divorce_date" <=> i = 3
<1> DEFINE set == FamilyLawProperty
           F(k) == LET id == set.questions[k].id IN
                   /\ id = "relationship_type" <=> k = 1
                   /\ id = "separation_date" <=> k = 2
                   /\ id = "divorce_date" <=> k = 3
<1>1. QuestionSets("family-law-property") = set
  BY DEF QuestionSets
<1>2. DOMAIN set.questions = 1..10
  BY DEF FamilyLawProperty, QuestionSet
<1>3. F(1) /\ F(2) /\ F(3) /\ F(4) /\ F(5) /\ F(6) /\ F(7) /\ F(8) /\ F(9) /\ F(10)
  BY DEF FamilyLawProperty,
     QuestionSet, Question, Open, YesNo, HowMuch, When, Starting, FollowUp, WhichState
<1>4. i \in {1, 2, 3, 4, 5, 6, 7, 8, 9, 10}
  BY <1>1, <1>2 DEF Places
<1>5. F(i)
  <2> HIDE DEF F
  <2>1. QED
    BY <1>3, <1>4
<1> HIDE DEF set
<1>6. QED
  BY <1>1, <1>5 DEF At

(* In the set of public liability the state comes before the incident.     *)
LEMMA IncidentIsInOrder ==
  LET question(i) == At("personal-injury-public-liability", i) IN
  /\ 2 \in Places("personal-injury-public-liability") /\ question(2).id = "state" /\ question(2).if = {}
  /\ \A i \in Places("personal-injury-public-liability") : question(i).id = "incident_date" => i = 3
<1> DEFINE set == PersonalInjuryPublicLiability
           F(i) == set.questions[i].id = "incident_date" => i = 3
<1>1. QuestionSets("personal-injury-public-liability") = set
  BY DEF QuestionSets
<1>2. DOMAIN set.questions = 1..11
  BY DEF PersonalInjuryPublicLiability, QuestionSet
<1>3. set.questions[2].id = "state" /\ set.questions[2].if = {}
  BY DEF PersonalInjuryPublicLiability, QuestionSet, Question, WhichState
<1>4. F(1) /\ F(2) /\ F(3) /\ F(4) /\ F(5) /\ F(6) /\ F(7) /\ F(8) /\ F(9) /\ F(10) /\ F(11)
  BY DEF PersonalInjuryPublicLiability,
     QuestionSet, Question, Open, YesNo, HowMuch, When, Starting, FollowUp, WhichState
<1>5. ASSUME NEW i \in DOMAIN set.questions PROVE F(i)
  <2>1. i \in {1, 2, 3, 4, 5, 6, 7, 8, 9, 10, 11}
    BY <1>2
  <2> HIDE DEF F
  <2>2. QED
    BY <1>4, <2>1
<1> HIDE DEF set
<1>6. QED
  BY <1>1, <1>2, <1>3, <1>5 DEF Places, At

(* The first two are always asked, and only the second and the third       *)
(* start a period.                                                         *)
LEMMA FamilyIsAsked ==
  LET question(i) == At("family-law-property", i) IN
  /\ {1, 2, 3} \subseteq Places("family-law-property")
  /\ question(1).if = {} /\ question(2).if = {} /\ question(2).starts
  /\ question(1).answers = {"married", "de-facto"}
  /\ \A i \in Places("family-law-property") : question(i).starts => i \in {2, 3}
<1> DEFINE set == FamilyLawProperty
           F(i) == set.questions[i].starts => i \in {2, 3}
<1>1. QuestionSets("family-law-property") = set
  BY DEF QuestionSets
<1>2. DOMAIN set.questions = 1..10
  BY DEF FamilyLawProperty, QuestionSet
<1>3. /\ set.questions[1].if = {} /\ set.questions[2].if = {} /\ set.questions[2].starts
      /\ set.questions[1].answers = {"married", "de-facto"}
  BY DEF FamilyLawProperty, QuestionSet, Question, When, Starting
<1>4. F(1) /\ F(2) /\ F(3) /\ F(4) /\ F(5) /\ F(6) /\ F(7) /\ F(8) /\ F(9) /\ F(10)
  BY DEF FamilyLawProperty,
     QuestionSet, Question, Open, YesNo, HowMuch, When, Starting, FollowUp, WhichState
<1>5. ASSUME NEW i \in DOMAIN set.questions PROVE F(i)
  <2>1. i \in {1, 2, 3, 4, 5, 6, 7, 8, 9, 10}
    BY <1>2
  <2> HIDE DEF F
  <2>2. QED
    BY <1>4, <2>1
<1> HIDE DEF set
<1>6. QED
  BY <1>1, <1>2, <1>3, <1>5 DEF Places, At

(* The next question is one that applies and was not answered, and the     *)
(* answer is one of its own (intake-agent.ts:238-276).                     *)
LEMMA InterviewsGoOn == ASSUME InterviewInv, SubmitAnswer PROVE InterviewInv'
<1> DEFINE type == interview.type
           old == interview.answers
           pending == Pending(type, old)
           p == Min(pending)
           question == QuestionSets(type).questions[p]
<1>1. type \in MatterType /\ AsAsked(type, old) /\ interview = [type |-> type, answers |-> old]
  BY DEF InterviewInv, SubmitAnswer
<1>2. PICK answer \in question.answers :
        interview' = [interview EXCEPT !.answers =
          [id \in (DOMAIN old) \cup {question.id} |-> IF id = question.id THEN answer ELSE old[id]]]
  BY DEF SubmitAnswer
<1> DEFINE new == [id \in (DOMAIN old) \cup {question.id} |->
                     IF id = question.id THEN answer ELSE old[id]]
<1>3. interview' = [type |-> type, answers |-> new]
  BY <1>1, <1>2
<1>4. PICK n \in Nat : Places(type) = 1..n
  BY <1>1, SetsAreSound DEF Sound
<1>5. pending = {i \in Places(type) : Meets(old, At(type, i).if) /\ At(type, i).id \notin DOMAIN old}
  BY DEF Pending, Places, At, IsAnswered
<1>6. p \in pending /\ \A k \in pending : p <= k
  <2>1. pending \in SUBSET Nat
    BY <1>4, <1>5
  <2>2. pending # {}
    BY DEF SubmitAnswer
  <2> HIDE DEF pending
  <2>3. QED
    BY <2>1, <2>2, TheFirst
<1>7. question = At(type, p)
  BY DEF At
<1> HIDE DEF type, old, pending, p, question
<1>8. /\ DOMAIN new = (DOMAIN old) \cup {question.id} /\ new[question.id] = answer
      /\ question.id \notin DOMAIN old /\ \A id \in DOMAIN old : new[id] = old[id]
  BY <1>5, <1>6, <1>7
<1> HIDE DEF new
<1>9. \A condition : Meets(old, condition) => Meets(new, condition)
  BY <1>8 DEF Meets, IsAnswered
<1>10. ASSUME NEW id \in DOMAIN new
       PROVE  \E i \in Places(type) :
                /\ At(type, i).id = id /\ Meets(new, At(type, i).if)
                /\ new[id] \in At(type, i).answers
  <2>1. CASE id \in DOMAIN old
    BY <2>1, <1>1, <1>8, <1>9 DEF AsAsked
  <2>2. CASE id = question.id
    BY <2>2, <1>2, <1>5, <1>6, <1>7, <1>8, <1>9
  <2>3. QED
    BY <2>1, <2>2, <1>8
<1>11. ASSUME type = "family-law-property"
       PROVE  /\ "separation_date" \in DOMAIN new => "relationship_type" \in DOMAIN new
              /\ "divorce_date" \in DOMAIN new => "separation_date" \in DOMAIN new
  <2>1. \A i \in Places(type) : i < p /\ At(type, i).if = {} => At(type, i).id \in DOMAIN old
    BY <1>4, <1>5, <1>6 DEF Meets
  <2>2. p \in Places(type) /\ p \in Nat
    BY <1>4, <1>5, <1>6
  <2>3. /\ {1, 2, 3} \subseteq Places(type) /\ At(type, 1).if = {} /\ At(type, 2).if = {}
    BY <1>11, FamilyIsAsked
  <2>4. /\ At(type, 1).id = "relationship_type" /\ At(type, 2).id = "separation_date"
        /\ question.id = "separation_date" => p = 2
        /\ question.id = "divorce_date" => p = 3
    BY <1>7, <1>11, <2>2, <2>3, FamilyIsInOrder
  <2>5. question.id = "separation_date" => "relationship_type" \in DOMAIN old
    BY <2>1, <2>3, <2>4
  <2>6. question.id = "divorce_date" => "separation_date" \in DOMAIN old
    BY <2>1, <2>3, <2>4
  <2>7. QED
    BY <1>1, <1>8, <1>11, <2>5, <2>6 DEF AsAsked
<1>12. ASSUME type = "personal-injury-public-liability", "incident_date" \in DOMAIN new
       PROVE  "state" \in DOMAIN new
  <2>1. CASE "incident_date" \in DOMAIN old
    BY <1>1, <1>8, <1>12, <2>1 DEF AsAsked
  <2>2. CASE question.id = "incident_date"
    <3>1. 2 \in Places(type) /\ At(type, 2).id = "state" /\ At(type, 2).if = {} /\ p = 3
      BY <1>5, <1>6, <1>7, <1>12, <2>2, IncidentIsInOrder
    <3>2. 2 \notin pending
      BY <1>6, <3>1
    <3>3. "state" \in DOMAIN old
      BY <1>5, <3>1, <3>2 DEF Meets
    <3>4. QED
      BY <1>8, <3>3
  <2>3. QED
    BY <1>8, <1>12, <2>1, <2>2
<1>13. AsAsked(type, new)
  BY <1>10, <1>11, <1>12 DEF AsAsked
<1>14. interview'.type = type /\ interview'.answers = new
  BY <1>3
<1>15. QED
  BY <1>1, <1>3, <1>13, <1>14 DEF InterviewInv

(* What the rules are given to read.                                       *)
LEMMA AnswersAreTyped ==
  ASSUME NEW type, NEW dated, NEW starting, NEW follow, NEW answers,
         Sound(type, dated, starting, follow), AsAsked(type, answers), NEW id \in DOMAIN answers
  PROVE  /\ id \in {"purchase_price", "amount_owed", "value", "amount", "average_weekly_earnings"}
              => answers[id] \in Claim
         /\ id \in {"state", "court_and_state"} => answers[id] \in Written
         /\ id \in dated => answers[id] \in Dates
<1>1. PICK i \in Places(type) : At(type, i).id = id /\ answers[id] \in At(type, i).answers
  BY DEF AsAsked
<1>2. Fits(At(type, i), dated, starting, follow)
  BY DEF Sound
<1>3. QED
  BY <1>1, <1>2 DEF Fits

(* A larger claim goes to no lower court.                                  *)
LEMMA LargerGoesHigher ==
  ASSUME NEW type, NEW state, NEW value \in Nat, NEW more \in Nat, value > 0, more >= value
  PROVE  RelevantCourt(type, state, more) >= RelevantCourt(type, state, value)
<1>1. Intermediate(state) \in {2, 3}
  BY DEF Intermediate
<1>2. CivilCourtByValue(state, more) >= CivilCourtByValue(state, value)
  BY <1>1 DEF CivilCourtByValue
<1>3. /\ more >= 750 => (IF more >= 750 THEN 3 ELSE Intermediate(state)) = 3
      /\ (IF more >= 750 THEN 3 ELSE Intermediate(state))
           >= (IF value >= 750 THEN 3 ELSE Intermediate(state))
  BY <1>1
<1>4. QED
  BY <1>2, <1>3 DEF RelevantCourt

(* An amount written in figures is the key value if it is read at all, and *)
(* a larger one then is in its place.                                      *)
LEMMA ForumsDoRise ==
  ASSUME NEW type, NEW dated, NEW starting, NEW follow, NEW answers,
         Sound(type, dated, starting, follow), AsAsked(type, answers)
  PROVE  ForumsRise(type, answers)
<1>1. DOMAIN MoneyKeys = 1..5
  BY DEF MoneyKeys
<1>2. \A i \in 1..5 : MoneyKeys[i] \in {"purchase_price", "amount_owed", "value", "amount",
                                       "average_weekly_earnings"}
  <2>1. /\ MoneyKeys[1] = "purchase_price" /\ MoneyKeys[2] = "amount_owed"
        /\ MoneyKeys[3] = "value" /\ MoneyKeys[4] = "amount"
        /\ MoneyKeys[5] = "average_weekly_earnings"
    BY DEF MoneyKeys
  <2>2. \A i \in 1..5 : i \in {1, 2, 3, 4, 5}
    OBVIOUS
  <2>3. QED
    BY <2>1, <2>2
<1>3. SUFFICES ASSUME NEW i \in 1..5, NEW more \in Amount,
                      IsAnswered(answers, MoneyKeys[i]),
                      answers[MoneyKeys[i]] = InFigures(answers[MoneyKeys[i]].meant),
                      answers[MoneyKeys[i]].meant > 0, more >= answers[MoneyKeys[i]].meant
               PROVE  Forum(type, [answers EXCEPT ![MoneyKeys[i]] = InFigures(more)])
                        >= Forum(type, answers)
  BY <1>1 DEF ForumsRise
<1> DEFINE id == MoneyKeys[i]
           other == [answers EXCEPT ![id] = InFigures(more)]
           money(x) == {j \in DOMAIN MoneyKeys : IsAnswered(x, MoneyKeys[j]) /\ x[MoneyKeys[j]].read > 0}
<1>4. \A j \in 1..5 : MoneyKeys[j] \in DOMAIN answers =>
        answers[MoneyKeys[j]].meant \in Nat /\ answers[MoneyKeys[j]].read \in Nat
  <2>1. \A j \in 1..5 : MoneyKeys[j] \in DOMAIN answers => answers[MoneyKeys[j]] \in Claim
    BY <1>2, AnswersAreTyped
  <2>2. QED
    BY <2>1, QuestionnairesAssumption DEF Claim
<1>5. /\ id \in DOMAIN answers /\ id \notin {"state", "court_and_state", "location"}
      /\ more \in Nat /\ InFigures(more).read = more
      /\ answers[id].read = answers[id].meant
  BY <1>2, <1>3, QuestionnairesAssumption DEF IsAnswered, InFigures
<1>6. /\ DOMAIN other = DOMAIN answers /\ other[id].read = more
      /\ \A k \in DOMAIN answers : k # id => other[k] = answers[k]
  BY <1>5
<1> HIDE DEF id, other
<1>7. ResolveState(other) = ResolveState(answers)
  BY <1>5, <1>6 DEF ResolveState, NormaliseState, IsAnswered
<1>8. money(other) = money(answers) /\ i \in money(answers)
  <2>1. answers[id].read > 0 /\ more > 0
    BY <1>3, <1>4, <1>5 DEF id
  <2>2. \A k : IsAnswered(other, k) <=> IsAnswered(answers, k)
    BY <1>6 DEF IsAnswered
  <2>3. \A k \in DOMAIN answers : other[k].read > 0 <=> answers[k].read > 0
    BY <1>6, <2>1
  <2>4. QED
    BY <1>1, <1>5, <2>1, <2>2, <2>3 DEF IsAnswered, id
<1> DEFINE m == Min(money(answers))
<1>9. m \in money(answers)
  <2>1. money(answers) \in SUBSET Nat /\ money(answers) # {}
    BY <1>1, <1>8
  <2> HIDE DEF money
  <2>2. QED
    BY <2>1, TheFirst
<1>10. /\ KeyValue(answers) = answers[MoneyKeys[m]].read
       /\ KeyValue(other) = other[MoneyKeys[m]].read
  BY <1>8 DEF KeyValue
<1>11. m \in 1..5 /\ MoneyKeys[m] \in DOMAIN answers /\ answers[MoneyKeys[m]].read > 0
  BY <1>1, <1>9 DEF IsAnswered
<1> HIDE DEF m, money
<1>12. /\ KeyValue(answers) \in Nat /\ KeyValue(other) \in Nat
       /\ KeyValue(answers) > 0 /\ KeyValue(other) >= KeyValue(answers)
  <2>1. CASE MoneyKeys[m] = id
    BY <1>3, <1>4, <1>5, <1>6, <1>10, <1>11, <2>1 DEF id
  <2>2. CASE MoneyKeys[m] # id
    BY <1>4, <1>6, <1>10, <1>11, <2>2
  <2>3. QED
    BY <2>1, <2>2
<1>13. Forum(type, other) >= Forum(type, answers)
  BY <1>7, <1>12, LargerGoesHigher DEF Forum
<1>14. QED
  BY <1>13 DEF other, id

(* A period ends on a day.                                                 *)
LEMMA DaysAreNumbers ==
  ASSUME NEW d \in Nat \X (1..12) \X (1..31)
  PROVE  DayNumber(d) \in Int
<1>1. d = <<d[1], d[2], d[3]>> /\ d[1] \in Int /\ d[2] \in 1..12 /\ d[3] \in Int
  OBVIOUS
<1>2. Eve(d[1], d[2]) \in Int /\ DayNumber(<<d[1], d[2], d[3]>>) = Eve(d[1], d[2]) + d[3]
  BY <1>1, DaysAddUp
<1>3. QED
  BY <1>1, <1>2

LEMMA PeriodsEnd ==
  ASSUME NEW d \in Nat \X (1..12) \X (1..31), NEW p \in PeriodState
  PROVE  Expiry(p, d) \in Int
<1>1. p.unit \in {"days", "months", "years"} /\ p.n \in Nat /\ 12 * p.n \in Nat
  BY DEF PeriodState
<1>2. \A n \in Nat : AddMonths(d, n) \in Int
  BY MonthsRunOver
<1>3. QED
  BY <1>1, <1>2, DaysAreNumbers DEF Expiry, AddYears

LEMMA LongerEndsLater ==
  ASSUME NEW d \in Nat \X (1..12) \X (1..31), NEW p \in PeriodState, NEW q \in PeriodState,
         NoLonger(p, q)
  PROVE  Expiry(p, d) <= Expiry(q, d)
<1>1. Expiry(p, d) \in Int
  BY PeriodsEnd
<1>2. CASE p = q
  BY <1>1, <1>2
<1>3. CASE p.unit = "days" /\ q.unit = "days" /\ p.n <= q.n
  BY <1>3, DaysAreNumbers DEF Expiry, PeriodState
<1>4. QED
  BY <1>2, <1>3 DEF NoLonger

LEMMA StatesAreWritten ==
  ASSUME NEW type, NEW dated, NEW starting, NEW follow, NEW answers,
         Sound(type, dated, starting, follow), AsAsked(type, answers)
  PROVE  StateAnswer(answers) \in Written
<1>1. Nowhere \in Written
  BY DEF Nowhere, Written
<1>2. QED
  BY <1>1, AnswersAreTyped DEF StateAnswer, IsAnswered

(* The clocks that run, started on a day and for a period of their own.    *)
LEMMA ClocksRun ==
  ASSUME NEW type, NEW dated, NEW starting, NEW follow, NEW answers,
         Sound(type, dated, starting, follow), AsAsked(type, answers),
         NEW c \in Running(type, answers)
  PROVE  \E clock \in QuestionSets(type).clocks :
           /\ ClockFits(type, clock, dated) /\ Meets(answers, clock.if)
           /\ IsAnswered(answers, clock.from) /\ answers[clock.from] \in Occasion
           /\ clock.period[StateAnswer(answers)] \in PeriodState
           /\ c.ends = Expiry(clock.period[StateAnswer(answers)], answers[clock.from])
           /\ c.warning = clock.warning /\ c.past = clock.past
           /\ c.ends \in Int
<1>1. PICK clock \in QuestionSets(type).clocks :
        /\ Meets(answers, clock.if)
        /\ IsAnswered(answers, clock.from) /\ answers[clock.from] # Unreadable
        /\ c = [ends |-> Expiry(clock.period[StateAnswer(answers)], answers[clock.from]),
                warning |-> clock.warning, past |-> clock.past]
  BY DEF Running
<1>2. ClockFits(type, clock, dated)
  BY DEF Sound
<1>3. answers[clock.from] \in Dates
  BY <1>1, <1>2, AnswersAreTyped DEF ClockFits, IsAnswered
<1>4. answers[clock.from] \in Occasion
  BY <1>1, <1>3 DEF Dates
<1>5. clock.period[StateAnswer(answers)] \in PeriodState
  BY <1>2, StatesAreWritten DEF ClockFits
<1>6. Expiry(clock.period[StateAnswer(answers)], answers[clock.from]) \in Int
  BY <1>4, <1>5, PeriodsEnd, QuestionnairesAssumption
<1>7. QED
  BY <1>1, <1>2, <1>4, <1>5, <1>6

LEMMA FlagsDoLast ==
  ASSUME NEW type, NEW dated, NEW starting, NEW follow, NEW answers,
         Sound(type, dated, starting, follow), AsAsked(type, answers)
  PROVE  FlagsLast(type, answers)
<1>1. SUFFICES ASSUME NEW c \in Running(type, answers), NEW days \in Passed,
                      IsUrgent(FALSE, {c}, c.ends - days), ~ IsUrgent(FALSE, {c}, c.ends - days + 1)
               PROVE  type = "conveyancing-sale" /\ days = 0
  BY DEF FlagsLast
<1>2. c.ends \in Int /\ c.warning \in Nat /\ (c.past \/ type = "conveyancing-sale")
  BY ClocksRun DEF ClockFits
<1>3. days \in Int
  BY QuestionnairesAssumption
<1>4. c.ends - (c.ends - days) <= c.warning /\ (c.past \/ c.ends >= c.ends - days)
  BY <1>1 DEF IsUrgent
<1>5. ~ (c.ends - (c.ends - days + 1) <= c.warning /\ (c.past \/ c.ends >= c.ends - days + 1))
  BY <1>1 DEF IsUrgent
<1>6. QED
  BY <1>2, <1>3, <1>4, <1>5

(* What a rule reads by its name was asked when nothing is left to ask:    *)
(* it is always asked, or it is a follow-up.                               *)
LEMMA RulesAreFedInTheEnd ==
  ASSUME NEW type, NEW dated, NEW starting, NEW follow, NEW answers,
         Sound(type, dated, starting, follow), AsAsked(type, answers)
  PROVE  RulesAreFed(type, answers)
<1> DEFINE followUps == {i \in Places(type) : At(type, i).if # {}}
<1>1. SUFFICES ASSUME Pending(type, answers) = {}
               PROVE  /\ \A c \in QuestionSets(type).clocks :
                           /\ c.from \in DOMAIN answers
                           /\ \A d \in c.if : d[1] \in DOMAIN answers
                      /\ \A a \in QuestionSets(type).alarms : \A d \in a :
                           d[1] \in (DOMAIN answers) \cup {At(type, i).id : i \in followUps}
                      /\ \A i \in followUps :
                           At(type, i).id \in DOMAIN answers <=> Meets(answers, At(type, i).if)
  BY DEF RulesAreFed, Places, At
<1>2. \A i \in Places(type) : Meets(answers, At(type, i).if) => At(type, i).id \in DOMAIN answers
  BY <1>1 DEF Pending, Places, At, IsAnswered
<1>3. \A i \in Places(type) : At(type, i).if = {} => At(type, i).id \in DOMAIN answers
  BY <1>2 DEF Meets
<1>4. \A id : IsAsked(type, id) => id \in DOMAIN answers
  BY <1>3 DEF IsAsked
<1>5. ASSUME NEW c \in QuestionSets(type).clocks
      PROVE  c.from \in DOMAIN answers /\ \A d \in c.if : d[1] \in DOMAIN answers
  BY <1>4 DEF Sound, ClockFits
<1>6. \A id : IsKnown(type, id) => id \in (DOMAIN answers) \cup {At(type, i).id : i \in followUps}
  BY <1>3 DEF IsKnown
<1>7. ASSUME NEW i \in followUps, At(type, i).id \in DOMAIN answers
      PROVE  Meets(answers, At(type, i).if)
  <2>1. PICK j \in Places(type) : At(type, j).id = At(type, i).id /\ Meets(answers, At(type, j).if)
    BY <1>7 DEF AsAsked
  <2>2. Fits(At(type, i), dated, starting, follow) /\ Fits(At(type, j), dated, starting, follow)
    BY DEF Sound
  <2>3. At(type, j).if = At(type, i).if
    BY <2>1, <2>2 DEF Fits
  <2>4. QED
    BY <2>1, <2>3
<1>8. QED
  BY <1>2, <1>5, <1>6, <1>7 DEF Sound

(* The date that starts the period of the brief is the first readable      *)
(* one.                                                                    *)
LEMMA TheTrigger ==
  ASSUME NEW type, NEW dated, NEW starting, NEW follow, NEW answers,
         Sound(type, dated, starting, follow), TriggerDate(type, answers) # Unreadable
  PROVE  \E i \in Places(type) :
           /\ At(type, i).starts /\ IsAnswered(answers, At(type, i).id)
           /\ answers[At(type, i).id] # Unreadable
           /\ TriggerDate(type, answers) = answers[At(type, i).id]
           /\ \A k \in Places(type) :
                (At(type, k).starts /\ IsAnswered(answers, At(type, k).id)
                   /\ answers[At(type, k).id] # Unreadable) => i <= k
<1> DEFINE readable == {i \in Places(type) :
                      /\ At(type, i).starts
                      /\ IsAnswered(answers, At(type, i).id)
                      /\ answers[At(type, i).id] # Unreadable}
<1>1. TriggerDate(type, answers) = IF readable = {} THEN Unreadable ELSE answers[At(type, Min(readable)).id]
  BY DEF TriggerDate, Places, At
<1>2. readable # {}
  BY <1>1
<1>3. readable \in SUBSET Nat
  BY DEF Sound
<1>4. Min(readable) \in readable /\ \A k \in readable : Min(readable) <= k
  <2> HIDE DEF readable
  <2>1. QED
    BY <1>2, <1>3, TheFirst
<1>5. QED
  BY <1>1, <1>2, <1>4

(* The brief's day is one of a clock that runs, or none of them comes      *)
(* after it.                                                               *)
LEMMA OneClockIsEnough ==
  ASSUME NEW type, NEW answers, NEW ends \in Int, NEW first \in Int, NEW c \in Running(type, answers),
         ends = BriefExpiry(type, answers), first = DayNumber(TriggerDate(type, answers)),
         c.ends \in Int, c.warning \in Nat, c.warning >= 14, c.past,
         \A other \in Running(type, answers) : other.ends <= ends
  PROVE  DeadlinesAgree(type, answers)
<1>1. ASSUME NEW days \in Passed, ends - (first + days) <= 14
      PROVE  IsUrgent(Alarm(type, answers), Running(type, answers), first + days)
  <2>1. c.ends - (first + days) <= c.warning
    <3>1. days \in Int /\ c.ends <= ends
      BY QuestionnairesAssumption
    <3>2. QED
      BY <1>1, <3>1
  <2>2. QED
    BY <2>1 DEF IsUrgent
<1>2. QED
  BY <1>1 DEF DeadlinesAgree

(* With one clock, the interview and the brief count from the same date    *)
(* in the same state.                                                      *)
LEMMA DeadlinesDoAgree ==
  ASSUME NEW type, NEW dated, NEW starting, NEW follow, NEW answers,
         Sound(type, dated, starting, follow), FollowsBrief(type, starting), AsAsked(type, answers)
  PROVE  DeadlinesAgree(type, answers)
<1> DEFINE trigger == TriggerDate(type, answers)
           w == StateAnswer(answers)
           brief == Period(PeriodOf(type), ResolveState(answers))
<1>1. SUFFICES ASSUME trigger # Unreadable, ~ KnownToDisagree(type, answers)
               PROVE  DeadlinesAgree(type, answers)
  BY DEF DeadlinesAgree
<1>2. PICK i \in Places(type) : /\ At(type, i).starts /\ IsAnswered(answers, At(type, i).id)
                                /\ trigger = answers[At(type, i).id]
  BY <1>1, TheTrigger
<1>3. At(type, i).id \in starting
  BY <1>2 DEF Sound, Fits
<1>4. PICK c : /\ QuestionSets(type).clocks = {c} /\ starting = {c.from}
               /\ c.if = {} /\ c.past /\ c.warning >= 14
               /\ \A v \in Written : (type = "will-and-estate" => v.state \notin Fewer)
                    => NoLonger(c.period[v], Period(PeriodOf(type), v.state))
  BY <1>3 DEF FollowsBrief
<1>5. ClockFits(type, c, dated)
  BY <1>4 DEF Sound
<1>6. trigger = answers[c.from] /\ IsAnswered(answers, c.from)
  BY <1>2, <1>3, <1>4
<1>7. trigger \in Occasion
  <2>1. trigger \in Dates
    BY <1>5, <1>6, AnswersAreTyped DEF ClockFits, IsAnswered
  <2>2. QED
    BY <1>1, <2>1 DEF Dates
<1>8. w \in Written
  BY StatesAreWritten
<1>9. ResolveState(answers) = w.state
  <2>1. "court_and_state" \notin DOMAIN answers
    BY <1>3 DEF AsAsked, Sound, Fits
  <2>2. "location" \in DOMAIN answers => "state" \in DOMAIN answers
    <3>1. SUFFICES ASSUME "location" \in DOMAIN answers PROVE "state" \in DOMAIN answers
      OBVIOUS
    <3>2. "incident_date" \in starting
      BY <3>1 DEF AsAsked, Sound, Fits
    <3>3. c.from = "incident_date" /\ type = "personal-injury-public-liability"
      BY <1>4, <3>2 DEF Sound
    <3>4. QED
      BY <1>6, <3>3 DEF AsAsked, IsAnswered
  <2>3. QED
    BY <2>1, <2>2 DEF ResolveState, StateAnswer, NormaliseState, IsAnswered, Nowhere
<1>10. type = "will-and-estate" => w.state \notin Fewer
  BY <1>1, <1>9 DEF KnownToDisagree, Fewer
<1>11. NoLonger(c.period[w], brief)
  BY <1>4, <1>8, <1>9, <1>10
<1>12. c.period[w] \in PeriodState /\ brief \in PeriodState
  BY <1>5, <1>8, PeriodsAreTyped DEF ClockFits
<1>13. trigger \in Nat \X (1..12) \X (1..31)
  BY <1>7, QuestionnairesAssumption
<1> DEFINE r == [ends |-> Expiry(c.period[w], trigger), warning |-> c.warning, past |-> c.past]
           ends == BriefExpiry(type, answers)
           first == DayNumber(trigger)
<1>14. Running(type, answers) = {r}
  <2>1. Meets(answers, c.if)
    BY <1>4 DEF Meets
  <2>2. QED
    BY <1>1, <1>4, <1>6, <2>1 DEF Running
<1>15. r.ends = Expiry(c.period[w], trigger) /\ r.warning = c.warning /\ r.past = c.past
  OBVIOUS
<1>16. ends = Expiry(brief, trigger)
  BY DEF BriefExpiry
<1> HIDE DEF trigger, w, brief
<1>17. r.ends \in Int /\ ends \in Int /\ r.ends <= ends /\ first \in Int
  BY <1>11, <1>12, <1>13, <1>15, <1>16, PeriodsEnd, LongerEndsLater, DaysAreNumbers
<1>18. c.warning \in Nat
  BY <1>5 DEF ClockFits
<1> HIDE DEF r, ends, first
<1>19. \A other \in Running(type, answers) : other.ends <= ends
  BY <1>14, <1>17
<1>20. r \in Running(type, answers) /\ r.warning >= 14 /\ r.warning \in Nat /\ r.past
  BY <1>4, <1>14, <1>15, <1>18
<1>21. ends = BriefExpiry(type, answers) /\ first = DayNumber(TriggerDate(type, answers))
  BY DEF ends, first, trigger
<1>22. QED
  BY <1>17, <1>19, <1>20, <1>21, OneClockIsEnough

(* Who was not married was asked when the couple separated; that starts    *)
(* both the clock and the period of the brief.                             *)
LEMMA FamilyDoesAgree ==
  ASSUME NEW dated, NEW starting, NEW follow, NEW answers,
         Sound("family-law-property", dated, starting, follow),
         AsAsked("family-law-property", answers)
  PROVE  DeadlinesAgree("family-law-property", answers)
<1> DEFINE type == "family-law-property"
           trigger == TriggerDate(type, answers)
<1>1. SUFFICES ASSUME trigger # Unreadable, ~ KnownToDisagree(type, answers)
               PROVE  DeadlinesAgree(type, answers)
  BY DEF DeadlinesAgree
<1>2. PICK i \in Places(type) :
        /\ At(type, i).starts /\ IsAnswered(answers, At(type, i).id)
        /\ trigger = answers[At(type, i).id]
        /\ \A k \in Places(type) :
             (At(type, k).starts /\ IsAnswered(answers, At(type, k).id)
                /\ answers[At(type, k).id] # Unreadable) => i <= k
  BY <1>1, TheTrigger
<1>3. /\ {1, 2, 3} \subseteq Places(type) /\ At(type, 2).starts
      /\ At(type, 1).answers = {"married", "de-facto"}
      /\ \A k \in Places(type) : At(type, k).starts => k \in {2, 3}
  BY FamilyIsAsked
<1>4. /\ At(type, 1).id = "relationship_type" /\ At(type, 2).id = "separation_date"
      /\ At(type, 3).id = "divorce_date"
      /\ \A k \in Places(type) : At(type, k).id = "relationship_type" => k = 1
  BY <1>3, FamilyIsInOrder
<1>5. IsAnswered(answers, "separation_date") /\ IsAnswered(answers, "relationship_type")
  BY <1>2, <1>3, <1>4 DEF AsAsked, IsAnswered
<1>6. answers["relationship_type"] # "married" /\ answers["separation_date"] # Unreadable
  <2>1. /\ ~ Meets(answers, {<<"relationship_type", "married">>})
        /\ ~ Meets(answers, {<<"separation_date", Unreadable>>})
    BY <1>1 DEF KnownToDisagree
  <2>2. QED
    BY <1>5, <2>1 DEF Meets
<1>7. answers["relationship_type"] = "de-facto"
  <2>1. PICK k \in Places(type) : /\ At(type, k).id = "relationship_type"
                                  /\ answers["relationship_type"] \in At(type, k).answers
    BY <1>5 DEF AsAsked, IsAnswered
  <2>2. QED
    BY <1>3, <1>4, <1>6, <2>1
<1>8. i = 2
  BY <1>2, <1>3, <1>4, <1>5, <1>6
<1>9. trigger = answers["separation_date"]
  BY <1>2, <1>4, <1>8
<1>10. PICK d, s :
         /\ QuestionSets(type).clocks = {d, s}
         /\ d.if = {<<"relationship_type", "married">>}
         /\ s.from = "separation_date" /\ s.if = {<<"relationship_type", "de-facto">>}
         /\ s.warning = 60 /\ s.past = TRUE /\ \A w \in Written : s.period[w] = Years(2)
  BY FamilyHasTwoClocks
<1>11. StateAnswer(answers) \in Written
  BY StatesAreWritten
<1> DEFINE r == [ends |-> Expiry(Years(2), trigger), warning |-> 60, past |-> TRUE]
<1>12. Running(type, answers) = {r}
  <2>1. ~ Meets(answers, d.if)
    BY <1>6, <1>10 DEF Meets
  <2>2. Meets(answers, s.if) /\ IsAnswered(answers, s.from) /\ answers[s.from] # Unreadable
    BY <1>5, <1>6, <1>7, <1>10 DEF Meets
  <2>3. [ends |-> Expiry(s.period[StateAnswer(answers)], answers[s.from]),
         warning |-> s.warning, past |-> s.past] = r
    BY <1>9, <1>10, <1>11
  <2> HIDE DEF r
  <2>4. {clock \in QuestionSets(type).clocks :
           /\ Meets(answers, clock.if)
           /\ IsAnswered(answers, clock.from) /\ answers[clock.from] # Unreadable} = {s}
    BY <1>10, <2>1, <2>2
  <2>5. QED
    BY <2>3, <2>4 DEF Running
<1>13. BriefExpiry(type, answers) = Expiry(Years(2), trigger)
  BY DEF BriefExpiry, Period, PeriodOf, PeriodType
<1>14. trigger \in Nat \X (1..12) \X (1..31)
  <2>1. ClockFits(type, s, dated)
    BY <1>10 DEF Sound
  <2>2. trigger \in Dates
    BY <1>5, <1>9, <1>10, <2>1, AnswersAreTyped DEF ClockFits, IsAnswered
  <2>3. QED
    BY <1>1, <2>2, QuestionnairesAssumption DEF Dates
<1> HIDE DEF trigger
<1>15. Expiry(Years(2), trigger) \in Int /\ DayNumber(trigger) \in Int
  BY <1>14, PeriodsAre, PeriodsEnd, DaysAreNumbers
<1>16. r.ends = Expiry(Years(2), trigger) /\ r.warning = 60 /\ r.past
  OBVIOUS
<1> HIDE DEF r
<1>17. /\ r \in Running(type, answers) /\ r.warning \in Nat /\ r.warning >= 14
       /\ \A other \in Running(type, answers) : other.ends <= BriefExpiry(type, answers)
  BY <1>12, <1>13, <1>15, <1>16
<1>18. /\ BriefExpiry(type, answers) \in Int /\ r.ends \in Int
       /\ DayNumber(TriggerDate(type, answers)) \in Int
  BY <1>13, <1>15, <1>16 DEF trigger
<1>19. QED
  BY <1>16, <1>17, <1>18, OneClockIsEnough

(* In every interview briefs can be relied on.                             *)
LEMMA BriefsAreRight == ASSUME InterviewInv PROVE BriefsCanBeReliedOn
<1> DEFINE type == interview.type
           answers == interview.answers
<1>1. SUFFICES ASSUME interview # NoInterview
               PROVE  /\ DeadlinesAgree(type, answers) /\ FlagsLast(type, answers)
                      /\ RulesAreFed(type, answers) /\ ForumsRise(type, answers)
  BY DEF BriefsCanBeReliedOn
<1>2. type \in MatterType /\ AsAsked(type, answers)
  BY <1>1 DEF InterviewInv
<1> HIDE DEF type, answers
<1>3. PICK dated, starting, follow :
        /\ Sound(type, dated, starting, follow)
        /\ type # "family-law-property" => FollowsBrief(type, starting)
  BY <1>2, SetsAreSound
<1>4. DeadlinesAgree(type, answers)
  BY <1>2, <1>3, DeadlinesDoAgree, FamilyDoesAgree
<1>5. QED
  BY <1>2, <1>3, <1>4, FlagsDoLast, RulesAreFedInTheEnd, ForumsDoRise

LEMMA InterviewsStay == ASSUME InterviewInv, UNCHANGED interview PROVE InterviewInv'
BY DEF InterviewInv

LEMMA InterviewsRun == ASSUME InterviewInv, InterviewStep PROVE InterviewInv'
BY InterviewsOpen, InterviewsGoOn DEF InterviewStep

-----------------------------------------------------------------------------

(* Exchange: the copies at the partners, and what they tell of.            *)

(* Numbers that were given to somebody, and those a matter here can have:  *)
(* not the ones the partners gave, which come with a prefix.               *)
Given == {n \in Number : n # <<>>}
GivenHere == {n \in Given : \A f \in Foreign : n # <<f>>}

SyncShape == [at : {"idle", "pulling", "pushing", "sending"}, with : Partner,
              got : SUBSET Given, todo : Seq(GivenHere)]

(* The syncs whose post of n to p is under way.                            *)
Flies(r, p, n) == r.at = "sending" /\ r.with = p /\ Head(r.todo) = n
Flying(syncs, p, n) == {t \in Sync : Flies(syncs[t], p, n)}

IsCount(c) == Range(c) \subseteq Nat

ExchangeShape ==
  /\ DOMAIN matters \subseteq GivenHere /\ IsFiniteSet(DOMAIN matters)
  /\ Range(matters) \subseteq {"open", "closed"}
  /\ DOMAIN remote = Partner /\ DOMAIN repeats = Partner
  /\ \A p \in Partner :
       /\ DOMAIN remote[p] \subseteq Given /\ IsFiniteSet(DOMAIN remote[p]) /\ IsCount(remote[p])
       /\ DOMAIN repeats[p] \subseteq Given /\ IsCount(repeats[p])
  /\ changed \in [Partner -> SUBSET Given] /\ \A p \in Partner : IsFiniteSet(changed[p])
  /\ pushed \in [Partner -> SUBSET Given] /\ excused \in [Partner -> SUBSET Given]
  /\ sync \in [Sync -> SyncShape]
  /\ \A s \in Sync : /\ IsFiniteSet(sync[s].got)
                     /\ sync[s].at = "sending" => sync[s].todo # <<>>

(* A partner's records of a number, with the posts that may become records,*)
(* are one more at most than the repeats; and no more, while no post of it *)
(* was noted and none is under way.                                        *)
IsAccounted(records, flights, repeated, noted, n) ==
  /\ records + Cardinality(flights) <= 1 + repeated
  /\ n \in GivenHere /\ ~noted /\ flights = {} => records <= repeated

CopiesAreAccounted ==
  \A p \in Partner : \A n \in Given :
    IsAccounted(CountOf(remote[p], n), Flying(sync, p, n), CountOf(repeats[p], n), n \in pushed[p], n)

(* What a sync was told of is here or excused when its pull is over.       *)
IsPulled(here, excuses, p, n) == Local(p, n) \in here \/ n \in excuses[p]

AnswersArePulled ==
  \A s \in Sync : sync[s].at \in {"pushing", "sending"} =>
    \A n \in sync[s].got : IsPulled(DOMAIN matters, excused, sync[s].with, n)

ExchangeInv ==
  /\ ExchangeShape
  /\ CopiesAreAccounted
  /\ AnswersArePulled
  /\ NothingIsMissedSilently

-----------------------------------------------------------------------------

LEMMA CountsAreNumbers ==
  ASSUME NEW c, IsCount(c), NEW n
  PROVE  CountOf(c, n) \in Nat
BY DEF IsCount, Range, CountOf

LEMMA OneIsCounted ==
  ASSUME NEW c, IsCount(c), NEW n
  PROVE  /\ DOMAIN OneMore(c, n) = DOMAIN c \cup {n}
         /\ IsCount(OneMore(c, n))
         /\ CountOf(OneMore(c, n), n) = CountOf(c, n) + 1
         /\ \A k : k # n => CountOf(OneMore(c, n), k) = CountOf(c, k)
<1>1. \A k : CountOf(c, k) \in Nat
  BY CountsAreNumbers
<1> DEFINE d == OneMore(c, n)
<1>2. /\ DOMAIN d = DOMAIN c \cup {n}
      /\ \A k \in DOMAIN d : d[k] = CountOf(c, k) + (IF k = n THEN 1 ELSE 0)
  BY DEF OneMore
<1> HIDE DEF d
<1>3. \A k \in DOMAIN d : d[k] \in Nat
  BY <1>1, <1>2
<1>4. IsCount(d)
  BY <1>3 DEF IsCount, Range
<1>5. CountOf(d, n) = CountOf(c, n) + 1
  BY <1>2 DEF CountOf
<1>6. ASSUME NEW k, k # n PROVE CountOf(d, k) = CountOf(c, k)
  <2>1. CASE k \in DOMAIN c
    <3>1. CountOf(d, k) = CountOf(c, k) + 0
      BY <1>2, <1>6, <2>1 DEF CountOf
    <3>2. QED
      BY <1>1, <3>1
  <2>2. CASE k \notin DOMAIN c
    BY <1>2, <1>6, <2>2 DEF CountOf
  <2>3. QED
    BY <2>1, <2>2
<1>7. QED
  BY <1>2, <1>4, <1>5, <1>6 DEF d

(* Numbers: one given here, and one behind a prefix.                       *)
LEMMA OwnAreGivenHere == \A n \in Own : <<n>> \in GivenHere
<1>1. ASSUME NEW n \in Own, NEW f \in Foreign PROVE <<n>> # <<f>>
  BY ExchangeAssumption
<1>2. \A n \in Own : <<n>> \in Number /\ <<n>> # <<>>
  BY DEF Number
<1>3. QED
  BY <1>1, <1>2 DEF GivenHere, Given

LEMMA PrefixedAreGivenHere ==
  ASSUME NEW p \in Partner, NEW n \in Given
  PROVE  Local(p, n) \in GivenHere
<1> DEFINE S == Partner \cup Own \cup Foreign
           k == <<p>> \o n
<1>1. <<p>> \in Seq(S) /\ n \in Seq(S) /\ Len(<<p>>) = 1 /\ n # <<>>
  BY DEF Given, Number
<1>2. k \in Seq(S) /\ Len(k) = 1 + Len(n)
  <2> HIDE DEF S
  <2>1. QED
    BY <1>1, ConcatProperties
<1>3. Len(n) \in Nat /\ Len(n) # 0
  <2> HIDE DEF S
  <2>1. QED
    BY <1>1, EmptySeq, LenProperties
<1>4. k # <<>> /\ \A f \in Foreign : k # <<f>>
  <2>1. Len(k) # 0 /\ Len(k) # 1
    BY <1>2, <1>3
  <2>2. Len(<<>>) = 0 /\ \A f \in Foreign : Len(<<f>>) = 1
    OBVIOUS
  <2> HIDE DEF k
  <2>3. QED
    BY <2>1, <2>2
<1>5. QED
  BY <1>2, <1>4 DEF Local, GivenHere, Given, Number

(* The first of what is to be sent, and the rest.                          *)
LEMMA TodoIsGivenHere ==
  ASSUME NEW r \in SyncShape, r.todo # <<>>
  PROVE  Head(r.todo) \in GivenHere /\ Tail(r.todo) \in Seq(GivenHere)
BY HeadTailProperties DEF SyncShape

(* The order in which a finite set of numbers is gone through.             *)
LEMMA OrdersAreSequences ==
  ASSUME NEW S, S \subseteq GivenHere, IsFiniteSet(S), NEW todo \in SetToSeqs(S)
  PROVE  todo \in Seq(GivenHere)
<1>1. todo \in [1..Cardinality(S) -> S] /\ Cardinality(S) \in Nat
  BY FS_CardinalityType DEF SetToSeqs
<1>2. todo \in Seq(S)
  BY <1>1, SeqDef
<1>3. QED
  BY <1>2, SeqMonotonic

LEMMA FlightsAreCounted ==
  ASSUME NEW syncs, NEW p, NEW n
  PROVE  /\ IsFiniteSet(Flying(syncs, p, n))
         /\ Cardinality(Flying(syncs, p, n)) \in Nat
BY ExchangeAssumption, FS_Subset, FS_CardinalityType DEF Flying

LEMMA ExchangeStarts == ASSUME ExchangeInit PROVE ExchangeInv
<1>1. Idle \in SyncShape /\ Idle.at = "idle" /\ Idle.got = {}
  <2>1. (CHOOSE p \in Partner : TRUE) \in Partner
    BY ExchangeAssumption
  <2>2. <<>> \in Seq(GivenHere)
    BY EmptySeq
  <2>3. QED
    BY <2>1, <2>2 DEF Idle, SyncShape
<1>2. sync = [s \in Sync |-> Idle]
  BY DEF ExchangeInit
<1>3. /\ DOMAIN matters = {}
      /\ \A p \in Partner : DOMAIN remote[p] = {} /\ DOMAIN repeats[p] = {} /\ changed[p] = {}
  BY DEF ExchangeInit
<1>4. ExchangeShape
  <2>1. Range(matters) = {} /\ \A p \in Partner : IsCount(remote[p]) /\ IsCount(repeats[p])
    BY <1>3 DEF Range, IsCount
  <2>2. sync \in [Sync -> SyncShape] /\ \A s \in Sync : sync[s].at = "idle" /\ sync[s].got = {}
    <3> HIDE DEF Idle
    <3>1. QED
      BY <1>1, <1>2
  <2>3. IsFiniteSet({})
    BY FS_EmptySet
  <2>4. /\ DOMAIN remote = Partner /\ DOMAIN repeats = Partner
        /\ changed \in [Partner -> SUBSET Given] /\ pushed \in [Partner -> SUBSET Given]
        /\ excused \in [Partner -> SUBSET Given]
    BY DEF ExchangeInit
  <2>5. QED
    BY <1>3, <2>1, <2>2, <2>3, <2>4 DEF ExchangeShape
<1>5. ASSUME NEW p \in Partner, NEW n \in Given
      PROVE  IsAccounted(CountOf(remote[p], n), Flying(sync, p, n), CountOf(repeats[p], n), n \in pushed[p], n)
  <2>1. CountOf(remote[p], n) = 0 /\ CountOf(repeats[p], n) = 0
    BY <1>3 DEF CountOf
  <2>2. Flying(sync, p, n) = {}
    BY <1>1, <1>2 DEF Flying, Flies
  <2>3. QED
    BY <2>1, <2>2, FS_EmptySet DEF IsAccounted
<1>6. AnswersArePulled
  BY <1>1, <1>2 DEF AnswersArePulled
<1>7. QED
  BY <1>3, <1>4, <1>5, <1>6 DEF ExchangeInv, CopiesAreAccounted, NothingIsMissedSilently

-----------------------------------------------------------------------------

(* What the sender of a step did not change of the copies.                 *)
LEMMA CopiesStay ==
  ASSUME ExchangeInv, UNCHANGED <<remote, repeats, pushed>>,
         \A p \in Partner : \A n \in Given : Flying(sync', p, n) = Flying(sync, p, n)
  PROVE  CopiesAreAccounted'
BY DEF ExchangeInv, CopiesAreAccounted

(* Matters are not taken away and excuses not withdrawn; a record that     *)
(* counts as exchanged now did before, or is pulled.                       *)
LEMMA NothingIsLost ==
  ASSUME ExchangeInv, DOMAIN matters \subseteq DOMAIN matters',
         \A p \in Partner : excused[p] \subseteq excused'[p],
         \A p \in Partner : \A n \in DOMAIN remote'[p] \ changed'[p] :
           n \in DOMAIN remote[p] \ changed[p] \/ IsPulled(DOMAIN matters', excused', p, n),
         \A s \in Sync : sync'[s].at \in {"pushing", "sending"} =>
           \/ /\ sync[s].at \in {"pushing", "sending"}
              /\ sync'[s].got = sync[s].got /\ sync'[s].with = sync[s].with
              /\ sync[s].with \in Partner
           \/ \A n \in sync'[s].got : IsPulled(DOMAIN matters', excused', sync'[s].with, n)
  PROVE  AnswersArePulled' /\ NothingIsMissedSilently'
<1>1. \A p \in Partner : \A n : IsPulled(DOMAIN matters, excused, p, n) => IsPulled(DOMAIN matters', excused', p, n)
  BY DEF IsPulled
<1>2. NothingIsMissedSilently'
  BY <1>1 DEF ExchangeInv, NothingIsMissedSilently, IsPulled, Here
<1>3. ASSUME NEW s \in Sync, sync'[s].at \in {"pushing", "sending"}, NEW n \in sync'[s].got
      PROVE  IsPulled(DOMAIN matters', excused', sync'[s].with, n)
  <2>1. CASE \A m \in sync'[s].got : IsPulled(DOMAIN matters', excused', sync'[s].with, m)
    BY <1>3, <2>1
  <2>2. CASE /\ sync[s].at \in {"pushing", "sending"}
             /\ sync'[s].got = sync[s].got /\ sync'[s].with = sync[s].with
             /\ sync[s].with \in Partner
    <3>1. IsPulled(DOMAIN matters, excused, sync[s].with, n)
      BY <1>3, <2>2 DEF ExchangeInv, AnswersArePulled
    <3>2. QED
      BY <1>1, <2>2, <3>1
  <2>3. QED
    BY <1>3, <2>1, <2>2
<1>4. QED
  BY <1>2, <1>3 DEF AnswersArePulled

LEMMA MattersAreOpenedAndClosed ==
  ASSUME ExchangeInv,
         (\E n \in Own : OpenMatter(n)) \/ (\E n \in DOMAIN matters : CloseMatter(n))
  PROVE  ExchangeInv'
<1>1. UNCHANGED <<remote, changed, pushed, sync, excused, repeats>>
  BY DEF OpenMatter, CloseMatter
<1>2. /\ DOMAIN matters \subseteq DOMAIN matters' /\ DOMAIN matters' \subseteq GivenHere
      /\ IsFiniteSet(DOMAIN matters') /\ Range(matters') \subseteq {"open", "closed"}
  <2>1. /\ DOMAIN matters \subseteq GivenHere /\ IsFiniteSet(DOMAIN matters)
        /\ \A n \in DOMAIN matters : matters[n] \in {"open", "closed"}
    BY DEF ExchangeInv, ExchangeShape, Range
  <2>2. ASSUME NEW n \in Own, OpenMatter(n)
        PROVE  /\ DOMAIN matters' = DOMAIN matters \cup {<<n>>}
               /\ \A k \in DOMAIN matters' : matters'[k] \in {"open", "closed"}
    BY <2>1, <2>2 DEF OpenMatter, With, Here
  <2>3. ASSUME NEW n \in DOMAIN matters, CloseMatter(n)
        PROVE  /\ DOMAIN matters' = DOMAIN matters
               /\ \A k \in DOMAIN matters' : matters'[k] \in {"open", "closed"}
    BY <2>1, <2>3 DEF CloseMatter
  <2>4. \A n \in Own : IsFiniteSet(DOMAIN matters \cup {<<n>>})
    BY <2>1, FS_AddElement
  <2>5. QED
    BY <2>1, <2>2, <2>3, <2>4, OwnAreGivenHere DEF Range
<1>3. ExchangeShape'
  BY <1>1, <1>2 DEF ExchangeInv, ExchangeShape
<1>4. CopiesAreAccounted'
  BY <1>1, CopiesStay
<1>5. AnswersArePulled' /\ NothingIsMissedSilently'
  <2>1. \A s \in Sync : sync[s].with \in Partner
    BY DEF ExchangeInv, ExchangeShape, SyncShape
  <2>2. QED
    BY <1>1, <1>2, <2>1, NothingIsLost
<1>6. QED
  BY <1>3, <1>4, <1>5 DEF ExchangeInv

LEMMA RecordsAreOpened ==
  ASSUME ExchangeInv, NEW p \in Partner, NEW f \in Foreign, OpenRecord(p, f)
  PROVE  ExchangeInv'
<1> DEFINE n == <<f>>
<1>1. n \in Given /\ n \notin GivenHere
  BY DEF Given, GivenHere, Number
<1>2. /\ n \notin DOMAIN remote[p] /\ UNCHANGED <<matters, pushed, sync, excused, repeats>>
      /\ remote' = [remote EXCEPT ![p] = OneMore(@, n)]
      /\ changed' = [changed EXCEPT ![p] = @ \cup {n}]
  BY DEF OpenRecord
<1> HIDE DEF n
<1>3. /\ DOMAIN remote = Partner /\ \A q \in Partner : IsCount(remote[q]) /\ IsCount(repeats[q])
      /\ changed \in [Partner -> SUBSET Given] /\ \A q \in Partner : IsFiniteSet(changed[q])
      /\ sync \in [Sync -> SyncShape]
      /\ \A s \in Sync : sync[s].at = "sending" => sync[s].todo # <<>>
  BY DEF ExchangeInv, ExchangeShape
<1>4. /\ DOMAIN remote' = Partner /\ remote'[p] = OneMore(remote[p], n)
      /\ \A q \in Partner : q # p => remote'[q] = remote[q]
      /\ changed'[p] = changed[p] \cup {n}
      /\ \A q \in Partner : q # p => changed'[q] = changed[q]
      /\ changed' \in [Partner -> SUBSET Given]
  BY <1>1, <1>2, <1>3
<1>5. /\ DOMAIN remote'[p] = DOMAIN remote[p] \cup {n}
      /\ IsCount(remote'[p])
      /\ CountOf(remote'[p], n) = CountOf(remote[p], n) + 1
      /\ \A k : k # n => CountOf(remote'[p], k) = CountOf(remote[p], k)
  <2>1. IsCount(remote[p])
    BY <1>3
  <2>2. /\ DOMAIN OneMore(remote[p], n) = DOMAIN remote[p] \cup {n}
        /\ IsCount(OneMore(remote[p], n))
        /\ CountOf(OneMore(remote[p], n), n) = CountOf(remote[p], n) + 1
        /\ \A k : k # n => CountOf(OneMore(remote[p], n), k) = CountOf(remote[p], k)
    BY <2>1, OneIsCounted, Zenon
  <2>3. QED
    BY <1>4, <2>2, Zenon
<1>6. ExchangeShape'
  <2>1. IsFiniteSet(changed[p] \cup {n})
    BY <1>3, FS_AddElement
  <2>2. IsFiniteSet(DOMAIN remote'[p])
    <3>1. IsFiniteSet(DOMAIN remote[p])
      BY DEF ExchangeInv, ExchangeShape
    <3>2. QED
      BY <1>5, <3>1, FS_AddElement
  <2>3. \A q \in Partner : /\ IsFiniteSet(changed'[q])
                          /\ DOMAIN remote'[q] \subseteq Given /\ IsFiniteSet(DOMAIN remote'[q])
                          /\ IsCount(remote'[q])
    BY <1>1, <1>3, <1>4, <1>5, <2>1, <2>2 DEF ExchangeInv, ExchangeShape
  <2>4. QED
    BY <1>2, <1>4, <2>3 DEF ExchangeInv, ExchangeShape
<1>7. Flying(sync, p, n) = {}
  <2>1. \A s \in Sync : sync[s].at = "sending" => Head(sync[s].todo) \in GivenHere
    BY <1>3, TodoIsGivenHere
  <2>2. QED
    BY <1>1, <2>1 DEF Flying, Flies
<1>8. ASSUME NEW q \in Partner, NEW k \in Given
      PROVE  IsAccounted(CountOf(remote'[q], k), Flying(sync, q, k), CountOf(repeats[q], k), k \in pushed[q], k)
  <2>1. CASE q = p /\ k = n
    <3>1. CountOf(remote[p], n) = 0
      BY <1>2 DEF CountOf
    <3>2. CountOf(remote'[p], n) = 1
      BY <1>5, <3>1
    <3>3. CountOf(repeats[p], n) \in Nat
      BY <1>3, CountsAreNumbers
    <3>4. QED
      BY <1>1, <1>7, <2>1, <3>2, <3>3, FS_EmptySet DEF IsAccounted
  <2>2. CASE ~(q = p /\ k = n)
    <3>1. CountOf(remote'[q], k) = CountOf(remote[q], k)
      BY <1>4, <1>5, <2>2
    <3>2. QED
      BY <3>1 DEF ExchangeInv, CopiesAreAccounted
  <2>3. QED
    BY <2>1, <2>2
<1>9. CopiesAreAccounted'
  BY <1>2, <1>8 DEF CopiesAreAccounted
<1>10. AnswersArePulled' /\ NothingIsMissedSilently'
  <2>1. \A s \in Sync : sync[s].with \in Partner
    BY <1>3 DEF SyncShape
  <2>2. ASSUME NEW q \in Partner, NEW k \in DOMAIN remote'[q] \ changed'[q]
        PROVE  k \in DOMAIN remote[q] \ changed[q]
    BY <1>4, <1>5, <2>2
  <2>3. QED
    BY <1>2, <2>1, <2>2, NothingIsLost
<1>11. QED
  BY <1>6, <1>9, <1>10 DEF ExchangeInv

LEMMA RecordsAreChanged ==
  ASSUME ExchangeInv, NEW p \in Partner, NEW n \in DOMAIN remote[p], ChangeRecord(p, n)
  PROVE  ExchangeInv'
<1>1. /\ UNCHANGED <<matters, remote, pushed, sync, excused, repeats>>
      /\ changed' = [changed EXCEPT ![p] = @ \cup {n}]
  BY DEF ChangeRecord
<1>2. n \in Given /\ changed \in [Partner -> SUBSET Given] /\ \A q \in Partner : IsFiniteSet(changed[q])
  BY DEF ExchangeInv, ExchangeShape
<1>3. /\ changed'[p] = changed[p] \cup {n}
      /\ \A q \in Partner : q # p => changed'[q] = changed[q]
      /\ changed' \in [Partner -> SUBSET Given]
  BY <1>1, <1>2
<1>4. IsFiniteSet(changed[p] \cup {n})
  BY <1>2, FS_AddElement
<1>5. ExchangeShape'
  BY <1>1, <1>2, <1>3, <1>4 DEF ExchangeInv, ExchangeShape
<1>6. CopiesAreAccounted'
  BY <1>1, CopiesStay
<1>7. AnswersArePulled' /\ NothingIsMissedSilently'
  <2>1. \A s \in Sync : sync[s].with \in Partner
    BY DEF ExchangeInv, ExchangeShape, SyncShape
  <2>2. ASSUME NEW q \in Partner, NEW k \in DOMAIN remote'[q] \ changed'[q]
        PROVE  k \in DOMAIN remote[q] \ changed[q]
    BY <1>1, <1>3, <2>2
  <2>3. QED
    BY <1>1, <2>1, <2>2, NothingIsLost
<1>8. QED
  BY <1>5, <1>6, <1>7 DEF ExchangeInv

-----------------------------------------------------------------------------

(* One sync goes on: its posts, and those of the others.                   *)
LEMMA OneSyncGoesOn ==
  ASSUME ExchangeInv, NEW s \in Sync, NEW r \in SyncShape, IsFiniteSet(r.got),
         r.at = "sending" => r.todo # <<>>,
         sync' = [sync EXCEPT ![s] = r]
  PROVE  /\ sync' \in [Sync -> SyncShape]
         /\ \A t \in Sync : /\ IsFiniteSet(sync'[t].got)
                            /\ sync'[t].at = "sending" => sync'[t].todo # <<>>
         /\ sync'[s] = r /\ \A t \in Sync : t # s => sync'[t] = sync[t]
         /\ \A q, k : Flying(sync', q, k) = IF Flies(r, q, k) THEN Flying(sync, q, k) \cup {s}
                                           ELSE Flying(sync, q, k) \ {s}
<1>1. /\ sync \in [Sync -> SyncShape]
      /\ \A t \in Sync : /\ IsFiniteSet(sync[t].got)
                         /\ sync[t].at = "sending" => sync[t].todo # <<>>
  BY DEF ExchangeInv, ExchangeShape
<1>2. /\ sync' \in [Sync -> SyncShape]
      /\ sync'[s] = r /\ \A t \in Sync : t # s => sync'[t] = sync[t]
  BY <1>1
<1>3. ASSUME NEW q, NEW k
      PROVE  Flying(sync', q, k) = IF Flies(r, q, k) THEN Flying(sync, q, k) \cup {s}
                                   ELSE Flying(sync, q, k) \ {s}
  <2>1. \A t \in Sync : t # s => (Flies(sync'[t], q, k) <=> Flies(sync[t], q, k))
    BY <1>2
  <2>2. Flies(sync'[s], q, k) <=> Flies(r, q, k)
    BY <1>2
  <2>3. QED
    BY <2>1, <2>2 DEF Flying
<1>4. \A t \in Sync : /\ IsFiniteSet(sync'[t].got)
                      /\ sync'[t].at = "sending" => sync'[t].todo # <<>>
  BY <1>1, <1>2
<1>5. QED
  BY <1>2, <1>3, <1>4

LEMMA SyncsAreTyped ==
  ASSUME ExchangeInv, NEW s \in Sync
  PROVE  /\ sync[s] \in SyncShape /\ sync[s].with \in Partner
         /\ sync[s].got \subseteq Given /\ IsFiniteSet(sync[s].got)
         /\ sync[s].todo \in Seq(GivenHere)
         /\ sync[s].at = "sending" => sync[s].todo # <<>>
BY DEF ExchangeInv, ExchangeShape, SyncShape

LEMMA SyncsStart ==
  ASSUME ExchangeInv, NEW s \in Sync, NEW p \in Partner, StartSync(s, p)
  PROVE  ExchangeInv'
<1>0. PICK got \in {changed[p], DOMAIN remote[p]} :
        sync' = [sync EXCEPT ![s] = [at |-> "pulling", with |-> p, got |-> got, todo |-> <<>>]]
  BY DEF StartSync
<1> DEFINE r == [at |-> "pulling", with |-> p, got |-> got, todo |-> <<>>]
<1>1. /\ sync[s].at = "idle" /\ sync' = [sync EXCEPT ![s] = r]
      /\ UNCHANGED <<matters, remote, changed, pushed, excused, repeats>>
  BY <1>0 DEF StartSync
<1>2. r \in SyncShape /\ IsFiniteSet(r.got) /\ r.at = "pulling"
  <2>1. <<>> \in Seq(GivenHere)
    BY EmptySeq
  <2>2. got \in SUBSET Given /\ IsFiniteSet(got)
    BY <1>0 DEF ExchangeInv, ExchangeShape
  <2>3. QED
    BY <2>1, <2>2 DEF SyncShape
<1> HIDE DEF r
<1>3. /\ sync' \in [Sync -> SyncShape]
      /\ \A t \in Sync : /\ IsFiniteSet(sync'[t].got)
                         /\ sync'[t].at = "sending" => sync'[t].todo # <<>>
      /\ sync'[s] = r /\ \A t \in Sync : t # s => sync'[t] = sync[t]
      /\ \A q, k : Flying(sync', q, k) = IF Flies(r, q, k) THEN Flying(sync, q, k) \cup {s}
                                        ELSE Flying(sync, q, k) \ {s}
  BY <1>1, <1>2, OneSyncGoesOn
<1>4. ExchangeShape'
  BY <1>1, <1>3 DEF ExchangeInv, ExchangeShape
<1>5. CopiesAreAccounted'
  <2>1. \A q, k : ~Flies(r, q, k) /\ s \notin Flying(sync, q, k)
    BY <1>1, <1>2 DEF Flies, Flying
  <2>2. ASSUME NEW q, NEW k PROVE Flying(sync', q, k) = Flying(sync, q, k)
    <3>1. Flying(sync', q, k) = Flying(sync, q, k) \ {s}
      BY <1>3, <2>1
    <3>2. s \notin Flying(sync, q, k)
      BY <2>1
    <3>3. QED
      BY <3>1, <3>2
  <2>3. QED
    BY <1>1, <2>2, CopiesStay
<1>6. AnswersArePulled' /\ NothingIsMissedSilently'
  <2>1. \A t \in Sync : sync[t].with \in Partner
    BY SyncsAreTyped
  <2>2. \A t \in Sync : sync'[t].at \in {"pushing", "sending"} => sync'[t] = sync[t]
    BY <1>2, <1>3
  <2>3. QED
    BY <1>1, <2>1, <2>2, NothingIsLost
<1>7. QED
  BY <1>4, <1>5, <1>6 DEF ExchangeInv

(* A pull: what was told of and was not here is, or is excused.            *)
LEMMA PullsGoOn ==
  ASSUME ExchangeInv, NEW s \in Sync, NEW inserted, PullMatters(s, inserted)
  PROVE  ExchangeInv'
<1> DEFINE p == sync[s].with
           new == ToInsert(p, sync[s].got)
           added == {Local(p, n) : n \in inserted}
           now == With(added, "open")
           open == {n \in DOMAIN now : now[n] = "open" /\ ~CameFrom(p, n)}
<1>1. /\ sync[s].at = "pulling" /\ inserted \subseteq new /\ matters' = now
      /\ UNCHANGED <<remote, changed, pushed, repeats>>
      /\ \/ inserted = new /\ excused' = excused
         \/ excused' = [excused EXCEPT ![p] = @ \cup (new \ inserted)]
  BY DEF PullMatters
<1>2. PICK todo \in SetToSeqs(open) : sync' = [sync EXCEPT ![s].at = "pushing", ![s].todo = todo]
  BY DEF PullMatters
<1>3. /\ sync[s] \in SyncShape /\ p \in Partner
      /\ sync[s].got \subseteq Given /\ IsFiniteSet(sync[s].got)
      /\ new \subseteq sync[s].got
      /\ \A n \in sync[s].got : n \in new \/ Local(p, n) \in DOMAIN matters
  BY SyncsAreTyped DEF ToInsert, Here
<1> HIDE DEF new
<1>4. /\ added \subseteq GivenHere /\ IsFiniteSet(added)
  <2>1. added \subseteq GivenHere
    BY <1>1, <1>3, PrefixedAreGivenHere
  <2>2. IsFiniteSet(inserted)
    BY <1>1, <1>3, FS_Subset
  <2> DEFINE g == [n \in inserted |-> Local(p, n)]
  <2>3. g \in Surjection(inserted, added)
    BY DEF Surjection
  <2>4. QED
    BY <2>1, <2>2, <2>3, FS_Surjection
<1> HIDE DEF added
<1>5. /\ DOMAIN matters \subseteq GivenHere /\ IsFiniteSet(DOMAIN matters)
      /\ \A n \in DOMAIN matters : matters[n] \in {"open", "closed"}
      /\ excused \in [Partner -> SUBSET Given]
  BY DEF ExchangeInv, ExchangeShape, Range
<1>6. /\ DOMAIN now = DOMAIN matters \cup added
      /\ \A n \in DOMAIN now : now[n] \in {"open", "closed"}
  BY <1>5 DEF With, Here
<1>7. IsFiniteSet(DOMAIN now) /\ DOMAIN now \subseteq GivenHere
  BY <1>4, <1>5, <1>6, FS_Union
<1> HIDE DEF now
<1>8. todo \in Seq(GivenHere)
  <2>1. open \subseteq GivenHere /\ IsFiniteSet(open)
    BY <1>7, FS_Subset
  <2> HIDE DEF open
  <2>2. QED
    BY <1>2, <2>1, OrdersAreSequences
<1> DEFINE r == [sync[s] EXCEPT !.at = "pushing", !.todo = todo]
<1>9. /\ r \in SyncShape /\ r.at = "pushing" /\ r.got = sync[s].got /\ r.with = p
      /\ sync' = [sync EXCEPT ![s] = r]
  BY <1>2, <1>3, <1>8 DEF SyncShape
<1> HIDE DEF r
<1>10. /\ sync' \in [Sync -> SyncShape]
       /\ \A t \in Sync : /\ IsFiniteSet(sync'[t].got)
                          /\ sync'[t].at = "sending" => sync'[t].todo # <<>>
       /\ sync'[s] = r /\ \A t \in Sync : t # s => sync'[t] = sync[t]
       /\ \A q, k : Flying(sync', q, k) = IF Flies(r, q, k) THEN Flying(sync, q, k) \cup {s}
                                         ELSE Flying(sync, q, k) \ {s}
  BY <1>3, <1>9, OneSyncGoesOn
<1>11. /\ excused' \in [Partner -> SUBSET Given]
       /\ \A q \in Partner : excused[q] \subseteq excused'[q]
       /\ new \ inserted \subseteq excused'[p]
  BY <1>1, <1>3, <1>5
<1>12. ExchangeShape'
  <2>1. Range(matters') \subseteq {"open", "closed"}
    BY <1>1, <1>6 DEF Range
  <2>2. QED
    BY <1>1, <1>7, <1>10, <1>11, <2>1 DEF ExchangeInv, ExchangeShape
<1>13. CopiesAreAccounted'
  <2>1. \A q, k : ~Flies(r, q, k) /\ s \notin Flying(sync, q, k)
    BY <1>1, <1>9 DEF Flies, Flying
  <2>2. ASSUME NEW q, NEW k PROVE Flying(sync', q, k) = Flying(sync, q, k)
    <3>1. Flying(sync', q, k) = Flying(sync, q, k) \ {s}
      BY <1>10, <2>1
    <3>2. s \notin Flying(sync, q, k)
      BY <2>1
    <3>3. QED
      BY <3>1, <3>2
  <2>3. QED
    BY <1>1, <2>2, CopiesStay
<1>14. AnswersArePulled' /\ NothingIsMissedSilently'
  <2>1. \A n \in r.got : IsPulled(DOMAIN matters', excused', r.with, n)
    <3>1. ASSUME NEW n \in sync[s].got PROVE Local(p, n) \in DOMAIN now \/ n \in excused'[p]
      <4>1. CASE n \in inserted
        BY <1>6, <4>1 DEF added
      <4>2. CASE n \in new \ inserted
        BY <1>11, <4>2
      <4>3. CASE Local(p, n) \in DOMAIN matters
        BY <1>6, <4>3
      <4>4. QED
        BY <1>3, <4>1, <4>2, <4>3
    <3>2. QED
      BY <1>1, <1>9, <3>1 DEF IsPulled
  <2>2. ASSUME NEW t \in Sync, sync'[t].at \in {"pushing", "sending"}
        PROVE  \/ /\ sync[t].at \in {"pushing", "sending"}
                  /\ sync'[t].got = sync[t].got /\ sync'[t].with = sync[t].with
                  /\ sync[t].with \in Partner
               \/ \A n \in sync'[t].got : IsPulled(DOMAIN matters', excused', sync'[t].with, n)
    BY <1>10, <2>1, <2>2, SyncsAreTyped
  <2>3. DOMAIN matters \subseteq DOMAIN matters'
    BY <1>1, <1>6
  <2>4. \A q \in Partner : \A n \in DOMAIN remote'[q] \ changed'[q] :
           n \in DOMAIN remote[q] \ changed[q] \/ IsPulled(DOMAIN matters', excused', q, n)
    BY <1>1
  <2>5. QED
    BY <1>11, <2>2, <2>3, <2>4, NothingIsLost
<1>15. QED
  BY <1>12, <1>13, <1>14 DEF ExchangeInv

(* The posts that are under way, where a sync that was not posting before  *)
(* begins, or goes on without.                                             *)
LEMMA PostsGoOn == ASSUME ExchangeInv, NEW s \in Sync, Post(s) PROVE ExchangeInv'
<1> DEFINE p == sync[s].with
           n == Head(sync[s].todo)
<1>1. /\ sync[s].at = "pushing" /\ sync[s].todo # <<>>
      /\ UNCHANGED <<matters, remote, changed, pushed, excused>>
  BY DEF Post
<1>2. /\ sync[s] \in SyncShape /\ p \in Partner /\ IsFiniteSet(sync[s].got)
      /\ n \in GivenHere /\ n \in Given /\ Tail(sync[s].todo) \in Seq(GivenHere)
  BY <1>1, SyncsAreTyped, TodoIsGivenHere DEF GivenHere
<1> DEFINE sent == [sync[s] EXCEPT !.at = "sending"]
           skipped == [sync[s] EXCEPT !.todo = Tail(@)]
<1>3. /\ sent \in SyncShape /\ sent.at = "sending" /\ sent.todo = sync[s].todo
      /\ sent.got = sync[s].got /\ sent.with = p
  BY <1>2 DEF SyncShape
<1>4. /\ skipped \in SyncShape /\ skipped.at = "pushing"
      /\ skipped.got = sync[s].got /\ skipped.with = p
  BY <1>1, <1>2 DEF SyncShape
<1> DEFINE IsRepeat == InFlight(p, n) \/ ~IsToSend(p, n)
<1>5. \/ /\ sync' = [sync EXCEPT ![s] = sent]
         /\ repeats' = IF IsRepeat THEN [repeats EXCEPT ![p] = OneMore(@, n)] ELSE repeats
      \/ sync' = [sync EXCEPT ![s] = skipped] /\ repeats' = repeats
  BY DEF Post
<1> HIDE DEF sent, skipped, IsRepeat
<1>6. PICK r \in {sent, skipped} :
        /\ sync' = [sync EXCEPT ![s] = r]
        /\ \/ /\ r = sent
              /\ repeats' = IF IsRepeat THEN [repeats EXCEPT ![p] = OneMore(@, n)] ELSE repeats
           \/ r = skipped /\ repeats' = repeats
  BY <1>5
<1>7. /\ r \in SyncShape /\ IsFiniteSet(r.got)
      /\ r.at = "sending" => r.todo # <<>>
      /\ r.got = sync[s].got /\ r.with = p
  BY <1>1, <1>2, <1>3, <1>4
<1>8. /\ sync' \in [Sync -> SyncShape]
      /\ \A t \in Sync : /\ IsFiniteSet(sync'[t].got)
                         /\ sync'[t].at = "sending" => sync'[t].todo # <<>>
      /\ sync'[s] = r /\ \A t \in Sync : t # s => sync'[t] = sync[t]
      /\ \A q, k : Flying(sync', q, k) = IF Flies(r, q, k) THEN Flying(sync, q, k) \cup {s}
                                        ELSE Flying(sync, q, k) \ {s}
  BY <1>6, <1>7, OneSyncGoesOn
<1>9. /\ DOMAIN repeats = Partner /\ \A q \in Partner : IsCount(repeats[q]) /\ DOMAIN repeats[q] \subseteq Given
      /\ \A q \in Partner : IsCount(remote[q])
  BY DEF ExchangeInv, ExchangeShape
<1>10. /\ DOMAIN OneMore(repeats[p], n) = DOMAIN repeats[p] \cup {n}
       /\ IsCount(OneMore(repeats[p], n))
       /\ CountOf(OneMore(repeats[p], n), n) = CountOf(repeats[p], n) + 1
       /\ \A k : k # n => CountOf(OneMore(repeats[p], n), k) = CountOf(repeats[p], k)
  BY <1>2, <1>9, OneIsCounted
<1>11. /\ DOMAIN repeats' = Partner
       /\ \A q \in Partner : repeats'[q] = repeats[q] \/ (q = p /\ repeats'[q] = OneMore(repeats[p], n))
  BY <1>2, <1>6, <1>9
<1>12. ExchangeShape'
  <2>1. \A q \in Partner : IsCount(repeats'[q]) /\ DOMAIN repeats'[q] \subseteq Given
    BY <1>2, <1>9, <1>10, <1>11
  <2>2. QED
    BY <1>1, <1>8, <1>11, <2>1 DEF ExchangeInv, ExchangeShape
<1>13. s \notin Flying(sync, p, n) /\ \A q, k : s \notin Flying(sync, q, k)
  BY <1>1 DEF Flying, Flies
<1>14. ASSUME NEW q \in Partner, NEW k \in Given
       PROVE  IsAccounted(CountOf(remote[q], k), Flying(sync', q, k), CountOf(repeats'[q], k), k \in pushed[q], k)
  <2>1. IsAccounted(CountOf(remote[q], k), Flying(sync, q, k), CountOf(repeats[q], k), k \in pushed[q], k)
    BY DEF ExchangeInv, CopiesAreAccounted
  <2>2. CASE r = sent /\ q = p /\ k = n
    <3>1. Flying(sync', p, n) = Flying(sync, p, n) \cup {s}
      BY <1>3, <1>4, <1>6, <1>8, <2>2 DEF Flies
    <3>2. /\ Cardinality(Flying(sync', p, n)) = Cardinality(Flying(sync, p, n)) + 1
          /\ Cardinality(Flying(sync, p, n)) \in Nat
      BY <1>13, <3>1, FlightsAreCounted, FS_AddElement
    <3>3. CountOf(remote[p], n) \in Nat /\ CountOf(repeats[p], n) \in Nat
      BY <1>2, <1>9, CountsAreNumbers
    <3>4. CASE IsRepeat
      <4>1. CountOf(repeats'[p], n) = CountOf(repeats[p], n) + 1
        BY <1>2, <1>3, <1>4, <1>6, <1>9, <1>10, <2>2, <3>4
      <4>2. Flying(sync', p, n) # {}
        BY <3>1
      <4>3. QED
        BY <2>1, <2>2, <3>2, <3>3, <4>1, <4>2 DEF IsAccounted
    <3>5. CASE ~IsRepeat
      <4>1. Flying(sync, p, n) = {} /\ n \notin pushed[p]
        BY <3>5 DEF IsRepeat, IsToSend, InFlight, Flying, Flies
      <4>2. CountOf(remote[p], n) <= CountOf(repeats[p], n) /\ Cardinality(Flying(sync, p, n)) = 0
        BY <1>2, <2>1, <2>2, <3>1, <4>1, FS_EmptySet DEF IsAccounted
      <4>3. repeats' = repeats /\ Flying(sync', p, n) # {}
        BY <1>3, <1>4, <1>6, <2>2, <3>1, <3>5
      <4>4. QED
        BY <2>2, <3>2, <3>3, <4>2, <4>3 DEF IsAccounted
    <3>6. QED
      BY <3>4, <3>5
  <2>3. CASE ~(r = sent /\ q = p /\ k = n)
    <3>1. ~Flies(r, q, k)
      BY <1>3, <1>4, <1>6, <1>7, <2>3 DEF Flies
    <3>2. Flying(sync', q, k) = Flying(sync, q, k) \ {s}
      BY <1>8, <3>1
    <3>3. Flying(sync', q, k) = Flying(sync, q, k)
      BY <1>13, <3>2
    <3>4. CountOf(repeats'[q], k) = CountOf(repeats[q], k)
      BY <1>6, <1>10, <1>11, <2>3
    <3>5. QED
      BY <2>1, <3>3, <3>4
  <2>4. QED
    BY <2>2, <2>3
<1>15. CopiesAreAccounted'
  BY <1>1, <1>14 DEF CopiesAreAccounted
<1>16. AnswersArePulled' /\ NothingIsMissedSilently'
  <2>1. ASSUME NEW t \in Sync, sync'[t].at \in {"pushing", "sending"}
        PROVE  /\ sync[t].at \in {"pushing", "sending"}
               /\ sync'[t].got = sync[t].got /\ sync'[t].with = sync[t].with
               /\ sync[t].with \in Partner
    BY <1>1, <1>7, <1>8, <2>1, SyncsAreTyped
  <2>2. QED
    BY <1>1, <2>1, NothingIsLost
<1>17. QED
  BY <1>12, <1>15, <1>16 DEF ExchangeInv

(* A sync ends: what changed under it is excused.                          *)
LEMMA SyncsFinish == ASSUME ExchangeInv, NEW s \in Sync, Finish(s) PROVE ExchangeInv'
<1> DEFINE p == sync[s].with
<1>1. /\ sync[s].at = "pushing"
      /\ \/ UNCHANGED <<changed, excused>>
         \/ /\ changed' = [changed EXCEPT ![p] = {}]
            /\ excused' = [excused EXCEPT ![p] = @ \cup (changed[p] \ sync[s].got)]
      /\ sync' = [sync EXCEPT ![s] = Idle]
      /\ UNCHANGED <<matters, remote, pushed, repeats>>
  BY DEF Finish
<1>2. p \in Partner
  BY SyncsAreTyped
<1>3. Idle \in SyncShape /\ Idle.at = "idle" /\ IsFiniteSet(Idle.got)
  <2>1. (CHOOSE q \in Partner : TRUE) \in Partner
    BY ExchangeAssumption
  <2>2. <<>> \in Seq(GivenHere)
    BY EmptySeq
  <2>3. QED
    BY <2>1, <2>2, FS_EmptySet DEF Idle, SyncShape
<1>4. /\ sync' \in [Sync -> SyncShape]
      /\ \A t \in Sync : /\ IsFiniteSet(sync'[t].got)
                         /\ sync'[t].at = "sending" => sync'[t].todo # <<>>
      /\ sync'[s] = Idle /\ \A t \in Sync : t # s => sync'[t] = sync[t]
      /\ \A q, k : Flying(sync', q, k) = IF Flies(Idle, q, k) THEN Flying(sync, q, k) \cup {s}
                                        ELSE Flying(sync, q, k) \ {s}
  BY <1>1, <1>3, OneSyncGoesOn
<1>5. /\ changed \in [Partner -> SUBSET Given] /\ excused \in [Partner -> SUBSET Given]
      /\ \A q \in Partner : IsFiniteSet(changed[q])
  BY DEF ExchangeInv, ExchangeShape
<1>6. /\ changed'[p] \in {{}, changed[p]} /\ \A q \in Partner : q # p => changed'[q] = changed[q]
      /\ \/ UNCHANGED <<changed, excused>>
         \/ excused'[p] = excused[p] \cup (changed[p] \ sync[s].got)
      /\ \A q \in Partner : q # p => excused'[q] = excused[q]
      /\ changed' \in [Partner -> SUBSET Given] /\ excused' \in [Partner -> SUBSET Given]
  BY <1>1, <1>2, <1>5
<1>7. ExchangeShape'
  <2>1. \A q \in Partner : IsFiniteSet(changed'[q])
    BY <1>5, <1>6, FS_EmptySet
  <2>2. QED
    BY <1>1, <1>4, <1>6, <2>1 DEF ExchangeInv, ExchangeShape
<1>8. CopiesAreAccounted'
  <2>1. \A q, k : ~Flies(Idle, q, k) /\ s \notin Flying(sync, q, k)
    BY <1>1, <1>3 DEF Flies, Flying
  <2>2. ASSUME NEW q, NEW k PROVE Flying(sync', q, k) = Flying(sync, q, k)
    <3>1. Flying(sync', q, k) = Flying(sync, q, k) \ {s}
      BY <1>4, <2>1
    <3>2. s \notin Flying(sync, q, k)
      BY <2>1
    <3>3. QED
      BY <3>1, <3>2
  <2>3. QED
    BY <1>1, <2>2, CopiesStay
<1>9. AnswersArePulled' /\ NothingIsMissedSilently'
  <2>1. \A n \in sync[s].got : IsPulled(DOMAIN matters, excused, p, n)
    BY <1>1 DEF ExchangeInv, AnswersArePulled
  <2>2. ASSUME NEW q \in Partner, NEW n \in DOMAIN remote'[q] \ changed'[q]
        PROVE  n \in DOMAIN remote[q] \ changed[q] \/ IsPulled(DOMAIN matters', excused', q, n)
    <3>0. CASE UNCHANGED <<changed, excused>>
      BY <1>1, <2>2, <3>0
    <3>1. CASE q # p \/ n \notin changed[p]
      BY <1>1, <1>6, <2>2, <3>1
    <3>2. CASE q = p /\ n \in changed[p] \ sync[s].got
      BY <1>6, <2>2, <3>0, <3>2 DEF IsPulled
    <3>3. CASE q = p /\ n \in sync[s].got
      BY <1>1, <1>6, <2>1, <3>3 DEF IsPulled
    <3>4. QED
      BY <3>0, <3>1, <3>2, <3>3
  <2>3. \A t \in Sync : sync'[t].at \in {"pushing", "sending"} => sync'[t] = sync[t] /\ sync[t].with \in Partner
    BY <1>3, <1>4, SyncsAreTyped
  <2>4. \A q \in Partner : excused[q] \subseteq excused'[q]
    BY <1>6
  <2>5. QED
    BY <1>1, <2>2, <2>3, <2>4, NothingIsLost
<1>10. QED
  BY <1>7, <1>8, <1>9 DEF ExchangeInv

(* An answer, or none: one post less is under way, and there may be one    *)
(* record more, which is noted or counts as repeated.                      *)
LEMMA AnswersGoOn ==
  ASSUME ExchangeInv, NEW s \in Sync, NEW taken \in BOOLEAN, NEW noted \in BOOLEAN,
         Answer(s, taken, noted)
  PROVE  ExchangeInv'
<1> DEFINE p == sync[s].with
           n == Head(sync[s].todo)
           more == OneMore(remote[p], n)
           again == OneMore(repeats[p], n)
<1>1. /\ sync[s].at = "sending"
      /\ noted => taken
      /\ UNCHANGED <<matters, excused>>
  BY DEF Answer
<1>2. /\ sync[s] \in SyncShape /\ p \in Partner /\ IsFiniteSet(sync[s].got)
      /\ n \in GivenHere /\ n \in Given /\ Tail(sync[s].todo) \in Seq(GivenHere)
  BY <1>1, SyncsAreTyped, TodoIsGivenHere DEF GivenHere
<1> DEFINE r == [sync[s] EXCEPT !.at = "pushing", !.todo = Tail(@)]
<1>3. r \in SyncShape /\ r.at = "pushing" /\ r.got = sync[s].got /\ r.with = p
  BY <1>2 DEF SyncShape
<1>4. sync' = [sync EXCEPT ![s] = r]
  BY DEF Answer
<1> HIDE DEF r
<1>5. /\ sync' \in [Sync -> SyncShape]
      /\ \A t \in Sync : /\ IsFiniteSet(sync'[t].got)
                         /\ sync'[t].at = "sending" => sync'[t].todo # <<>>
      /\ sync'[s] = r /\ \A t \in Sync : t # s => sync'[t] = sync[t]
      /\ \A q, k : Flying(sync', q, k) = IF Flies(r, q, k) THEN Flying(sync, q, k) \cup {s}
                                        ELSE Flying(sync, q, k) \ {s}
  BY <1>2, <1>3, <1>4, OneSyncGoesOn
<1>6. /\ DOMAIN remote = Partner /\ DOMAIN repeats = Partner
      /\ \A q \in Partner : /\ IsCount(remote[q]) /\ DOMAIN remote[q] \subseteq Given
                            /\ IsCount(repeats[q]) /\ DOMAIN repeats[q] \subseteq Given
                            /\ IsFiniteSet(changed[q])
      /\ changed \in [Partner -> SUBSET Given] /\ pushed \in [Partner -> SUBSET Given]
  BY DEF ExchangeInv, ExchangeShape
<1>7. /\ DOMAIN more = DOMAIN remote[p] \cup {n} /\ IsCount(more)
      /\ CountOf(more, n) = CountOf(remote[p], n) + 1
      /\ \A k : k # n => CountOf(more, k) = CountOf(remote[p], k)
  BY <1>2, <1>6, OneIsCounted
<1>8. /\ DOMAIN again = DOMAIN repeats[p] \cup {n} /\ IsCount(again)
      /\ CountOf(again, n) = CountOf(repeats[p], n) + 1
      /\ \A k : k # n => CountOf(again, k) = CountOf(repeats[p], k)
  BY <1>2, <1>6, OneIsCounted
<1>9. /\ repeats' = IF taken = noted THEN repeats ELSE [repeats EXCEPT ![p] = again]
      /\ remote' = IF taken THEN [remote EXCEPT ![p] = more] ELSE remote
      /\ changed' = IF taken THEN [changed EXCEPT ![p] = @ \cup {n}] ELSE changed
      /\ pushed' = IF noted THEN [pushed EXCEPT ![p] = @ \cup {n}] ELSE pushed
  BY DEF Answer
<1> HIDE DEF more, again
<1>10. /\ DOMAIN remote' = Partner /\ DOMAIN repeats' = Partner
       /\ remote'[p] = IF taken THEN more ELSE remote[p]
       /\ repeats'[p] = IF taken = noted THEN repeats[p] ELSE again
       /\ changed'[p] = IF taken THEN changed[p] \cup {n} ELSE changed[p]
       /\ pushed'[p] = IF noted THEN pushed[p] \cup {n} ELSE pushed[p]
  BY <1>2, <1>6, <1>9
<1>11. /\ \A q \in Partner : q # p => /\ remote'[q] = remote[q] /\ repeats'[q] = repeats[q]
                                     /\ changed'[q] = changed[q] /\ pushed'[q] = pushed[q]
  BY <1>2, <1>6, <1>9
<1>12. changed' \in [Partner -> SUBSET Given] /\ pushed' \in [Partner -> SUBSET Given]
  BY <1>2, <1>6, <1>9
<1>13. ExchangeShape'
  <2>1. IsFiniteSet(changed[p] \cup {n})
    BY <1>2, <1>6, FS_AddElement
  <2>2. /\ IsCount(remote'[p]) /\ DOMAIN remote'[p] \subseteq Given
        /\ IsCount(repeats'[p]) /\ DOMAIN repeats'[p] \subseteq Given /\ IsFiniteSet(changed'[p])
    BY <1>2, <1>6, <1>7, <1>8, <1>10, <2>1
  <2>3. \A q \in Partner : IsFiniteSet(DOMAIN remote'[q])
    <3>1. \A q \in Partner : IsFiniteSet(DOMAIN remote[q])
      BY DEF ExchangeInv, ExchangeShape
    <3>2. IsFiniteSet(DOMAIN remote[p] \cup {n})
      BY <1>2, <3>1, FS_AddElement
    <3>3. DOMAIN remote'[p] = IF taken THEN DOMAIN remote[p] \cup {n} ELSE DOMAIN remote[p]
      BY <1>7, <1>10
    <3>4. IsFiniteSet(DOMAIN remote'[p])
      BY <1>2, <3>1, <3>2, <3>3
    <3>5. QED
      BY <1>11, <3>1, <3>4
  <2>4. \A q \in Partner : /\ IsCount(remote'[q]) /\ DOMAIN remote'[q] \subseteq Given
                          /\ IsCount(repeats'[q]) /\ DOMAIN repeats'[q] \subseteq Given
                          /\ IsFiniteSet(changed'[q])
    BY <1>6, <1>11, <2>2
  <2>5. QED
    BY <1>1, <1>5, <1>10, <1>12, <2>3, <2>4 DEF ExchangeInv, ExchangeShape
<1>14. ASSUME NEW q \in Partner, NEW k \in Given
       PROVE  IsAccounted(CountOf(remote'[q], k), Flying(sync', q, k), CountOf(repeats'[q], k), k \in pushed'[q], k)
  <2>1. IsAccounted(CountOf(remote[q], k), Flying(sync, q, k), CountOf(repeats[q], k), k \in pushed[q], k)
    BY DEF ExchangeInv, CopiesAreAccounted
  <2>2. Flying(sync', q, k) = Flying(sync, q, k) \ {s}
    BY <1>3, <1>5 DEF Flies
  <2>3. CASE q = p /\ k = n
    <3>1. s \in Flying(sync, p, n)
      BY <1>1 DEF Flying, Flies
    <3>2. /\ Cardinality(Flying(sync', p, n)) = Cardinality(Flying(sync, p, n)) - 1
          /\ Cardinality(Flying(sync, p, n)) \in Nat
          /\ Cardinality(Flying(sync', p, n)) \in Nat
      BY <2>2, <2>3, <3>1, FlightsAreCounted, FS_RemoveElement
    <3>3. CountOf(remote[p], n) \in Nat /\ CountOf(repeats[p], n) \in Nat
      BY <1>2, <1>6, CountsAreNumbers
    <3> DEFINE f == Cardinality(Flying(sync, p, n))
               g == Cardinality(Flying(sync', p, n))
               a == CountOf(remote[p], n)
               b == CountOf(repeats[p], n)
    <3>4. a + f <= 1 + b
      BY <2>1, <2>3 DEF IsAccounted
    <3>5. Flying(sync', p, n) = {} => g = 0
      BY FS_EmptySet
    <3>6. CASE taken /\ noted
      <4>1. CountOf(remote'[p], n) = a + 1 /\ CountOf(repeats'[p], n) = b /\ n \in pushed'[p]
        BY <1>7, <1>10, <3>6
      <4>2. QED
        BY <2>3, <3>2, <3>3, <3>4, <4>1 DEF IsAccounted
    <3>7. CASE taken /\ ~noted
      <4>1. CountOf(remote'[p], n) = a + 1 /\ CountOf(repeats'[p], n) = b + 1
        BY <1>7, <1>8, <1>10, <3>7
      <4>2. a + 1 + g <= 1 + (b + 1) /\ a + 1 <= b + 1
        BY <3>2, <3>3, <3>4
      <4>3. QED
        BY <2>3, <4>1, <4>2 DEF IsAccounted
    <3>8. CASE ~taken
      <4>1. CountOf(remote'[p], n) = a /\ CountOf(repeats'[p], n) = b
        BY <1>1, <1>10, <3>8
      <4>2. a + g <= 1 + b /\ a <= b
        BY <3>2, <3>3, <3>4
      <4>3. QED
        BY <2>3, <4>1, <4>2 DEF IsAccounted
    <3>9. QED
      BY <3>6, <3>7, <3>8
  <2>4. CASE ~(q = p /\ k = n)
    <3>1. s \notin Flying(sync, q, k)
      BY <2>4 DEF Flying, Flies
    <3>2. Flying(sync', q, k) = Flying(sync, q, k)
      BY <2>2, <3>1
    <3>3. /\ CountOf(repeats'[q], k) = CountOf(repeats[q], k)
          /\ CountOf(remote'[q], k) = CountOf(remote[q], k)
          /\ k \in pushed'[q] <=> k \in pushed[q]
      BY <1>7, <1>8, <1>10, <1>11, <2>4
    <3>4. QED
      BY <2>1, <3>2, <3>3
  <2>5. QED
    BY <2>3, <2>4
<1>15. CopiesAreAccounted'
  BY <1>14 DEF CopiesAreAccounted
<1>16. AnswersArePulled' /\ NothingIsMissedSilently'
  <2>1. ASSUME NEW t \in Sync, sync'[t].at \in {"pushing", "sending"}
        PROVE  /\ sync[t].at \in {"pushing", "sending"}
               /\ sync'[t].got = sync[t].got /\ sync'[t].with = sync[t].with
               /\ sync[t].with \in Partner
    BY <1>1, <1>3, <1>5, <2>1, SyncsAreTyped
  <2>2. ASSUME NEW q \in Partner, NEW k \in DOMAIN remote'[q] \ changed'[q]
        PROVE  k \in DOMAIN remote[q] \ changed[q]
    BY <1>7, <1>10, <1>11, <2>2
  <2>3. QED
    BY <1>1, <2>1, <2>2, NothingIsLost
<1>17. QED
  BY <1>13, <1>15, <1>16 DEF ExchangeInv

(* The program stops: every post that arrived is a record and a repeat.    *)
LEMMA StopsAreSurvived == ASSUME ExchangeInv, Stop PROVE ExchangeInv'
<1> DEFINE sent(p) == {s \in Sync : sync[s].at = "sending" /\ sync[s].with = p}
<1>1. PICK arrived \in SUBSET {s \in Sync : sync[s].at = "sending"} :
        LET at(p, n) == Cardinality({s \in arrived \cap sent(p) : Head(sync[s].todo) = n})
            new(p) == {Head(sync[s].todo) : s \in arrived \cap sent(p)}
            plus(c, p) == [n \in DOMAIN c \cup new(p) |-> CountOf(c, n) + at(p, n)]
        IN /\ remote' = [p \in Partner |-> plus(remote[p], p)]
           /\ changed' = [p \in Partner |-> changed[p] \cup new(p)]
           /\ repeats' = [p \in Partner |-> plus(repeats[p], p)]
  BY DEF Stop
<1> DEFINE there(p, n) == {s \in arrived \cap sent(p) : Head(sync[s].todo) = n}
           at(p, n) == Cardinality(there(p, n))
           new(p) == {Head(sync[s].todo) : s \in arrived \cap sent(p)}
           plus(c, p) == [n \in DOMAIN c \cup new(p) |-> CountOf(c, n) + at(p, n)]
<1>2. /\ sync' = [s \in Sync |-> Idle]
      /\ UNCHANGED <<matters, pushed, excused>>
  BY DEF Stop
<1>3. Idle \in SyncShape /\ Idle.at = "idle" /\ IsFiniteSet(Idle.got)
  <2>1. (CHOOSE q \in Partner : TRUE) \in Partner
    BY ExchangeAssumption
  <2>2. <<>> \in Seq(GivenHere)
    BY EmptySeq
  <2>3. QED
    BY <2>1, <2>2, FS_EmptySet DEF Idle, SyncShape
<1>4. /\ sync' \in [Sync -> SyncShape]
      /\ \A t \in Sync : sync'[t] = Idle
  BY <1>2, <1>3
<1>5. /\ \A q \in Partner : /\ IsCount(remote[q]) /\ DOMAIN remote[q] \subseteq Given
                            /\ IsCount(repeats[q]) /\ DOMAIN repeats[q] \subseteq Given
                            /\ IsFiniteSet(changed[q]) /\ changed[q] \subseteq Given
  BY DEF ExchangeInv, ExchangeShape
<1>6. ASSUME NEW p \in Partner
      PROVE  /\ IsFiniteSet(new(p)) /\ new(p) \subseteq Given
             /\ \A n : at(p, n) \in Nat
             /\ \A n : n \notin new(p) => at(p, n) = 0
  <2>1. arrived \cap sent(p) \subseteq Sync
    OBVIOUS
  <2>2. IsFiniteSet(arrived \cap sent(p))
    BY <2>1, ExchangeAssumption, FS_Subset
  <2> DEFINE g == [s \in arrived \cap sent(p) |-> Head(sync[s].todo)]
  <2>3. g \in Surjection(arrived \cap sent(p), new(p))
    BY DEF Surjection
  <2>4. IsFiniteSet(new(p))
    <3> HIDE DEF new, g, sent
    <3>1. QED
      BY <2>2, <2>3, FS_Surjection
  <2>5. \A s \in arrived \cap sent(p) : Head(sync[s].todo) \in Given
    <3>1. ASSUME NEW s \in Sync, sync[s].at = "sending" PROVE Head(sync[s].todo) \in Given
      BY <3>1, SyncsAreTyped, TodoIsGivenHere DEF GivenHere
    <3>2. QED
      BY <3>1
  <2>6. ASSUME NEW n PROVE at(p, n) \in Nat
    <3>1. there(p, n) \subseteq arrived \cap sent(p)
      OBVIOUS
    <3> HIDE DEF there
    <3>2. QED
      BY <2>2, <3>1, FS_Subset, FS_CardinalityType
  <2>7. ASSUME NEW n, n \notin new(p) PROVE at(p, n) = 0
    <3>1. there(p, n) = {}
      BY <2>7
    <3> HIDE DEF there
    <3>2. QED
      BY <3>1, FS_EmptySet
  <2>8. QED
    BY <2>4, <2>5, <2>6, <2>7
<1>7. /\ DOMAIN remote' = Partner /\ DOMAIN repeats' = Partner /\ DOMAIN changed' = Partner
      /\ \A p \in Partner : /\ remote'[p] = plus(remote[p], p)
                            /\ repeats'[p] = plus(repeats[p], p)
                            /\ changed'[p] = changed[p] \cup new(p)
      /\ changed' = [p \in Partner |-> changed'[p]]
  BY <1>1
<1>8. ASSUME NEW p \in Partner, NEW c, IsCount(c), DOMAIN c \subseteq Given
      PROVE  /\ DOMAIN plus(c, p) = DOMAIN c \cup new(p) /\ DOMAIN plus(c, p) \subseteq Given
             /\ IsCount(plus(c, p))
             /\ \A n : CountOf(plus(c, p), n) = CountOf(c, n) + at(p, n)
  <2> DEFINE d == plus(c, p)
  <2>1. DOMAIN d = DOMAIN c \cup new(p) /\ \A n \in DOMAIN d : d[n] = CountOf(c, n) + at(p, n)
    OBVIOUS
  <2>2. \A n : CountOf(c, n) \in Nat /\ at(p, n) \in Nat
    BY <1>6, <1>8, CountsAreNumbers
  <2>3. new(p) \subseteq Given /\ \A n : n \notin new(p) => at(p, n) = 0
    BY <1>6
  <2> HIDE DEF at, new, d
  <2>4. IsCount(d)
    BY <2>1, <2>2 DEF IsCount, Range
  <2>5. \A n : CountOf(d, n) = CountOf(c, n) + at(p, n)
    BY <2>1, <2>2, <2>3 DEF CountOf
  <2>6. QED
    BY <1>8, <2>1, <2>3, <2>4, <2>5 DEF d
<1> HIDE DEF plus, new, at, sent
<1>9. ASSUME NEW p \in Partner
       PROVE  /\ DOMAIN remote'[p] = DOMAIN remote[p] \cup new(p) /\ DOMAIN remote'[p] \subseteq Given
              /\ IsCount(remote'[p])
              /\ \A n : CountOf(remote'[p], n) = CountOf(remote[p], n) + at(p, n)
  <2>1. IsCount(remote[p]) /\ DOMAIN remote[p] \subseteq Given /\ remote'[p] = plus(remote[p], p)
    BY <1>5, <1>7
  <2>2. QED
    BY <1>8, <2>1, Zenon
<1>10. ASSUME NEW p \in Partner
       PROVE  /\ DOMAIN repeats'[p] \subseteq Given
              /\ IsCount(repeats'[p])
              /\ \A n : CountOf(repeats'[p], n) = CountOf(repeats[p], n) + at(p, n)
  <2>1. IsCount(repeats[p]) /\ DOMAIN repeats[p] \subseteq Given /\ repeats'[p] = plus(repeats[p], p)
    BY <1>5, <1>7
  <2>2. QED
    BY <1>8, <2>1, Zenon
<1>11. ExchangeShape'
  <2>1. \A p \in Partner : /\ IsCount(remote'[p]) /\ DOMAIN remote'[p] \subseteq Given
                          /\ IsCount(repeats'[p]) /\ DOMAIN repeats'[p] \subseteq Given
    BY <1>9, <1>10
  <2>2. ASSUME NEW p \in Partner PROVE IsFiniteSet(changed'[p]) /\ changed'[p] \subseteq Given
    <3>1. IsFiniteSet(changed[p]) /\ changed[p] \subseteq Given /\ changed'[p] = changed[p] \cup new(p)
      BY <1>5, <1>7
    <3>2. IsFiniteSet(changed[p] \cup new(p))
      BY <1>6, <3>1, FS_Union
    <3>3. QED
      BY <1>6, <3>1, <3>2
  <2>3. changed' \in [Partner -> SUBSET Given]
    BY <1>7, <2>2
  <2>4. ASSUME NEW p \in Partner PROVE IsFiniteSet(DOMAIN remote'[p])
    <3>1. IsFiniteSet(DOMAIN remote[p])
      BY DEF ExchangeInv, ExchangeShape
    <3>2. IsFiniteSet(DOMAIN remote[p] \cup new(p))
      BY <1>6, <3>1, FS_Union
    <3>3. QED
      BY <1>9, <3>2
  <2>5. QED
    BY <1>2, <1>3, <1>4, <1>7, <2>1, <2>2, <2>3, <2>4 DEF ExchangeInv, ExchangeShape
<1>12. ASSUME NEW q \in Partner, NEW k \in Given
       PROVE  IsAccounted(CountOf(remote'[q], k), Flying(sync', q, k), CountOf(repeats'[q], k), k \in pushed[q], k)
  <2> DEFINE a == CountOf(remote[q], k)
             b == CountOf(repeats[q], k)
             f == Cardinality(Flying(sync, q, k))
  <2>1. IsAccounted(a, Flying(sync, q, k), b, k \in pushed[q], k)
    BY DEF ExchangeInv, CopiesAreAccounted
  <2>2. Flying(sync', q, k) = {} /\ Cardinality({}) = 0
    BY <1>3, <1>4, FS_EmptySet DEF Flying, Flies
  <2>3. CountOf(remote'[q], k) = a + at(q, k) /\ CountOf(repeats'[q], k) = b + at(q, k)
    BY <1>9, <1>10
  <2>4. a \in Nat /\ b \in Nat /\ f \in Nat /\ at(q, k) \in Nat
    BY <1>5, <1>6, CountsAreNumbers, FlightsAreCounted
  <2>5. a + f <= 1 + b
    BY <2>1 DEF IsAccounted
  <2>6. k \in GivenHere /\ k \notin pushed[q] => a <= b
    <3>1. CASE Flying(sync, q, k) = {}
      BY <2>1, <3>1 DEF IsAccounted
    <3>2. CASE Flying(sync, q, k) # {}
      <4>1. f # 0
        BY <3>2, FlightsAreCounted, FS_EmptySet
      <4>2. QED
        BY <2>4, <2>5, <4>1
    <3>3. QED
      BY <3>1, <3>2
  <2> HIDE DEF a, b, f
  <2>7. QED
    BY <2>2, <2>3, <2>4, <2>5, <2>6 DEF IsAccounted
<1>13. CopiesAreAccounted'
  BY <1>2, <1>12 DEF CopiesAreAccounted
<1>14. AnswersArePulled' /\ NothingIsMissedSilently'
  <2>1. \A t \in Sync : sync'[t].at \notin {"pushing", "sending"}
    BY <1>3, <1>4
  <2>2. ASSUME NEW p \in Partner, NEW n \in DOMAIN remote'[p] \ changed'[p]
        PROVE  n \in DOMAIN remote[p] \ changed[p]
    BY <1>7, <1>9, <2>2
  <2>3. QED
    BY <1>2, <2>1, <2>2, NothingIsLost
<1>15. QED
  BY <1>11, <1>13, <1>14 DEF ExchangeInv

LEMMA ExchangeGoesOn == ASSUME ExchangeInv, ExchangeStep PROVE ExchangeInv'
BY StopsAreSurvived, MattersAreOpenedAndClosed, RecordsAreOpened, RecordsAreChanged, SyncsStart, PostsGoOn,
   SyncsFinish, AnswersGoOn, PullsGoOn DEF ExchangeStep

LEMMA ExchangeStays == ASSUME ExchangeInv, UNCHANGED exchangeVars PROVE ExchangeInv'
<1>1. UNCHANGED <<matters, remote, changed, pushed, sync, excused, repeats>>
  BY DEF exchangeVars
<1>2. ExchangeShape'
  BY <1>1 DEF ExchangeInv, ExchangeShape
<1>3. CopiesAreAccounted'
  BY <1>1, CopiesStay
<1>4. AnswersArePulled' /\ NothingIsMissedSilently'
  BY <1>1, SyncsAreTyped, NothingIsLost
<1>5. QED
  BY <1>2, <1>3, <1>4 DEF ExchangeInv

LEMMA CopiesHaveCauses == ASSUME ExchangeInv PROVE CopiesHaveACause
<1>1. ASSUME NEW p \in Partner, NEW n \in DOMAIN remote[p]
      PROVE  CountOf(remote[p], n) <= 1 + CountOf(repeats[p], n)
  <2>1. n \in Given /\ IsCount(remote[p]) /\ IsCount(repeats[p])
    BY DEF ExchangeInv, ExchangeShape
  <2>2. CountOf(remote[p], n) + Cardinality(Flying(sync, p, n)) <= 1 + CountOf(repeats[p], n)
    BY <2>1 DEF ExchangeInv, CopiesAreAccounted, IsAccounted
  <2>3. CountOf(remote[p], n) \in Nat /\ CountOf(repeats[p], n) \in Nat
    BY <2>1, CountsAreNumbers
  <2>4. QED
    BY <2>2, <2>3, FlightsAreCounted
<1>2. QED
  BY <1>1 DEF CopiesHaveACause

-----------------------------------------------------------------------------

(* Sharing: what clients and counsel are shown.                            *)

(* A document that lies nowhere is visible nowhere and has no link; what   *)
(* is visible where it lies is shared; who uploads was granted the matter; *)
(* a brief that was read is out or revoked, and was read before now.       *)
ShareInv ==
  /\ SharingTypeOK
  /\ \A d \in Paper :
       /\ home[d] = NoMatter => visible[d] = NoMatter /\ d \notin shared
       /\ visible[d] = home[d] /\ home[d] # NoMatter => d \in shared
  /\ \A l \in links :
       /\ home[l.paper] # NoMatter
       /\ l.matter = home[l.paper] => l.paper \in linked
  /\ \A c \in Client : uploading[c] # NoMatter => <<c, uploading[c]>> \in granted
  /\ \A r \in read : briefs[r[1]].status # "none" /\ r[2] <= moment
  /\ ShownWasShared

LEMMA SharingStarts == ASSUME SharingInit PROVE ShareInv
BY DEF SharingInit, ShareInv, SharingTypeOK, ShownWasShared, BriefState

LEMMA ShownAreTyped ==
  ASSUME ShareInv
  PROVE  /\ \A s \in shown : s[1] \in Client /\ s[2] \in Paper /\ s = <<s[1], s[2]>>
         /\ \A s \in brought : s[1] \in Client /\ s[2] \in Paper /\ s = <<s[1], s[2]>>
         /\ \A s \in granted : s[1] \in Client /\ s[2] \in Matter /\ s[2] # NoMatter
         /\ \A r \in read : r[1] \in Brief /\ r[2] \in Nat
         /\ \A l \in links : l.paper \in Paper /\ l.matter \in Matter
BY SharingAssumption DEF ShareInv, SharingTypeOK, Link

(* What was shown or brought lies in a matter.                             *)
LEMMA ShownLieSomewhere ==
  ASSUME ShareInv
  PROVE  \A s \in shown \cup brought : s[2] \in Paper /\ home[s[2]] # NoMatter
<1>1. ASSUME NEW s \in shown PROVE s[2] \in Paper /\ home[s[2]] # NoMatter
  BY ShownAreTyped DEF ShareInv, ShownWasShared
<1>2. ASSUME NEW s \in brought PROVE s[2] \in Paper /\ home[s[2]] # NoMatter
  <2>1. <<s[1], home[s[2]]>> \in granted
    BY DEF ShareInv, ShownWasShared
  <2>2. <<s[1], home[s[2]]>>[2] # NoMatter
    BY <2>1, ShownAreTyped
  <2>3. QED
    BY <2>2, ShownAreTyped
<1>3. QED
  BY <1>1, <1>2

LEMMA TimePasses == ASSUME ShareInv, NextMoment, UNCHANGED counselVars PROVE ShareInv'
<1>1. SharingTypeOK'
  BY DEF ShareInv, SharingTypeOK, NextMoment, counselVars
<1>2. \A r \in read : r[2] <= moment'
  BY ShownAreTyped DEF ShareInv, SharingTypeOK, NextMoment
<1>3. QED
  BY <1>1, <1>2 DEF ShareInv, ShownWasShared, NextMoment, counselVars

(* The documents: what lies, what is visible, what is linked to.           *)
LEMMA LawyersShare ==
  ASSUME ShareInv, UNCHANGED counselVars, NEW d \in Paper,
         \/ RevokeDocumentVisibility(d)
         \/ \E m \in Matter : StorePaper(d, m) \/ CreateShareLink(d, m) \/ GrantDocumentVisibility(d, m)
  PROVE  ShareInv'
<1>1. CASE RevokeDocumentVisibility(d)
  <2>1. SharingTypeOK'
    BY <1>1 DEF ShareInv, SharingTypeOK, RevokeDocumentVisibility, counselVars
  <2>2. \A e \in Paper : visible'[e] = IF e = d THEN NoMatter ELSE visible[e]
    BY <1>1 DEF ShareInv, SharingTypeOK, RevokeDocumentVisibility
  <2>3. \A s \in shown' : s \in shown /\ s[2] # d
    BY <1>1 DEF RevokeDocumentVisibility
  <2>4. ShownWasShared'
    BY <1>1, <2>3 DEF ShareInv, ShownWasShared, RevokeDocumentVisibility, counselVars
  <2>5. QED
    BY <1>1, <2>1, <2>2, <2>4 DEF ShareInv, RevokeDocumentVisibility, counselVars
<1>2. ASSUME NEW m \in Matter, StorePaper(d, m) PROVE ShareInv'
  <2>1. SharingTypeOK'
    BY <1>2 DEF ShareInv, SharingTypeOK, StorePaper, counselVars
  <2>2. \A e \in Paper : home'[e] = IF e = d THEN m ELSE home[e]
    BY <1>2 DEF ShareInv, SharingTypeOK, StorePaper
  <2>3. home[d] = NoMatter /\ visible[d] = NoMatter /\ m # NoMatter
    BY <1>2, SharingAssumption DEF StorePaper, ShareInv
  <2>4. \A s \in shown \cup brought : home'[s[2]] = home[s[2]]
    BY <2>2, <2>3, ShownLieSomewhere
  <2>5. ShownWasShared'
    BY <1>2, <2>4 DEF ShareInv, ShownWasShared, StorePaper, counselVars
  <2>6. \A l \in links : home'[l.paper] = home[l.paper]
    BY <2>2, <2>3, ShownAreTyped DEF ShareInv
  <2>7. QED
    BY <1>2, <2>1, <2>2, <2>3, <2>5, <2>6 DEF ShareInv, StorePaper, counselVars
<1>3. ASSUME NEW m \in Matter, CreateShareLink(d, m) PROVE ShareInv'
  <2> DEFINE new == [paper |-> d, matter |-> m, until |-> moment + LinkLife]
  <2>1. new \in Link /\ new.paper = d /\ new.matter = m
    BY SharingAssumption DEF Link, ShareInv, SharingTypeOK
  <2> HIDE DEF new
  <2>2. /\ links' = links \cup {new} /\ home[d] # NoMatter
        /\ linked' = IF m = home[d] THEN linked \cup {d} ELSE linked
        /\ UNCHANGED <<moment, home, clients, granted, visible, portal, uploading, shared, shown,
                       opened, brought>>
    BY <1>3 DEF CreateShareLink, new
  <2>3. SharingTypeOK'
    BY <2>1, <2>2 DEF ShareInv, SharingTypeOK, counselVars
  <2>4. linked \subseteq linked'
    BY <2>2
  <2>5. ShownWasShared'
    BY <2>2, <2>4 DEF ShareInv, ShownWasShared, counselVars
  <2>6. \A l \in links' : home[l.paper] # NoMatter /\ (l.matter = home[l.paper] => l.paper \in linked')
    BY <2>1, <2>2, <2>4 DEF ShareInv
  <2>7. QED
    BY <2>2, <2>3, <2>5, <2>6 DEF ShareInv, counselVars
<1>4. ASSUME NEW m \in Matter, GrantDocumentVisibility(d, m) PROVE ShareInv'
  <2>1. SharingTypeOK'
    BY <1>4 DEF ShareInv, SharingTypeOK, GrantDocumentVisibility, counselVars
  <2>2. \A e \in Paper : visible'[e] = IF e = d THEN m ELSE visible[e]
    BY <1>4 DEF ShareInv, SharingTypeOK, GrantDocumentVisibility
  <2>3. shared \subseteq shared'
    BY <1>4 DEF GrantDocumentVisibility
  <2>4. ShownWasShared'
    BY <1>4, <2>3 DEF ShareInv, ShownWasShared, GrantDocumentVisibility, counselVars
  <2>5. QED
    BY <1>4, <2>1, <2>2, <2>3, <2>4 DEF ShareInv, GrantDocumentVisibility, counselVars
<1>5. QED
  BY <1>1, <1>2, <1>3, <1>4

LEMMA LinksOpen ==
  ASSUME ShareInv, UNCHANGED counselVars, NEW l \in links, RevokeShareLink(l) \/ OpenLink(l)
  PROVE  ShareInv'
<1>1. CASE RevokeShareLink(l)
  <2>1. SharingTypeOK'
    BY <1>1 DEF ShareInv, SharingTypeOK, RevokeShareLink, counselVars
  <2>2. QED
    BY <1>1, <2>1 DEF ShareInv, ShownWasShared, RevokeShareLink, counselVars
<1>2. CASE OpenLink(l)
  <2>1. l.paper \in Paper /\ l.paper \in linked
    BY <1>2, ShownAreTyped DEF ShareInv, OpenLink
  <2>2. SharingTypeOK'
    BY <1>2, <2>1 DEF ShareInv, SharingTypeOK, OpenLink, counselVars
  <2>3. ShownWasShared'
    BY <1>2, <2>1 DEF ShareInv, ShownWasShared, OpenLink, counselVars
  <2>4. QED
    BY <1>2, <2>2, <2>3 DEF ShareInv, OpenLink, counselVars
<1>3. QED
  BY <1>1, <1>2

LEMMA ClientsAct ==
  ASSUME ShareInv, UNCHANGED counselVars, NEW c \in Client,
         \/ CreateClient(c) \/ SignIn(c) \/ SignOut(c)
         \/ \E m \in Matter : GrantClientMatter(c, m) \/ OpenMatterPage(c, m) \/ BeginUpload(c, m)
         \/ \E d \in Paper : EndUpload(c, d)
  PROVE  ShareInv'
<1>1. CASE CreateClient(c) \/ SignIn(c) \/ SignOut(c)
  <2>1. UNCHANGED <<moment, home, granted, visible, links, uploading, shared, shown, linked, opened, brought>>
    BY <1>1 DEF CreateClient, SignIn, SignOut
  <2>2. portal' \subseteq PortalSession /\ clients' \subseteq Client
    <3>1. [of |-> c, until |-> moment + PortalLife] \in PortalSession
      BY SharingAssumption DEF PortalSession, ShareInv, SharingTypeOK
    <3>2. QED
      BY <1>1, <3>1 DEF CreateClient, SignIn, SignOut, ShareInv, SharingTypeOK
  <2>3. SharingTypeOK'
    BY <2>1, <2>2 DEF ShareInv, SharingTypeOK, counselVars
  <2>4. QED
    BY <2>1, <2>3 DEF ShareInv, ShownWasShared, counselVars
<1>2. ASSUME NEW m \in Matter, GrantClientMatter(c, m) PROVE ShareInv'
  <2>1. SharingTypeOK' /\ granted \subseteq granted'
    BY <1>2 DEF ShareInv, SharingTypeOK, GrantClientMatter, counselVars
  <2>2. QED
    BY <1>2, <2>1 DEF ShareInv, ShownWasShared, GrantClientMatter, counselVars
<1>3. ASSUME NEW m \in Matter, OpenMatterPage(c, m) PROVE ShareInv'
  <2>1. <<c, m>> \in granted /\ m # NoMatter
    BY <1>3, SharingAssumption DEF OpenMatterPage, IsAllowed
  <2>2. \A d \in VisibleIn(m) : d \in Paper /\ d \in shared /\ home[d] = m
    BY <2>1 DEF VisibleIn, ShareInv
  <2>3. \A s \in {c} \X VisibleIn(m) : s[1] = c /\ s[2] \in VisibleIn(m) /\ s \in Client \X Paper
    BY <2>2
  <2>4. SharingTypeOK'
    BY <1>3, <2>3 DEF ShareInv, SharingTypeOK, OpenMatterPage, counselVars
  <2>5. ShownWasShared'
    BY <1>3, <2>1, <2>2, <2>3 DEF ShareInv, ShownWasShared, OpenMatterPage, counselVars
  <2>6. QED
    BY <1>3, <2>4, <2>5 DEF ShareInv, OpenMatterPage, counselVars
<1>4. ASSUME NEW m \in Matter, BeginUpload(c, m) PROVE ShareInv'
  <2>1. SharingTypeOK'
    BY <1>4 DEF ShareInv, SharingTypeOK, BeginUpload, counselVars
  <2>2. \A x \in Client : uploading'[x] # NoMatter => <<x, uploading'[x]>> \in granted
    BY <1>4 DEF ShareInv, SharingTypeOK, BeginUpload, IsAllowed
  <2>3. QED
    BY <1>4, <2>1, <2>2 DEF ShareInv, ShownWasShared, BeginUpload, counselVars
<1>5. ASSUME NEW d \in Paper, EndUpload(c, d) PROVE ShareInv'
  <2>1. uploading[c] \in Matter /\ <<c, uploading[c]>> \in granted /\ uploading[c] # NoMatter
    BY <1>5 DEF EndUpload, ShareInv, SharingTypeOK
  <2>2. home[d] = NoMatter /\ visible[d] = NoMatter
    BY <1>5 DEF EndUpload, ShareInv
  <2>3. \A e \in Paper : home'[e] = IF e = d THEN uploading[c] ELSE home[e]
    BY <1>5 DEF ShareInv, SharingTypeOK, EndUpload
  <2>4. SharingTypeOK'
    BY <1>5, <2>1 DEF ShareInv, SharingTypeOK, EndUpload, counselVars
  <2>5. \A s \in shown \cup brought : home'[s[2]] = home[s[2]]
    BY <2>2, <2>3, ShownLieSomewhere
  <2>6. \A s \in brought' : <<s[1], home'[s[2]]>> \in granted
    BY <1>5, <2>1, <2>3, <2>5 DEF EndUpload, ShareInv, ShownWasShared
  <2>7. ShownWasShared'
    BY <1>5, <2>5, <2>6 DEF ShareInv, ShownWasShared, EndUpload, counselVars
  <2>8. \A l \in links : home'[l.paper] = home[l.paper]
    BY <2>2, <2>3, ShownAreTyped DEF ShareInv
  <2>9. \A x \in Client : uploading'[x] # NoMatter => <<x, uploading'[x]>> \in granted
    BY <1>5 DEF EndUpload, ShareInv, SharingTypeOK
  <2>10. QED
    BY <1>5, <2>1, <2>2, <2>3, <2>4, <2>7, <2>8, <2>9 DEF ShareInv, EndUpload, counselVars
<1>6. QED
  BY <1>1, <1>2, <1>3, <1>4, <1>5

LEMMA BriefsAreRead ==
  ASSUME ShareInv, UNCHANGED shareVars, NEW b \in Brief,
         CreateExternalBrief(b) \/ RevokeBrief(b) \/ ReadBrief(b)
  PROVE  ShareInv'
<1>1. moment \in Nat /\ briefs \in [Brief -> BriefState] /\ {accessLog, read} \subseteq SUBSET (Brief \X Nat)
  BY DEF ShareInv, SharingTypeOK
<1>2. SUFFICES /\ SharingTypeOK'
               /\ \A r \in read' : briefs'[r[1]].status # "none" /\ r[2] <= moment
               /\ read' \subseteq accessLog'
               /\ \A r \in read' :
                    /\ r[2] <= briefs'[r[1]].until
                    /\ briefs'[r[1]].status = "revoked" => r[2] <= briefs'[r[1]].revokedAt
  BY DEF ShareInv, ShownWasShared, shareVars
<1>3. CASE CreateExternalBrief(b)
  <2> DEFINE new == [briefs[b] EXCEPT !.status = "out", !.until = moment + BriefLife]
             end == moment + BriefLife
  <2>1. new \in BriefState
    <3>1. end \in Nat /\ briefs[b] \in BriefState
      BY <1>1, SharingAssumption
    <3> HIDE DEF end
    <3>2. [briefs[b] EXCEPT !.status = "out", !.until = end] \in BriefState
      BY <3>1 DEF BriefState
    <3>3. QED
      BY <3>2 DEF end
  <2> HIDE DEF new, end
  <2>2. briefs' = [briefs EXCEPT ![b] = new] /\ briefs[b].status = "none" /\ UNCHANGED <<accessLog, read>>
    BY <1>1, <1>3 DEF CreateExternalBrief, new
  <2>3. \A r \in read : r[1] \in Brief /\ r[1] # b
    BY <2>2, ShownAreTyped DEF ShareInv
  <2>4. \A r \in read : briefs'[r[1]] = briefs[r[1]]
    BY <1>1, <2>2, <2>3
  <2>5. SharingTypeOK'
    BY <1>1, <2>1, <2>2 DEF ShareInv, SharingTypeOK, shareVars
  <2>6. QED
    BY <2>2, <2>4, <2>5 DEF ShareInv, ShownWasShared
<1>4. CASE RevokeBrief(b)
  <2> DEFINE new == [briefs[b] EXCEPT !.status = "revoked", !.revokedAt = moment]
  <2>1. new \in BriefState /\ new.status = "revoked" /\ new.revokedAt = moment /\ new.until = briefs[b].until
    BY <1>1 DEF BriefState
  <2> HIDE DEF new
  <2>2. briefs' = [briefs EXCEPT ![b] = new] /\ UNCHANGED <<accessLog, read>>
    BY <1>1, <1>4 DEF RevokeBrief, new
  <2>3. \A r \in read : r[1] \in Brief /\ briefs'[r[1]] = IF r[1] = b THEN new ELSE briefs[r[1]]
    BY <1>1, <2>2, ShownAreTyped
  <2>4. SharingTypeOK'
    BY <1>1, <2>1, <2>2 DEF ShareInv, SharingTypeOK, shareVars
  <2>5. QED
    BY <2>1, <2>2, <2>3, <2>4 DEF ShareInv, ShownWasShared
<1>5. CASE ReadBrief(b)
  <2>1. /\ accessLog' = accessLog \cup {<<b, moment>>} /\ read' = read \cup {<<b, moment>>}
        /\ UNCHANGED briefs /\ briefs[b].status = "out" /\ moment <= briefs[b].until
    BY <1>1, <1>5 DEF ReadBrief, IsBriefFound, BriefState
  <2>2. SharingTypeOK'
    BY <1>1, <2>1 DEF ShareInv, SharingTypeOK, shareVars
  <2>3. QED
    BY <1>1, <2>1, <2>2 DEF ShareInv, ShownWasShared
<1>6. QED
  BY <1>3, <1>4, <1>5

LEMMA SharingGoesOn == ASSUME ShareInv, ShareStep \/ CounselStep PROVE ShareInv'
<1>1. CASE ShareStep
  BY <1>1, TimePasses, LawyersShare, LinksOpen, ClientsAct DEF ShareStep
<1>2. CASE CounselStep
  BY <1>2, TimePasses, BriefsAreRead DEF CounselStep
<1>3. QED
  BY <1>1, <1>2

LEMMA SharingStays == ASSUME ShareInv, UNCHANGED sharingVars PROVE ShareInv'
BY DEF ShareInv, SharingTypeOK, ShownWasShared, sharingVars, shareVars, counselVars

-----------------------------------------------------------------------------

PracticeInv ==
  /\ AccessInv
  /\ AdviceInv
  /\ FiguresInv
  /\ InterviewInv
  /\ WatchInv
  /\ ExchangeInv
  /\ ShareInv

(* A step of another part than Studies mends no study that was cut short.  *)
LEMMA AdviceIsLeftAlone ==
  ASSUME AdviceInv, UNCHANGED studyVars, \A s \in Study : s \in hurt => s \in hurt'
  PROVE  AdviceInv'
<1>1. UNCHANGED <<study, memo, newest, inQueue>> /\ label' \in Label
  BY DEF studyVars, AdviceInv, StudiesTypeOK
<1>2. QED
  BY <1>1, AdviceStays

LEMMA PracticeStarts == ASSUME Init PROVE PracticeInv
BY AccessStarts, AdviceStarts, FiguresStart, InterviewsStart, WatchStarts, ExchangeStarts, SharingStarts
   DEF Init, PracticeInv

LEMMA PracticeGoesOn == ASSUME PracticeInv, [Next]_vars PROVE PracticeInv'
<1> USE DEF PracticeInv
<1>1. CASE Access
  <2>1. AccessInv'
    BY <1>1, AccessGoesOn DEF Access
  <2>2. \A s \in Study : s \in hurt => s \in hurt'
    BY <1>1, PracticeAssumption, OnlyAccountsAreMended DEF Access
  <2>3. UNCHANGED <<studyVars, figure, interview, complianceVars, exchangeVars, sharingVars>>
    BY <1>1 DEF Access, figureVars
  <2>4. QED
    BY <2>1, <2>2, <2>3, AdviceIsLeftAlone, FiguresStay, InterviewsStay, WatchStays, ExchangeStays, SharingStays
<1>2. CASE Advice
  <2>1. StudyStep /\ UNCHANGED <<accountVars, figure, interview, complianceVars, exchangeVars, sharingVars>>
    BY <1>2 DEF Advice, figureVars
  <2>2. QED
    BY <2>1, AdviceGoesOn, AccessStays, FiguresStay, InterviewsStay, WatchStays, ExchangeStays, SharingStays
<1>3. CASE Sums \/ Interviews \/ UNCHANGED vars
  <2>1. UNCHANGED <<handlerVars, accountVars, studyVars, complianceVars, exchangeVars, sharingVars>>
    BY <1>3 DEF Sums, Interviews, notFigures, vars
  <2>2. UNCHANGED hurt
    BY <2>1 DEF handlerVars
  <2>3. FiguresInv'
    <3>1. CASE FiguresStep
      BY <3>1, FiguresGoOn
    <3>2. CASE UNCHANGED figure
      BY <3>2, FiguresStay
    <3>3. QED
      BY <1>3, <3>1, <3>2 DEF Sums, Interviews, vars, figureVars
  <2>4. InterviewInv'
    BY <1>3, InterviewsRun, InterviewsStay DEF Sums, Interviews, vars, figureVars
  <2>5. QED
    BY <2>1, <2>2, <2>3, <2>4, AccessStays, AdviceIsLeftAlone, WatchStays, ExchangeStays, SharingStays
<1>4. CASE FileReviews \/ Screenings \/ Budgets
  <2>1. UNCHANGED <<accountVars, studyVars, figure, interview, exchangeVars, sharingVars>>
    BY <1>4 DEF FileReviews, Screenings, Budgets, notCompliance, figureVars
  <2>2. WatchInv'
    BY <1>4, FileReviewsGoOn, ScreeningsGoOn, BudgetsGoOn DEF FileReviews, Screenings, Budgets
  <2>3. UNCHANGED hurt
    BY <1>4 DEF FileReviews, FileReviewStep, NextMonth, Start, CompleteReview, OpenFile, UpdateFile,
                Screenings, ScreeningStep, ListChanges, AskList, ScreenClient, ReviewScreening,
                Budgets, BudgetStep, SetMatterBudget, RecordDisbursement, handlerVars
  <2>4. QED
    BY <2>1, <2>2, <2>3, AccessStays, AdviceIsLeftAlone, FiguresStay, InterviewsStay, ExchangeStays, SharingStays
<1>5. CASE Partners
  <2>1. ExchangeStep /\ UNCHANGED <<accountVars, studyVars, figure, interview, complianceVars, sharingVars>>
    BY <1>5 DEF Partners, figureVars
  <2>2. UNCHANGED hurt
    BY <2>1 DEF ExchangeStep, Stop, OpenMatter, CloseMatter, OpenRecord, ChangeRecord, StartSync, Post,
                Finish, Answer, PullMatters, handlerVars
  <2>3. QED
    BY <2>1, <2>2, AccessStays, AdviceIsLeftAlone, FiguresStay, InterviewsStay, WatchStays, ExchangeGoesOn, SharingStays
<1>6. CASE Outsiders \/ Counsel
  <2>1. UNCHANGED <<handlerVars, accountVars, studyVars, figure, interview, complianceVars, exchangeVars>>
    BY <1>6 DEF Outsiders, Counsel, notSharing, figureVars
  <2>2. UNCHANGED hurt
    BY <2>1 DEF handlerVars
  <2>3. ShareInv'
    BY <1>6, SharingGoesOn DEF Outsiders, Counsel
  <2>4. QED
    BY <2>1, <2>2, <2>3, AccessStays, AdviceIsLeftAlone, FiguresStay, InterviewsStay, WatchStays, ExchangeStays
<1>7. QED
  BY <1>1, <1>2, <1>3, <1>4, <1>5, <1>6 DEF Next

(* The invariants of the seven parts hold of every behaviour of Practice.  *)
THEOREM PracticeIsKept == Spec => []PracticeInv
<1>1. Init => PracticeInv
  BY PracticeStarts
<1>2. PracticeInv /\ [Next]_vars => PracticeInv'
  BY PracticeGoesOn
<1>3. QED
  BY <1>1, <1>2, PTL DEF Spec

(* Whoever ceases to be an admin acts late at most once for each request   *)
(* that was in flight then, whatever else is done meanwhile                *)
(* (dashboard/server.ts:820-905).                                          *)
THEOREM LostPowersEndHolds == Spec => []LostPowersEnd
<1>1. PracticeInv => LostPowersEnd
  BY PowersEnd DEF PracticeInv
<1>2. QED
  BY <1>1, PracticeIsKept, PTL

(* Strategies keep apart, and strategy.md holds one that was approved, for *)
(* any number asked for at once (strategy-generator.ts:49-55, 201-262).    *)
THEOREM StrategiesAreInOrderHolds == Spec => []StrategiesAreInOrder
<1>1. PracticeInv => StrategiesAreInOrder
  BY AdviceIsInOrder DEF PracticeInv
<1>2. QED
  BY <1>1, PracticeIsKept, PTL

(* The warnings can be relied on: deadlines keep to the calendar, scores   *)
(* do not improve when things get worse, neglected files are listed,       *)
(* matches decided and exceeded budgets warned of, for every date, all     *)
(* factors, counts and amounts (limitation-periods.ts, pi-risk.ts,         *)
(* health-score.ts, cost-estimator/index.ts, file-review.ts, aml.ts,       *)
(* budgeting.ts).                                                          *)
THEOREM WarningsCanBeReliedOnHolds == Spec => []WarningsCanBeReliedOn
<1>1. PracticeInv => WarningsCanBeReliedOn
  BY DEF PracticeInv, FiguresInv, SumsAreRight, WatchInv, WarningsCanBeReliedOn
<1>2. QED
  BY <1>1, PracticeIsKept, PTL

(* A redline tells both texts and marks as few lines as can be, for all    *)
(* texts, of any length and any lines (redline.ts:51-84).                  *)
THEOREM RedlineIsFaithfulHolds == Spec => []RedlineIsFaithful
<1>1. PracticeInv => RedlineIsFaithful
  BY DEF PracticeInv, FiguresInv
<1>2. QED
  BY <1>1, PracticeIsKept, PTL

(* What a client is told in the interview and what the brief says agree,   *)
(* for all dates, days and amounts and every order of answers of the       *)
(* fifteen question sets (question-sets/*.ts, context-builder.ts,          *)
(* limitation-periods.ts:76-92, court-registry.ts).                        *)
THEOREM BriefsCanBeReliedOnHolds == Spec => []BriefsCanBeReliedOn
<1>1. PracticeInv => BriefsCanBeReliedOn
  BY BriefsAreRight DEF PracticeInv
<1>2. QED
  BY <1>1, PracticeIsKept, PTL

(* A partner's copies of a matter each have a cause, for any partners and  *)
(* any number of syncs at once (leap/index.ts:144-182).                    *)
THEOREM CopiesHaveACauseHolds == Spec => []CopiesHaveACause
<1>1. PracticeInv => CopiesHaveACause
  BY CopiesHaveCauses DEF PracticeInv
<1>2. QED
  BY <1>1, PracticeIsKept, PTL

(* What counts as exchanged is here or excused, for any partners and syncs *)
(* (leap/index.ts:103-142, 190-221).                                       *)
THEOREM NothingIsMissedSilentlyHolds == Spec => []NothingIsMissedSilently
<1>1. PracticeInv => NothingIsMissedSilently
  BY DEF PracticeInv, ExchangeInv
<1>2. QED
  BY <1>1, PracticeIsKept, PTL

(* Nobody outside was shown what was not shared with him, for any clients, *)
(* documents, links and briefs (client-portal/repo.ts).                    *)
THEOREM ShownWasSharedHolds == Spec => []ShownWasShared
<1>1. PracticeInv => ShownWasShared
  BY DEF PracticeInv, ShareInv
<1>2. QED
  BY <1>1, PracticeIsKept, PTL

-----------------------------------------------------------------------------

(* What a step does to the handlers' counts and to the records hurt.       *)
Counts ==
  /\ edits' = edits \/ edits' = edits + 1
  /\ mishaps' = mishaps \/ mishaps' = mishaps + 1
  /\ hurt' \subseteq hurt \cup Person \cup Study

LEMMA AccountsCount == ASSUME AccountStep PROVE Counts
<1>1. ASSUME NEW b \in Browser, NEW u \in Person, SetupAdmin(b, u) PROVE Counts
  BY <1>1 DEF SetupAdmin, Leaves, Counts
<1>2. QED
  BY <1>1 DEF AccountStep, NextHour, PurgeExpiredSessions, SetupFinish, Login, TurnAway, Logout, SetStatus,
              LetIn, HandleSsoCallback, CreateUser, SetRole, handlerVars, Request, Counts

(* The records of a study pass through their states, or not.               *)
LEMMA StudiesCount == ASSUME StudyStep PROVE Counts
<1>1. ASSUME NEW s \in Study, NEW steps, Become(s, steps), edits' = edits \/ Request PROVE Counts
  BY <1>1 DEF Become, Leaves, Request, Counts
<1>2. ASSUME NEW s \in Study, NEW cost \in BOOLEAN,
             \/ GenerateMatterStrategy(s, cost) \/ GenerateDepositionPrep(s, cost)
             \/ ExplainDocument(s, cost) \/ PredictMatterOutcome(s, cost)
             \/ CompareJurisdictions(s, cost) \/ GenerateMarketReport(s, cost)
             \/ ClassifyDocument(s, cost)
      PROVE  Counts
  <2>1. edits' = edits
    BY <1>2 DEF GenerateMatterStrategy, GenerateDepositionPrep, ExplainDocument, PredictMatterOutcome,
                CompareJurisdictions, GenerateMarketReport, ClassifyDocument
  <2>2. (\E kind, version : Reviews(s, kind, version, cost)) \/ (\E kind, dated : Shows(s, kind, dated, cost))
    BY <1>2 DEF GenerateMatterStrategy, GenerateDepositionPrep, ExplainDocument, PredictMatterOutcome,
                CompareJurisdictions, GenerateMarketReport, ClassifyDocument
  <2>3. ASSUME NEW kind, NEW version, Reviews(s, kind, version, cost) PROVE \E steps : Become(s, steps)
    BY <2>3, Zenon DEF Reviews
  <2>4. ASSUME NEW kind, NEW dated, Shows(s, kind, dated, cost) PROVE \E steps : Become(s, steps)
    BY <2>4, Zenon DEF Shows
  <2>5. QED
    BY <1>1, <2>1, <2>2, <2>3, <2>4
<1>3. ASSUME NEW s \in Study, ApproveStrategy(s) \/ RejectStrategy(s) PROVE Counts
  <2>1. Request /\ \E steps : Become(s, steps)
    BY <1>3 DEF ApproveStrategy, RejectStrategy
  <2>2. QED
    BY <1>1, <2>1
<1>4. QED
  BY <1>2, <1>3 DEF StudyStep, AcknowledgeOutcome, CorrectClassification, Ask, DecideInQueue, Request, Counts

LEMMA OthersCount ==
  ASSUME FileReviews \/ Screenings \/ Budgets \/ Partners PROVE Counts
<1>1. CASE FileReviews
  BY <1>1 DEF FileReviews, FileReviewStep, NextMonth, Start, CompleteReview, OpenFile, UpdateFile,
              handlerVars, Request, Counts
<1>2. CASE Screenings
  <2>1. ASSUME NEW s \in Screening, ScreenClient(s) PROVE Counts
    <3>1. UNCHANGED handlerVars
      BY <2>1, Zenon DEF ScreenClient
    <3>2. QED
      BY <3>1 DEF handlerVars, Counts
  <2>2. QED
    BY <1>2, <2>1 DEF Screenings, ScreeningStep, ListChanges, AskList, ReviewScreening, handlerVars,
                      Request, Counts
<1>3. CASE Budgets
  BY <1>3 DEF Budgets, BudgetStep, SetMatterBudget, RecordDisbursement, handlerVars, Counts
<1>4. CASE Partners
  <2>1. ASSUME NEW n, OpenMatter(n) \/ CloseMatter(n) PROVE Counts
    BY <2>1 DEF OpenMatter, CloseMatter, Request, Counts
  <2>2. ASSUME NEW p, NEW n, OpenRecord(p, n) \/ ChangeRecord(p, n) PROVE Counts
    BY <2>2 DEF OpenRecord, ChangeRecord, Request, Counts
  <2>3. ASSUME NEW s, NEW p, StartSync(s, p) PROVE Counts
    BY <2>3 DEF StartSync, MayThrow, Request, Counts
  <2>4. ASSUME NEW s, Post(s) \/ Finish(s) PROVE Counts
    BY <2>4 DEF Post, Finish, MayThrow, Counts
  <2>5. ASSUME NEW s, NEW taken, NEW noted, Answer(s, taken, noted) PROVE Counts
    BY <2>5 DEF Answer, Counts
  <2>6. ASSUME NEW s, NEW inserted, PullMatters(s, inserted) PROVE Counts
    BY <2>6 DEF PullMatters, Counts
  <2>7. CASE Stop
    BY <2>7 DEF Stop, Counts
  <2>8. QED
    BY <1>4, <2>1, <2>2, <2>3, <2>4, <2>5, <2>6, <2>7, Zenon DEF Partners, ExchangeStep
<1>5. QED
  BY <1>1, <1>2, <1>3, <1>4

LEMMA HandlersGoOn ==
  ASSUME HandlersTypeOK(Person \cup Study), [Next]_vars
  PROVE  HandlersTypeOK(Person \cup Study)'
<1>1. Counts
  <2>1. CASE Access
    BY <2>1, AccountsCount DEF Access
  <2>2. CASE Advice
    BY <2>2, StudiesCount DEF Advice
  <2>3. CASE FileReviews \/ Screenings \/ Budgets \/ Partners
    BY <2>3, OthersCount
  <2>4. CASE Sums \/ Interviews \/ Outsiders \/ Counsel \/ UNCHANGED vars
    BY <2>4 DEF Sums, Interviews, Outsiders, Counsel, notFigures, notSharing, vars, handlerVars, Counts
  <2>5. QED
    BY <2>1, <2>2, <2>3, <2>4 DEF Next
<1>2. QED
  BY <1>1 DEF Counts, HandlersTypeOK

LEMMA ExchangeIsTyped == ASSUME ExchangeShape PROVE ExchangeTypeOK
<1>1. Given \subseteq Number /\ GivenHere \subseteq Number
  BY DEF Given, GivenHere
<1>2. \A p \in Partner, t \in {changed, pushed, excused} : t[p] \subseteq Number
  BY <1>1 DEF ExchangeShape
<1>3. sync \in [Sync -> SyncState]
  <2>1. SUBSET Given \subseteq SUBSET Number /\ Seq(GivenHere) \subseteq Seq(Number)
    BY <1>1
  <2>2. SyncShape \subseteq SyncState
    BY <2>1 DEF SyncShape, SyncState
  <2>3. QED
    BY <2>2 DEF ExchangeShape
<1>4. QED
  BY <1>1, <1>2, <1>3 DEF ExchangeShape, ExchangeTypeOK, IsCount

(* The files and tables of accounts, studies, compliance, exchange and     *)
(* sharing keep their types, and only their records are ever hurt.         *)
THEOREM PracticeTypes == Spec => []TypeOK
<1>1. Init => HandlersTypeOK(Person \cup Study)
  BY DEF Init, HandlersInit, HandlersTypeOK
<1>2. HandlersTypeOK(Person \cup Study) /\ [Next]_vars => HandlersTypeOK(Person \cup Study)'
  BY HandlersGoOn
<1>3. Spec => []HandlersTypeOK(Person \cup Study)
  BY <1>1, <1>2, PTL DEF Spec
<1>4. PracticeInv /\ HandlersTypeOK(Person \cup Study) => TypeOK
  BY ExchangeIsTyped DEF PracticeInv, AccessInv, AdviceInv, WatchInv, ExchangeInv, ShareInv, TypeOK
<1>5. QED
  BY <1>3, <1>4, PracticeIsKept, PTL

=============================================================================
