---------------------------- MODULE TrustScores ----------------------------
(***************************************************************************)
(* Trust scores (db/repositories/trustScores.ts): of each skill and domain *)
(* a row that counts the tasks done and failed, and the level of autonomy  *)
(* that follows.  The processor reports each task that ends, the control   *)
(* plane each anomaly.                                                     *)
(*                                                                         *)
(* The rows refer to a row of the agents table, which no code adds; where  *)
(* it is missing every one of these calls throws, as TaskProcessor has it, *)
(* and no row is ever written.                                             *)
(***************************************************************************)
EXTENDS Handlers, Integers

CONSTANTS
  Scored,     \* pairs of skill and domain
  History     \* successes and failures of the rows there are at the start

ASSUME TrustAssumption ==
  /\ DOMAIN History \subseteq Scored
  /\ History \in [DOMAIN History -> Nat \X Nat]

VARIABLE trust    \* rows of trust_scores

Level == 1..5

(* Human overrides are always 0, as no caller reports one; the flags for   *)
(* approval and review say again what the level is.                        *)
TrustState == [successes : Nat, failed : Nat, level : Level, anomaly : BOOLEAN]

(* calculateTrustScore, times 300 * (successes + failed + 10); recentHalf  *)
(* says that the recent success rate is the prior 1/2 and not 0, penalty   *)
(* is 60 - 2 * days for an anomaly less than 30 days old.                  *)
Score(s, f, recentHalf, penalty) ==
  LET samples == s + f + 10 IN
  180 * (s + 5) + (IF recentHalf THEN 60 * samples ELSE 0) - penalty * samples

(* getAutonomyLevel: 0.95, 0.85, 0.7 and 0.5 of the same scale.            *)
AutonomyLevel(score, samples) ==
  IF score >= 285 * samples THEN 5
  ELSE IF score >= 255 * samples THEN 4
  ELSE IF score >= 210 * samples THEN 3
  ELSE IF score >= 150 * samples THEN 2
  ELSE 1

LevelOf(row, recentHalf, penalty) ==
  AutonomyLevel(Score(row.successes, row.failed, recentHalf, penalty),
                row.successes + row.failed + 10)

(* Of a past anomaly any age may be found.                                 *)
Penalty(row) == IF row.anomaly THEN {60 - 2 * days : days \in 0..30} ELSE {0}

NoRow == [successes |-> 0, failed |-> 0, level |-> 1, anomaly |-> FALSE]

Rescored(row, recentHalf, penalty) ==
  [row EXCEPT !.level = LevelOf(row, recentHalf, penalty)]

Counted(row, ok) ==
  [row EXCEPT !.successes = @ + (IF ok THEN 1 ELSE 0), !.failed = @ + (IF ok THEN 0 ELSE 1)]

(* updateTrustMetrics.  A new row is not scored.  The recent success rate  *)
(* is looked up in audit entries by the names of skill and domain, which   *)
(* no entry of a completed task holds and one of a failed task may, in its *)
(* error: it is the prior or 0.                                            *)
UpdateTrustMetrics(k, ok) ==
  \/ /\ k \notin DOMAIN trust
     /\ trust' = [x \in DOMAIN trust \cup {k} |->
                    IF x = k THEN Counted(NoRow, ok) ELSE trust[x]]
  \/ /\ k \in DOMAIN trust
     /\ \E recentHalf \in BOOLEAN, penalty \in Penalty(trust[k]) :
          trust' = [trust EXCEPT ![k] = Rescored(Counted(@, ok), recentHalf, penalty)]

(* recordAnomaly: the row is dated and keeps its level.                    *)
RecordAnomaly(k) ==
  trust' = [x \in DOMAIN trust \cup {k} |->
              IF x # k THEN trust[x]
              ELSE [(IF k \in DOMAIN trust THEN trust[k] ELSE NoRow) EXCEPT !.anomaly = TRUE]]

-----------------------------------------------------------------------------

TrustInit ==
  trust = [k \in DOMAIN History |->
             Rescored([NoRow EXCEPT !.successes = History[k][1], !.failed = History[k][2]],
                      TRUE, 0)]

TrustStep ==
  /\ Request
  /\ \E k \in Scored :
       \/ \E ok \in BOOLEAN : UpdateTrustMetrics(k, ok)
       \/ RecordAnomaly(k)
  /\ UNCHANGED <<mishaps, hurt>>

=============================================================================
