------------------------------ MODULE Governor ------------------------------
(***************************************************************************)
(* What holds the agent back besides the kill switches: the rate limiter   *)
(* (governance/rate-limiter.ts), the anomaly detector that looks at the    *)
(* agent's recent actions (governance/anomaly-detector.ts), both asked by  *)
(* canExecute (governance/control-plane.ts).                               *)
(*                                                                         *)
(* Tasks overlap: canExecute awaits the limiter, the task awaits a model.  *)
(* The limiter and the recent actions live in memory and are lost when the *)
(* program stops.                                                          *)
(***************************************************************************)
EXTENDS Integers, Sequences, FiniteSets, SequencesExt

CONSTANTS
  Call,          \* tasks in flight at once
  Skill,         \* what a task is classified as
  HighRisk,      \* determineRiskLevel: the others are 'medium'
  HighPoints,    \* RATE_LIMITS of high and of medium risk
  MediumPoints,
  Hour,          \* the window of the limiter
  Minute,        \* the window of rapid fire and of results
  MinActions,    \* 5: fewer actions are not judged
  InARow,        \* 3 consecutive failures
  RapidFire,     \* 10 actions in a minute
  MinForRate,    \* 10: fewer have no failure rate
  KeepActions,   \* 100 actions are remembered
  MaxTasks,      \* bound: tasks let through the limiter
  LastMoment,    \* bound: the clock
  MaxRestarts    \* bound: restarts of the program

ASSUME GovernorAssumption ==
  /\ HighRisk \subseteq Skill
  /\ {HighPoints, MediumPoints, Hour, Minute, MinActions, InARow, RapidFire,
      MinForRate, KeepActions, MaxTasks, LastMoment, MaxRestarts} \subseteq Nat
  /\ 0 < InARow /\ 2 * InARow <= MinForRate + 1 /\ Minute <= Hour

VARIABLES
  now,        \* the clock
  restarts,   \* how often the program was stopped
  window,     \* of each skill's limiter: when it opened, and the points used
  recent,     \* the agent's recent actions
  call,       \* what each task in flight is at
  admitted    \* (history) when tasks of a skill were let through the limiter

governorVars == <<now, restarts, window, recent, call, admitted>>

Idle == [phase |-> "idle"]
CallState == [phase : {"metered", "running"}, skill : Skill] \cup {Idle}

Action == [skill : Skill, at : Nat, ok : BOOLEAN]

-----------------------------------------------------------------------------
(* The anomaly detector.                                                   *)

(* countConsecutiveFailures, from the latest action backwards.             *)
FailuresInARow ==
  Cardinality({i \in DOMAIN recent : \A j \in i..Len(recent) : ~recent[j].ok})

(* countActionsInWindow.                                                   *)
ActionsInTheLastMinute == Cardinality({i \in DOMAIN recent : now - recent[i].at < Minute})

Failed == Cardinality({i \in DOMAIN recent : ~recent[i].ok})

(* detectSequenceAnomaly.                                                  *)
SequenceAnomaly ==
  /\ Len(recent) >= MinActions
  /\ \/ FailuresInARow >= InARow
     \/ ActionsInTheLastMinute > RapidFire
     \/ 2 * Failed > Len(recent) /\ Len(recent) >= MinForRate

(* trackAction: a success until it is known to be none.                    *)
TrackAction(s) ==
  LET tracked == Append(recent, [skill |-> s, at |-> now, ok |-> TRUE]) IN
  recent' = IF Len(tracked) > KeepActions THEN Tail(tracked) ELSE tracked

(* recordActionResult: the oldest action of the kind in the last minute.   *)
RecordActionResult(s, ok) ==
  LET fresh == {i \in DOMAIN recent : recent[i].skill = s /\ recent[i].at > now - Minute}
      first == CHOOSE i \in fresh : \A j \in fresh : i <= j IN
  recent' = IF fresh = {} THEN recent ELSE [recent EXCEPT ![first].ok = ok]

-----------------------------------------------------------------------------

GovernorInit ==
  /\ now = 0 /\ restarts = 0
  /\ window = [s \in Skill |-> [opened |-> 0 - Hour, used |-> 0]]
  /\ recent = << >>
  /\ call = [c \in Call |-> Idle]
  /\ admitted = [s \in Skill |-> << >>]

(* Seeded fault: the windows are the hours of the clock.                   *)
CurrentByTheClock(s) ==
  IF now \div Hour = window[s].opened \div Hour THEN window[s]
  ELSE [opened |-> now, used |-> 0]

(* The limiter's window of a skill, reopened if it has expired.            *)
Current(s) ==
  IF now < window[s].opened + Hour THEN window[s] ELSE [opened |-> now, used |-> 0]

Points(s) == IF s \in HighRisk THEN HighPoints ELSE MediumPoints

Meter(s) ==
  window' = [window EXCEPT ![s] = [opened |-> Current(s).opened, used |-> Current(s).used + 1]]

(* How many tasks were let through.                                        *)
Tasks == FoldFunctionOnSet(LAMBDA a, n : Len(a) + n, 0, admitted, Skill)

(* canExecute up to the await of the limiter, which takes its point at     *)
(* once.  A task over the limit is blocked.                                *)
CanExecute(c, s) ==
  /\ call[c] = Idle
  /\ Tasks < MaxTasks
  /\ Current(s).used < Points(s)
  /\ Meter(s)
  /\ call' = [call EXCEPT ![c] = [phase |-> "metered", skill |-> s]]
  /\ admitted' = [admitted EXCEPT ![s] = Append(@, <<now, restarts>>)]
  /\ UNCHANGED <<now, restarts, recent>>

(* checkForAnomalies, for skills of high risk: the task is blocked.        *)
CheckForAnomalies(c) ==
  /\ call[c].phase = "metered"
  /\ call[c].skill \in HighRisk /\ SequenceAnomaly
  /\ call' = [call EXCEPT ![c] = Idle]
  /\ UNCHANGED <<now, restarts, window, recent, admitted>>

(* The action is allowed, tracked and started.                             *)
Start(c) ==
  /\ call[c].phase = "metered"
  /\ ~(call[c].skill \in HighRisk /\ SequenceAnomaly)
  /\ TrackAction(call[c].skill)
  /\ call' = [call EXCEPT ![c].phase = "running"]
  /\ UNCHANGED <<now, restarts, window, admitted>>

(* The skill has answered, with a result or an error.                      *)
Finish(c, ok) ==
  /\ call[c].phase = "running"
  /\ RecordActionResult(call[c].skill, ok)
  /\ call' = [call EXCEPT ![c] = Idle]
  /\ UNCHANGED <<now, restarts, window, admitted>>

(* It throws: the detector does not hear of it.                            *)
Throw(c) ==
  /\ call[c].phase = "running"
  /\ call' = [call EXCEPT ![c] = Idle]
  /\ UNCHANGED <<now, restarts, window, recent, admitted>>

Tick ==
  /\ now < LastMoment
  /\ now' = now + 1
  /\ UNCHANGED <<restarts, window, recent, call, admitted>>

(* The program stops, however it does, and starts again.                   *)
Relaunch ==
  /\ restarts < MaxRestarts
  /\ restarts' = restarts + 1
  /\ window' = [s \in Skill |-> [opened |-> now - Hour, used |-> 0]]
  /\ recent' = << >>
  /\ call' = [c \in Call |-> Idle]
  /\ UNCHANGED <<now, admitted>>

GovernorNext ==
  \/ Tick
  \/ Relaunch
  \/ \E c \in Call :
       \/ \E s \in Skill : CanExecute(c, s)
       \/ CheckForAnomalies(c)
       \/ Start(c)
       \/ \E ok \in BOOLEAN : Finish(c, ok)
       \/ Throw(c)

GovernorSpec == GovernorInit /\ [][GovernorNext]_governorVars

-----------------------------------------------------------------------------

GovernorTypeOK ==
  /\ now \in Nat /\ restarts \in Nat
  /\ window \in [Skill -> [opened : Int, used : Nat]]
  /\ recent \in Seq(Action)
  /\ call \in [Call -> CallState]
  /\ admitted \in [Skill -> Seq(Nat \X Nat)]

(* The limiter bounds the work the agent does in any hour, not only in its *)
(* own: a window opens with its first point, so that between two starts of *)
(* the program any stretch of an hour holds less than twice the points     *)
(* (rate-limiter.ts:57-84).                                                *)
RateIsBounded ==
  \A s \in Skill : \A i, j \in DOMAIN admitted[s] :
    /\ i <= j
    /\ admitted[s][i][2] = admitted[s][j][2]
    /\ admitted[s][j][1] - admitted[s][i][1] < Hour
    => j - i + 1 < 2 * Points(s)

=============================================================================
