---------------------------- MODULE Agent_proofs ----------------------------
(***************************************************************************)
(* No task is held by two calls of processNextTask, no task is drafted or  *)
(* billed twice, none is left running or completed without a review for no *)
(* reason, for any number of tasks, overlapping calls, crashes, orderly    *)
(* stops and store faults; and the governor lets no skill do more than     *)
(* twice its points in any hour, for any limits, clock and restarts.       *)
(*                                                                         *)
(* The processor and the governor are specifications of their own: the     *)
(* one is about TaskProcessor's Spec, the other about GovernorSpec.        *)
(***************************************************************************)
EXTENDS TaskProcessor, Governor, TLAPS

-----------------------------------------------------------------------------
(* The three shapes a step of a call can have.                             *)

(* It keeps or takes its task and produces nothing.                        *)
Advances(w, t) ==
  /\ Mark(t, "running")
  /\ \E label \in {"classifying", "alerting", "executing"} : Goto(w, label, t)
  /\ UNCHANGED <<reviews, bills, up>>

(* It lets go of its task, with at most one review and one bill for it.    *)
Outcome(t, s, n, m) ==
  /\ Mark(t, s)
  /\ reviews' = [reviews EXCEPT ![t] = n]
  /\ bills' = [bills EXCEPT ![t] = m]
  /\ m <= n
  /\ n = 1 => s # "running"

LetsGo(w, t) ==
  /\ \E s \in {"running", "completed", "failed"}, n, m \in {0, 1} : Outcome(t, s, n, m)
  /\ Return(w)
  /\ UNCHANGED up

(* The process dies under it after the output was saved.                   *)
IsCutOff(w, t) ==
  /\ \E n, m \in {0, 1} : Outcome(t, "completed", n, m)
  /\ UNCHANGED workers
  /\ up' = FALSE

CallStep ==
  \E w \in Worker, t \in Task :
    /\ up
    /\ \/ job[w] = t
       \/ job[w] = NoTask /\ OldestPending(t)
    /\ Advances(w, t) \/ LetsGo(w, t) \/ IsCutOff(w, t)

(* What the variables outside those shapes keep.                           *)
Aside ==
  /\ saved \subseteq Task /\ wrapFailed \subseteq Task
  /\ killed \subseteq Switch
  /\ cache \in [Switch -> {"none", "on", "off"}]
  /\ CacheIsTrue
  /\ stopping \in BOOLEAN /\ up \in BOOLEAN
  /\ crashes \in Nat /\ stops \in Nat /\ faults \in Nat

(* A task that a call holds or may take has produced nothing yet.          *)
LEMMA HeldIsBlank ==
  ASSUME IInv, up, NEW w \in Worker, NEW t \in Task,
         job[w] = t \/ OldestPending(t)
  PROVE  reviews[t] = 0 /\ bills[t] = 0
<1>1. ASSUME job[w] = t
      PROVE  task[t] = "running"
  <2>1. t # NoTask
    BY TaskAssumption
  <2>2. QED
    BY <1>1, <2>1, Zenon DEF IInv, OneWorkerPerTask
<1>2. OldestPending(t) => task[t] = "pending"
  BY DEF OldestPending
<1>3. QED
  BY <1>1, <1>2 DEF IInv, UnsettledIsBlank

(* Refusing a task, or failing to, lets go of it without output.           *)
LEMMA RefuseLetsGo ==
  ASSUME IInv, NEW w \in Worker, NEW t \in Task, Refuse(w, t),
         reviews' = [reviews EXCEPT ![t] = 0], bills' = [bills EXCEPT ![t] = 0],
         UNCHANGED up
  PROVE  LetsGo(w, t)
<1>1. Return(w) /\ \E s \in {"running", "failed"} : Mark(t, s)
  BY DEF Refuse, Catch
<1>2. PICK s \in {"running", "failed"} : Mark(t, s)
  BY <1>1
<1>3. Outcome(t, s, 0, 0)
  BY <1>2 DEF Outcome
<1>4. QED
  BY <1>1, <1>3 DEF LetsGo

(* Picking a task up (tasks.ts:85-115, processor.ts:85-139).               *)
LEMMA PickUpIsCallStep ==
  ASSUME IInv, NEW w \in Worker, NEW t \in Task, PickUp(w, t)
  PROVE  CallStep
<1>0. up
  BY Zenon DEF PickUp
<1>1. job[w] = NoTask /\ OldestPending(t) /\ UNCHANGED <<reviews, bills, up>>
  BY DEF PickUp, IInv, WorkersAreConsistent, process
<1>2. reviews' = [reviews EXCEPT ![t] = 0] /\ bills' = [bills EXCEPT ![t] = 0]
  <2>1. reviews[t] = 0 /\ bills[t] = 0
    BY <1>0, <1>1, HeldIsBlank
  <2>2. QED
    BY <1>1, <2>1 DEF IInv, TypeOK
<1>3. CASE Mark(t, "running") /\ Goto(w, "classifying", t)
  BY <1>0, <1>1, <1>3 DEF CallStep, Advances
<1>4. CASE Refuse(w, t)
  BY <1>0, <1>1, <1>2, <1>4, RefuseLetsGo DEF CallStep
<1>5. CASE /\ Mark(t, "running")
           /\ Goto(w, "alerting", t) \/ Goto(w, "executing", t)
  BY <1>0, <1>1, <1>5 DEF CallStep, Advances
<1>6. CASE MatterReadFails(w, t)
  <2>1. Outcome(t, "running", 0, 0) /\ Return(w)
    BY <1>2, <1>6 DEF MatterReadFails, Outcome
  <2>2. QED
    BY <1>0, <1>1, <2>1 DEF CallStep, LetsGo
<1>7. QED
  BY <1>3, <1>4, <1>5, <1>6 DEF PickUp, EnterGate, Allowed

(* The answers of classifier and gate (processor.ts:115-166).              *)
LEMMA AnswerIsCallStep ==
  ASSUME IInv, NEW w \in Worker, Classified(w) \/ AlertSent(w)
  PROVE  CallStep
<1> DEFINE t == job[w]
<1>0. up
  BY Zenon DEF Classified, AlertSent
<1>1. t \in Task /\ UNCHANGED <<reviews, bills, up>>
  BY DEF Classified, AlertSent, IInv, WorkersAreConsistent, TypeOK, process
<1>2. task[t] = "running" /\ task = [task EXCEPT ![t] = "running"]
  <2>1. t # NoTask /\ task \in [Task -> {"none", "pending", "running", "completed", "failed"}]
    BY <1>1, TaskAssumption DEF IInv, TypeOK
  <2>2. task[t] = "running"
    BY <2>1, Zenon DEF IInv, OneWorkerPerTask, Classified, AlertSent
  <2>3. QED
    BY <1>1, <2>1, <2>2
<1>3. reviews' = [reviews EXCEPT ![t] = 0] /\ bills' = [bills EXCEPT ![t] = 0]
  <2>1. reviews[t] = 0 /\ bills[t] = 0
    BY <1>1, <1>2 DEF IInv, UnsettledIsBlank
  <2>2. QED
    BY <1>1, <2>1 DEF IInv, TypeOK
<1>4. CASE Refuse(w, t)
  BY <1>0, <1>1, <1>3, <1>4, RefuseLetsGo DEF CallStep
<1>5. CASE /\ Mark(t, "running")
           /\ Goto(w, "alerting", t) \/ Goto(w, "executing", t)
  BY <1>0, <1>1, <1>5 DEF CallStep, Advances
<1>6. QED
  BY <1>4, <1>5 DEF Classified, AlertSent, EnterGate, Allowed

(* Whichever way the skill returns (processor.ts:174-310).                 *)
LEMMA SkillReturnIsCallStep ==
  ASSUME IInv, NEW w \in Worker, SkillReturns(w)
  PROVE  CallStep
<1> DEFINE t == job[w]
<1>0. up
  BY Zenon DEF SkillReturns
<1>1. t \in Task
  BY DEF SkillReturns, IInv, WorkersAreConsistent, TypeOK
<1>2. reviews[t] = 0 /\ bills[t] = 0
  BY <1>0, <1>1, HeldIsBlank
<1>3. reviews \in [Task -> Nat] /\ bills \in [Task -> Nat]
  BY DEF IInv, TypeOK
<1>4. /\ UNCHANGED reviews => reviews' = [reviews EXCEPT ![t] = 0]
      /\ Enqueue(t) => reviews' = [reviews EXCEPT ![t] = 1]
      /\ UNCHANGED bills => bills' = [bills EXCEPT ![t] = 0]
      /\ Bill(t) => \E m \in {0, 1} : bills' = [bills EXCEPT ![t] = m]
  BY <1>1, <1>2, <1>3 DEF Enqueue, Bill
<1>p. ASSUME PartlyWrap(t)
      PROVE  \E n, m \in {0, 1} : m <= n /\ reviews' = [reviews EXCEPT ![t] = n]
                                         /\ bills' = [bills EXCEPT ![t] = m]
  <2>1. CASE UNCHANGED <<reviews, bills>>
    BY <1>4, <2>1
  <2>2. CASE Enqueue(t) /\ UNCHANGED bills
    BY <1>4, <2>2
  <2>3. CASE Enqueue(t) /\ Bill(t)
    BY <1>4, <2>3
  <2>4. QED
    BY <1>p, <2>1, <2>2, <2>3 DEF PartlyWrap
<1>5. CASE WrapSucceeds(w)
  <2>1. PICK m \in {0, 1} : bills' = [bills EXCEPT ![t] = m]
    BY <1>4, <1>5 DEF WrapSucceeds
  <2>2. Outcome(t, "completed", 1, m) /\ Return(w) /\ UNCHANGED up
    BY <1>4, <1>5, <2>1 DEF WrapSucceeds, Outcome, process
  <2>3. QED
    BY <1>0, <1>1, <2>2 DEF CallStep, LetsGo
<1>6. CASE WrapFails(w)
  <2>1. PICK n, m \in {0, 1} : m <= n /\ reviews' = [reviews EXCEPT ![t] = n]
                                      /\ bills' = [bills EXCEPT ![t] = m]
    BY <1>p, <1>6 DEF WrapFails
  <2>2. Outcome(t, "completed", n, m) /\ Return(w) /\ UNCHANGED up
    BY <1>6, <2>1 DEF WrapFails, Outcome, process
  <2>3. QED
    BY <1>0, <1>1, <2>2 DEF CallStep, LetsGo
<1>7. CASE WrapAuditFails(w)
  <2>1. PICK n, m \in {0, 1} : m <= n /\ reviews' = [reviews EXCEPT ![t] = n]
                                      /\ bills' = [bills EXCEPT ![t] = m]
    BY <1>p, <1>7 DEF WrapAuditFails
  <2>2. PICK s \in {"completed", "failed"} : Mark(t, s)
    BY <1>7 DEF WrapAuditFails, Catch
  <2>3. Outcome(t, s, n, m) /\ Return(w) /\ UNCHANGED up
    BY <1>7, <2>1, <2>2 DEF WrapAuditFails, Catch, Outcome, process
  <2>4. QED
    BY <1>0, <1>1, <2>3 DEF CallStep, LetsGo
<1>8. CASE TrustUpdateFails(w)
  <2>1. PICK n, m \in {0, 1} : m <= n /\ reviews' = [reviews EXCEPT ![t] = n]
                                      /\ bills' = [bills EXCEPT ![t] = m]
    BY <1>p, <1>8 DEF TrustUpdateFails, PartlyWrap
  <2>2. PICK s \in {"completed", "failed"} : Mark(t, s)
    BY <1>8 DEF TrustUpdateFails, Catch
  <2>3. Outcome(t, s, n, m) /\ Return(w) /\ UNCHANGED up
    BY <1>8, <2>1, <2>2 DEF TrustUpdateFails, Catch, Outcome, process
  <2>4. QED
    BY <1>0, <1>1, <2>3 DEF CallStep, LetsGo
<1>9. CASE SkillFails(w)
  <2>1. PICK s \in {"running", "failed"} : Mark(t, s)
    BY <1>9 DEF SkillFails, Catch
  <2>2. Outcome(t, s, 0, 0) /\ Return(w) /\ UNCHANGED up
    BY <1>4, <1>9, <2>1 DEF SkillFails, Catch, Outcome, process
  <2>3. QED
    BY <1>0, <1>1, <2>2 DEF CallStep, LetsGo
<1>10. CASE WrapIsCutOff(w)
  <2>1. PICK n, m \in {0, 1} : m <= n /\ reviews' = [reviews EXCEPT ![t] = n]
                                      /\ bills' = [bills EXCEPT ![t] = m]
    BY <1>p, <1>10 DEF WrapIsCutOff
  <2>2. Outcome(t, "completed", n, m) /\ UNCHANGED workers
    BY <1>10, <2>1 DEF WrapIsCutOff, Outcome
  <2>3. up' = FALSE
    BY <1>10, Zenon DEF WrapIsCutOff, Die
  <2>4. QED
    BY <1>0, <1>1, <2>2, <2>3 DEF CallStep, IsCutOff
<1>11. QED
  BY <1>5, <1>6, <1>7, <1>8, <1>9, <1>10 DEF SkillReturns

-----------------------------------------------------------------------------
(* What each shape does to the invariant.                                  *)

(* A call in flight owns its task: the two halves of OneWorkerPerTask.     *)
LEMMA Owns ==
  ASSUME IInv, NEW w \in Worker, job[w] # NoTask
  PROVE  /\ up => task[job[w]] = "running"
         /\ \A v \in Worker : job[v] = job[w] => v = w
  BY Zenon DEF IInv, OneWorkerPerTask

(* When w moves on task t, no other call holds t.                          *)
LEMMA NobodyElse ==
  ASSUME IInv, up, NEW w \in Worker, NEW t \in Task,
         job[w] = t \/ OldestPending(t),
         NEW v \in Worker, v # w
  PROVE  job[v] # t
<1>1. t # NoTask
  BY TaskAssumption
<1>2. SUFFICES ASSUME job[v] = t PROVE FALSE
  OBVIOUS
<1>3. task[t] = "running" /\ job[w] # t
  BY <1>1, <1>2, Owns, Zenon
<1>4. QED
  BY <1>3 DEF OldestPending

(* A call that keeps its task, or takes a pending one nobody holds.        *)
LEMMA AdvancesKeeps ==
  ASSUME IInv, Aside', up, NEW w \in Worker, NEW t \in Task,
         job[w] = t \/ OldestPending(t), Advances(w, t)
  PROVE  IInv'
<1>1. PICK label \in {"classifying", "alerting", "executing"} : Goto(w, label, t)
  BY DEF Advances
<1>2. TypeOK'
  <2>1. /\ task' \in [Task -> {"none", "pending", "running", "completed", "failed"}]
        /\ reviews' \in [Task -> Nat] /\ bills' \in [Task -> Nat]
        /\ pc' \in [Worker -> {"idle", "classifying", "alerting", "executing"}]
        /\ job' \in [Worker -> Task \cup {NoTask}]
    BY <1>1 DEF Advances, Goto, Mark, IInv, TypeOK
  <2>2. QED
    BY <2>1, Zenon DEF TypeOK, Aside
<1>3. t # NoTask
  BY TaskAssumption
<1>4. job'[w] = t /\ pc'[w] # "idle" /\ task'[t] = "running"
  BY <1>1 DEF Advances, Goto, Mark, IInv, TypeOK
<1>5. \A v \in Worker : v # w =>
        job'[v] = job[v] /\ pc'[v] = pc[v] /\ job[v] # t
  BY <1>1, NobodyElse DEF Goto, IInv, TypeOK
<1>6. \A u \in Task : u # t => task'[u] = task[u]
  BY DEF Advances, Mark, IInv, TypeOK
<1>7. OneWorkerPerTask'
  <2>1. SUFFICES ASSUME NEW x \in Worker, NEW v \in Worker, job'[x] # NoTask
                 PROVE  /\ job'[x] = job'[v] => x = v
                        /\ task'[job'[x]] = "running"
    BY Zenon DEF OneWorkerPerTask
  <2>2. CASE x = w
    BY <1>4, <1>5, <2>2
  <2>3. CASE x # w
    <3>1. job'[x] = job[x] /\ job[x] # t /\ job[x] \in Task
      BY <1>5, <2>1, <2>3 DEF IInv, TypeOK
    <3>2. task[job[x]] = "running" /\ \A y \in Worker : job[y] = job[x] => y = x
      BY <2>1, <3>1, Owns, Zenon
    <3>3. QED
      BY <1>4, <1>5, <1>6, <3>1, <3>2
  <2>4. QED
    BY <2>2, <2>3
<1>8. WorkersAreConsistent'
  BY <1>3, <1>4, <1>5 DEF IInv, WorkersAreConsistent
<1>9. UnsettledIsBlank' /\ DraftedAtMostOnce'
  <2>1. reviews[t] = 0 /\ bills[t] = 0 /\ UNCHANGED <<reviews, bills>>
    BY HeldIsBlank DEF Advances
  <2>2. QED
    BY <1>6, <2>1 DEF IInv, UnsettledIsBlank, DraftedAtMostOnce
<1>10. QED
  BY <1>2, <1>7, <1>8, <1>9 DEF Aside, IInv

(* An outcome keeps the counts in step.                                    *)
LEMMA OutcomeCounts ==
  ASSUME IInv, NEW t \in Task,
         NEW s \in {"running", "completed", "failed"},
         NEW n \in {0, 1}, NEW m \in {0, 1}, Outcome(t, s, n, m)
  PROVE  /\ task' \in [Task -> {"none", "pending", "running", "completed", "failed"}]
         /\ reviews' \in [Task -> Nat] /\ bills' \in [Task -> Nat]
         /\ \A u \in Task : u # t => task'[u] = task[u]
         /\ UnsettledIsBlank' /\ DraftedAtMostOnce'
<1>1. /\ task' \in [Task -> {"none", "pending", "running", "completed", "failed"}]
      /\ reviews' \in [Task -> Nat] /\ bills' \in [Task -> Nat]
      /\ task'[t] = s /\ reviews'[t] = n /\ bills'[t] = m
      /\ \A u \in Task : u # t =>
           task'[u] = task[u] /\ reviews'[u] = reviews[u] /\ bills'[u] = bills[u]
  BY DEF Outcome, Mark, IInv, TypeOK
<1>2. m <= n /\ (n = 1 => s # "running")
  BY DEF Outcome
<1>3. UnsettledIsBlank'
  BY <1>1, <1>2 DEF IInv, UnsettledIsBlank
<1>4. DraftedAtMostOnce'
  BY <1>1, <1>2 DEF IInv, DraftedAtMostOnce
<1>5. QED
  BY <1>1, <1>3, <1>4

(* A call that returns.                                                    *)
LEMMA LetsGoKeeps ==
  ASSUME IInv, Aside', up, NEW w \in Worker, NEW t \in Task,
         job[w] = t \/ OldestPending(t), LetsGo(w, t)
  PROVE  IInv'
<1>1. PICK s \in {"running", "completed", "failed"}, n \in {0, 1}, m \in {0, 1} :
        Outcome(t, s, n, m)
  BY DEF LetsGo
<1>2. /\ task' \in [Task -> {"none", "pending", "running", "completed", "failed"}]
      /\ reviews' \in [Task -> Nat] /\ bills' \in [Task -> Nat]
      /\ \A u \in Task : u # t => task'[u] = task[u]
      /\ UnsettledIsBlank' /\ DraftedAtMostOnce'
  BY <1>1, OutcomeCounts
<1>3. /\ pc' = [pc EXCEPT ![w] = "idle"]
      /\ job' = [job EXCEPT ![w] = NoTask]
  BY DEF LetsGo, Return, Goto
<1>4. /\ pc' \in [Worker -> {"idle", "classifying", "alerting", "executing"}]
      /\ job' \in [Worker -> Task \cup {NoTask}]
      /\ pc'[w] = "idle" /\ job'[w] = NoTask
      /\ \A v \in Worker : v # w => job'[v] = job[v] /\ pc'[v] = pc[v]
  BY <1>3 DEF IInv, TypeOK
<1>5. TypeOK'
  BY <1>2, <1>4, Zenon DEF TypeOK, Aside
<1>6. OneWorkerPerTask'
  <2>1. SUFFICES ASSUME NEW x \in Worker, NEW v \in Worker, job'[x] # NoTask
                 PROVE  /\ job'[x] = job'[v] => x = v
                        /\ task'[job'[x]] = "running"
    BY Zenon DEF OneWorkerPerTask
  <2>2. x # w /\ job'[x] = job[x] /\ job[x] # t /\ job[x] \in Task
    BY <1>4, <2>1, NobodyElse DEF IInv, TypeOK
  <2>3. task[job[x]] = "running" /\ \A y \in Worker : job[y] = job[x] => y = x
    BY <2>1, <2>2, Owns, Zenon
  <2>4. QED
    BY <1>2, <1>4, <2>1, <2>2, <2>3
<1>7. WorkersAreConsistent'
  BY <1>4 DEF IInv, WorkersAreConsistent
<1>8. QED
  BY <1>2, <1>5, <1>6, <1>7 DEF Aside, IInv

(* A call that is cut off: its job is forgotten at the restart.            *)
LEMMA CutOffKeeps ==
  ASSUME IInv, Aside', NEW w \in Worker, NEW t \in Task, IsCutOff(w, t)
  PROVE  IInv'
<1>1. PICK n \in {0, 1}, m \in {0, 1} : Outcome(t, "completed", n, m)
  BY DEF IsCutOff
<1>2. /\ task' \in [Task -> {"none", "pending", "running", "completed", "failed"}]
      /\ reviews' \in [Task -> Nat] /\ bills' \in [Task -> Nat]
      /\ UnsettledIsBlank' /\ DraftedAtMostOnce'
  BY <1>1, OutcomeCounts
<1>3. pc' = pc /\ job' = job
  BY DEF IsCutOff, workers
<1>4. TypeOK'
  BY <1>2, <1>3, Zenon DEF IInv, TypeOK, Aside
<1>5. OneWorkerPerTask'
  BY <1>3, Zenon DEF IInv, OneWorkerPerTask, IsCutOff
<1>6. WorkersAreConsistent'
  BY <1>3 DEF IInv, WorkersAreConsistent
<1>7. QED
  BY <1>2, <1>4, <1>5, <1>6 DEF Aside, IInv

LEMMA CallStepKeeps ==
  ASSUME IInv, Aside', CallStep
  PROVE  IInv'
  BY AdvancesKeeps, LetsGoKeeps, CutOffKeeps DEF CallStep

-----------------------------------------------------------------------------
(* The other actions.                                                      *)

(* createTask takes a fresh id (tasks.ts:35-67).                           *)
LEMMA CreateTaskKeeps ==
  ASSUME IInv, Aside', NEW t \in Task, CreateTask(t)
  PROVE  IInv'
<1>1. /\ task[t] = "none" /\ task' = [task EXCEPT ![t] = "pending"]
      /\ reviews' = reviews /\ bills' = bills /\ pc' = pc /\ job' = job
  BY DEF CreateTask, Mark, workers
<1>2. /\ task' \in [Task -> {"none", "pending", "running", "completed", "failed"}]
      /\ \A u \in Task : u # t => task'[u] = task[u]
  BY <1>1 DEF IInv, TypeOK
<1>3. TypeOK'
  BY <1>1, <1>2, Zenon DEF IInv, TypeOK, Aside
<1>4. OneWorkerPerTask'
  <2>1. SUFFICES ASSUME NEW x \in Worker, NEW v \in Worker, job[x] # NoTask
                 PROVE  /\ job[x] = job[v] => x = v
                        /\ task'[job[x]] = "running"
    BY <1>1, Zenon DEF OneWorkerPerTask
  <2>2. task[job[x]] = "running" /\ \A y \in Worker : job[y] = job[x] => y = x
    BY <2>1, Owns, Zenon DEF CreateTask
  <2>3. job[x] \in Task
    BY <2>1 DEF IInv, TypeOK
  <2>4. QED
    BY <1>1, <1>2, <2>2, <2>3
<1>5. WorkersAreConsistent'
  BY <1>1 DEF IInv, WorkersAreConsistent
<1>6. UnsettledIsBlank' /\ DraftedAtMostOnce'
  BY <1>1, <1>2 DEF IInv, UnsettledIsBlank, DraftedAtMostOnce
<1>7. QED
  BY <1>3, <1>4, <1>5, <1>6 DEF Aside, IInv

(* The kill switch, the signals and the crash touch no row and no call.    *)
LEMMA ProcessStepKeeps ==
  ASSUME IInv, Aside', UNCHANGED <<store, workers>>, up' => up
  PROVE  IInv'
<1>1. /\ task' = task /\ reviews' = reviews /\ bills' = bills
      /\ pc' = pc /\ job' = job
  BY DEF store, workers
<1>2. TypeOK'
  BY <1>1, Zenon DEF IInv, TypeOK, Aside
<1>3. OneWorkerPerTask'
  BY <1>1, Zenon DEF IInv, OneWorkerPerTask
<1>4. QED
  BY <1>1, <1>2, <1>3 DEF Aside, IInv, WorkersAreConsistent, UnsettledIsBlank, DraftedAtMostOnce

(* After a restart nobody holds anything.                                  *)
LEMMA RestartKeeps ==
  ASSUME IInv, Aside', Restart
  PROVE  IInv'
<1>1. /\ task' = task /\ reviews' = reviews /\ bills' = bills
      /\ pc' = [w \in Worker |-> "idle"] /\ job' = [w \in Worker |-> NoTask]
  BY DEF Restart, store
<1>2. /\ pc' \in [Worker -> {"idle", "classifying", "alerting", "executing"}]
      /\ job' \in [Worker -> Task \cup {NoTask}]
      /\ \A w \in Worker : pc'[w] = "idle" /\ job'[w] = NoTask
  BY <1>1
<1>3. TypeOK'
  BY <1>1, <1>2, Zenon DEF IInv, TypeOK, Aside
<1>4. OneWorkerPerTask'
  BY <1>2, Zenon DEF OneWorkerPerTask
<1>5. QED
  BY <1>1, <1>2, <1>3, <1>4
     DEF Aside, IInv, WorkersAreConsistent, UnsettledIsBlank, DraftedAtMostOnce

(* A check of the switches leaves true answers behind, and lets nothing    *)
(* pass when one is set.                                                   *)
LEMMA GateTruth ==
  ASSUME IInv, NEW w \in Worker, NEW t \in Task, EnterGate(w, t), UNCHANGED killed
  PROVE  /\ cache' \in [Switch -> {"none", "on", "off"}]
         /\ CacheIsTrue'
         /\ Allowed(w, t) => killed = {}
<1>1. /\ cache \in [Switch -> {"none", "on", "off"}]
      /\ killed \subseteq Switch
      /\ \A k \in Switch : Seen(k) <=> k \in killed
  BY DEF IInv, TypeOK, CacheIsTrue, Seen
<1>2. killed' = killed /\ CacheIsTrue
  BY DEF IInv
<1>3. CASE Seen("global") /\ cache' = [cache EXCEPT !["global"] = "on"]
  <2>1. "global" \in killed
    BY <1>1, <1>3 DEF Switch
  <2>2. cache' \in [Switch -> {"none", "on", "off"}] /\ CacheIsTrue'
    BY <1>1, <1>2, <1>3, <2>1 DEF CacheIsTrue
  <2>3. ~Allowed(w, t)
    BY <1>3 DEF Allowed, Switch
  <2>4. QED
    BY <2>2, <2>3
<1>4. CASE ~Seen("global") /\ Seen("agent") /\ cache' = [global |-> "off", agent |-> "on"]
  <2>1. "global" \notin killed /\ "agent" \in killed
    BY <1>1, <1>4 DEF Switch
  <2>2. cache' \in [Switch -> {"none", "on", "off"}] /\ CacheIsTrue'
    BY <1>2, <1>4, <2>1 DEF CacheIsTrue, Switch
  <2>3. ~Allowed(w, t)
    BY <1>4 DEF Allowed, Switch
  <2>4. QED
    BY <2>2, <2>3
<1>5. CASE Allowed(w, t)
  <2>1. killed = {} /\ cache' = [k \in Switch |-> "off"]
    BY <1>1, <1>5 DEF Allowed
  <2>2. QED
    BY <1>2, <2>1 DEF CacheIsTrue
<1>6. QED
  BY <1>3, <1>4, <1>5 DEF EnterGate, Blocked

(* The variables the shapes say nothing of keep their types.               *)
LEMMA AsideKept ==
  ASSUME IInv, Next
  PROVE  Aside'
<1>1. /\ saved \subseteq Task /\ wrapFailed \subseteq Task
      /\ crashes \in Nat /\ stops \in Nat /\ faults \in Nat
      /\ killed \subseteq Switch
      /\ cache \in [Switch -> {"none", "on", "off"}]
      /\ job \in [Worker -> Task \cup {NoTask}]
      /\ CacheIsTrue
  BY DEF IInv, TypeOK
<1>2. stopping \in BOOLEAN /\ up \in BOOLEAN
  BY Zenon DEF IInv, TypeOK
<1> DEFINE Written == /\ saved' \subseteq Task /\ wrapFailed' \subseteq Task
                      /\ crashes' \in Nat /\ stops' \in Nat /\ faults' \in Nat
           Flags == stopping' \in BOOLEAN /\ up' \in BOOLEAN
           Control == /\ killed' \subseteq Switch
                      /\ cache' \in [Switch -> {"none", "on", "off"}]
                      /\ CacheIsTrue'
<1>c. ASSUME UNCHANGED control PROVE Control
  BY <1>1, <1>c DEF control, CacheIsTrue
<1>3. ASSUME NEW t \in Task, CreateTask(t)
      PROVE  Written /\ Flags /\ Control
  <2>1. Written /\ Flags
    BY <1>1, <1>2, <1>3 DEF CreateTask, process
  <2>2. QED
    BY <1>3, <1>c, <2>1 DEF CreateTask
<1>4. ASSUME NEW w \in Worker, NEW t \in Task, PickUp(w, t)
      PROVE  Written /\ Flags /\ Control
  <2>1. Written /\ Flags
    BY <1>1, <1>2, <1>4
       DEF PickUp, EnterGate, Allowed, MatterReadFails, Refuse, Catch, Faulty, process
  <2>2. CASE EnterGate(w, t)
    BY <1>1, <1>4, <2>1, <2>2, GateTruth DEF PickUp
  <2>3. CASE UNCHANGED cache
    BY <1>4, <1>c, <2>1, <2>3 DEF PickUp, control
  <2>4. QED
    BY <1>4, <2>2, <2>3 DEF PickUp
<1>5. ASSUME NEW w \in Worker, Classified(w) \/ AlertSent(w)
      PROVE  Written /\ Flags /\ Control
  <2>1. Written /\ Flags
    BY <1>1, <1>2, <1>5
       DEF Classified, AlertSent, EnterGate, Allowed, Refuse, Catch, Faulty, process
  <2>2. CASE Classified(w)
    <3>1. job[w] \in Task
      BY <1>1, <2>2 DEF Classified, IInv, WorkersAreConsistent
    <3>2. QED
      BY <1>1, <2>1, <2>2, <3>1, GateTruth DEF Classified
  <2>3. CASE AlertSent(w)
    BY <1>c, <2>1, <2>3 DEF AlertSent
  <2>4. QED
    BY <1>5, <2>2, <2>3
<1>6. ASSUME NEW w \in Worker, SkillReturns(w)
      PROVE  Written /\ Flags /\ Control
  <2>1. job[w] \in Task
    BY <1>1, <1>6 DEF SkillReturns, IInv, WorkersAreConsistent
  <2>2. Written
    <3>1. CASE WrapSucceeds(w) \/ WrapFails(w)
      BY <1>1, <2>1, <3>1 DEF WrapSucceeds, WrapFails, Save, Faulty, process
    <3>2. CASE WrapAuditFails(w) \/ TrustUpdateFails(w)
      BY <1>1, <2>1, <3>2 DEF WrapAuditFails, TrustUpdateFails, Save, Catch, Faulty, process
    <3>3. CASE SkillFails(w) \/ WrapIsCutOff(w)
      BY <1>1, <2>1, <3>3 DEF SkillFails, WrapIsCutOff, Save, Catch, Faulty, Die, process
    <3>4. QED
      BY <1>6, <3>1, <3>2, <3>3 DEF SkillReturns
  <2>3. Flags
    BY <1>2, <1>6, Zenon
       DEF SkillReturns, WrapSucceeds, WrapFails, WrapAuditFails, TrustUpdateFails,
           SkillFails, WrapIsCutOff, Die, process
  <2>4. UNCHANGED control
    BY <1>6, Zenon
       DEF SkillReturns, WrapSucceeds, WrapFails, WrapAuditFails, TrustUpdateFails,
           SkillFails, WrapIsCutOff, Die
  <2>5. QED
    BY <1>c, <2>2, <2>3, <2>4
<1>7. ASSUME Shutdown \/ Exit \/ Crash
      PROVE  Written /\ Flags /\ Control
  <2>1. Written
    BY <1>1, <1>7 DEF Shutdown, Exit, Crash, Die, store
  <2>2. Flags /\ UNCHANGED control
    BY <1>2, <1>7, Zenon DEF Shutdown, Exit, Crash, Die
  <2>3. QED
    BY <1>c, <2>1, <2>2
<1>8. ASSUME NEW k \in Switch, EmergencyStop(k) \/ EnableAgent(k) \/ CacheExpires(k)
      PROVE  Written /\ Flags /\ Control
  <2>1. Written /\ UNCHANGED process
    BY <1>1, <1>8 DEF EmergencyStop, EnableAgent, CacheExpires, store, process
  <2>2. Flags
    BY <1>2, <2>1, Zenon DEF process
  <2>3. Control
    BY <1>1, <1>8 DEF EmergencyStop, EnableAgent, CacheExpires, CacheIsTrue
  <2>4. QED
    BY <2>1, <2>2, <2>3
<1>9. ASSUME Restart
      PROVE  Written /\ Flags /\ Control
  <2>1. Written /\ Control
    BY <1>1, <1>9 DEF Restart, store, CacheIsTrue
  <2>2. Flags
    BY <1>9, Zenon DEF Restart
  <2>3. QED
    BY <2>1, <2>2
<1>10. Written /\ Flags /\ Control
  BY <1>3, <1>4, <1>5, <1>6, <1>7, <1>8, <1>9 DEF Next
<1>11. QED
  BY <1>10 DEF Aside

-----------------------------------------------------------------------------

LEMMA InitInv == Init => IInv
<1>1. SUFFICES ASSUME Init PROVE IInv
  OBVIOUS
<1>2. TypeOK
  <2>1. stopping \in BOOLEAN /\ up \in BOOLEAN
    BY <1>1, Zenon DEF Init
  <2>2. /\ task \in [Task -> {"none", "pending", "running", "completed", "failed"}]
        /\ reviews \in [Task -> Nat] /\ bills \in [Task -> Nat]
        /\ saved \subseteq Task /\ wrapFailed \subseteq Task
        /\ pc \in [Worker -> {"idle", "classifying", "alerting", "executing"}]
        /\ job \in [Worker -> Task \cup {NoTask}]
        /\ killed \subseteq Switch
        /\ cache \in [Switch -> {"none", "on", "off"}]
        /\ crashes \in Nat /\ stops \in Nat /\ faults \in Nat
    BY <1>1 DEF Init
  <2>3. QED
    BY <2>1, <2>2, Zenon DEF TypeOK
<1>3. \A w \in Worker : pc[w] = "idle" /\ job[w] = NoTask
  BY <1>1 DEF Init
<1>4. OneWorkerPerTask /\ WorkersAreConsistent
  BY <1>3, Zenon DEF OneWorkerPerTask, WorkersAreConsistent
<1>5. UnsettledIsBlank /\ DraftedAtMostOnce /\ CacheIsTrue
  BY <1>1 DEF Init, UnsettledIsBlank, DraftedAtMostOnce, CacheIsTrue
<1>6. QED
  BY <1>2, <1>4, <1>5 DEF IInv

LEMMA NextInv == IInv /\ [Next]_vars => IInv'
<1>1. SUFFICES ASSUME IInv, [Next]_vars PROVE IInv'
  OBVIOUS
<1>2. CASE Next
  <2>1. Aside'
    BY <1>1, <1>2, AsideKept
  <2>2. ASSUME NEW t \in Task, CreateTask(t) PROVE IInv'
    BY <1>1, <2>1, <2>2, CreateTaskKeeps
  <2>3. ASSUME NEW w \in Worker, NEW t \in Task, PickUp(w, t) PROVE IInv'
    BY <1>1, <2>1, <2>3, PickUpIsCallStep, CallStepKeeps
  <2>4. ASSUME NEW w \in Worker, Classified(w) \/ AlertSent(w) PROVE IInv'
    BY <1>1, <2>1, <2>4, AnswerIsCallStep, CallStepKeeps
  <2>5. ASSUME NEW w \in Worker, SkillReturns(w) PROVE IInv'
    BY <1>1, <2>1, <2>5, SkillReturnIsCallStep, CallStepKeeps
  <2>6. ASSUME \/ Shutdown \/ Exit \/ Crash
               \/ \E k \in Switch : EmergencyStop(k) \/ EnableAgent(k) \/ CacheExpires(k)
        PROVE  IInv'
    <3>1. UNCHANGED <<store, workers>>
      BY <2>6, Zenon DEF EmergencyStop, EnableAgent, CacheExpires, Shutdown, Exit, Crash
    <3>2. up' => up
      <4>1. CASE Shutdown \/ Exit \/ Crash
        BY <4>1, Zenon DEF Shutdown, Exit, Crash
      <4>2. ASSUME NEW k \in Switch,
                   EmergencyStop(k) \/ EnableAgent(k) \/ CacheExpires(k)
            PROVE  up' = up
        BY <4>2 DEF EmergencyStop, EnableAgent, CacheExpires, process
      <4>3. QED
        BY <2>6, <4>1, <4>2, Zenon
    <3>3. QED
      BY <1>1, <2>1, <3>1, <3>2, ProcessStepKeeps
  <2>7. CASE Restart
    BY <1>1, <2>1, <2>7, RestartKeeps
  <2>8. QED
    BY <1>2, <2>2, <2>3, <2>4, <2>5, <2>6, <2>7 DEF Next
<1>3. CASE UNCHANGED vars
  BY <1>1, <1>3, Zenon
     DEF vars, store, workers, control, process, IInv, TypeOK, OneWorkerPerTask,
         WorkersAreConsistent, UnsettledIsBlank, DraftedAtMostOnce, CacheIsTrue
<1>4. QED
  BY <1>1, <1>2, <1>3

(* The strengthened invariant holds in every reachable state.              *)
THEOREM InvariantHolds == Spec => []IInv
  BY InitInv, NextInv, PTL DEF Spec

(* Every variable keeps its type, whatever the bounds.                     *)
THEOREM TypeCorrect == Spec => []TypeOK
<1>1. IInv => TypeOK
  BY DEF IInv
<1>2. QED
  BY <1>1, InvariantHolds, PTL

(* Overlapping calls of processNextTask never work on the same task, and a *)
(* task a call holds stays running until the call settles it               *)
(* (tasks.ts:80-115).                                                      *)
THEOREM CallsDoNotShare == Spec => []OneWorkerPerTask
<1>1. IInv => OneWorkerPerTask
  BY DEF IInv
<1>2. QED
  BY <1>1, InvariantHolds, PTL

(* A task yields at most one review and one bill, and no bill without its  *)
(* review, under any number of crashes and store faults                    *)
(* (processor.ts:174-310).                                                 *)
THEOREM NothingIsDraftedTwice == Spec => []DraftedAtMostOnce
<1>1. IInv => DraftedAtMostOnce
  BY DEF IInv
<1>2. QED
  BY <1>1, InvariantHolds, PTL

(* No skill is started while a kill switch is set, with the answer of the  *)
(* switch cached or not (control-plane.ts:83-132, processor.ts:115-172).   *)
THEOREM StopStopsNewSkills == Spec => KilledStartsNothing
<1> DEFINE Starts == \E w \in Worker : pc[w] # "executing" /\ pc'[w] = "executing"
           Honest == \A w \in Worker :
                       pc[w] # "executing" /\ pc'[w] = "executing" => killed = {}
<1>1. ASSUME IInv, Next PROVE Honest
  <2>1. SUFFICES ASSUME NEW v \in Worker, pc[v] # "executing", pc'[v] = "executing"
                 PROVE  killed = {}
    OBVIOUS
  <2>2. pc \in [Worker -> {"idle", "classifying", "alerting", "executing"}]
    BY <1>1 DEF IInv, TypeOK
  <2>3. ASSUME NEW w \in Worker, NEW t \in Task, EnterGate(w, t), UNCHANGED killed
        PROVE  killed = {}
    <3>1. ~Refuse(w, t)
      BY <2>1, <2>2 DEF Refuse, Catch, Return, Goto
    <3>2. QED
      BY <1>1, <2>3, <3>1, GateTruth DEF EnterGate
  <2>4. ASSUME NEW t \in Task, CreateTask(t) PROVE FALSE
    BY <2>1, <2>4 DEF CreateTask, workers
  <2>5. ASSUME NEW w \in Worker, NEW t \in Task, PickUp(w, t) PROVE killed = {}
    BY <2>1, <2>2, <2>3, <2>5 DEF PickUp, MatterReadFails, Return, Goto
  <2>6. ASSUME NEW w \in Worker, Classified(w) PROVE killed = {}
    <3>1. job[w] \in Task
      BY <1>1, <2>6 DEF Classified, IInv, TypeOK, WorkersAreConsistent
    <3>2. QED
      BY <2>3, <2>6, <3>1 DEF Classified
  <2>7. ASSUME NEW w \in Worker, AlertSent(w) PROVE FALSE
    BY <2>1, <2>2, <2>7 DEF AlertSent, Refuse, Catch, Return, Goto
  <2>8. ASSUME NEW w \in Worker, SkillReturns(w) PROVE FALSE
    <3>1. Return(w) \/ UNCHANGED workers
      BY <2>8, Zenon
         DEF SkillReturns, WrapSucceeds, WrapFails, WrapAuditFails, TrustUpdateFails,
             SkillFails, WrapIsCutOff, Catch
    <3>2. QED
      BY <2>1, <2>2, <3>1 DEF Return, Goto, workers
  <2>9. ASSUME \/ Shutdown \/ Exit \/ Crash
               \/ \E k \in Switch : EmergencyStop(k) \/ EnableAgent(k) \/ CacheExpires(k)
        PROVE  FALSE
    <3>1. UNCHANGED workers
      BY <2>9, Zenon DEF EmergencyStop, EnableAgent, CacheExpires, Shutdown, Exit, Crash
    <3>2. QED
      BY <2>1, <3>1 DEF workers
  <2>10. CASE Restart
    BY <2>1, <2>10 DEF Restart
  <2>11. QED
    BY <1>1, <2>4, <2>5, <2>6, <2>7, <2>8, <2>9, <2>10 DEF Next
<1>2. IInv /\ [Next]_vars => [Honest]_<<pc, killed>>
  <2>1. ASSUME UNCHANGED vars PROVE UNCHANGED <<pc, killed>>
    BY <2>1, Zenon DEF vars, workers, control
  <2>2. QED
    BY <1>1, <2>1
<1>3. QED
  BY <1>2, InvariantHolds, PTL DEF Spec, KilledStartsNothing

-----------------------------------------------------------------------------
(* What a call leaves behind.  The counts of mishaps never fall, so a      *)
(* state without one was only reached by steps without one.                *)

(* A call without a mishap: its task is still in its hands, or settled.    *)
KeepsOrSettles(w, t) ==
  \/ Mark(t, "running") /\ job' = [job EXCEPT ![w] = t]
  \/ /\ \E s \in {"completed", "failed"} : Mark(t, s)
     /\ job' = [job EXCEPT ![w] = NoTask]

LEMMA RefuseSettles ==
  ASSUME IInv, NEW w \in Worker, NEW t \in Task, Refuse(w, t), faults' = 0
  PROVE  KeepsOrSettles(w, t)
  BY DEF Refuse, Catch, Faulty, Return, Goto, KeepsOrSettles, IInv, TypeOK

LEMMA GateSettles ==
  ASSUME IInv, NEW w \in Worker, NEW t \in Task, EnterGate(w, t), faults' = 0
  PROVE  KeepsOrSettles(w, t)
<1>1. CASE Refuse(w, t)
  BY <1>1, RefuseSettles
<1>2. CASE Mark(t, "running") /\ (Goto(w, "alerting", t) \/ Goto(w, "executing", t))
  BY <1>2 DEF Goto, KeepsOrSettles
<1>3. QED
  BY <1>1, <1>2 DEF EnterGate, Allowed

LEMMA CallKeepsOrSettles ==
  ASSUME IInv, NEW w \in Worker,
         \/ \E t \in Task : PickUp(w, t)
         \/ Classified(w) \/ AlertSent(w) \/ SkillReturns(w),
         crashes' = 0, faults' = 0
  PROVE  \E t \in Task :
           /\ job[w] \in {t, NoTask}
           /\ KeepsOrSettles(w, t)
<1>1. ASSUME NEW t \in Task, PickUp(w, t)
      PROVE  job[w] = NoTask /\ KeepsOrSettles(w, t)
  <2>1. job[w] = NoTask
    BY <1>1 DEF PickUp, IInv, WorkersAreConsistent
  <2>2. CASE Mark(t, "running") /\ Goto(w, "classifying", t)
    BY <2>1, <2>2 DEF Goto, KeepsOrSettles
  <2>3. ~MatterReadFails(w, t)
    BY DEF MatterReadFails, Faulty, IInv, TypeOK
  <2>4. CASE EnterGate(w, t)
    BY <2>1, <2>4, GateSettles
  <2>5. QED
    BY <1>1, <2>1, <2>2, <2>3, <2>4 DEF PickUp
<1>2. ASSUME pc[w] # "idle" PROVE job[w] \in Task
  BY <1>2 DEF IInv, TypeOK, WorkersAreConsistent
<1>3. ASSUME Classified(w) \/ AlertSent(w)
      PROVE  job[w] \in Task /\ KeepsOrSettles(w, job[w])
  BY <1>2, <1>3, GateSettles, RefuseSettles DEF Classified, AlertSent
<1>4. ASSUME SkillReturns(w)
      PROVE  job[w] \in Task /\ KeepsOrSettles(w, job[w])
  <2>1. crashes \in Nat /\ faults \in Nat /\ job[w] \in Task
    BY <1>2, <1>4 DEF SkillReturns, IInv, TypeOK
  <2>2. ~WrapIsCutOff(w)
    BY <2>1 DEF WrapIsCutOff, Die
  <2>3. ~WrapFails(w) /\ ~WrapAuditFails(w) /\ ~TrustUpdateFails(w)
    BY <2>1 DEF WrapFails, WrapAuditFails, TrustUpdateFails, Catch, Faulty
  <2>4. CASE WrapSucceeds(w)
    BY <2>1, <2>4 DEF WrapSucceeds, Return, Goto, KeepsOrSettles
  <2>5. CASE SkillFails(w)
    BY <2>1, <2>5 DEF SkillFails, Catch, Faulty, Return, Goto, KeepsOrSettles
  <2>6. QED
    BY <1>4, <2>1, <2>2, <2>3, <2>4, <2>5 DEF SkillReturns
<1>5. QED
  BY <1>1, <1>3, <1>4

(* Such a call orphans nothing.                                            *)
LEMMA KeepsOrSettlesOrphansNothing ==
  ASSUME IInv, NEW w \in Worker, NEW t \in Task, job[w] \in {t, NoTask},
         KeepsOrSettles(w, t),
         \A u \in Task : ~Orphaned(u)
  PROVE  \A u \in Task : ~Orphaned(u)'
<1>1. /\ task \in [Task -> {"none", "pending", "running", "completed", "failed"}]
      /\ job \in [Worker -> Task \cup {NoTask}]
      /\ NoTask \notin Task
  BY TaskAssumption DEF IInv, TypeOK
<1>2. ASSUME NEW u \in Task, u # t, task'[u] = "running"
      PROVE  \E v \in Worker : job'[v] = u
  <2>1. task[u] = "running"
    BY <1>1, <1>2 DEF KeepsOrSettles, Mark
  <2>2. PICK v \in Worker : job[v] = u
    BY <2>1 DEF Orphaned, Held
  <2>3. v # w
    BY <1>1, <1>2, <2>2
  <2>4. job'[v] = u
    BY <1>1, <2>2, <2>3 DEF KeepsOrSettles
  <2>5. QED
    BY <2>4
<1>3. ASSUME task'[t] = "running"
      PROVE  job'[w] = t
  BY <1>1, <1>3 DEF KeepsOrSettles, Mark
<1>4. QED
  BY <1>2, <1>3 DEF Orphaned, Held

(* The counts only rise.                                                   *)
LEMMA MishapsCount ==
  ASSUME IInv, Next
  PROVE  /\ crashes' \in Nat /\ stops' \in Nat /\ faults' \in Nat
         /\ crashes' >= crashes /\ stops' >= stops /\ faults' >= faults
<1>0. crashes \in Nat /\ stops \in Nat /\ faults \in Nat
  BY DEF IInv, TypeOK
<1>1. ASSUME NEW t \in Task, CreateTask(t) PROVE UNCHANGED <<crashes, stops, faults>>
  BY <1>1 DEF CreateTask, process
<1>2. ASSUME NEW w \in Worker, NEW t \in Task, PickUp(w, t)
      PROVE  UNCHANGED <<crashes, stops>> /\ faults' >= faults /\ faults' \in Nat
  BY <1>0, <1>2
     DEF PickUp, EnterGate, Allowed, MatterReadFails, Refuse, Catch, Faulty, process
<1>3. ASSUME NEW w \in Worker, Classified(w) \/ AlertSent(w)
      PROVE  UNCHANGED <<crashes, stops>> /\ faults' >= faults /\ faults' \in Nat
  BY <1>0, <1>3
     DEF Classified, AlertSent, EnterGate, Allowed, Refuse, Catch, Faulty, process
<1>4. ASSUME NEW w \in Worker, SkillReturns(w)
      PROVE  /\ crashes' \in Nat /\ faults' \in Nat /\ stops' = stops
             /\ crashes' >= crashes /\ faults' >= faults
  <2>1. CASE WrapSucceeds(w) \/ WrapFails(w) \/ SkillFails(w)
    BY <1>0, <2>1 DEF WrapSucceeds, WrapFails, SkillFails, Catch, Faulty, process
  <2>2. CASE WrapAuditFails(w) \/ TrustUpdateFails(w)
    BY <1>0, <2>2 DEF WrapAuditFails, TrustUpdateFails, Catch, Faulty, process
  <2>3. CASE WrapIsCutOff(w)
    BY <1>0, <2>3 DEF WrapIsCutOff, Die
  <2>4. QED
    BY <1>4, <2>1, <2>2, <2>3 DEF SkillReturns
<1>5. ASSUME NEW k \in Switch, EmergencyStop(k) \/ EnableAgent(k) \/ CacheExpires(k)
      PROVE  UNCHANGED <<crashes, stops, faults>>
  BY <1>5 DEF EmergencyStop, EnableAgent, CacheExpires, process
<1>6. ASSUME Shutdown \/ Exit \/ Crash \/ Restart
      PROVE  /\ crashes' \in Nat /\ stops' \in Nat /\ faults' = faults
             /\ crashes' >= crashes /\ stops' >= stops
  BY <1>0, <1>6 DEF Shutdown, Exit, Crash, Die, Restart
<1>7. QED
  BY <1>0, <1>1, <1>2, <1>3, <1>4, <1>5, <1>6 DEF Next

LEMMA DownKeepsItsCause ==
  ASSUME IInv, DownHasACause, Next
  PROVE  DownHasACause'
<1>0. /\ crashes \in Nat /\ stops \in Nat /\ faults \in Nat
      /\ stops' >= stops /\ crashes' >= crashes
      /\ crashes' \in Nat /\ stops' \in Nat
  BY MishapsCount DEF IInv, TypeOK
<1>1. (stopping' => stopping) \/ stops' > 0
  <2>1. CASE Shutdown
    BY <1>0, <2>1 DEF Shutdown
  <2>2. CASE Restart
    BY <2>2, Zenon DEF Restart
  <2>3. ASSUME NEW w \in Worker, SkillReturns(w) PROVE stopping' = stopping
    BY <2>3, Zenon
       DEF SkillReturns, WrapSucceeds, WrapFails, WrapAuditFails, TrustUpdateFails,
           SkillFails, WrapIsCutOff, Die, process
  <2>4. ASSUME \/ \E t \in Task : CreateTask(t) \/ \E w \in Worker : PickUp(w, t)
               \/ \E w \in Worker : Classified(w) \/ AlertSent(w)
               \/ \E k \in Switch : EmergencyStop(k) \/ EnableAgent(k) \/ CacheExpires(k)
               \/ Exit \/ Crash
        PROVE  stopping' = stopping
    BY <2>4, Zenon
       DEF CreateTask, PickUp, Classified, AlertSent, EmergencyStop, EnableAgent,
           CacheExpires, Exit, Crash, Die, process
  <2>5. QED
    BY <2>1, <2>2, <2>3, <2>4, Zenon DEF Next
<1>2. (~up' => ~up) \/ crashes' > 0 \/ stops' > 0
  <2>1. CASE Exit
    <3>1. stops > 0
      BY <2>1, Zenon DEF Exit, DownHasACause
    <3>2. QED
      BY <1>0, <3>1
  <2>2. CASE Crash
    BY <1>0, <2>2 DEF Crash, Die
  <2>3. ASSUME NEW w \in Worker, WrapIsCutOff(w) PROVE crashes' > 0
    BY <1>0, <2>3 DEF WrapIsCutOff, Die
  <2>4. ASSUME NEW w \in Worker, SkillReturns(w), ~WrapIsCutOff(w) PROVE up' = up
    BY <2>4, Zenon
       DEF SkillReturns, WrapSucceeds, WrapFails, WrapAuditFails, TrustUpdateFails,
           SkillFails, process
  <2>5. ASSUME \/ \E t \in Task : CreateTask(t) \/ \E w \in Worker : PickUp(w, t)
               \/ \E w \in Worker : Classified(w) \/ AlertSent(w)
               \/ \E k \in Switch : EmergencyStop(k) \/ EnableAgent(k) \/ CacheExpires(k)
               \/ Shutdown
        PROVE  up' = up
    BY <2>5, Zenon
       DEF CreateTask, PickUp, Classified, AlertSent, EmergencyStop, EnableAgent,
           CacheExpires, Shutdown, process
  <2>6. CASE Restart
    BY <2>6, Zenon DEF Restart
  <2>7. QED
    BY <2>1, <2>2, <2>3, <2>4, <2>5, <2>6, Zenon DEF Next
<1>3. (stopping => stops > 0) /\ (~up => crashes > 0 \/ stops > 0)
  BY Zenon DEF DownHasACause
<1>4. stops > 0 => stops' > 0
  BY <1>0
<1>5. crashes > 0 => crashes' > 0
  BY <1>0
<1>6. QED
  BY <1>1, <1>2, <1>3, <1>4, <1>5, Zenon DEF DownHasACause

LEMMA OrphansKeepTheirCause ==
  ASSUME IInv, DownHasACause, OrphansHaveACause, Next
  PROVE  OrphansHaveACause'
<1>1. SUFFICES ASSUME crashes' = 0, stops' = 0, faults' = 0
               PROVE  \A t \in Task : ~Orphaned(t)'
  BY MishapsCount DEF OrphansHaveACause, Orphaned, Held
<1>2. crashes = 0 /\ stops = 0 /\ faults = 0
  BY <1>1, MishapsCount DEF IInv, TypeOK
<1>3. up /\ ~stopping
  <2>1. ~(stops > 0) /\ ~(crashes > 0)
    BY <1>2
  <2>2. QED
    BY <2>1, Zenon DEF DownHasACause
<1>4. \A t \in Task : ~Orphaned(t)
  BY <1>2 DEF OrphansHaveACause
<1>5. /\ task \in [Task -> {"none", "pending", "running", "completed", "failed"}]
      /\ job \in [Worker -> Task \cup {NoTask}]
  BY DEF IInv, TypeOK
<1>6. ASSUME NEW t \in Task, CreateTask(t)
      PROVE  \A u \in Task : ~Orphaned(u)'
  BY <1>4, <1>5, <1>6 DEF CreateTask, Mark, workers, Orphaned, Held
<1>7. ASSUME NEW w \in Worker,
             \/ \E t \in Task : PickUp(w, t)
             \/ Classified(w) \/ AlertSent(w) \/ SkillReturns(w)
      PROVE  \A u \in Task : ~Orphaned(u)'
  <2>1. PICK t \in Task : job[w] \in {t, NoTask} /\ KeepsOrSettles(w, t)
    BY <1>1, <1>7, CallKeepsOrSettles
  <2>2. QED
    BY <1>4, <2>1, KeepsOrSettlesOrphansNothing
<1>8. ASSUME \E k \in Switch : EmergencyStop(k) \/ EnableAgent(k) \/ CacheExpires(k)
      PROVE  \A u \in Task : ~Orphaned(u)'
  BY <1>4, <1>8
     DEF EmergencyStop, EnableAgent, CacheExpires, store, workers, Orphaned, Held
<1>9. ~Shutdown /\ ~Crash
  BY <1>1, <1>2 DEF Shutdown, Crash, Die
<1>10. ~Exit /\ ~Restart
  BY <1>3, Zenon DEF Exit, Restart
<1>11. QED
  BY <1>6, <1>7, <1>8, <1>9, <1>10 DEF Next

(* A task left running by nobody was left by a crash, an orderly stop or a *)
(* statement that threw: without one of them every running task is in the  *)
(* hands of a call (tasks.ts:80-115, processor.ts:85-310).                 *)
THEOREM NobodyLosesATaskUnprovoked == Spec => []OrphansHaveACause
<1>1. Init => DownHasACause /\ OrphansHaveACause
  <2>1. ASSUME Init PROVE OrphansHaveACause
    BY <2>1 DEF Init, OrphansHaveACause, Orphaned
  <2>2. ASSUME Init PROVE DownHasACause
    BY <2>2, Zenon DEF Init, DownHasACause
  <2>3. QED
    BY <2>1, <2>2
<1>2. /\ IInv /\ DownHasACause /\ OrphansHaveACause
      /\ [Next]_vars
      => (DownHasACause /\ OrphansHaveACause)'
  <2>1. SUFFICES ASSUME IInv, DownHasACause, OrphansHaveACause, [Next]_vars
                 PROVE  (DownHasACause /\ OrphansHaveACause)'
    OBVIOUS
  <2>2. CASE Next
    BY <2>1, <2>2, DownKeepsItsCause, OrphansKeepTheirCause
  <2>3. CASE UNCHANGED vars
    <3>1. /\ task' = task /\ job' = job /\ faults' = faults
          /\ crashes' = crashes /\ stops' = stops
          /\ up' = up /\ stopping' = stopping
      BY <2>3, Zenon DEF vars, store, workers, process
    <3>2. DownHasACause'
      BY <2>1, <3>1, Zenon DEF DownHasACause
    <3>3. OrphansHaveACause'
      BY <2>1, <3>1 DEF OrphansHaveACause, Orphaned, Held
    <3>4. QED
      BY <3>2, <3>3
  <2>4. QED
    BY <2>1, <2>2, <2>3
<1>3. QED
  BY <1>1, <1>2, InvariantHolds, PTL DEF Spec

-----------------------------------------------------------------------------
(* A completed task has its review, or the failure to get one on record.   *)

LEMMA WrapStaysDone ==
  ASSUME IInv, Next, NEW t \in Task, Wrapped(t)
  PROVE  Wrapped(t)'
<1>0. reviews \in [Task -> Nat]
  BY DEF IInv, TypeOK
<1>1. ASSUME NEW w \in Worker, SkillReturns(w) PROVE Wrapped(t)'
  <2>1. wrapFailed \subseteq wrapFailed'
    BY <1>1
       DEF SkillReturns, WrapSucceeds, WrapFails, WrapAuditFails, TrustUpdateFails,
           SkillFails, WrapIsCutOff
  <2>2. reviews' = reviews \/ Enqueue(job[w])
    BY <1>1, Zenon
       DEF SkillReturns, WrapSucceeds, WrapFails, WrapAuditFails, TrustUpdateFails,
           SkillFails, WrapIsCutOff, PartlyWrap
  <2>3. reviews[t] > 0 => reviews'[t] > 0
    BY <1>0, <2>2 DEF Enqueue
  <2>4. QED
    BY <2>1, <2>3 DEF Wrapped
<1>2. ASSUME ~ \E w \in Worker : SkillReturns(w)
      PROVE  UNCHANGED <<reviews, wrapFailed>>
  BY <1>2, Zenon
     DEF Next, CreateTask, PickUp, Classified, AlertSent, EmergencyStop, EnableAgent,
         CacheExpires, Shutdown, Exit, Crash, Restart, store
<1>3. QED
  BY <1>1, <1>2 DEF Wrapped

LEMMA CompletionIsWrapped ==
  ASSUME IInv, Next, crashes' = 0, faults' < 2,
         NEW t \in Task, task[t] # "completed", task'[t] = "completed"
  PROVE  Wrapped(t)'
<1>0. /\ task \in [Task -> {"none", "pending", "running", "completed", "failed"}]
      /\ reviews \in [Task -> Nat]
      /\ crashes \in Nat /\ faults \in Nat
  BY DEF IInv, TypeOK
<1>1. PICK w \in Worker : SkillReturns(w)
  <2>1. ASSUME NEW u \in Task, CreateTask(u) PROVE FALSE
    BY <1>0, <2>1 DEF CreateTask, Mark
  <2>2. ASSUME NEW w \in Worker, NEW u \in Task, PickUp(w, u) PROVE FALSE
    BY <1>0, <2>2 DEF PickUp, EnterGate, Allowed, MatterReadFails, Refuse, Catch, Mark
  <2>3. ASSUME NEW w \in Worker, Classified(w) \/ AlertSent(w) PROVE FALSE
    BY <1>0, <2>3 DEF Classified, AlertSent, EnterGate, Allowed, Refuse, Catch, Mark
  <2>4. ASSUME \/ \E k \in Switch : EmergencyStop(k) \/ EnableAgent(k) \/ CacheExpires(k)
               \/ Shutdown \/ Exit \/ Crash \/ Restart
        PROVE  task' = task
    BY <2>4, Zenon
       DEF EmergencyStop, EnableAgent, CacheExpires, Shutdown, Exit, Crash, Restart, store
  <2>5. QED
    BY <2>1, <2>2, <2>3, <2>4 DEF Next
<1>2. ~WrapIsCutOff(w) /\ ~WrapAuditFails(w)
  BY <1>0 DEF WrapIsCutOff, Die, WrapAuditFails, Catch, Faulty
<1>3. ~SkillFails(w)
  BY <1>0 DEF SkillFails, Catch, Mark
<1>4. t = job[w]
  BY <1>0, <1>1, <1>2, <1>3
     DEF SkillReturns, WrapSucceeds, WrapFails, TrustUpdateFails, Catch, Mark
<1>5. Enqueue(t) => reviews'[t] > 0
  BY <1>0 DEF Enqueue
<1>6. Enqueue(t) \/ t \in wrapFailed'
  BY <1>1, <1>2, <1>3, <1>4
     DEF SkillReturns, WrapSucceeds, WrapFails, TrustUpdateFails
<1>7. QED
  BY <1>5, <1>6 DEF Wrapped

(* Unless the process died or two statements threw, a completed task has a *)
(* review, or an audit row says why it has none (processor.ts:186-239).    *)
THEOREM CompletedIsWrappedOrLoud == Spec => []OutputIsWrappedOrLoud
<1>1. Init => OutputIsWrappedOrLoud
  BY DEF Init, OutputIsWrappedOrLoud
<1>2. IInv /\ OutputIsWrappedOrLoud /\ [Next]_vars => OutputIsWrappedOrLoud'
  <2>1. SUFFICES ASSUME IInv, OutputIsWrappedOrLoud, [Next]_vars,
                        crashes' = 0, faults' < 2,
                        NEW t \in Task, task'[t] = "completed"
                 PROVE  Wrapped(t)'
    BY DEF OutputIsWrappedOrLoud, Wrapped
  <2>2. CASE Next
    <3>1. crashes = 0 /\ faults < 2
      BY <2>1, <2>2, MishapsCount DEF IInv, TypeOK
    <3>2. CASE task[t] = "completed"
      BY <2>1, <2>2, <3>1, <3>2, WrapStaysDone DEF OutputIsWrappedOrLoud
    <3>3. CASE task[t] # "completed"
      BY <2>1, <2>2, <3>3, CompletionIsWrapped
    <3>4. QED
      BY <3>2, <3>3
  <2>3. CASE UNCHANGED vars
    BY <2>1, <2>3 DEF vars, store, process, OutputIsWrappedOrLoud, Wrapped
  <2>4. QED
    BY <2>1, <2>2, <2>3
<1>3. QED
  BY <1>1, <1>2, InvariantHolds, PTL DEF Spec

-----------------------------------------------------------------------------
(* What makes RateIsBounded inductive.  The tasks a skill's window let     *)
(* through are the latest ones; the first of them opened it.  Of the tasks *)
(* before it, those of the last hour before it opened came late in one     *)
(* older window.                                                           *)

Rest(s) == Len(admitted[s]) - window[s].used

WindowIsFull(s) ==
  /\ window[s].used <= Len(admitted[s]) /\ window[s].used <= Points(s)
  /\ window[s].opened <= now
  /\ \A i \in DOMAIN admitted[s] :
       i > Rest(s) => admitted[s][i][2] = restarts /\ admitted[s][i][1] >= window[s].opened
  /\ window[s].used > 0 => admitted[s][Rest(s) + 1][1] = window[s].opened
  /\ window[s].used = 0 => window[s].opened + Hour <= now

OlderTasks(s) ==
  \A i \in DOMAIN admitted[s] :
    /\ admitted[s][i][1] <= now /\ admitted[s][i][2] <= restarts
    /\ i <= Rest(s) /\ admitted[s][i][2] = restarts =>
         /\ admitted[s][i][1] <= window[s].opened
         /\ admitted[s][i][1] > window[s].opened - Hour => Rest(s) - i + 1 < Points(s)

RateTyped ==
  /\ now \in Nat /\ restarts \in Nat
  /\ window \in [Skill -> [opened : Int, used : Nat]]
  /\ admitted \in [Skill -> Seq(Nat \X Nat)]

RateInv ==
  /\ RateTyped
  /\ \A s \in Skill : WindowIsFull(s) /\ OlderTasks(s)
  /\ RateIsBounded

LEMMA PointsAreNatural == \A s \in Skill : Points(s) \in Nat /\ Hour \in Nat
  BY GovernorAssumption DEF Points

LEMMA TasksAreTyped ==
  ASSUME RateTyped, NEW s \in Skill
  PROVE  /\ window[s] \in [opened : Int, used : Nat]
         /\ window[s].opened \in Int /\ window[s].used \in Nat
         /\ admitted[s] \in Seq(Nat \X Nat)
         /\ Len(admitted[s]) \in Nat /\ DOMAIN admitted[s] = 1..Len(admitted[s])
         /\ Rest(s) \in Int
         /\ \A k \in DOMAIN admitted[s] : admitted[s][k][1] \in Nat /\ admitted[s][k][2] \in Nat
<1>1. window[s] \in [opened : Int, used : Nat] /\ admitted[s] \in Seq(Nat \X Nat)
  BY DEF RateTyped
<1>2. Len(admitted[s]) \in Nat /\ DOMAIN admitted[s] = 1..Len(admitted[s])
  BY <1>1
<1>3. ASSUME NEW k \in DOMAIN admitted[s]
      PROVE  admitted[s][k][1] \in Nat /\ admitted[s][k][2] \in Nat
  <2>1. admitted[s][k] \in Nat \X Nat
    BY <1>1, <1>2
  <2>2. QED
    BY <2>1
<1>4. QED
  BY <1>1, <1>2, <1>3 DEF Rest

LEMMA RateStaysBounded == RateInv /\ [GovernorNext]_governorVars => RateInv'
<1>0. SUFFICES ASSUME RateInv, [GovernorNext]_governorVars PROVE RateInv'
  OBVIOUS
<1>1. RateTyped /\ \A s \in Skill : WindowIsFull(s) /\ OlderTasks(s)
  BY <1>0 DEF RateInv
<1>2. ASSUME UNCHANGED <<now, restarts, window, admitted>> PROVE RateInv'
  BY <1>0, <1>2
     DEF RateInv, RateTyped, WindowIsFull, OlderTasks, Rest, RateIsBounded
<1>3. CASE Tick
  <2>1. now' = now + 1 /\ UNCHANGED <<restarts, window, admitted>>
    BY <1>3 DEF Tick
  <2>2. RateTyped' /\ RateIsBounded'
    BY <1>0, <2>1 DEF RateInv, RateTyped, RateIsBounded
  <2>3. ASSUME NEW s \in Skill PROVE WindowIsFull(s)' /\ OlderTasks(s)'
    <3>1. now \in Nat /\ Points(s)' = Points(s) /\ Rest(s)' = Rest(s)
      BY <1>1, <2>1 DEF RateTyped, Points, Rest
    <3>2. WindowIsFull(s)'
      <4>1. window[s].opened <= now' /\ (window[s].used = 0 => window[s].opened + Hour <= now')
        BY <1>1, <2>1, <3>1, TasksAreTyped, PointsAreNatural DEF WindowIsFull
      <4>2. QED
        BY <1>1, <2>1, <3>1, <4>1 DEF WindowIsFull
    <3>3. OlderTasks(s)'
      BY <1>1, <2>1, <3>1, TasksAreTyped DEF OlderTasks
    <3>4. QED
      BY <3>2, <3>3
  <2>4. QED
    BY <2>2, <2>3 DEF RateInv
<1>4. CASE Relaunch
  <2>1. /\ restarts' = restarts + 1 /\ UNCHANGED <<now, admitted>>
        /\ window' = [s \in Skill |-> [opened |-> now - Hour, used |-> 0]]
    BY <1>4 DEF Relaunch
  <2>2. RateTyped' /\ RateIsBounded'
    BY <1>0, <2>1, PointsAreNatural DEF RateInv, RateTyped, RateIsBounded
  <2>3. ASSUME NEW s \in Skill PROVE WindowIsFull(s)' /\ OlderTasks(s)'
    <3>1. /\ admitted[s] \in Seq(Nat \X Nat) /\ now \in Nat /\ restarts \in Nat
          /\ window'[s] = [opened |-> now - Hour, used |-> 0]
          /\ Points(s) \in Nat /\ Hour \in Nat
      BY <1>1, <2>1, PointsAreNatural DEF RateTyped
    <3>2. Points(s)' = Points(s)
      BY DEF Points
    <3>3. WindowIsFull(s)'
      BY <2>1, <3>1, <3>2 DEF WindowIsFull, Rest
    <3>4. \A k \in DOMAIN admitted[s] :
            admitted[s][k][1] <= now /\ admitted[s][k][2] <= restarts /\ admitted[s][k][2] \in Nat
      BY <1>1, <3>1 DEF OlderTasks
    <3>5. OlderTasks(s)'
      BY <2>1, <3>1, <3>4 DEF OlderTasks
    <3>6. QED
      BY <3>3, <3>5
  <2>4. QED
    BY <2>2, <2>3 DEF RateInv
<1>5. ASSUME NEW c \in Call, NEW s \in Skill, CanExecute(c, s) PROVE RateInv'
  (* The window from here on, and how many tasks came before it.           *)
  <2>1. /\ window[s] \in [opened : Int, used : Nat] /\ window[s].opened \in Int /\ window[s].used \in Nat
        /\ now \in Nat /\ restarts \in Nat
        /\ Points(s) \in Nat /\ Hour \in Nat
    BY <1>1, PointsAreNatural, TasksAreTyped DEF RateTyped
  <2>2. PICK n \in Nat : n = Len(admitted[s])
    BY <1>1, TasksAreTyped
  <2>3. PICK at \in [1..n -> Nat], on \in [1..n -> Nat] :
          \A k \in 1..n : at[k] = admitted[s][k][1] /\ on[k] = admitted[s][k][2]
    <3>1. [k \in 1..n |-> admitted[s][k][1]] \in [1..n -> Nat]
      BY <1>1, <2>2, TasksAreTyped
    <3>2. [k \in 1..n |-> admitted[s][k][2]] \in [1..n -> Nat]
      BY <1>1, <2>2, TasksAreTyped
    <3>3. QED
      BY <3>1, <3>2
  <2>4. \A k \in 1..n : at[k] \in Nat /\ on[k] \in Nat /\ at[k] <= now /\ on[k] <= restarts
    BY <1>1, <2>2, <2>3, TasksAreTyped DEF OlderTasks
  <2>5. PICK old \in 0..n : old = Rest(s) /\ window[s].used = n - old
    <3>1. window[s].used <= n /\ Rest(s) = n - window[s].used
      BY <1>1, <2>2 DEF WindowIsFull, Rest
    <3>2. n - window[s].used \in 0..n /\ window[s].used = n - (n - window[s].used)
      BY <2>1, <3>1
    <3>3. QED
      BY <3>1, <3>2
  <2>6. /\ \A k \in 1..n : k > old => on[k] = restarts /\ at[k] >= window[s].opened
        /\ old < n => at[old + 1] = window[s].opened
        /\ n - old <= Points(s) /\ window[s].opened <= now
        /\ old = n => window[s].opened + Hour <= now
    <3>1. WindowIsFull(s) /\ DOMAIN admitted[s] = 1..n
      BY <1>1, <2>2, TasksAreTyped
    <3>2. \A k \in 1..n : k > old => on[k] = restarts /\ at[k] >= window[s].opened
      BY <2>3, <2>5, <3>1 DEF WindowIsFull
    <3>3. old < n => at[old + 1] = window[s].opened
      <4>1. ASSUME old < n PROVE old + 1 \in 1..n /\ window[s].used > 0
        BY <2>5, <4>1
      <4>2. QED
        BY <2>3, <2>5, <3>1, <4>1 DEF WindowIsFull
    <3>4. n - old <= Points(s) /\ window[s].opened <= now
      BY <2>5, <3>1 DEF WindowIsFull
    <3>5. ASSUME old = n PROVE window[s].opened + Hour <= now
      <4>1. window[s].used = 0
        BY <2>5, <3>5
      <4>2. QED
        BY <3>1, <4>1 DEF WindowIsFull
    <3>6. QED
      BY <3>2, <3>3, <3>4, <3>5
  <2>7. \A k \in 1..n : k <= old /\ on[k] = restarts =>
          at[k] <= window[s].opened /\ (at[k] > window[s].opened - Hour => old - k + 1 < Points(s))
    BY <1>1, <2>1, <2>2, <2>3, <2>5, TasksAreTyped DEF OlderTasks
  <2>8. PICK o \in Int, cut \in 0..n :
          /\ Current(s) = [opened |-> o, used |-> n - cut]
          /\ \/ now < window[s].opened + Hour /\ o = window[s].opened /\ cut = old
             \/ now >= window[s].opened + Hour /\ o = now /\ cut = n
    <3>1. CASE now < window[s].opened + Hour
      <4>1. Current(s) = [opened |-> window[s].opened, used |-> n - old]
        BY <2>1, <2>5, <3>1 DEF Current
      <4>2. QED
        BY <2>1, <3>1, <4>1
    <3>2. CASE ~(now < window[s].opened + Hour)
      <4>1. Current(s) = [opened |-> now, used |-> n - n]
        BY <2>1, <3>2 DEF Current
      <4>2. now >= window[s].opened + Hour /\ now \in Int /\ n \in 0..n
        BY <2>1, <3>2
      <4>3. QED
        BY <4>1, <4>2
    <3>3. QED
      BY <3>1, <3>2
  <2>9. /\ n - cut < Points(s) /\ UNCHANGED <<now, restarts>>
        /\ admitted' = [admitted EXCEPT ![s] = Append(@, <<now, restarts>>)]
        /\ window' = [window EXCEPT ![s] = [opened |-> o, used |-> n - cut + 1]]
    <3>1. Current(s).opened = o /\ Current(s).used = n - cut
      BY <2>8
    <3>2. QED
      BY <1>5, <2>8, <3>1 DEF CanExecute, Meter
  <2>10. /\ \A k \in 1..n : k > cut => on[k] = restarts /\ at[k] >= o
         /\ cut < n => at[cut + 1] = o
         /\ o <= now
    BY <2>6, <2>8
  <2>11. \A k \in 1..n : k <= cut /\ on[k] = restarts =>
           at[k] <= o /\ (at[k] > o - Hour => cut - k + 1 < Points(s))
    <3>1. CASE now < window[s].opened + Hour
      <4>1. o = window[s].opened /\ cut = old
        BY <2>1, <2>8, <3>1
      <4>2. QED
        BY <2>7, <4>1
    <3>2. CASE now >= window[s].opened + Hour
      <4>1. o = now /\ cut = n
        BY <2>1, <2>8, <3>2
      <4>2. SUFFICES ASSUME NEW k \in 1..n, on[k] = restarts, at[k] > now - Hour
                     PROVE  n - k + 1 < Points(s)
        BY <2>4, <4>1
      <4>3. at[k] > window[s].opened
        BY <2>1, <2>4, <3>2, <4>2
      <4>4. k > old + 1
        <5>1. k > old
          <6>1. ASSUME k <= old PROVE at[k] <= window[s].opened
            BY <2>7, <4>2, <6>1
          <6>2. at[k] \in Nat /\ k \in Int /\ old \in Int
            BY <2>4
          <6>3. QED
            BY <2>1, <4>3, <6>1, <6>2
        <5>2. k # old + 1
          <6>1. ASSUME k = old + 1 PROVE at[k] = window[s].opened
            <7>1. old < n
              BY <2>2, <2>5, <6>1
            <7>2. QED
              BY <2>6, <6>1, <7>1
          <6>2. at[k] # window[s].opened
            BY <2>1, <2>4, <4>3
          <6>3. QED
            BY <6>1, <6>2
        <5>3. QED
          BY <5>1, <5>2
      <4>5. QED
        BY <2>1, <2>5, <2>6, <4>4
    <3>3. QED
      <4>1. now < window[s].opened + Hour \/ now >= window[s].opened + Hour
        BY <2>1
      <4>2. QED
        BY <3>1, <3>2, <4>1
  (* The state after the step.                                             *)
  <2>12. RateTyped'
    <3>1. <<now, restarts>> \in Nat \X Nat
      BY <2>1
    <3>2. admitted' \in [Skill -> Seq(Nat \X Nat)]
      BY <1>1, <2>9, <3>1 DEF RateTyped
    <3>3. n - cut + 1 \in Nat
      BY <2>8
    <3>4. QED
      BY <1>1, <2>8, <2>9, <3>2, <3>3 DEF RateTyped
  <2>13. /\ window'[s] = [opened |-> o, used |-> n - cut + 1]
         /\ admitted'[s] = Append(admitted[s], <<now, restarts>>)
         /\ \A x \in Skill \ {s} : window'[x] = window[x] /\ admitted'[x] = admitted[x]
    BY <1>1, <2>9 DEF RateTyped
  <2>14. /\ Len(admitted'[s]) = n + 1 /\ DOMAIN admitted'[s] = 1..(n + 1)
         /\ admitted'[s][n + 1] = <<now, restarts>>
         /\ \A k \in 1..n : admitted'[s][k][1] = at[k] /\ admitted'[s][k][2] = on[k]
    BY <1>1, <2>2, <2>3, <2>13, TasksAreTyped
  <2>15. Rest(s)' = cut
    <3>1. window'[s].used = n - cut + 1
      BY <2>13
    <3>2. n \in Int /\ cut \in Int /\ (n + 1) - (n - cut + 1) = cut
      BY <2>2, <2>8
    <3>3. QED
      BY <2>14, <3>1, <3>2 DEF Rest
  <2>16. Points(s)' = Points(s)
    BY DEF Points
  <2>17. \A k \in 1..(n + 1) : k \in 1..n \/ k = n + 1
    OBVIOUS
  <2>18. WindowIsFull(s)'
    <3>1. ASSUME NEW k \in 1..(n + 1), k > cut
          PROVE  admitted'[s][k][2] = restarts /\ admitted'[s][k][1] >= o
      <4>1. CASE k = n + 1
        BY <2>1, <2>10, <2>14, <4>1
      <4>2. CASE k \in 1..n
        BY <2>10, <2>14, <3>1, <4>2
      <4>3. QED
        BY <2>17, <4>1, <4>2
    <3>2. admitted'[s][cut + 1][1] = o
      <4>1. CASE cut < n
        BY <2>2, <2>8, <2>10, <2>14, <4>1
      <4>2. CASE cut = n
        <5>1. o = now
          BY <2>1, <2>6, <2>8, <4>2
        <5>2. QED
          BY <2>14, <4>2, <5>1
      <4>3. QED
        BY <2>8, <4>1, <4>2
    <3>3. QED
      <4>1. /\ n - cut + 1 <= n + 1 /\ n - cut + 1 <= Points(s)
            /\ n - cut + 1 > 0 /\ n - cut + 1 # 0
        BY <2>1, <2>8, <2>9
      <4>2. QED
        <5>1. /\ window'[s].used = n - cut + 1 /\ window'[s].opened = o
              /\ Len(admitted'[s]) = n + 1 /\ DOMAIN admitted'[s] = 1..(n + 1)
          BY <2>13, <2>14
        <5>2. now' = now /\ restarts' = restarts /\ o <= now
          BY <2>9, <2>10
        <5>3. QED
          BY <2>15, <2>16, <3>1, <3>2, <4>1, <5>1, <5>2 DEF WindowIsFull
  <2>19. OlderTasks(s)'
    <3>1. ASSUME NEW k \in 1..(n + 1)
          PROVE  admitted'[s][k][1] <= now /\ admitted'[s][k][2] <= restarts
      <4>1. CASE k = n + 1
        BY <2>1, <2>14, <4>1
      <4>2. CASE k \in 1..n
        BY <2>4, <2>14, <4>2
      <4>3. QED
        BY <2>17, <4>1, <4>2
    <3>2. ASSUME NEW k \in 1..(n + 1), k <= cut, admitted'[s][k][2] = restarts
          PROVE  /\ admitted'[s][k][1] <= o
                 /\ admitted'[s][k][1] > o - Hour => cut - k + 1 < Points(s)
      <4>1. k \in 1..n
        BY <3>2
      <4>2. QED
        BY <2>11, <2>14, <3>2, <4>1
    <3>3. QED
      BY <2>2, <2>8, <2>9, <2>13, <2>14, <2>15, <2>16, <3>1, <3>2 DEF OlderTasks
  <2>20. ASSUME NEW x \in Skill \ {s} PROVE WindowIsFull(x)' /\ OlderTasks(x)'
    BY <1>1, <2>9, <2>13 DEF WindowIsFull, OlderTasks, Rest, Points
  <2>21. RateIsBounded'
    <3>1. ASSUME NEW i \in 1..n, on[i] = restarts, now - at[i] < Hour
          PROVE  (n + 1) - i + 1 < 2 * Points(s)
      <4>1. CASE i > cut
        BY <2>1, <2>8, <2>9, <4>1
      <4>2. CASE i <= cut
        <5>1. at[i] > o - Hour
          BY <2>1, <2>4, <2>10, <3>1
        <5>2. cut - i + 1 < Points(s)
          BY <2>11, <3>1, <4>2, <5>1
        <5>3. QED
          BY <2>1, <2>8, <2>9, <5>2
      <4>3. QED
        BY <2>8, <4>1, <4>2
    <3>2. ASSUME NEW i \in 1..(n + 1), NEW j \in 1..(n + 1), i <= j,
                 admitted'[s][i][2] = admitted'[s][j][2],
                 admitted'[s][j][1] - admitted'[s][i][1] < Hour
          PROVE  j - i + 1 < 2 * Points(s)
      <4>1. CASE j = n + 1 /\ i = n + 1
        BY <2>1, <2>8, <2>9, <4>1
      <4>2. CASE j = n + 1 /\ i \in 1..n
        BY <2>2, <2>9, <2>14, <3>1, <3>2, <4>2
      <4>3. CASE j \in 1..n
        <5>1. i \in 1..n
          BY <3>2, <4>3
        <5>2. admitted[s][i][2] = admitted[s][j][2] /\ admitted[s][j][1] - admitted[s][i][1] < Hour
          BY <2>2, <2>3, <2>14, <3>2, <4>3, <5>1
        <5>3. i \in DOMAIN admitted[s] /\ j \in DOMAIN admitted[s]
          BY <1>1, <2>2, <4>3, <5>1, TasksAreTyped
        <5>4. QED
          BY <1>0, <3>2, <5>2, <5>3 DEF RateInv, RateIsBounded
      <4>4. QED
        BY <2>17, <4>1, <4>2, <4>3
    <3>3. ASSUME NEW x \in Skill \ {s}, NEW i \in DOMAIN admitted'[x], NEW j \in DOMAIN admitted'[x],
                 i <= j, admitted'[x][i][2] = admitted'[x][j][2],
                 admitted'[x][j][1] - admitted'[x][i][1] < Hour
          PROVE  j - i + 1 < 2 * Points(x)
      BY <1>0, <2>13, <3>3 DEF RateInv, RateIsBounded
    <3>4. QED
      BY <2>14, <3>2, <3>3 DEF RateIsBounded, Points
  <2>22. QED
    BY <2>12, <2>18, <2>19, <2>20, <2>21 DEF RateInv
<1>6. ASSUME NEW c \in Call,
             CheckForAnomalies(c) \/ Start(c) \/ (\E ok \in BOOLEAN : Finish(c, ok)) \/ Throw(c)
      PROVE  RateInv'
  BY <1>2, <1>6 DEF CheckForAnomalies, Start, Finish, Throw
<1>7. CASE UNCHANGED governorVars
  BY <1>2, <1>7 DEF governorVars
<1>8. QED
  BY <1>0, <1>3, <1>4, <1>5, <1>6, <1>7 DEF GovernorNext

(* RateIsBounded, for any limits, hour, calls and restarts.                *)
THEOREM HoursAreBounded == GovernorSpec => []RateIsBounded
<1>1. GovernorInit => RateInv
  BY PointsAreNatural
     DEF GovernorInit, RateInv, RateTyped, WindowIsFull, OlderTasks, Rest, RateIsBounded
<1>2. RateInv => RateIsBounded
  BY DEF RateInv
<1>3. QED
  BY <1>1, <1>2, RateStaysBounded, PTL DEF GovernorSpec

-----------------------------------------------------------------------------

(* An action that is marked is still an action.                            *)
LEMMA RecentIsMarked ==
  ASSUME NEW list \in Seq(Action), NEW i, NEW ok \in BOOLEAN
  PROVE  [list EXCEPT ![i].ok = ok] \in Seq(Action)
<1> DEFINE marked == [list EXCEPT ![i].ok = ok]
<1>1. Len(list) \in Nat /\ DOMAIN list = 1..Len(list)
  OBVIOUS
<1>2. \A j \in 1..Len(list) : list[j] \in Action
  BY <1>1
<1>3. \A a \in Action : [a EXCEPT !.ok = ok] \in Action
  BY DEF Action
<1>4. DOMAIN marked = 1..Len(list)
  BY <1>1
<1>5. ASSUME NEW j \in 1..Len(list) PROVE marked[j] \in Action
  <2>1. marked[j] = IF j = i THEN [list[j] EXCEPT !.ok = ok] ELSE list[j]
    BY <1>1
  <2>2. QED
    BY <1>2, <1>3, <2>1
<1> HIDE DEF marked
<1>6. marked = [j \in 1..Len(list) |-> marked[j]]
  BY <1>4, <1>5 DEF marked
<1>7. [j \in 1..Len(list) |-> marked[j]] \in Seq(Action)
  BY <1>1, <1>5
<1>8. QED
  BY <1>6, <1>7 DEF marked

LEMMA GovernorTypesStay ==
  ASSUME GovernorTypeOK, [GovernorNext]_governorVars PROVE GovernorTypeOK'
<1>1. CASE Tick
  BY <1>1 DEF Tick, GovernorTypeOK
<1>2. CASE Relaunch
  <2>1. Hour \in Nat /\ now \in Nat /\ restarts \in Nat
    BY GovernorAssumption DEF GovernorTypeOK
  <2>2. now - Hour \in Int
    BY <2>1
  <2>3. window' \in [Skill -> [opened : Int, used : Nat]]
    BY <1>2, <2>2 DEF Relaunch
  <2>4. call' \in [Call -> CallState]
    BY <1>2 DEF Relaunch, CallState
  <2>5. recent' \in Seq(Action) /\ restarts' \in Nat
    BY <1>2, <2>1 DEF Relaunch
  <2>6. QED
    BY <1>2, <2>3, <2>4, <2>5 DEF Relaunch, GovernorTypeOK
<1>3. ASSUME NEW c \in Call, NEW s \in Skill, CanExecute(c, s) PROVE GovernorTypeOK'
  <2>1. window[s] \in [opened : Int, used : Nat] /\ now \in Nat /\ restarts \in Nat
    BY DEF GovernorTypeOK
  <2>2. Current(s).opened \in Int /\ Current(s).used + 1 \in Nat
    <3>1. Current(s).opened \in Int /\ Current(s).used \in Nat
      BY <2>1 DEF Current
    <3>2. QED
      BY <3>1
  <2>3. window' \in [Skill -> [opened : Int, used : Nat]]
    BY <1>3, <2>2 DEF CanExecute, Meter, GovernorTypeOK
  <2>4. call' \in [Call -> CallState]
    BY <1>3 DEF CanExecute, CallState, GovernorTypeOK
  <2>5. admitted' \in [Skill -> Seq(Nat \X Nat)]
    <3>1. admitted[s] \in Seq(Nat \X Nat) /\ <<now, restarts>> \in Nat \X Nat
      BY <2>1 DEF GovernorTypeOK
    <3>2. Append(admitted[s], <<now, restarts>>) \in Seq(Nat \X Nat)
      BY <3>1
    <3>3. QED
      BY <1>3, <3>2 DEF CanExecute, GovernorTypeOK
  <2>6. QED
    BY <1>3, <2>3, <2>4, <2>5 DEF CanExecute, GovernorTypeOK
<1>4. ASSUME NEW c \in Call, CheckForAnomalies(c) \/ Throw(c) PROVE GovernorTypeOK'
  <2>1. call' \in [Call -> CallState]
    BY <1>4 DEF CheckForAnomalies, Throw, CallState, GovernorTypeOK
  <2>2. QED
    BY <1>4, <2>1 DEF CheckForAnomalies, Throw, GovernorTypeOK
<1>5. ASSUME NEW c \in Call, call[c].phase \in {"metered", "running"}
      PROVE  call[c] \in [phase : {"metered", "running"}, skill : Skill]
  BY <1>5 DEF GovernorTypeOK, CallState, Idle
<1>6. ASSUME NEW c \in Call, Start(c) PROVE GovernorTypeOK'
  <2>1. call[c] \in [phase : {"metered", "running"}, skill : Skill]
    BY <1>5, <1>6 DEF Start
  <2>2. call' \in [Call -> CallState]
    BY <1>6, <2>1 DEF Start, CallState, GovernorTypeOK
  <2>3. recent' \in Seq(Action)
    <3> DEFINE tracked == Append(recent, [skill |-> call[c].skill, at |-> now, ok |-> TRUE])
    <3>1. [skill |-> call[c].skill, at |-> now, ok |-> TRUE] \in Action
      BY <2>1 DEF Action, GovernorTypeOK
    <3>2. tracked \in Seq(Action) /\ tracked # <<>>
      <4>1. recent \in Seq(Action)
        BY DEF GovernorTypeOK
      <4>2. ASSUME NEW a \in Action PROVE Append(recent, a) \in Seq(Action) /\ Append(recent, a) # <<>>
        <5>1. Append(recent, a) \in Seq(Action) /\ Len(Append(recent, a)) = Len(recent) + 1
          BY <4>1
        <5>2. Len(recent) \in Nat /\ Len(<<>>) = 0
          BY <4>1
        <5>3. QED
          BY <5>1, <5>2
      <4>3. QED
        BY <3>1, <4>2
    <3> HIDE DEF tracked
    <3>3. Tail(tracked) \in Seq(Action)
      BY <3>2
    <3>4. QED
      BY <1>6, <3>2, <3>3 DEF Start, TrackAction, tracked
  <2>4. QED
    BY <1>6, <2>2, <2>3 DEF Start, GovernorTypeOK
<1>7. ASSUME NEW c \in Call, NEW ok \in BOOLEAN, Finish(c, ok) PROVE GovernorTypeOK'
  <2>1. recent' \in Seq(Action)
    BY <1>7, RecentIsMarked DEF Finish, RecordActionResult, GovernorTypeOK
  <2>2. call' \in [Call -> CallState]
    BY <1>7 DEF Finish, CallState, GovernorTypeOK
  <2>3. QED
    BY <1>7, <2>1, <2>2 DEF Finish, GovernorTypeOK
<1>8. CASE UNCHANGED governorVars
  BY <1>8 DEF governorVars, GovernorTypeOK
<1>9. QED
  BY <1>1, <1>2, <1>3, <1>4, <1>6, <1>7, <1>8 DEF GovernorNext

(* The limiter's windows, the detector's list and the calls keep their     *)
(* types (rate-limiter.ts, anomaly-detector.ts).                           *)
THEOREM GovernorTypes == GovernorSpec => []GovernorTypeOK
<1>1. GovernorInit => GovernorTypeOK
  <2>1. ASSUME GovernorInit PROVE GovernorTypeOK
    <3>1. 0 - Hour \in Int
      BY GovernorAssumption
    <3>2. window \in [Skill -> [opened : Int, used : Nat]]
      BY <2>1, <3>1 DEF GovernorInit
    <3>3. call \in [Call -> CallState]
      BY <2>1 DEF GovernorInit, CallState
    <3>4. QED
      BY <2>1, <3>2, <3>3 DEF GovernorInit, GovernorTypeOK
  <2>2. QED
    BY <2>1
<1>2. QED
  BY <1>1, GovernorTypesStay, PTL DEF GovernorSpec

=============================================================================
