---------------------------- MODULE TaskProcessor ----------------------------
(***************************************************************************)
(* The task processor (agent/processor.ts) over the tasks table            *)
(* (db/repositories/tasks.ts), the kill switch of the control plane        *)
(* (governance/control-plane.ts) and the start and stop of the process     *)
(* (index.ts).                                                             *)
(*                                                                         *)
(* setInterval calls processNextTask every few seconds whether or not the  *)
(* last call has returned, so calls overlap; a call is a Worker.  It gives *)
(* up control while the classifier answers, while an anomaly alert is      *)
(* mailed and while the skill runs (the in-memory rate limiter answers     *)
(* before anybody else runs).  In between it runs alone, but every         *)
(* statement commits on its own: it may throw (a store fault) or be the    *)
(* last one (a crash).                                                     *)
(***************************************************************************)
EXTENDS Naturals

CONSTANTS
  NTasks,        \* bound: how many tasks are ever created
  Billable,      \* the tasks whose matter exists
  Worker,        \* overlapping calls of processNextTask
  NoTask,        \* the job of a worker that is idle
  MaxCrashes,    \* bound: how often the process dies
  MaxStops,      \* bound: how often it is asked to stop
  MaxFaults      \* bound: how many statements throw

Task == 1 .. NTasks

ASSUME TaskAssumption ==
  /\ NTasks \in Nat
  /\ Billable \subseteq Task
  /\ NoTask \notin Task
  /\ MaxCrashes \in Nat /\ MaxStops \in Nat /\ MaxFaults \in Nat

VARIABLES
  task,        \* tasks.status; "none" before createTask
  saved,       \* the tasks whose output_json was written
  reviews,     \* how many review_queue rows each task has produced
  bills,       \* how many billing_log rows
  wrapFailed,  \* the tasks with a compliance.wrap_failed audit row
  pc,          \* the await each worker is at
  job,         \* the task it holds
  killed,      \* the kill switches that are set, in memory
  cache,       \* killSwitchCache: what the last check of each switch saw
  stopping,    \* SIGTERM received: the loop is stopped, exit is scheduled
  up, crashes, stops, faults

store == <<task, saved, reviews, bills, wrapFailed>>
workers == <<pc, job>>
control == <<killed, cache>>
process == <<stopping, up, crashes, stops>>
vars == <<store, workers, control, process, faults>>

(* globalKillSwitch, and agentEnabled for the one agent.                   *)
Switch == {"global", "agent"}

TypeOK ==
  /\ task \in [Task -> {"none", "pending", "running", "completed", "failed"}]
  /\ saved \subseteq Task
  /\ reviews \in [Task -> Nat]
  /\ bills \in [Task -> Nat]
  /\ wrapFailed \subseteq Task
  /\ pc \in [Worker -> {"idle", "classifying", "alerting", "executing"}]
  /\ job \in [Worker -> Task \cup {NoTask}]
  /\ killed \subseteq Switch
  /\ cache \in [Switch -> {"none", "on", "off"}]
  /\ stopping \in BOOLEAN /\ up \in BOOLEAN
  /\ crashes \in Nat /\ stops \in Nat /\ faults \in Nat

Init ==
  /\ task = [t \in Task |-> "none"]
  /\ saved = {}
  /\ reviews = [t \in Task |-> 0]
  /\ bills = [t \in Task |-> 0]
  /\ wrapFailed = {}
  /\ pc = [w \in Worker |-> "idle"]
  /\ job = [w \in Worker |-> NoTask]
  /\ killed = {} /\ cache = [k \in Switch |-> "none"]
  /\ stopping = FALSE /\ up = TRUE
  /\ crashes = 0 /\ stops = 0 /\ faults = 0

-----------------------------------------------------------------------------

(* n statements throw.                                                     *)
Faulty(n) == faults + n <= MaxFaults /\ faults' = faults + n

Goto(w, label, t) ==
  /\ pc' = [pc EXCEPT ![w] = label]
  /\ job' = [job EXCEPT ![w] = t]

Return(w) == Goto(w, "idle", NoTask)

Mark(t, s) == task' = [task EXCEPT ![t] = s]

(* createTask: ids stand for created_at, which orders the queue.           *)
CreateTask(t) ==
  /\ up
  /\ task[t] = "none"
  /\ \A u \in Task : u < t => task[u] # "none"
  /\ Mark(t, "pending")
  /\ UNCHANGED <<saved, reviews, bills, wrapFailed, workers, control, process, faults>>

OldestPending(t) ==
  /\ task[t] = "pending"
  /\ \A u \in Task : u < t => task[u] # "pending"

(* The outer catch after n writes threw: markFailed, unless that throws    *)
(* too, in which case processNextTask rejects and the row keeps the status *)
(* it had.                                                                 *)
Catch(w, t, before, n) ==
  /\ Return(w)
  /\ \/ Faulty(n) /\ Mark(t, "failed")
     \/ Faulty(n + 1) /\ Mark(t, before)

(* Seeded fault: a refused task goes back to the queue.                    *)
RefuseAndRequeue(w, t) == Mark(t, "pending") /\ Return(w) /\ UNCHANGED faults

(* A task the gate refuses is marked failed, unless a statement throws.    *)
Refuse(w, t) ==
  \/ Mark(t, "failed") /\ Return(w) /\ UNCHANGED faults
  \/ Catch(w, t, "running", 1)

(* isKillSwitchActive: a cached answer is taken as it is, anything else is *)
(* looked up and cached.                                                   *)
Seen(k) == IF cache[k] = "none" THEN k \in killed ELSE cache[k] = "on"

(* What canExecute answers when a switch is set, and what it leaves in the *)
(* cache: the global switch is looked at first.                            *)
Blocked ==
  \/ /\ Seen("global")
     /\ cache' = [cache EXCEPT !["global"] = "on"]
  \/ /\ ~Seen("global") /\ Seen("agent")
     /\ cache' = [global |-> "off", agent |-> "on"]

(* The switches are off: the rate limiter refuses, or the anomaly check    *)
(* refuses at once or after mailing an alert, or the decision is traced    *)
(* and the skill started.                                                  *)
Allowed(w, t) ==
  /\ \A k \in Switch : ~Seen(k)
  /\ cache' = [k \in Switch |-> "off"]
  /\ \/ Refuse(w, t)
     \/ /\ \/ Goto(w, "alerting", t)
           \/ Goto(w, "executing", t)
        /\ Mark(t, "running")
        /\ UNCHANGED faults

(* canExecute, and what processNextTask does with its answer.              *)
EnterGate(w, t) ==
  \/ Blocked /\ Refuse(w, t)
  \/ Allowed(w, t)

(* getMatterById, before the try block, throws: processNextTask rejects    *)
(* with the task already marked running.                                   *)
MatterReadFails(w, t) ==
  /\ t \in Billable
  /\ Faulty(1)
  /\ Mark(t, "running")
  /\ Return(w)

(* getNextPendingTask, one transaction, then either the await of           *)
(* classifyTask or, when the caller preselected the skill, the gate.       *)
PickUp(w, t) ==
  /\ up
  /\ ~stopping
  /\ pc[w] = "idle"
  /\ OldestPending(t)
  /\ \/ /\ Mark(t, "running")
        /\ Goto(w, "classifying", t)
        /\ UNCHANGED <<cache, faults>>
     \/ MatterReadFails(w, t) /\ UNCHANGED cache
     \/ EnterGate(w, t)
  /\ UNCHANGED <<saved, reviews, bills, wrapFailed, killed, process>>

(* classifyTask answers; it falls back to a default and never throws.      *)
Classified(w) ==
  /\ up
  /\ pc[w] = "classifying"
  /\ EnterGate(w, job[w])
  /\ UNCHANGED <<saved, reviews, bills, wrapFailed, killed, process>>

(* The alert is out; the refusal it reports takes effect.                  *)
AlertSent(w) ==
  /\ up
  /\ pc[w] = "alerting"
  /\ Refuse(w, job[w])
  /\ UNCHANGED <<saved, reviews, bills, wrapFailed, control, process>>

-----------------------------------------------------------------------------
(* executeWithSkill returns.  Each operator below is one way the rest of   *)
(* processNextTask can go.                                                 *)

Save(t) == saved' = saved \cup {t}
Enqueue(t) == reviews' = [reviews EXCEPT ![t] = @ + 1]
Bill(t) == bills' = [bills EXCEPT ![t] = IF t \in Billable THEN @ + 1 ELSE @]

(* The wrap stops before, between or after its two inserts: each is        *)
(* followed by an audit row whose own insert may throw.                    *)
PartlyWrap(t) ==
  \/ UNCHANGED <<reviews, bills>>
  \/ Enqueue(t) /\ UNCHANGED bills
  \/ Enqueue(t) /\ Bill(t)

(* Seeded fault: the output is put up for review before it is saved, and   *)
(* a failed wrap leaves the task to be run again.                          *)
WrapSucceedsAndRetries(w) ==
  /\ \/ Mark(job[w], "completed")
     \/ Mark(job[w], "pending")
  /\ Save(job[w]) /\ Enqueue(job[w]) /\ Bill(job[w])
  /\ Return(w)
  /\ UNCHANGED <<wrapFailed, control, process, faults>>

WrapSucceeds(w) ==
  /\ Mark(job[w], "completed")
  /\ Save(job[w]) /\ Enqueue(job[w]) /\ Bill(job[w])
  /\ Return(w)
  /\ UNCHANGED <<wrapFailed, control, process, faults>>

(* Seeded fault: the failure of the wrap is swallowed.                     *)
WrapFailsSilently(w) ==
  /\ Faulty(1)
  /\ Mark(job[w], "completed") /\ Save(job[w])
  /\ UNCHANGED <<reviews, bills, wrapFailed>>
  /\ Return(w)
  /\ UNCHANGED <<control, process>>

(* The inner catch: enqueueForReview or recordAiRun threw; the task stays  *)
(* completed and the failure goes on record.                               *)
WrapFails(w) ==
  /\ Faulty(1)
  /\ Mark(job[w], "completed") /\ Save(job[w])
  /\ PartlyWrap(job[w])
  /\ wrapFailed' = wrapFailed \cup {job[w]}
  /\ Return(w)
  /\ UNCHANGED <<control, process>>

(* ... and the audit row of that failure throws too: the outer catch.      *)
WrapAuditFails(w) ==
  /\ Save(job[w])
  /\ PartlyWrap(job[w])
  /\ Catch(w, job[w], "completed", 2)
  /\ UNCHANGED <<wrapFailed, control, process>>

(* After the wrap, or its recorded failure, updateTrustMetrics or the      *)
(* audit row of the completion throws: the outer catch.  It does so for    *)
(* every task where the agents table has no row for the overseer, to which *)
(* the rows of trust_scores refer, and no code adds one.                   *)
TrustUpdateFails(w) ==
  /\ Save(job[w])
  /\ \/ /\ Enqueue(job[w]) /\ Bill(job[w])
        /\ Catch(w, job[w], "completed", 1)
        /\ UNCHANGED wrapFailed
     \/ /\ PartlyWrap(job[w])
        /\ Catch(w, job[w], "completed", 2)
        /\ wrapFailed' = wrapFailed \cup {job[w]}
  /\ UNCHANGED <<control, process>>

(* Seeded fault: a skill that fails returns without settling its task.     *)
SkillFailsQuietly(w) ==
  /\ Return(w)
  /\ UNCHANGED <<store, control, process, faults>>

(* The skill failed, or markCompleted threw: the task is failed.           *)
SkillFails(w) ==
  /\ \/ Mark(job[w], "failed") /\ Return(w) /\ UNCHANGED faults
     \/ Catch(w, job[w], "running", 1)
  /\ UNCHANGED <<saved, reviews, bills, wrapFailed, control, process>>

Die ==
  /\ crashes < MaxCrashes
  /\ crashes' = crashes + 1
  /\ up' = FALSE
  /\ UNCHANGED <<control, stopping, stops>>

(* The process dies between markCompleted and the end of the wrap.         *)
WrapIsCutOff(w) ==
  /\ Mark(job[w], "completed") /\ Save(job[w])
  /\ PartlyWrap(job[w])
  /\ UNCHANGED <<wrapFailed, workers, faults>>
  /\ Die

SkillReturns(w) ==
  /\ up
  /\ pc[w] = "executing"
  /\ \/ WrapSucceeds(w)
     \/ WrapFails(w)
     \/ WrapAuditFails(w)
     \/ TrustUpdateFails(w)
     \/ SkillFails(w)
     \/ WrapIsCutOff(w)

-----------------------------------------------------------------------------

(* emergencyStop and enableAgent drop the cached answer of their switch.   *)
EmergencyStop(k) ==
  /\ up
  /\ killed' = killed \cup {k}
  /\ cache' = [cache EXCEPT ![k] = "none"]
  /\ UNCHANGED <<store, workers, process, faults>>

EnableAgent(k) ==
  /\ up
  /\ killed' = killed \ {k}
  /\ cache' = [cache EXCEPT ![k] = "none"]
  /\ UNCHANGED <<store, workers, process, faults>>

(* Five seconds after it was cached an answer counts for nothing.          *)
CacheExpires(k) ==
  /\ cache' = [cache EXCEPT ![k] = "none"]
  /\ UNCHANGED <<store, workers, killed, process, faults>>

(* SIGTERM: the loop is stopped; 1.5 seconds later the database is closed  *)
(* and the process exits, whatever is in flight.                           *)
Shutdown ==
  /\ up /\ ~stopping
  /\ stops < MaxStops
  /\ stops' = stops + 1
  /\ stopping' = TRUE
  /\ UNCHANGED <<store, workers, control, up, crashes, faults>>

Exit ==
  /\ up /\ stopping
  /\ up' = FALSE
  /\ UNCHANGED <<store, workers, control, stopping, crashes, stops, faults>>

Crash ==
  /\ up
  /\ Die
  /\ UNCHANGED <<store, workers, faults>>

(* The service manager starts the process: memory is gone, rows are not.   *)
Restart ==
  /\ ~up
  /\ up' = TRUE /\ stopping' = FALSE
  /\ killed' = {} /\ cache' = [k \in Switch |-> "none"]
  /\ pc' = [w \in Worker |-> "idle"]
  /\ job' = [w \in Worker |-> NoTask]
  /\ UNCHANGED <<store, crashes, stops, faults>>

Next ==
  \/ \E t \in Task : CreateTask(t)
  \/ \E w \in Worker :
       \/ \E t \in Task : PickUp(w, t)
       \/ Classified(w)
       \/ AlertSent(w)
       \/ SkillReturns(w)
  \/ \E k \in Switch : EmergencyStop(k) \/ EnableAgent(k) \/ CacheExpires(k)
  \/ Shutdown \/ Exit \/ Crash \/ Restart

Spec == Init /\ [][Next]_vars

(* The interval timer keeps firing, the awaited calls return, the exit     *)
(* timer fires and a stopped process is started again.                     *)
Fairness ==
  /\ \A w \in Worker :
       /\ WF_vars(\E t \in Task : PickUp(w, t))
       /\ WF_vars(Classified(w))
       /\ WF_vars(AlertSent(w))
       /\ WF_vars(SkillReturns(w))
  /\ WF_vars(Exit)
  /\ WF_vars(Restart)

FairSpec == Spec /\ Fairness

-----------------------------------------------------------------------------

Held(t) == \E w \in Worker : job[w] = t
Settled(t) == task[t] \in {"completed", "failed"}
Orphaned(t) == task[t] = "running" /\ ~Held(t)

(* tasks.ts:80-81: overlapping calls never work on the same task, and the  *)
(* task a call holds is marked running until that call settles it.         *)
OneWorkerPerTask ==
  \A v, w \in Worker :
    job[v] # NoTask =>
      /\ job[v] = job[w] => v = w
      /\ up => task[job[v]] = "running"

(* A task is never run to a draft twice: one review and one bill at most,  *)
(* whatever crashes, faults and overlaps there are; and every bill has the *)
(* review it charges for (processor.ts:193-219).                           *)
DraftedAtMostOnce ==
  \A t \in Task : bills[t] <= reviews[t] /\ reviews[t] <= 1

(* Without a call holding it, a task stays running only because a call was *)
(* cut off or one of its statements threw.                                 *)
OrphansHaveACause ==
  \A t \in Task :
    Orphaned(t) => crashes > 0 \/ stops > 0 \/ faults > 0

Wrapped(t) == reviews[t] > 0 \/ t \in wrapFailed

(* processor.ts:222-224: one failing statement does not silence the wrap:  *)
(* unless the process died or two statements threw, a completed task has   *)
(* its review, or the failure to get there is on record.                   *)
OutputIsWrappedOrLoud ==
  crashes = 0 /\ faults < 2 =>
    \A t \in Task : task[t] = "completed" => Wrapped(t)

(* control-plane.ts:76: no skill is started while a kill switch is set,    *)
(* although the check may be answered from a five-second cache and the     *)
(* classifier is awaited before it.                                        *)
KilledStartsNothing ==
  [][\A w \in Worker :
       pc[w] # "executing" /\ pc'[w] = "executing" => killed = {}]_<<pc, killed>>

(* Every task created is settled, or left running by a call that was cut   *)
(* off (and OrphansHaveACause says by what): none waits for ever, however  *)
(* many calls overlap, whatever the gate decides and whoever stops the     *)
(* process.                                                                *)
EveryTaskSettles ==
  \A t \in Task : task[t] = "pending" ~> (Settled(t) \/ Orphaned(t))

-----------------------------------------------------------------------------

(* The strengthening that makes DraftedAtMostOnce and OneWorkerPerTask     *)
(* inductive: a task that can still be run has not produced anything.      *)
UnsettledIsBlank ==
  \A t \in Task :
    task[t] \in {"none", "pending", "running"} => reviews[t] = 0 /\ bills[t] = 0

WorkersAreConsistent ==
  \A w \in Worker : pc[w] = "idle" <=> job[w] = NoTask

CacheIsTrue ==
  \A k \in Switch : cache[k] # "none" => (cache[k] = "on" <=> k \in killed)

IInv ==
  /\ TypeOK
  /\ OneWorkerPerTask
  /\ WorkersAreConsistent
  /\ UnsettledIsBlank
  /\ DraftedAtMostOnce
  /\ CacheIsTrue

(* What OrphansHaveACause needs besides: the process is only down, or on   *)
(* its way there, because it was made to.                                  *)
DownHasACause ==
  /\ stopping => stops > 0
  /\ ~up => crashes > 0 \/ stops > 0

=============================================================================
