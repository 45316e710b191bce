-------------------------- MODULE ThreadPoolProofs --------------------------
(***************************************************************************)
(* Proofs about ThreadPool, for any number of tasks and any worker limit:  *)
(* types, JobOutlivesItsRun, WorkConserving, NothingLeftBehind, and that   *)
(* the pool implements JobContract.                                        *)
(*                                                                         *)
(* They rest on one inductive invariant, PoolInv.  Its heart is that the   *)
(* loop's table running_workers and the threads agree, although they share *)
(* no lock: who a worker works for can be read off its fields at every     *)
(* place of its loop, and a completion is there only for a thread that has *)
(* gone back to wait.                                                      *)
(***************************************************************************)
EXTENDS ThreadPool, FiniteSetTheorems, TLAPS

\* No worker performs two jobs.
Registered ==
    \A t, u \in Tasks :
        running_workers[t] # NoWorker /\ running_workers[t] = running_workers[u] => t = u

\* A job in the table is in the struct of its worker, which has not ended.
Assigned ==
    \A t \in Tasks : running_workers[t] # NoWorker =>
        /\ wjob[running_workers[t]] = t
        /\ pc[running_workers[t]] \in {"run", "blocked", "after", "post", "wait"}
        /\ running_workers[t] \notin idle_workers

\* A thread that works does so for the job the table says.
BusyWorkers ==
    \A w \in Workers : Busy(w) =>
        /\ cur[w] \in Tasks /\ running_workers[cur[w]] = w
        /\ ~event[w] /\ (waiting[w] <=> pc[w] = "post")

\* A thread that waits is idle or has a job, and wakes when it is told to.
WaitingWorkers ==
    \A w \in Workers : pc[w] = "wait" =>
        /\ event[w] <=> ~waiting[w]
        /\ w \in idle_workers \/ (wjob[w] \in Tasks /\ running_workers[wjob[w]] = w)

\* Idle threads wait until cleanup wakes them.
IdleWorkers ==
    \A w \in idle_workers :
        /\ wjob[w] = NoJob /\ pc[w] \in {"wait", "ended"}
        /\ phase # "cleanup" => pc[w] = "wait" /\ waiting[w]

\* Threads that do not exist yet, and those that have ended.
OtherWorkers ==
    \A w \in Workers :
        /\ pc[w] = "none" => ~waiting[w] /\ ~event[w]
        /\ pc[w] = "ended" => w \in idle_workers
        /\ pc[w] = "freed" => phase \in {"cleanup", "stopped"}

\* A completion is that of a thread that waits to be given its next job.
Reported ==
    /\ completions \cap inbox \cap Tasks = {}
    /\ \A t \in (completions \cup inbox) \cap Tasks :
          /\ running_workers[t] # NoWorker
          /\ pc[running_workers[t]] = "wait" /\ waiting[running_workers[t]]

Bindings ==
    /\ Registered /\ Assigned /\ BusyWorkers /\ WaitingWorkers
    /\ IdleWorkers /\ OtherWorkers /\ Reported

\* A job has an outcome from the end of its call on.
Outcomes ==
    \A t \in Tasks : running_workers[t] # NoWorker =>
        (outcome[t] = "none" <=>
            \/ pc[running_workers[t]] \in {"run", "blocked"}
            \/ pc[running_workers[t]] = "wait" /\ ~waiting[running_workers[t]])

\* What is queued was submitted and not begun.
Queued ==
    \A t \in job_queue :
        running_workers[t] = NoWorker /\ outcome[t] = "none" /\ task[t] \notin {"unborn", "new"}

\* What was not submitted is nowhere.
Fresh ==
    \A t \in Tasks :
        /\ task[t] \in {"unborn", "new"} =>
              running_workers[t] = NoWorker /\ outcome[t] = "none" /\ t \notin job_queue
        /\ task[t] = "unborn" => t \notin ready \cup round

\* What was submitted and not taken by a worker is queued, even when its task
\* has been cancelled since.
Submitted ==
    \A t \in Tasks :
        task[t] \notin {"unborn", "new", "raised"} /\ running_workers[t] = NoWorker
        /\ outcome[t] = "none" => t \in job_queue

\* A task is resumed because its job has an outcome, or to cancel its job.
Answered ==
    /\ ready \cap round = {}
    /\ \A t \in ready \cup round : task[t] \in {"waiting", "draining", "rethrowing"} =>
          outcome[t] # "none" \/ (task[t] = "waiting" /\ t \in cancelled /\ t \in Cancellable)

\* Only calls of cancelled tasks are interrupted.
Interrupts ==
    /\ \A w \in Workers : intr[w] => pc[w] = "blocked" /\ cur[w] \in cancelled
    /\ \A t \in Tasks : outcome[t] = "aborted" => t \in cancelled
    /\ \A t \in Tasks : task[t] \in {"draining", "rethrowing", "retrying"} => t \in cancelled

Progress == Outcomes /\ Queued /\ Fresh /\ Submitted /\ Answered /\ Interrupts

\* Cleanup begins when nothing runs and nothing is queued.
Cleaned ==
    /\ phase \in {"cleanup", "stopped"} => Running = {} /\ job_queue = {}
    /\ phase = "stopped" => idle_workers = {}

PoolInv == TypeOK /\ Bindings /\ Progress /\ WorkConserving /\ Cleaned

-----------------------------------------------------------------------------
\* No more jobs are in the table than there are workers, as no two have one.
LEMMA RunningBound ==
    ASSUME TypeOK, Registered
    PROVE  /\ IsFiniteSet(Running) /\ Cardinality(Running) \in Nat
           /\ Cardinality(Running) <= MaxWorkerCount
<1> DEFINE f == [t \in Running |-> running_workers[t]]
<1>1. f \in Injection(Running, Workers)
    BY DEF TypeOK, Registered, Running, Injection, IsInjective
<1> HIDE DEF f
<1>2. IsFiniteSet(Running) /\ Cardinality(Running) <= Cardinality(Workers)
    BY <1>1, FS_Injection, PoolAssumption
<1> QED BY <1>2, FS_CardinalityType, PoolAssumption

-----------------------------------------------------------------------------
(* Each action preserves PoolInv.  The step before QED has the conjuncts   *)
(* whose variables the action does not change.                             *)
LEMMA EnterCallStep ==
    ASSUME PoolInv, NEW w \in Workers, EnterCall(w)
    PROVE  PoolInv'
<1> USE DEF PoolInv, Bindings, Progress
<1>1. TypeOK'
    BY DEF EnterCall, TypeOK, ThreadStates, loopVars, taskVars, fieldVars
<1>2. Assigned'
    BY DEF EnterCall, Assigned, loopVars, fieldVars
<1>3. BusyWorkers'
    BY DEF EnterCall, BusyWorkers, Busy, loopVars, fieldVars
<1>4. WaitingWorkers'
    BY DEF EnterCall, WaitingWorkers, loopVars, fieldVars
<1>5. IdleWorkers'
    BY DEF EnterCall, IdleWorkers, loopVars, fieldVars
<1>6. OtherWorkers'
    BY DEF EnterCall, OtherWorkers, loopVars, fieldVars
<1>7. Reported'
    BY DEF EnterCall, Reported, loopVars, fieldVars
<1>8. Outcomes'
    BY DEF EnterCall, Outcomes, loopVars, fieldVars
<1>9. Interrupts'
    BY DEF EnterCall, Interrupts, taskVars
<1>10. Registered' /\ Queued' /\ Fresh' /\ Submitted' /\ Answered'
         /\ WorkConserving' /\ Cleaned'
    BY DEF EnterCall, Registered, Queued, Fresh, Submitted, Answered,
           WorkConserving, Cleaned, Running, loopVars, taskVars
<1> QED BY <1>1, <1>2, <1>3, <1>4, <1>5, <1>6, <1>7, <1>8, <1>9, <1>10

LEMMA LeaveCallStep ==
    ASSUME PoolInv, NEW w \in Workers, NEW result \in {"done", "aborted"}, LeaveCall(w, result)
    PROVE  PoolInv'
<1> USE DEF PoolInv, Bindings, Progress
<1>1. TypeOK'
    BY DEF LeaveCall, TypeOK, ThreadStates, loopVars, taskVars, fieldVars
<1>2. Assigned'
    BY DEF LeaveCall, Assigned, loopVars, fieldVars
<1>3. BusyWorkers'
    BY DEF LeaveCall, BusyWorkers, Busy, loopVars, fieldVars
<1>4. WaitingWorkers'
    BY DEF LeaveCall, WaitingWorkers, loopVars, fieldVars
<1>5. IdleWorkers'
    BY DEF LeaveCall, IdleWorkers, loopVars, fieldVars
<1>6. OtherWorkers'
    BY DEF LeaveCall, OtherWorkers, loopVars, fieldVars
<1>7. Reported'
    BY DEF LeaveCall, Reported, loopVars, fieldVars
<1>8. Outcomes'
    BY DEF LeaveCall, Outcomes, TypeOK, Registered, BusyWorkers, Busy,
           loopVars, fieldVars
<1>9. Queued'
    BY PoolAssumption DEF LeaveCall, Queued, BusyWorkers, Busy, loopVars,
           taskVars
<1>10. Fresh'
    BY PoolAssumption DEF LeaveCall, Fresh, BusyWorkers, Busy, loopVars,
           taskVars
<1>11. Submitted'
    BY DEF LeaveCall, Submitted, loopVars, taskVars
<1>12. Answered'
    BY DEF LeaveCall, Answered, taskVars
<1>13. Interrupts'
    BY DEF LeaveCall, Interrupts, TypeOK, taskVars
<1>14. Registered' /\ WorkConserving' /\ Cleaned'
    BY DEF LeaveCall, Registered, WorkConserving, Cleaned, Running, loopVars
<1> QED BY <1>1, <1>2, <1>3, <1>4, <1>5, <1>6, <1>7, <1>8, <1>9, <1>10, <1>11,
       <1>12, <1>13, <1>14

LEMMA SetWaitingStep ==
    ASSUME PoolInv, NEW w \in Workers, SetWaiting(w)
    PROVE  PoolInv'
<1> USE DEF PoolInv, Bindings, Progress
<1>1. TypeOK'
    BY DEF SetWaiting, TypeOK, ThreadStates, loopVars, taskVars
<1>2. Assigned'
    BY DEF SetWaiting, Assigned, loopVars
<1>3. BusyWorkers'
    BY DEF SetWaiting, BusyWorkers, TypeOK, Busy, loopVars
<1>4. WaitingWorkers'
    BY DEF SetWaiting, WaitingWorkers, loopVars
<1>5. IdleWorkers'
    BY DEF SetWaiting, IdleWorkers, loopVars
<1>6. OtherWorkers'
    BY DEF SetWaiting, OtherWorkers, loopVars
<1>7. Reported'
    BY DEF SetWaiting, Reported, loopVars
<1>8. Outcomes'
    BY DEF SetWaiting, Outcomes, loopVars
<1>9. Interrupts'
    BY DEF SetWaiting, Interrupts, taskVars
<1>10. Registered' /\ Queued' /\ Fresh' /\ Submitted' /\ Answered'
         /\ WorkConserving' /\ Cleaned'
    BY DEF SetWaiting, Registered, Queued, Fresh, Submitted, Answered,
           WorkConserving, Cleaned, Running, loopVars, taskVars
<1> QED BY <1>1, <1>2, <1>3, <1>4, <1>5, <1>6, <1>7, <1>8, <1>9, <1>10

LEMMA PostCompletionStep ==
    ASSUME PoolInv, NEW w \in Workers, PostCompletion(w)
    PROVE  PoolInv'
<1> USE DEF PoolInv, Bindings, Progress
<1>1. TypeOK'
    BY DEF PostCompletion, TypeOK, BusyWorkers, Busy, ThreadStates, loopVars,
           taskVars, fieldVars
<1>2. Assigned'
    BY DEF PostCompletion, Assigned, loopVars, fieldVars
<1>3. BusyWorkers'
    BY DEF PostCompletion, BusyWorkers, Busy, loopVars, fieldVars
<1>4. WaitingWorkers'
    BY PoolAssumption DEF PostCompletion, WaitingWorkers, Assigned,
           BusyWorkers, Busy, loopVars, fieldVars
<1>5. IdleWorkers'
    BY DEF PostCompletion, IdleWorkers, loopVars, fieldVars
<1>6. OtherWorkers'
    BY DEF PostCompletion, OtherWorkers, loopVars, fieldVars
<1>7. Reported'
    BY PoolAssumption DEF PostCompletion, Reported, TypeOK, BusyWorkers, Busy,
           loopVars, fieldVars
<1>8. Outcomes'
    BY DEF PostCompletion, Outcomes, BusyWorkers, Busy, loopVars, fieldVars
<1>9. Interrupts'
    BY DEF PostCompletion, Interrupts, taskVars
<1>10. Registered' /\ Queued' /\ Fresh' /\ Submitted' /\ Answered'
         /\ WorkConserving' /\ Cleaned'
    BY DEF PostCompletion, Registered, Queued, Fresh, Submitted, Answered,
           WorkConserving, Cleaned, Running, loopVars, taskVars
<1> QED BY <1>1, <1>2, <1>3, <1>4, <1>5, <1>6, <1>7, <1>8, <1>9, <1>10

LEMMA NextJobStep ==
    ASSUME PoolInv, NEW w \in Workers, NextJob(w)
    PROVE  PoolInv'
<1> USE DEF PoolInv, Bindings, Progress
<1>1. TypeOK'
    BY DEF NextJob, TypeOK, ThreadStates, loopVars, taskVars
<1>2. Assigned'
    BY PoolAssumption DEF NextJob, Assigned, loopVars
<1>3. BusyWorkers'
    BY DEF NextJob, BusyWorkers, TypeOK, WaitingWorkers, IdleWorkers, Busy,
           MayWake, loopVars
<1>4. WaitingWorkers'
    BY DEF NextJob, WaitingWorkers, TypeOK, loopVars
<1>5. IdleWorkers'
    BY DEF NextJob, IdleWorkers, WaitingWorkers, MayWake, loopVars
<1>6. OtherWorkers'
    BY PoolAssumption DEF NextJob, OtherWorkers, WaitingWorkers, loopVars
<1>7. Reported'
    BY DEF NextJob, Reported, WaitingWorkers, MayWake, loopVars
<1>8. Outcomes'
    BY PoolAssumption DEF NextJob, Outcomes, Assigned, WaitingWorkers, MayWake,
           loopVars
<1>9. Interrupts'
    BY DEF NextJob, Interrupts, taskVars
<1>10. Registered' /\ Queued' /\ Fresh' /\ Submitted' /\ Answered'
         /\ WorkConserving' /\ Cleaned'
    BY DEF NextJob, Registered, Queued, Fresh, Submitted, Answered,
           WorkConserving, Cleaned, Running, loopVars, taskVars
<1> QED BY <1>1, <1>2, <1>3, <1>4, <1>5, <1>6, <1>7, <1>8, <1>9, <1>10

LEMMA SpawnTaskStep ==
    ASSUME PoolInv, NEW t \in Tasks, SpawnTask(t)
    PROVE  PoolInv'
<1> USE DEF PoolInv, Bindings, Progress
<1>1. TypeOK'
    BY DEF SpawnTask, TypeOK, TaskStates, loopVars, fieldVars, threadVars
<1>2. Queued'
    BY DEF SpawnTask, Queued, loopVars, threadVars
<1>3. Fresh'
    BY DEF SpawnTask, Fresh, TypeOK, loopVars, threadVars
<1>4. Submitted'
    BY DEF SpawnTask, Submitted, loopVars, threadVars
<1>5. Answered'
    BY DEF SpawnTask, Answered, Fresh, threadVars
<1>6. Interrupts'
    BY DEF SpawnTask, Interrupts, threadVars
<1>7. Registered' /\ Assigned' /\ BusyWorkers' /\ WaitingWorkers'
         /\ IdleWorkers' /\ OtherWorkers' /\ Reported' /\ Outcomes'
         /\ WorkConserving' /\ Cleaned'
    BY DEF SpawnTask, Registered, Assigned, BusyWorkers, WaitingWorkers,
           IdleWorkers, OtherWorkers, Reported, Outcomes, WorkConserving,
           Cleaned, Running, Busy, loopVars, fieldVars, threadVars
<1> QED BY <1>1, <1>2, <1>3, <1>4, <1>5, <1>6, <1>7

LEMMA CancelledBeforeSubmitStep ==
    ASSUME PoolInv, NEW t \in Tasks, CancelledBeforeSubmit(t)
    PROVE  PoolInv'
<1> USE DEF PoolInv, Bindings, Progress
<1>1. TypeOK'
    BY DEF CancelledBeforeSubmit, TypeOK, TaskStates, loopVars, fieldVars,
           threadVars
<1>2. Queued'
    BY DEF CancelledBeforeSubmit, Queued, loopVars, threadVars
<1>3. Fresh'
    BY DEF CancelledBeforeSubmit, Fresh, loopVars, threadVars
<1>4. Submitted'
    BY DEF CancelledBeforeSubmit, Submitted, loopVars, threadVars
<1>5. Answered'
    BY DEF CancelledBeforeSubmit, Answered, threadVars
<1>6. Interrupts'
    BY DEF CancelledBeforeSubmit, Interrupts, threadVars
<1>7. Registered' /\ Assigned' /\ BusyWorkers' /\ WaitingWorkers'
         /\ IdleWorkers' /\ OtherWorkers' /\ Reported' /\ Outcomes'
         /\ WorkConserving' /\ Cleaned'
    BY DEF CancelledBeforeSubmit, Registered, Assigned, BusyWorkers,
           WaitingWorkers, IdleWorkers, OtherWorkers, Reported, Outcomes,
           WorkConserving, Cleaned, Running, Busy, loopVars, fieldVars,
           threadVars
<1> QED BY <1>1, <1>2, <1>3, <1>4, <1>5, <1>6, <1>7

LEMMA SubmitStep ==
    ASSUME PoolInv, NEW t \in Tasks, Submit(t)
    PROVE  PoolInv'
<1> USE DEF PoolInv, Bindings, Progress
<1>1. TypeOK'
  <2>1. CASE idle_workers # {}
    <3>1. PICK w \in idle_workers :
             /\ idle_workers' = idle_workers \ {w}
             /\ running_workers' = [running_workers EXCEPT ![t] = w]
             /\ wake_worker(w, t)
      BY <2>1 DEF Submit
    <3> QED BY <2>1, <3>1 DEF Submit, TypeOK, TaskStates, wake_worker
  <2>2. CASE idle_workers = {} /\ Cardinality(Running) < MaxWorkerCount
    <3>1. PICK w \in Workers :
             /\ spawn_worker(w, t)
             /\ running_workers' = [running_workers EXCEPT ![t] = w]
      BY <2>2, RunningBound, PoolAssumption DEF Submit
    <3> QED BY <2>2, <3>1, RunningBound, PoolAssumption
        DEF Submit, TypeOK, TaskStates, ThreadStates, spawn_worker
  <2>3. CASE idle_workers = {} /\ ~(Cardinality(Running) < MaxWorkerCount)
    BY <2>3, RunningBound, PoolAssumption DEF Submit, TypeOK, TaskStates, fieldVars
  <2> QED BY <2>1, <2>2, <2>3
<1>2. Registered'
    BY DEF Submit, Registered, TypeOK, Assigned, spawn_worker
<1>3. Assigned'
    BY DEF Submit, Assigned, TypeOK, IdleWorkers, Resume, wake_worker,
           spawn_worker, fieldVars
<1>4. BusyWorkers'
    BY PoolAssumption DEF Submit, BusyWorkers, TypeOK, Assigned, OtherWorkers,
           Fresh, Busy, wake_worker, spawn_worker, fieldVars
<1>5. WaitingWorkers'
    BY PoolAssumption DEF Submit, WaitingWorkers, TypeOK, Fresh, wake_worker,
           spawn_worker, fieldVars
<1>6. IdleWorkers'
    BY DEF Submit, IdleWorkers, TypeOK, wake_worker
<1>7. OtherWorkers'
    BY DEF Submit, OtherWorkers, TypeOK, IdleWorkers, Resume, wake_worker,
           spawn_worker, fieldVars
<1>8. Reported'
    BY DEF Submit, Reported, TypeOK, Assigned, Fresh, wake_worker,
           spawn_worker, fieldVars
<1>9. Outcomes'
    BY DEF Submit, Outcomes, TypeOK, Assigned, IdleWorkers, Fresh, Resume,
           wake_worker, spawn_worker, fieldVars
<1>10. Queued'
    BY DEF Submit, Queued, TypeOK, Fresh
<1>11. Fresh'
    BY DEF Submit, Fresh, TypeOK
<1>12. Submitted'
    BY PoolAssumption DEF Submit, Submitted, TypeOK
<1>13. Answered'
    BY DEF Submit, Answered, Resume
<1>14. Interrupts'
    BY DEF Submit, Interrupts, TypeOK, BusyWorkers, spawn_worker
<1>15. WorkConserving'
  <2>1. CASE idle_workers # {} \/ Cardinality(Running) < MaxWorkerCount
    BY <2>1, RunningBound, PoolAssumption DEF Submit, WorkConserving
  <2>2. CASE idle_workers = {} /\ ~(Cardinality(Running) < MaxWorkerCount)
    <3>1. idle_workers' = {} /\ Running' = Running
      BY <2>2, RunningBound, PoolAssumption DEF Submit, Running
    <3> QED BY <2>2, <3>1, RunningBound, PoolAssumption DEF WorkConserving
  <2> QED BY <2>1, <2>2
<1>16. Cleaned'
    BY DEF Submit, Cleaned, Resume
<1> QED BY <1>1, <1>2, <1>3, <1>4, <1>5, <1>6, <1>7, <1>8, <1>9, <1>10, <1>11,
       <1>12, <1>13, <1>14, <1>15, <1>16

LEMMA ResumedStep ==
    ASSUME PoolInv, NEW t \in Tasks, Resumed(t)
    PROVE  PoolInv'
<1> USE DEF PoolInv, Bindings, Progress
<1>1. TypeOK'
    BY DEF Resumed, TypeOK, TaskStates, Conclude, loopVars, fieldVars,
           threadVars
<1>2. Queued'
    BY DEF Resumed, Queued, TypeOK, Conclude, loopVars, threadVars
<1>3. Fresh'
    BY DEF Resumed, Fresh, TypeOK, Conclude, loopVars, threadVars
<1>4. Submitted'
    BY DEF Resumed, Submitted, TypeOK, Conclude, loopVars, threadVars
<1>5. Answered'
    BY DEF Resumed, Answered, TypeOK, Conclude, threadVars
<1>6. Interrupts'
    BY DEF Resumed, Interrupts, TypeOK, Conclude, threadVars
<1>7. Registered' /\ Assigned' /\ BusyWorkers' /\ WaitingWorkers'
         /\ IdleWorkers' /\ OtherWorkers' /\ Reported' /\ Outcomes'
         /\ WorkConserving' /\ Cleaned'
    BY DEF Resumed, Registered, Assigned, BusyWorkers, WaitingWorkers,
           IdleWorkers, OtherWorkers, Reported, Outcomes, WorkConserving,
           Cleaned, Running, Busy, loopVars, fieldVars, threadVars
<1> QED BY <1>1, <1>2, <1>3, <1>4, <1>5, <1>6, <1>7

LEMMA CancelJobStep ==
    ASSUME PoolInv, NEW t \in Tasks, CancelJob(t)
    PROVE  PoolInv'
<1> USE DEF PoolInv, Bindings, Progress
<1>1. TypeOK'
  <2>1. CASE running_workers[t] = NoWorker
    BY <2>1 DEF CancelJob, TypeOK, TaskStates, loopVars, fieldVars
  <2>2. CASE running_workers[t] # NoWorker
    <3>1. PICK status \in {"NeedWait", "RetryLater", "Error"} :
             /\ cancel_worker(running_workers[t], status)
             /\ task' = [task EXCEPT ![t] = CASE status = "NeedWait" -> "draining"
                                              [] status = "RetryLater" -> "retrying"
                                              [] status = "Error" -> "rethrowing"]
             /\ ready' = IF status = "RetryLater" THEN ready \cup {t} ELSE ready
      BY <2>2 DEF CancelJob
    <3>2. task' \in [Tasks -> TaskStates] /\ ready' \subseteq Tasks
      BY <3>1 DEF TypeOK, TaskStates
    <3>3. intr' \in [Workers -> BOOLEAN]
      BY <3>1 DEF TypeOK, cancel_worker
    <3>4. round' \subseteq Tasks
      BY DEF CancelJob, TypeOK
    <3> QED BY <3>2, <3>3, <3>4 DEF CancelJob, TypeOK, loopVars, fieldVars
  <2> QED BY <2>1, <2>2
<1>2. Queued'
    BY DEF CancelJob, Queued, TypeOK, loopVars
<1>3. Fresh'
    BY DEF CancelJob, Fresh, TypeOK, loopVars
<1>4. Submitted'
    BY DEF CancelJob, Submitted, TypeOK, loopVars
<1>5. Answered'
    BY DEF CancelJob, Answered, TypeOK, Resume
<1>6. Interrupts'
    BY DEF CancelJob, Interrupts, TypeOK, Registered, BusyWorkers, Busy,
           cancel_worker
<1>7. Registered' /\ Assigned' /\ BusyWorkers' /\ WaitingWorkers'
         /\ IdleWorkers' /\ OtherWorkers' /\ Reported' /\ Outcomes'
         /\ WorkConserving' /\ Cleaned'
    BY DEF CancelJob, Registered, Assigned, BusyWorkers, WaitingWorkers,
           IdleWorkers, OtherWorkers, Reported, Outcomes, WorkConserving,
           Cleaned, Running, Busy, loopVars, fieldVars
<1> QED BY <1>1, <1>2, <1>3, <1>4, <1>5, <1>6, <1>7

LEMMA CancelStep ==
    ASSUME PoolInv, NEW t \in Tasks, Cancel(t)
    PROVE  PoolInv'
<1> USE DEF PoolInv, Bindings, Progress
<1>1. TypeOK'
    BY DEF Cancel, TypeOK, Woken, loopVars, fieldVars, threadVars
<1>2. Fresh'
    BY DEF Cancel, Fresh, Shielded, Woken, loopVars, threadVars
<1>3. Answered'
    BY DEF Cancel, Answered, Shielded, Woken, threadVars
<1>4. Interrupts'
    BY DEF Cancel, Interrupts, threadVars
<1>5. Registered' /\ Assigned' /\ BusyWorkers' /\ WaitingWorkers'
         /\ IdleWorkers' /\ OtherWorkers' /\ Reported' /\ Outcomes' /\ Queued'
         /\ Submitted' /\ WorkConserving' /\ Cleaned'
    BY DEF Cancel, Registered, Assigned, BusyWorkers, WaitingWorkers,
           IdleWorkers, OtherWorkers, Reported, Outcomes, Queued, Submitted,
           WorkConserving, Cleaned, Running, Busy, loopVars, fieldVars,
           threadVars
<1> QED BY <1>1, <1>2, <1>3, <1>4, <1>5

LEMMA PostSignalStep ==
    ASSUME PoolInv, PostSignal
    PROVE  PoolInv'
<1> USE DEF PoolInv, Bindings, Progress
<1>1. TypeOK'
    BY DEF PostSignal, TypeOK, loopVars, taskVars, fieldVars
<1>2. Reported'
    BY PoolAssumption DEF PostSignal, Reported, loopVars, fieldVars
<1>3. Registered' /\ Assigned' /\ BusyWorkers' /\ WaitingWorkers'
         /\ IdleWorkers' /\ OtherWorkers' /\ Outcomes' /\ Queued' /\ Fresh'
         /\ Submitted' /\ Answered' /\ Interrupts' /\ WorkConserving'
         /\ Cleaned'
    BY DEF PostSignal, Registered, Assigned, BusyWorkers, WaitingWorkers,
           IdleWorkers, OtherWorkers, Outcomes, Queued, Fresh, Submitted,
           Answered, Interrupts, WorkConserving, Cleaned, Running, Busy,
           loopVars, taskVars, fieldVars
<1> QED BY <1>1, <1>2, <1>3

LEMMA PollStep ==
    ASSUME PoolInv, Poll
    PROVE  PoolInv'
<1> USE DEF PoolInv, Bindings, Progress
<1>1. TypeOK'
    BY DEF Poll, TypeOK, taskVars, fieldVars
<1>2. IdleWorkers'
    BY DEF Poll, IdleWorkers, fieldVars
<1>3. OtherWorkers'
    BY DEF Poll, OtherWorkers, fieldVars
<1>4. Reported'
    BY DEF Poll, Reported, fieldVars
<1>5. Cleaned'
    BY DEF Poll, Cleaned
<1>6. Registered' /\ Assigned' /\ BusyWorkers' /\ WaitingWorkers' /\ Outcomes'
         /\ Queued' /\ Fresh' /\ Submitted' /\ Answered' /\ Interrupts'
         /\ WorkConserving'
    BY DEF Poll, Registered, Assigned, BusyWorkers, WaitingWorkers, Outcomes,
           Queued, Fresh, Submitted, Answered, Interrupts, WorkConserving,
           Running, Busy, taskVars, fieldVars
<1> QED BY <1>1, <1>2, <1>3, <1>4, <1>5, <1>6

LEMMA HandleCompletedJobStep ==
    ASSUME PoolInv, NEW t \in Tasks, HandleCompletedJob(t)
    PROVE  PoolInv'
<1> USE DEF PoolInv, Bindings, Progress
<1> DEFINE w == running_workers[t]
           done == [running_workers EXCEPT ![t] = NoWorker]
<1>1. TypeOK'
  <2>1. CASE job_queue = {}
    BY <2>1 DEF HandleCompletedJob, TypeOK, worker_enter_idle, Woken, threadVars
  <2>2. CASE job_queue # {}
    <3>1. PICK next \in job_queue :
              /\ job_queue' = job_queue \ {next}
              /\ running_workers' = [done EXCEPT ![next] = w]
              /\ wake_worker(w, next)
              /\ UNCHANGED idle_workers
      BY <2>2 DEF HandleCompletedJob
    <3> QED BY <3>1 DEF HandleCompletedJob, TypeOK, wake_worker, Woken, threadVars
  <2> QED BY <2>1, <2>2
<1>2. Registered'
    BY DEF HandleCompletedJob, Registered, TypeOK
<1>3. Assigned'
    BY DEF HandleCompletedJob, Assigned, TypeOK, wake_worker,
           worker_enter_idle, threadVars
<1>4. BusyWorkers'
    BY PoolAssumption DEF HandleCompletedJob, BusyWorkers, TypeOK, Reported,
           Queued, Busy, wake_worker, worker_enter_idle, threadVars
<1>5. WaitingWorkers'
    BY PoolAssumption DEF HandleCompletedJob, WaitingWorkers, TypeOK, Queued,
           wake_worker, worker_enter_idle, threadVars
<1>6. IdleWorkers'
    BY DEF HandleCompletedJob, IdleWorkers, TypeOK, Assigned, Reported,
           wake_worker, worker_enter_idle, threadVars
<1>7. OtherWorkers'
    BY DEF HandleCompletedJob, OtherWorkers, TypeOK, Assigned, wake_worker,
           worker_enter_idle, threadVars
<1>8. Reported'
    BY DEF HandleCompletedJob, Reported, TypeOK, Registered, Queued,
           wake_worker, worker_enter_idle, threadVars
<1>9. Outcomes'
    BY DEF HandleCompletedJob, Outcomes, TypeOK, Registered, Reported, Queued,
           wake_worker, worker_enter_idle, threadVars
<1>10. Queued'
    BY DEF HandleCompletedJob, Queued, TypeOK, threadVars
<1>11. Fresh'
    BY DEF HandleCompletedJob, Fresh, TypeOK, Woken, threadVars
<1>12. Submitted'
    BY DEF HandleCompletedJob, Submitted, TypeOK, Reported, Outcomes,
           threadVars
<1>13. Answered'
    BY DEF HandleCompletedJob, Answered, Reported, Outcomes, Woken, threadVars
<1>14. WorkConserving'
  <2>1. CASE job_queue = {}
    BY <2>1 DEF HandleCompletedJob, WorkConserving
  <2>2. CASE job_queue # {}
    <3>1. PICK next \in job_queue :
              /\ job_queue' = job_queue \ {next}
              /\ running_workers' = [done EXCEPT ![next] = w]
              /\ UNCHANGED idle_workers
      BY <2>2 DEF HandleCompletedJob
    <3>2. /\ t \in Running /\ next \notin Running \ {t}
          /\ Running' = (Running \ {t}) \cup {next}
      BY <3>1 DEF HandleCompletedJob, Queued, TypeOK, Running
    <3>3. IsFiniteSet(Running) /\ IsFiniteSet(Running \ {t})
      BY RunningBound, FS_RemoveElement
    <3>4. Cardinality(Running \ {t}) = Cardinality(Running) - 1
      BY <3>2, <3>3, FS_RemoveElement
    <3>5. Cardinality((Running \ {t}) \cup {next}) = Cardinality(Running \ {t}) + 1
      BY <3>2, <3>3, FS_AddElement
    <3>6. Cardinality(Running') = Cardinality(Running)
      BY <3>2, <3>4, <3>5, RunningBound
    <3> QED BY <2>2, <3>1, <3>6 DEF WorkConserving
  <2> QED BY <2>1, <2>2
<1>15. Cleaned'
    BY DEF HandleCompletedJob, Cleaned
<1>16. Interrupts'
    BY DEF HandleCompletedJob, Interrupts, threadVars
<1> QED BY <1>1, <1>2, <1>3, <1>4, <1>5, <1>6, <1>7, <1>8, <1>9, <1>10, <1>11,
       <1>12, <1>13, <1>14, <1>15, <1>16

LEMMA HandleSignalStep ==
    ASSUME PoolInv, HandleSignal
    PROVE  PoolInv'
<1> USE DEF PoolInv, Bindings, Progress
<1>1. TypeOK'
    BY PoolAssumption DEF HandleSignal, TypeOK, Woken, fieldVars, threadVars
<1>2. Reported'
    BY DEF HandleSignal, Reported, fieldVars, threadVars
<1>3. Fresh'
    BY DEF HandleSignal, Fresh, Shielded, Woken, threadVars
<1>4. Answered'
    BY DEF HandleSignal, Answered, Shielded, Woken, threadVars
<1>5. Interrupts'
    BY DEF HandleSignal, Interrupts, threadVars
<1>6. Registered' /\ Assigned' /\ BusyWorkers' /\ WaitingWorkers'
         /\ IdleWorkers' /\ OtherWorkers' /\ Outcomes' /\ Queued' /\ Submitted'
         /\ WorkConserving' /\ Cleaned'
    BY DEF HandleSignal, Registered, Assigned, BusyWorkers, WaitingWorkers,
           IdleWorkers, OtherWorkers, Outcomes, Queued, Submitted,
           WorkConserving, Cleaned, Running, Busy, fieldVars, threadVars
<1> QED BY <1>1, <1>2, <1>3, <1>4, <1>5, <1>6

LEMMA RescheduleStep ==
    ASSUME PoolInv, Reschedule
    PROVE  PoolInv'
<1> USE DEF PoolInv, Bindings, Progress
<1>1. TypeOK'
    BY DEF Reschedule, TypeOK, fieldVars, threadVars
<1>2. IdleWorkers'
    BY DEF Reschedule, IdleWorkers, fieldVars, threadVars
<1>3. OtherWorkers'
    BY DEF Reschedule, OtherWorkers, fieldVars, threadVars
<1>4. Fresh'
    BY DEF Reschedule, Fresh, threadVars
<1>5. Answered'
    BY DEF Reschedule, Answered, threadVars
<1>6. Cleaned'
    BY DEF Reschedule, Cleaned
<1>7. Registered' /\ Assigned' /\ BusyWorkers' /\ WaitingWorkers' /\ Reported'
         /\ Outcomes' /\ Queued' /\ Submitted' /\ Interrupts'
         /\ WorkConserving'
    BY DEF Reschedule, Registered, Assigned, BusyWorkers, WaitingWorkers,
           Reported, Outcomes, Queued, Submitted, Interrupts, WorkConserving,
           Running, Busy, fieldVars, threadVars
<1> QED BY <1>1, <1>2, <1>3, <1>4, <1>5, <1>6, <1>7

LEMMA EndOfRoundStep ==
    ASSUME PoolInv, EndOfRound
    PROVE  PoolInv'
<1> USE DEF PoolInv, Bindings, Progress
<1>1. TypeOK'
    BY DEF EndOfRound, TypeOK, taskVars, fieldVars, threadVars
<1>2. IdleWorkers'
    BY DEF EndOfRound, IdleWorkers, fieldVars, threadVars
<1>3. OtherWorkers'
    BY DEF EndOfRound, OtherWorkers, fieldVars, threadVars
<1>4. Cleaned'
    BY DEF EndOfRound, Cleaned
<1>5. Registered' /\ Assigned' /\ BusyWorkers' /\ WaitingWorkers' /\ Reported'
         /\ Outcomes' /\ Queued' /\ Fresh' /\ Submitted' /\ Answered'
         /\ Interrupts' /\ WorkConserving'
    BY DEF EndOfRound, Registered, Assigned, BusyWorkers, WaitingWorkers,
           Reported, Outcomes, Queued, Fresh, Submitted, Answered, Interrupts,
           WorkConserving, Running, Busy, taskVars, fieldVars, threadVars
<1> QED BY <1>1, <1>2, <1>3, <1>4, <1>5

LEMMA BeginCleanupStep ==
    ASSUME PoolInv, BeginCleanup
    PROVE  PoolInv'
<1> USE DEF PoolInv, Bindings, Progress
<1>1. TypeOK'
    BY DEF BeginCleanup, TypeOK, taskVars, fieldVars, threadVars
<1>2. IdleWorkers'
    BY DEF BeginCleanup, IdleWorkers, fieldVars, threadVars
<1>3. OtherWorkers'
    BY DEF BeginCleanup, OtherWorkers, fieldVars, threadVars
<1>4. Cleaned'
  <2>1. job_queue = {}
    BY FS_EmptySet, PoolAssumption DEF BeginCleanup, WorkConserving
  <2> QED BY <2>1 DEF BeginCleanup, Cleaned, Running
<1>5. Registered' /\ Assigned' /\ BusyWorkers' /\ WaitingWorkers' /\ Reported'
         /\ Outcomes' /\ Queued' /\ Fresh' /\ Submitted' /\ Answered'
         /\ Interrupts' /\ WorkConserving'
    BY DEF BeginCleanup, Registered, Assigned, BusyWorkers, WaitingWorkers,
           Reported, Outcomes, Queued, Fresh, Submitted, Answered, Interrupts,
           WorkConserving, Running, Busy, taskVars, fieldVars, threadVars
<1> QED BY <1>1, <1>2, <1>3, <1>4, <1>5

LEMMA free_workerStep ==
    ASSUME PoolInv, NEW w \in Workers, free_worker(w)
    PROVE  PoolInv'
<1> USE DEF PoolInv, Bindings, Progress
<1>1. TypeOK'
    BY DEF free_worker, TypeOK, wake_worker, loopVars, taskVars, threadVars
<1>2. Assigned'
    BY DEF free_worker, Assigned, wake_worker, loopVars, threadVars
<1>3. BusyWorkers'
    BY DEF free_worker, BusyWorkers, IdleWorkers, Busy, wake_worker, loopVars,
           threadVars
<1>4. WaitingWorkers'
    BY DEF free_worker, WaitingWorkers, TypeOK, wake_worker, loopVars,
           threadVars
<1>5. IdleWorkers'
    BY DEF free_worker, IdleWorkers, wake_worker, loopVars, threadVars
<1>6. OtherWorkers'
    BY DEF free_worker, OtherWorkers, wake_worker, loopVars, threadVars
<1>7. Reported'
    BY DEF free_worker, Reported, Assigned, wake_worker, loopVars, threadVars
<1>8. Outcomes'
    BY DEF free_worker, Outcomes, Assigned, wake_worker, loopVars, threadVars
<1>9. Registered' /\ Queued' /\ Fresh' /\ Submitted' /\ Answered'
         /\ Interrupts' /\ WorkConserving' /\ Cleaned'
    BY DEF free_worker, Registered, Queued, Fresh, Submitted, Answered,
           Interrupts, WorkConserving, Cleaned, Running, loopVars, taskVars,
           threadVars
<1> QED BY <1>1, <1>2, <1>3, <1>4, <1>5, <1>6, <1>7, <1>8, <1>9

LEMMA JoinWorkerStep ==
    ASSUME PoolInv, NEW w \in Workers, JoinWorker(w)
    PROVE  PoolInv'
<1> USE DEF PoolInv, Bindings, Progress
<1>1. TypeOK'
    BY DEF JoinWorker, TypeOK, ThreadStates, taskVars, fieldVars
<1>2. Assigned'
    BY DEF JoinWorker, Assigned, fieldVars
<1>3. BusyWorkers'
    BY DEF JoinWorker, BusyWorkers, Busy, fieldVars
<1>4. WaitingWorkers'
    BY DEF JoinWorker, WaitingWorkers, fieldVars
<1>5. IdleWorkers'
    BY DEF JoinWorker, IdleWorkers, fieldVars
<1>6. OtherWorkers'
    BY DEF JoinWorker, OtherWorkers, TypeOK, fieldVars
<1>7. Reported'
    BY DEF JoinWorker, Reported, fieldVars
<1>8. Outcomes'
    BY DEF JoinWorker, Outcomes, fieldVars
<1>9. Interrupts'
    BY DEF JoinWorker, Interrupts, taskVars
<1>10. WorkConserving'
    BY DEF JoinWorker, WorkConserving
<1>11. Cleaned'
    BY DEF JoinWorker, Cleaned, Running
<1>12. Registered' /\ Queued' /\ Fresh' /\ Submitted' /\ Answered'
    BY DEF JoinWorker, Registered, Queued, Fresh, Submitted, Answered, taskVars
<1> QED BY <1>1, <1>2, <1>3, <1>4, <1>5, <1>6, <1>7, <1>8, <1>9, <1>10, <1>11,
       <1>12

LEMMA StopStep ==
    ASSUME PoolInv, Stop
    PROVE  PoolInv'
<1> USE DEF PoolInv, Bindings, Progress
<1>1. TypeOK'
    BY DEF Stop, TypeOK, taskVars, fieldVars, threadVars
<1>2. IdleWorkers'
    BY DEF Stop, IdleWorkers
<1>3. OtherWorkers'
    BY DEF Stop, OtherWorkers, fieldVars, threadVars
<1>4. Cleaned'
    BY DEF Stop, Cleaned, Running
<1>5. Registered' /\ Assigned' /\ BusyWorkers' /\ WaitingWorkers' /\ Reported'
         /\ Outcomes' /\ Queued' /\ Fresh' /\ Submitted' /\ Answered'
         /\ Interrupts' /\ WorkConserving'
    BY DEF Stop, Registered, Assigned, BusyWorkers, WaitingWorkers, Reported,
           Outcomes, Queued, Fresh, Submitted, Answered, Interrupts,
           WorkConserving, Running, Busy, taskVars, fieldVars, threadVars
<1> QED BY <1>1, <1>2, <1>3, <1>4, <1>5

-----------------------------------------------------------------------------
(* The contract.  JobOf(t) is JobState[t], said through the table instead  *)
(* of through the threads; while PoolInv holds the two agree.              *)

JobOf(t) ==
    IF running_workers[t] # NoWorker /\ pc[running_workers[t]] \in {"run", "blocked"}
    THEN "executing"
    ELSE IF outcome[t] # "none" THEN "executed"
    ELSE IF \/ task[t] \in {"unborn", "new"}
            \/ task[t] = "raised" /\ t \notin job_queue /\ running_workers[t] = NoWorker
    THEN "unsubmitted" ELSE "submitted"

\* The threads perform exactly the jobs the table has with a thread that is
\* in its job.
LEMMA JobStateAt ==
    PoolInv => JobState = [t \in Tasks |-> JobOf(t)]
<1> SUFFICES ASSUME PoolInv PROVE JobState = [t \in Tasks |-> JobOf(t)]
    OBVIOUS
<1> DEFINE performed(t) == \E w \in Workers : cur[w] = t /\ pc[w] \in {"run", "blocked"}
           registered(t) == running_workers[t] # NoWorker
                            /\ pc[running_workers[t]] \in {"run", "blocked"}
<1>1. ASSUME NEW t \in Tasks, performed(t) PROVE registered(t)
  <2>1. PICK w \in Workers : cur[w] = t /\ pc[w] \in {"run", "blocked"}
    BY <1>1
  <2> QED BY <2>1, PoolAssumption DEF PoolInv, Bindings, BusyWorkers, Busy
<1>2. ASSUME NEW t \in Tasks, registered(t) PROVE performed(t)
  <2>1. running_workers[t] \in Workers
    BY <1>2 DEF PoolInv, TypeOK
  <2>2. cur[running_workers[t]] = t
    BY <1>2, <2>1 DEF PoolInv, Bindings, Registered, BusyWorkers, Busy
  <2> QED BY <1>2, <2>1, <2>2
<1>3. \A t \in Tasks : performed(t) <=> registered(t)
    BY <1>1, <1>2
<1> QED BY <1>3 DEF JobState, JobOf

LEMMA JobStateNext ==
    PoolInv' => (JobState = [t \in Tasks |-> JobOf(t)])'
BY JobStateAt, PTL

\* A step that changes no job's state as the table has it, no result and no
\* cancellation is a stuttering step of the contract.
LEMMA Stutters ==
    ASSUME PoolInv, PoolInv', \A t \in Tasks : JobOf(t)' = JobOf(t),
           task' = task \/ \A t \in Tasks : TaskResult'[t] = TaskResult[t],
           cancelled' = cancelled
    PROVE  UNCHANGED Contract!vars
<1>1. JobState' = JobState
    BY JobStateAt, JobStateNext
<1>2. TaskResult' = TaskResult
    BY DEF TaskResult, Concluded
<1> QED BY <1>1, <1>2 DEF Contract!vars

\* A step that moves the state of one job is that job's step of the contract.
LEMMA Advances ==
    ASSUME PoolInv, PoolInv', NEW t \in Tasks,
           \A u \in Tasks \ {t} : JobOf(u)' = JobOf(u),
           \/ JobOf(t) = "unsubmitted" /\ JobOf(t)' \in {"submitted", "executing"}
              /\ ~Concluded(t)
           \/ JobOf(t) = "submitted" /\ JobOf(t)' = "executing"
           \/ JobOf(t) = "executing" /\ JobOf(t)' = "executed",
           cancelled' = cancelled, TaskResult' = TaskResult
    PROVE  Contract!Next
<1>1. JobState[t] = JobOf(t) /\ JobState' = [JobState EXCEPT ![t] = JobOf(t)']
    BY JobStateAt, JobStateNext
<1>2. ~Concluded(t) => TaskResult[t] = "pending"
    BY DEF TaskResult
<1> QED BY <1>1, <1>2 DEF Contract!Next, Contract!Advance

\* A step that only ends a task is its return or its raise.
LEMMA Concludes ==
    ASSUME PoolInv, PoolInv', NEW t \in Tasks, \A u \in Tasks : JobOf(u)' = JobOf(u),
           ~Concluded(t),
           \/ task' = [task EXCEPT ![t] = "returned"] /\ JobOf(t) = "executed"
           \/ task' = [task EXCEPT ![t] = "raised"] /\ t \in cancelled,
           cancelled' = cancelled
    PROVE  Contract!Next
<1>1. JobState' = JobState /\ JobState[t] = JobOf(t)
    BY JobStateAt, JobStateNext
<1>2. /\ TaskResult[t] = "pending"
      /\ TaskResult' = [TaskResult EXCEPT ![t] = task'[t]]
    BY DEF TaskResult, Concluded, PoolInv, TypeOK
<1> QED BY <1>1, <1>2 DEF Contract!Next, Contract!Return, Contract!Raise, PoolInv, TypeOK

(* The steps of the threads.  A job moves on when a thread takes it and    *)
(* when its call ends; the rest of a thread's loop is its own affair.      *)

LEMMA LeaveCallMaps ==
    ASSUME PoolInv, PoolInv', NEW w \in Workers, NEW result \in {"done", "aborted"},
           LeaveCall(w, result)
    PROVE  Contract!Next
<1> USE DEF PoolInv, Bindings, Progress
<1>1. PICK t \in Tasks : t = cur[w] /\ running_workers[t] = w
    BY DEF LeaveCall, BusyWorkers, Busy
<1>2. JobOf(t) = "executing" /\ JobOf(t)' = "executed"
    BY <1>1, PoolAssumption DEF LeaveCall, JobOf, TypeOK, loopVars, taskVars
<1>3. \A u \in Tasks \ {t} : JobOf(u)' = JobOf(u)
    BY <1>1 DEF LeaveCall, JobOf, TypeOK, Registered, loopVars, taskVars
<1>4. cancelled' = cancelled /\ TaskResult' = TaskResult
    BY DEF LeaveCall, TaskResult, Concluded, taskVars
<1> QED BY <1>2, <1>3, <1>4, Advances

LEMMA NextJobMaps ==
    ASSUME PoolInv, PoolInv', NEW w \in Workers, NextJob(w)
    PROVE  [Contract!Next]_(Contract!vars)
<1> USE DEF PoolInv, Bindings, Progress
<1>1. cancelled' = cancelled /\ task' = task /\ TaskResult' = TaskResult
    BY DEF NextJob, TaskResult, Concluded, taskVars
<1>2. CASE wjob[w] = NoJob
  <2>1. \A t \in Tasks : JobOf(t)' = JobOf(t)
    BY <1>2, PoolAssumption DEF NextJob, JobOf, TypeOK, Assigned, loopVars, taskVars
  <2> QED BY <1>1, <2>1, Stutters
<1>3. CASE wjob[w] # NoJob
  <2>1. PICK t \in Tasks : t = wjob[w] /\ running_workers[t] = w /\ ~waiting[w]
    BY <1>3 DEF NextJob, MayWake, TypeOK, WaitingWorkers, IdleWorkers
  <2>2. JobOf(t) = "submitted" /\ JobOf(t)' = "executing"
    BY <1>3, <2>1, PoolAssumption
    DEF NextJob, JobOf, TypeOK, Outcomes, Fresh, loopVars, taskVars
  <2>3. \A u \in Tasks \ {t} : JobOf(u)' = JobOf(u)
    BY <1>3, <2>1 DEF NextJob, JobOf, TypeOK, Registered, loopVars, taskVars
  <2> QED BY <1>1, <2>2, <2>3, Advances
<1> QED BY <1>2, <1>3

LEMMA ThreadStutters ==
    ASSUME PoolInv, PoolInv', NEW w \in Workers,
           EnterCall(w) \/ SetWaiting(w) \/ PostCompletion(w)
    PROVE  UNCHANGED Contract!vars
<1>1. \A t \in Tasks : JobOf(t)' = JobOf(t)
    BY DEF EnterCall, SetWaiting, PostCompletion, JobOf, PoolInv, TypeOK, loopVars, taskVars
<1>2. cancelled' = cancelled /\ task' = task
    BY DEF EnterCall, SetWaiting, PostCompletion, taskVars
<1> QED BY <1>1, <1>2, Stutters

(* The steps of the coroutines. *)

LEMMA SubmitMaps ==
    ASSUME PoolInv, PoolInv', NEW t \in Tasks, Submit(t)
    PROVE  Contract!Next
<1> USE DEF PoolInv, Bindings, Progress
<1>1. /\ task[t] = "new" /\ running_workers[t] = NoWorker /\ outcome[t] = "none"
      /\ task' = [task EXCEPT ![t] = "waiting"] /\ outcome' = outcome
      /\ cancelled' = cancelled
    BY DEF Submit, Fresh
<1>2. JobOf(t) = "unsubmitted" /\ ~Concluded(t)
    BY <1>1 DEF JobOf, Concluded
<1>3. TaskResult' = TaskResult
    BY <1>1 DEF TaskResult, Concluded, TypeOK
<1>4. JobOf(t)' \in {"submitted", "executing"}
    BY <1>1 DEF JobOf, TypeOK
<1>5. \A u \in Tasks \ {t} : JobOf(u)' = JobOf(u)
  <2>1. CASE idle_workers # {}
    BY <1>1, <2>1 DEF Submit, JobOf, TypeOK
  <2>2. CASE idle_workers = {} /\ Cardinality(Running) < MaxWorkerCount
    BY <1>1, <2>2, RunningBound, PoolAssumption
    DEF Submit, spawn_worker, JobOf, TypeOK, Assigned
  <2>3. CASE idle_workers = {} /\ ~(Cardinality(Running) < MaxWorkerCount)
    BY <1>1, <2>3 DEF Submit, JobOf, TypeOK
  <2> QED BY <2>1, <2>2, <2>3
<1> QED BY <1>1, <1>2, <1>3, <1>4, <1>5, Advances

LEMMA CancelledBeforeSubmitMaps ==
    ASSUME PoolInv, PoolInv', NEW t \in Tasks, CancelledBeforeSubmit(t)
    PROVE  Contract!Next
<1>1. \A u \in Tasks : JobOf(u)' = JobOf(u)
    BY DEF CancelledBeforeSubmit, JobOf, PoolInv, Progress, TypeOK, Fresh, loopVars, threadVars
<1> QED BY <1>1, Concludes DEF CancelledBeforeSubmit, Concluded

LEMMA ResumedMaps ==
    ASSUME PoolInv, PoolInv', NEW t \in Tasks, Resumed(t)
    PROVE  Contract!Next
<1> USE DEF PoolInv, Bindings, Progress
<1>1. outcome[t] # "none"
    BY DEF Resumed, Resume, Shielded, Answered
<1>2. JobOf(t) = "executed"
    BY <1>1 DEF JobOf, Outcomes
<1>3. ~Concluded(t) /\ task[t] \notin {"unborn", "new"}
    BY DEF Resumed, Concluded
<1>4. \A u \in Tasks : JobOf(u)' = JobOf(u)
    BY <1>1 DEF Resumed, Conclude, JobOf, TypeOK, loopVars, threadVars
<1>5. \/ task' = [task EXCEPT ![t] = "returned"]
      \/ task' = [task EXCEPT ![t] = "raised"] /\ t \in cancelled
    BY DEF Resumed, Conclude, Interrupts
<1>6. cancelled' = cancelled
    BY DEF Resumed
<1> QED BY <1>2, <1>3, <1>4, <1>5, <1>6, Concludes

LEMMA CancelJobMaps ==
    ASSUME PoolInv, PoolInv', NEW t \in Tasks, CancelJob(t)
    PROVE  [Contract!Next]_(Contract!vars)
<1> USE DEF PoolInv, Bindings, Progress
<1>1. /\ ~Concluded(t) /\ t \in cancelled /\ task[t] \in {"waiting", "retrying"}
      /\ cancelled' = cancelled
    BY DEF CancelJob, Concluded, Interrupts
<1>2. CASE running_workers[t] = NoWorker
  <2>1. task' = [task EXCEPT ![t] = "raised"]
    BY <1>2 DEF CancelJob
  <2>2. \A u \in Tasks : JobOf(u)' = JobOf(u)
    BY <1>1, <1>2, <2>1 DEF CancelJob, JobOf, TypeOK, Submitted, loopVars
  <2> QED BY <1>1, <2>1, <2>2, Concludes
<1>3. CASE running_workers[t] # NoWorker
  <2>1. PICK next \in {"draining", "retrying", "rethrowing"} :
            task' = [task EXCEPT ![t] = next]
    BY <1>3 DEF CancelJob
  <2>2. \A u \in Tasks : JobOf(u)' = JobOf(u)
    BY <1>1, <1>3, <2>1 DEF CancelJob, JobOf, TypeOK, loopVars
  <2>3. TaskResult' = TaskResult
    BY <1>1, <2>1 DEF TaskResult, Concluded, TypeOK
  <2> QED BY <1>1, <2>2, <2>3, Stutters
<1> QED BY <1>2, <1>3

LEMMA SpawnTaskStutters ==
    ASSUME PoolInv, PoolInv', NEW t \in Tasks, SpawnTask(t)
    PROVE  UNCHANGED Contract!vars
<1>1. \A u \in Tasks : JobOf(u)' = JobOf(u)
    BY DEF SpawnTask, JobOf, PoolInv, TypeOK, loopVars, threadVars
<1>2. TaskResult' = TaskResult /\ cancelled' = cancelled
    BY DEF SpawnTask, TaskResult, Concluded, PoolInv, TypeOK
<1> QED BY <1>1, <1>2, Stutters

\* A request to cancel, by another coroutine or by a signal.
LEMMA CancelMaps ==
    ASSUME PoolInv, PoolInv', NEW t \in Tasks,
           cancelled' = cancelled \cup {t},
           UNCHANGED <<task, running_workers, job_queue, pc, outcome>>
    PROVE  Contract!Next
<1>1. \A u \in Tasks : JobOf(u)' = JobOf(u)
    BY DEF JobOf
<1>2. JobState' = JobState /\ TaskResult' = TaskResult
    BY <1>1, JobStateAt, JobStateNext DEF TaskResult, Concluded
<1> QED BY <1>2 DEF Contract!Next, Contract!Cancel

(* The steps of the loop: none of them shows in the contract, not even the *)
(* hand-over of a worker from a job that is over to one that has not begun.*)

LEMMA HandleCompletedJobStutters ==
    ASSUME PoolInv, PoolInv', NEW t \in Tasks, HandleCompletedJob(t)
    PROVE  UNCHANGED Contract!vars
<1> USE DEF PoolInv, Bindings, Progress
<1> DEFINE w == running_workers[t]
           done == [running_workers EXCEPT ![t] = NoWorker]
<1>1. /\ w \in Workers /\ pc[w] = "wait" /\ waiting[w] /\ outcome[t] # "none"
      /\ UNCHANGED <<task, cancelled, pc, outcome>>
    BY DEF HandleCompletedJob, TypeOK, Reported, Outcomes, threadVars
<1>2. CASE job_queue = {}
  <2>1. running_workers' = done /\ job_queue' = job_queue
    BY <1>2 DEF HandleCompletedJob
  <2>2. \A u \in Tasks : JobOf(u)' = JobOf(u)
    BY <1>1, <2>1 DEF JobOf, TypeOK
  <2> QED BY <1>1, <2>2, Stutters
<1>3. CASE job_queue # {}
  <2>1. PICK next \in job_queue :
            /\ job_queue' = job_queue \ {next}
            /\ running_workers' = [done EXCEPT ![next] = w]
    BY <1>3 DEF HandleCompletedJob
  <2>2. \A u \in Tasks : JobOf(u)' = JobOf(u)
    BY <1>1, <2>1, PoolAssumption DEF JobOf, TypeOK, Queued
  <2> QED BY <1>1, <2>2, Stutters
<1> QED BY <1>2, <1>3

LEMMA LoopStutters ==
    ASSUME PoolInv, PoolInv',
           \/ PostSignal \/ Poll \/ Reschedule \/ EndOfRound \/ BeginCleanup \/ Stop
           \/ \E w \in Workers : free_worker(w) \/ JoinWorker(w)
    PROVE  UNCHANGED Contract!vars
<1>1. cancelled' = cancelled /\ task' = task /\ running_workers' = running_workers
      /\ job_queue' = job_queue /\ outcome' = outcome
    BY DEF PostSignal, Poll, Reschedule, EndOfRound, BeginCleanup, Stop, free_worker, JoinWorker,
           loopVars, taskVars, threadVars
<1>2. pc' = pc \/ \E w \in Workers : pc[w] = "ended" /\ pc' = [pc EXCEPT ![w] = "freed"]
    BY DEF PostSignal, Poll, Reschedule, EndOfRound, BeginCleanup, Stop, free_worker, JoinWorker,
           threadVars
<1>3. \A t \in Tasks : JobOf(t)' = JobOf(t)
    BY <1>1, <1>2 DEF JobOf, PoolInv, TypeOK
<1> QED BY <1>1, <1>3, Stutters

-----------------------------------------------------------------------------
(* The theorems. *)

LEMMA InitPool ==
    Init => PoolInv
<1> SUFFICES ASSUME Init PROVE PoolInv
    OBVIOUS
<1> USE PoolAssumption DEF Init
<1>1. TypeOK
    BY DEF TypeOK, TaskStates, ThreadStates, WakeupMethods
<1>2. Bindings
    BY DEF Bindings, Registered, Assigned, BusyWorkers, Busy, WaitingWorkers, IdleWorkers,
           OtherWorkers, Reported
<1>3. Progress
    BY DEF Progress, Outcomes, Queued, Fresh, Submitted, Answered, Interrupts
<1>4. WorkConserving /\ Cleaned
    BY DEF WorkConserving, Cleaned, Running
<1> QED BY <1>1, <1>2, <1>3, <1>4 DEF PoolInv

LEMMA NextPool ==
    PoolInv /\ [Next]_vars => PoolInv'
<1> SUFFICES ASSUME PoolInv, [Next]_vars PROVE PoolInv'
    OBVIOUS
<1>1. ASSUME LoopStep PROVE PoolInv'
    BY <1>1, PollStep, HandleSignalStep, RescheduleStep, EndOfRoundStep, BeginCleanupStep, StopStep,
       CancelledBeforeSubmitStep, SubmitStep, ResumedStep, CancelJobStep, HandleCompletedJobStep,
       free_workerStep, JoinWorkerStep
    DEF LoopStep
<1>2. ASSUME NEW w \in Workers, ThreadStep(w) PROVE PoolInv'
    BY <1>2, EnterCallStep, LeaveCallStep, SetWaitingStep, PostCompletionStep, NextJobStep
    DEF ThreadStep, MustLeaveCall
<1>3. ASSUME NEW w \in Workers, NEW r \in {"done", "aborted"}, LeaveCall(w, r) PROVE PoolInv'
    BY <1>3, LeaveCallStep
<1>4. ASSUME NEW t \in Tasks, SpawnTask(t) \/ Cancel(t) PROVE PoolInv'
    BY <1>4, SpawnTaskStep, CancelStep
<1>5. ASSUME PostSignal PROVE PoolInv'
    BY <1>5, PostSignalStep
<1>6. ASSUME UNCHANGED vars PROVE PoolInv'
    BY <1>6 DEF vars, loopVars, taskVars, fieldVars, threadVars, PoolInv, TypeOK,
       Bindings, Registered, Assigned, BusyWorkers, Busy, WaitingWorkers, IdleWorkers, OtherWorkers,
       Reported, Progress, Outcomes, Queued, Fresh, Submitted, Answered, Interrupts, WorkConserving,
       Cleaned, Running
<1> QED BY <1>1, <1>2, <1>3, <1>4, <1>5, <1>6 DEF Next

\* The inductive invariant, from the initial states and the twenty-one kinds
\* of steps of the loop, the coroutines and the threads.
THEOREM PoolInvariance == Spec => []PoolInv
<1>1. Spec => Init /\ [][Next]_vars
    BY DEF Spec
<1> QED BY <1>1, InitPool, NextPool, PTL

\* Every variable of the pool keeps its type.
THEOREM TypeCorrect == Spec => []TypeOK
<1>1. PoolInv => TypeOK
    BY DEF PoolInv
<1> QED BY <1>1, PoolInvariance, PTL

\* wake_worker and worker_enter_idle drop a worker's reference to a job only
\* when its thread is done with it, and a posted completion finds its worker.
THEOREM JobOutlivesItsRunHolds == Spec => []JobOutlivesItsRun
<1>1. PoolInv => JobOutlivesItsRun
    BY PoolAssumption
    DEF PoolInv, Bindings, TypeOK, BusyWorkers, Assigned, Reported, JobOutlivesItsRun
<1> QED BY <1>1, PoolInvariance, PTL

\* A job is queued by perform_job_in_worker, and left queued by
\* handle_completed_job, only while all workers of the limit are busy.
THEOREM WorkConservingHolds == Spec => []WorkConserving
<1>1. PoolInv => WorkConserving
    BY DEF PoolInv
<1> QED BY <1>1, PoolInvariance, PTL

\* When run_forever leaves its loop no job is queued or performed, and after
\* cleanup no thread is left.
THEOREM NothingLeftBehindHolds == Spec => []NothingLeftBehind
<1>1. PoolInv => NothingLeftBehind
  <2> SUFFICES ASSUME PoolInv PROVE NothingLeftBehind
      OBVIOUS
  <2> USE DEF PoolInv, Bindings
  <2>1. ASSUME phase \in {"cleanup", "stopped"}
        PROVE  job_queue = {} /\ \A w \in Workers : ~Busy(w)
      BY <2>1, PoolAssumption DEF Cleaned, Running, BusyWorkers
  <2>2. ASSUME phase = "stopped", NEW w \in Workers
        PROVE  pc[w] \in {"none", "freed"}
      BY <2>1, <2>2, PoolAssumption
      DEF TypeOK, ThreadStates, Busy, Cleaned, Running, WaitingWorkers, OtherWorkers
  <2> QED BY <2>1, <2>2 DEF NothingLeftBehind
<1> QED BY <1>1, PoolInvariance, PTL

LEMMA InitContract ==
    Init => Contract!Init
<1> SUFFICES ASSUME Init PROVE Contract!Init
    OBVIOUS
<1>1. JobState = [t \in Tasks |-> "unsubmitted"]
    BY DEF Init, JobState
<1>2. TaskResult = [t \in Tasks |-> "pending"]
    BY DEF Init, TaskResult, Concluded
<1> QED BY <1>1, <1>2 DEF Init, Contract!Init

LEMMA NextContract ==
    PoolInv /\ PoolInv' /\ [Next]_vars => [Contract!Next]_(Contract!vars)
<1> SUFFICES ASSUME PoolInv, PoolInv', [Next]_vars
             PROVE  [Contract!Next]_(Contract!vars)
    OBVIOUS
<1>1. ASSUME LoopStep PROVE [Contract!Next]_(Contract!vars)
  <2>1. CASE HandleSignal
    BY <2>1, CancelMaps, PoolAssumption DEF HandleSignal, threadVars
  <2>2. ASSUME NEW t \in Tasks,
               CancelledBeforeSubmit(t) \/ Submit(t) \/ Resumed(t) \/ CancelJob(t)
        PROVE  [Contract!Next]_(Contract!vars)
    BY <2>2, CancelledBeforeSubmitMaps, SubmitMaps, ResumedMaps, CancelJobMaps
  <2>3. ASSUME NEW t \in Tasks, HandleCompletedJob(t)
        PROVE  [Contract!Next]_(Contract!vars)
    BY <2>3, HandleCompletedJobStutters
  <2> QED BY <1>1, <2>1, <2>2, <2>3, LoopStutters DEF LoopStep
<1>2. ASSUME NEW w \in Workers, ThreadStep(w) PROVE [Contract!Next]_(Contract!vars)
    BY <1>2, ThreadStutters, LeaveCallMaps, NextJobMaps DEF ThreadStep, MustLeaveCall
<1>3. ASSUME NEW w \in Workers, NEW r \in {"done", "aborted"}, LeaveCall(w, r)
      PROVE  [Contract!Next]_(Contract!vars)
    BY <1>3, LeaveCallMaps
<1>4. ASSUME NEW t \in Tasks, SpawnTask(t) \/ Cancel(t)
      PROVE  [Contract!Next]_(Contract!vars)
    BY <1>4, SpawnTaskStutters, CancelMaps DEF Cancel, loopVars, threadVars
<1>5. CASE PostSignal
    BY <1>5, LoopStutters
<1>6. CASE UNCHANGED vars
    BY <1>6, Stutters DEF vars, loopVars, taskVars, threadVars, JobOf
<1> QED BY <1>1, <1>2, <1>3, <1>4, <1>5, <1>6 DEF Next

\* The pool implements JobContract: whatever workers, queue and cancellations
\* do, a job is performed at most once, its coroutine returns only after it
\* was, and raises only when it was cancelled.
THEOREM PoolKeepsContract == Spec => ContractSpec
<1>1. Spec => Init /\ [][Next]_vars
    BY DEF Spec
<1> QED BY <1>1, PoolInvariance, InitContract, NextContract, PTL DEF ContractSpec, Contract!Spec
=============================================================================
