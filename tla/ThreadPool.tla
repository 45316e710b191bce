----------------------------- MODULE ThreadPool -----------------------------
(***************************************************************************)
(* The thread pool of the async runtime (thread_pool.c) together with the  *)
(* event loop that drives it (event_loop.mbt): blocking operations are     *)
(* jobs, each performed by a worker thread while the coroutine that asked  *)
(* for it is suspended.  The loop is one thread: it polls, hands finished  *)
(* workers the next queued job, wakes coroutines, and runs them.  Workers  *)
(* are threads of their own and meet the loop only in the fields of their  *)
(* struct worker and in the completion pipe (or completion port).          *)
(*                                                                         *)
(* Every coroutine here performs one job, so a job is named by its task.   *)
(* The queues are sets: which idle worker or queued job is taken first is  *)
(* left open, and no property below depends on it.                         *)
(***************************************************************************)
EXTENDS FiniteSets, Integers

CONSTANTS
    Tasks,            \* coroutines, and the job each of them performs
    Cancellable,      \* tasks whose job is performed with cancel: open, flock
    Workers,          \* worker threads
    MaxWorkerCount,   \* max_worker_count (1024 in the program)
    Main,             \* the task cancelled when a signal arrives
    NoJob,            \* the null job that ends a worker
    NoWorker,
    Signal            \* a completion with its most significant bit set

ASSUME PoolAssumption ==
    /\ Cancellable \subseteq Tasks /\ Main \in Tasks
    /\ NoJob \notin Tasks /\ Signal \notin Tasks /\ NoWorker \notin Workers
    /\ MaxWorkerCount \in Nat \ {0}
    /\ IsFiniteSet(Workers) /\ Cardinality(Workers) = MaxWorkerCount

VARIABLES
    wakeup,           \* WAKEUP_METHOD_*: how a worker sleeps on this platform
    \* the event loop
    phase,            \* "poll", "handle", "schedule", "cleanup" or "stopped"
    inbox,            \* completions the last poll returned, not handled yet
    job_queue, idle_workers,
    running_workers,  \* from jobs to the worker that performs them
    killed_by_signal,
    \* the coroutines
    task, cancelled,
    ready, round,     \* run_later: for the next reschedule, for this one
    \* the workers
    pc, cur,          \* where each thread is, and its local variable job
    wjob, waiting,    \* the fields job and waiting of struct worker
    event,            \* a wake-up sent and not consumed
    intr,             \* the blocking call the thread is in has been interrupted
    outcome,          \* what job->err says: "none", "done" or "aborted"
    completions       \* the completion pipe or port

loopVars == <<phase, inbox, job_queue, idle_workers, running_workers, killed_by_signal>>
taskVars == <<task, cancelled, ready, round>>
fieldVars == <<wjob, waiting, event>>
threadVars == <<pc, cur, intr, outcome, completions>>
vars == <<wakeup, loopVars, taskVars, fieldVars, threadVars>>

WakeupMethods == {"event", "signal", "condvar"}
TaskStates == {"unborn", "new", "waiting", "draining", "rethrowing", "retrying",
               "returned", "raised"}
ThreadStates == {"none", "run", "blocked", "after", "post", "wait", "ended", "freed"}

Init ==
    /\ wakeup \in WakeupMethods
    /\ phase = "poll" /\ inbox = {}
    /\ job_queue = {} /\ idle_workers = {}
    /\ running_workers = [t \in Tasks |-> NoWorker]
    /\ killed_by_signal = FALSE
    /\ task = [t \in Tasks |-> IF t = Main THEN "new" ELSE "unborn"]
    /\ cancelled = {} /\ ready = {Main} /\ round = {}
    /\ pc = [w \in Workers |-> "none"] /\ cur = [w \in Workers |-> NoJob]
    /\ wjob = [w \in Workers |-> NoJob]
    /\ waiting = [w \in Workers |-> FALSE]
    /\ event = [w \in Workers |-> FALSE] /\ intr = [w \in Workers |-> FALSE]
    /\ outcome = [t \in Tasks |-> "none"] /\ completions = {}

Concluded(t) == task[t] \in {"returned", "raised"}
Alive(t) == task[t] # "unborn" /\ ~Concluded(t)
Running == {t \in Tasks : running_workers[t] # NoWorker}

\* shielded: inside protect_from_cancel, or spawned and not started.
Shielded(t) == task[t] # "waiting" \/ t \notin Cancellable

(* Coroutine::wake: a coroutine that is ready already is left alone. *)
Woken(S) == ready \cup (S \ round)

-----------------------------------------------------------------------------
(* The worker threads.                                                     *)

(* The job is in a call that blocks; a cancellable one may stay in it.     *)
EnterCall(w) ==
    /\ pc[w] = "run"
    /\ pc' = [pc EXCEPT ![w] = "blocked"]
    /\ UNCHANGED <<wakeup, loopVars, taskVars, fieldVars, cur, intr, outcome, completions>>

(* The call returns: on its own, or aborted when it has been interrupted. *)
LeaveCall(w, result) ==
    /\ pc[w] = "blocked"
    /\ result = "aborted" => intr[w]
    /\ pc' = [pc EXCEPT ![w] = "after"]
    /\ outcome' = [outcome EXCEPT ![cur[w]] = result]
    /\ intr' = [intr EXCEPT ![w] = FALSE]
    /\ UNCHANGED <<wakeup, loopVars, taskVars, fieldVars, cur, completions>>

(* Mutant of SetWaiting: the completion is posted while the thread still   *)
(* holds its job.                                                          *)
SetWaitingPosts(w) ==
    /\ pc[w] = "after"
    /\ pc' = [pc EXCEPT ![w] = "post"]
    /\ waiting' = [waiting EXCEPT ![w] = TRUE]
    /\ completions' = completions \cup {cur[w]}
    /\ UNCHANGED <<wakeup, loopVars, taskVars, wjob, event, cur, intr, outcome>>

SetWaiting(w) ==
    /\ pc[w] = "after"
    /\ pc' = [pc EXCEPT ![w] = "post"]
    /\ waiting' = [waiting EXCEPT ![w] = TRUE]
    /\ UNCHANGED <<wakeup, loopVars, taskVars, wjob, event, cur, intr, outcome, completions>>

PostCompletion(w) ==
    /\ pc[w] = "post"
    /\ pc' = [pc EXCEPT ![w] = "wait"]
    /\ completions' = completions \cup {cur[w]}
    /\ UNCHANGED <<wakeup, loopVars, taskVars, fieldVars, cur, intr, outcome>>

(* An event or a blocked signal is remembered; a condition variable is     *)
(* not, and the thread waits while its flag is set.                        *)
MayWake(w) == IF wakeup = "condvar" THEN ~waiting[w] ELSE event[w]

(* The thread wakes, and takes its next job from its struct; the null job  *)
(* ends its loop.                                                          *)
NextJob(w) ==
    /\ pc[w] = "wait" /\ MayWake(w)
    /\ cur' = [cur EXCEPT ![w] = wjob[w]]
    /\ pc' = [pc EXCEPT ![w] = IF wjob[w] = NoJob THEN "ended" ELSE "run"]
    /\ event' = [event EXCEPT ![w] = FALSE]
    /\ UNCHANGED <<wakeup, loopVars, taskVars, wjob, waiting, intr, outcome, completions>>

-----------------------------------------------------------------------------
(* What the loop does to a worker.                                         *)

wake_worker(w, job) ==
    /\ wjob' = [wjob EXCEPT ![w] = job]
    /\ waiting' = [waiting EXCEPT ![w] = FALSE]
    /\ event' = [event EXCEPT ![w] = TRUE]

worker_enter_idle(w) ==
    /\ wjob' = [wjob EXCEPT ![w] = NoJob]
    /\ UNCHANGED <<waiting, event>>

spawn_worker(w, job) ==
    /\ pc[w] = "none"
    /\ pc' = [pc EXCEPT ![w] = "run"]
    /\ cur' = [cur EXCEPT ![w] = job]
    /\ wjob' = [wjob EXCEPT ![w] = job]
    /\ UNCHANGED <<waiting, event>>

(* Mutant of cancel_worker: an interrupted call is taken to end soon, also *)
(* where the signal may have come too early.                               *)
CancelOnce(w, status) ==
    /\ status = "NeedWait"
    /\ intr' = [intr EXCEPT ![w] = (~waiting[w] /\ pc[w] = "blocked")]

(* cancel_worker and Worker::cancel.  CancelSynchronousIo aborts the call  *)
(* the thread is in, finds none, or fails; SIGUSR2 interrupts the call the *)
(* thread is in and is lost on a thread that is in none, and the caller    *)
(* cannot tell.                                                            *)
cancel_worker(w, status) ==
    \/ waiting[w] /\ status = "NeedWait" /\ UNCHANGED intr
    \/ /\ ~waiting[w] /\ wakeup = "event"
       /\ \/ pc[w] = "blocked" /\ status = "NeedWait" /\ intr' = [intr EXCEPT ![w] = TRUE]
          \/ pc[w] # "blocked" /\ status = "RetryLater" /\ UNCHANGED intr
          \/ status = "Error" /\ UNCHANGED intr
    \/ /\ ~waiting[w] /\ wakeup # "event" /\ status = "RetryLater"
       /\ intr' = [intr EXCEPT ![w] = (pc[w] = "blocked")]

-----------------------------------------------------------------------------
(* The coroutines, run one at a time by reschedule.                        *)

Resume(t) == phase = "schedule" /\ t \in round

(* spawn, called by a coroutine that is about to run. *)
SpawnTask(t) ==
    /\ phase = "schedule" /\ round # {} /\ task[t] = "unborn"
    /\ task' = [task EXCEPT ![t] = "new"]
    /\ ready' = ready \cup {t}
    /\ UNCHANGED <<wakeup, loopVars, cancelled, round, fieldVars, threadVars>>

(* perform_job_in_worker, first half: a task cancelled before it ran       *)
(* submits nothing; otherwise its job goes to an idle worker, a new one,   *)
(* or the queue.                                                           *)
CancelledBeforeSubmit(t) ==
    /\ Resume(t) /\ task[t] = "new" /\ t \in cancelled
    /\ task' = [task EXCEPT ![t] = "raised"]
    /\ round' = round \ {t}
    /\ UNCHANGED <<wakeup, loopVars, cancelled, ready, fieldVars, threadVars>>

(* Mutant of Submit: a job handed to an idle worker is queued as well.     *)
SubmitTwice(t) ==
    /\ Resume(t) /\ task[t] = "new" /\ t \notin cancelled
    /\ task' = [task EXCEPT ![t] = "waiting"]
    /\ round' = round \ {t}
    /\ job_queue' = job_queue \cup {t}
    /\ \/ \E w \in idle_workers :
             /\ idle_workers' = idle_workers \ {w}
             /\ running_workers' = [running_workers EXCEPT ![t] = w]
             /\ wake_worker(w, t)
             /\ UNCHANGED <<pc, cur>>
       \/ /\ idle_workers = {} /\ Cardinality(Running) < MaxWorkerCount
          /\ \E w \in Workers :
                /\ spawn_worker(w, t)
                /\ running_workers' = [running_workers EXCEPT ![t] = w]
          /\ UNCHANGED idle_workers
       \/ /\ idle_workers = {} /\ Cardinality(Running) >= MaxWorkerCount
          /\ UNCHANGED <<idle_workers, running_workers, pc, cur, fieldVars>>
    /\ UNCHANGED <<wakeup, phase, inbox, killed_by_signal, cancelled, ready, intr, outcome,
                   completions>>

Submit(t) ==
    /\ Resume(t) /\ task[t] = "new" /\ t \notin cancelled
    /\ task' = [task EXCEPT ![t] = "waiting"]
    /\ round' = round \ {t}
    /\ \/ /\ idle_workers # {}
          /\ \E w \in idle_workers :
                /\ idle_workers' = idle_workers \ {w}
                /\ running_workers' = [running_workers EXCEPT ![t] = w]
                /\ wake_worker(w, t)
          /\ UNCHANGED <<job_queue, pc, cur>>
       \/ /\ idle_workers = {} /\ Cardinality(Running) < MaxWorkerCount
          /\ \E w \in Workers :
                /\ spawn_worker(w, t)
                /\ running_workers' = [running_workers EXCEPT ![t] = w]
          /\ UNCHANGED <<job_queue, idle_workers>>
       \/ /\ idle_workers = {} /\ Cardinality(Running) >= MaxWorkerCount
          /\ job_queue' = job_queue \cup {t}
          /\ UNCHANGED <<idle_workers, running_workers, pc, cur, fieldVars>>
    /\ UNCHANGED <<wakeup, phase, inbox, killed_by_signal, cancelled, ready, intr, outcome,
                   completions>>

(* perform_job_in_worker, second half: an interrupted job raises. *)
Conclude(t) == task' = [task EXCEPT ![t] = IF outcome[t] = "aborted" THEN "raised" ELSE "returned"]

(* wait_for_job resumed without an error: the job is over. *)
Resumed(t) ==
    /\ Resume(t)
    /\ \/ task[t] = "waiting" /\ (t \notin cancelled \/ Shielded(t)) /\ Conclude(t)
       \/ task[t] = "draining" /\ Conclude(t)
       \/ task[t] = "rethrowing" /\ task' = [task EXCEPT ![t] = "raised"]
    /\ round' = round \ {t}
    /\ UNCHANGED <<wakeup, loopVars, cancelled, ready, fieldVars, threadVars>>

(* wait_for_job resumed by a cancellation, or trying again after a pause.  *)
CancelJob(t) ==
    /\ Resume(t)
    /\ \/ task[t] = "waiting" /\ t \in cancelled /\ ~Shielded(t)
       \/ task[t] = "retrying"
    /\ round' = round \ {t}
    /\ \/ /\ running_workers[t] = NoWorker
          /\ task' = [task EXCEPT ![t] = "raised"]
          /\ UNCHANGED <<ready, intr>>
       \/ /\ running_workers[t] # NoWorker
          /\ \E status \in {"NeedWait", "RetryLater", "Error"} :
                /\ cancel_worker(running_workers[t], status)
                /\ task' = [task EXCEPT ![t] = CASE status = "NeedWait" -> "draining"
                                                 [] status = "RetryLater" -> "retrying"
                                                 [] status = "Error" -> "rethrowing"]
                /\ ready' = IF status = "RetryLater" THEN ready \cup {t} ELSE ready
    /\ UNCHANGED <<wakeup, loopVars, cancelled, fieldVars, pc, cur, outcome, completions>>

(* Coroutine::cancel, called by another coroutine, a timer or a signal.    *)
Cancel(t) ==
    /\ phase \in {"poll", "schedule"} /\ Alive(t) /\ t \notin cancelled
    /\ cancelled' = cancelled \cup {t}
    /\ ready' = IF Shielded(t) THEN ready ELSE Woken({t})
    /\ UNCHANGED <<wakeup, loopVars, task, round, fieldVars, threadVars>>

-----------------------------------------------------------------------------
(* The loop.                                                               *)

(* The console control handler, or the sigwait job, posts a signal.        *)
PostSignal ==
    /\ phase \notin {"cleanup", "stopped"} /\ ~killed_by_signal
    /\ completions' = completions \cup {Signal}
    /\ UNCHANGED <<wakeup, loopVars, taskVars, fieldVars, pc, cur, intr, outcome>>

NoMoreWork == ready = {} /\ \A t \in Tasks : ~Alive(t)

(* EventLoop::poll blocks unless a coroutine is ready or something came.   *)
Poll ==
    /\ phase = "poll" /\ ~(NoMoreWork /\ Running = {})
    /\ ready # {} \/ completions # {}
    /\ phase' = "handle"
    /\ inbox' = completions /\ completions' = {}
    /\ UNCHANGED <<wakeup, job_queue, idle_workers, running_workers, killed_by_signal,
                   taskVars, fieldVars, pc, cur, intr, outcome>>

(* Mutant of HandleCompletedJob: the worker becomes idle whatever waits.   *)
HandleThenIdle(t) ==
    /\ phase = "handle" /\ t \in inbox \cap Tasks /\ running_workers[t] # NoWorker
    /\ inbox' = inbox \ {t}
    /\ worker_enter_idle(running_workers[t])
    /\ idle_workers' = idle_workers \cup {running_workers[t]}
    /\ running_workers' = [running_workers EXCEPT ![t] = NoWorker]
    /\ ready' = IF Concluded(t) THEN ready ELSE Woken({t})
    /\ UNCHANGED <<wakeup, phase, job_queue, killed_by_signal, task, cancelled, round, threadVars>>

(* handle_completed_job for a job: its worker takes the next queued job or *)
(* becomes idle, and its coroutine is woken.  Without a worker the program *)
(* would panic: JobOutlivesItsRun says that this does not come up.         *)
HandleCompletedJob(t) ==
    /\ phase = "handle" /\ t \in inbox \cap Tasks /\ running_workers[t] # NoWorker
    /\ inbox' = inbox \ {t}
    /\ LET w == running_workers[t]
           done == [running_workers EXCEPT ![t] = NoWorker]
       IN \/ /\ job_queue = {}
             /\ worker_enter_idle(w)
             /\ idle_workers' = idle_workers \cup {w}
             /\ running_workers' = done
             /\ ready' = IF Concluded(t) THEN ready ELSE Woken({t})
             /\ UNCHANGED job_queue
          \/ /\ \E next \in job_queue :
                   /\ job_queue' = job_queue \ {next}
                   /\ running_workers' = [done EXCEPT ![next] = w]
                   /\ wake_worker(w, next)
             /\ ready' = IF Concluded(t) THEN ready ELSE Woken({t})
             /\ UNCHANGED idle_workers
    /\ UNCHANGED <<wakeup, phase, killed_by_signal, task, cancelled, round, threadVars>>

(* handle_completed_job for a signal: the main task is cancelled. *)
HandleSignal ==
    /\ phase = "handle" /\ Signal \in inbox
    /\ inbox' = inbox \ {Signal}
    /\ killed_by_signal' = TRUE
    /\ cancelled' = cancelled \cup {Main}
    /\ ready' = IF Shielded(Main) THEN ready ELSE Woken({Main})
    /\ UNCHANGED <<wakeup, phase, job_queue, idle_workers, running_workers, task, round,
                   fieldVars, threadVars>>

(* reschedule runs what is ready now; what becomes ready waits for the     *)
(* next round.                                                             *)
Reschedule ==
    /\ phase = "handle" /\ inbox = {}
    /\ phase' = "schedule" /\ round' = ready /\ ready' = {}
    /\ UNCHANGED <<wakeup, inbox, job_queue, idle_workers, running_workers, killed_by_signal,
                   task, cancelled, fieldVars, threadVars>>

EndOfRound ==
    /\ phase = "schedule" /\ round = {}
    /\ phase' = "poll"
    /\ UNCHANGED <<wakeup, inbox, job_queue, idle_workers, running_workers, killed_by_signal,
                   taskVars, fieldVars, threadVars>>

(* Mutant of BeginCleanup: the loop ends when no coroutine is left.        *)
BeginCleanupEarly ==
    /\ phase = "poll" /\ NoMoreWork
    /\ phase' = "cleanup"
    /\ UNCHANGED <<wakeup, inbox, job_queue, idle_workers, running_workers, killed_by_signal,
                   taskVars, fieldVars, threadVars>>

(* run_forever leaves its loop, and cleanup frees the idle workers one     *)
(* after the other: wake with the null job, join.                          *)
BeginCleanup ==
    /\ phase = "poll" /\ NoMoreWork /\ Running = {}
    /\ phase' = "cleanup"
    /\ UNCHANGED <<wakeup, inbox, job_queue, idle_workers, running_workers, killed_by_signal,
                   taskVars, fieldVars, threadVars>>

free_worker(w) ==
    /\ phase = "cleanup" /\ w \in idle_workers
    /\ \A v \in idle_workers : waiting[v]
    /\ wake_worker(w, NoJob)
    /\ UNCHANGED <<wakeup, loopVars, taskVars, threadVars>>

JoinWorker(w) ==
    /\ phase = "cleanup" /\ w \in idle_workers /\ pc[w] = "ended"
    /\ idle_workers' = idle_workers \ {w}
    /\ pc' = [pc EXCEPT ![w] = "freed"]
    /\ UNCHANGED <<wakeup, phase, inbox, job_queue, running_workers, killed_by_signal,
                   taskVars, fieldVars, cur, intr, outcome, completions>>

Stop ==
    /\ phase = "cleanup" /\ idle_workers = {}
    /\ phase' = "stopped"
    /\ UNCHANGED <<wakeup, inbox, job_queue, idle_workers, running_workers, killed_by_signal,
                   taskVars, fieldVars, threadVars>>

-----------------------------------------------------------------------------
LoopStep ==
    \/ Poll \/ HandleSignal \/ Reschedule \/ EndOfRound \/ BeginCleanup \/ Stop
    \/ \E t \in Tasks : \/ CancelledBeforeSubmit(t) \/ Submit(t) \/ Resumed(t)
                        \/ CancelJob(t) \/ HandleCompletedJob(t)
    \/ \E w \in Workers : free_worker(w) \/ JoinWorker(w)

(* What a thread does as long as it is scheduled: a call with no cancel    *)
(* returns, one with cancel is only sure to return once interrupted.       *)
MustLeaveCall(w) ==
    /\ cur[w] \in Cancellable => intr[w]
    /\ LeaveCall(w, IF intr[w] THEN "aborted" ELSE "done")

ThreadStep(w) ==
    EnterCall(w) \/ MustLeaveCall(w) \/ SetWaiting(w) \/ PostCompletion(w) \/ NextJob(w)

Next ==
    \/ LoopStep \/ PostSignal
    \/ \E w \in Workers : ThreadStep(w) \/ \E r \in {"done", "aborted"} : LeaveCall(w, r)
    \/ \E t \in Tasks : SpawnTask(t) \/ Cancel(t)

Fairness == WF_vars(LoopStep) /\ \A w \in Workers : WF_vars(ThreadStep(w))

Spec == Init /\ [][Next]_vars /\ Fairness

-----------------------------------------------------------------------------
TypeOK ==
    /\ wakeup \in WakeupMethods
    /\ phase \in {"poll", "handle", "schedule", "cleanup", "stopped"}
    /\ inbox \subseteq Tasks \cup {Signal} /\ completions \subseteq Tasks \cup {Signal}
    /\ job_queue \subseteq Tasks /\ idle_workers \subseteq Workers
    /\ running_workers \in [Tasks -> Workers \cup {NoWorker}]
    /\ killed_by_signal \in BOOLEAN
    /\ task \in [Tasks -> TaskStates]
    /\ cancelled \subseteq Tasks /\ ready \subseteq Tasks /\ round \subseteq Tasks
    /\ pc \in [Workers -> ThreadStates]
    /\ cur \in [Workers -> Tasks \cup {NoJob}] /\ wjob \in [Workers -> Tasks \cup {NoJob}]
    /\ waiting \in [Workers -> BOOLEAN] /\ event \in [Workers -> BOOLEAN]
    /\ intr \in [Workers -> BOOLEAN]
    /\ outcome \in [Tasks -> {"none", "done", "aborted"}]

Busy(w) == pc[w] \in {"run", "blocked", "after", "post"}

\* The reference a worker holds keeps its job alive, and the loop drops it
\* in wake_worker and worker_enter_idle without asking the thread: it must
\* never do so while the thread still performs or reports that job.  And the
\* completion a thread has posted finds that thread registered for its job:
\* handle_completed_job panics otherwise.
JobOutlivesItsRun ==
    /\ \A w \in Workers : Busy(w) => wjob[w] = cur[w] /\ cur[w] # NoJob
    /\ \A t \in (completions \cup inbox) \cap Tasks : running_workers[t] # NoWorker

\* Jobs wait in the queue only when every worker the limit allows is busy:
\* an idle worker beside a queued job would leave that job (and, if nothing
\* else completes, its task) waiting for ever.
WorkConserving ==
    job_queue # {} => idle_workers = {} /\ Cardinality(Running) = MaxWorkerCount

\* run_forever ends only when nothing is left behind: no job unfinished, no
\* completion on its way, and after cleanup no thread.
NothingLeftBehind ==
    /\ phase \in {"cleanup", "stopped"} =>
          job_queue = {} /\ \A w \in Workers : ~Busy(w)
    /\ phase = "stopped" => \A w \in Workers : pc[w] \in {"none", "freed"}

\* A cancelled task ends even when its job would stay in its blocking call
\* for ever: through SIGUSR2 or CancelSynchronousIo hitting or missing the
\* call, retries, and completions that race with them.  A job without cancel
\* that a worker has taken gets its task resumed.  (One that is still queued
\* may wait behind calls that block for ever, and a task whose cancellation
\* fails with an error waits for its job.)
TasksConclude ==
    \A t \in Tasks :
        t \in cancelled \cap Cancellable \/ (t \notin Cancellable /\ running_workers[t] # NoWorker)
            ~> Concluded(t) \/ task[t] = "rethrowing"

-----------------------------------------------------------------------------
(* The contract, JobContract, seen through what the pool has done with the *)
(* job of each task.                                                       *)
JobState ==
    [t \in Tasks |->
        IF \E w \in Workers : cur[w] = t /\ pc[w] \in {"run", "blocked"} THEN "executing"
        ELSE IF outcome[t] # "none" THEN "executed"
        ELSE IF \/ task[t] \in {"unborn", "new"}
                \/ task[t] = "raised" /\ t \notin job_queue /\ running_workers[t] = NoWorker
        THEN "unsubmitted" ELSE "submitted"]

TaskResult == [t \in Tasks |-> IF Concluded(t) THEN task[t] ELSE "pending"]

Contract == INSTANCE JobContract WITH job <- JobState, result <- TaskResult

\* The pool keeps the contract a coroutine relies on.
ContractSpec == Contract!Spec
=============================================================================
