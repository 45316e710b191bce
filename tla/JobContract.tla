---------------------------- MODULE JobContract ----------------------------
(***************************************************************************)
(* What perform_job_in_worker promises a coroutine, whatever workers,      *)
(* queues and cancellations do: its job is executed at most once, it       *)
(* returns only after its job was executed, and it raises only when it was *)
(* cancelled or its job failed to be cancelled.  It does not promise that  *)
(* the job of a task that raised was not, or will not be, executed.        *)
(***************************************************************************)
EXTENDS FiniteSets

CONSTANTS Tasks

VARIABLES
    job,        \* "unsubmitted", "submitted", "executing" or "executed"
    cancelled,  \* tasks asked to stop
    result      \* "pending", "returned" or "raised"

vars == <<job, cancelled, result>>

Init ==
    /\ job = [t \in Tasks |-> "unsubmitted"]
    /\ cancelled = {}
    /\ result = [t \in Tasks |-> "pending"]

(* A job moves on by one step; several may at once only in Submit, where a *)
(* thread may take the job in the same step.                               *)
Advance(t, from, to) ==
    /\ job[t] = from
    /\ job' = [job EXCEPT ![t] = to]
    /\ UNCHANGED <<cancelled, result>>

Return(t) ==
    /\ result[t] = "pending" /\ job[t] = "executed"
    /\ result' = [result EXCEPT ![t] = "returned"]
    /\ UNCHANGED <<job, cancelled>>

Raise(t) ==
    /\ result[t] = "pending" /\ t \in cancelled
    /\ result' = [result EXCEPT ![t] = "raised"]
    /\ UNCHANGED <<job, cancelled>>

Cancel(t) ==
    /\ cancelled' = cancelled \cup {t}
    /\ UNCHANGED <<job, result>>

Next ==
    \E t \in Tasks :
        \/ result[t] = "pending" /\ Advance(t, "unsubmitted", "submitted")
        \/ result[t] = "pending" /\ Advance(t, "unsubmitted", "executing")
        \/ Advance(t, "submitted", "executing")
        \/ Advance(t, "executing", "executed")
        \/ Return(t) \/ Raise(t) \/ Cancel(t)

Spec == Init /\ [][Next]_vars
=============================================================================
