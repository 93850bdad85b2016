------------------------------- MODULE JobQueue -------------------------------
(***************************************************************************)
(* The asynq queue "rag", as far as the code relies on it: one task per    *)
(* document, because the webhook handler gives every task the id           *)
(* document:process:<document id>, MaxRetry retries, an attempt at a time, *)
(* a lease that another worker process takes over when its holder dies.    *)
(* asynq is a library outside the repository; the operators are modelled   *)
(* from how the code calls it (options of NewProcessDocumentTask and of    *)
(* Enqueue) and from what it promises there.  asynq.Unique refuses nothing *)
(* that asynq.TaskID does not refuse: its key lives no longer than the     *)
(* task.  Archived tasks stay (asynq drops them after 90 days).            *)
(***************************************************************************)
EXTENDS Naturals, Documents

CONSTANT MaxRetry   \* asynq.MaxRetry: attempts after the first one

ASSUME RetryAssumption == MaxRetry \in Nat

VARIABLES taskState,   \* "none": no task of that id is in Redis
          retried      \* failed attempts counted so far

queueVars == <<taskState, retried>>

TaskStates == {"none", "pending", "active", "retry", "archived"}

QueueTypeOK ==
    /\ taskState \in [Docs -> TaskStates]
    /\ retried \in [Docs -> 0..MaxRetry]

QueueInit ==
    /\ taskState = [d \in Docs |-> "none"]
    /\ retried = [d \in Docs |-> 0]

\* asynq.TaskID: while a task of that id exists in any state, archived
\* included, Enqueue returns ErrTaskIDConflict.
TaskIDFree(d) == taskState[d] = "none"

Runnable(d) == taskState[d] \in {"pending", "retry"}

-----------------------------------------------------------------------------
PushTask(d) ==
    /\ taskState' = [taskState EXCEPT ![d] = "pending"]
    /\ retried' = [retried EXCEPT ![d] = 0]

Dequeue(d) ==
    /\ taskState' = [taskState EXCEPT ![d] = "active"]
    /\ UNCHANGED retried

\* ProcessTask returned nil: the task is removed, its id is free again.
Done(d) ==
    /\ taskState' = [taskState EXCEPT ![d] = "none"]
    /\ retried' = [retried EXCEPT ![d] = 0]

\* Server.Shutdown: attempts it interrupts go back to the queue uncounted.
Requeue(interrupted) ==
    /\ taskState' = [d \in Docs |-> IF d \in interrupted THEN "pending" ELSE taskState[d]]
    /\ UNCHANGED retried

\* Slip: one retry too many.
FailTaskOffByOne(d, skipRetry) ==
    IF skipRetry \/ retried[d] > MaxRetry
    THEN /\ taskState' = [taskState EXCEPT ![d] = "archived"]
         /\ UNCHANGED retried
    ELSE /\ taskState' = [taskState EXCEPT ![d] = "retry"]
         /\ retried' = [retried EXCEPT ![d] = @ + 1]

\* ProcessTask returned an error, its context expired or its lease did:
\* archived when asynq.SkipRetry is wrapped or no retry is left.
FailTask(d, skipRetry) ==
    IF skipRetry \/ retried[d] >= MaxRetry
    THEN /\ taskState' = [taskState EXCEPT ![d] = "archived"]
         /\ UNCHANGED retried
    ELSE /\ taskState' = [taskState EXCEPT ![d] = "retry"]
         /\ retried' = [retried EXCEPT ![d] = @ + 1]
=============================================================================
