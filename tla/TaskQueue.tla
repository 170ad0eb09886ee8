----------------------------- MODULE TaskQueue -----------------------------
(***************************************************************************)
(* The task queue of the agent: agent/src/tasks/scheduler.ts, its callers  *)
(* in agent/src/api/admin/tasks.ts and agent/src/channels, and the handler *)
(* of agent/src/tasks/handlers/weekly-bank-review.ts.                      *)
(*                                                                         *)
(* Rows of agent.tasks are numbered in created_at order.  Every worker is  *)
(* an async loop of one Node process; a step of the model is the code      *)
(* between two awaits that touch the database.  pickTask is two statements *)
(* of one READ COMMITTED transaction: the SELECT takes no lock, so the     *)
(* UPDATE is a step of its own.                                            *)
(***************************************************************************)
EXTENDS Naturals

CONSTANTS
    Workers,      \* the worker loops of TaskScheduler.start
    MaxTasks,     \* bound: rows ever inserted
    NumSteps,     \* steps of the registered handler (2 in the repository)
    MaxCrashes    \* bound: process exits that are modelled

ASSUME TaskQueueAssumption ==
    /\ MaxTasks \in Nat
    /\ NumSteps \in Nat \ {0}
    /\ MaxCrashes \in Nat
    /\ Workers # {}

VARIABLES
    created,      \* number of rows in agent.tasks
    kind,         \* task_type: one with a registered handler, or one without
    status,       \* agent.tasks.status; "ABSENT" before the INSERT
    steps,        \* agent.task_steps.status per step; "NONE" before the upsert
    pc,           \* where each worker loop is
    task,         \* the task it selected or executes; 0 when idle
    pos,          \* how many updates its handler has yielded
    anyFailed,    \* runTask's anyFailed
    picks,        \* history: how often a worker's pickTask returned a task
    lost,         \* history: tasks a worker was executing when the process died
    crashes       \* history: number of process exits

dbVars == <<created, kind, status, steps>>
workerVars == <<pc, task, pos, anyFailed>>
history == <<picks, lost, crashes>>
vars == <<dbVars, workerVars, history>>

Tasks == 1..MaxTasks
Steps == 1..NumSteps
Kinds == {"handled", "unhandled"}
Terminal == {"DONE", "PARTIAL", "FAILED", "CANCELLED"}
Statuses == {"ABSENT", "QUEUED", "RUNNING"} \union Terminal
StepStatuses == {"NONE", "RUNNING", "DONE", "FAILED"}

Selected(w, t) == pc[w] = "selected" /\ task[w] = t
Executing(w, t) == pc[w] \in {"running", "failing"} /\ task[w] = t
Holds(w, t) == Selected(w, t) \/ Executing(w, t)

Init ==
    /\ created = 0
    /\ kind = [t \in Tasks |-> "handled"]
    /\ status = [t \in Tasks |-> "ABSENT"]
    /\ steps = [t \in Tasks |-> [i \in Steps |-> "NONE"]]
    /\ pc = [w \in Workers |-> "idle"]
    /\ task = [w \in Workers |-> 0]
    /\ pos = [w \in Workers |-> 0]
    /\ anyFailed = [w \in Workers |-> FALSE]
    /\ picks = [w \in Workers |-> [t \in Tasks |-> 0]]
    /\ lost = {}
    /\ crashes = 0

-----------------------------------------------------------------------------
(* Callers: the cron channel, the admin API.                               *)

Enqueue(k) ==
    /\ created < MaxTasks
    /\ created' = created + 1
    /\ kind' = [kind EXCEPT ![created + 1] = k]
    /\ status' = [status EXCEPT ![created + 1] = "QUEUED"]
    /\ UNCHANGED <<steps, workerVars, history>>

\* Retry copies the row's task_type into a new row, whatever its status.
Retry(t) ==
    /\ status[t] # "ABSENT"
    /\ Enqueue(kind[t])

\* mutant: any row is cancelled
CancellableAny(t) == status[t] # "ABSENT"
Cancellable(t) == status[t] \in {"QUEUED", "RUNNING"}

Cancel(t) ==
    /\ Cancellable(t)
    /\ status' = [status EXCEPT ![t] = "CANCELLED"]
    /\ UNCHANGED <<created, kind, steps, workerVars, history>>

-----------------------------------------------------------------------------
(* The worker loop.                                                        *)

Queued == {t \in Tasks : status[t] = "QUEUED"}

IsNext(t) == t \in Queued /\ \A u \in Queued : t <= u

PickSelect(w) ==
    /\ pc[w] = "idle"
    /\ \E t \in Tasks : IsNext(t) /\ task' = [task EXCEPT ![w] = t]
    /\ pc' = [pc EXCEPT ![w] = "selected"]
    /\ UNCHANGED <<dbVars, pos, anyFailed, history>>

\* mutant: the row stays QUEUED
PickUpdate_StatusKept(w) ==
    /\ pc[w] = "selected"
    /\ pc' = [pc EXCEPT ![w] = "running"]
    /\ picks' = [picks EXCEPT ![w][task[w]] = @ + 1]
    /\ UNCHANGED <<dbVars, task, pos, anyFailed, lost, crashes>>
\* UPDATE ... WHERE task_id = $1: the status read by the SELECT is not rechecked.
PickUpdate(w) ==
    /\ pc[w] = "selected"
    /\ status' = [status EXCEPT ![task[w]] = "RUNNING"]
    /\ pc' = [pc EXCEPT ![w] = "running"]
    /\ picks' = [picks EXCEPT ![w][task[w]] = @ + 1]
    /\ UNCHANGED <<created, kind, steps, task, pos, anyFailed, lost, crashes>>

\* The handler yields RUNNING before and DONE or FAILED after each tool call;
\* runTask records every update.
InHandler(w) == pc[w] = "running" /\ kind[task[w]] = "handled"
Update(w, ok) == IF pos[w] % 2 = 0 THEN "RUNNING" ELSE IF ok THEN "DONE" ELSE "FAILED"

RecordStep(w, ok) ==
    /\ InHandler(w)
    /\ pos[w] < 2 * NumSteps
    /\ steps' = [steps EXCEPT ![task[w]][pos[w] \div 2 + 1] = Update(w, ok)]
    /\ pos' = [pos EXCEPT ![w] = @ + 1]
    /\ anyFailed' = [anyFailed EXCEPT ![w] = @ \/ Update(w, ok) = "FAILED"]
    /\ UNCHANGED <<created, kind, status, pc, task, history>>

\* runTask returns: the worker loop drops its locals.
Return(w) ==
    /\ pc' = [pc EXCEPT ![w] = "idle"]
    /\ task' = [task EXCEPT ![w] = 0]
    /\ pos' = [pos EXCEPT ![w] = 0]
    /\ anyFailed' = [anyFailed EXCEPT ![w] = FALSE]

\* mutants: a word of task_steps in agent.tasks; the two outcomes swapped
FinalStatus_StepWord(failed) == IF failed THEN "SKIPPED" ELSE "DONE"
FinalStatus_Inverted(failed) == IF failed THEN "DONE" ELSE "PARTIAL"
FinalStatus(failed) == IF failed THEN "PARTIAL" ELSE "DONE"

CompleteTask(w) ==
    /\ InHandler(w)
    /\ pos[w] = 2 * NumSteps
    /\ status' = [status EXCEPT ![task[w]] = FinalStatus(anyFailed[w])]
    /\ Return(w)
    /\ UNCHANGED <<created, kind, steps, history>>

\* mutant: the catch swallows the error
StepError_Swallowed(w) ==
    /\ InHandler(w)
    /\ Return(w)
    /\ UNCHANGED <<dbVars, history>>
\* A statement of recordStep or completeTask fails: the catch of runTask.
StepError(w) ==
    /\ InHandler(w)
    /\ pc' = [pc EXCEPT ![w] = "failing"]
    /\ UNCHANGED <<dbVars, task, pos, anyFailed, history>>

FailTask(w) ==
    /\ \/ pc[w] = "failing"
       \/ pc[w] = "running" /\ kind[task[w]] = "unhandled"   \* getHandler returned null
    /\ status' = [status EXCEPT ![task[w]] = "FAILED"]
    /\ Return(w)
    /\ UNCHANGED <<created, kind, steps, history>>

-----------------------------------------------------------------------------
(* The process exits (SIGTERM, a deploy, or a statement of pickTask or     *)
(* failTask that fails: nothing catches workerLoop's rejection) and is     *)
(* started again.  start() only starts idle loops; no row is repaired.     *)

Crash ==
    /\ crashes < MaxCrashes
    /\ crashes' = crashes + 1
    /\ lost' = lost \union {t \in Tasks : \E w \in Workers : Executing(w, t)}
    /\ pc' = [w \in Workers |-> "idle"]
    /\ task' = [w \in Workers |-> 0]
    /\ pos' = [w \in Workers |-> 0]
    /\ anyFailed' = [w \in Workers |-> FALSE]
    /\ UNCHANGED <<dbVars, picks>>

WorkerStep(w) ==
    \/ PickSelect(w)
    \/ PickUpdate(w)
    \/ \E ok \in BOOLEAN : RecordStep(w, ok)
    \/ CompleteTask(w)
    \/ FailTask(w)

Next ==
    \/ \E k \in Kinds : Enqueue(k)
    \/ \E t \in Tasks : Retry(t) \/ Cancel(t)
    \/ \E w \in Workers : WorkerStep(w) \/ StepError(w)
    \/ Crash

\* The event loop serves every worker: each awaited statement returns and each
\* tool call is cut off by the bridge after 10 s.  Errors and callers owe nothing.
Fairness == \A w \in Workers : WF_vars(WorkerStep(w))

Spec == Init /\ [][Next]_vars /\ Fairness

-----------------------------------------------------------------------------
(* Type invariant: rows exist exactly up to the number inserted.           *)
TypeOK ==
    /\ created \in 0..MaxTasks
    /\ kind \in [Tasks -> Kinds]
    /\ status \in [Tasks -> Statuses]
    /\ steps \in [Tasks -> [Steps -> StepStatuses]]
    /\ pc \in [Workers -> {"idle", "selected", "running", "failing"}]
    /\ task \in [Workers -> Tasks \union {0}]
    /\ pos \in [Workers -> 0..(2 * NumSteps)]
    /\ anyFailed \in [Workers -> BOOLEAN]
    /\ picks \in [Workers -> [Tasks -> Nat]]
    /\ lost \subseteq Tasks
    /\ crashes \in 0..MaxCrashes

\* A worker loop executes a task at most once in the life of the table, across
\* stale SELECTs, cancellations and process restarts (pickTask, cancel, start).
\* With one worker this is at-most-once execution.
OncePerWorker == \A w \in Workers, t \in Tasks : picks[w][t] <= 1

\* A row says RUNNING only while some worker executes it or because the process
\* died while one did: no error path leaves a row behind (runTask's catch).
RunningIsHeld ==
    \A t \in Tasks : status[t] = "RUNNING" =>
        t \in lost \/ \E w \in Workers : Executing(w, t)

\* Tasks start in the order they were created: once a worker has selected or
\* executed a task, no older task is still waiting (ORDER BY created_at).
StartsInOrder ==
    \A t, u \in Tasks : \A w \in Workers :
        t < u /\ (Holds(w, u) \/ picks[w][u] > 0) => status[t] # "QUEUED"

\* The outcome written by completeTask agrees with the recorded steps as long
\* as one worker alone executed the task: DONE means every step is DONE,
\* PARTIAL that some step FAILED.
ExecutedBy(t) == {w \in Workers : picks[w][t] > 0}
OutcomeMatchesSteps ==
    \A t \in Tasks :
        (\A w, v \in ExecutedBy(t) : w = v) =>
            /\ status[t] = "DONE" => \A i \in Steps : steps[t][i] = "DONE"
            /\ status[t] = "PARTIAL" => \E i \in Steps : steps[t][i] = "FAILED"

\* A finished task, a cancelled one included, changes only through a worker that
\* had already selected it: no call and no later pick reopens it.
FinishedIsFinalUnlessHeld ==
    [][\A t \in Tasks :
          status[t] \in Terminal /\ ~(\E w \in Workers : Holds(w, t))
              => status'[t] = status[t]]_vars

\* Every queued task finishes, unless the process died while it was executed.
QueuedSettles ==
    \A t \in Tasks : status[t] = "QUEUED" ~> (status[t] \in Terminal \/ t \in lost)

\* The queue hands a task to one worker at a time (FOR UPDATE SKIP LOCKED in
\* docs/superpowers/design-sketches/13-task-scheduler.md).
ExclusiveExecution ==
    \A t \in Tasks : \A w, v \in Workers : Executing(w, t) /\ Executing(v, t) => w = v

(* The lifecycle the queue implements: a claim is a worker's local task.   *)
Claims == [t \in Tasks |-> {w \in Workers : Holds(w, t)}]
Lifecycle == INSTANCE TaskLifecycle WITH claims <- Claims

\* The scheduler implements TaskLifecycle: only a queued task is claimed, only a
\* task that left the queue finishes, and nobody without a claim touches a task
\* except by cancelling it.
ImplementsLifecycle == Lifecycle!Spec
=============================================================================
