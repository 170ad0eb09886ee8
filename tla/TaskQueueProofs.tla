-------------------------- MODULE TaskQueueProofs --------------------------
(***************************************************************************)
(* Safety of TaskQueue for every number of workers, rows, steps and        *)
(* process exits.  TypeOK, OncePerWorker, RunningIsHeld and StartsInOrder  *)
(* follow from one inductive invariant: a row that is still queued has     *)
(* never been executed, and what a worker holds has left "ABSENT".         *)
(* The same invariant shows that the queue implements TaskLifecycle.       *)
(***************************************************************************)
EXTENDS TaskQueue, TLAPS

\* Rows are numbered without gaps.
RowsExist == \A t \in Tasks : status[t] = "ABSENT" <=> t > created

\* What a worker holds is a row; what it executes has left the queue.
HeldIsRow ==
    \A w \in Workers :
        /\ pc[w] # "idle" => task[w] \in Tasks /\ status[task[w]] # "ABSENT"
        /\ pc[w] \in {"running", "failing"} => status[task[w]] # "QUEUED"
        /\ pc[w] = "selected" => picks[w][task[w]] = 0

\* Why a task is never executed twice by one worker: the UPDATE takes a task out
\* of the queue and nothing puts it back.
UnstartedIsUnpicked ==
    \A w \in Workers, t \in Tasks : status[t] \in {"ABSENT", "QUEUED"} => picks[w][t] = 0

Inv ==
    /\ TypeOK
    /\ RowsExist
    /\ HeldIsRow
    /\ UnstartedIsUnpicked
    /\ OncePerWorker
    /\ RunningIsHeld
    /\ StartsInOrder

USE TaskQueueAssumption DEF Tasks, Steps, dbVars, workerVars, history

(* The initial state satisfies the inductive invariant.                    *)
LEMMA InvInit == Init => Inv
  <1> SUFFICES ASSUME Init PROVE Inv
    OBVIOUS
  <1> USE DEF Init
  <1>1. TypeOK
    BY DEF TypeOK, Kinds, Statuses, StepStatuses
  <1>2. RowsExist /\ HeldIsRow
    BY DEF RowsExist, HeldIsRow
  <1>3. UnstartedIsUnpicked /\ OncePerWorker
    BY DEF UnstartedIsUnpicked, OncePerWorker
  <1>4. RunningIsHeld /\ StartsInOrder
    BY DEF RunningIsHeld, StartsInOrder, Holds, Selected, Executing
  <1>5. QED
    BY <1>1, <1>2, <1>3, <1>4 DEF Inv

(* Inserting a row keeps the invariant: the new row is the youngest.       *)
LEMMA EnqueueInv == ASSUME Inv, NEW k \in Kinds, Enqueue(k) PROVE Inv'
  <1> USE DEF Inv, Enqueue
  <1>0. created + 1 \in Tasks /\ status[created + 1] = "ABSENT"
    BY DEF TypeOK, RowsExist
  <1>1. TypeOK'
    BY <1>0 DEF TypeOK, Statuses
  <1>2. RowsExist'
    BY <1>0 DEF TypeOK, RowsExist
  <1>3. HeldIsRow'
    BY <1>0 DEF TypeOK, HeldIsRow
  <1>4. UnstartedIsUnpicked' /\ OncePerWorker'
    BY <1>0 DEF TypeOK, UnstartedIsUnpicked, OncePerWorker
  <1>5. RunningIsHeld'
    BY <1>0 DEF TypeOK, RunningIsHeld, Executing
  <1>6. StartsInOrder'
    <2> SUFFICES ASSUME NEW t \in Tasks, NEW u \in Tasks, NEW w \in Workers,
                        t < u, Holds(w, u) \/ picks[w][u] > 0
                 PROVE  status'[t] # "QUEUED"
      BY DEF StartsInOrder, Holds, Selected, Executing
    <2>3. status[u] # "ABSENT"
      <3>1. ASSUME picks[w][u] > 0 PROVE status[u] # "ABSENT"
        BY <3>1 DEF UnstartedIsUnpicked
      <3>2. ASSUME Holds(w, u) PROVE status[u] # "ABSENT"
        BY <3>2 DEF HeldIsRow, Holds, Selected, Executing
      <3>3. QED
        BY <3>1, <3>2
    <2>4. t # created + 1
      BY <2>3 DEF TypeOK, RowsExist
    <2>5. QED
      BY <2>4 DEF TypeOK, StartsInOrder
  <1>7. QED
    BY <1>1, <1>2, <1>3, <1>4, <1>5, <1>6

(* Cancelling keeps the invariant.                                         *)
LEMMA CancelInv == ASSUME Inv, NEW t \in Tasks, Cancel(t) PROVE Inv'
  <1> USE DEF Inv, Cancel, Cancellable
  <1>1. TypeOK'
    BY DEF TypeOK, Statuses, Terminal
  <1>2. RowsExist' /\ HeldIsRow'
    BY DEF TypeOK, RowsExist, HeldIsRow
  <1>3. UnstartedIsUnpicked' /\ OncePerWorker'
    BY DEF TypeOK, UnstartedIsUnpicked, OncePerWorker
  <1>4. RunningIsHeld'
    BY DEF TypeOK, RunningIsHeld, Executing
  <1>5. StartsInOrder'
    BY DEF TypeOK, StartsInOrder, Holds, Selected, Executing
  <1>6. QED
    BY <1>1, <1>2, <1>3, <1>4, <1>5

(* The SELECT of pickTask keeps the invariant: it takes the oldest row.    *)
LEMMA PickSelectInv == ASSUME Inv, NEW w \in Workers, PickSelect(w) PROVE Inv'
  <1> USE DEF Inv, PickSelect
  <1>0. PICK t \in Tasks : IsNext(t) /\ task' = [task EXCEPT ![w] = t]
    OBVIOUS
  <1>1. status[t] = "QUEUED" /\ \A u \in Tasks : status[u] = "QUEUED" => t <= u
    BY <1>0 DEF IsNext, Queued
  <1>2. TypeOK'
    BY <1>0 DEF TypeOK
  <1>3. RowsExist' /\ UnstartedIsUnpicked' /\ OncePerWorker'
    BY DEF RowsExist, UnstartedIsUnpicked, OncePerWorker
  <1>4. HeldIsRow'
    BY <1>0, <1>1 DEF TypeOK, HeldIsRow, UnstartedIsUnpicked
  <1>5. RunningIsHeld'
    BY <1>0 DEF TypeOK, RunningIsHeld, Executing
  <1>6. StartsInOrder'
    <2> SUFFICES ASSUME NEW x \in Tasks, NEW u \in Tasks, NEW v \in Workers,
                        x < u, (Holds(v, u) \/ picks[v][u] > 0)', status[x] = "QUEUED"
                 PROVE  FALSE
      BY DEF StartsInOrder
    <2>1. CASE v = w /\ Holds(v, u)'
      <3>1. u = t
        BY <1>0, <2>1 DEF TypeOK, Holds, Selected, Executing
      <3>2. QED
        BY <1>1, <3>1
    <2>2. CASE v # w \/ picks[v][u] > 0
      <3>1. Holds(v, u) \/ picks[v][u] > 0
        BY <1>0, <2>2 DEF TypeOK, Holds, Selected, Executing
      <3>2. QED
        BY <3>1 DEF StartsInOrder
    <2>3. QED
      BY <2>1, <2>2
  <1>7. QED
    BY <1>2, <1>3, <1>4, <1>5, <1>6

(* The UPDATE of pickTask keeps the invariant, however stale the SELECT.   *)
LEMMA PickUpdateInv == ASSUME Inv, NEW w \in Workers, PickUpdate(w) PROVE Inv'
  <1> USE DEF Inv, PickUpdate
  <1>0. task[w] \in Tasks /\ status[task[w]] # "ABSENT" /\ picks[w][task[w]] = 0
    BY DEF HeldIsRow
  <1>1. TypeOK'
    <2>1. picks' \in [Workers -> [Tasks -> Nat]]
      BY <1>0 DEF TypeOK
    <2>2. QED
      BY <1>0, <2>1 DEF TypeOK, Statuses
  <1>2. RowsExist' /\ HeldIsRow'
    BY <1>0 DEF TypeOK, RowsExist, HeldIsRow
  <1>3. \A v \in Workers, u \in Tasks :
           picks'[v][u] = IF v = w /\ u = task[w] THEN 1 ELSE picks[v][u]
    BY <1>0, SMTT(30) DEF TypeOK
  <1>3a. OncePerWorker'
    BY <1>3 DEF OncePerWorker
  <1>3b. UnstartedIsUnpicked'
    <2>1. \A u \in Tasks : status'[u] = IF u = task[w] THEN "RUNNING" ELSE status[u]
      BY DEF TypeOK
    <2>2. QED
      BY <1>3, <2>1 DEF UnstartedIsUnpicked
  <1>4. RunningIsHeld'
    BY <1>0 DEF TypeOK, RunningIsHeld, Executing
  <1>5. StartsInOrder'
    <2> SUFFICES ASSUME NEW t \in Tasks, NEW u \in Tasks, NEW v \in Workers,
                        t < u, (Holds(v, u) \/ picks[v][u] > 0)', status'[t] = "QUEUED"
                 PROVE  FALSE
      BY DEF StartsInOrder
    <2>1. status[t] = "QUEUED"
      BY <1>0 DEF TypeOK
    <2>2. Holds(v, u) \/ picks[v][u] > 0
      BY <1>0 DEF TypeOK, Holds, Selected, Executing
    <2>3. QED
      BY <2>1, <2>2 DEF StartsInOrder
  <1>6. QED
    BY <1>1, <1>2, <1>3a, <1>3b, <1>4, <1>5

(* Recording a step touches no row of agent.tasks and no claim.            *)
LEMMA RecordStepInv ==
  ASSUME Inv, NEW w \in Workers, NEW ok \in BOOLEAN, RecordStep(w, ok) PROVE Inv'
  <1> USE DEF Inv, RecordStep
  <1>1. Update(w, ok) \in StepStatuses
    BY DEF Update, StepStatuses
  <1>2. steps' \in [Tasks -> [Steps -> StepStatuses]]
    BY <1>1 DEF TypeOK
  <1>3. pos' \in [Workers -> 0..(2 * NumSteps)] /\ anyFailed' \in [Workers -> BOOLEAN]
    <2>1. pos[w] + 1 \in 0..(2 * NumSteps)
      BY SMTT(30) DEF TypeOK
    <2>2. (anyFailed[w] \/ Update(w, ok) = "FAILED") \in BOOLEAN
      OBVIOUS
    <2>3. pos' \in [Workers -> 0..(2 * NumSteps)]
      BY <2>1 DEF TypeOK
    <2>4. anyFailed' \in [Workers -> BOOLEAN]
      BY <2>2, Zenon DEF TypeOK
    <2>5. QED
      BY <2>3, <2>4
  <1>4. TypeOK'
    BY <1>2, <1>3 DEF TypeOK
  <1>5. RowsExist' /\ UnstartedIsUnpicked' /\ OncePerWorker' /\ HeldIsRow'
    BY DEF RowsExist, UnstartedIsUnpicked, OncePerWorker, HeldIsRow
  <1>6. RunningIsHeld' /\ StartsInOrder'
    BY DEF RunningIsHeld, StartsInOrder, Holds, Selected, Executing
  <1>7. QED
    BY <1>4, <1>5, <1>6

(* Writing an outcome and returning to the loop keeps the invariant.       *)
LEMMA FinishInv ==
  ASSUME Inv, NEW w \in Workers, pc[w] \in {"running", "failing"},
         NEW s \in Terminal, status' = [status EXCEPT ![task[w]] = s],
         Return(w), UNCHANGED <<created, kind, steps, history>>
  PROVE  Inv'
  <1> USE DEF Inv, Return
  <1>0. task[w] \in Tasks /\ status[task[w]] \notin {"ABSENT", "QUEUED"}
    BY DEF HeldIsRow
  <1>1. s \notin {"ABSENT", "QUEUED", "RUNNING"} /\ s \in Statuses
    BY DEF Terminal, Statuses
  <1>2. TypeOK'
    <2>1. status' \in [Tasks -> Statuses]
      BY <1>1 DEF TypeOK
    <2>2. /\ pc' \in [Workers -> {"idle", "selected", "running", "failing"}]
          /\ task' \in [Workers -> Tasks \union {0}]
      BY DEF TypeOK
    <2>3. pos' \in [Workers -> 0..(2 * NumSteps)]
      BY TaskQueueAssumption DEF TypeOK, TaskQueueAssumption
    <2>4. anyFailed' \in [Workers -> BOOLEAN]
      BY Zenon DEF TypeOK
    <2>5. QED
      BY <2>1, <2>2, <2>3, <2>4, Zenon DEF TypeOK, history
  <1>3. RowsExist' /\ HeldIsRow'
    BY <1>0, <1>1 DEF TypeOK, RowsExist, HeldIsRow
  <1>4. UnstartedIsUnpicked' /\ OncePerWorker'
    BY <1>0, <1>1 DEF TypeOK, UnstartedIsUnpicked, OncePerWorker
  <1>5. RunningIsHeld'
    BY <1>0, <1>1 DEF TypeOK, RunningIsHeld, Executing
  <1>6. StartsInOrder'
    BY <1>0, <1>1 DEF TypeOK, StartsInOrder, Holds, Selected, Executing
  <1>7. QED
    BY <1>2, <1>3, <1>4, <1>5, <1>6

(* The catch of runTask keeps the invariant.                               *)
LEMMA StepErrorInv == ASSUME Inv, NEW w \in Workers, StepError(w) PROVE Inv'
  <1> USE DEF Inv, StepError, InHandler
  <1>1. TypeOK' /\ RowsExist'
    BY DEF TypeOK, RowsExist
  <1>1a. HeldIsRow'
    <2>1. pc[w] = "running"
      OBVIOUS
    <2>2. QED
      BY <2>1 DEF TypeOK, HeldIsRow
  <1>2. UnstartedIsUnpicked' /\ OncePerWorker'
    BY DEF UnstartedIsUnpicked, OncePerWorker
  <1>3. /\ UNCHANGED <<status, task, picks, lost>>
        /\ \A v \in Workers : pc'[v] \in {"running", "failing"} <=> pc[v] \in {"running", "failing"}
        /\ \A v \in Workers : pc'[v] = "selected" <=> pc[v] = "selected"
    BY DEF TypeOK, dbVars, history
  <1>4. RunningIsHeld'
    BY <1>3 DEF RunningIsHeld, Executing
  <1>5. StartsInOrder'
    BY <1>3 DEF StartsInOrder, Holds, Selected, Executing
  <1>6. QED
    BY <1>1, <1>1a, <1>2, <1>4, <1>5

(* A process exit keeps the invariant: what it abandons is in lost.        *)
LEMMA CrashInv == ASSUME Inv, Crash PROVE Inv'
  <1> USE DEF Inv, Crash
  <1>1. TypeOK'
    <2>0. crashes' \in 0..MaxCrashes
      BY DEF TypeOK
    <2>1. lost' \subseteq Tasks
      <3> DEFINE taken == {t \in Tasks : \E w \in Workers : Executing(w, t)}
      <3>1. taken \subseteq Tasks
        OBVIOUS
      <3> HIDE DEF taken
      <3>2. lost \subseteq Tasks /\ lost' = lost \union taken
        BY DEF TypeOK, taken
      <3>3. QED
        BY <3>1, <3>2
    <2>2. pos' \in [Workers -> 0..(2 * NumSteps)]
      OBVIOUS
    <2>3. anyFailed' \in [Workers -> BOOLEAN]
      OBVIOUS
    <2>4. QED
      BY <2>0, <2>1, <2>2, <2>3 DEF TypeOK
  <1>1a. RowsExist' /\ HeldIsRow'
    BY DEF RowsExist, HeldIsRow
  <1>2. UnstartedIsUnpicked' /\ OncePerWorker'
    BY DEF UnstartedIsUnpicked, OncePerWorker
  <1>3. RunningIsHeld'
    BY DEF RunningIsHeld, Executing
  <1>4. StartsInOrder'
    BY DEF StartsInOrder, Holds, Selected, Executing
  <1>5. QED
    BY <1>1, <1>1a, <1>2, <1>3, <1>4

(* Every step keeps the invariant.                                         *)
LEMMA InvNext == Inv /\ [Next]_vars => Inv'
  <1> SUFFICES ASSUME Inv, [Next]_vars PROVE Inv'
    OBVIOUS
  <1>1. ASSUME NEW k \in Kinds, Enqueue(k) PROVE Inv'
    BY <1>1, EnqueueInv
  <1>2. ASSUME NEW t \in Tasks, Retry(t) PROVE Inv'
    <2>1. kind[t] \in Kinds
      BY DEF Inv, TypeOK
    <2>2. QED
      BY <1>2, <2>1, EnqueueInv DEF Retry
  <1>3. ASSUME NEW t \in Tasks, Cancel(t) PROVE Inv'
    BY <1>3, CancelInv
  <1>4. ASSUME NEW w \in Workers, WorkerStep(w) PROVE Inv'
    <2>1. CASE PickSelect(w)
      BY <2>1, PickSelectInv
    <2>2. CASE PickUpdate(w)
      BY <2>2, PickUpdateInv
    <2>3. ASSUME NEW ok \in BOOLEAN, RecordStep(w, ok) PROVE Inv'
      BY <2>3, RecordStepInv
    <2>4. CASE CompleteTask(w)
      <3>1. FinalStatus(anyFailed[w]) \in Terminal
        BY DEF FinalStatus, Terminal
      <3>2. QED
        BY <2>4, <3>1, FinishInv DEF CompleteTask, InHandler
    <2>5. CASE FailTask(w)
      <3>1. "FAILED" \in Terminal
        BY DEF Terminal
      <3>2. QED
        BY <2>5, <3>1, FinishInv DEF FailTask
    <2>6. QED
      BY <1>4, <2>1, <2>2, <2>3, <2>4, <2>5 DEF WorkerStep
  <1>5. ASSUME NEW w \in Workers, StepError(w) PROVE Inv'
    BY <1>5, StepErrorInv
  <1>6. CASE Crash
    BY <1>6, CrashInv
  <1>7. CASE UNCHANGED vars
    BY <1>7 DEF vars, Inv, TypeOK, RowsExist, HeldIsRow, UnstartedIsUnpicked,
       OncePerWorker, RunningIsHeld, StartsInOrder, Holds, Selected, Executing
  <1>8. QED
    BY <1>1, <1>2, <1>3, <1>4, <1>5, <1>6, <1>7 DEF Next

(* The conjuncts of the inductive invariant hold in every reachable state: *)
(* types, at most one execution of a task by one worker, no RUNNING row    *)
(* that no worker executes and no crash explains, and start in creation    *)
(* order.                                                                  *)
THEOREM SafetyTheorem ==
    Spec => [](TypeOK /\ OncePerWorker /\ RunningIsHeld /\ StartsInOrder)
  <1>1. Inv => TypeOK /\ OncePerWorker /\ RunningIsHeld /\ StartsInOrder
    BY DEF Inv
  <1>2. QED
    BY <1>1, InvInit, InvNext, PTL DEF Spec

(* Each conjunct by itself.                                                *)
COROLLARY TypeTheorem == Spec => []TypeOK
  BY SafetyTheorem, PTL

COROLLARY HeldTheorem == Spec => []RunningIsHeld
  BY SafetyTheorem, PTL

(* A finished task changes only through a worker that had selected it, so  *)
(* with no such worker CANCELLED, DONE, PARTIAL and FAILED are final.      *)
THEOREM FinalTheorem == Spec => FinishedIsFinalUnlessHeld
  <1> DEFINE Final(t) == status[t] \in Terminal /\ ~(\E w \in Workers : Holds(w, t))
                            => status'[t] = status[t]
  <1>1. ASSUME Inv, [Next]_vars, NEW t \in Tasks PROVE Final(t)
    <2> SUFFICES ASSUME status[t] \in Terminal, ~(\E w \in Workers : Holds(w, t))
                 PROVE  status'[t] = status[t]
      OBVIOUS
    <2>0. t <= created /\ status[t] \notin {"QUEUED", "RUNNING", "ABSENT"}
      BY <1>1 DEF Inv, TypeOK, RowsExist, Terminal
    <2>1. \A w \in Workers : pc[w] # "idle" => task[w] # t
      BY <1>1 DEF Inv, TypeOK, Holds, Selected, Executing
    <2>2. ASSUME NEW k, Enqueue(k) PROVE status'[t] = status[t]
      BY <1>1, <2>0, <2>2 DEF Enqueue, Inv, TypeOK
    <2>3. ASSUME NEW u \in Tasks, Cancel(u) PROVE status'[t] = status[t]
      BY <1>1, <2>0, <2>3 DEF Cancel, Cancellable, Inv, TypeOK
    <2>4. ASSUME NEW w \in Workers, WorkerStep(w) PROVE status'[t] = status[t]
      BY <1>1, <2>1, <2>4 DEF WorkerStep, PickSelect, PickUpdate, RecordStep, CompleteTask,
         FailTask, InHandler, Inv, TypeOK
    <2>5. ASSUME NEW w \in Workers, StepError(w) PROVE status'[t] = status[t]
      BY <2>5 DEF StepError
    <2>6. CASE Crash
      BY <2>6 DEF Crash
    <2>7. CASE UNCHANGED vars
      BY <2>7 DEF vars
    <2>8. QED
      BY <1>1, <2>2, <2>3, <2>4, <2>5, <2>6, <2>7 DEF Next, Retry
  <1>2. Inv /\ [Next]_vars => [\A t \in Tasks : Final(t)]_vars
    BY <1>1
  <1>3. QED
    BY <1>2, InvInit, InvNext, PTL DEF Spec, FinishedIsFinalUnlessHeld

-----------------------------------------------------------------------------
(* Who claims a task: exactly the workers whose loop has it in hand.       *)
Hand(t) == {w \in Workers : pc[w] # "idle" /\ task[w] = t}

LEMMA ClaimsAreHands ==
    /\ TypeOK => Claims = [t \in Tasks |-> Hand(t)]
    /\ TypeOK' => Claims' = [t \in Tasks |-> Hand(t)']
  BY DEF TypeOK, Claims, Hand, Holds, Selected, Executing

(* Letting go of a task with an outcome finishes it.                       *)
LEMMA FinishRefines ==
  ASSUME Inv, Inv', NEW w \in Workers, pc[w] \in {"running", "failing"},
         NEW s \in {"DONE", "PARTIAL", "FAILED"},
         status' = [status EXCEPT ![task[w]] = s], Return(w)
  PROVE  Lifecycle!Finish(w, task[w])
  <1>1. Claims = [t \in Tasks |-> Hand(t)] /\ Claims' = [t \in Tasks |-> Hand(t)']
    BY ClaimsAreHands DEF Inv
  <1>2. task[w] \in Tasks /\ status[task[w]] \notin {"ABSENT", "QUEUED"}
    BY DEF Inv, HeldIsRow
  <1>3. w \in Claims[task[w]]
    BY <1>1, <1>2 DEF Hand
  <1>4. Claims' = [Claims EXCEPT ![task[w]] = @ \ {w}]
    <2>1. \A t \in Tasks : Hand(t)' = IF t = task[w] THEN Hand(t) \ {w} ELSE Hand(t)
      BY <1>2 DEF Hand, Return, Inv, TypeOK
    <2>2. QED
      BY <1>1, <1>2, <2>1
  <1>5. QED
    BY <1>2, <1>3, <1>4 DEF Lifecycle!Finish

(* The queue implements TaskLifecycle: inserting a row submits a task, the *)
(* SELECT claims it, the UPDATE starts it, completeTask and failTask       *)
(* finish it, cancelling withdraws it, a process exit drops every claim,   *)
(* and everything else is a stutter.                                       *)
THEOREM RefinementTheorem == Spec => ImplementsLifecycle
  <1>1. Init => Lifecycle!Init
    BY DEF Init, Lifecycle!Init, Claims, Holds, Selected, Executing
  <1>2. ASSUME Inv, Inv', [Next]_vars PROVE [Lifecycle!Next]_(Lifecycle!vars)
    <2> DEFINE Step == [Lifecycle!Next]_(Lifecycle!vars)
    <2>0. Claims = [t \in Tasks |-> Hand(t)] /\ Claims' = [t \in Tasks |-> Hand(t)']
      BY <1>2, ClaimsAreHands DEF Inv
    <2>1. ASSUME UNCHANGED <<pc, task>> PROVE Claims' = Claims
      BY <2>0, <2>1 DEF Hand
    <2>2. ASSUME NEW k, Enqueue(k) PROVE Step
      <3>1. created + 1 \in Tasks /\ status[created + 1] = "ABSENT"
        BY <1>2, <2>2 DEF Enqueue, Inv, TypeOK, RowsExist
      <3>2. Lifecycle!Submit(created + 1)
        BY <2>1, <2>2, <3>1 DEF Enqueue, Lifecycle!Submit
      <3>3. QED
        BY <3>1, <3>2 DEF Lifecycle!Next
    <2>3. ASSUME NEW t \in Tasks, Cancel(t) PROVE Step
      <3>1. Lifecycle!Withdraw(t)
        BY <2>1, <2>3 DEF Cancel, Cancellable, Lifecycle!Withdraw
      <3>2. QED
        BY <3>1 DEF Lifecycle!Next
    <2>4. ASSUME NEW w \in Workers, PickSelect(w) PROVE Step
      <3>1. PICK t \in Tasks : status[t] = "QUEUED" /\ task' = [task EXCEPT ![w] = t]
        BY <2>4 DEF PickSelect, IsNext, Queued
      <3>2. \A u \in Tasks : w \notin Claims[u]
        BY <2>0, <2>4 DEF PickSelect, Hand
      <3>3. \A u \in Tasks : Hand(u)' = IF u = t THEN Hand(u) \union {w} ELSE Hand(u)
        BY <1>2, <2>4, <3>1 DEF PickSelect, Hand, Inv, TypeOK
      <3>4. Claims' = [Claims EXCEPT ![t] = @ \union {w}]
        BY <2>0, <3>3
      <3>5. Lifecycle!Claim(w, t)
        BY <2>4, <3>1, <3>2, <3>4 DEF PickSelect, Lifecycle!Claim
      <3>6. QED
        BY <3>5 DEF Lifecycle!Next
    <2>5. ASSUME NEW w \in Workers, PickUpdate(w) PROVE Step
      <3>1. task[w] \in Tasks /\ w \in Claims[task[w]]
        BY <1>2, <2>0, <2>5 DEF PickUpdate, Hand, Inv, HeldIsRow
      <3>2. Claims' = Claims
        BY <1>2, <2>0, <2>5 DEF PickUpdate, Hand, Inv, TypeOK
      <3>3. Lifecycle!Start(w, task[w])
        BY <2>5, <3>1, <3>2 DEF PickUpdate, Lifecycle!Start
      <3>4. QED
        BY <3>1, <3>3 DEF Lifecycle!Next
    <2>6. ASSUME NEW w \in Workers, NEW ok \in BOOLEAN, RecordStep(w, ok) PROVE Step
      BY <2>1, <2>6 DEF RecordStep, Lifecycle!vars
    <2>7. ASSUME NEW w \in Workers, CompleteTask(w) PROVE Step
      <3>1. FinalStatus(anyFailed[w]) \in {"DONE", "PARTIAL", "FAILED"}
        BY DEF FinalStatus
      <3>2. task[w] \in Tasks
        BY <1>2, <2>7 DEF CompleteTask, InHandler, Inv, HeldIsRow
      <3>3. Lifecycle!Finish(w, task[w])
        BY <1>2, <2>7, <3>1, FinishRefines DEF CompleteTask, InHandler
      <3>4. QED
        BY <3>2, <3>3 DEF Lifecycle!Next
    <2>8. ASSUME NEW w \in Workers, FailTask(w) PROVE Step
      <3>1. pc[w] \in {"running", "failing"} /\ task[w] \in Tasks
        BY <1>2, <2>8 DEF FailTask, Inv, HeldIsRow
      <3>2. Lifecycle!Finish(w, task[w])
        BY <1>2, <2>8, <3>1, FinishRefines DEF FailTask
      <3>3. QED
        BY <3>1, <3>2 DEF Lifecycle!Next
    <2>9. ASSUME NEW w \in Workers, StepError(w) PROVE Step
      <3>1. Claims' = Claims
        BY <1>2, <2>0, <2>9 DEF StepError, InHandler, Hand, Inv, TypeOK
      <3>2. QED
        BY <2>9, <3>1 DEF StepError, dbVars, Lifecycle!vars
    <2>10. CASE Crash
      <3>1. Claims' = [t \in Tasks |-> {}]
        BY <2>0, <2>10 DEF Crash, Hand
      <3>2. Lifecycle!Die
        BY <2>10, <3>1 DEF Crash, Lifecycle!Die
      <3>3. QED
        BY <3>2 DEF Lifecycle!Next
    <2>11. CASE UNCHANGED vars
      BY <2>1, <2>11 DEF vars, Lifecycle!vars
    <2>12. QED
      BY <1>2, <2>2, <2>3, <2>4, <2>5, <2>6, <2>7, <2>8, <2>9, <2>10, <2>11
         DEF Next, WorkerStep, Retry
  <1>3. QED
    BY <1>1, <1>2, InvInit, InvNext, PTL DEF Spec, ImplementsLifecycle, Lifecycle!Spec
-----------------------------------------------------------------------------
(* What a worker that alone executed its task has recorded so far: the steps
   before its position, and whether one of them failed.                    *)
Sole(t) == \A w, v \in ExecutedBy(t) : w = v
Before(w, i) == i <= pos[w] \div 2
Recorded(w) ==
    /\ ~ anyFailed[w] => \A i \in Steps : Before(w, i) => steps[task[w]][i] = "DONE"
    /\ anyFailed[w] => \E i \in Steps : Before(w, i) /\ steps[task[w]][i] = "FAILED"

(* A worker starts afresh; while it alone executes its task it has written no
   outcome yet, so what it records cannot belie one.                       *)
Fresh(w) == pc[w] \in {"idle", "selected"} => pos[w] = 0 /\ ~ anyFailed[w]
Truthful(w) ==
    pc[w] \in {"running", "failing"} =>
        /\ picks[w][task[w]] > 0
        /\ Sole(task[w]) => /\ status[task[w]] \notin {"DONE", "PARTIAL", "FAILED"}
                            /\ Recorded(w)

OutcomeInv ==
    /\ \A w \in Workers : Fresh(w) /\ Truthful(w)
    /\ OutcomeMatchesSteps

LEMMA SoleFrame ==
    picks' = picks => \A t : Sole(t)' <=> Sole(t)
  BY DEF Sole, ExecutedBy

LEMMA OutcomeInit == Init => OutcomeInv
  BY DEF Init, OutcomeInv, Fresh, Truthful, OutcomeMatchesSteps

(* Inserting and cancelling write no outcome.                              *)
LEMMA CallerOutcome ==
  ASSUME Inv, OutcomeInv, NEW t \in Tasks, NEW s \in {"QUEUED", "CANCELLED"},
         status' = [status EXCEPT ![t] = s], UNCHANGED <<steps, workerVars, history>>
  PROVE  OutcomeInv'
  <1>1. \A u \in Tasks : status'[u] = IF u = t THEN s ELSE status[u]
    BY DEF Inv, TypeOK
  <1>2. \A w \in Workers : Fresh(w)'
    BY DEF OutcomeInv, Fresh
  <1>3. ASSUME NEW w \in Workers PROVE Truthful(w)'
    BY <1>1, SoleFrame DEF OutcomeInv, Truthful, Recorded, Before, Inv, HeldIsRow
  <1>4. OutcomeMatchesSteps'
    BY <1>1 DEF OutcomeInv, OutcomeMatchesSteps, ExecutedBy
  <1>5. QED
    BY <1>2, <1>3, <1>4 DEF OutcomeInv

(* A step of a worker's loop that writes no row and picks nothing.         *)
LEMMA LocalOutcome ==
  ASSUME Inv, OutcomeInv, NEW w \in Workers, PickSelect(w) \/ StepError(w)
  PROVE  OutcomeInv'
  <1>1. UNCHANGED <<status, steps, pos, anyFailed, picks>>
    BY DEF PickSelect, StepError
  <1>2. \/ pc[w] = "idle" /\ pc' = [pc EXCEPT ![w] = "selected"]
           /\ \E t \in Tasks : task' = [task EXCEPT ![w] = t]
        \/ pc[w] = "running" /\ pc' = [pc EXCEPT ![w] = "failing"] /\ task' = task
    BY DEF PickSelect, StepError, InHandler
  <1>3. \A v \in Workers : \/ pc'[v] = pc[v] /\ task'[v] = task[v]
                           \/ pc[v] = "idle" /\ pc'[v] = "selected"
                           \/ pc[v] = "running" /\ pc'[v] = "failing" /\ task'[v] = task[v]
    BY <1>2 DEF Inv, TypeOK
  <1>4. ASSUME NEW v \in Workers PROVE Fresh(v)' /\ Truthful(v)'
    <2>1. Fresh(v) /\ Truthful(v)
      BY DEF OutcomeInv
    <2>2. Fresh(v)'
      BY <1>1, <1>3, <2>1 DEF Fresh
    <2>3. Truthful(v)'
      BY <1>1, <1>3, <2>1, SoleFrame DEF Truthful, Recorded, Before
    <2>4. QED
      BY <2>2, <2>3
  <1>5. OutcomeMatchesSteps'
    BY <1>1 DEF OutcomeInv, OutcomeMatchesSteps, ExecutedBy
  <1>6. QED
    BY <1>4, <1>5 DEF OutcomeInv

(* The UPDATE of pickTask: whoever executed the task before, the worker    *)
(* that takes it is no longer the only one, or is the first.               *)
LEMMA PickUpdateOutcome ==
  ASSUME Inv, OutcomeInv, NEW w \in Workers, PickUpdate(w) PROVE OutcomeInv'
  <1>0. /\ pc[w] = "selected" /\ task[w] \in Tasks /\ picks[w][task[w]] = 0
        /\ status' = [status EXCEPT ![task[w]] = "RUNNING"]
        /\ pc' = [pc EXCEPT ![w] = "running"]
        /\ picks' = [picks EXCEPT ![w][task[w]] = @ + 1]
        /\ UNCHANGED <<steps, task, pos, anyFailed>>
    BY DEF Inv, HeldIsRow, PickUpdate
  <1>1. \A v \in Workers, u \in Tasks :
           picks'[v][u] = IF v = w /\ u = task[w] THEN 1 ELSE picks[v][u]
    BY <1>0, SMTT(30) DEF Inv, TypeOK
  <1>2. \A u \in Tasks : Sole(u)' => Sole(u)
    BY <1>0, <1>1 DEF Sole, ExecutedBy
  <1>3. \A u \in Tasks : status'[u] = IF u = task[w] THEN "RUNNING" ELSE status[u]
    BY <1>0 DEF Inv, TypeOK
  <1>4. pc'[w] = "running" /\ \A v \in Workers \ {w} : pc'[v] = pc[v]
    BY <1>0 DEF Inv, TypeOK
  <1>5. ASSUME NEW v \in Workers PROVE Fresh(v)' /\ Truthful(v)'
    <2>1. Fresh(v) /\ Truthful(v)
      BY DEF OutcomeInv
    <2>2. CASE v = w
      <3>1. pos[w] = 0 /\ ~ anyFailed[w]
        BY <1>0, <2>1, <2>2 DEF Fresh
      <3>2. Recorded(w)'
        BY <1>0, <3>1 DEF Recorded, Before
      <3>3. QED
        BY <1>0, <1>1, <1>3, <1>4, <2>2, <3>2 DEF Fresh, Truthful
    <2>3. CASE v # w
      <3>1. Fresh(v)'
        BY <1>0, <1>4, <2>1, <2>3 DEF Fresh
      <3>2. ASSUME pc[v] \in {"running", "failing"}
            PROVE  /\ task[v] \in Tasks /\ picks'[v][task[v]] > 0
                   /\ Sole(task[v])' => Sole(task[v]) /\ task[v] # task[w]
        <4>1. task[v] \in Tasks /\ picks[v][task[v]] > 0
          BY <2>1, <3>2 DEF Inv, HeldIsRow, Truthful
        <4>2. picks'[v][task[v]] > 0
          BY <1>1, <2>3, <4>1
        <4>3. Sole(task[v])' => Sole(task[v])
          BY <1>0, <1>1, <4>1 DEF Sole, ExecutedBy
        <4>4. Sole(task[v])' => task[v] # task[w]
          BY <1>0, <1>1, <2>3, <4>1, <4>2 DEF Sole, ExecutedBy
        <4>5. QED
          BY <4>1, <4>2, <4>3, <4>4
      <3>3. Truthful(v)'
        BY <1>0, <1>3, <1>4, <2>1, <2>3, <3>2 DEF Truthful, Recorded, Before
      <3>4. QED
        BY <3>1, <3>3
    <2>4. QED
      BY <2>2, <2>3
  <1>6. OutcomeMatchesSteps'
    BY <1>0, <1>2, <1>3 DEF OutcomeInv, OutcomeMatchesSteps, Sole
  <1>7. QED
    BY <1>5, <1>6 DEF OutcomeInv

(* runTask records an update: only the sole worker's own steps matter, and *)
(* its task has no outcome yet.                                            *)
LEMMA RecordStepOutcome ==
  ASSUME Inv, OutcomeInv, NEW w \in Workers, NEW ok \in BOOLEAN, RecordStep(w, ok)
  PROVE  OutcomeInv'
  <1>0. /\ pc[w] = "running" /\ task[w] \in Tasks /\ pos[w] \in Nat /\ pos[w] < 2 * NumSteps
        /\ steps' = [steps EXCEPT ![task[w]][pos[w] \div 2 + 1] = Update(w, ok)]
        /\ pos' = [pos EXCEPT ![w] = @ + 1]
        /\ anyFailed' = [anyFailed EXCEPT ![w] = @ \/ Update(w, ok) = "FAILED"]
        /\ UNCHANGED <<status, pc, task, picks>>
    BY DEF Inv, HeldIsRow, TypeOK, RecordStep, InHandler, history
  <1>1. PICK n \in Nat : n = pos[w] \div 2 /\ (pos[w] = 2 * n \/ pos[w] = 2 * n + 1)
    BY <1>0
  <1>2. n + 1 \in Steps /\ pos'[w] = pos[w] + 1 /\ \A v \in Workers \ {w} : pos'[v] = pos[v]
    <2>1. n + 1 \in Steps
      <3>1. NumSteps \in Nat /\ n < NumSteps
        BY <1>0, <1>1
      <3>2. QED
        BY <3>1
    <2>2. pos'[w] = pos[w] + 1 /\ \A v \in Workers \ {w} : pos'[v] = pos[v]
      BY <1>0 DEF Inv, TypeOK
    <2>3. QED
      BY <2>1, <2>2
  <1>3. \A u \in Tasks, i \in Steps :
          steps'[u][i] = IF u = task[w] /\ i = n + 1 THEN Update(w, ok) ELSE steps[u][i]
    BY <1>0, <1>1, <1>2 DEF Inv, TypeOK
  <1>4. /\ anyFailed'[w] <=> (anyFailed[w] \/ Update(w, ok) = "FAILED")
        /\ \A v \in Workers \ {w} : anyFailed'[v] = anyFailed[v]
    BY <1>0, Zenon DEF Inv, TypeOK
  <1>5. Truthful(w) /\ picks[w][task[w]] > 0
    BY <1>0 DEF OutcomeInv, Truthful
  <1>6. ASSUME NEW v \in Workers, v # w, pc[v] \in {"running", "failing"}, Sole(task[v])
        PROVE  task[v] # task[w] /\ task[v] \in Tasks
    BY <1>5, <1>6 DEF OutcomeInv, Truthful, Sole, ExecutedBy, Inv, HeldIsRow
  <1>7. ASSUME NEW v \in Workers PROVE Fresh(v)' /\ Truthful(v)'
    <2>1. Fresh(v) /\ Truthful(v)
      BY DEF OutcomeInv
    <2>2. CASE v = w
      <3>1. Fresh(w)'
        BY <1>0 DEF Fresh
      <3>2. ASSUME Recorded(w) PROVE Recorded(w)'
        <4>1. CASE pos[w] = 2 * n
          <5>1. pos'[w] \div 2 = n /\ pos[w] \div 2 = n /\ Update(w, ok) = "RUNNING"
            BY <1>0, <1>1, <1>2, <4>1 DEF Update
          <5>2. \A i \in Steps : Before(w, i) => i # n + 1
            BY <1>1, <5>1 DEF Before
          <5>3. QED
            BY <1>0, <1>3, <1>4, <3>2, <5>1, <5>2 DEF Recorded, Before
        <4>2. CASE pos[w] = 2 * n + 1
          <5>1. pos'[w] \div 2 = n + 1 /\ pos[w] \div 2 = n /\ Update(w, ok) \in {"DONE", "FAILED"}
            BY <1>0, <1>1, <1>2, <4>2 DEF Update
          <5>2. \A i \in Steps : i <= n + 1 <=> i = n + 1 \/ i <= n
            BY <1>1
          <5>3. ~ n + 1 <= n
            BY <1>1
          <5>4. ASSUME ~ anyFailed'[w], NEW i \in Steps, i <= n + 1 PROVE steps'[task[w]][i] = "DONE"
            BY <1>0, <1>3, <1>4, <3>2, <5>1, <5>2, <5>4 DEF Recorded, Before
          <5>5. ASSUME anyFailed'[w]
                PROVE  \E i \in Steps : i <= n + 1 /\ steps'[task[w]][i] = "FAILED"
            <6>1. CASE anyFailed[w]
              BY <1>0, <1>3, <3>2, <5>1, <5>2, <5>3, <6>1 DEF Recorded, Before
            <6>2. CASE Update(w, ok) = "FAILED"
              BY <1>0, <1>2, <1>3, <5>2, <6>2
            <6>3. QED
              BY <1>4, <5>5, <6>1, <6>2
          <5>6. QED
            BY <1>0, <5>1, <5>4, <5>5 DEF Recorded, Before
        <4>3. QED
          BY <1>1, <4>1, <4>2
      <3>3. QED
        BY <1>0, <1>5, <2>2, <3>1, <3>2, SoleFrame DEF Truthful
    <2>3. CASE v # w
      <3>1. Fresh(v)'
        BY <1>0, <1>2, <1>4, <2>1, <2>3 DEF Fresh
      <3>2. ASSUME pc[v] \in {"running", "failing"}, Sole(task[v]) PROVE Recorded(v)'
        BY <1>0, <1>2, <1>3, <1>4, <1>6, <2>1, <2>3, <3>2 DEF Truthful, Recorded, Before
      <3>3. QED
        BY <1>0, <2>1, <3>1, <3>2, SoleFrame DEF Truthful
    <2>4. QED
      BY <2>2, <2>3
  <1>8. OutcomeMatchesSteps'
    <2> SUFFICES ASSUME NEW t \in Tasks, Sole(t)
                 PROVE  /\ status[t] = "DONE" => \A i \in Steps : steps'[t][i] = "DONE"
                        /\ status[t] = "PARTIAL" => \E i \in Steps : steps'[t][i] = "FAILED"
      BY <1>0 DEF OutcomeMatchesSteps, Sole, ExecutedBy
    <2>1. CASE t = task[w]
      BY <1>0, <1>5, <2>1 DEF Truthful
    <2>2. CASE t # task[w]
      BY <1>3, <2>2 DEF OutcomeInv, OutcomeMatchesSteps, Sole
    <2>3. QED
      BY <2>1, <2>2
  <1>9. QED
    BY <1>7, <1>8 DEF OutcomeInv

(* runTask writes the outcome of what it recorded.                         *)
LEMMA FinishOutcome ==
  ASSUME Inv, OutcomeInv, NEW w \in Workers, CompleteTask(w) \/ FailTask(w)
  PROVE  OutcomeInv'
  <1>0. PICK s \in {"DONE", "PARTIAL", "FAILED"} :
          /\ pc[w] \in {"running", "failing"} /\ task[w] \in Tasks
          /\ status' = [status EXCEPT ![task[w]] = s] /\ Return(w)
          /\ UNCHANGED <<steps, picks>>
          /\ s # "FAILED" => pos[w] = 2 * NumSteps /\ (s = "DONE" <=> ~ anyFailed[w])
    BY DEF Inv, HeldIsRow, CompleteTask, FailTask, InHandler, FinalStatus
  <1>1. /\ \A u \in Tasks : status'[u] = IF u = task[w] THEN s ELSE status[u]
        /\ pc'[w] = "idle" /\ pos'[w] = 0 /\ ~ anyFailed'[w]
        /\ \A v \in Workers \ {w} : pc'[v] = pc[v] /\ task'[v] = task[v] /\ pos'[v] = pos[v]
                                    /\ anyFailed'[v] = anyFailed[v]
    BY <1>0 DEF Inv, TypeOK, Return
  <1>2. Truthful(w) /\ picks[w][task[w]] > 0
    BY <1>0 DEF OutcomeInv, Truthful
  <1>3. ASSUME NEW v \in Workers PROVE Fresh(v)' /\ Truthful(v)'
    <2>1. CASE v = w
      BY <1>1, <2>1 DEF Fresh, Truthful
    <2>2. CASE v # w
      <3>1. Fresh(v) /\ Truthful(v)
        BY DEF OutcomeInv
      <3>2. pc[v] \in {"running", "failing"} => task[v] \in Tasks
        BY DEF Inv, HeldIsRow
      <3>3. pc[v] \in {"running", "failing"} /\ Sole(task[v]) => task[v] # task[w]
        BY <1>2, <2>2, <3>1 DEF Truthful, Sole, ExecutedBy
      <3>4. Fresh(v)'
        BY <1>1, <2>2, <3>1 DEF Fresh
      <3>5. ASSUME pc[v] \in {"running", "failing"}, Sole(task[v])
            PROVE  status'[task[v]] = status[task[v]] /\ Recorded(v)'
        BY <1>0, <1>1, <2>2, <3>1, <3>2, <3>3, <3>5 DEF Truthful, Recorded, Before
      <3>6. QED
        BY <1>0, <1>1, <2>2, <3>1, <3>4, <3>5, SoleFrame DEF Truthful
    <2>3. QED
      BY <2>1, <2>2
  <1>4. OutcomeMatchesSteps'
    <2> SUFFICES ASSUME NEW t \in Tasks, Sole(t)
                 PROVE  /\ status'[t] = "DONE" => \A i \in Steps : steps[t][i] = "DONE"
                        /\ status'[t] = "PARTIAL" => \E i \in Steps : steps[t][i] = "FAILED"
      BY <1>0 DEF OutcomeMatchesSteps, Sole, ExecutedBy
    <2>1. CASE t = task[w]
      <3>1. s # "FAILED" => \A i \in Steps : Before(w, i)
        BY <1>0 DEF Before
      <3>2. QED
        BY <1>0, <1>1, <1>2, <2>1, <3>1 DEF Truthful, Recorded
    <2>2. CASE t # task[w]
      BY <1>1, <2>2 DEF OutcomeInv, OutcomeMatchesSteps, Sole
    <2>3. QED
      BY <2>1, <2>2
  <1>5. QED
    BY <1>3, <1>4 DEF OutcomeInv

LEMMA CrashOutcome == ASSUME OutcomeInv, Crash PROVE OutcomeInv'
  <1>1. \A w \in Workers : Fresh(w)' /\ Truthful(w)'
    BY DEF Crash, Fresh, Truthful
  <1>2. OutcomeMatchesSteps'
    BY DEF Crash, OutcomeInv, OutcomeMatchesSteps, ExecutedBy
  <1>3. QED
    BY <1>1, <1>2 DEF OutcomeInv

LEMMA OutcomeNext == Inv /\ OutcomeInv /\ [Next]_vars => OutcomeInv'
  <1> SUFFICES ASSUME Inv, OutcomeInv, [Next]_vars PROVE OutcomeInv'
    OBVIOUS
  <1>1. ASSUME NEW k \in Kinds, Enqueue(k) PROVE OutcomeInv'
    <2>1. created + 1 \in Tasks
      BY <1>1 DEF Enqueue, Inv, TypeOK
    <2>2. QED
      BY <1>1, <2>1, CallerOutcome DEF Enqueue
  <1>2. ASSUME NEW t \in Tasks, Retry(t) PROVE OutcomeInv'
    BY <1>1, <1>2 DEF Retry, Inv, TypeOK
  <1>3. ASSUME NEW t \in Tasks, Cancel(t) PROVE OutcomeInv'
    BY <1>3, CallerOutcome DEF Cancel
  <1>4. ASSUME NEW w \in Workers, WorkerStep(w) \/ StepError(w) PROVE OutcomeInv'
    BY <1>4, LocalOutcome, PickUpdateOutcome, RecordStepOutcome, FinishOutcome DEF WorkerStep
  <1>5. CASE Crash
    BY <1>5, CrashOutcome
  <1>6. CASE UNCHANGED vars
    BY <1>6 DEF vars, OutcomeInv, Fresh, Truthful, Recorded, Before, OutcomeMatchesSteps, Sole,
       ExecutedBy
  <1>7. QED
    BY <1>1, <1>2, <1>3, <1>4, <1>5, <1>6 DEF Next

(* The outcome of a task that one worker alone executed agrees with its    *)
(* recorded steps, for any number of steps and whatever was cancelled,     *)
(* failed or cut off by an exit (runTask, completeTask).                   *)
THEOREM OutcomeTheorem == Spec => []OutcomeMatchesSteps
  <1>1. OutcomeInv => OutcomeMatchesSteps
    BY DEF OutcomeInv
  <1>2. QED
    BY <1>1, InvInit, InvNext, OutcomeInit, OutcomeNext, PTL DEF Spec
=============================================================================
