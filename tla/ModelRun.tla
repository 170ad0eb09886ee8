------------------------------ MODULE ModelRun ------------------------------
(***************************************************************************)
(* Runs of the discount-model pipeline: the admin API that starts and      *)
(* cancels them, the four Python scripts (01 prepare, 02 train, 03         *)
(* publish, 04 the three in a row), the rows of ops.pipeline_run and       *)
(* ops.discount_model_snapshot they share, and the hourly clean-up of the  *)
(* scheduler daemon.                                                       *)
(*                                                                         *)
(* A run is one row and one process tree.  Every database transaction of   *)
(* a script is a step of its own, so runs, cancellations, clean-ups and    *)
(* kills interleave between any two of them.  An UPDATE of several rows    *)
(* sees the rows active when the statement began (READ COMMITTED), which   *)
(* is why downgrading and activating are two steps although they commit    *)
(* together.                                                               *)
(***************************************************************************)
EXTENDS Naturals, FiniteSets

CONSTANTS Runs,        \* run ids the API may hand out
          Kind,        \* Kind[r]: the pipeline the run was started for
          Published,   \* the run active before the first start, if any
          MaxFaults    \* failed database calls in one behaviour

Kinds == {"full", "prepare", "train", "publish"}
SnapshotKinds == {"dataset_meta", "coefficients", "baseline"}

ASSUME KindAssumption == Kind \in [Runs -> Kinds]
ASSUME PublishedAssumption == /\ Published \subseteq Runs
                              /\ IsFiniteSet(Published) /\ Cardinality(Published) <= 1
ASSUME MaxFaultsAssumption == MaxFaults \in Nat

VARIABLES status,        \* ops.pipeline_run.status, "none" before the INSERT
          active,        \* rows with is_active = true
          flag,          \* rows with cancel_requested = true
          snaps,         \* kinds stored in discount_model_snapshot for the version
          skipped,       \* steps of the run recorded as cancelled
          pc,            \* where the run's scripts are
          entered,       \* runs inside the step_context of the step at pc
          cancelBefore,  \* 01_prepare_data's local cancel_before
          seen,          \* rows the run's downgrading UPDATE found active
          tracked,       \* pipelinePids of the API process
          pidSaved,      \* rows whose pid column is set
          orphan,        \* full runs whose 04 process was killed alone
          old,           \* rows started longer ago than the stale timeout
          sweeping,      \* the clean-up is between its SELECT and its UPDATE
          faults

vars == <<status, active, flag, snaps, skipped, pc, entered, cancelBefore, seen,
          tracked, pidSaved, orphan, old, sweeping, faults>>

\* Steps that run inside a step_context, script by script.
PrepareSteps == {"prepare", "write_snapshot"}
TrainSteps == {"fit", "write_coefficients", "fit_baseline", "write_baseline"}
PublishSteps == {"validate", "activate"}
Steps == PrepareSteps \cup TrainSteps \cup PublishSteps

InPrepare == PrepareSteps \cup {"read_cancel", "finish_prepare"}
InTrain == TrainSteps \cup {"finish_train"}
InPublish == PublishSteps \cup {"set_active", "finish_read", "finish_publish", "rollback"}
InParent == {"create", "fail", "fail_inactive", "except", "hard"}
Over == {"exit_ok", "exit_bad", "dead"}
Alive(r) == pc[r] \in InPrepare \cup InTrain \cup InPublish \cup InParent

\* A 04 process waits for the script that runs.
HasParent(r) == Kind[r] = "full" /\ r \notin orphan

Init == /\ status = [r \in Runs |-> IF r \in Published THEN "success" ELSE "none"]
        /\ active = Published
        /\ flag = {}
        /\ snaps = [r \in Runs |-> IF r \in Published THEN SnapshotKinds ELSE {}]
        /\ skipped = [r \in Runs |-> {}]
        /\ pc = [r \in Runs |-> IF r \in Published THEN "exit_ok" ELSE "idle"]
        /\ entered = {}
        /\ cancelBefore = {}
        /\ seen = [r \in Runs |-> {}]
        /\ tracked = {} /\ pidSaved = {} /\ orphan = {} /\ old = {}
        /\ sweeping = FALSE
        /\ faults = 0

row == <<status, active, flag, snaps, skipped>>
script == <<pc, entered, cancelBefore, seen>>
rest == <<tracked, pidSaved, orphan, old, sweeping>>

(***************************************************************************)
(* Moving through the scripts.                                             *)
(***************************************************************************)
\* The script goes on at l; leaving a step closes its step_context.
Goto(r, l) == pc' = [pc EXCEPT ![r] = l] /\ entered' = entered \ {r}

\* run_step of 04 returned: the next script, or the handling of its exit code.
AfterScript(r, ok) ==
  IF ~HasParent(r) THEN IF ok THEN "exit_ok" ELSE "exit_bad"
  ELSE CASE pc[r] \in InPrepare -> IF ok THEN "fit" ELSE "fail"
         [] pc[r] \in InTrain   -> IF ok THEN "validate" ELSE "fail"
         [] OTHER               -> IF ok THEN "exit_ok" ELSE "fail_inactive"

\* An exception leaves the script; 03 first rolls its run back.
AfterRaise(r) ==
  IF pc[r] \in InPublish \ {"rollback"} THEN "rollback" ELSE AfterScript(r, FALSE)

\* A database call of the script raises.
Fault(r) ==
  /\ faults < MaxFaults
  /\ faults' = faults + 1
  /\ CASE pc[r] \in InPrepare \cup InTrain \cup InPublish -> Goto(r, AfterRaise(r))
       [] pc[r] \in {"create", "fail", "fail_inactive"}   -> Goto(r, "except")
       [] pc[r] = "except"                                -> Goto(r, "hard")
       [] pc[r] = "hard"                                  -> Goto(r, "exit_bad")
       [] OTHER                                           -> FALSE
  /\ UNCHANGED <<row, cancelBefore, seen, rest>>

(***************************************************************************)
(* The admin API.                                                          *)
(***************************************************************************)
FirstPc(r) == CASE Kind[r] = "full"    -> "create"
                [] Kind[r] = "prepare" -> "read_cancel"
                [] Kind[r] = "train"   -> "fit"
                [] OTHER               -> "exit_bad"  \* 03 rejects --start and --end

\* POST start: INSERT the row, spawn the script, remember its pid.  argparse
\* of 03 exits at once with code 2 on the arguments start always passes.
Start(r) ==
  /\ status[r] = "none"
  /\ status' = [status EXCEPT ![r] = "running"]
  /\ pc' = [pc EXCEPT ![r] = FirstPc(r)]
  /\ tracked' = IF FirstPc(r) \in Over THEN tracked ELSE tracked \cup {r}
  /\ UNCHANGED <<active, flag, snaps, skipped, entered, cancelBefore, seen,
                 pidSaved, orphan, old, sweeping, faults>>

\* spawn throws: the catch marks the row failed; an asynchronous spawn
\* error reaches no catch and leaves it running.
SpawnFails(r) ==
  /\ status[r] = "none"
  /\ \E s \in {"failed", "running"} : status' = [status EXCEPT ![r] = s]
  /\ pc' = [pc EXCEPT ![r] = "dead"]
  /\ UNCHANGED <<active, flag, snaps, skipped, entered, cancelBefore, seen, rest, faults>>

\* The UPDATE of the pid column that start does not await; it may never land.
PersistPid(r) ==
  /\ r \in tracked \ pidSaved
  /\ pidSaved' = pidSaved \cup {r}
  /\ UNCHANGED <<row, script, tracked, orphan, old, sweeping, faults>>

\* child.on('exit') forgets the pid of a finished run.
ForgetPid(r) ==
  /\ r \in tracked /\ (pc[r] \in Over \/ r \in orphan)
  /\ tracked' = tracked \ {r}
  /\ UNCHANGED <<row, script, pidSaved, orphan, old, sweeping, faults>>

\* The API process restarts; the detached scripts live on.
UiRestart ==
  /\ tracked # {}
  /\ tracked' = {}
  /\ UNCHANGED <<row, script, pidSaved, orphan, old, sweeping, faults>>

\* POST cancel: kill the process group if its pid is known, then set the
\* flag if the row is still running.
Cancel(r) ==
  /\ status[r] # "none"
  /\ r \in tracked \/ (status[r] = "running" /\ r \notin flag)
  /\ IF r \in tracked /\ Alive(r) THEN Goto(r, "dead") ELSE UNCHANGED <<pc, entered>>
  /\ tracked' = tracked \ {r}
  /\ flag' = IF status[r] = "running" THEN flag \cup {r} ELSE flag
  /\ UNCHANGED <<status, active, snaps, skipped, cancelBefore, seen,
                 pidSaved, orphan, old, sweeping, faults>>

(***************************************************************************)
(* The scripts.                                                            *)
(***************************************************************************)
\* step_context on entry: a cancelled run has the step recorded as
\* cancelled, and the body of the with statement runs all the same.
EnterStep(r) ==
  /\ pc[r] \in Steps /\ r \notin entered
  /\ skipped' = IF r \in flag THEN [skipped EXCEPT ![r] = @ \cup {pc[r]}] ELSE skipped
  /\ entered' = entered \cup {r}
  /\ UNCHANGED <<status, active, flag, snaps, pc, cancelBefore, seen, rest, faults>>

\* The run inside the body of step s.
In(r, s) == pc[r] = s /\ r \in entered

\* Finish the script with a status of the run and no change of is_active.
FinishAs(r, s, next) ==
  /\ status' = [status EXCEPT ![r] = s]
  /\ Goto(r, next)
  /\ UNCHANGED <<active, flag, snaps, skipped, cancelBefore, seen, rest, faults>>

CreateRow(r) ==
  /\ pc[r] = "create"
  /\ Goto(r, "read_cancel")
  /\ UNCHANGED <<row, cancelBefore, seen, rest, faults>>

ReadCancel(r) ==
  /\ pc[r] = "read_cancel"
  /\ cancelBefore' = IF r \in flag THEN cancelBefore \cup {r} ELSE cancelBefore \ {r}
  /\ Goto(r, "prepare")
  /\ UNCHANGED <<row, seen, rest, faults>>

\* fetch_orders, fetch_weather, build_calendar and merge_dataset.
Prepare(r) ==
  /\ In(r, "prepare")
  /\ \/ Goto(r, "write_snapshot")
     \/ Goto(r, AfterRaise(r))
  /\ UNCHANGED <<row, cancelBefore, seen, rest, faults>>

\* upsert_snapshot of one kind, as the body of step s.
WriteSnapshot(r, s, kind, next) ==
  /\ In(r, s)
  /\ snaps' = [snaps EXCEPT ![r] = @ \cup {kind}]
  /\ Goto(r, next)
  /\ UNCHANGED <<status, active, flag, skipped, cancelBefore, seen, rest, faults>>

\* mutant: a status the table's readers do not know.
FinishPrepareCanceled(r) ==
  /\ pc[r] = "finish_prepare"
  /\ IF r \in cancelBefore
     THEN FinishAs(r, "canceled", AfterScript(r, FALSE))
     ELSE FinishAs(r, "success", AfterScript(r, TRUE))

\* Prepare's end: the status of the whole run, a full one included.
FinishPrepare(r) ==
  /\ pc[r] = "finish_prepare"
  /\ IF r \in cancelBefore
     THEN FinishAs(r, "cancelled", AfterScript(r, FALSE))
     ELSE FinishAs(r, "success", AfterScript(r, TRUE))

\* mutant: the cancellation token is never checked.
FitWithoutToken(r, s, next) ==
  /\ In(r, s)
  /\ Goto(r, next) \/ Goto(r, AfterRaise(r))
  /\ UNCHANGED <<row, cancelBefore, seen, rest, faults>>

\* A fit raises when it fails, and always when its CancelToken, whose first
\* check is immediate, finds the flag.
Fit(r, s, next) ==
  /\ In(r, s)
  /\ \/ r \notin flag /\ Goto(r, next)
     \/ Goto(r, AfterRaise(r))
  /\ UNCHANGED <<row, cancelBefore, seen, rest, faults>>

FinishTrain(r) ==
  /\ pc[r] = "finish_train"
  /\ FinishAs(r, "success", AfterScript(r, TRUE))

Train(r) ==
  \/ Fit(r, "fit", "write_coefficients")
  \/ WriteSnapshot(r, "write_coefficients", "coefficients", "fit_baseline")
  \/ Fit(r, "fit_baseline", "write_baseline")
  \/ WriteSnapshot(r, "write_baseline", "baseline", "finish_train")
  \/ FinishTrain(r)

Validate(r) ==
  /\ In(r, "validate")
  /\ IF snaps[r] = SnapshotKinds THEN Goto(r, "activate") ELSE Goto(r, AfterRaise(r))
  /\ UNCHANGED <<row, cancelBefore, seen, rest, faults>>

\* The downgrading UPDATE of activate_version and of finish_pipeline_run
\* begins: the rows it will find are those active now.
Downgrade(r) ==
  /\ \/ In(r, "activate") /\ Goto(r, "set_active")
     \/ pc[r] = "finish_read" /\ Goto(r, "finish_publish")
  /\ seen' = [seen EXCEPT ![r] = active \ {r}]
  /\ UNCHANGED <<row, cancelBefore, rest, faults>>

\* mutant: no unique index, so every row this run did not see stays active.
ActivateUnchecked(r) ==
  /\ pc[r] \in {"set_active", "finish_publish"}
  /\ active' = (active \ seen[r]) \cup {r}
  /\ status' = [status EXCEPT ![r] = "success"]
  /\ Goto(r, IF pc[r] = "set_active" THEN "finish_read" ELSE AfterScript(r, TRUE))
  /\ UNCHANGED <<flag, snaps, skipped, cancelBefore, seen, rest, faults>>

\* mutant: the downgrade commits although the activation fails.
ActivateNotAtomic(r) ==
  /\ pc[r] \in {"set_active", "finish_publish"}
  /\ IF active \ {r} \subseteq seen[r]
     THEN /\ \/ active' = {r} /\ Goto(r, IF pc[r] = "set_active" THEN "finish_read"
                                                           ELSE AfterScript(r, TRUE))
             \/ active' = active \ seen[r] /\ Goto(r, AfterRaise(r))
          /\ status' = [status EXCEPT ![r] = "success"]
     ELSE Goto(r, AfterRaise(r)) /\ UNCHANGED <<active, status>>
  /\ UNCHANGED <<flag, snaps, skipped, cancelBefore, seen, rest, faults>>

\* Both transactions end alike: the rows seen are downgraded and the run is
\* activated, unless a row activated meanwhile breaks the unique index.
Activate(r) ==
  /\ pc[r] \in {"set_active", "finish_publish"}
  /\ IF active \ {r} \subseteq seen[r]
     THEN /\ active' = {r}
          /\ status' = [status EXCEPT ![r] = "success"]
          /\ Goto(r, IF pc[r] = "set_active" THEN "finish_read" ELSE AfterScript(r, TRUE))
     ELSE Goto(r, AfterRaise(r)) /\ UNCHANGED <<active, status>>
  /\ UNCHANGED <<flag, snaps, skipped, cancelBefore, seen, rest, faults>>

\* mutant: a failure leaves is_active as it is.
FailStillActive(r) ==
  /\ pc[r] \in {"rollback", "fail_inactive"}
  /\ status' = [status EXCEPT ![r] = "failed"]
  /\ Goto(r, IF pc[r] = "rollback" THEN AfterScript(r, FALSE) ELSE "exit_bad")
  /\ UNCHANGED <<active, flag, snaps, skipped, cancelBefore, seen, rest, faults>>

\* status = 'failed' and is_active = false: 03 on an exception, and 04 on 03's.
FailInactive(r) ==
  /\ pc[r] \in {"rollback", "fail_inactive"}
  /\ status' = [status EXCEPT ![r] = "failed"]
  /\ active' = active \ {r}
  /\ Goto(r, IF pc[r] = "rollback" THEN AfterScript(r, FALSE) ELSE "exit_bad")
  /\ UNCHANGED <<flag, snaps, skipped, cancelBefore, seen, rest, faults>>

\* 04 records a failure, in the order it tries: at once, in its except
\* clause, and by the hard update.
RecordFailure(r) ==
  /\ pc[r] \in {"fail", "except", "hard"}
  /\ FinishAs(r, "failed", "exit_bad")

(***************************************************************************)
(* The clean-up of stale runs.                                             *)
(***************************************************************************)
\* The stale timeout passes for a run still marked as running.
Age(r) ==
  /\ status[r] = "running" /\ r \notin old
  /\ old' = old \cup {r}
  /\ UNCHANGED <<row, script, tracked, pidSaved, orphan, sweeping, faults>>

Stale == {r \in old : status[r] = "running"}

\* SELECT the stale rows and kill the process whose pid each carries: the
\* script itself, or of a full run the 04 process but not its child.
CleanupKill ==
  /\ ~sweeping /\ Stale # {}
  /\ LET hit == {r \in Stale \cap pidSaved : Alive(r)}
         child == {r \in hit : HasParent(r) /\ pc[r] \notin InParent}
     IN /\ pc' = [r \in Runs |-> IF r \in hit \ (child \cup orphan) THEN "dead" ELSE pc[r]]
        /\ entered' = entered \ (hit \ (child \cup orphan))
        /\ orphan' = orphan \cup child
  /\ sweeping' = TRUE
  /\ UNCHANGED <<row, cancelBefore, seen, tracked, pidSaved, old, faults>>

\* mutant: only rows whose pid is known are marked.
CleanupMarkKnown ==
  /\ sweeping
  /\ status' = [r \in Runs |-> IF r \in Stale \cap pidSaved THEN "failed" ELSE status[r]]
  /\ sweeping' = FALSE
  /\ UNCHANGED <<active, flag, snaps, skipped, script, tracked, pidSaved, orphan, old, faults>>

CleanupMark ==
  /\ sweeping
  /\ status' = [r \in Runs |-> IF r \in Stale THEN "failed" ELSE status[r]]
  /\ sweeping' = FALSE
  /\ UNCHANGED <<active, flag, snaps, skipped, script, tracked, pidSaved, orphan, old, faults>>

\* The UPDATE fails: the exception is logged and the next hour tries again.
CleanupFails ==
  /\ sweeping /\ faults < MaxFaults
  /\ sweeping' = FALSE
  /\ faults' = faults + 1
  /\ UNCHANGED <<row, script, tracked, pidSaved, orphan, old>>

Script(r) ==
  \/ CreateRow(r) \/ ReadCancel(r) \/ EnterStep(r) \/ Prepare(r)
  \/ WriteSnapshot(r, "write_snapshot", "dataset_meta", "finish_prepare")
  \/ FinishPrepare(r) \/ Train(r) \/ Validate(r) \/ Downgrade(r) \/ Activate(r)
  \/ FailInactive(r) \/ RecordFailure(r) \/ Fault(r)

Api(r) == Start(r) \/ SpawnFails(r) \/ PersistPid(r) \/ ForgetPid(r) \/ Cancel(r)

Cleanup == CleanupKill \/ CleanupMark \/ CleanupFails

Next == (\E r \in Runs : Api(r) \/ Script(r) \/ Age(r)) \/ UiRestart \/ Cleanup

Spec == Init /\ [][Next]_vars

\* Time passes, and the daemon runs its hourly job to its end.
FairSpec == Spec /\ (\A r \in Runs : WF_vars(Age(r)))
                 /\ WF_vars(CleanupKill) /\ WF_vars(CleanupMark)

(***************************************************************************)
(* Properties.                                                             *)
(***************************************************************************)
Pcs == InPrepare \cup InTrain \cup InPublish \cup InParent \cup Over \cup {"idle"}

TypeOK ==
  /\ status \in [Runs -> {"none", "running", "success", "failed", "cancelled"}]
  /\ snaps \in [Runs -> SUBSET SnapshotKinds]
  /\ skipped \in [Runs -> SUBSET Steps]
  /\ pc \in [Runs -> Pcs]
  /\ seen \in [Runs -> SUBSET Runs]
  /\ {active, flag, entered, cancelBefore, tracked, pidSaved, orphan, old}
       \subseteq SUBSET Runs
  /\ sweeping \in BOOLEAN
  /\ faults \in 0..MaxFaults

\* What the readers of the active version join on is there: whatever was
\* killed, cancelled, cleaned up or published at the same time, at most one
\* version is active and it has all three snapshots (03's validation).
ActiveIsComplete == /\ Cardinality(active) <= 1
                    /\ \A r \in active : snaps[r] = SnapshotKinds

\* A run whose cancellation was accepted is never the active version, whether
\* it was killed, skipped its steps or noticed the flag in a fit.
CancelledIsNotPublished == \A r \in flag : r \notin active

\* A full run that ended with an error, its 04 process never killed, is recorded as failed and is
\* not active (04's "publish failed: the whole run failed, is_active=false"),
\* through as many failing database calls as its three attempts survive.
FailureIsRecorded ==
  \A r \in Runs : HasParent(r) /\ pc[r] = "exit_bad"
                    => status[r] = "failed" /\ r \notin active

\* While every database call succeeds, runs that are cancelled, killed, cleaned
\* up or publish at the same time never leave the readers without a version.
SwitchKeepsActive == [][active # {} /\ faults' = 0 => active' # {}]_vars

\* Once some version is published, some version stays active: what fails,
\* loses a race or is cancelled leaves the readers the previous one (the DDL's
\* "keep the previous version on failure").
ActiveKept == [][active # {} => active' # {}]_vars

\* No row stays 'running' for ever, whatever happened to its process: the
\* hourly clean-up settles what nobody else does.
RunsSettle == \A r \in Runs : status[r] = "running" ~> status[r] # "running"
=============================================================================
