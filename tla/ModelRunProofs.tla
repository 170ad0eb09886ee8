---------------------------- MODULE ModelRunProofs ----------------------------
(* What the runs of the discount-model pipeline keep, however many there are,
   whatever they are started for and however many database calls fail.          *)
EXTENDS ModelRun, FiniteSetTheorems, TLAPS

\* A row that a cancellation may still mark.
Open(r) == status[r] \in {"none", "running"}

\* Where the scripts of a run may be while the run is active.
AfterActivation == {"finish_read", "finish_publish", "rollback", "fail_inactive",
                    "except", "hard"} \cup Over

\* The active version has its snapshots, was never cancelled and can no more be,
\* and how far a failure of its run went undone tells how many calls failed.
ActiveInv(r) ==
  r \in active =>
    /\ snaps[r] = SnapshotKinds
    /\ ~Open(r) /\ r \notin flag
    /\ pc[r] \in AfterActivation
    /\ pc[r] = "rollback" => faults >= 1
    /\ pc[r] = "fail_inactive" => faults >= 2
    /\ pc[r] \in {"except", "hard"} => faults >= 3

\* Prepare closes the row of a full run, so the flag the fit looks at is final.
TrainInv(r) ==
  Kind[r] = "full" /\ pc[r] \in InTrain => ~Open(r) /\ (pc[r] # "fit" => r \notin flag)

PublishInv(r) ==
  pc[r] \in InPublish =>
    /\ ~Open(r) /\ r \notin flag
    /\ pc[r] \in {"activate", "set_active", "finish_read", "finish_publish"}
         => snaps[r] = SnapshotKinds

\* A failure goes unrecorded only when three calls in a row failed.
FailureInv(r) ==
  /\ pc[r] = "except" => faults >= 1
  /\ pc[r] = "hard" => faults >= 2
  /\ HasParent(r) /\ pc[r] = "exit_bad" =>
       faults >= 3 \/ (status[r] = "failed" /\ r \notin active)

RunInv(r) == ActiveInv(r) /\ TrainInv(r) /\ PublishInv(r) /\ FailureInv(r)

Statuses == {"none", "running", "success", "failed", "cancelled"}

Typed ==
  /\ status \in [Runs -> Statuses]
  /\ snaps \in [Runs -> SUBSET SnapshotKinds] /\ skipped \in [Runs -> SUBSET Steps]
  /\ pc \in [Runs -> Pcs] /\ seen \in [Runs -> SUBSET Runs]
  /\ active \in SUBSET Runs /\ flag \in SUBSET Runs /\ entered \in SUBSET Runs
  /\ cancelBefore \in SUBSET Runs /\ tracked \in SUBSET Runs /\ pidSaved \in SUBSET Runs
  /\ orphan \in SUBSET Runs /\ old \in SUBSET Runs
  /\ sweeping \in BOOLEAN /\ faults \in 0..MaxFaults

OneActive == \A q, r \in active : q = r

Inv == Typed /\ OneActive /\ \A r \in Runs : RunInv(r)

-----------------------------------------------------------------------------
\* A run that a step leaves alone, but for taking it off the active version,
\* keeps what RunInv says of it.
LEMMA OthersKeep ==
  ASSUME Typed, NEW q \in Runs, RunInv(q),
         pc'[q] = pc[q], status'[q] = status[q], snaps'[q] = snaps[q],
         q \in flag' => q \in flag, q \in active' => q \in active,
         orphan \subseteq orphan', faults' \in Nat, faults <= faults'
  PROVE  RunInv(q)'
<1>1. faults \in Nat
  BY MaxFaultsAssumption DEF Typed
<1> QED
  BY <1>1 DEF RunInv, ActiveInv, TrainInv, PublishInv, FailureInv, Open, HasParent

\* Where a script goes on is a place of the scripts.
LEMMA NextPlace ==
  ASSUME Typed, NEW r \in Runs, NEW ok \in BOOLEAN
  PROVE  AfterScript(r, ok) \in Pcs /\ AfterRaise(r) \in Pcs
BY DEF Typed, AfterScript, AfterRaise, Pcs, InPrepare, InTrain, InPublish, InParent, Over,
       PrepareSteps, TrainSteps, PublishSteps

LEMMA GotoType ==
  ASSUME Typed, NEW r \in Runs, NEW l \in Pcs, Goto(r, l)
  PROVE  /\ pc' \in [Runs -> Pcs] /\ entered' \in SUBSET Runs
         /\ pc'[r] = l /\ \A q \in Runs \ {r} : pc'[q] = pc[q]
BY DEF Typed, Goto

\* At the start one version at most is active.
LEMMA InitInv == Init => Inv
<1> SUFFICES ASSUME Init PROVE Inv
  OBVIOUS
<1> USE DEF Init
<1>1. OneActive
  <2>1. Cardinality(Published) \in Nat
    BY PublishedAssumption, FS_CardinalityType
  <2>2. Cardinality(Published) = 0 \/ Cardinality(Published) = 1
    BY <2>1, PublishedAssumption
  <2>3. Published = {} \/ \E x : Published = {x}
    BY <2>2, PublishedAssumption, FS_EmptySet, FS_Singleton
  <2> QED
    BY <2>3 DEF OneActive
<1>2. Typed
  <2>1. pc \in [Runs -> Pcs]
    BY DEF Pcs, Over
  <2>2. snaps \in [Runs -> SUBSET SnapshotKinds] /\ skipped \in [Runs -> SUBSET Steps]
    OBVIOUS
  <2>3. status \in [Runs -> Statuses]
    BY DEF Statuses
  <2>4. faults \in 0..MaxFaults
    BY MaxFaultsAssumption
  <2> QED
    BY <2>1, <2>2, <2>3, <2>4, PublishedAssumption DEF Typed
<1>3. ASSUME NEW r \in Runs
      PROVE  RunInv(r)
  BY <1>3, PublishedAssumption
     DEF RunInv, ActiveInv, TrainInv, PublishInv, FailureInv, Open, AfterActivation, Over, InTrain,
         InPublish, TrainSteps, PublishSteps
<1> QED
  BY <1>1, <1>2, <1>3 DEF Inv

-----------------------------------------------------------------------------
\* A step of one run.
LEMMA RunStep ==
  ASSUME Inv, NEW r \in Runs, Typed', OneActive', RunInv(r)',
         \A q \in Runs \ {r} : /\ pc'[q] = pc[q] /\ status'[q] = status[q] /\ snaps'[q] = snaps[q]
                               /\ q \in flag' => q \in flag
                               /\ q \in active' => q \in active,
         orphan \subseteq orphan', faults' \in Nat, faults <= faults'
  PROVE  Inv'
<1>1. ASSUME NEW q \in Runs, q # r
      PROVE  RunInv(q)'
  BY <1>1, OthersKeep DEF Inv
<1> QED
  BY <1>1 DEF Inv

LEMMA FaultsNat == ASSUME Typed PROVE faults \in Nat
BY MaxFaultsAssumption DEF Typed

LEMMA FaultStep ==
  ASSUME Inv, NEW r \in Runs, Fault(r)
  PROVE  Inv'
<1> USE DEF Fault, row, rest
<1>0. Typed /\ RunInv(r) /\ faults \in Nat
  BY FaultsNat DEF Inv
<1>1. PICK l \in Pcs :
        /\ Goto(r, l)
        /\ \/ /\ pc[r] \in InPrepare \cup InTrain \cup InPublish
              /\ l = AfterRaise(r)
           \/ pc[r] \in {"create", "fail", "fail_inactive"} /\ l = "except"
           \/ pc[r] = "except" /\ l = "hard"
           \/ pc[r] = "hard" /\ l = "exit_bad"
  <2>1. {"except", "hard", "exit_bad"} \subseteq Pcs
    BY DEF Pcs, InParent, Over
  <2> QED
    BY <1>0, <2>1, NextPlace
<1>2. /\ pc'[r] = l /\ \A q \in Runs \ {r} : pc'[q] = pc[q]
      /\ pc' \in [Runs -> Pcs] /\ entered' \in SUBSET Runs
  BY <1>0, <1>1, GotoType
<1>3. Typed'
  <2>1. faults' \in 0..MaxFaults
    BY <1>0, MaxFaultsAssumption
  <2> QED
    BY <1>0, <1>2, <2>1 DEF Typed
<1>4. RunInv(r)'
  BY <1>0, <1>1, <1>2 DEF RunInv, ActiveInv, TrainInv, PublishInv, FailureInv, Open, HasParent, AfterRaise, AfterScript, AfterActivation, InPrepare, InTrain, InPublish, InParent, Over,
     PrepareSteps, TrainSteps, PublishSteps
<1>5. OneActive'
  BY DEF Inv, OneActive
<1> QED
  BY <1>0, <1>2, <1>3, <1>4, <1>5, RunStep

LEMMA ApiStep ==
  ASSUME Inv, NEW r \in Runs, Api(r)
  PROVE  Inv'
<1>0. Typed /\ RunInv(r) /\ faults \in Nat /\ OneActive
  BY FaultsNat DEF Inv
<1>1. CASE Start(r) \/ SpawnFails(r)
  <2>1. /\ status[r] = "none" /\ r \notin active
        /\ \/ pc' = [pc EXCEPT ![r] = FirstPc(r)] /\ status' = [status EXCEPT ![r] = "running"]
           \/ /\ pc' = [pc EXCEPT ![r] = "dead"]
              /\ \E x \in {"failed", "running"} : status' = [status EXCEPT ![r] = x]
        /\ UNCHANGED <<active, flag, snaps, skipped, entered, cancelBefore, seen,
                       pidSaved, orphan, old, sweeping, faults>>
        /\ tracked' \subseteq tracked \cup {r}
    BY <1>0, <1>1 DEF Start, SpawnFails, RunInv, ActiveInv, Open, rest
  <2>2. FirstPc(r) \in {"create", "read_cancel", "fit", "exit_bad"} /\ "dead" \in Pcs
        /\ FirstPc(r) \in Pcs /\ (Kind[r] = "full" => FirstPc(r) = "create")
    BY DEF FirstPc, Pcs, InPrepare, InTrain, InPublish, InParent, Over,
     PrepareSteps, TrainSteps, PublishSteps
  <2>3. Typed'
    <3>1. pc' \in [Runs -> Pcs]
      BY <1>0, <2>1, <2>2 DEF Typed
    <3>2. status' \in [Runs -> Statuses]
      BY <1>0, <2>1 DEF Typed, Statuses
    <3> QED
      BY <1>0, <2>1, <3>1, <3>2 DEF Typed
  <2>4. RunInv(r)'
    BY <1>0, <2>1, <2>2 DEF Typed, RunInv, ActiveInv, TrainInv, PublishInv, FailureInv, Open, HasParent, InPrepare, InTrain, InPublish, InParent, Over,
     PrepareSteps, TrainSteps, PublishSteps
  <2>5. OneActive'
    BY <1>0, <2>1 DEF OneActive
  <2> QED
    BY <1>0, <2>1, <2>3, <2>4, <2>5, RunStep DEF Typed
<1>2. CASE PersistPid(r) \/ ForgetPid(r)
  <2>1. /\ UNCHANGED <<row, script, orphan, old, sweeping, faults>>
        /\ tracked' \subseteq tracked /\ pidSaved' \subseteq pidSaved \cup {r}
    BY <1>2 DEF PersistPid, ForgetPid
  <2>2. Typed'
    BY <1>0, <2>1 DEF Typed, row, script
  <2>3. RunInv(r)' /\ OneActive'
    BY <1>0, <2>1 DEF RunInv, ActiveInv, TrainInv, PublishInv, FailureInv, OneActive, Open, HasParent, row, script
  <2> QED
    BY <1>0, <2>1, <2>2, <2>3, RunStep DEF row, script
<1>3. CASE Cancel(r)
  <2>1. /\ (pc' = [pc EXCEPT ![r] = "dead"] /\ entered' = entered \ {r}) \/ UNCHANGED <<pc, entered>>
        /\ tracked' = tracked \ {r}
        /\ flag' = IF status[r] = "running" THEN flag \cup {r} ELSE flag
        /\ UNCHANGED <<status, active, snaps, skipped, cancelBefore, seen,
                       pidSaved, orphan, old, sweeping, faults>>
    BY <1>3 DEF Cancel, Goto
  <2>2. Typed'
    <3>1. pc' \in [Runs -> Pcs] /\ entered' \in SUBSET Runs
      BY <1>0, <2>1 DEF Typed, Pcs, Over
    <3> QED
      BY <1>0, <2>1, <3>1 DEF Typed
  <2>3. RunInv(r)' /\ OneActive'
    BY <1>0, <2>1 DEF Typed, RunInv, ActiveInv, TrainInv, PublishInv, FailureInv, OneActive, Open, HasParent, AfterActivation, InPrepare, InTrain, InPublish, InParent, Over,
     PrepareSteps, TrainSteps, PublishSteps
  <2> QED
    BY <1>0, <2>1, <2>2, <2>3, RunStep DEF Typed
<1> QED
  BY <1>1, <1>2, <1>3 DEF Api

\* Steps that only move the script on, or leave a step with a failure.
LEMMA MoveStep ==
  ASSUME Inv, NEW r \in Runs, NEW l \in Pcs, Goto(r, l), RunInv(r)', Typed',
         UNCHANGED <<status, active, flag, rest, faults>>,
         \A q \in Runs \ {r} : snaps'[q] = snaps[q]
  PROVE  Inv'
<1>0. Typed /\ faults \in Nat /\ OneActive
  BY FaultsNat DEF Inv
<1>1. \A q \in Runs \ {r} : pc'[q] = pc[q]
  BY <1>0, GotoType
<1>2. OneActive'
  BY <1>0 DEF OneActive
<1> QED
  BY <1>0, <1>1, <1>2, RunStep DEF rest

\* The scripts up to the publication.
LEMMA PrepareStep ==
  ASSUME Inv, NEW r \in Runs,
         \/ CreateRow(r) \/ ReadCancel(r) \/ Prepare(r)
         \/ Fit(r, "fit", "write_coefficients") \/ Fit(r, "fit_baseline", "write_baseline")
         \/ Validate(r)
  PROVE  Inv'
<1> USE DEF row, rest
<1>0. Typed /\ RunInv(r) /\ faults \in Nat
  BY FaultsNat DEF Inv
<1>1. PICK l \in Pcs :
        /\ Goto(r, l)
        /\ \/ pc[r] = "create" /\ l = "read_cancel"
           \/ pc[r] = "read_cancel" /\ l = "prepare"
           \/ pc[r] = "prepare" /\ l \in {"write_snapshot", AfterRaise(r)}
           \/ /\ pc[r] = "fit"
              /\ (l = "write_coefficients" /\ r \notin flag) \/ l = AfterRaise(r)
           \/ /\ pc[r] = "fit_baseline"
              /\ (l = "write_baseline" /\ r \notin flag) \/ l = AfterRaise(r)
           \/ /\ pc[r] = "validate"
              /\ (l = "activate" /\ snaps[r] = SnapshotKinds) \/ l = AfterRaise(r)
  <2>1. {"read_cancel", "prepare", "write_snapshot", "write_coefficients", "write_baseline",
         "activate"} \subseteq Pcs
    BY DEF Pcs, InPrepare, InTrain, InPublish, InParent, Over,
     PrepareSteps, TrainSteps, PublishSteps
  <2>2. AfterRaise(r) \in Pcs
    BY <1>0, NextPlace
  <2> QED
    BY <2>1, <2>2 DEF CreateRow, ReadCancel, Prepare, Fit, Validate, In
<1>2. /\ UNCHANGED <<status, active, flag, snaps, skipped, seen, rest, faults>>
      /\ cancelBefore' \subseteq cancelBefore \cup {r}
  BY DEF CreateRow, ReadCancel, Prepare, Fit, Validate
<1>3. /\ pc'[r] = l /\ pc' \in [Runs -> Pcs] /\ entered' \in SUBSET Runs
  BY <1>0, <1>1, GotoType
<1>4. Typed'
  BY <1>0, <1>2, <1>3 DEF Typed
<1>5. RunInv(r)'
  BY <1>0, <1>1, <1>2, <1>3
     DEF RunInv, ActiveInv, TrainInv, PublishInv, FailureInv, Open, HasParent, AfterRaise, AfterScript, AfterActivation, InPrepare, InTrain, InPublish, InParent, Over,
     PrepareSteps, TrainSteps, PublishSteps
<1> QED
  BY <1>1, <1>2, <1>4, <1>5, MoveStep

LEMMA EnterStepStep ==
  ASSUME Inv, NEW r \in Runs, EnterStep(r)
  PROVE  Inv'
<1>0. Typed /\ RunInv(r) /\ faults \in Nat /\ OneActive
  BY FaultsNat DEF Inv
<1>1. /\ UNCHANGED <<status, active, flag, snaps, pc, cancelBefore, seen, rest, faults>>
      /\ entered' = entered \cup {r} /\ pc[r] \in Steps
      /\ skipped' = [skipped EXCEPT ![r] = @ \cup {pc[r]}] \/ skipped' = skipped
  BY DEF EnterStep
<1>2. Typed'
  <2>1. skipped' \in [Runs -> SUBSET Steps]
    BY <1>0, <1>1 DEF Typed
  <2> QED
    BY <1>0, <1>1, <2>1 DEF Typed, rest
<1>3. RunInv(r)' /\ OneActive'
  BY <1>0, <1>1 DEF RunInv, ActiveInv, TrainInv, PublishInv, FailureInv, OneActive, Open, HasParent, rest
<1> QED
  BY <1>0, <1>1, <1>2, <1>3, RunStep DEF rest

LEMMA SnapshotStep ==
  ASSUME Inv, NEW r \in Runs,
         \/ WriteSnapshot(r, "write_snapshot", "dataset_meta", "finish_prepare")
         \/ WriteSnapshot(r, "write_coefficients", "coefficients", "fit_baseline")
         \/ WriteSnapshot(r, "write_baseline", "baseline", "finish_train")
  PROVE  Inv'
<1>0. Typed /\ RunInv(r) /\ faults \in Nat /\ OneActive
  BY FaultsNat DEF Inv
<1>1. PICK l \in Pcs, kind \in SnapshotKinds :
        /\ Goto(r, l) /\ snaps' = [snaps EXCEPT ![r] = @ \cup {kind}]
        /\ \/ pc[r] = "write_snapshot" /\ l = "finish_prepare"
           \/ pc[r] = "write_coefficients" /\ l = "fit_baseline"
           \/ pc[r] = "write_baseline" /\ l = "finish_train"
  BY DEF WriteSnapshot, In, SnapshotKinds, Pcs, InPrepare, InTrain, InPublish, InParent, Over,
     PrepareSteps, TrainSteps, PublishSteps
<1>2. UNCHANGED <<status, active, flag, skipped, cancelBefore, seen, rest, faults>>
  BY DEF WriteSnapshot
<1>3. /\ pc'[r] = l /\ pc' \in [Runs -> Pcs] /\ entered' \in SUBSET Runs
  BY <1>0, <1>1, GotoType
<1>4. Typed' /\ \A q \in Runs \ {r} : snaps'[q] = snaps[q]
  BY <1>0, <1>1, <1>2, <1>3 DEF Typed, rest
<1>5. RunInv(r)'
  BY <1>0, <1>1, <1>2, <1>3 DEF Typed, RunInv, ActiveInv, TrainInv, PublishInv, FailureInv, Open, HasParent, AfterActivation, rest, InPrepare, InTrain, InPublish, InParent, Over,
     PrepareSteps, TrainSteps, PublishSteps
<1> QED
  BY <1>1, <1>2, <1>4, <1>5, MoveStep

LEMMA FinishStep ==
  ASSUME Inv, NEW r \in Runs, FinishPrepare(r) \/ FinishTrain(r) \/ RecordFailure(r)
  PROVE  Inv'
<1>0. Typed /\ RunInv(r) /\ faults \in Nat /\ OneActive
  BY FaultsNat DEF Inv
<1>1. PICK l \in Pcs, x \in {"success", "failed", "cancelled"} :
        /\ FinishAs(r, x, l)
        /\ \/ pc[r] \in {"finish_prepare", "finish_train"} /\ x = "success" /\ l = AfterScript(r, TRUE)
           \/ pc[r] = "finish_prepare" /\ x = "cancelled" /\ l = AfterScript(r, FALSE)
           \/ pc[r] \in {"fail", "except", "hard"} /\ x = "failed" /\ l = "exit_bad"
  <2>1. "exit_bad" \in Pcs
    BY DEF Pcs, Over
  <2> QED
    BY <1>0, <2>1, NextPlace DEF FinishPrepare, FinishTrain, RecordFailure
<1>2. /\ UNCHANGED <<active, flag, snaps, skipped, cancelBefore, seen, rest, faults>>
      /\ Goto(r, l) /\ status' = [status EXCEPT ![r] = x]
  BY <1>1 DEF FinishAs
<1>3. /\ pc'[r] = l /\ pc' \in [Runs -> Pcs] /\ entered' \in SUBSET Runs
      /\ \A q \in Runs \ {r} : pc'[q] = pc[q]
  BY <1>0, <1>2, GotoType
<1>4. Typed'
  BY <1>0, <1>2, <1>3 DEF Typed, Statuses, rest
<1>5. RunInv(r)' /\ OneActive'
  BY <1>0, <1>1, <1>2, <1>3
     DEF Typed, RunInv, ActiveInv, TrainInv, PublishInv, FailureInv, OneActive, Open, HasParent, AfterScript, AfterActivation, rest, InPrepare, InTrain, InPublish, InParent, Over,
     PrepareSteps, TrainSteps, PublishSteps
<1> QED
  BY <1>0, <1>2, <1>3, <1>4, <1>5, RunStep DEF Typed, rest

\* The publication: only here does a version become active or stop being it.
LEMMA DowngradeStep ==
  ASSUME Inv, NEW r \in Runs, Downgrade(r)
  PROVE  Inv'
<1>0. Typed /\ RunInv(r) /\ faults \in Nat
  BY FaultsNat DEF Inv
<1>1. PICK l \in Pcs :
        /\ Goto(r, l)
        /\ \/ pc[r] = "activate" /\ l = "set_active"
           \/ pc[r] = "finish_read" /\ l = "finish_publish"
  BY DEF Downgrade, In, Pcs, InPrepare, InTrain, InPublish, InParent, Over,
     PrepareSteps, TrainSteps, PublishSteps
<1>2. /\ UNCHANGED <<row, cancelBefore, rest, faults>>
      /\ seen' = [seen EXCEPT ![r] = active \ {r}]
  BY DEF Downgrade
<1>3. /\ pc'[r] = l /\ pc' \in [Runs -> Pcs] /\ entered' \in SUBSET Runs
  BY <1>0, <1>1, GotoType
<1>4. Typed'
  BY <1>0, <1>2, <1>3 DEF Typed, rest, row
<1>5. RunInv(r)'
  BY <1>0, <1>1, <1>2, <1>3
     DEF RunInv, ActiveInv, TrainInv, PublishInv, FailureInv, Open, HasParent, AfterActivation, rest, row, InPrepare, InTrain, InPublish, InParent, Over,
     PrepareSteps, TrainSteps, PublishSteps
<1> QED
  BY <1>1, <1>2, <1>4, <1>5, MoveStep DEF row

LEMMA ActivateStep ==
  ASSUME Inv, NEW r \in Runs, Activate(r)
  PROVE  Inv'
<1>0. Typed /\ RunInv(r) /\ faults \in Nat /\ OneActive
  BY FaultsNat DEF Inv
<1>1. PICK l \in Pcs :
        /\ Goto(r, l)
        /\ \/ /\ active' = {r} /\ status' = [status EXCEPT ![r] = "success"]
              /\ l = IF pc[r] = "set_active" THEN "finish_read" ELSE AfterScript(r, TRUE)
           \/ /\ ~(active \ {r} \subseteq seen[r])
              /\ UNCHANGED <<active, status>> /\ l = AfterRaise(r)
  <2>1. "finish_read" \in Pcs
    BY DEF Pcs, InPublish
  <2> QED
    BY <1>0, <2>1, NextPlace DEF Activate
<1>2. /\ pc[r] \in {"set_active", "finish_publish"}
      /\ UNCHANGED <<flag, snaps, skipped, cancelBefore, seen, rest, faults>>
  BY DEF Activate
<1>3. /\ pc'[r] = l /\ pc' \in [Runs -> Pcs] /\ entered' \in SUBSET Runs
      /\ \A q \in Runs \ {r} : pc'[q] = pc[q]
  BY <1>0, <1>1, GotoType
<1>4. Typed'
  BY <1>0, <1>1, <1>2, <1>3 DEF Typed, Statuses, rest
<1>5. CASE active' = {r} /\ status' = [status EXCEPT ![r] = "success"]
           /\ l = IF pc[r] = "set_active" THEN "finish_read" ELSE AfterScript(r, TRUE)
  <2>1. RunInv(r)' /\ OneActive'
    BY <1>0, <1>2, <1>3, <1>5
       DEF Typed, RunInv, ActiveInv, TrainInv, PublishInv, FailureInv, OneActive, Open, HasParent, AfterScript, AfterActivation, rest, InPrepare, InTrain, InPublish, InParent, Over,
     PrepareSteps, TrainSteps, PublishSteps
  <2> QED
    BY <1>0, <1>2, <1>3, <1>4, <1>5, <2>1, RunStep DEF Typed, rest
<1>6. CASE /\ ~(active \ {r} \subseteq seen[r])
           /\ UNCHANGED <<active, status>> /\ l = AfterRaise(r)
  <2>1. r \notin active
    BY <1>0, <1>6 DEF OneActive
  <2>2. RunInv(r)' /\ OneActive'
    BY <1>0, <1>2, <1>3, <1>6, <2>1
       DEF RunInv, ActiveInv, TrainInv, PublishInv, FailureInv, OneActive, Open, HasParent, AfterRaise, AfterScript, rest, InPrepare, InTrain, InPublish, InParent, Over,
     PrepareSteps, TrainSteps, PublishSteps
  <2> QED
    BY <1>0, <1>2, <1>3, <1>4, <1>6, <2>2, RunStep DEF rest
<1> QED
  BY <1>1, <1>5, <1>6

LEMMA FailInactiveStep ==
  ASSUME Inv, NEW r \in Runs, FailInactive(r)
  PROVE  Inv'
<1>0. Typed /\ RunInv(r) /\ faults \in Nat /\ OneActive
  BY FaultsNat DEF Inv
<1>1. PICK l \in Pcs :
        Goto(r, l) /\ l = IF pc[r] = "rollback" THEN AfterScript(r, FALSE) ELSE "exit_bad"
  <2>1. "exit_bad" \in Pcs
    BY DEF Pcs, Over
  <2> QED
    BY <1>0, <2>1, NextPlace DEF FailInactive
<1>2. /\ pc[r] \in {"rollback", "fail_inactive"}
      /\ status' = [status EXCEPT ![r] = "failed"] /\ active' = active \ {r}
      /\ UNCHANGED <<flag, snaps, skipped, cancelBefore, seen, rest, faults>>
  BY DEF FailInactive
<1>3. /\ pc'[r] = l /\ pc' \in [Runs -> Pcs] /\ entered' \in SUBSET Runs
      /\ \A q \in Runs \ {r} : pc'[q] = pc[q]
  BY <1>0, <1>1, GotoType
<1>4. Typed'
  BY <1>0, <1>2, <1>3 DEF Typed, Statuses, rest
<1>5. RunInv(r)' /\ OneActive'
  BY <1>0, <1>1, <1>2, <1>3
     DEF Typed, RunInv, ActiveInv, TrainInv, PublishInv, FailureInv, OneActive, Open, HasParent, AfterScript, rest, InPrepare, InTrain, InPublish, InParent, Over,
     PrepareSteps, TrainSteps, PublishSteps
<1> QED
  BY <1>0, <1>2, <1>3, <1>4, <1>5, RunStep DEF Typed, rest

\* The clean-up, time and the restart of the API process.
LEMMA CleanupStep ==
  ASSUME Inv, Cleanup \/ UiRestart \/ \E r \in Runs : Age(r)
  PROVE  Inv'
<1>0. Typed /\ faults \in Nat /\ OneActive /\ \A r \in Runs : RunInv(r)
  BY FaultsNat DEF Inv
<1>1. CASE CleanupKill
  <2>1. /\ \A r \in Runs : pc'[r] = pc[r] \/ pc'[r] = "dead"
        /\ pc' \in [Runs -> Pcs] /\ entered' \in SUBSET Runs
        /\ orphan' \in SUBSET Runs /\ orphan \subseteq orphan' /\ sweeping' \in BOOLEAN
        /\ UNCHANGED <<row, cancelBefore, seen, tracked, pidSaved, old, faults>>
    <3>1. "dead" \in Pcs
      BY DEF Pcs, Over
    <3> QED
      BY <1>0, <1>1, <3>1 DEF CleanupKill, Typed, Stale
  <2>2. Typed'
    BY <1>0, <2>1 DEF Typed, row
  <2>3. \A r \in Runs : RunInv(r)'
    BY <1>0, <2>1 DEF RunInv, ActiveInv, TrainInv, PublishInv, FailureInv, Open, HasParent, AfterActivation, row, InPrepare, InTrain, InPublish, InParent, Over,
     PrepareSteps, TrainSteps, PublishSteps
  <2> QED
    BY <1>0, <2>1, <2>2, <2>3 DEF Inv, OneActive, row
<1>2. CASE CleanupMark
  <2>1. /\ \A r \in Runs : \/ status'[r] = status[r]
                           \/ status[r] = "running" /\ status'[r] = "failed"
        /\ status' \in [Runs -> Statuses] /\ sweeping' \in BOOLEAN
        /\ UNCHANGED <<active, flag, snaps, skipped, script, tracked, pidSaved, orphan, old, faults>>
    BY <1>0, <1>2 DEF CleanupMark, Typed, Stale, Statuses
  <2>2. Typed'
    BY <1>0, <2>1 DEF Typed, script
  <2>3. \A r \in Runs : RunInv(r)'
    BY <1>0, <2>1 DEF RunInv, ActiveInv, TrainInv, PublishInv, FailureInv, Open, HasParent, script
  <2> QED
    BY <1>0, <2>1, <2>2, <2>3 DEF Inv, OneActive
<1>3. CASE CleanupFails \/ UiRestart \/ \E r \in Runs : Age(r)
  <2>1. /\ UNCHANGED <<row, script, pidSaved, orphan>>
        /\ old' \in SUBSET Runs /\ sweeping' \in BOOLEAN /\ tracked' \in SUBSET Runs
        /\ faults' \in 0..MaxFaults /\ faults <= faults' /\ faults' \in Nat
    <3>1. CASE CleanupFails
      <4>1. /\ UNCHANGED <<row, script, tracked, pidSaved, orphan, old>> /\ sweeping' = FALSE
            /\ faults < MaxFaults /\ faults' = faults + 1
        BY <3>1 DEF CleanupFails
      <4>2. faults' \in 0..MaxFaults /\ faults <= faults' /\ faults' \in Nat
        BY <1>0, <4>1, MaxFaultsAssumption
      <4> QED
        BY <1>0, <4>1, <4>2 DEF Typed
    <3>2. CASE UiRestart
      BY <1>0, <3>2 DEF UiRestart, Typed
    <3>3. CASE \E r \in Runs : Age(r)
      BY <1>0, <3>3 DEF Age, Typed
    <3> QED
      BY <1>3, <3>1, <3>2, <3>3
  <2>2. Typed'
    BY <1>0, <2>1 DEF Typed, row, script
  <2>3. \A r \in Runs : RunInv(r)'
    BY <1>0, <2>1, OthersKeep DEF row, script
  <2> QED
    BY <1>0, <2>1, <2>2, <2>3 DEF Inv, OneActive, row
<1> QED
  BY <1>1, <1>2, <1>3 DEF Cleanup

LEMMA StutterStep == ASSUME Inv, UNCHANGED vars PROVE Inv'
<1>0. Typed /\ faults \in Nat
  BY FaultsNat DEF Inv
<1>1. Typed' /\ OneActive'
  BY DEF Inv, Typed, OneActive, vars
<1>2. \A r \in Runs : RunInv(r)'
  BY <1>0, OthersKeep DEF Inv, vars
<1> QED
  BY <1>1, <1>2 DEF Inv

LEMMA NextInv == Inv /\ [Next]_vars => Inv'
<1> SUFFICES ASSUME Inv, [Next]_vars PROVE Inv'
  OBVIOUS
<1>1. ASSUME NEW r \in Runs, Script(r) PROVE Inv'
  BY <1>1, PrepareStep, EnterStepStep, SnapshotStep, FinishStep, DowngradeStep, ActivateStep,
     FailInactiveStep, FaultStep DEF Script, Train
<1> QED
  BY <1>1, ApiStep, CleanupStep, StutterStep DEF Next

\* Inv is inductive.
THEOREM InvTheorem == Spec => []Inv
BY InitInv, NextInv, PTL DEF Spec

-----------------------------------------------------------------------------
\* Every variable has its type, whatever runs, cancellations and clean-ups
\* interleave (01 to 04 of scripts/discount_model, the admin API, the daemon).
THEOREM TypeTheorem == Spec => []TypeOK
<1>1. Inv => TypeOK
  BY DEF Inv, Typed, TypeOK, Statuses
<1> QED
  BY <1>1, InvTheorem, PTL

\* At most one version is active and it has its three snapshots: the readers'
\* join finds them (activate_version and finish_pipeline_run of 03).
THEOREM ActiveTheorem == Spec => []ActiveIsComplete
<1>1. ASSUME Inv PROVE ActiveIsComplete
  <2>1. active = {} \/ \E x : active = {x}
    BY <1>1 DEF Inv, OneActive
  <2>2. Cardinality(active) <= 1
    <3>1. Cardinality(active) = 0 \/ Cardinality(active) = 1
      BY <2>1, FS_EmptySet, FS_Singleton
    <3> QED
      BY <3>1
  <2>3. \A r \in active : snaps[r] = SnapshotKinds
    BY <1>1 DEF Inv, Typed, RunInv, ActiveInv
  <2> QED
    BY <2>2, <2>3 DEF ActiveIsComplete
<1> QED
  BY <1>1, InvTheorem, PTL

\* A cancellation that was accepted keeps the run from ever being the active
\* version (the POST of cancel against the steps of 03).
THEOREM CancelTheorem == Spec => []CancelledIsNotPublished
<1>1. Inv => CancelledIsNotPublished
  BY DEF Inv, Typed, RunInv, ActiveInv, CancelledIsNotPublished
<1> QED
  BY <1>1, InvTheorem, PTL

\* A full run that ended with an error is recorded as failed and is not active, as
\* long as no more than two database calls failed: 04 tries three times.
THEOREM FailureTheorem == MaxFaults <= 2 => (Spec => []FailureIsRecorded)
<1> SUFFICES ASSUME MaxFaults <= 2 PROVE Spec => []FailureIsRecorded
  OBVIOUS
<1>1. ASSUME Inv PROVE FailureIsRecorded
  <2>1. ~(faults >= 3)
    BY <1>1, MaxFaultsAssumption DEF Inv, Typed
  <2> QED
    BY <1>1, <2>1 DEF Inv, RunInv, FailureInv, FailureIsRecorded
<1> QED
  BY <1>1, InvTheorem, PTL

\* Without a failing database call a version is only ever replaced, never
\* withdrawn, whatever is cancelled, killed or published at once.
THEOREM SwitchTheorem == Spec => SwitchKeepsActive
<1>1. ASSUME Inv, [Next]_vars, active # {}, faults' = 0
      PROVE  active' # {}
  <2> SUFFICES ASSUME active' # active PROVE active' # {}
    BY <1>1
  <2>0. Typed /\ faults \in Nat
    BY <1>1, FaultsNat DEF Inv
  <2>1. PICK r \in Runs : Activate(r) \/ FailInactive(r)
    BY <1>1 DEF Next, Api, Start, SpawnFails, PersistPid, ForgetPid, Cancel, Script, CreateRow,
       ReadCancel, EnterStep, Prepare, WriteSnapshot, FinishPrepare, FinishAs, Train, Fit,
       FinishTrain, Validate, Downgrade, RecordFailure, Fault, Age, UiRestart, Cleanup,
       CleanupKill, CleanupMark, CleanupFails, row, vars
  <2>2. CASE Activate(r)
    BY <2>2 DEF Activate
  <2>3. CASE FailInactive(r)
    <3>1. faults = 0 /\ active' = active \ {r} /\ pc[r] \in {"rollback", "fail_inactive"}
      BY <1>1, <2>3 DEF FailInactive
    <3>2. r \notin active
      BY <1>1, <3>1 DEF Inv, RunInv, ActiveInv
    <3> QED
      BY <1>1, <3>1, <3>2
  <2> QED
    BY <2>1, <2>2, <2>3
<1>2. Inv /\ [Next]_vars => [active # {} /\ faults' = 0 => active' # {}]_vars
  BY <1>1
<1> QED
  BY <1>2, InvTheorem, PTL DEF Spec, SwitchKeepsActive
=============================================================================
