------------------------- MODULE NotificationSweep -------------------------
(***************************************************************************)
(* The notification sweeps: the jobs of the scheduler daemon               *)
(* (scripts/wdg_scheduler_daemon.py), the command they call                *)
(* (run_notification_sweep.py) and the checks it makes of every brand's    *)
(* data (notification_sweep.py).                                           *)
(*                                                                         *)
(* The jobs are threads of one process: each writes its arguments to       *)
(* sys.argv and lets main parse them.  A sweep has one connection; every   *)
(* query, upsert and resolve is a step.  A statement that fails leaves the *)
(* transaction aborted: nothing rolls it back, so whatever the sweep sends *)
(* next fails too.                                                         *)
(*                                                                         *)
(* The row of ops.notification_schedule_run is 'running' from Begin on;    *)
(* Finish makes it 'success', RecordFailure 'failed', any other end of the *)
(* run leaves it.  No step reads it, so it is not a variable.              *)
(***************************************************************************)
EXTENDS Naturals, Sequences

CONSTANTS
    Jobs,        \* enabled rows of notification_schedule, named by their task
    Known,       \* brands of BRAND_SOURCE_MAP
    Filter,      \* Filter[j]: the brands of the row, in order
    Dups,        \* pattern hashes that can have duplicate rules
    MaxDay,      \* bound: days
    MaxFaults    \* bound: failed statements and exits of the daemon

\* What a task looks at, and what its first query for a brand is about.
KindsOf(t) == CASE t = "data_stale" -> {"qimai", "bank"}
                [] t = "unmatched_txn" -> {"unmatched"}
                [] OTHER -> Dups
FirstCheck(t) == CASE t = "data_stale" -> "qimai"
                   [] t = "unmatched_txn" -> "unmatched"
                   [] OTHER -> "dup"
Kinds == UNION {KindsOf(j) : j \in Jobs}
Verdicts == {"fine", "bad", "empty"}

ASSUME SweepAssumption ==
    /\ Jobs \subseteq {"data_stale", "unmatched_txn", "dup_rule"}
    /\ \A j \in Jobs : Filter[j] \in Seq({Filter[j][i] : i \in DOMAIN Filter[j]}) \ {<< >>}
    /\ Dups \intersect {"qimai", "bank", "unmatched"} = {}
    /\ {MaxDay, MaxFaults} \subseteq Nat

VARIABLES
    day,       \* date.today()
    data,      \* what a query would find; "empty": no row at all
    active,    \* active notifications, by dedup_key
    argv,      \* sys.argv of the daemon: the job whose arguments it holds
    pc,        \* where a job's thread is
    run,       \* the sweep's locals: see Begin
    faults

env == <<day, data>>
vars == <<env, active, argv, pc, run, faults>>

Brand(j) == Filter[run[j].task][run[j].at]

\* A dedup_key names the day, except that of a duplicate rule.
Key(b, k, d) == <<b, k, IF k \in Dups THEN 0 ELSE d>>

\* The notifications a check raises and resolves.
Covers(j) == IF run[j].check = "dup" THEN Dups ELSE {run[j].check}

NoRun == [at |-> 0]

Init ==
    /\ day = 0
    /\ data = [bk \in Known \X Kinds |-> "fine"]
    /\ active = {}
    /\ argv \in Jobs
    /\ pc = [j \in Jobs |-> "idle"]
    /\ run = [j \in Jobs |-> NoRun]
    /\ faults = 0

Goto(j, l) == pc' = [pc EXCEPT ![j] = l]
Exit(j) == Goto(j, "idle") /\ run' = [run EXCEPT ![j] = NoRun]
Break == faults < MaxFaults /\ faults' = faults + 1

-----------------------------------------------------------------------------
(* A job of the daemon; one job runs at most once at a time.               *)

Fire(j) ==
    /\ pc[j] = "idle"
    /\ argv' = j
    /\ Goto(j, "fired")
    /\ UNCHANGED <<env, active, run, faults>>

\* main parses sys.argv, connects and commits the row of the run.  seen is a
\* history: what the queries of this run found.
Begin(j) ==
    /\ pc[j] = "fired"
    /\ Goto(j, "query")
    /\ run' = [run EXCEPT ![j] = [task |-> argv, at |-> 1, check |-> FirstCheck(argv), today |-> day,
                                  found |-> {}, aborted |-> FALSE, seen |-> {}]]
    /\ UNCHANGED <<env, active, argv, faults>>

BeginFails(j) ==
    /\ pc[j] = "fired" /\ Break
    /\ Exit(j)
    /\ UNCHANGED <<env, active, argv>>

-----------------------------------------------------------------------------
(* The checks, brand by brand: the last part of a step says where l, the   *)
(* locals it leaves, go on.                                                *)

NextBrand_Past(j, l) ==  \* mutant: off by one
    IF l.at <= Len(Filter[l.task])
    THEN Goto(j, "query") /\ run' = [run EXCEPT ![j] = [l EXCEPT !.at = @ + 1, !.check = FirstCheck(l.task)]]
    ELSE Goto(j, "finish") /\ run' = [run EXCEPT ![j] = l]
NextBrand(j, l) ==
    IF l.at < Len(Filter[l.task])
    THEN Goto(j, "query") /\ run' = [run EXCEPT ![j] = [l EXCEPT !.at = @ + 1, !.check = FirstCheck(l.task)]]
    ELSE Goto(j, "finish") /\ run' = [run EXCEPT ![j] = l]
NextCheck(j, l) ==
    IF l.check = "qimai"
    THEN Goto(j, "query") /\ run' = [run EXCEPT ![j] = [l EXCEPT !.check = "bank"]]
    ELSE NextBrand(j, l)
Continue(j, pcl, l) == Goto(j, pcl) /\ run' = [run EXCEPT ![j] = l]

\* BRAND_SOURCE_MAP[brand] of a brand it lacks.
LookupFails(j) ==
    /\ pc[j] = "query" /\ Brand(j) \notin Known
    /\ Goto(j, "except")
    /\ UNCHANGED <<env, active, argv, run, faults>>

\* An empty sales table ends the work for the brand.
Query(j) ==
    /\ pc[j] = "query" /\ Brand(j) \in Known /\ ~ run[j].aborted
    /\ LET ks == Covers(j)
           l == [run[j] EXCEPT !.found = {k \in ks : data[<<Brand(j), k>>] = "bad"},
                               !.seen = @ \union {<<Brand(j), k, data[<<Brand(j), k>>]>> : k \in ks}]
       IN IF run[j].check = "qimai" /\ data[<<Brand(j), "qimai">>] = "empty"
          THEN NextBrand(j, l) ELSE Continue(j, "act", l)
    /\ UNCHANGED <<env, active, argv, faults>>

\* A statement raises: on an aborted transaction always.
Raises(j) == IF run[j].aborted THEN UNCHANGED faults ELSE Break

\* The sweep swallows the error of a query and goes on to the next brand, or as
\* if the query had found nothing.
Swallow(j, l) ==
    IF run[j].check \in {"qimai", "dup"} THEN NextBrand(j, l) ELSE Continue(j, "act", l)

QueryFails_RolledBack(j) ==  \* mutant: conn.rollback() in the handler
    /\ pc[j] = "query" /\ Brand(j) \in Known
    /\ Raises(j)
    /\ Swallow(j, run[j])
    /\ UNCHANGED <<env, active, argv>>
QueryFails(j) ==
    /\ pc[j] = "query" /\ Brand(j) \in Known
    /\ Raises(j)
    /\ Swallow(j, [run[j] EXCEPT !.aborted = TRUE])
    /\ UNCHANGED <<env, active, argv>>

\* upsert_notification, one commit each.
Upsert(j) ==
    /\ pc[j] = "act" /\ ~ run[j].aborted
    /\ \E k \in run[j].found :
          LET l == [run[j] EXCEPT !.found = @ \ {k}] IN
          /\ active' = active \union {Key(Brand(j), k, l.today)}
          /\ IF l.found = {} THEN NextCheck(j, l) ELSE Continue(j, "act", l)
    /\ UNCHANGED <<env, argv, faults>>

\* resolve_notification_by_dedup_prefix: the notifications of every day.
Resolve_Brand(j) ==  \* mutant: the prefix ends with the brand
    /\ pc[j] = "act" /\ ~ run[j].aborted /\ run[j].found = {}
    /\ active' = {n \in active : ~ (n[1] = Brand(j) /\ n[2] \in KindsOf(run[j].task))}
    /\ NextCheck(j, run[j])
    /\ UNCHANGED <<env, argv, faults>>
Resolve(j) ==
    /\ pc[j] = "act" /\ ~ run[j].aborted /\ run[j].found = {}
    /\ active' = {n \in active : ~ (n[1] = Brand(j) /\ n[2] \in Covers(j))}
    /\ NextCheck(j, run[j])
    /\ UNCHANGED <<env, argv, faults>>

\* The statement of an upsert, of a resolve or of Finish raises.
Raise(j) ==
    /\ pc[j] \in {"act", "finish"}
    /\ Raises(j)
    /\ Continue(j, "except", [run[j] EXCEPT !.aborted = TRUE])
    /\ UNCHANGED <<env, active, argv>>

Finish(j) ==
    /\ pc[j] = "finish" /\ ~ run[j].aborted
    /\ Exit(j)
    /\ UNCHANGED <<env, active, argv, faults>>

\* main's handler writes 'failed' through the same connection; when that raises
\* the job ends and the row stays 'running'.
RecordFailure(j) ==
    /\ pc[j] = "except"
    /\ UNCHANGED faults \/ Raises(j)
    /\ Exit(j)
    /\ UNCHANGED <<env, active, argv>>

-----------------------------------------------------------------------------
(* Users, uploads, midnight, systemd.                                      *)

Dismiss(n) ==
    /\ active' = active \ {n}
    /\ UNCHANGED <<env, argv, pc, run, faults>>

Change(b, k) ==
    /\ \E v \in IF k = "qimai" THEN Verdicts ELSE Verdicts \ {"empty"} :
          v # data[<<b, k>>] /\ data' = [data EXCEPT ![<<b, k>>] = v]
    /\ UNCHANGED <<day, active, argv, pc, run, faults>>

Midnight ==
    /\ day < MaxDay
    /\ day' = day + 1
    /\ UNCHANGED <<data, active, argv, pc, run, faults>>

Crash ==
    /\ Break
    /\ pc' = [j \in Jobs |-> "idle"] /\ run' = [j \in Jobs |-> NoRun]
    /\ UNCHANGED <<env, active, argv>>

Step(j) ==
    \/ LookupFails(j) \/ Query(j) \/ QueryFails(j) \/ Upsert(j) \/ Resolve(j)
    \/ Raise(j) \/ Finish(j) \/ RecordFailure(j)

Next ==
    \/ \E j \in Jobs : Fire(j) \/ Begin(j) \/ BeginFails(j) \/ Step(j)
    \/ \E n \in active : Dismiss(n)
    \/ \E b \in Known, k \in Kinds : Change(b, k)
    \/ Midnight \/ Crash

Spec == Init /\ [][Next]_vars

-----------------------------------------------------------------------------
(* Type invariant.                                                         *)
Locals == [task : Jobs, at : Nat, check : {"qimai", "bank", "unmatched", "dup"}, today : 0..MaxDay,
           found : SUBSET Kinds, aborted : BOOLEAN, seen : SUBSET (Known \X Kinds \X Verdicts)]
TypeOK ==
    /\ day \in 0..MaxDay
    /\ data \in [Known \X Kinds -> Verdicts]
    /\ active \subseteq {Key(b, k, d) : b \in Known, k \in Kinds, d \in 0..day}
    /\ argv \in Jobs
    /\ pc \in [Jobs -> {"idle", "fired", "query", "act", "finish", "except"}]
    /\ \A j \in Jobs : IF pc[j] \in {"idle", "fired"} THEN run[j] = NoRun
                       ELSE /\ run[j] \in Locals /\ run[j].at \in DOMAIN Filter[run[j].task]
                            /\ run[j].found \subseteq Covers(j)
    /\ faults \in 0..MaxFaults

\* A run about to be recorded as a success has queried everything its task
\* looks at, though the sweep swallows the errors of its queries; the bank
\* statement of a brand without any sales is the one thing it passes over.
SuccessIsComplete ==
    \A j \in Jobs : pc[j] = "finish" /\ ~ run[j].aborted =>
        \A i \in DOMAIN Filter[run[j].task], k \in KindsOf(run[j].task) :
            LET b == Filter[run[j].task][i] IN
            \/ \E v \in Verdicts : <<b, k, v>> \in run[j].seen
            \/ k = "bank" /\ <<b, "qimai", "empty">> \in run[j].seen

\* A sweep takes a notification away only after its own query found that very
\* thing in order: not when the query failed, nor for another kind or brand.
ResolvedWasFine ==
    [][\A j \in Jobs : pc[j] = "act" /\ pc'[j] # "act" =>
          \A n \in active \ active' : <<n[1], n[2], "fine">> \in run[j].seen]_vars
=============================================================================
