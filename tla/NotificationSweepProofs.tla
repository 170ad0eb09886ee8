----------------------- MODULE NotificationSweepProofs ------------------------
(* What a notification sweep has looked at when it is recorded as a success, and
   what it found before it takes a notification away, for any brands, filters and
   jobs and any number of failing statements.                                   *)
EXTENDS NotificationSweep, TLAPS

(* The checks a task makes of a brand, and what one of them covers.             *)
ChecksOf(t) == IF t = "data_stale" THEN {"qimai", "bank"}
               ELSE IF t = "unmatched_txn" THEN {"unmatched"} ELSE {"dup"}
CoversOf(c) == IF c = "dup" THEN Dups ELSE {c}
BrandOf(l) == Filter[l.task][l.at]

(* The queries of a run have answered for kind k of brand b.                    *)
Answered(l, b, k) ==
    \/ \E v \in Verdicts : <<b, k, v>> \in l.seen
    \/ k = "bank" /\ <<b, "qimai", "empty">> \in l.seen

(* The first n brands of its filter are done.                                   *)
Past(l, n) ==
    \A i \in DOMAIN Filter[l.task], k \in KindsOf(l.task) :
        i <= n => Answered(l, Filter[l.task][i], k)

(* The locals of a run fit the place it is at.  An aborted transaction stays
   aborted, so that only the runs that are not aborted need to be complete.     *)
Located(l) ==
    /\ l \in Locals /\ l.at \in DOMAIN Filter[l.task]
    /\ l.check \in ChecksOf(l.task) /\ l.found \subseteq CoversOf(l.check)
Queries(l) ==
    /\ l.found = {}
    /\ ~ l.aborted => /\ Past(l, l.at - 1)
                      /\ l.check = "bank" => Answered(l, BrandOf(l), "qimai")
Acts(l) ==
    /\ BrandOf(l) \in Known
    /\ ~ l.aborted =>
         /\ Past(l, l.at - 1)
         /\ l.check = "bank" => Answered(l, BrandOf(l), "qimai")
         /\ \A k \in CoversOf(l.check) : Answered(l, BrandOf(l), k)
         /\ l.found = {} => \A k \in CoversOf(l.check) : <<BrandOf(l), k, "fine">> \in l.seen
Finishes(l) == ~ l.aborted => Past(l, l.at) /\ l.at = Len(Filter[l.task])
Fits(p, l) ==
    \/ p \in {"idle", "fired"} /\ l = NoRun
    \/ /\ p \in {"query", "act", "finish", "except"} /\ Located(l)
       /\ p = "query" => Queries(l)
       /\ p = "act" => Acts(l)
       /\ p = "finish" => Finishes(l)

Places == {"idle", "fired", "query", "act", "finish", "except"}
Typed ==
    /\ day \in 0..MaxDay
    /\ data \in [Known \X Kinds -> Verdicts]
    /\ \A b \in Known, k \in Kinds : data[<<b, k>>] = "empty" => k = "qimai"
    /\ \A n \in active : \E b \in Known, k \in Kinds, d \in 0..day : n = Key(b, k, d)
    /\ argv \in Jobs
    /\ pc \in [Jobs -> Places] /\ run \in [Jobs -> Locals \union {NoRun}]
    /\ faults \in 0..MaxFaults

Inv ==
    /\ Typed
    /\ \A j \in Jobs : Fits(pc[j], run[j])
    /\ \A j \in Jobs : pc[j] \notin {"idle", "fired"} => run[j].today <= day

-----------------------------------------------------------------------------
(* What each task looks at.                                                     *)
LEMMA Tasks ==
    ASSUME NEW t \in Jobs
    PROVE  /\ t = "data_stale" => KindsOf(t) = {"qimai", "bank"} /\ FirstCheck(t) = "qimai"
           /\ t = "unmatched_txn" => KindsOf(t) = {"unmatched"} /\ FirstCheck(t) = "unmatched"
           /\ t = "dup_rule" => KindsOf(t) = Dups /\ FirstCheck(t) = "dup"
           /\ t \in {"data_stale", "unmatched_txn", "dup_rule"}
           /\ FirstCheck(t) \in ChecksOf(t) /\ FirstCheck(t) # "bank"
           /\ KindsOf(t) \subseteq Kinds
           /\ Len(Filter[t]) \in Nat \ {0} /\ DOMAIN Filter[t] = 1 .. Len(Filter[t])
<1>1. t \in {"data_stale", "unmatched_txn", "dup_rule"}
  BY SweepAssumption
<1>2. /\ t = "data_stale" => KindsOf(t) = {"qimai", "bank"} /\ FirstCheck(t) = "qimai"
      /\ t = "unmatched_txn" => KindsOf(t) = {"unmatched"} /\ FirstCheck(t) = "unmatched"
      /\ t = "dup_rule" => KindsOf(t) = Dups /\ FirstCheck(t) = "dup"
  BY <1>1 DEF KindsOf, FirstCheck
<1>3. FirstCheck(t) \in ChecksOf(t) /\ FirstCheck(t) # "bank"
  BY <1>1, <1>2 DEF ChecksOf
<1>4. KindsOf(t) \subseteq Kinds
  BY DEF Kinds
<1>5. Len(Filter[t]) \in Nat \ {0} /\ DOMAIN Filter[t] = 1 .. Len(Filter[t])
  <2>1. Filter[t] \in Seq({Filter[t][i] : i \in DOMAIN Filter[t]}) /\ Filter[t] # << >>
    BY SweepAssumption
  <2> QED
    BY <2>1
<1> QED
  BY <1>1, <1>2, <1>3, <1>4, <1>5

(* A check covers kinds of its task, and the last check of a task all of them
   that no earlier one covered.                                                 *)
LEMMA Checks ==
    ASSUME NEW t \in Jobs, NEW c \in ChecksOf(t)
    PROVE  /\ c \in {"qimai", "bank", "unmatched", "dup"}
           /\ CoversOf(c) \subseteq KindsOf(t)
           /\ c = "qimai" => "bank" \in ChecksOf(t)
           /\ c = "bank" => KindsOf(t) = CoversOf(c) \union {"qimai"}
           /\ c \notin {"qimai", "bank"} => KindsOf(t) = CoversOf(c)
           /\ c = "dup" <=> t = "dup_rule"
           /\ c = "qimai" => t = "data_stale"
BY Tasks DEF ChecksOf, CoversOf

LEMMA CoversIs == \A j \in Jobs : Covers(j) = CoversOf(run[j].check)
BY DEF Covers, CoversOf

(* A step of one job.                                                           *)
LEMMA StepInv ==
    ASSUME Inv, NEW j \in Jobs, UNCHANGED env, argv' \in Jobs, faults' \in 0..MaxFaults,
           \A n \in active' : \E b \in Known, k \in Kinds, d \in 0..day : n = Key(b, k, d),
           NEW p, NEW l, pc' = [pc EXCEPT ![j] = p], run' = [run EXCEPT ![j] = l],
           Fits(p, l), p \notin {"idle", "fired"} => l.today <= day
    PROVE  Inv'
<1>1. Typed'
  <2>1. p \in Places /\ l \in Locals \union {NoRun}
    BY DEF Fits, Located, Places
  <2>2. pc' \in [Jobs -> Places] /\ run' \in [Jobs -> Locals \union {NoRun}]
    BY <2>1 DEF Inv, Typed
  <2> QED
    BY <2>2 DEF Inv, Typed, env
<1>2. pc'[j] = p /\ run'[j] = l /\ \A q \in Jobs \ {j} : pc'[q] = pc[q] /\ run'[q] = run[q]
  BY DEF Inv, Typed
<1>3. \A q \in Jobs : Fits(pc'[q], run'[q])
  BY <1>2 DEF Inv
<1>4. \A q \in Jobs : pc'[q] \notin {"idle", "fired"} => run'[q].today <= day'
  BY <1>2 DEF Inv, env
<1> QED
  BY <1>1, <1>3, <1>4 DEF Inv

(* A brand that is done: the sweep goes on with the next, or finishes.          *)
LEMMA NextBrandFits ==
    ASSUME NEW j \in Jobs, NEW l, Located(l), l.found = {}, NextBrand(j, l),
           l.aborted \/ Past(l, l.at)
    PROVE  \E p, m : /\ pc' = [pc EXCEPT ![j] = p] /\ run' = [run EXCEPT ![j] = m]
                     /\ p \in {"query", "finish"} /\ Fits(p, m) /\ m.today = l.today
<1>1. /\ l \in Locals /\ l.task \in Jobs /\ l.at \in DOMAIN Filter[l.task] /\ l.aborted \in BOOLEAN
      /\ Len(Filter[l.task]) \in Nat /\ DOMAIN Filter[l.task] = 1 .. Len(Filter[l.task])
      /\ l.at \in Nat
  BY Tasks DEF Located, Locals
<1>2. CASE l.at < Len(Filter[l.task])
  <2> DEFINE m == [l EXCEPT !.at = @ + 1, !.check = FirstCheck(l.task)]
  <2>1. pc' = [pc EXCEPT ![j] = "query"] /\ run' = [run EXCEPT ![j] = m]
    BY <1>2 DEF NextBrand, Goto
  <2>2. /\ m.at = l.at + 1 /\ m.task = l.task /\ m.found = {} /\ m.aborted = l.aborted
        /\ m.seen = l.seen /\ m.today = l.today /\ m.check = FirstCheck(l.task)
    BY <1>1 DEF Locals
  <2>3. m.check \in {"qimai", "bank", "unmatched", "dup"} /\ m.check \in ChecksOf(m.task)
        /\ m.check # "bank"
    BY <1>1, <2>2, Tasks, Checks
  <2>4. m \in Locals /\ m.at \in DOMAIN Filter[m.task]
    <3>1. l.at + 1 \in Nat /\ l.at + 1 \in 1 .. Len(Filter[l.task])
      BY <1>1, <1>2
    <3>2. FirstCheck(l.task) \in {"qimai", "bank", "unmatched", "dup"}
      BY <2>2, <2>3
    <3>3. m \in Locals
      BY <1>1, <3>1, <3>2 DEF Locals
    <3> HIDE DEF m
    <3> QED
      BY <1>1, <2>2, <3>1, <3>3
  <2>5. Located(m)
    BY <2>2, <2>3, <2>4 DEF Located
  <2>6. m.aborted \/ Past(m, m.at - 1)
    <3>1. m.at - 1 = l.at
      BY <1>1, <2>2
    <3> HIDE DEF m
    <3> QED
      BY <2>2, <3>1 DEF Past, Answered
  <2>7. Fits("query", m)
    <3> HIDE DEF m
    <3> QED
      BY <2>2, <2>3, <2>5, <2>6 DEF Fits, Queries
  <2> QED
    BY <2>1, <2>2, <2>7
<1>3. CASE ~ l.at < Len(Filter[l.task])
  <2>1. pc' = [pc EXCEPT ![j] = "finish"] /\ run' = [run EXCEPT ![j] = l]
    BY <1>3 DEF NextBrand, Goto
  <2>2. l.at = Len(Filter[l.task])
    BY <1>1, <1>3
  <2>3. Fits("finish", l)
    BY <2>2 DEF Fits, Finishes
  <2> QED
    BY <2>1, <2>3
<1> QED
  BY <1>2, <1>3

(* A check that is done.                                                        *)
LEMMA NextCheckFits ==
    ASSUME NEW j \in Jobs, NEW l, Located(l), l.found = {}, NextCheck(j, l), ~ l.aborted,
           Past(l, l.at - 1), l.check = "bank" => Answered(l, BrandOf(l), "qimai"),
           \A k \in CoversOf(l.check) : Answered(l, BrandOf(l), k)
    PROVE  \E p, m : /\ pc' = [pc EXCEPT ![j] = p] /\ run' = [run EXCEPT ![j] = m]
                     /\ p \in {"query", "finish"} /\ Fits(p, m) /\ m.today = l.today
<1>1. l \in Locals /\ l.task \in Jobs /\ l.at \in Nat /\ l.check \in ChecksOf(l.task)
      /\ l.at \in DOMAIN Filter[l.task] /\ DOMAIN Filter[l.task] = 1 .. Len(Filter[l.task])
      /\ Len(Filter[l.task]) \in Nat
  BY Tasks DEF Located, Locals
<1>2. CASE l.check = "qimai"
  <2> DEFINE m == [l EXCEPT !.check = "bank"]
  <2>1. pc' = [pc EXCEPT ![j] = "query"] /\ run' = [run EXCEPT ![j] = m]
    BY <1>2 DEF NextCheck, Goto
  <2>2. /\ m.at = l.at /\ m.task = l.task /\ m.found = {} /\ m.aborted = l.aborted
        /\ m.seen = l.seen /\ m.today = l.today /\ m.check = "bank" /\ m \in Locals
    BY <1>1 DEF Locals
  <2>3. "bank" \in ChecksOf(l.task)
    BY <1>1, <1>2, Checks
  <2>4. Answered(l, BrandOf(l), "qimai")
    BY <1>2 DEF CoversOf
  <2> HIDE DEF m
  <2>5. Located(m) /\ Queries(m)
    BY <1>1, <2>2, <2>3, <2>4 DEF Located, Queries, Past, Answered, BrandOf
  <2>6. Fits("query", m)
    BY <2>5 DEF Fits
  <2> QED
    BY <2>1, <2>2, <2>6
<1>3. CASE l.check # "qimai"
  <2>1. NextBrand(j, l)
    BY <1>3 DEF NextCheck
  <2>2. \A k \in KindsOf(l.task) : Answered(l, BrandOf(l), k)
    BY <1>1, <1>3, Checks
  <2>3. Past(l, l.at)
    <3> SUFFICES ASSUME NEW i \in DOMAIN Filter[l.task], NEW k \in KindsOf(l.task), i <= l.at
                 PROVE  Answered(l, Filter[l.task][i], k)
      BY DEF Past
    <3>1. CASE i = l.at
      BY <2>2, <3>1 DEF BrandOf
    <3>2. CASE i # l.at
      <4>1. i <= l.at - 1
        BY <1>1, <3>2
      <4> QED
        BY <4>1 DEF Past
    <3> QED
      BY <3>1, <3>2
  <2> QED
    BY <2>1, <2>3, NextBrandFits
<1> QED
  BY <1>2, <1>3

(* The locals of a run are left alone or only marked aborted.                   *)
LEMMA AbortedIsLocated ==
    ASSUME NEW l, Located(l)
    PROVE  LET m == [l EXCEPT !.aborted = TRUE]
           IN  /\ Located(m) /\ m.aborted /\ m.found = l.found /\ m.check = l.check
               /\ m.task = l.task /\ m.at = l.at /\ m.today = l.today /\ m.seen = l.seen
<1> DEFINE m == [l EXCEPT !.aborted = TRUE]
<1>1. /\ m.aborted /\ m.found = l.found /\ m.check = l.check
      /\ m.task = l.task /\ m.at = l.at /\ m.today = l.today /\ m.seen = l.seen /\ m \in Locals
  BY DEF Located, Locals
<1>2. Located(m)
  <2> HIDE DEF m
  <2> QED
    BY <1>1 DEF Located
<1> QED
  BY <1>1, <1>2

(* What is known of a job that has begun.                                       *)
LEMMA Begun ==
    ASSUME Inv, NEW j \in Jobs, pc[j] \notin {"idle", "fired"}
    PROVE  /\ Typed /\ Located(run[j]) /\ run[j].today <= day /\ run[j].today \in 0..MaxDay
           /\ run[j] \in Locals /\ run[j].task \in Jobs /\ run[j].check \in ChecksOf(run[j].task)
           /\ pc[j] = "query" => Queries(run[j])
           /\ pc[j] = "act" => Acts(run[j])
           /\ pc[j] = "finish" => Finishes(run[j])
           /\ Brand(j) = BrandOf(run[j]) /\ Covers(j) = CoversOf(run[j].check)
           /\ Covers(j) \subseteq Kinds
<1>1. Typed /\ Fits(pc[j], run[j]) /\ run[j].today <= day
  BY DEF Inv
<1>2. Located(run[j])
  BY <1>1 DEF Fits
<1>3. run[j] \in Locals /\ run[j].task \in Jobs /\ run[j].check \in ChecksOf(run[j].task)
      /\ run[j].today \in 0..MaxDay
  BY <1>2 DEF Located, Locals
<1>4. Covers(j) = CoversOf(run[j].check) /\ Covers(j) \subseteq Kinds
  BY <1>3, CoversIs, Checks, Tasks
<1> QED
  BY <1>1, <1>2, <1>3, <1>4 DEF Fits, Brand, BrandOf

LEMMA InitInv == Init => Inv
<1> SUFFICES ASSUME Init PROVE Inv
  OBVIOUS
<1>1. Typed
  BY SweepAssumption DEF Init, Typed, Verdicts, Places
<1> QED
  BY <1>1 DEF Init, Inv, Fits

LEMMA StutterInv == Inv /\ UNCHANGED vars => Inv'
<1> SUFFICES ASSUME Inv, UNCHANGED vars PROVE Inv'
  OBVIOUS
<1>1. Typed'
  BY DEF vars, env, Inv, Typed
<1> QED
  BY <1>1 DEF vars, env, Inv

(* The job of the daemon.                                                       *)
LEMMA JobStep ==
    ASSUME Inv, NEW j \in Jobs, Fire(j) \/ Begin(j) \/ BeginFails(j)
    PROVE  Inv'
<1>1. Typed /\ MaxFaults \in Nat
  BY SweepAssumption DEF Inv
<1>2. CASE Fire(j)
  <2>1. run[j] = NoRun /\ run' = [run EXCEPT ![j] = run[j]]
    BY <1>1, <1>2 DEF Inv, Typed, Fire, Fits
  <2>2. Fits("fired", run[j])
    BY <2>1 DEF Fits
  <2> QED
    BY <1>1, <1>2, <2>1, <2>2, StepInv DEF Fire, Goto, Typed
<1>3. CASE Begin(j)
  <2> DEFINE l == [task |-> argv, at |-> 1, check |-> FirstCheck(argv), today |-> day,
                   found |-> {}, aborted |-> FALSE, seen |-> {}]
  <2>1. pc' = [pc EXCEPT ![j] = "query"] /\ run' = [run EXCEPT ![j] = l]
        /\ UNCHANGED <<env, active, argv, faults>>
    BY <1>3 DEF Begin, Goto
  <2>2. /\ l.task = argv /\ l.at = 1 /\ l.check = FirstCheck(argv) /\ l.today = day /\ l.found = {}
        /\ l.seen = {} /\ argv \in Jobs /\ day \in 0..MaxDay /\ ~ l.aborted
    BY <1>1 DEF Typed
  <2>3. /\ FirstCheck(argv) \in ChecksOf(argv) /\ FirstCheck(argv) # "bank"
        /\ DOMAIN Filter[argv] = 1 .. Len(Filter[argv]) /\ Len(Filter[argv]) \in Nat \ {0}
    BY <2>2, Tasks
  <2>4. FirstCheck(argv) \in {"qimai", "bank", "unmatched", "dup"}
    BY <2>2, <2>3, Checks
  <2>5. l \in Locals
    BY <2>2, <2>4 DEF Locals
  <2> HIDE DEF l
  <2>6. Located(l)
    BY <2>2, <2>3, <2>5 DEF Located
  <2>7. Queries(l)
    <3>1. Past(l, 0)
      BY <2>2, <2>3 DEF Past
    <3>2. l.at - 1 = 0
      BY <2>2
    <3> QED
      BY <2>2, <2>3, <3>1, <3>2 DEF Queries
  <2>8. Fits("query", l)
    BY <2>6, <2>7 DEF Fits
  <2>9. l.today <= day
    BY <1>1, <2>2 DEF Typed
  <2> QED
    BY <1>1, <2>1, <2>8, <2>9, StepInv DEF Typed
<1>4. CASE BeginFails(j)
  <2>1. faults' \in 0..MaxFaults
    BY <1>1, <1>4 DEF BeginFails, Break, Typed
  <2>2. Fits("idle", NoRun)
    BY DEF Fits
  <2> QED
    BY <1>1, <1>4, <2>1, <2>2, StepInv DEF BeginFails, Exit, Goto, Typed
<1> QED
  BY <1>2, <1>3, <1>4

(* Ends of a run.                                                               *)
LEMMA EndStep ==
    ASSUME Inv, NEW j \in Jobs, LookupFails(j) \/ Raise(j) \/ Finish(j) \/ RecordFailure(j)
    PROVE  Inv'
<1>1. Typed /\ MaxFaults \in Nat
  BY SweepAssumption DEF Inv
<1>2. faults' \in 0..MaxFaults
  BY <1>1 DEF LookupFails, Raise, Finish, RecordFailure, Raises, Break, Typed
<1>3. Fits("idle", NoRun)
  BY DEF Fits
<1>4. CASE LookupFails(j)
  <2>1. pc[j] = "query" /\ run' = [run EXCEPT ![j] = run[j]]
    BY <1>1, <1>4 DEF LookupFails, Typed
  <2>2. Located(run[j]) /\ run[j].today <= day
    BY <2>1, Begun
  <2>3. Fits("except", run[j])
    BY <2>2 DEF Fits
  <2> QED
    BY <1>1, <1>2, <1>4, <2>1, <2>2, <2>3, StepInv DEF LookupFails, Goto, Typed
<1>5. CASE Raise(j)
  <2> DEFINE m == [run[j] EXCEPT !.aborted = TRUE]
  <2>1. Located(run[j]) /\ run[j].today <= day
    BY <1>5, Begun DEF Raise
  <2>2. Located(m) /\ m.today <= day
    BY <2>1, AbortedIsLocated
  <2>3. run' = [run EXCEPT ![j] = m] /\ pc' = [pc EXCEPT ![j] = "except"]
    BY <1>5 DEF Raise, Continue, Goto
  <2> HIDE DEF m
  <2>4. Fits("except", m)
    BY <2>2 DEF Fits
  <2> QED
    BY <1>1, <1>2, <1>5, <2>2, <2>3, <2>4, StepInv DEF Raise, Typed
<1>6. CASE Finish(j) \/ RecordFailure(j)
  BY <1>1, <1>2, <1>3, <1>6, StepInv DEF Finish, RecordFailure, Exit, Goto, Typed
<1> QED
  BY <1>4, <1>5, <1>6

LEMMA UpsertStep ==
    ASSUME Inv, NEW j \in Jobs, Upsert(j)
    PROVE  Inv'
<1>1. /\ Located(run[j]) /\ run[j].today <= day /\ run[j].today \in 0..MaxDay /\ Acts(run[j])
      /\ run[j] \in Locals /\ Covers(j) = CoversOf(run[j].check) /\ Brand(j) = BrandOf(run[j])
      /\ Typed /\ ~ run[j].aborted
      /\ UNCHANGED <<env, argv, faults>>
  BY Begun DEF Upsert
<1>2. PICK k \in run[j].found :
        LET l == [run[j] EXCEPT !.found = @ \ {k}] IN
          /\ active' = active \union {Key(Brand(j), k, l.today)}
          /\ IF l.found = {} THEN NextCheck(j, l) ELSE Continue(j, "act", l)
  BY DEF Upsert
<1> DEFINE l == [run[j] EXCEPT !.found = @ \ {k}]
<1>3. /\ l \in Locals /\ l.task = run[j].task /\ l.at = run[j].at /\ l.check = run[j].check
      /\ l.today = run[j].today /\ l.found = run[j].found \ {k} /\ l.aborted = run[j].aborted
      /\ l.seen = run[j].seen
  BY <1>1 DEF Locals
<1>4. active' = active \union {Key(Brand(j), k, run[j].today)}
      /\ IF l.found = {} THEN NextCheck(j, l) ELSE Continue(j, "act", l)
  BY <1>2, <1>3
<1> HIDE DEF l
<1>5. /\ Located(l) /\ BrandOf(l) \in Known /\ Past(l, l.at - 1)
      /\ l.check = "bank" => Answered(l, BrandOf(l), "qimai")
      /\ \A c \in CoversOf(l.check) : Answered(l, BrandOf(l), c)
  <2>1. Located(l) /\ BrandOf(l) \in Known /\ BrandOf(l) = BrandOf(run[j])
    BY <1>1, <1>3 DEF Located, Acts, BrandOf
  <2>2. \A b, c : Answered(l, b, c) <=> Answered(run[j], b, c)
    BY <1>3 DEF Answered
  <2>3. Past(run[j], run[j].at - 1)
    BY <1>1 DEF Acts
  <2>4. Past(l, l.at - 1)
    BY <1>3, <2>2, <2>3 DEF Past
  <2> QED
    BY <1>1, <1>3, <2>1, <2>2, <2>4 DEF Acts
<1>6. \A n \in active' : \E b \in Known, c \in Kinds, d \in 0..day : n = Key(b, c, d)
  <2>1. k \in Kinds /\ Brand(j) \in Known /\ run[j].today \in 0..day
    BY <1>1 DEF Acts, Locals, Typed
  <2>2. \A n \in active : \E b \in Known, c \in Kinds, d \in 0..day : n = Key(b, c, d)
    BY <1>1 DEF Typed
  <2>3. ASSUME NEW n \in active', n \notin active
        PROVE  \E b \in Known, c \in Kinds, d \in 0..day : n = Key(b, c, d)
    <3>1. n = Key(Brand(j), k, run[j].today)
      BY <1>4, <2>3
    <3> QED
      BY <2>1, <3>1
  <2> QED
    BY <2>2, <2>3
<1>7. CASE l.found = {}
  <2>1. \E p, m : /\ pc' = [pc EXCEPT ![j] = p] /\ run' = [run EXCEPT ![j] = m]
                  /\ p \in {"query", "finish"} /\ Fits(p, m) /\ m.today = l.today
    BY <1>1, <1>3, <1>4, <1>5, <1>7, NextCheckFits
  <2> QED
    BY <1>1, <1>3, <1>6, <2>1, StepInv DEF Typed
<1>8. CASE l.found # {}
  <2>1. pc' = [pc EXCEPT ![j] = "act"] /\ run' = [run EXCEPT ![j] = l]
    BY <1>4, <1>8 DEF Continue, Goto
  <2>2. Fits("act", l)
    BY <1>5, <1>8 DEF Fits, Acts
  <2> QED
    BY <1>1, <1>3, <1>6, <2>1, <2>2, StepInv DEF Typed
<1> QED
  BY <1>7, <1>8

LEMMA ResolveStep ==
    ASSUME Inv, NEW j \in Jobs, Resolve(j)
    PROVE  Inv'
<1>1. /\ Located(run[j]) /\ run[j].today <= day /\ Acts(run[j]) /\ Typed
      /\ ~ run[j].aborted /\ run[j].found = {} /\ NextCheck(j, run[j])
      /\ UNCHANGED <<env, argv, faults>>
  BY Begun DEF Resolve
<1>2. \E p, m : /\ pc' = [pc EXCEPT ![j] = p] /\ run' = [run EXCEPT ![j] = m]
                /\ p \in {"query", "finish"} /\ Fits(p, m) /\ m.today = run[j].today
  <2>1. /\ Past(run[j], run[j].at - 1)
        /\ run[j].check = "bank" => Answered(run[j], BrandOf(run[j]), "qimai")
        /\ \A k \in CoversOf(run[j].check) : Answered(run[j], BrandOf(run[j]), k)
    BY <1>1 DEF Acts
  <2> QED
    BY <1>1, <2>1, NextCheckFits
<1>3. \A n \in active' : \E b \in Known, k \in Kinds, d \in 0..day : n = Key(b, k, d)
  BY <1>1 DEF Resolve, Typed
<1> QED
  BY <1>1, <1>2, <1>3, StepInv DEF Typed

(* A query that fails leaves an aborted run, which nothing has to be known of.  *)
LEMMA QueryFailsStep ==
    ASSUME Inv, NEW j \in Jobs, QueryFails(j)
    PROVE  Inv'
<1> DEFINE l == [run[j] EXCEPT !.aborted = TRUE]
<1>1. /\ Located(run[j]) /\ run[j].today <= day /\ Queries(run[j]) /\ Typed
      /\ Brand(j) = BrandOf(run[j]) /\ Brand(j) \in Known
      /\ UNCHANGED <<env, active, argv>>
  BY Begun DEF QueryFails
<1>2. /\ Located(l) /\ l.aborted /\ l.found = run[j].found /\ l.check = run[j].check
      /\ l.task = run[j].task /\ l.at = run[j].at /\ l.today = run[j].today
  BY <1>1, AbortedIsLocated
<1>3. faults' \in 0..MaxFaults
  BY <1>1, SweepAssumption DEF QueryFails, Raises, Break, Typed
<1>4. Swallow(j, l)
  BY DEF QueryFails
<1> HIDE DEF l
<1>5. l.found = {} /\ l.today <= day
  BY <1>1, <1>2 DEF Queries
<1>6. CASE run[j].check \in {"qimai", "dup"}
  <2>1. NextBrand(j, l)
    BY <1>4, <1>6 DEF Swallow
  <2>2. \E p, m : /\ pc' = [pc EXCEPT ![j] = p] /\ run' = [run EXCEPT ![j] = m]
                  /\ p \in {"query", "finish"} /\ Fits(p, m) /\ m.today = l.today
    BY <1>2, <1>5, <2>1, NextBrandFits
  <2> QED
    BY <1>1, <1>3, <1>5, <2>2, StepInv DEF Typed
<1>7. CASE run[j].check \notin {"qimai", "dup"}
  <2>1. pc' = [pc EXCEPT ![j] = "act"] /\ run' = [run EXCEPT ![j] = l]
    BY <1>4, <1>7 DEF Swallow, Continue, Goto
  <2>2. Fits("act", l)
    BY <1>1, <1>2 DEF Fits, Acts, BrandOf
  <2> QED
    BY <1>1, <1>3, <1>5, <2>1, <2>2, StepInv DEF Typed
<1> QED
  BY <1>6, <1>7

(* A query answers for what its check covers, or for the whole brand when it has
   no sales at all.                                                             *)
LEMMA QueryStep ==
    ASSUME Inv, NEW j \in Jobs, Query(j)
    PROVE  Inv'
<1>1. /\ Located(run[j]) /\ run[j].today <= day /\ Queries(run[j]) /\ Typed
      /\ run[j] \in Locals /\ run[j].task \in Jobs /\ run[j].check \in ChecksOf(run[j].task)
      /\ Covers(j) = CoversOf(run[j].check) /\ Covers(j) \subseteq Kinds
      /\ Brand(j) = BrandOf(run[j]) /\ Brand(j) \in Known /\ ~ run[j].aborted
      /\ UNCHANGED <<env, active, argv, faults>>
  BY Begun DEF Query
<1> DEFINE bad == {k \in Covers(j) : data[<<Brand(j), k>>] = "bad"}
           new == {<<Brand(j), k, data[<<Brand(j), k>>]>> : k \in Covers(j)}
           l == [run[j] EXCEPT !.found = bad, !.seen = @ \union new]
<1>2. \A k \in Covers(j) : data[<<Brand(j), k>>] \in Verdicts
  BY <1>1 DEF Typed
<1>3. new \in SUBSET (Known \X Kinds \X Verdicts) /\ bad \in SUBSET Kinds
  <2>1. \A k \in Covers(j) : <<Brand(j), k, data[<<Brand(j), k>>]>> \in Known \X Kinds \X Verdicts
    BY <1>1, <1>2
  <2>2. bad \in SUBSET Kinds
    BY <1>1
  <2> QED
    BY <2>1, <2>2
<1>4. /\ l \in Locals /\ l.task = run[j].task /\ l.at = run[j].at /\ l.check = run[j].check
      /\ l.today = run[j].today /\ l.found = bad /\ l.aborted = run[j].aborted
      /\ l.seen = run[j].seen \union new
  <2> HIDE DEF bad, new
  <2> QED
    BY <1>1, <1>3 DEF Locals
<1>5. IF run[j].check = "qimai" /\ data[<<Brand(j), "qimai">>] = "empty"
      THEN NextBrand(j, l) ELSE Continue(j, "act", l)
  BY DEF Query
<1> HIDE DEF l
<1>6. Located(l)
  BY <1>1, <1>4 DEF Located
<1>7. /\ BrandOf(l) = Brand(j) /\ Past(l, l.at - 1)
      /\ l.check = "bank" => Answered(l, BrandOf(l), "qimai")
  <2> HIDE DEF bad, new
  <2> QED
    BY <1>1, <1>4 DEF Queries, Past, Answered, BrandOf
<1>8. \A k \in Covers(j) : <<Brand(j), k, data[<<Brand(j), k>>]>> \in l.seen
  BY <1>4
<1> HIDE DEF bad, new
<1>9. \A k \in CoversOf(l.check) : Answered(l, BrandOf(l), k)
  BY <1>1, <1>2, <1>4, <1>7, <1>8 DEF Answered
<1>10. CASE run[j].check = "qimai" /\ data[<<Brand(j), "qimai">>] = "empty"
  <2>1. l.found = {}
    BY <1>1, <1>4, <1>10 DEF bad, CoversOf
  <2>2. KindsOf(l.task) = {"qimai", "bank"} /\ Covers(j) = {"qimai"}
    BY <1>1, <1>4, <1>10, Checks, Tasks DEF CoversOf
  <2>3. \A k \in KindsOf(l.task) : Answered(l, BrandOf(l), k)
    BY <1>1, <1>7, <1>8, <1>9, <1>10, <1>4, <2>2 DEF Answered
  <2>4. Past(l, l.at)
    <3> SUFFICES ASSUME NEW i \in DOMAIN Filter[l.task], NEW k \in KindsOf(l.task), i <= l.at
                 PROVE  Answered(l, Filter[l.task][i], k)
      BY DEF Past
    <3>1. i \in Nat /\ l.at \in Nat
      BY <1>1, <1>4, Tasks DEF Locals
    <3>2. CASE i = l.at
      BY <2>3, <3>2 DEF BrandOf
    <3>3. CASE i # l.at
      <4>1. i <= l.at - 1
        BY <3>1, <3>3
      <4> QED
        BY <1>7, <4>1 DEF Past
    <3> QED
      BY <3>2, <3>3
  <2>5. \E p, m : /\ pc' = [pc EXCEPT ![j] = p] /\ run' = [run EXCEPT ![j] = m]
                  /\ p \in {"query", "finish"} /\ Fits(p, m) /\ m.today = l.today
    BY <1>5, <1>6, <1>10, <2>1, <2>4, NextBrandFits
  <2> QED
    BY <1>1, <1>4, <2>5, StepInv DEF Typed
<1>11. CASE ~ (run[j].check = "qimai" /\ data[<<Brand(j), "qimai">>] = "empty")
  <2>1. pc' = [pc EXCEPT ![j] = "act"] /\ run' = [run EXCEPT ![j] = l]
    BY <1>5, <1>11 DEF Continue, Goto
  <2>2. \A k \in Covers(j) : data[<<Brand(j), k>>] # "empty"
    <3> SUFFICES ASSUME NEW k \in Covers(j), data[<<Brand(j), k>>] = "empty" PROVE FALSE
      OBVIOUS
    <3>1. k = "qimai"
      BY <1>1 DEF Typed
    <3>2. run[j].check = "qimai"
      BY <1>1, <3>1, SweepAssumption DEF CoversOf
    <3> QED
      BY <1>11, <3>1, <3>2
  <2>3. l.found = {} => \A k \in CoversOf(l.check) : <<BrandOf(l), k, "fine">> \in l.seen
    <3> SUFFICES ASSUME l.found = {}, NEW k \in Covers(j) PROVE <<Brand(j), k, "fine">> \in l.seen
      BY <1>1, <1>4, <1>7
    <3>1. data[<<Brand(j), k>>] = "fine"
      BY <1>2, <1>4, <2>2 DEF bad, Verdicts
    <3> QED
      BY <1>8, <3>1
  <2>4. Fits("act", l)
    BY <1>1, <1>6, <1>7, <1>9, <2>3 DEF Fits, Acts
  <2> QED
    BY <1>1, <1>4, <2>1, <2>4, StepInv DEF Typed
<1> QED
  BY <1>10, <1>11

-----------------------------------------------------------------------------
(* Users, uploads and midnight; a crash ends every run.                         *)
LEMMA OutsideStep ==
    ASSUME Inv,
           \/ \E n \in active : Dismiss(n)
           \/ \E b \in Known, k \in Kinds : Change(b, k)
           \/ Midnight \/ Crash
    PROVE  Inv'
<1>1. Typed /\ MaxDay \in Nat /\ MaxFaults \in Nat
  BY SweepAssumption DEF Inv
<1>2. CASE \E n \in active : Dismiss(n)
  <2>1. Typed'
    BY <1>1, <1>2 DEF Dismiss, env, Typed
  <2> QED
    BY <1>2, <2>1 DEF Dismiss, env, Inv
<1>3. CASE \E b \in Known, k \in Kinds : Change(b, k)
  <2>1. PICK b \in Known, k \in Kinds, v \in Verdicts :
          data' = [data EXCEPT ![<<b, k>>] = v] /\ (v = "empty" => k = "qimai")
          /\ UNCHANGED <<day, active, argv, pc, run, faults>>
    BY <1>3 DEF Change
  <2>2. data' \in [Known \X Kinds -> Verdicts]
    BY <1>1, <2>1 DEF Typed
  <2>3. \A c \in Known, i \in Kinds : data'[<<c, i>>] = "empty" => i = "qimai"
    BY <1>1, <2>1 DEF Typed
  <2>4. Typed'
    BY <1>1, <2>1, <2>2, <2>3 DEF Typed
  <2> QED
    BY <2>1, <2>4 DEF Inv
<1>4. CASE Midnight
  <2>1. day' \in 0..MaxDay /\ day \in Nat /\ day' = day + 1
    BY <1>1, <1>4 DEF Midnight, Typed
  <2>2. \A d \in 0..day : d \in 0..day'
    BY <2>1
  <2>3. Typed'
    BY <1>1, <1>4, <2>1, <2>2 DEF Midnight, Typed
  <2>4. \A j \in Jobs : pc[j] \notin {"idle", "fired"} => run[j].today <= day'
    <3> SUFFICES ASSUME NEW j \in Jobs, pc[j] \notin {"idle", "fired"} PROVE run[j].today <= day'
      OBVIOUS
    <3>1. run[j].today <= day /\ run[j].today \in 0..MaxDay
      BY Begun
    <3> QED
      BY <1>1, <2>1, <3>1
  <2> QED
    BY <1>4, <2>3, <2>4 DEF Midnight, Inv
<1>5. CASE Crash
  <2>1. faults' \in 0..MaxFaults
    BY <1>1, <1>5 DEF Crash, Break, Typed
  <2>2. Typed'
    BY <1>1, <1>5, <2>1 DEF Crash, env, Typed, Places
  <2> QED
    BY <1>5, <2>2 DEF Crash, Inv, Fits
<1> QED
  BY <1>2, <1>3, <1>4, <1>5

(* The invariant of the sweeps: the three theorems below follow from it.        *)
THEOREM InvTheorem == Spec => []Inv
<1>1. Inv /\ [Next]_vars => Inv'
  <2> SUFFICES ASSUME Inv, Next PROVE Inv'
    BY StutterInv
  <2>1. ASSUME NEW j \in Jobs, Fire(j) \/ Begin(j) \/ BeginFails(j) PROVE Inv'
    BY <2>1, JobStep
  <2>2. ASSUME NEW j \in Jobs, Step(j) PROVE Inv'
    BY <2>2, EndStep, QueryStep, QueryFailsStep, UpsertStep, ResolveStep DEF Step
  <2>3. CASE \/ \E n \in active : Dismiss(n)
             \/ \E b \in Known, k \in Kinds : Change(b, k)
             \/ Midnight \/ Crash
    BY <2>3, OutsideStep
  <2> QED
    BY <2>1, <2>2, <2>3 DEF Next
<1> QED
  BY InitInv, <1>1, PTL DEF Spec

(* Every variable has its type: no run looks for a brand past the end of its
   filter, raises what its check does not cover or dates a notification later
   than today (run_notification_sweep.py).                                      *)
THEOREM TypeTheorem == Spec => []TypeOK
<1>1. Inv => TypeOK
  <2> SUFFICES ASSUME Inv PROVE TypeOK
    OBVIOUS
  <2>1. Typed
    BY DEF Inv
  <2>2. active \subseteq {Key(b, k, d) : b \in Known, k \in Kinds, d \in 0..day}
    BY <2>1 DEF Typed
  <2>3. ASSUME NEW j \in Jobs
        PROVE  IF pc[j] \in {"idle", "fired"} THEN run[j] = NoRun
               ELSE /\ run[j] \in Locals /\ run[j].at \in DOMAIN Filter[run[j].task]
                    /\ run[j].found \subseteq Covers(j)
    <3>1. CASE pc[j] \in {"idle", "fired"}
      BY <3>1 DEF Inv, Fits
    <3>2. CASE pc[j] \notin {"idle", "fired"}
      BY <3>2, Begun DEF Located
    <3> QED
      BY <3>1, <3>2
  <2> QED
    BY <2>1, <2>2, <2>3 DEF Typed, Places, TypeOK
<1> QED
  BY <1>1, InvTheorem, PTL

(* A run about to be recorded as a success has queried all that its task looks
   at, for every filter and any number of failing statements: an error that the
   sweep swallows leaves the transaction aborted (notification_sweep.py).       *)
THEOREM SuccessTheorem == Spec => []SuccessIsComplete
<1>1. Inv => SuccessIsComplete
  <2> SUFFICES ASSUME Inv, NEW j \in Jobs, pc[j] = "finish", ~ run[j].aborted,
                      NEW i \in DOMAIN Filter[run[j].task], NEW k \in KindsOf(run[j].task)
               PROVE  Answered(run[j], Filter[run[j].task][i], k)
    BY DEF SuccessIsComplete, Answered
  <2>1. Finishes(run[j]) /\ run[j].task \in Jobs
    BY Begun
  <2>2. i <= run[j].at
    BY <2>1, Tasks DEF Finishes
  <2> QED
    BY <2>1, <2>2 DEF Finishes, Past
<1> QED
  BY <1>1, InvTheorem, PTL

(* A sweep takes away only what its own query found in order.                   *)
THEOREM ResolvedTheorem == Spec => ResolvedWasFine
<1>1. Inv /\ [Next]_vars
        => [\A j \in Jobs : pc[j] = "act" /\ pc'[j] # "act" =>
              \A n \in active \ active' : <<n[1], n[2], "fine">> \in run[j].seen]_vars
  <2> SUFFICES ASSUME Inv, Next, NEW j \in Jobs, pc[j] = "act", pc'[j] # "act",
                      NEW n \in active, n \notin active'
               PROVE  <<n[1], n[2], "fine">> \in run[j].seen
    OBVIOUS
  <2>1. PICK q \in Jobs : Resolve(q)
    BY DEF Next, Step, Fire, Begin, BeginFails, LookupFails, Query, QueryFails, Upsert, Raise,
           Finish, RecordFailure, Dismiss, Change, Midnight, Crash
  <2>2. q = j
    BY <2>1 DEF Resolve, NextCheck, NextBrand, Goto, Inv, Typed
  <2>3. /\ Acts(run[j]) /\ Brand(j) = BrandOf(run[j]) /\ Covers(j) = CoversOf(run[j].check)
        /\ ~ run[j].aborted /\ run[j].found = {}
        /\ active' = {m \in active : ~ (m[1] = Brand(j) /\ m[2] \in Covers(j))}
    BY <2>1, <2>2, Begun DEF Resolve
  <2> QED
    BY <2>3 DEF Acts
<1> QED
  BY <1>1, InvTheorem, PTL DEF Spec, ResolvedWasFine
=============================================================================
