----------------------------- MODULE RulesProofs ------------------------------
(* What the cascade promises the code that refreshes only some rows, and what
   the rules, their log and the snapshot keep, for any rules, texts, priorities,
   files and requests at once.                                                  *)
EXTENDS Rules, FiniteSetTheorems, WellFoundedInduction, TLAPS

(* Whether a rule hits in a step depends on the rule and the transaction only. *)
LEMMA HitsAreLocal ==
    ASSUME NEW R, NEW Q, NEW t, NEW k, NEW r, r \in R, r \in Q
    PROVE  r \in StepHits(R, t, k) <=> r \in StepHits(Q, t, k)
BY DEF StepHits, TextHits, NameHits

LEMMA HitsAreRules ==
    ASSUME NEW R, NEW t, NEW k
    PROVE  StepHits(R, t, k) \subseteq R
BY DEF StepHits, TextHits, NameHits

LEMMA StepNames ==
    /\ Steps = {1, 2, 3, 4, 5}
    /\ StepField[1] = "summary" /\ StepField[2] = "memo" /\ StepField[3] = "purpose"
    /\ StepField[4] = "counterparty_name" /\ StepField[5] = "counterparty_name"
    /\ StepType[1] = "contains" /\ StepType[2] = "contains" /\ StepType[3] = "contains"
    /\ StepType[4] = "contains" /\ StepType[5] = "exact"
BY DEF Steps, StepField, StepType

(* A rule is of one step: its field and type say which.                         *)
LEMMA OneStep ==
    ASSUME NEW R, NEW t, NEW j \in Steps, NEW k \in Steps, NEW r,
           r \in StepHits(R, t, j), r \in StepHits(R, t, k)
    PROVE  j = k
<1>1. StepField[j] = StepField[k] /\ StepType[j] = StepType[k]
  BY DEF StepHits, TextHits, NameHits, OfStep
<1>2. \A i \in Steps : i = 1 \/ i = 2 \/ i = 3 \/ i = 4 \/ i = 5
  BY DEF Steps
<1> QED
  BY <1>1, <1>2 DEF Steps, StepField, StepType

(* Removing or disabling a rule changes only transactions that the rule
   classified: whatever else may win still may, and if the rule could not win nothing
   changes. DELETE /api/rules refreshes just the files whose rows cite the rule. *)
THEOREM OnlyCitedRowsChange ==
    ASSUME NEW R \in SUBSET Rule, NEW t, NEW r
    PROVE  /\ Winners(R, t) \ {r} \subseteq Winners(R \ {r}, t)
           /\ r \notin Winners(R, t) => Winners(R \ {r}, t) = Winners(R, t)
<1> DEFINE Q == R \ {r}
<1>0. \A u \in R : u.prio \in Int
  BY DEF Rule
<1>1. \A k : StepHits(Q, t, k) = StepHits(R, t, k) \ {r}
  BY HitsAreRules, HitsAreLocal
<1>2. ASSUME NEW w \in Winners(R, t), w # r
      PROVE  w \in Winners(Q, t)
  <2>1. PICK k \in Steps : /\ w \in Lowest(StepHits(R, t, k))
                           /\ \A j \in 1..(k - 1) : StepHits(R, t, j) = {}
    BY <1>2 DEF Winners
  <2>2. w \in Lowest(StepHits(Q, t, k))
    BY <1>1, <1>2, <2>1 DEF Lowest
  <2>3. \A j \in 1..(k - 1) : StepHits(Q, t, j) = {}
    BY <1>1, <2>1
  <2> QED
    BY <1>2, <2>1, <2>2, <2>3 DEF Winners
<1>3. ASSUME r \notin Winners(R, t), NEW w \in Winners(Q, t)
      PROVE  w \in Winners(R, t)
  <2>1. PICK k \in Steps : /\ w \in Lowest(StepHits(Q, t, k))
                           /\ \A j \in 1..(k - 1) : StepHits(Q, t, j) = {}
    BY <1>3 DEF Winners
  <2>2. w \in R /\ w # r /\ w \in StepHits(Q, t, k)
    BY <1>3, <2>1, HitsAreRules DEF Winners, Lowest
  <2>a. w \in StepHits(R, t, k)
    BY <1>1, <2>2
  <2>3. CASE \A j \in 1..k : r \notin StepHits(R, t, j)
    <3>1. \A j \in 1..k : StepHits(R, t, j) = StepHits(Q, t, j)
      BY <1>1, <2>3
    <3>2. k \in 1..k /\ \A j \in 1..(k - 1) : j \in 1..k
      BY DEF Steps
    <3> QED
      BY <2>1, <2>2, <3>1, <3>2 DEF Winners
  <2>4. CASE \E j \in 1..k : r \in StepHits(R, t, j)
    <3>1. PICK i \in 1..k : r \in StepHits(R, t, i)
      BY <2>4
    <3>2. i \in Steps /\ r \in R
      BY <3>1, HitsAreRules DEF Steps
    <3>3. \A j \in 1..(i - 1) : StepHits(R, t, j) = {}
      <4> SUFFICES ASSUME NEW j \in 1..(i - 1) PROVE StepHits(R, t, j) = {}
        OBVIOUS
      <4>1. j \in Steps /\ j # i /\ j \in 1..(k - 1)
        BY <3>2 DEF Steps
      <4>2. r \notin StepHits(R, t, j)
        BY <3>1, <3>2, <4>1, OneStep
      <4> QED
        BY <1>1, <2>1, <4>1, <4>2
    <3>4. r \notin Lowest(StepHits(R, t, i))
      BY <1>3, <3>2, <3>3 DEF Winners
    <3>5. PICK s \in StepHits(R, t, i) : ~(r.prio <= s.prio)
      BY <3>1, <3>4 DEF Lowest
    <3>6. CASE i = k
      <4>1. s # r => s \in StepHits(Q, t, k)
        BY <1>1, <3>5, <3>6
      <4>2. s # r /\ s \in R /\ r \in R
        BY <1>0, <3>2, <3>5, HitsAreRules
      <4>3. w.prio <= s.prio
        BY <2>1, <4>1, <4>2 DEF Lowest
      <4>4. w.prio <= r.prio
        BY <1>0, <2>2, <3>5, <4>2, <4>3
      <4>5. \A u \in StepHits(R, t, k) : w.prio <= u.prio
        BY <1>1, <2>1, <4>4 DEF Lowest
      <4> QED
        BY <2>2, <2>a, <3>3, <3>6, <4>5 DEF Winners, Lowest
    <3>7. CASE i # k
      <4>1. i \in 1..(k - 1)
        BY <3>1, <3>7 DEF Steps
      <4>2. StepHits(R, t, i) = {r}
        BY <1>1, <2>1, <3>1, <4>1
      <4> QED
        BY <1>0, <3>2, <3>5, <4>2
    <3> QED
      BY <3>6, <3>7
  <2> QED
    BY <2>3, <2>4
<1> QED
  BY <1>2, <1>3

(* A rule with a priority above all others, as settling assigns, yields to the
   rules of its step: it changes a transaction only if every rule that could
   win before is of a later step, and then it wins alone.                       *)
THEOREM NewRuleYields ==
    ASSUME NEW R \in SUBSET Rule, NEW n \in Rule, NEW t,
           \A r \in R : r.prio < n.prio
    PROVE  \/ Winners(R \cup {n}, t) = Winners(R, t)
           \/ /\ Winners(R \cup {n}, t) = {n}
              /\ \A r \in Winners(R, t), j, k \in Steps :
                    n \in StepHits(R \cup {n}, t, j) /\ r \in StepHits(R, t, k) => j < k
<1> DEFINE P == R \cup {n}
<1>0. /\ n \notin R
      /\ n.prio \in Int /\ \A u \in R : u.prio \in Int
  BY DEF Rule
<1>1. \A k : StepHits(R, t, k) = StepHits(P, t, k) \ {n}
  BY <1>0, HitsAreRules, HitsAreLocal
<1>2. CASE n \notin Winners(P, t)
  <2>1. Winners(P \ {n}, t) = Winners(P, t)
    BY <1>2, OnlyCitedRowsChange
  <2>2. P \ {n} = R
    BY <1>0
  <2> QED
    BY <2>1, <2>2
<1>3. CASE n \in Winners(P, t)
  <2>1. PICK j \in Steps : /\ n \in Lowest(StepHits(P, t, j))
                           /\ \A i \in 1..(j - 1) : StepHits(P, t, i) = {}
    BY <1>3 DEF Winners
  <2>2. StepHits(P, t, j) = {n}
    <3> SUFFICES ASSUME NEW u \in StepHits(P, t, j), u # n PROVE FALSE
      BY <2>1 DEF Lowest
    <3>1. u \in R
      BY HitsAreRules
    <3>2. n.prio <= u.prio
      BY <2>1 DEF Lowest
    <3>3. u.prio < n.prio
      BY <3>1
    <3> HIDE DEF P
    <3> QED
      BY <1>0, <3>1, <3>2, <3>3
  <2>3. Winners(P, t) = {n}
    <3> SUFFICES ASSUME NEW u \in Winners(P, t) PROVE u = n
      BY <1>3
    <3>1. PICK k \in Steps : /\ u \in Lowest(StepHits(P, t, k))
                             /\ \A i \in 1..(k - 1) : StepHits(P, t, i) = {}
      BY DEF Winners
    <3>2. /\ n \in StepHits(P, t, j) /\ u \in StepHits(P, t, k)
          /\ k \in Int /\ j \in Int /\ 1 <= k /\ 1 <= j
      BY <2>1, <3>1 DEF Lowest, Steps
    <3>a. ~(k < j)
      <4> SUFFICES ASSUME k < j PROVE FALSE
        OBVIOUS
      <4>1. k \in 1..(j - 1)
        BY <3>2
      <4> QED
        BY <2>1, <3>2, <4>1
    <3>b. ~(j < k)
      <4> SUFFICES ASSUME j < k PROVE FALSE
        OBVIOUS
      <4>1. j \in 1..(k - 1)
        BY <3>2
      <4> QED
        BY <3>1, <3>2, <4>1
    <3>3. j = k
      BY <3>2, <3>a, <3>b
    <3> QED
      BY <2>2, <3>1, <3>3 DEF Lowest
  <2>4. ASSUME NEW r \in Winners(R, t), NEW i \in Steps, NEW k \in Steps,
               n \in StepHits(P, t, i), r \in StepHits(R, t, k)
        PROVE  i < k
    <3>1. i = j
      BY <2>1, <2>4, OneStep DEF Lowest
    <3>2. r # n /\ r \in StepHits(P, t, k)
      BY <1>0, <1>1, <2>4, HitsAreRules
    <3>3. k \in Int /\ j \in Int /\ 1 <= k /\ k # j
      BY <2>2, <3>2 DEF Steps
    <3>4. ~(k < j)
      <4> SUFFICES ASSUME k < j PROVE FALSE
        OBVIOUS
      <4>1. k \in 1..(j - 1)
        BY <3>3
      <4> QED
        BY <2>1, <3>2, <4>1
    <3> QED
      BY <3>1, <3>3, <3>4
  <2> QED
    BY <2>3, <2>4
<1> QED
  BY <1>2, <1>3

(* No screen for operators misses the rule that classifies: the conflict view
   lists it among the hits, the preview of its keyword shows the transaction, and
   classify.py tries it, unless it is an exact rule with a second condition.     *)
THEOREM WinnersAreSeen ==
    ASSUME NEW R \in SUBSET Rule, NEW t \in Txns, NEW r \in Winners(R, t)
    PROVE  /\ r \in ConflictHits(R, t)
           /\ t \in PreviewTxns(r.value)
           /\ r.type = "contains" \/ r.field2 = NoField => r \in PythonHits(R, t)
<1>1. PICK k \in Steps : r \in StepHits(R, t, k)
  BY DEF Winners, Lowest
<1>2. r \in R /\ r \in Rule
  BY <1>1, HitsAreRules
<1>3. /\ r.enabled /\ r.field = StepField[k] /\ r.type = StepType[k] /\ DirectionFits(r, t)
      /\ SecondFits(r, t)
  BY <1>1 DEF StepHits, TextHits, NameHits, OfStep
<1>4. StepField[k] \in Fields
  BY StepNames DEF Fields
<1>5. Contains(t, StepField[k], r.value)
  <2>1. CASE k <= 3
    BY <1>1, <2>1 DEF StepHits, TextHits
  <2>2. CASE k = 4
    BY <1>1, <2>2, StepNames DEF StepHits, NameHits
  <2>3. CASE k = 5
    <3>1. Whole[t] = r.value /\ r.value # NoValue
      BY <1>1, <1>2, <2>3, ClassifyAssumption DEF StepHits, NameHits, Rule
    <3>2. Whole[t] \in Text[t]["counterparty_name"]
      BY <3>1, ClassifyAssumption
    <3> QED
      BY <2>3, <3>1, <3>2, StepNames DEF Contains
  <2> QED
    BY <2>1, <2>2, <2>3 DEF Steps
<1>6. PythonTextFits(t, StepField[k], r.type, r.value)
  <2>1. CASE k = 5
    <3>1. r.type = "exact" /\ StepField[k] = "counterparty_name"
      BY <1>3, <2>1, StepNames
    <3>2. Whole[t] = r.value
      BY <1>1, <2>1 DEF StepHits, NameHits
    <3> QED
      BY <3>1, <3>2 DEF PythonTextFits
  <2>2. CASE k # 5
    <3>1. r.type = "contains"
      BY <1>3, <2>2, StepNames
    <3> QED
      BY <1>5, <3>1 DEF PythonTextFits
  <2> QED
    BY <2>1, <2>2
<1>7. r.type = "contains" \/ r.field2 = NoField =>
        r.field2 = NoField \/ PythonTextFits(t, r.field2, r.type, r.value2)
  BY <1>3 DEF SecondFits, PythonTextFits
<1>8. r \in ConflictHits(R, t) /\ t \in PreviewTxns(r.value)
  BY <1>2, <1>3, <1>4, <1>5 DEF ConflictHits, PreviewTxns
<1> QED
  BY <1>2, <1>3, <1>4, <1>6, <1>7, <1>8 DEF PythonHits

-----------------------------------------------------------------------------
(* Finite sets of rules. A finite set with integer weights has a member of
   greatest weight: the sets of those above a member have a minimal one.        *)
LEMMA Greatest ==
    ASSUME NEW S, IsFiniteSet(S), S # {}, NEW w \in [S -> Int]
    PROVE  \E m \in S : \A x \in S : w[x] <= w[m]
<1> DEFINE Above(x) == {y \in S : w[y] > w[x]}
           G == {Above(x) : x \in S}
<1>1. G \subseteq FiniteSubsetsOf(S) /\ G # {}
  <2>1. FiniteSubsetsOf(S) = SUBSET S
    BY FS_FiniteSubsetsOfFinite
  <2>2. \A U \in G : U \subseteq S
    OBVIOUS
  <2>3. PICK x \in S : TRUE
    OBVIOUS
  <2>4. Above(x) \in G
    OBVIOUS
  <2> QED
    BY <2>1, <2>2, <2>4
<1>2. PICK W \in G : \A V \in G : ~ (<<V, W>> \in StrictSubsetOrdering(S))
  <2> HIDE DEF G
  <2> QED
    BY <1>1, WFMin, FS_StrictSubsetOrderingWellFounded
<1>3. PICK m \in S : W = Above(m)
  OBVIOUS
<1>4. ASSUME NEW x \in S, w[x] > w[m] PROVE FALSE
  <2>1. /\ \A z \in Above(x) : z \in Above(m)
        /\ x \in Above(m) /\ x \notin Above(x)
    BY <1>4
  <2>2. <<Above(x), Above(m)>> \in StrictSubsetOrdering(S)
    BY <2>1 DEF StrictSubsetOrdering
  <2> QED
    BY <1>2, <1>3, <2>2
<1>5. \A x \in S : w[x] <= w[m]
  BY <1>4
<1> QED
  BY <1>5

(* Distinct weights number a finite set from zero, without gaps: the rank of a
   member is the number of those below it.                                      *)
LEMMA Ranks ==
    ASSUME NEW S, IsFiniteSet(S), NEW w \in [S -> Int],
           \A x, y \in S : w[x] = w[y] => x = y,
           NEW below \in [S -> SUBSET S], \A x, y \in S : y \in below[x] <=> w[y] < w[x],
           NEW rank \in [S -> Nat], \A x \in S : rank[x] = Cardinality(below[x])
    PROVE  /\ Cardinality(S) \in Nat
           /\ rank \in [S -> 0..(Cardinality(S) - 1)]
           /\ \A x, y \in S : rank[x] = rank[y] => x = y
           /\ \A k \in 0..(Cardinality(S) - 1) : \E x \in S : rank[x] = k
<1> DEFINE n == Cardinality(S)
<1>1. n \in Nat
  BY FS_CardinalityType
<1>2. ASSUME NEW x \in S PROVE /\ IsFiniteSet(below[x]) /\ Cardinality(below[x]) \in Nat
                               /\ Cardinality(below[x]) < n
  <2>1. below[x] \in SUBSET S /\ x \notin below[x] /\ below[x] # S
    OBVIOUS
  <2>2. /\ IsFiniteSet(below[x]) /\ Cardinality(below[x]) <= n
        /\ (n = Cardinality(below[x]) => S = below[x])
    BY <2>1, FS_Subset
  <2>3. Cardinality(below[x]) \in Nat
    BY <2>2, FS_CardinalityType
  <2> HIDE DEF n
  <2> QED
    BY <1>1, <2>1, <2>2, <2>3
<1>3. rank \in [S -> 0..(n - 1)]
  <2> HIDE DEF n
  <2>1. \A x \in S : Cardinality(below[x]) \in 0..(n - 1)
    BY <1>1, <1>2
  <2> QED
    BY <2>1
<1>4. ASSUME NEW x \in S, NEW y \in S, w[x] < w[y] PROVE rank[x] < rank[y]
  <2>1. below[x] \in SUBSET below[y] /\ below[x] # below[y]
    BY <1>4
  <2>2. /\ Cardinality(below[x]) <= Cardinality(below[y])
        /\ Cardinality(below[y]) = Cardinality(below[x]) => below[y] = below[x]
    BY <1>2, <2>1, FS_Subset
  <2>3. rank[x] = Cardinality(below[x]) /\ rank[y] = Cardinality(below[y])
    OBVIOUS
  <2> QED
    BY <1>2, <2>1, <2>2, <2>3
<1>5. \A x, y \in S : rank[x] = rank[y] => x = y
  <2> SUFFICES ASSUME NEW x \in S, NEW y \in S, rank[x] = rank[y] PROVE x = y
    OBVIOUS
  <2>1. rank[x] \in Int /\ ~(rank[x] < rank[y]) /\ ~(rank[y] < rank[x])
    <3> HIDE DEF n
    <3> QED
      BY <1>1, <1>3
  <2>2. ~(w[x] < w[y]) /\ ~(w[y] < w[x])
    BY <1>4, <2>1
  <2> QED
    BY <2>2
<1>6. \A k \in 0..(n - 1) : \E x \in S : rank[x] = k
  <2>1. rank \in Injection(S, 0..(n - 1))
    BY <1>3, <1>5 DEF Injection, IsInjective
  <2>2. IsFiniteSet(0..(n - 1)) /\ Cardinality(0..(n - 1)) = n
    <3> HIDE DEF n
    <3>1. 0 \in Int /\ n - 1 \in Int
      BY <1>1
    <3>2. /\ IsFiniteSet(0..(n - 1))
          /\ Cardinality(0..(n - 1)) = IF 0 > n - 1 THEN 0 ELSE (n - 1) - 0 + 1
      BY <3>1, FS_Interval
    <3> QED
      BY <1>1, <3>2
  <2> HIDE DEF n
  <2>3. n = Cardinality(0..(n - 1)) <=> rank \in Surjection(S, 0..(n - 1))
    BY <2>1, <2>2, FS_Injection DEF n
  <2>4. rank \in Surjection(S, 0..(n - 1))
    BY <2>2, <2>3
  <2> QED
    BY <2>4 DEF Surjection
<1> QED
  BY <1>1, <1>3, <1>5, <1>6

(* The priority a new rule gets is above those of the rules read.               *)
LEMMA NewPrioIsAbove ==
    ASSUME NEW R, R \subseteq Rule, IsFiniteSet(R)
    PROVE  NewPrio(R) \in Int /\ \A r \in R : r.prio < NewPrio(R)
<1>1. CASE R = {}
  BY <1>1 DEF NewPrio
<1>2. CASE R # {}
  <2> DEFINE w == [r \in R |-> r.prio]
             p == CHOOSE q \in Prios(R) : \A z \in Prios(R) : z <= q
  <2>1. w \in [R -> Int] /\ \A r \in R : r.prio \in Int
    BY DEF Rule
  <2>2. PICK m \in R : \A r \in R : w[r] <= w[m]
    <3> HIDE DEF w
    <3> QED
      BY <1>2, <2>1, Greatest
  <2>3. m.prio \in Prios(R) /\ \A z \in Prios(R) : z <= m.prio
    BY <2>2 DEF Prios
  <2>4. p \in Prios(R) /\ \A z \in Prios(R) : z <= p
    BY <2>3
  <2>5. p \in Int /\ \A r \in R : r.prio <= p
    BY <2>1, <2>4 DEF Prios
  <2>6. NewPrio(R) = 10 + p
    BY <1>2 DEF NewPrio
  <2> HIDE DEF p
  <2> QED
    BY <2>1, <2>5, <2>6
<1> QED
  BY <1>1, <1>2
-----------------------------------------------------------------------------
(* The invariants.                                                              *)

Distinct(R) == \A r, u \in R : r.id = u.id => r = u

(* An entry of the log: a rule inserted, updated or removed.                    *)
LogId(h) == IF h.before = NoRule THEN h.after.id ELSE h.before.id
LogEntry == {h \in [before : Rule \cup {NoRule}, after : Rule \cup {NoRule}] :
               /\ h.before = NoRule => h.after # NoRule
               /\ h.before # NoRule /\ h.after # NoRule => h.before.id = h.after.id}

(* The ids of the rules that are, or were, in the table.                        *)
Recorded == {r.id : r \in rules} \cup {LogId(history[k]) : k \in DOMAIN history}

Pcs == {"idle", "priority", "settle", "item", "insert", "delete", "import",
        "refresh", "rows", "write"}
Ops == {"none", "settle", "batch", "delete", "import", "rerun"}
RuleKey == (Directions \cup {"any"}) \X (Fields \cup {"any"}) \X {"contains", "exact"}
             \X Values \X Codes
PartialRows == UNION {[T -> Row] : T \in SUBSET Txns}
Call == [pc : Pcs, op : Ops, items : Seq(Item), dual : BOOLEAN, prio : Int,
         added : SUBSET (Rule \cup RuleKey), id : Nat, todo : SUBSET Files,
         file : Files \cup {NoFile}, left : SUBSET Txns,
         row : Seq(Rule) \cup Seq(Item) \cup (Txns \X Row), mine : PartialRows,
         done : SUBSET Files, alone : BOOLEAN, failed : BOOLEAN]

(* What a request has read and prepared fits its place.                         *)
Fits(c) ==
    /\ c.pc \in {"priority", "settle"} =>
         c.items # <<>> /\ c.items[1].code # NoCode /\ c.op = "settle"
    /\ c.pc = "insert" => c.items # <<>> /\ Head(c.items).code # NoCode
    /\ c.pc \in {"item", "insert"} => c.row \in Seq(Item) /\ c.op = "batch"
    /\ c.pc = "import" => c.row \in Seq(Rule)
    /\ c.pc = "write" => c.row \in Txns \X Row
    /\ c.pc \notin {"rows", "write"} => DOMAIN c.mine = {}
    /\ c.pc \in {"rows", "write"} => c.file \in Files

(* The rules a batch has inserted and not committed: their ids are drawn and
   nobody else's.                                                               *)
Prepared(c) == IF c.pc \in {"item", "insert"} THEN c.added ELSE {}
Drawn(s) ==
    /\ Prepared(call[s]) \subseteq Rule /\ IsFiniteSet(Prepared(call[s]))
    /\ Distinct(Prepared(call[s]))
    /\ \A r \in Prepared(call[s]) : r.id \in 1..(nextId - 1) /\ r.id \notin Recorded
Apart(s, u) == \A r \in Prepared(call[s]), v \in Prepared(call[u]) : r.id # v.id

TableInv ==
    /\ brand \in Brands
    /\ rules \subseteq Rule /\ IsFiniteSet(rules) /\ Distinct(rules)
    /\ history \in Seq(LogEntry)
    /\ nextId \in Nat \ {0} /\ Recorded \subseteq 1..(nextId - 1)
    /\ overrides \in [Txns -> Codes \cup {NoCode}]
    /\ snapshot \in [Txns -> Row]
    /\ call \in [Sessions -> Call]
TypeInv ==
    /\ TableInv
    /\ \A s \in Sessions : Fits(call[s]) /\ Drawn(s)
    /\ \A s, u \in Sessions : s # u => Apart(s, u)

(* What a statement on the rules does to them and to their log. I: the ids of
   the rules it adds.                                                           *)
Edits(I) ==
    /\ rules' \subseteq Rule /\ IsFiniteSet(rules') /\ Distinct(rules')
    /\ history' \in Seq(LogEntry)
    /\ Recorded' \subseteq Recorded \cup I
    /\ Versions \subseteq Versions'
    /\ Logged /\ rules \subseteq Versions => rules' \subseteq Versions'
-----------------------------------------------------------------------------
(* The statements on the rules.                                                 *)

LEMMA NoRuleIsNoRule ==
    /\ \A r \in Rule : r # NoRule /\ r.id \in Nat /\ r.prio \in Int
    /\ \A h \in LogEntry : LogId(h) \in Nat
<1>1. \A r \in Rule : r # NoRule /\ r.id \in Nat /\ r.prio \in Int
  BY RulesAssumption DEF Rule
<1> QED
  BY <1>1 DEF LogEntry, LogId

LEMMA LogGrows ==
    ASSUME history \in Seq(LogEntry), NEW T \in Seq(LogEntry), history' = history \o T
    PROVE  /\ history' \in Seq(LogEntry)
           /\ \A k \in DOMAIN history' :
                \/ \E i \in DOMAIN history : history'[k] = history[i]
                \/ \E j \in DOMAIN T : history'[k] = T[j]
           /\ \A i \in DOMAIN history : \E k \in DOMAIN history' : history'[k] = history[i]
           /\ \A j \in DOMAIN T : \E k \in DOMAIN history' : history'[k] = T[j]
<1>1. /\ history' \in Seq(LogEntry) /\ Len(history') = Len(history) + Len(T)
      /\ Len(history) \in Nat /\ Len(T) \in Nat
      /\ \A k \in 1..Len(history) : history'[k] = history[k]
      /\ \A k \in 1..Len(T) : history'[Len(history) + k] = T[k]
  OBVIOUS
<1>2. DOMAIN history = 1..Len(history) /\ DOMAIN T = 1..Len(T) /\ DOMAIN history' = 1..Len(history')
  BY <1>1
<1>3. ASSUME NEW k \in DOMAIN history'
      PROVE  \/ \E i \in DOMAIN history : history'[k] = history[i]
             \/ \E j \in DOMAIN T : history'[k] = T[j]
  <2>1. CASE k <= Len(history)
    BY <1>1, <1>2, <2>1
  <2>2. CASE k > Len(history)
    <3>1. k - Len(history) \in 1..Len(T) /\ Len(history) + (k - Len(history)) = k
      BY <1>1, <1>2, <2>2
    <3> QED
      BY <1>1, <1>2, <3>1
  <2> QED
    BY <1>1, <1>2, <2>1, <2>2
<1>4. ASSUME NEW j \in DOMAIN T PROVE \E k \in DOMAIN history' : history'[k] = T[j]
  <2>1. Len(history) + j \in DOMAIN history'
    BY <1>1, <1>2
  <2> QED
    BY <1>1, <1>2, <2>1
<1>5. \A i \in DOMAIN history : i \in DOMAIN history'
  BY <1>1, <1>2
<1> QED
  BY <1>1, <1>2, <1>3, <1>4, <1>5

(* Rules put in, rules taken out, and the changes the trigger wrote of it.      *)
LEMMA EditsByLog ==
    ASSUME rules \subseteq Rule, history \in Seq(LogEntry), NEW I,
           rules' \subseteq Rule, IsFiniteSet(rules'), Distinct(rules'),
           NEW T \in Seq(LogEntry),
           history' = IF Logged THEN history \o T ELSE history,
           \A j \in DOMAIN T : LogId(T[j]) \in Recorded \cup I,
           \A r \in rules' \ rules : r.id \in Recorded \cup I /\ \E j \in DOMAIN T : T[j].after = r
    PROVE  Edits(I)
<1>1. /\ history' \in Seq(LogEntry)
      /\ \A k \in DOMAIN history' :
           \/ \E i \in DOMAIN history : history'[k] = history[i]
           \/ \E j \in DOMAIN T : history'[k] = T[j]
      /\ \A i \in DOMAIN history : \E k \in DOMAIN history' : history'[k] = history[i]
      /\ Logged => \A j \in DOMAIN T : \E k \in DOMAIN history' : history'[k] = T[j]
  <2>1. CASE Logged
    BY <2>1, LogGrows
  <2>2. CASE ~Logged
    BY <2>2
  <2> QED
    BY <2>1, <2>2
<1>2. Recorded' \subseteq Recorded \cup I
  <2>1. \A r \in rules' : r.id \in Recorded \cup I
    BY DEF Recorded
  <2>2. \A i \in DOMAIN history : LogId(history[i]) \in Recorded
    BY DEF Recorded
  <2>3. \A k \in DOMAIN history' : LogId(history'[k]) \in Recorded \cup I
    BY <1>1, <2>2 DEF LogId
  <2>4. Recorded' = {r.id : r \in rules'} \cup {LogId(history'[k]) : k \in DOMAIN history'}
    BY DEF Recorded, LogId
  <2> QED
    BY <2>1, <2>3, <2>4
<1>3. Versions' = Seeds \cup ({history'[k].after : k \in DOMAIN history'} \ {NoRule})
  BY DEF Versions
<1>4. Versions \subseteq Versions'
  <2> SUFFICES ASSUME NEW i \in DOMAIN history, history[i].after # NoRule
               PROVE  history[i].after \in Versions'
    BY <1>3 DEF Versions
  <2>1. PICK k \in DOMAIN history' : history'[k] = history[i]
    BY <1>1
  <2> QED
    BY <1>3, <2>1
<1>5. Logged => \A r \in rules' \ rules : r \in Versions'
  <2> SUFFICES ASSUME Logged, NEW r \in rules' \ rules PROVE r \in Versions'
    OBVIOUS
  <2>1. PICK j \in DOMAIN T : T[j].after = r
    OBVIOUS
  <2>2. PICK k \in DOMAIN history' : history'[k] = T[j]
    BY <1>1
  <2>3. r # NoRule
    BY NoRuleIsNoRule
  <2> QED
    BY <1>3, <2>1, <2>2, <2>3
<1> QED
  BY <1>1, <1>2, <1>4, <1>5 DEF Edits

(* The rank of a rule by its id among those of a set.                           *)
IdRank(S) == [r \in S |-> Cardinality({u \in S : u.id < r.id})]
LEMMA IdRanks ==
    ASSUME NEW S, S \subseteq Rule, IsFiniteSet(S), Distinct(S)
    PROVE  /\ Cardinality(S) \in Nat
           /\ IdRank(S) \in [S -> 0..(Cardinality(S) - 1)]
           /\ \A x, y \in S : IdRank(S)[x] = IdRank(S)[y] => x = y
           /\ \A k \in 0..(Cardinality(S) - 1) : \E x \in S : IdRank(S)[x] = k
<1> DEFINE w == [r \in S |-> r.id]
           below == [r \in S |-> {u \in S : u.id < r.id}]
<1>1. w \in [S -> Int] /\ \A x, y \in S : w[x] = w[y] => x = y
  BY NoRuleIsNoRule DEF Distinct
<1>2. below \in [S -> SUBSET S] /\ \A x, y \in S : y \in below[x] <=> w[y] < w[x]
  OBVIOUS
<1>3. IdRank(S) \in [S -> Nat] /\ \A r \in S : IdRank(S)[r] = Cardinality(below[r])
  <2>1. \A r \in S : Cardinality(below[r]) \in Nat
    <3> HIDE DEF below
    <3> QED
      BY <1>2, FS_Subset, FS_CardinalityType
  <2>2. IdRank(S) = [r \in S |-> Cardinality(below[r])]
    BY DEF IdRank
  <2> HIDE DEF below
  <2> QED
    BY <2>1, <2>2
<1> HIDE DEF w, below
<1> QED
  BY <1>1, <1>2, <1>3, Ranks

(* The rows a statement inserts are logged in the order of their ids.           *)
LEMMA Inserts ==
    ASSUME rules \subseteq Rule, IsFiniteSet(rules), Distinct(rules), history \in Seq(LogEntry),
           NEW S, S \subseteq Rule, IsFiniteSet(S), Distinct(S),
           \A r \in S, u \in rules : r.id # u.id,
           InsertRules(S)
    PROVE  Edits({r.id : r \in S})
<1> DEFINE n == Cardinality(S)
           rank == IdRank(S)
           nth(k) == CHOOSE r \in S : Cardinality({u \in S : u.id < r.id}) = k - 1
           T == [k \in 1..n |-> Change(NoRule, nth(k))]
<1>2. /\ n \in Nat /\ rank \in [S -> 0..(n - 1)]
      /\ \A x, y \in S : rank[x] = rank[y] => x = y
      /\ \A k \in 0..(n - 1) : \E x \in S : rank[x] = k
  BY IdRanks DEF IdRank
<1>3. \A r \in S : rank[r] = Cardinality({u \in S : u.id < r.id})
  BY DEF IdRank
<1> HIDE DEF rank, n
<1>4. ASSUME NEW k \in 1..n
      PROVE  nth(k) \in S /\ rank[nth(k)] = k - 1
  <2>1. k - 1 \in 0..(n - 1)
    BY <1>2
  <2>2. PICK x \in S : rank[x] = k - 1
    BY <1>2, <2>1
  <2>3. Cardinality({u \in S : u.id < x.id}) = k - 1
    BY <1>3, <2>2
  <2>4. nth(k) \in S /\ Cardinality({u \in S : u.id < nth(k).id}) = k - 1
    BY <2>3
  <2> HIDE DEF nth
  <2> QED
    BY <1>3, <2>4
<1>5. ASSUME NEW r \in S PROVE rank[r] + 1 \in 1..n /\ nth(rank[r] + 1) = r
  <2>1. rank[r] + 1 \in 1..n /\ rank[r] \in Int /\ (rank[r] + 1) - 1 = rank[r]
    BY <1>2
  <2>2. nth(rank[r] + 1) \in S /\ rank[nth(rank[r] + 1)] = rank[r]
    BY <1>4, <2>1
  <2> HIDE DEF nth
  <2> QED
    BY <1>2, <2>1, <2>2
<1>6. T \in Seq(LogEntry) /\ DOMAIN T = 1..n
  <2>1. \A k \in 1..n : Change(NoRule, nth(k)) \in LogEntry
    <3> HIDE DEF nth
    <3> QED
      BY <1>4, NoRuleIsNoRule DEF LogEntry, Change
  <2> HIDE DEF nth
  <2> QED
    BY <1>2, <2>1
<1>7. \A k \in DOMAIN T : T[k].after = nth(k) /\ LogId(T[k]) = nth(k).id /\ nth(k) \in S
  <2> HIDE DEF nth
  <2> QED
    BY <1>4, <1>6 DEF Change, LogId
<1>8. \A r \in S : \E k \in DOMAIN T : T[k].after = r
  <2> HIDE DEF nth, T
  <2> QED
    BY <1>5, <1>6, <1>7
<1>9. history' = (IF Logged THEN history \o T ELSE history) /\ rules' = rules \cup S
  BY DEF InsertRules, n
<1>10. rules' \subseteq Rule /\ IsFiniteSet(rules') /\ Distinct(rules')
  <2>1. IsFiniteSet(rules \cup S)
    BY FS_Union
  <2> QED
    BY <1>9, <2>1 DEF Distinct
<1> HIDE DEF T, nth
<1> DEFINE I == {r.id : r \in S}
<1>11. \A j \in DOMAIN T : LogId(T[j]) \in Recorded \cup I
  BY <1>7
<1>12. \A r \in rules' \ rules : r.id \in Recorded \cup I /\ \E j \in DOMAIN T : T[j].after = r
  BY <1>8, <1>9
<1> HIDE DEF I
<1>13. Edits(I)
  BY <1>6, <1>9, <1>10, <1>11, <1>12, EditsByLog
<1> QED
  BY <1>13 DEF I

LEMMA AppendIsConcat ==
    ASSUME NEW H \in Seq(LogEntry), NEW h, <<h>> \in Seq(LogEntry)
    PROVE  Append(H, h) = H \o <<h>>
BY SMT

LEMMA Updates ==
    ASSUME rules \subseteq Rule, IsFiniteSet(rules), Distinct(rules), history \in Seq(LogEntry),
           NEW r \in rules, NEW u \in Rule, u.id = r.id, UpdateRule(r, u)
    PROVE  Edits({})
<1> DEFINE T == <<Change(r, u)>>
<1>1. T \in Seq(LogEntry) /\ DOMAIN T = {1} /\ T[1] = Change(r, u)
  BY NoRuleIsNoRule DEF Change, LogEntry
<1>2. LogId(T[1]) = r.id /\ T[1].after = u /\ r.id \in Recorded
  BY <1>1, NoRuleIsNoRule DEF Change, LogId, Recorded
<1>3. history' = (IF Logged THEN history \o T ELSE history) /\ rules' = (rules \ {r}) \cup {u}
  <2>1. Append(history, Change(r, u)) = history \o T
    BY <1>1, AppendIsConcat
  <2> QED
    BY <2>1 DEF UpdateRule, Log
<1>4. rules' \subseteq Rule /\ IsFiniteSet(rules') /\ Distinct(rules')
  <2>1. IsFiniteSet(rules \ {r}) /\ IsFiniteSet((rules \ {r}) \cup {u})
    BY FS_RemoveElement, FS_AddElement
  <2> QED
    BY <1>3, <2>1 DEF Distinct
<1> HIDE DEF T
<1> QED
  BY <1>1, <1>2, <1>3, <1>4, EditsByLog

LEMMA Removes ==
    ASSUME rules \subseteq Rule, IsFiniteSet(rules), Distinct(rules), history \in Seq(LogEntry),
           NEW r \in rules, RemoveRule(r)
    PROVE  Edits({})
<1> DEFINE T == <<Change(r, NoRule)>>
<1>1. T \in Seq(LogEntry) /\ DOMAIN T = {1} /\ T[1] = Change(r, NoRule)
  BY NoRuleIsNoRule DEF Change, LogEntry
<1>2. LogId(T[1]) = r.id /\ r.id \in Recorded
  BY <1>1, NoRuleIsNoRule DEF Change, LogId, Recorded
<1>3. history' = (IF Logged THEN history \o T ELSE history) /\ rules' = rules \ {r}
  <2>1. Append(history, Change(r, NoRule)) = history \o T
    BY <1>1, AppendIsConcat
  <2> QED
    BY <2>1 DEF RemoveRule, Log
<1>4. rules' \subseteq Rule /\ IsFiniteSet(rules') /\ Distinct(rules')
  BY <1>3, FS_RemoveElement DEF Distinct
<1> HIDE DEF T
<1> QED
  BY <1>1, <1>2, <1>3, <1>4, EditsByLog

LEMMA Unedited ==
    ASSUME rules \subseteq Rule, IsFiniteSet(rules), Distinct(rules), history \in Seq(LogEntry),
           UNCHANGED <<rules, history>>
    PROVE  Edits({})
BY DEF Edits, Recorded, Versions, LogId
-----------------------------------------------------------------------------
(* The steps that classify nothing.                                             *)

(* From c to d a request writes no row, reads none and prepares no rule.        *)
Kept(c, d) ==
    /\ Fits(d)
    /\ Prepared(d) \subseteq Prepared(c)
    /\ DOMAIN d.mine \subseteq DOMAIN c.mine
    /\ \A t \in DOMAIN d.mine : d.mine[t] = c.mine[t]
    /\ d.pc = "write" => c.pc = "write" /\ d.row = c.row

Quietly(I) ==
    /\ brand' = brand /\ Edits(I)
    /\ nextId' \in Nat /\ nextId <= nextId' /\ I \subseteq 1..(nextId' - 1)
    /\ overrides' \in [Txns -> Codes \cup {NoCode}] /\ snapshot' = snapshot
    /\ call' \in [Sessions -> Call]
    /\ \A s \in Sessions : Kept(call[s], call'[s])
    /\ \A s \in Sessions : \A r \in Prepared(call'[s]) : r.id \notin I

LEMMA Wider ==
    ASSUME NEW a \in Nat, NEW b \in Nat, a <= b
    PROVE  1..(a - 1) \subseteq 1..(b - 1)
OBVIOUS

LEMMA QuietType ==
    ASSUME TypeInv, NEW I, Quietly(I)
    PROVE  TypeInv'
<1> USE DEF TypeInv, Quietly
<1>1. TableInv'
  <2>1. Recorded' \subseteq 1..(nextId' - 1)
    <3>1. Recorded' \subseteq Recorded \cup I
      BY DEF Edits
    <3>2. nextId \in Nat /\ Recorded \subseteq 1..(nextId - 1)
      BY DEF TableInv
    <3>3. 1..(nextId - 1) \subseteq 1..(nextId' - 1)
      BY <3>2, Wider
    <3> QED
      BY <3>1, <3>2, <3>3
  <2>2. nextId' \in Nat \ {0}
    BY DEF TableInv
  <2> QED
    BY <2>1, <2>2 DEF TableInv, Edits, Distinct
<1>2. ASSUME NEW s \in Sessions PROVE Fits(call[s])' /\ Drawn(s)'
  <2>1. Kept(call[s], call'[s]) /\ Drawn(s)
    OBVIOUS
  <2>2. Fits(call'[s])
    BY <2>1 DEF Kept
  <2>3. Prepared(call'[s]) \subseteq Prepared(call[s])
    BY <2>1 DEF Kept
  <2>4. IsFiniteSet(Prepared(call'[s])) /\ Prepared(call'[s]) \subseteq Rule /\ Distinct(Prepared(call'[s]))
    BY <2>1, <2>3, FS_Subset DEF Drawn, Distinct
  <2>5. \A r \in Prepared(call'[s]) : r.id \in 1..(nextId' - 1) /\ r.id \notin Recorded'
    <3>1. Recorded' \subseteq Recorded \cup I
      BY DEF Edits
    <3>2. nextId \in Nat
      BY DEF TableInv
    <3> QED
      BY <2>1, <2>3, <3>1, <3>2 DEF Drawn
  <2> QED
    BY <2>2, <2>4, <2>5 DEF Drawn, Fits, Prepared, Distinct
<1>3. ASSUME NEW s \in Sessions, NEW u \in Sessions, s # u PROVE Apart(s, u)'
  <2>1. Apart(s, u) /\ Kept(call[s], call'[s]) /\ Kept(call[u], call'[u])
    BY <1>3
  <2> QED
    BY <2>1 DEF Apart, Kept, Prepared
<1> QED
  BY <1>1, <1>2, <1>3

LEMMA NoRowsYet == <<>> \in PartialRows /\ DOMAIN <<>> = {}
<1>1. <<>> \in [{} -> Row] /\ {} \in SUBSET Txns
  OBVIOUS
<1> QED
  BY <1>1 DEF PartialRows

LEMMA IdleCall == Idle \in Call /\ Fits(Idle) /\ Prepared(Idle) = {}
BY NoRowsYet DEF Idle, Call, Pcs, Ops, Fits, Prepared

LEMMA NothingPrepared ==
    ASSUME TypeInv, NEW s \in Sessions
    PROVE  /\ Kept(call[s], call[s])
           /\ \A r \in Prepared(call[s]) : r.id \in 1..(nextId - 1) /\ r.id \notin Recorded
           /\ call[s] \in Call
BY DEF TypeInv, TableInv, Kept, Drawn

LEMMA Disturbed ==
    ASSUME NEW c \in Call, Fits(c)
    PROVE  /\ [c EXCEPT !.alone = FALSE] \in Call
           /\ Kept(c, [c EXCEPT !.alone = FALSE])
BY DEF Call, Kept, Fits, Prepared

LEMMA BeginQuiet ==
    ASSUME TypeInv, NEW s \in Sessions, NEW c \in Call, Fits(c), Prepared(c) = {},
           c.mine = <<>>, c.pc # "write", Begin(s, c), UNCHANGED data
    PROVE  Quietly({})
<1> DEFINE b == \A v \in Sessions \ {s} : call[v].pc = "idle"
<1>a. b \in BOOLEAN
  OBVIOUS
<1>b. call'[s] = [c EXCEPT !.alone = b]
  BY DEF Begin
<1> HIDE DEF b
<1>1. /\ [c EXCEPT !.alone = b] \in Call /\ Fits([c EXCEPT !.alone = b])
      /\ Prepared([c EXCEPT !.alone = b]) = {}
      /\ [c EXCEPT !.alone = b].mine = <<>> /\ [c EXCEPT !.alone = b].pc = c.pc
  <2>1. [c EXCEPT !.alone = b] \in Call
    BY <1>a DEF Call
  <2>2. \A i \in {"pc", "op", "items", "row", "mine", "file", "added"} : [c EXCEPT !.alone = b][i] = c[i]
    BY DEF Call
  <2> QED
    BY <2>1, <2>2 DEF Fits, Prepared
<1>2. Kept(call[s], [c EXCEPT !.alone = b])
  BY <1>1, NoRowsYet DEF Kept
<1>3. ASSUME NEW u \in Sessions, u # s
      PROVE  call'[u] \in Call /\ Kept(call[u], call'[u])
  <2>1. call'[u] = IF call[u].pc = "idle" THEN call[u] ELSE [call[u] EXCEPT !.alone = FALSE]
    BY <1>3 DEF Begin
  <2>2. call[u] \in Call /\ Fits(call[u])
    BY DEF TypeInv, TableInv
  <2> QED
    BY <2>1, <2>2, Disturbed, NothingPrepared
<1>4. call'[s] = [c EXCEPT !.alone = b]
  BY <1>b
<1>5. call' \in [Sessions -> Call]
  BY <1>1, <1>3, <1>4 DEF Begin
<1>6. Edits({})
  BY Unedited DEF TypeInv, TableInv, data
<1>7. \A u \in Sessions : Kept(call[u], call'[u])
  BY <1>2, <1>3, <1>4
<1>8. nextId \in Nat /\ nextId' = nextId /\ nextId <= nextId
  BY DEF TypeInv, TableInv, data
<1> QED
  BY <1>5, <1>6, <1>7, <1>8 DEF Quietly, TypeInv, TableInv, data

(* A transaction of another request only tells a request that it is not alone.  *)
LEMMA SingleQuiet ==
    ASSUME TypeInv, Single
    PROVE  /\ call' \in [Sessions -> Call]
           /\ \A u \in Sessions : Kept(call[u], call'[u]) /\ Prepared(call'[u]) = Prepared(call[u])
<1>1. ASSUME NEW u \in Sessions
      PROVE  call'[u] \in Call /\ Kept(call[u], call'[u]) /\ Prepared(call'[u]) = Prepared(call[u])
  <2>1. call'[u] = IF call[u].pc = "idle" THEN call[u] ELSE [call[u] EXCEPT !.alone = FALSE]
    BY DEF Single
  <2>2. call[u] \in Call /\ Fits(call[u])
    BY DEF TypeInv, TableInv
  <2>3. Prepared([call[u] EXCEPT !.alone = FALSE]) = Prepared(call[u])
    BY <2>2 DEF Prepared, Call
  <2> QED
    BY <2>1, <2>2, <2>3, Disturbed, NothingPrepared
<1> QED
  BY <1>1 DEF Single

(* A step of one request leaves the others alone.                               *)
LEMMA StepQuiet ==
    ASSUME TypeInv, NEW s \in Sessions, NEW d \in Call, call' = [call EXCEPT ![s] = d],
           Kept(call[s], d)
    PROVE  /\ call' \in [Sessions -> Call]
           /\ \A u \in Sessions : Kept(call[u], call'[u])
           /\ \A u \in Sessions \ {s} : call'[u] = call[u]
           /\ call'[s] = d
BY NothingPrepared DEF TypeInv, TableInv
(* A settled rule is one the table can hold.                                    *)
LEMMA SettledRule ==
    ASSUME NEW i \in Nat, NEW q \in Item, q.code # NoCode, NEW p \in Int,
           NEW dir \in Directions \cup {"any"}
    PROVE  NewRule(i, dir, q, p) \in Rule /\ NewRule(i, dir, q, p).id = i
BY DEF NewRule, Rule, Item, TypeFor

LEMMA DirectionsOfItems ==
    ASSUME NEW q \in Item, q.code # NoCode
    PROVE  SettleDirection(q) \in Directions /\ BatchDirection(q) \in Directions
<1>1. q.code \in Codes
  BY DEF Item
<1>2. DictDir[q.code] \in Directions
  BY <1>1, RulesAssumption
<1> QED
  BY <1>2 DEF SettleDirection, BatchDirection, Directions

(* One new rule with the next id.                                               *)
LEMMA InsertsNext ==
    ASSUME TypeInv, NEW r \in Rule, r.id = nextId, InsertRules({r})
    PROVE  Edits({nextId})
<1>1. IsFiniteSet({r}) /\ Distinct({r}) /\ {u.id : u \in {r}} = {nextId}
  <2>1. IsFiniteSet({r})
    BY FS_Singleton
  <2> QED
    BY <2>1 DEF Distinct
<1>2. \A u \in rules : u.id # nextId
  <2>1. nextId \in Nat /\ Recorded \subseteq 1..(nextId - 1)
    BY DEF TypeInv, TableInv
  <2>2. \A u \in rules : u.id \in Recorded
    BY DEF Recorded
  <2> QED
    BY <2>1, <2>2
<1>3. Edits({u.id : u \in {r}})
  BY <1>1, <1>2, Inserts DEF TypeInv, TableInv
<1> QED
  BY <1>1, <1>3

LEMMA SettleCheckQuiet ==
    ASSUME TypeInv, NEW s \in Sessions, NEW q \in Requests, SettleCheck(s, q)
    PROVE  \E I : Quietly(I)
<1> DEFINE c == [Idle EXCEPT !.pc = "priority", !.op = "settle", !.items = <<q>>]
<1>1. q \in Item /\ q.code # NoCode
  BY RulesAssumption DEF SettleCheck
<1>2. c \in Call
  <2>1. <<q>> \in Seq(Item)
    BY <1>1
  <2> QED
    BY <2>1, IdleCall DEF Call, Pcs, Ops
<1>a. Fits(c) /\ Prepared(c) = {} /\ c.mine = <<>> /\ c.pc # "write"
  <2>1. c.pc = "priority" /\ c.op = "settle" /\ c.mine = <<>> /\ c.items = <<q>>
    BY DEF Idle
  <2>2. c.items[1] = q /\ c.items # <<>>
    BY <2>1
  <2> HIDE DEF c
  <2> QED
    BY <1>1, <2>1, <2>2, NoRowsYet DEF Fits, Prepared
<1>3. Begin(s, c) /\ UNCHANGED data
  BY DEF SettleCheck
<1> HIDE DEF c
<1> QED
  BY <1>2, <1>a, <1>3, BeginQuiet

LEMMA SettlePriorityQuiet ==
    ASSUME TypeInv, NEW s \in Sessions, SettlePriority(s)
    PROVE  \E I : Quietly(I)
<1> DEFINE d == [call[s] EXCEPT !.pc = "settle", !.prio = NewPrio(rules)]
<1>1. call[s] \in Call /\ Fits(call[s]) /\ call[s].pc = "priority"
  BY DEF TypeInv, TableInv, SettlePriority
<1>2. NewPrio(rules) \in Int
  BY NewPrioIsAbove DEF TypeInv, TableInv
<1>3. d \in Call /\ Kept(call[s], d) /\ Prepared(d) = {}
  BY <1>1, <1>2 DEF Call, Kept, Fits, Prepared, Pcs
<1>4. call' = [call EXCEPT ![s] = d]
  BY DEF SettlePriority
<1> HIDE DEF d
<1>5. /\ call' \in [Sessions -> Call] /\ \A u \in Sessions : Kept(call[u], call'[u])
  BY <1>3, <1>4, StepQuiet
<1>6. Edits({})
  BY Unedited DEF TypeInv, TableInv, SettlePriority, data
<1>7. nextId \in Nat /\ nextId' = nextId
  BY DEF TypeInv, TableInv, SettlePriority, data
<1>8. Quietly({})
  BY <1>5, <1>6, <1>7 DEF Quietly, TypeInv, TableInv, SettlePriority, data
<1> QED
  BY <1>8

LEMMA SettleWriteQuiet ==
    ASSUME TypeInv, NEW s \in Sessions, SettleWrite(s)
    PROVE  \E I : Quietly(I)
<1> DEFINE q == call[s].items[1]
           r == NewRule(nextId, SettleDirection(q), q, call[s].prio)
           d == [call[s] EXCEPT !.pc = "refresh", !.todo = {FileOf[q.txn]}]
<1>1. call[s] \in Call /\ Fits(call[s]) /\ call[s].pc = "settle"
  BY DEF TypeInv, TableInv, SettleWrite
<1>2. q \in Item /\ q.code # NoCode
  BY <1>1 DEF Fits, Call
<1>3. r \in Rule /\ r.id = nextId
  <2>1. call[s].prio \in Int /\ nextId \in Nat
    BY <1>1 DEF Call, TypeInv, TableInv
  <2> QED
    BY <1>2, <2>1, SettledRule, DirectionsOfItems
<1>4. FileOf[q.txn] \in Files /\ q.txn \in Txns /\ q.code \in Codes
  BY <1>2, RulesAssumption DEF Item
<1>5. d \in Call /\ Kept(call[s], d) /\ Prepared(d) = {}
  <2> HIDE DEF q
  <2> QED
    BY <1>1, <1>4 DEF Call, Kept, Fits, Prepared, Pcs
<1>6. /\ call' = [call EXCEPT ![s] = d] /\ InsertRules({r})
      /\ nextId' = nextId + 1 /\ brand' = brand /\ snapshot' = snapshot
      /\ overrides' = [overrides EXCEPT ![q.txn] = q.code]
  BY DEF SettleWrite
<1> HIDE DEF d, r, q
<1>7. /\ call' \in [Sessions -> Call] /\ \A u \in Sessions : Kept(call[u], call'[u])
  BY <1>5, <1>6, StepQuiet
<1>8. Edits({nextId})
  BY <1>3, <1>6, InsertsNext
<1>9. nextId \in Nat \ {0} /\ overrides' \in [Txns -> Codes \cup {NoCode}]
  BY <1>4, <1>6 DEF TypeInv, TableInv
<1>10. \A u \in Sessions : \A v \in Prepared(call'[u]) : v.id # nextId
  BY <1>7, <1>9, NothingPrepared DEF Kept
<1>11. Quietly({nextId})
  BY <1>6, <1>7, <1>8, <1>9, <1>10 DEF Quietly
<1> QED
  BY <1>11

LEMMA BatchStartQuiet ==
    ASSUME TypeInv, NEW s \in Sessions, NEW B \in Batches, NEW dual \in BOOLEAN, BatchStart(s, B, dual)
    PROVE  \E I : Quietly(I)
<1> DEFINE c == [Idle EXCEPT !.pc = "item", !.op = "batch", !.items = B, !.dual = dual,
                             !.todo = {FileOf[B[i].txn] : i \in DOMAIN B}]
<1>1. B \in Seq(Item) /\ {FileOf[B[i].txn] : i \in DOMAIN B} \subseteq Files
  <2>1. B \in Seq(Item)
    BY RulesAssumption
  <2>2. ASSUME NEW i \in DOMAIN B PROVE FileOf[B[i].txn] \in Files
    <3>1. B[i] \in Item
      BY <2>1
    <3>2. B[i].txn \in Txns
      BY <3>1 DEF Item
    <3> QED
      BY <3>2, RulesAssumption
  <2> QED
    BY <2>1, <2>2
<1>2. c \in Call
  BY <1>1, IdleCall DEF Call, Pcs, Ops
<1>a. Fits(c) /\ Prepared(c) = {} /\ c.mine = <<>> /\ c.pc # "write"
  <2>1. c.pc = "item" /\ c.mine = <<>> /\ c.row = <<>> /\ c.added = {} /\ c.op = "batch"
    BY DEF Idle
  <2> HIDE DEF c
  <2> QED
    BY <2>1, NoRowsYet DEF Fits, Prepared
<1>3. Begin(s, c) /\ UNCHANGED data
  BY DEF BatchStart
<1> HIDE DEF c
<1> QED
  BY <1>2, <1>a, <1>3, BeginQuiet

LEMMA BatchCheckQuiet ==
    ASSUME TypeInv, NEW s \in Sessions, BatchCheck(s)
    PROVE  \E I : Quietly(I)
<1> DEFINE q == Head(call[s].items)
           d == IF q.code = NoCode THEN Idle
                ELSE IF ~(call[s].dual /\ q.field2 # NoField) /\ BatchConflict(s, q)
                     THEN [call[s] EXCEPT !.items = Tail(@)]
                     ELSE [call[s] EXCEPT !.pc = "insert"]
<1>1. call[s] \in Call /\ Fits(call[s]) /\ call[s].pc = "item" /\ call[s].items # <<>>
  BY DEF TypeInv, TableInv, BatchCheck
<1>2. q \in Item /\ Tail(call[s].items) \in Seq(Item)
  BY <1>1 DEF Call
<1>3. d \in Call /\ Kept(call[s], d)
  <2>1. CASE q.code = NoCode
    <3>1. Kept(call[s], Idle)
      BY IdleCall, NoRowsYet DEF Kept, Idle
    <3> QED
      BY <2>1, <3>1, IdleCall
  <2>2. CASE q.code # NoCode /\ d = [call[s] EXCEPT !.items = Tail(@)]
    <3> HIDE DEF q, d
    <3> QED
      BY <1>1, <1>2, <2>2 DEF Call, Kept, Fits, Prepared
  <2>3. CASE q.code # NoCode /\ d = [call[s] EXCEPT !.pc = "insert"]
    <3>1. Head(call[s].items).code # NoCode
      BY <2>3
    <3> HIDE DEF q, d
    <3> QED
      BY <1>1, <1>2, <2>3, <3>1 DEF Call, Kept, Fits, Prepared, Pcs
  <2> QED
    BY <2>1, <2>2, <2>3
<1>4. call' = [call EXCEPT ![s] = d]
  BY DEF BatchCheck
<1> HIDE DEF d, q
<1>5. /\ call' \in [Sessions -> Call] /\ \A u \in Sessions : Kept(call[u], call'[u])
  BY <1>3, <1>4, StepQuiet
<1>6. Edits({})
  BY Unedited DEF TypeInv, TableInv, BatchCheck, data
<1>7. /\ nextId \in Nat /\ UNCHANGED <<brand, nextId, overrides, snapshot>>
      /\ overrides \in [Txns -> Codes \cup {NoCode}]
  BY DEF TypeInv, TableInv, BatchCheck, data
<1>8. Quietly({})
  BY <1>5, <1>6, <1>7 DEF Quietly
<1> QED
  BY <1>8

LEMMA BatchCommitQuiet ==
    ASSUME TypeInv, NEW s \in Sessions, BatchCommit(s)
    PROVE  \E I : Quietly(I)
<1> DEFINE I == {r.id : r \in call[s].added}
           settled == {call[s].row[i] : i \in DOMAIN call[s].row}
           d == [call[s] EXCEPT !.pc = "refresh", !.row = <<>>]
<1>1. call[s] \in Call /\ Fits(call[s]) /\ call[s].pc = "item" /\ Drawn(s)
  BY DEF TypeInv, TableInv, BatchCommit
<1>2. Prepared(call[s]) = call[s].added
  BY <1>1 DEF Prepared
<1>3. d \in Call /\ Kept(call[s], d) /\ Prepared(d) = {}
  <2>1. <<>> \in Seq(Item) /\ "refresh" \in Pcs
    BY DEF Pcs
  <2>2. d \in Call /\ d.pc = "refresh" /\ d.mine = call[s].mine
    BY <1>1, <2>1 DEF Call
  <2>3. DOMAIN call[s].mine = {}
    BY <1>1 DEF Fits
  <2> HIDE DEF d
  <2> QED
    BY <2>2, <2>3 DEF Kept, Fits, Prepared
<1>4. Edits(I)
  <2>1. \A r \in call[s].added, u \in rules : r.id # u.id
    BY <1>1, <1>2 DEF Drawn, Recorded
  <2>2. InsertRules(call[s].added)
    BY DEF BatchCommit
  <2> QED
    BY <1>1, <1>2, <2>1, <2>2, Inserts DEF TypeInv, TableInv, Drawn
<1>5. overrides' \in [Txns -> Codes \cup {NoCode}]
  <2>1. \A q \in settled : q.code \in Codes \cup {NoCode}
    <3>1. call[s].row \in Seq(Item)
      BY <1>1 DEF Fits
    <3>2. \A q \in settled : q \in Item
      BY <3>1
    <3> HIDE DEF settled
    <3> QED
      BY <3>2 DEF Item
  <2>2. overrides' = [t \in Txns |-> IF \E q \in settled : q.txn = t
                                     THEN (CHOOSE q \in settled : q.txn = t).code
                                     ELSE overrides[t]]
    BY DEF BatchCommit
  <2> HIDE DEF settled
  <2> QED
    BY <2>1, <2>2 DEF TypeInv, TableInv
<1>6. call' = [call EXCEPT ![s] = d] /\ UNCHANGED <<brand, nextId, snapshot>>
  BY DEF BatchCommit
<1>7. /\ call' \in [Sessions -> Call] /\ \A u \in Sessions : Kept(call[u], call'[u])
      /\ \A u \in Sessions \ {s} : call'[u] = call[u]
      /\ call'[s] = d
  <2> HIDE DEF d
  <2> QED
    BY <1>3, <1>6, StepQuiet
<1>8. nextId \in Nat /\ nextId <= nextId' /\ I \subseteq 1..(nextId' - 1)
  BY <1>1, <1>2, <1>6 DEF Drawn, TypeInv, TableInv
<1>9. ASSUME NEW u \in Sessions, NEW v \in Prepared(call'[u]) PROVE v.id \notin I
  <2>1. u # s /\ v \in Prepared(call[u])
    <3> HIDE DEF d
    <3> QED
      BY <1>3, <1>7, <1>9
  <2>2. Apart(s, u)
    BY <2>1 DEF TypeInv
  <2> QED
    BY <1>2, <2>1, <2>2 DEF Apart
<1> HIDE DEF I, d
<1>10. Quietly(I)
  BY <1>4, <1>5, <1>6, <1>7, <1>8, <1>9 DEF Quietly
<1> QED
  BY <1>10

(* The ids a statement adds are recorded or new: no request has drawn them.     *)
LEMMA NotDrawn ==
    ASSUME TypeInv, NEW I, \A i \in I : i \in Recorded \/ (i \in Nat /\ nextId <= i)
    PROVE  \A s \in Sessions : \A r \in Prepared(call[s]) : r.id \notin I
<1>1. nextId \in Nat
  BY DEF TypeInv, TableInv
<1> QED
  BY <1>1, NothingPrepared

LEMMA SingleEdits ==
    ASSUME TypeInv, Single, NEW I, Edits(I), brand' = brand, snapshot' = snapshot,
           nextId' \in Nat, nextId <= nextId', I \subseteq 1..(nextId' - 1),
           overrides' \in [Txns -> Codes \cup {NoCode}],
           \A i \in I : i \in Recorded \/ (i \in Nat /\ nextId <= i)
    PROVE  Quietly(I)
BY SingleQuiet, NotDrawn DEF Quietly

LEMMA StepEdits ==
    ASSUME TypeInv, NEW s \in Sessions, NEW d \in Call, call' = [call EXCEPT ![s] = d],
           Kept(call[s], d), NEW I, Edits(I), brand' = brand, snapshot' = snapshot,
           nextId' \in Nat, nextId <= nextId', I \subseteq 1..(nextId' - 1),
           overrides' \in [Txns -> Codes \cup {NoCode}],
           \A i \in I : i \in Recorded \/ (i \in Nat /\ nextId <= i)
    PROVE  Quietly(I)
<1>1. /\ call' \in [Sessions -> Call]
      /\ \A u \in Sessions : Kept(call[u], call'[u])
  BY StepQuiet
<1>2. \A u \in Sessions : \A r \in Prepared(call'[u]) : r.id \notin I
  BY <1>1, NotDrawn DEF Kept
<1> QED
  BY <1>1, <1>2 DEF Quietly

LEMMA Table ==
    ASSUME TypeInv
    PROVE  /\ rules \subseteq Rule /\ IsFiniteSet(rules) /\ Distinct(rules)
           /\ history \in Seq(LogEntry)
           /\ nextId \in Nat /\ nextId <= nextId /\ 0 < nextId /\ Recorded \subseteq 1..(nextId - 1)
           /\ overrides \in [Txns -> Codes \cup {NoCode}]
           /\ {} \subseteq 1..(nextId - 1)
BY DEF TypeInv, TableInv

LEMMA DeleteReadQuiet ==
    ASSUME TypeInv, NEW s \in Sessions, NEW i \in 1..(nextId - 1), DeleteRead(s, i)
    PROVE  \E I : Quietly(I)
<1> DEFINE F == {FileOf[t] : t \in {u \in Txns : snapshot[u].rule = i}}
           c == [Idle EXCEPT !.pc = "delete", !.op = "delete", !.id = i, !.todo = F]
<1>1. F \subseteq Files /\ i \in Nat
  BY RulesAssumption, Table
<1>2. c \in Call
  <2> HIDE DEF F
  <2> QED
    BY <1>1, IdleCall DEF Call, Pcs, Ops
<1>3. Fits(c) /\ Prepared(c) = {} /\ c.mine = <<>> /\ c.pc # "write"
  <2>1. c.pc = "delete" /\ c.mine = <<>>
    BY DEF Idle
  <2> HIDE DEF c
  <2> QED
    BY <2>1, NoRowsYet DEF Fits, Prepared
<1>4. Begin(s, c) /\ UNCHANGED data
  BY DEF DeleteRead
<1> HIDE DEF c
<1> QED
  BY <1>2, <1>3, <1>4, BeginQuiet

LEMMA RerunStartQuiet ==
    ASSUME TypeInv, NEW s \in Sessions, NEW F \in SUBSET Files, RerunStart(s, F)
    PROVE  \E I : Quietly(I)
<1> DEFINE c == [Idle EXCEPT !.pc = "refresh", !.op = "rerun", !.todo = F]
<1>1. c \in Call
  BY IdleCall DEF Call, Pcs, Ops
<1>2. Fits(c) /\ Prepared(c) = {} /\ c.mine = <<>> /\ c.pc # "write"
  <2>1. c.pc = "refresh" /\ c.mine = <<>>
    BY DEF Idle
  <2> HIDE DEF c
  <2> QED
    BY <2>1, NoRowsYet DEF Fits, Prepared
<1>3. Begin(s, c) /\ UNCHANGED data
  BY DEF RerunStart
<1> HIDE DEF c
<1> QED
  BY <1>1, <1>2, <1>3, BeginQuiet

LEMMA ImportReadQuiet ==
    ASSUME TypeInv, NEW s \in Sessions, NEW F \in Imports, ImportRead(s, F)
    PROVE  \E I : Quietly(I)
<1> DEFINE K == {Key(r) : r \in rules}
           p == NewPrio(rules) - 9
           c == [Idle EXCEPT !.pc = "import", !.op = "import", !.row = F, !.added = K, !.prio = p]
<1>1. K \subseteq RuleKey /\ p \in Int /\ F \in Seq(Rule)
  <2>1. \A r \in Rule : Key(r) \in RuleKey
    BY DEF Key, RuleKey, Rule
  <2>2. NewPrio(rules) \in Int
    BY NewPrioIsAbove, Table
  <2> QED
    BY <2>1, <2>2, RulesAssumption, Table
<1>2. c \in Call
  <2> HIDE DEF K, p
  <2> QED
    BY <1>1, IdleCall DEF Call, Pcs, Ops
<1>3. Fits(c) /\ Prepared(c) = {} /\ c.mine = <<>> /\ c.pc # "write"
  <2>1. c.pc = "import" /\ c.mine = <<>> /\ c.row = F
    BY DEF Idle
  <2> HIDE DEF c
  <2> QED
    BY <1>1, <2>1, NoRowsYet DEF Fits, Prepared
<1>4. Begin(s, c) /\ UNCHANGED data
  BY DEF ImportRead
<1> HIDE DEF c
<1> QED
  BY <1>2, <1>3, <1>4, BeginQuiet

LEMMA DeleteWriteQuiet ==
    ASSUME TypeInv, NEW s \in Sessions, DeleteWrite(s)
    PROVE  \E I : Quietly(I)
<1>1. call[s] \in Call /\ Fits(call[s]) /\ call[s].pc = "delete"
  BY DEF TypeInv, TableInv, DeleteWrite
<1>2. DOMAIN call[s].mine = {}
  BY <1>1 DEF Fits
<1>3. UNCHANGED <<brand, nextId, overrides, snapshot>>
  BY DEF DeleteWrite
<1>4. ASSUME NEW d \in Call, call' = [call EXCEPT ![s] = d], Kept(call[s], d), Edits({})
      PROVE  Quietly({})
  BY <1>3, <1>4, StepEdits, Table
<1>5. CASE ById(call[s].id) = {}
  <2>1. Kept(call[s], Idle)
    BY IdleCall, NoRowsYet DEF Kept, Idle
  <2>2. call' = [call EXCEPT ![s] = Idle] /\ UNCHANGED <<rules, history>>
    BY <1>5 DEF DeleteWrite
  <2> QED
    BY <1>4, <2>1, <2>2, IdleCall, Unedited, Table
<1>6. CASE ById(call[s].id) # {}
  <2> DEFINE d == [call[s] EXCEPT !.pc = "refresh"]
  <2>1. d \in Call /\ Kept(call[s], d)
    BY <1>1, <1>2 DEF Call, Kept, Fits, Prepared, Pcs
  <2>2. call' = [call EXCEPT ![s] = d]
    BY <1>6 DEF DeleteWrite
  <2>3. PICK r \in ById(call[s].id) : RemoveRule(r) \/ UpdateRule(r, [r EXCEPT !.enabled = FALSE])
    BY <1>6 DEF DeleteWrite
  <2>4. r \in rules /\ r \in Rule
    BY Table DEF ById
  <2>5. [r EXCEPT !.enabled = FALSE] \in Rule /\ [r EXCEPT !.enabled = FALSE].id = r.id
    BY <2>4 DEF Rule
  <2>6. Edits({})
    BY <2>3, <2>4, <2>5, Removes, Updates, Table
  <2> HIDE DEF d
  <2> QED
    BY <1>4, <2>1, <2>2, <2>6
<1> QED
  BY <1>5, <1>6

(* Positions of a file numbered from zero.                                      *)
PositionRank(K) == [k \in K |-> Cardinality({j \in K : j < k})]
LEMMA PositionRanks ==
    ASSUME NEW K, IsFiniteSet(K), NEW w \in [K -> Int], \A k \in K : w[k] = k
    PROVE  /\ Cardinality(K) \in Nat
           /\ PositionRank(K) \in [K -> 0..(Cardinality(K) - 1)]
           /\ \A x, y \in K : PositionRank(K)[x] = PositionRank(K)[y] => x = y
<1> DEFINE below == [k \in K |-> {j \in K : j < k}]
<1>1. \A x, y \in K : w[x] = w[y] => x = y
  OBVIOUS
<1>2. below \in [K -> SUBSET K] /\ \A x, y \in K : y \in below[x] <=> w[y] < w[x]
  OBVIOUS
<1>3. PositionRank(K) \in [K -> Nat] /\ \A k \in K : PositionRank(K)[k] = Cardinality(below[k])
  <2>1. \A k \in K : Cardinality(below[k]) \in Nat
    <3> HIDE DEF below
    <3> QED
      BY <1>2, FS_Subset, FS_CardinalityType
  <2>2. PositionRank(K) = [k \in K |-> Cardinality(below[k])]
    BY DEF PositionRank
  <2> HIDE DEF below
  <2> QED
    BY <2>1, <2>2
<1> HIDE DEF below
<1> QED
  BY <1>1, <1>2, <1>3, Ranks

LEMMA ImportWriteQuiet ==
    ASSUME TypeInv, NEW s \in Sessions, ImportWrite(s)
    PROVE  \E I : Quietly(I)
<1> DEFINE F == call[s].row
           p == call[s].prio
           kept == {k \in DOMAIN F : /\ Key(F[k]) \notin call[s].added
                                     /\ \A j \in 1..(k - 1) : Key(F[j]) # Key(F[k])}
           n == Cardinality(kept)
           rank == PositionRank(kept)
           new(k) == [F[k] EXCEPT !.id = nextId + rank[k], !.prio = p + rank[k]]
           S == {new(k) : k \in kept}
           I == {r.id : r \in S}
<1>1. call[s] \in Call /\ Fits(call[s]) /\ call[s].pc = "import" /\ F \in Seq(Rule) /\ p \in Int
  BY DEF TypeInv, TableInv, ImportWrite, Fits, Call
<1>2. kept \subseteq Int /\ IsFiniteSet(kept) /\ \A k \in kept : F[k] \in Rule
  <2>1. DOMAIN F = 1..Len(F) /\ Len(F) \in Nat
    BY <1>1
  <2>2. IsFiniteSet(1..Len(F)) /\ kept \subseteq 1..Len(F)
    BY <2>1, FS_Interval
  <2>3. IsFiniteSet(kept)
    <3> HIDE DEF kept
    <3> QED
      BY <2>2, FS_Subset
  <2> QED
    BY <1>1, <2>1, <2>2, <2>3
<1>3. /\ n \in Nat /\ rank \in [kept -> 0..(n - 1)]
      /\ \A x, y \in kept : rank[x] = rank[y] => x = y
  <2> DEFINE w == [k \in kept |-> k]
  <2>1. w \in [kept -> Int] /\ \A k \in kept : w[k] = k
    BY <1>2
  <2> HIDE DEF kept, w
  <2>2. IsFiniteSet(kept)
    BY <1>2
  <2> QED
    BY <2>1, <2>2, PositionRanks
<1>4. S = {[F[k] EXCEPT !.id = nextId + Cardinality({j \in kept : j < k}),
                        !.prio = p + Cardinality({j \in kept : j < k})] : k \in kept}
  <2> HIDE DEF kept
  <2> QED
    BY DEF PositionRank
<1>5. InsertRules(S) /\ nextId' = nextId + n
  BY <1>4 DEF ImportWrite
<1> HIDE DEF kept, n, rank
<1>6. \A k \in kept : new(k) \in Rule /\ new(k).id = nextId + rank[k]
  <2> SUFFICES ASSUME NEW k \in kept PROVE new(k) \in Rule /\ new(k).id = nextId + rank[k]
    OBVIOUS
  <2>1. F[k] \in Rule /\ nextId + rank[k] \in Nat /\ p + rank[k] \in Int
    BY <1>1, <1>2, <1>3, Table
  <2> QED
    BY <2>1 DEF Rule
<1>7. S \subseteq Rule /\ IsFiniteSet(S) /\ Distinct(S)
  <2>1. S \subseteq Rule
    BY <1>6
  <2>2. Distinct(S)
    <3> SUFFICES ASSUME NEW r \in S, NEW u \in S, r.id = u.id PROVE r = u
      BY DEF Distinct
    <3>0. PICK j \in kept, k \in kept : r = new(j) /\ u = new(k)
      OBVIOUS
    <3>1. rank[j] = rank[k]
      <4> HIDE DEF new
      <4> QED
        BY <1>3, <1>6, <3>0, Table
    <3>2. j = k
      BY <1>3, <3>1
    <3> QED
      BY <3>0, <3>2
  <2>3. IsFiniteSet(S)
    <3> DEFINE f == [k \in kept |-> new(k)]
    <3>1. f \in Surjection(kept, S)
      BY DEF Surjection
    <3> HIDE DEF f, S
    <3> QED
      BY <1>2, <3>1, FS_Surjection
  <2> QED
    BY <2>1, <2>2, <2>3
<1>8. \A i \in I : i \in Nat /\ nextId <= i /\ i \in 1..(nextId' - 1)
  <2>1. \A k \in kept : new(k).id \in Nat /\ nextId <= new(k).id /\ new(k).id \in 1..(nextId' - 1)
    <3> HIDE DEF new
    <3> QED
      BY <1>3, <1>5, <1>6, Table
  <2> HIDE DEF new
  <2> QED
    BY <2>1
<1>9. Edits(I)
  <2>1. \A r \in S, u \in rules : r.id # u.id
    <3>1. \A u \in rules : u.id \in 1..(nextId - 1)
      BY Table DEF Recorded
    <3>2. \A r \in S : r.id \in I
      OBVIOUS
    <3> HIDE DEF S, I
    <3> QED
      BY <1>8, <3>1, <3>2, Table
  <2> HIDE DEF S
  <2> QED
    BY <1>5, <1>7, <2>1, Inserts, Table
<1>10. Kept(call[s], Idle)
  BY IdleCall, NoRowsYet DEF Kept, Idle
<1>11. /\ call' = [call EXCEPT ![s] = Idle] /\ UNCHANGED <<brand, overrides, snapshot>>
  BY DEF ImportWrite
<1>a. nextId' \in Nat /\ nextId <= nextId'
  <2> HIDE DEF S, I
  <2> QED
    BY <1>3, <1>5, Table
<1> HIDE DEF S, I
<1>12. Quietly(I)
  BY <1>8, <1>9, <1>10, <1>11, <1>a, IdleCall, StepEdits, Table
<1> QED
  BY <1>12
LEMMA CreateQuiet ==
    ASSUME TypeInv, NEW d \in Drafts, NEW p \in Int, Create(d, p)
    PROVE  \E I : Quietly(I)
<1> DEFINE r == [d EXCEPT !.id = nextId, !.prio = p]
<1>1. r \in Rule /\ r.id = nextId
  BY RulesAssumption, Table DEF Rule
<1>2. Single /\ InsertRules({r}) /\ nextId' = nextId + 1 /\ UNCHANGED <<brand, overrides, snapshot>>
  BY DEF Create
<1> HIDE DEF r
<1>3. Edits({nextId})
  BY <1>1, <1>2, InsertsNext
<1>4. nextId' \in Nat /\ nextId <= nextId' /\ {nextId} \subseteq 1..(nextId' - 1)
  BY <1>2, Table
<1>5. \A i \in {nextId} : i \in Nat /\ nextId <= i
  BY Table
<1>6. Quietly({nextId})
  BY <1>2, <1>3, <1>4, <1>5, SingleEdits, Table
<1> QED
  BY <1>6

(* The other statements on the rules add no id.                                 *)
LEMMA SingleKeeps ==
    ASSUME TypeInv, Single, Edits({}), UNCHANGED <<brand, nextId, snapshot>>,
           overrides' \in [Txns -> Codes \cup {NoCode}]
    PROVE  \E I : Quietly(I)
<1>1. Quietly({})
  BY SingleEdits, Table
<1> QED
  BY <1>1

LEMMA PutQuiet ==
    ASSUME TypeInv, NEW r \in rules, NEW d \in Drafts, Put(r, d)
    PROVE  \E I : Quietly(I)
<1> DEFINE u == [d EXCEPT !.id = r.id, !.prio = r.prio]
<1>1. u \in Rule /\ u.id = r.id
  BY RulesAssumption, Table DEF Rule
<1>2. Single /\ UpdateRule(r, u) /\ UNCHANGED <<brand, nextId, overrides, snapshot>>
  BY DEF Put
<1> HIDE DEF u
<1> QED
  BY <1>1, <1>2, Updates, SingleKeeps, Table

LEMMA ToggleQuiet ==
    ASSUME TypeInv, NEW r \in rules, Toggle(r)
    PROVE  \E I : Quietly(I)
<1> DEFINE u == [r EXCEPT !.enabled = ~r.enabled, !.field2 = NoField, !.value2 = NoValue]
<1>1. u \in Rule /\ u.id = r.id
  BY Table DEF Rule
<1>2. Single /\ UpdateRule(r, u) /\ UNCHANGED <<brand, nextId, overrides, snapshot>>
  BY DEF Toggle
<1> HIDE DEF u
<1> QED
  BY <1>1, <1>2, Updates, SingleKeeps, Table

LEMMA ReorderQuiet ==
    ASSUME TypeInv, NEW first \in rules, NEW second \in rules, Reorder(first, second)
    PROVE  \E I : Quietly(I)
<1> DEFINE moved(r) == CASE r = first  -> [r EXCEPT !.prio = 1000]
                         [] r = second -> [r EXCEPT !.prio = 1010]
                         [] OTHER      -> r
           T == <<Change(first, moved(first)), Change(second, moved(second))>>
<1>1. first # second /\ Single /\ UNCHANGED <<brand, nextId, overrides, snapshot>>
  BY DEF Reorder
<1>2. \A r \in rules : moved(r) \in Rule /\ moved(r).id = r.id
  <2> SUFFICES ASSUME NEW r \in rules PROVE moved(r) \in Rule /\ moved(r).id = r.id
    OBVIOUS
  <2>1. moved(r) \in {r, [r EXCEPT !.prio = 1000], [r EXCEPT !.prio = 1010]}
    OBVIOUS
  <2>2. r \in Rule
    BY Table
  <2> HIDE DEF moved
  <2> QED
    BY <2>1, <2>2 DEF Rule
<1>3. \A r \in rules : r # first /\ r # second => moved(r) = r
  OBVIOUS
<1>4. rules' = {moved(r) : r \in rules}
  BY DEF Reorder
<1>5. history' = IF Logged THEN history \o T ELSE history
  BY DEF Reorder
<1> HIDE DEF moved
<1>6. T \in Seq(LogEntry) /\ DOMAIN T = {1, 2}
      /\ LogId(T[1]) = first.id /\ LogId(T[2]) = second.id
      /\ T[1].after = moved(first) /\ T[2].after = moved(second)
  <2>1. /\ Change(first, moved(first)) \in LogEntry /\ Change(second, moved(second)) \in LogEntry
        /\ LogId(Change(first, moved(first))) = first.id
        /\ LogId(Change(second, moved(second))) = second.id
        /\ Change(first, moved(first)).after = moved(first)
        /\ Change(second, moved(second)).after = moved(second)
    BY <1>2, Table, NoRuleIsNoRule DEF Change, LogEntry, LogId
  <2>2. DOMAIN T = {1, 2} /\ T[1] = Change(first, moved(first)) /\ T[2] = Change(second, moved(second))
    OBVIOUS
  <2>3. T \in Seq(LogEntry)
    BY <2>1
  <2> HIDE DEF T
  <2> QED
    BY <2>1, <2>2, <2>3
<1>7. rules' \subseteq Rule /\ IsFiniteSet(rules') /\ Distinct(rules')
  <2>1. rules' \subseteq Rule
    BY <1>2, <1>4
  <2>2. IsFiniteSet(rules')
    <3> DEFINE f == [r \in rules |-> moved(r)]
    <3>1. f \in Surjection(rules, rules')
      BY <1>4 DEF Surjection
    <3> HIDE DEF f
    <3> QED
      BY <3>1, FS_Surjection, Table
  <2>3. ASSUME NEW r \in rules, NEW u \in rules, moved(r).id = moved(u).id PROVE moved(r) = moved(u)
    BY <1>2, <2>3, Table DEF Distinct
  <2> QED
    BY <1>4, <2>1, <2>2, <2>3 DEF Distinct
<1>8. \A r \in rules' \ rules : r = moved(first) \/ r = moved(second)
  BY <1>3, <1>4
<1>9. first.id \in Recorded /\ second.id \in Recorded
  BY DEF Recorded
<1> HIDE DEF T
<1>10. \A j \in DOMAIN T : LogId(T[j]) \in Recorded
  BY <1>6, <1>9
<1>11. \A r \in rules' \ rules : r.id \in Recorded /\ \E j \in DOMAIN T : T[j].after = r
  BY <1>2, <1>6, <1>8, <1>9
<1>12. Edits({})
  BY <1>5, <1>6, <1>7, <1>10, <1>11, EditsByLog, Table
<1> QED
  BY <1>1, <1>12, SingleKeeps, Table

LEMMA RollbackQuiet ==
    ASSUME TypeInv, NEW k \in DOMAIN history, NEW to, Rollback(history[k], to)
    PROVE  \E I : Quietly(I)
<1> DEFINE h == history[k]
           state == IF to = "before" THEN h.before ELSE h.after
           id == IF h.before = NoRule THEN h.after.id ELSE h.before.id
           now == ById(id)
<1>1. h \in LogEntry
  BY Table
<1>2. state # NoRule => state \in Rule /\ state.id = id
  BY <1>1 DEF LogEntry
<1>3. id \in Recorded
  BY DEF Recorded, LogId
<1>4. Single /\ UNCHANGED <<brand, nextId, overrides, snapshot>>
  BY DEF Rollback
<1>5. /\ state = NoRule /\ now = {} => UNCHANGED <<rules, history>>
      /\ state = NoRule /\ now # {} => \E r \in now : RemoveRule(r)
      /\ state # NoRule /\ now = {} => InsertRules({state})
      /\ state # NoRule /\ now # {} => \E r \in now : UpdateRule(r, state)
  BY DEF Rollback
<1>6. \A r \in now : r \in rules /\ r.id = id
  BY DEF ById
<1>7. now = {} => \A u \in rules : u.id # id
  BY DEF ById
<1> HIDE DEF h, state, id, now
<1>8. CASE state = NoRule /\ now = {}
  <2>1. Edits({})
    BY <1>5, <1>8, Unedited, Table
  <2> QED
    BY <1>4, <2>1, SingleKeeps, Table
<1>9. CASE state = NoRule /\ now # {}
  <2>1. PICK r \in now : RemoveRule(r)
    BY <1>5, <1>9
  <2>2. Edits({})
    BY <1>6, <2>1, Removes, Table
  <2> QED
    BY <1>4, <2>2, SingleKeeps, Table
<1>10. CASE state # NoRule /\ now = {}
  <2>1. InsertRules({state}) /\ state \in Rule /\ state.id = id
    BY <1>2, <1>5, <1>10
  <2>2. IsFiniteSet({state})
    BY FS_Singleton
  <2>3. Distinct({state}) /\ {r.id : r \in {state}} = {id}
        /\ \A r \in {state}, u \in rules : r.id # u.id
    BY <1>7, <1>10, <2>1 DEF Distinct
  <2>4. Edits({r.id : r \in {state}})
    BY <2>1, <2>2, <2>3, Inserts, Table
  <2>5. Edits({id})
    BY <2>3, <2>4
  <2>6. {id} \subseteq 1..(nextId' - 1)
    BY <1>3, <1>4, Table
  <2>7. Quietly({id})
    BY <1>3, <1>4, <2>5, <2>6, SingleEdits, Table
  <2> QED
    BY <2>7
<1>11. CASE state # NoRule /\ now # {}
  <2>1. PICK r \in now : UpdateRule(r, state)
    BY <1>5, <1>11
  <2>2. Edits({})
    BY <1>2, <1>6, <1>11, <2>1, Updates, Table
  <2> QED
    BY <1>4, <2>2, SingleKeeps, Table
<1> QED
  BY <1>8, <1>9, <1>10, <1>11

LEMMA MatchQuiet ==
    ASSUME TypeInv, NEW m \in Matches,
           (\E t \in m.txns : MatchPost(t, m.code)) \/ MatchPut(m.txns, m.code)
    PROVE  \E I : Quietly(I)
<1>1. m.txns \subseteq Txns /\ m.code \in Codes
  BY RulesAssumption
<1>2. Single /\ UNCHANGED <<brand, rules, nextId, history, snapshot>>
  BY DEF MatchPost, MatchPut
<1>3. overrides' \in [Txns -> Codes \cup {NoCode}]
  BY <1>1, Table DEF MatchPost, MatchPut
<1>4. Edits({})
  BY <1>2, Unedited, Table
<1> QED
  BY <1>2, <1>3, <1>4, SingleKeeps

LEMMA UndoQuiet ==
    ASSUME TypeInv, NEW t \in Txns, Undo(t)
    PROVE  \E I : Quietly(I)
<1>1. Single /\ UNCHANGED <<brand, rules, nextId, history, snapshot>>
  BY DEF Undo
<1>2. overrides' \in [Txns -> Codes \cup {NoCode}]
  BY Table DEF Undo
<1>3. Edits({})
  BY <1>1, Unedited, Table
<1> QED
  BY <1>1, <1>2, <1>3, SingleKeeps

LEMMA RequestedQuiet ==
    ASSUME TypeInv, Requested
    PROVE  \E I : Quietly(I)
<1>1. {5, 1000} \subseteq Int
  OBVIOUS
<1> QED
  BY <1>1, CreateQuiet, PutQuiet, ToggleQuiet, ReorderQuiet, RollbackQuiet, MatchQuiet, UndoQuiet
  DEF Requested

LEMMA RefreshFailQuiet ==
    ASSUME TypeInv, NEW s \in Sessions, RefreshFail(s)
    PROVE  \E I : Quietly(I)
<1> DEFINE d == [call[s] EXCEPT !.pc = "refresh", !.mine = <<>>, !.row = <<>>, !.left = {},
                                !.file = NoFile, !.failed = TRUE,
                                !.todo = IF call[s].op = "rerun" THEN @ ELSE {}]
<1>1. call[s] \in Call /\ Fits(call[s]) /\ UNCHANGED data
  BY DEF TypeInv, TableInv, RefreshFail
<1>2. d \in Call /\ d.pc = "refresh" /\ d.mine = <<>>
  <2>1. <<>> \in Seq(Item) /\ "refresh" \in Pcs
    BY DEF Pcs
  <2> QED
    BY <1>1, <2>1, NoRowsYet DEF Call
<1>3. call' = [call EXCEPT ![s] = d]
  BY DEF RefreshFail
<1> HIDE DEF d
<1>4. Kept(call[s], d)
  BY <1>2, NoRowsYet DEF Kept, Fits, Prepared
<1>5. Edits({}) /\ UNCHANGED <<brand, nextId, overrides, snapshot>>
  BY <1>1, Unedited, Table DEF data
<1>6. Quietly({})
  BY <1>2, <1>3, <1>4, <1>5, StepEdits, Table
<1> QED
  BY <1>6

LEMMA AnswerQuiet ==
    ASSUME TypeInv, NEW s \in Sessions, Answer(s)
    PROVE  \E I : Quietly(I)
<1>1. call' = [call EXCEPT ![s] = Idle] /\ UNCHANGED data
  BY DEF Answer
<1>2. Kept(call[s], Idle)
  BY IdleCall, NoRowsYet DEF Kept, Idle
<1>3. Edits({}) /\ UNCHANGED <<brand, nextId, overrides, snapshot>>
  BY <1>1, Unedited, Table DEF data
<1>4. Quietly({})
  BY <1>1, <1>2, <1>3, IdleCall, StepEdits, Table
<1> QED
  BY <1>4

-----------------------------------------------------------------------------
(* Every variable has its type.                                                 *)

LEMMA ClassifiedRows ==
    ASSUME NEW R, R \subseteq Rule, NEW t
    PROVE  Classified(R, t) \subseteq Row
<1>1. NoRow \in Row
  BY DEF NoRow, Row, Sources
<1>2. \A r \in Rule : [rule |-> r.id, code |-> r.code, source |-> "rule"] \in Row
  BY DEF Rule, Row, Sources
<1>3. Winners(R, t) \subseteq Rule
  BY DEF Winners
<1> QED
  BY <1>1, <1>2, <1>3 DEF Classified

LEMMA RowsOfTransactions ==
    ASSUME TypeInv, NEW t \in Txns
    PROVE  YufengRows(t) \subseteq Row /\ TamkokoRows(t) \subseteq Row
<1>1. Classified(rules, t) \subseteq Row
  BY ClassifiedRows, Table
<1>2. overrides[t] # NoCode => [rule |-> 0, code |-> overrides[t], source |-> "override"] \in Row
  BY Table DEF Row, Sources
<1> QED
  BY <1>1, <1>2 DEF YufengRows, TamkokoRows

LEMMA MarkedRow == ASSUME NEW t, NEW row \in Row PROVE Marked(t, row) \in Row
BY DEF Marked, Row, Sources

LEMMA ScannedIsLeft == ASSUME NEW T, T # {} PROVE Scanned(T) \in T
BY DEF Scanned

LEMMA RowStepType ==
    ASSUME TypeInv, NEW s \in Sessions, NEW d \in Call, Fits(d), Prepared(d) = {},
           call' = [call EXCEPT ![s] = d],
           UNCHANGED <<brand, rules, nextId, history, overrides>>, snapshot' \in [Txns -> Row]
    PROVE  TypeInv'
<1>1. /\ call' \in [Sessions -> Call] /\ call'[s] = d
      /\ \A u \in Sessions \ {s} : call'[u] = call[u]
  BY DEF TypeInv, TableInv
<1>2. Recorded' = Recorded
  BY DEF Recorded, LogId
<1>3. TableInv'
  BY <1>1, <1>2 DEF TypeInv, TableInv, Distinct
<1>4. ASSUME NEW u \in Sessions PROVE Fits(call[u])' /\ Drawn(u)'
  <2>1. CASE u = s
    <3>1. IsFiniteSet({})
      BY FS_EmptySet
    <3>2. Prepared(call[u])' = {} /\ Fits(call[u])'
      BY <1>1, <2>1 DEF Prepared, Fits
    <3> QED
      BY <3>1, <3>2 DEF Drawn, Distinct
  <2>2. CASE u # s
    <3>1. call'[u] = call[u] /\ Fits(call[u]) /\ Drawn(u)
      BY <1>1, <2>2 DEF TypeInv
    <3>2. Prepared(call[u])' = Prepared(call[u]) /\ Fits(call[u])'
      BY <3>1 DEF Prepared, Fits
    <3> QED
      BY <1>2, <3>1, <3>2 DEF Drawn, Distinct
  <2> QED
    BY <2>1, <2>2
<1>5. ASSUME NEW u \in Sessions, NEW v \in Sessions, u # v PROVE Apart(u, v)'
  <2>1. Apart(u, v)
    BY <1>5 DEF TypeInv
  <2>2. \A x \in Sessions : Prepared(call[x])' = Prepared(call[x]) \/ Prepared(call[x])' = {}
    BY <1>1 DEF Prepared
  <2> QED
    BY <2>1, <2>2 DEF Apart
<1> QED
  BY <1>3, <1>4, <1>5 DEF TypeInv

(* A batch prepares a rule with the next id.                                    *)
LEMMA BatchInsertType ==
    ASSUME TypeInv, NEW s \in Sessions, BatchInsert(s)
    PROVE  TypeInv'
<1> DEFINE q == Head(call[s].items)
           g == SummaryItem(q, call[s].dual)
           r == NewRule(nextId, BatchDirection(q), g, NewPrio(Seen(s)))
           d == [call[s] EXCEPT !.pc = "item", !.added = @ \cup {r}, !.items = Tail(@),
                                !.row = Append(@, q)]
<1>1. /\ call[s] \in Call /\ Fits(call[s]) /\ Drawn(s) /\ call[s].pc = "insert"
      /\ nextId' = nextId + 1 /\ call' = [call EXCEPT ![s] = d]
      /\ UNCHANGED <<brand, rules, history, overrides, snapshot>>
  BY DEF TypeInv, TableInv, BatchInsert
<1>2. q \in Item /\ q.code # NoCode /\ Tail(call[s].items) \in Seq(Item) /\ call[s].row \in Seq(Item)
  BY <1>1 DEF Fits, Call
<1>3. g \in Item /\ g.code = q.code
  <2> HIDE DEF q
  <2> QED
    BY <1>2 DEF SummaryItem, Item, Fields
<1>4. Prepared(call[s]) = call[s].added
  BY <1>1 DEF Prepared
<1>5. NewPrio(Seen(s)) \in Int
  <2>1. Seen(s) \subseteq Rule /\ IsFiniteSet(Seen(s))
    BY <1>1, <1>4, Table, FS_Union DEF Seen, Drawn
  <2> QED
    BY <2>1, NewPrioIsAbove
<1>6. r \in Rule /\ r.id = nextId
  <2> HIDE DEF q, g
  <2>1. nextId \in Nat /\ BatchDirection(q) \in Directions /\ g.code # NoCode
    BY <1>2, <1>3, DirectionsOfItems, Table
  <2> QED
    BY <1>3, <1>5, <2>1, SettledRule
<1>7. d \in Call /\ d.pc = "item" /\ d.added = call[s].added \cup {r} /\ d.row \in Seq(Item)
      /\ d.mine = call[s].mine /\ d.op = call[s].op
  <2> HIDE DEF q, r
  <2>1. Append(call[s].row, q) \in Seq(Item) /\ "item" \in Pcs
    BY <1>2 DEF Pcs
  <2> QED
    BY <1>1, <1>2, <1>6, <2>1 DEF Call
<1> HIDE DEF d, r, g, q
<1>8. Fits(d) /\ Prepared(d) = Prepared(call[s]) \cup {r}
  BY <1>1, <1>4, <1>7 DEF Fits, Prepared
<1>9. /\ call' \in [Sessions -> Call] /\ call'[s] = d
      /\ \A u \in Sessions \ {s} : call'[u] = call[u]
  BY <1>1, <1>7 DEF TypeInv, TableInv
<1>10. Recorded' = Recorded
  BY <1>1 DEF Recorded, LogId
<1>11. Recorded \subseteq 1..(nextId' - 1) /\ nextId' \in Nat \ {0} /\ nextId \in 1..(nextId' - 1)
       /\ nextId \notin Recorded
  BY <1>1, Table
<1>12. TableInv'
  BY <1>1, <1>9, <1>10, <1>11 DEF TypeInv, TableInv, Distinct
<1>13. \A u \in Sessions : \A x \in Prepared(call[u]) : x.id # nextId /\ x.id \in 1..(nextId' - 1)
  BY <1>1, NothingPrepared, Table
<1>14. ASSUME NEW u \in Sessions PROVE Fits(call[u])' /\ Drawn(u)'
  <2>1. CASE u = s
    <3>1. Prepared(call[u])' = Prepared(call[s]) \cup {r} /\ Fits(call[u])'
      BY <1>8, <1>9, <2>1 DEF Prepared, Fits
    <3>2. IsFiniteSet(Prepared(call[s]) \cup {r})
      BY <1>1, FS_AddElement DEF Drawn
    <3>3. Distinct(Prepared(call[s]) \cup {r})
      BY <1>1, <1>6, <1>13 DEF Drawn, Distinct
    <3>4. \A x \in Prepared(call[s]) \cup {r} : x \in Rule /\ x.id \in 1..(nextId' - 1) /\ x.id \notin Recorded
      BY <1>1, <1>6, <1>11, <1>13 DEF Drawn
    <3> QED
      BY <1>10, <3>1, <3>2, <3>3, <3>4 DEF Drawn, Distinct
  <2>2. CASE u # s
    <3>1. call'[u] = call[u] /\ Fits(call[u]) /\ Drawn(u)
      BY <1>9, <2>2 DEF TypeInv
    <3>2. Prepared(call[u])' = Prepared(call[u]) /\ Fits(call[u])'
      BY <3>1 DEF Prepared, Fits
    <3> QED
      BY <1>10, <1>13, <3>1, <3>2 DEF Drawn, Distinct
  <2> QED
    BY <2>1, <2>2
<1>15. ASSUME NEW u \in Sessions, NEW v \in Sessions, u # v PROVE Apart(u, v)'
  <2>1. Apart(u, v)
    BY <1>15 DEF TypeInv
  <2>2. \A x \in Sessions : Prepared(call[x])' = IF x = s THEN Prepared(call[x]) \cup {r}
                                                          ELSE Prepared(call[x])
    BY <1>8, <1>9 DEF Prepared
  <2>3. \A x \in Prepared(call[u])', y \in Prepared(call[v])' : x.id # y.id
    <3>1. \A x \in Prepared(call[u]), y \in Prepared(call[v]) : x.id # y.id
      BY <2>1 DEF Apart
    <3> HIDE DEF Prepared
    <3>2. CASE u = s
      <4>1. Prepared(call[u])' = Prepared(call[u]) \cup {r} /\ Prepared(call[v])' = Prepared(call[v])
        BY <1>15, <2>2, <3>2
      <4> QED
        BY <1>6, <1>13, <3>1, <4>1
    <3>3. CASE v = s
      <4>1. Prepared(call[v])' = Prepared(call[v]) \cup {r} /\ Prepared(call[u])' = Prepared(call[u])
        BY <1>15, <2>2, <3>3
      <4> QED
        BY <1>6, <1>13, <3>1, <4>1
    <3> QED
      BY <2>2, <3>1, <3>2, <3>3
  <2> QED
    BY <2>3 DEF Apart
<1> QED
  BY <1>12, <1>14, <1>15 DEF TypeInv

LEMMA RefreshStartType ==
    ASSUME TypeInv, NEW s \in Sessions, RefreshStart(s)
    PROVE  TypeInv'
<1>1. PICK f \in call[s].todo :
        call' = [call EXCEPT ![s].pc = "rows", ![s].file = f,
                             ![s].todo = @ \ {f}, ![s].left = {t \in Txns : FileOf[t] = f},
                             ![s].mine = IF brand = "tamkoko"
                                         THEN [t \in {u \in Txns : FileOf[u] = f} |-> NoRow]
                                         ELSE <<>>]
  BY DEF RefreshStart
<1> DEFINE L == {t \in Txns : FileOf[t] = f}
           m == IF brand = "tamkoko" THEN [t \in L |-> NoRow] ELSE <<>>
           d == [call[s] EXCEPT !.pc = "rows", !.file = f, !.todo = @ \ {f}, !.left = L, !.mine = m]
<1>2. call[s] \in Call /\ Fits(call[s]) /\ UNCHANGED data /\ call[s].pc = "refresh"
  BY DEF TypeInv, TableInv, RefreshStart
<1>3. m \in PartialRows
  <2>1. NoRow \in Row /\ L \in SUBSET Txns
    BY DEF NoRow, Row, Sources
  <2> HIDE DEF L
  <2>2. [t \in L |-> NoRow] \in PartialRows
    BY <2>1 DEF PartialRows
  <2> QED
    BY <2>2, NoRowsYet
<1>4. L \subseteq Txns
  OBVIOUS
<1>5. call' = [call EXCEPT ![s] = d]
  BY <1>1
<1> HIDE DEF L, m
<1>6. d \in Call /\ d.pc = "rows" /\ d.file \in Files
  BY <1>2, <1>3, <1>4 DEF Call, Pcs
<1> HIDE DEF d
<1>7. Fits(d) /\ Prepared(d) = {}
  BY <1>6 DEF Fits, Prepared
<1> QED
  BY <1>2, <1>5, <1>6, <1>7, RowStepType DEF data, TypeInv, TableInv

LEMMA YufengReadType ==
    ASSUME TypeInv, NEW s \in Sessions, YufengRead(s)
    PROVE  TypeInv'
<1> DEFINE t == Scanned(call[s].left)
<1>1. call[s] \in Call /\ Fits(call[s]) /\ UNCHANGED data /\ t \in call[s].left /\ call[s].pc = "rows"
  BY ScannedIsLeft DEF TypeInv, TableInv, YufengRead
<1>2. PICK row \in YufengRows(t) :
        call' = [call EXCEPT ![s].pc = "write", ![s].row = <<t, row>>, ![s].left = @ \ {t}]
  BY DEF YufengRead
<1> DEFINE d == [call[s] EXCEPT !.pc = "write", !.row = <<t, row>>, !.left = @ \ {t}]
<1>3. t \in Txns
  BY <1>1 DEF Call
<1>4. row \in Row
  BY <1>3, RowsOfTransactions
<1>5. call' = [call EXCEPT ![s] = d]
  BY <1>2
<1> HIDE DEF t
<1>6. d \in Call /\ d.pc = "write" /\ d.row = <<t, row>> /\ d.file = call[s].file
  BY <1>1, <1>3, <1>4 DEF Call, Pcs
<1> HIDE DEF d
<1>7. Fits(d) /\ Prepared(d) = {}
  BY <1>1, <1>3, <1>4, <1>6 DEF Fits, Prepared
<1> QED
  BY <1>1, <1>5, <1>6, <1>7, RowStepType DEF data, TypeInv, TableInv

LEMMA YufengUpsertType ==
    ASSUME TypeInv, NEW s \in Sessions, YufengUpsert(s)
    PROVE  TypeInv'
<1> DEFINE t == call[s].row[1]
           m == [u \in DOMAIN call[s].mine \cup {t} |-> IF u = t THEN call[s].row[2] ELSE call[s].mine[u]]
           d == [call[s] EXCEPT !.pc = "rows", !.row = <<>>, !.mine = m]
<1>1. call[s] \in Call /\ Fits(call[s]) /\ UNCHANGED data /\ call[s].pc = "write"
  BY DEF TypeInv, TableInv, YufengUpsert
<1>2. t \in Txns /\ call[s].row[2] \in Row
  BY <1>1 DEF Fits
<1>3. m \in PartialRows
  <2> HIDE DEF t
  <2>1. PICK T \in SUBSET Txns : call[s].mine \in [T -> Row]
    BY <1>1 DEF Call, PartialRows
  <2>2. T \cup {t} \in SUBSET Txns /\ m \in [T \cup {t} -> Row]
    BY <1>2, <2>1
  <2> HIDE DEF m
  <2> QED
    BY <2>2 DEF PartialRows
<1>4. call' = [call EXCEPT ![s] = d]
  BY DEF YufengUpsert
<1> HIDE DEF m
<1>5. d \in Call /\ d.pc = "rows" /\ d.file = call[s].file
  <2>1. <<>> \in Seq(Item) /\ "rows" \in Pcs
    BY DEF Pcs
  <2> QED
    BY <1>1, <1>3, <2>1 DEF Call
<1> HIDE DEF d
<1>6. Fits(d) /\ Prepared(d) = {}
  BY <1>1, <1>5 DEF Fits, Prepared
<1> QED
  BY <1>1, <1>4, <1>5, <1>6, RowStepType DEF data, TypeInv, TableInv

LEMMA TamkokoRowType ==
    ASSUME TypeInv, NEW s \in Sessions, TamkokoRow(s)
    PROVE  TypeInv'
<1> DEFINE t == Scanned(call[s].left)
<1>1. /\ call[s] \in Call /\ Fits(call[s]) /\ UNCHANGED data
      /\ t \in call[s].left /\ call[s].pc = "rows"
  BY ScannedIsLeft DEF TypeInv, TableInv, TamkokoRow
<1>2. PICK row \in TamkokoRows(t) : call' = [call EXCEPT ![s].mine[t] = row, ![s].left = @ \ {t}]
  BY DEF TamkokoRow
<1> DEFINE m == [call[s].mine EXCEPT ![t] = row]
           d == [call[s] EXCEPT !.mine = m, !.left = @ \ {t}]
<1>3. t \in Txns
  BY <1>1 DEF Call
<1>4. row \in Row
  BY <1>3, RowsOfTransactions
<1>5. m \in PartialRows
  <2> HIDE DEF t
  <2>1. PICK T \in SUBSET Txns : call[s].mine \in [T -> Row]
    BY <1>1 DEF Call, PartialRows
  <2>2. m \in [T -> Row]
    BY <1>4, <2>1
  <2> HIDE DEF m
  <2> QED
    BY <2>2 DEF PartialRows
<1>6. call' = [call EXCEPT ![s] = d]
  BY <1>2
<1> HIDE DEF t, m
<1>7. d \in Call /\ d.pc = "rows" /\ d.file = call[s].file
  BY <1>1, <1>5 DEF Call
<1> HIDE DEF d
<1>8. Fits(d) /\ Prepared(d) = {}
  BY <1>1, <1>7 DEF Fits, Prepared
<1> QED
  BY <1>1, <1>6, <1>7, <1>8, RowStepType DEF data, TypeInv, TableInv

LEMMA RefreshCommitType ==
    ASSUME TypeInv, NEW s \in Sessions, RefreshCommit(s)
    PROVE  TypeInv'
<1> DEFINE d == [call[s] EXCEPT !.pc = "refresh", !.mine = <<>>, !.file = NoFile,
                                !.done = @ \cup {call[s].file}]
<1>1. /\ call[s] \in Call /\ Fits(call[s]) /\ call[s].pc = "rows"
      /\ UNCHANGED <<brand, rules, nextId, history, overrides>>
  BY DEF TypeInv, TableInv, RefreshCommit
<1>2. call[s].file \in Files
  BY <1>1 DEF Fits
<1>3. d \in Call /\ d.pc = "refresh" /\ d.mine = <<>>
  BY <1>1, <1>2, NoRowsYet DEF Call, Pcs
<1>4. call' = [call EXCEPT ![s] = d]
  BY DEF RefreshCommit
<1> HIDE DEF d
<1>5. Fits(d) /\ Prepared(d) = {}
  BY <1>3, NoRowsYet DEF Fits, Prepared
<1>6. snapshot' \in [Txns -> Row]
  <2>1. \A t \in DOMAIN call[s].mine : call[s].mine[t] \in Row
    BY <1>1 DEF Call, PartialRows
  <2>2. \A t \in Txns : snapshot[t] \in Row
    BY DEF TypeInv, TableInv
  <2>3. \A t \in Txns : Marked(t, IF t \in DOMAIN call[s].mine THEN call[s].mine[t] ELSE snapshot[t]) \in Row
    BY <2>1, <2>2, MarkedRow
  <2> QED
    BY <2>3 DEF RefreshCommit
<1> QED
  BY <1>1, <1>3, <1>4, <1>5, <1>6, RowStepType

LEMMA InitType == ASSUME Init PROVE TypeInv
<1>1. brand \in Brands /\ rules = Seeds /\ nextId = 1 + Cardinality(Seeds) /\ history = <<>>
      /\ overrides = [t \in Txns |-> NoCode] /\ call = [s \in Sessions |-> Idle]
  BY DEF Init
<1>2. /\ Seeds \subseteq Rule /\ IsFiniteSet(Seeds) /\ Cardinality(Seeds) \in Nat
      /\ \A r \in Seeds : r.id \in 1..Cardinality(Seeds)
      /\ Distinct(Seeds)
  <2>1. IsFiniteSet(Seeds)
    BY RulesAssumption
  <2>2. Cardinality(Seeds) \in Nat
    BY <2>1, FS_CardinalityType
  <2> QED
    BY <2>1, <2>2, RulesAssumption DEF Distinct
<1>3. Recorded \subseteq 1..(nextId - 1) /\ nextId \in Nat \ {0}
  <2>1. Recorded = {r.id : r \in Seeds}
    BY <1>1 DEF Recorded
  <2> QED
    BY <1>1, <1>2, <2>1
<1>4. snapshot \in [Txns -> Row]
  <2>1. PICK rows \in [Txns -> UNION {Classified(Seeds, t) : t \in Txns}] :
          snapshot = [t \in Txns |-> Marked(t, rows[t])]
    BY DEF Init
  <2>2. \A t \in Txns : Classified(Seeds, t) \subseteq Row
    BY <1>2, ClassifiedRows
  <2>3. \A t \in Txns : rows[t] \in Row
    BY <2>2
  <2> QED
    BY <2>1, <2>3, MarkedRow
<1>5. TableInv
  BY <1>1, <1>2, <1>3, <1>4, IdleCall DEF TableInv
<1>6. \A s \in Sessions : call[s] = Idle
  BY <1>1
<1>7. IsFiniteSet({})
  BY FS_EmptySet
<1> QED
  BY <1>5, <1>6, <1>7, IdleCall DEF TypeInv, Drawn, Apart, Distinct

(* What each step of a request is: quiet, or one of those that prepare, classify
   or write.                                                                    *)
LEMMA StepKinds ==
    ASSUME TypeInv, Next
    PROVE  \/ \E I : Quietly(I)
           \/ \E s \in Sessions :
                \/ BatchInsert(s) \/ RefreshStart(s) \/ YufengRead(s) \/ YufengUpsert(s)
                \/ TamkokoRow(s) \/ RefreshCommit(s)
<1>1. CASE Requested
  BY <1>1, RequestedQuiet
<1>2. ASSUME NEW s \in Sessions, Handler(s) PROVE (\E I : Quietly(I)) \/ BatchInsert(s)
  BY <1>2, SettleCheckQuiet, SettlePriorityQuiet, SettleWriteQuiet, BatchStartQuiet, BatchCheckQuiet,
     BatchCommitQuiet, DeleteReadQuiet, DeleteWriteQuiet, ImportReadQuiet, ImportWriteQuiet,
     RerunStartQuiet DEF Handler
<1>3. ASSUME NEW s \in Sessions, Refresh(s)
      PROVE  \/ \E I : Quietly(I)
             \/ RefreshStart(s) \/ YufengRead(s) \/ YufengUpsert(s) \/ TamkokoRow(s) \/ RefreshCommit(s)
  BY <1>3, RefreshFailQuiet, AnswerQuiet DEF Refresh
<1> QED
  BY <1>1, <1>2, <1>3 DEF Next

LEMMA TypeStep == TypeInv /\ [Next]_vars => TypeInv'
<1> SUFFICES ASSUME TypeInv, [Next]_vars PROVE TypeInv'
  OBVIOUS
<1>1. CASE UNCHANGED vars
  BY <1>1 DEF vars, TypeInv, TableInv, Fits, Drawn, Prepared, Apart, Recorded, LogId, Distinct
<1>2. CASE Next
  BY <1>2, StepKinds, QuietType, BatchInsertType, RefreshStartType, YufengReadType, YufengUpsertType,
     TamkokoRowType, RefreshCommitType
<1> QED
  BY <1>1, <1>2

LEMMA TypeInvariant == Spec => []TypeInv
BY InitType, TypeStep, PTL DEF Spec

(* Every variable has its type: the ids of the rules are unique and below the
   sequence, although batches and imports draw theirs while others insert.      *)
THEOREM TypeTheorem == Spec => []TypeOK
<1>1. TypeInv => TypeOK
  <2> SUFFICES ASSUME TypeInv PROVE TypeOK
    OBVIOUS
  <2>1. \A r \in rules : r.id \in Recorded
    BY DEF Recorded
  <2>2. \A r \in rules : r.id < nextId
    BY <2>1, Table
  <2>3. \A s \in Sessions : call[s].todo \subseteq Files /\ call[s].left \subseteq Txns
    <3>1. \A s \in Sessions : call[s] \in Call
      BY DEF TypeInv, TableInv
    <3> QED
      BY <3>1 DEF Call
  <2>4. history \in Seq([before : Rule \cup {NoRule}, after : Rule \cup {NoRule}])
    <3>1. LogEntry \subseteq [before : Rule \cup {NoRule}, after : Rule \cup {NoRule}]
      BY DEF LogEntry
    <3>2. history \in Seq(LogEntry)
      BY Table
    <3>3. \A A, B : A \subseteq B => Seq(A) \subseteq Seq(B)
      OBVIOUS
    <3> QED
      BY <3>1, <3>2, <3>3
  <2> QED
    BY <2>2, <2>3, <2>4 DEF TypeInv, TableInv, TypeOK, Distinct
<1> QED
  BY <1>1, TypeInvariant, PTL

-----------------------------------------------------------------------------
(* The log explains the snapshot.                                               *)

Explains(V, t, row) ==
    row.rule # 0 => \E v \in V : /\ v.id = row.rule /\ v.code = row.code
                                 /\ Winners({v}, t) = {v}

(* Every rule of the table is the last version of an entry or a seed, and a row is
   explained from the moment it is classified: what a refresh holds may be older
   than the rules, never than the log.                                          *)
LogInv ==
    Logged =>
      /\ rules \subseteq Versions
      /\ \A t \in Txns : Explains(Versions, t, snapshot[t])
      /\ \A s \in Sessions :
           /\ \A t \in DOMAIN call[s].mine : Explains(Versions, t, call[s].mine[t])
           /\ call[s].pc = "write" => Explains(Versions, call[s].row[1], call[s].row[2])

(* A rule that wins among others wins alone.                                    *)
LEMMA WinnersWinAlone ==
    ASSUME NEW R, R \subseteq Rule, NEW t, NEW r \in Winners(R, t)
    PROVE  Winners({r}, t) = {r}
<1>1. PICK k \in Steps : r \in StepHits(R, t, k)
  BY DEF Winners, Lowest
<1>2. r \in StepHits({r}, t, k) /\ r \in R /\ r.prio \in Int
  <2>1. r \in R
    BY DEF Winners
  <2>2. r \in StepHits({r}, t, k)
    BY <1>1, <2>1, HitsAreLocal
  <2> QED
    BY <2>1, <2>2 DEF Rule
<1>3. \A j : StepHits({r}, t, j) \subseteq {r}
  BY HitsAreRules
<1>4. r \in Lowest(StepHits({r}, t, k))
  BY <1>2, <1>3 DEF Lowest
<1>5. \A j \in 1..(k - 1) : StepHits({r}, t, j) = {}
  <2> SUFFICES ASSUME NEW j \in 1..(k - 1), r \in StepHits({r}, t, j) PROVE FALSE
    BY <1>3
  <2>1. j \in Steps /\ j # k
    BY DEF Steps
  <2> QED
    BY <1>2, <2>1, OneStep
<1> QED
  BY <1>4, <1>5 DEF Winners

LEMMA ClassifiedIsExplained ==
    ASSUME NEW R, R \subseteq Rule, NEW V, R \subseteq V, NEW t, NEW row \in Classified(R, t)
    PROVE  Explains(V, t, row)
<1>1. CASE row = NoRow
  BY <1>1 DEF NoRow, Explains
<1>2. CASE \E r \in Winners(R, t) : row = [rule |-> r.id, code |-> r.code, source |-> "rule"]
  <2>1. PICK r \in Winners(R, t) : row = [rule |-> r.id, code |-> r.code, source |-> "rule"]
    BY <1>2
  <2>2. r \in V
    BY DEF Winners
  <2> QED
    BY <2>1, <2>2, WinnersWinAlone DEF Explains
<1> QED
  BY <1>1, <1>2 DEF Classified

LEMMA ExplainsMore ==
    ASSUME NEW V, NEW W, V \subseteq W, NEW t, NEW row, Explains(V, t, row)
    PROVE  Explains(W, t, row)
BY DEF Explains

(* A statement on the rules explains what was explained.                        *)
LEMMA QuietLog ==
    ASSUME TypeInv, LogInv, NEW I, Quietly(I)
    PROVE  LogInv'
<1> SUFFICES ASSUME Logged' PROVE
      /\ rules' \subseteq Versions'
      /\ \A t \in Txns : Explains(Versions', t, snapshot'[t])
      /\ \A s \in Sessions :
           /\ \A t \in DOMAIN call'[s].mine : Explains(Versions', t, call'[s].mine[t])
           /\ call'[s].pc = "write" => Explains(Versions', call'[s].row[1], call'[s].row[2])
  BY DEF LogInv, Explains
<1>1. Logged /\ snapshot' = snapshot /\ Edits(I)
  BY DEF Quietly, Logged
<1>2. Versions \subseteq Versions' /\ rules' \subseteq Versions'
  BY <1>1 DEF Edits, LogInv
<1>3. ASSUME NEW s \in Sessions
      PROVE  /\ \A t \in DOMAIN call'[s].mine : Explains(Versions', t, call'[s].mine[t])
             /\ call'[s].pc = "write" => Explains(Versions', call'[s].row[1], call'[s].row[2])
  <2>1. Kept(call[s], call'[s])
    BY DEF Quietly
  <2>2. /\ \A t \in DOMAIN call[s].mine : Explains(Versions, t, call[s].mine[t])
        /\ call[s].pc = "write" => Explains(Versions, call[s].row[1], call[s].row[2])
    BY <1>1 DEF LogInv
  <2> QED
    BY <1>2, <2>1, <2>2, ExplainsMore DEF Kept
<1>4. \A t \in Txns : Explains(Versions', t, snapshot'[t])
  BY <1>1, <1>2, ExplainsMore DEF LogInv
<1> QED
  BY <1>2, <1>3, <1>4

(* The step of one refresh: rules and log stay.                                 *)
LEMMA RowStepLog ==
    ASSUME TypeInv, LogInv, NEW s \in Sessions, NEW d, call' = [call EXCEPT ![s] = d],
           UNCHANGED <<brand, rules, history>>,
           Logged => /\ \A t \in DOMAIN d.mine : Explains(Versions, t, d.mine[t])
                     /\ d.pc = "write" => Explains(Versions, d.row[1], d.row[2])
                     /\ \A t \in Txns : Explains(Versions, t, snapshot'[t])
    PROVE  LogInv'
<1>1. Versions' = Versions /\ Logged' = Logged /\ rules' = rules
  BY DEF Versions, Logged
<1>2. \A u \in Sessions : call'[u] = IF u = s THEN d ELSE call[u]
  BY DEF TypeInv, TableInv
<1>3. LogInv' <=>
        (Logged =>
          /\ rules \subseteq Versions
          /\ \A t \in Txns : Explains(Versions, t, snapshot'[t])
          /\ \A u \in Sessions :
               /\ \A t \in DOMAIN call'[u].mine : Explains(Versions, t, call'[u].mine[t])
               /\ call'[u].pc = "write" => Explains(Versions, call'[u].row[1], call'[u].row[2]))
  BY <1>1 DEF LogInv, Explains
<1> QED
  BY <1>2, <1>3 DEF LogInv

LEMMA InitLog == ASSUME Init, TypeInv PROVE LogInv
<1>1. rules = Seeds /\ history = <<>> /\ Seeds \subseteq Rule /\ \A s \in Sessions : call[s] = Idle
  BY RulesAssumption DEF Init
<1>2. Versions = Seeds
  BY <1>1 DEF Versions
<1>3. PICK rows \in [Txns -> UNION {Classified(Seeds, t) : t \in Txns}] :
        /\ \A t \in Txns : rows[t] \in Classified(Seeds, t)
        /\ snapshot = [t \in Txns |-> Marked(t, rows[t])]
  BY DEF Init
<1>4. ASSUME NEW t \in Txns PROVE Explains(Versions, t, snapshot[t])
  <2>1. rows[t] \in Classified(Seeds, t) /\ rows[t] \in Row
    BY <1>1, <1>3, ClassifiedRows
  <2>2. Explains(Versions, t, rows[t])
    BY <1>1, <1>2, <2>1, ClassifiedIsExplained
  <2>3. Marked(t, rows[t]).rule = rows[t].rule /\ Marked(t, rows[t]).code = rows[t].code
    BY <2>1 DEF Marked, Row
  <2> QED
    BY <1>3, <2>2, <2>3 DEF Explains
<1> QED
  BY <1>1, <1>2, <1>4, NoRowsYet DEF LogInv, Idle

LEMMA RefreshLog ==
    ASSUME TypeInv, LogInv, NEW s \in Sessions,
           RefreshStart(s) \/ YufengRead(s) \/ YufengUpsert(s) \/ TamkokoRow(s) \/ RefreshCommit(s)
    PROVE  LogInv'
<1>1. call[s] \in Call /\ Fits(call[s]) /\ s \in DOMAIN call
  BY DEF TypeInv, TableInv
<1>2. Logged => /\ rules \subseteq Versions /\ \A t \in Txns : Explains(Versions, t, snapshot[t])
                /\ \A t \in DOMAIN call[s].mine : Explains(Versions, t, call[s].mine[t])
                /\ call[s].pc = "write" => Explains(Versions, call[s].row[1], call[s].row[2])
  BY DEF LogInv
<1>3. Logged => brand # "tamkoko"
  BY DEF Logged
<1>4. CASE RefreshStart(s)
  <2>1. PICK f \in call[s].todo :
          call' = [call EXCEPT ![s].pc = "rows", ![s].file = f,
                               ![s].todo = @ \ {f}, ![s].left = {t \in Txns : FileOf[t] = f},
                               ![s].mine = IF brand = "tamkoko"
                                           THEN [t \in {u \in Txns : FileOf[u] = f} |-> NoRow]
                                           ELSE <<>>]
    BY <1>4 DEF RefreshStart
  <2> DEFINE L == {t \in Txns : FileOf[t] = f}
             m == IF brand = "tamkoko" THEN [t \in L |-> NoRow] ELSE <<>>
             d == [call[s] EXCEPT !.pc = "rows", !.file = f, !.todo = @ \ {f}, !.left = L, !.mine = m]
  <2>a. call' = [call EXCEPT ![s] = d]
    BY <2>1
  <2>b. brand # "tamkoko" => m = <<>>
    OBVIOUS
  <2> HIDE DEF L, m
  <2>c. d.pc = "rows" /\ d.mine = m
    BY <1>1 DEF Call
  <2> HIDE DEF d
  <2>d. UNCHANGED data
    BY <1>4 DEF RefreshStart
  <2>2. /\ call' = [call EXCEPT ![s] = call'[s]] /\ call'[s].pc = "rows" /\ UNCHANGED data
        /\ brand # "tamkoko" => call'[s].mine = <<>>
    BY <1>1, <2>a, <2>b, <2>c, <2>d
  <2>3. Logged => DOMAIN call'[s].mine = {}
    BY <1>3, <2>2, NoRowsYet
  <2> QED
    BY <1>2, <2>2, <2>3, RowStepLog DEF data
<1>5. CASE YufengRead(s)
  <2> DEFINE t == Scanned(call[s].left)
  <2>1. PICK row \in YufengRows(t) :
          call' = [call EXCEPT ![s].pc = "write", ![s].row = <<t, row>>, ![s].left = @ \ {t}]
    BY <1>5 DEF YufengRead
  <2> HIDE DEF t
  <2>2. /\ call' = [call EXCEPT ![s] = call'[s]] /\ UNCHANGED data
        /\ call'[s].mine = call[s].mine /\ call'[s].row = <<t, row>>
    BY <1>1, <1>5, <2>1 DEF YufengRead, Call
  <2>3. Logged => Explains(Versions, t, row)
    BY <1>2, <2>1, ClassifiedIsExplained, Table DEF YufengRows
  <2> QED
    BY <1>2, <2>2, <2>3, RowStepLog DEF data
<1>6. CASE YufengUpsert(s)
  <2> DEFINE t == call[s].row[1]
             m == [u \in DOMAIN call[s].mine \cup {t} |-> IF u = t THEN call[s].row[2] ELSE call[s].mine[u]]
  <2>1. /\ call' = [call EXCEPT ![s].pc = "rows", ![s].row = <<>>, ![s].mine = m]
        /\ call[s].pc = "write" /\ UNCHANGED data
    BY <1>6 DEF YufengUpsert
  <2>2. Logged => \A u \in DOMAIN m : Explains(Versions, u, m[u])
    BY <1>2, <2>1
  <2> HIDE DEF t, m
  <2>3. /\ call' = [call EXCEPT ![s] = call'[s]] /\ call'[s].mine = m /\ call'[s].pc = "rows"
    BY <1>1, <2>1 DEF Call
  <2> QED
    BY <1>2, <2>1, <2>2, <2>3, RowStepLog DEF data
<1>7. CASE TamkokoRow(s)
  <2>1. ~Logged /\ UNCHANGED data
    BY <1>3, <1>7 DEF TamkokoRow
  <2>2. call' = [call EXCEPT ![s] = call'[s]]
    <3>1. PICK row \in TamkokoRows(Scanned(call[s].left)) :
            call' = [call EXCEPT ![s].mine[Scanned(call[s].left)] = row, ![s].left = @ \ {Scanned(call[s].left)}]
      BY <1>7 DEF TamkokoRow
    <3> QED
      BY <1>1, <3>1 DEF Call
  <2> QED
    BY <2>1, <2>2, RowStepLog DEF data
<1>8. CASE RefreshCommit(s)
  <2>1. /\ call' = [call EXCEPT ![s].pc = "refresh", ![s].mine = <<>>, ![s].file = NoFile,
                                ![s].done = @ \cup {call[s].file}]
        /\ snapshot' = [t \in Txns |->
                          Marked(t, IF t \in DOMAIN call[s].mine THEN call[s].mine[t] ELSE snapshot[t])]
        /\ UNCHANGED <<brand, rules, history>>
    BY <1>8 DEF RefreshCommit
  <2>2. call' = [call EXCEPT ![s] = call'[s]] /\ call'[s].mine = <<>> /\ call'[s].pc = "refresh"
    BY <1>1, <2>1 DEF Call
  <2>3. ASSUME Logged, NEW t \in Txns PROVE Explains(Versions, t, snapshot'[t])
    <3> DEFINE row == IF t \in DOMAIN call[s].mine THEN call[s].mine[t] ELSE snapshot[t]
    <3>1. row \in Row
      BY <1>1 DEF TypeInv, TableInv, Call, PartialRows
    <3>2. Explains(Versions, t, row)
      BY <1>2, <2>3
    <3>3. snapshot'[t] = Marked(t, row)
      BY <2>1
    <3> HIDE DEF row
    <3>4. Marked(t, row).rule = row.rule /\ Marked(t, row).code = row.code
      BY <3>1 DEF Marked, Row
    <3> QED
      BY <3>2, <3>3, <3>4 DEF Explains
  <2> QED
    BY <2>1, <2>2, <2>3, NoRowsYet, RowStepLog
<1> QED
  BY <1>4, <1>5, <1>6, <1>7, <1>8

LEMMA LogStep == TypeInv /\ LogInv /\ [Next]_vars => LogInv'
<1> SUFFICES ASSUME TypeInv, LogInv, [Next]_vars PROVE LogInv'
  OBVIOUS
<1>1. CASE UNCHANGED vars
  <2>1. /\ UNCHANGED <<brand, rules, history, snapshot, call>>
        /\ Versions' = Versions /\ Logged' = Logged
    BY <1>1 DEF vars, Versions, Logged
  <2>2. LogInv' <=>
          (Logged =>
            /\ rules \subseteq Versions
            /\ \A t \in Txns : Explains(Versions, t, snapshot[t])
            /\ \A s \in Sessions :
                 /\ \A t \in DOMAIN call[s].mine : Explains(Versions, t, call[s].mine[t])
                 /\ call[s].pc = "write" => Explains(Versions, call[s].row[1], call[s].row[2]))
    BY <2>1 DEF LogInv, Explains
  <2> QED
    BY <2>2 DEF LogInv
<1>2. ASSUME NEW s \in Sessions, BatchInsert(s) PROVE LogInv'
  <2> DEFINE q == Head(call[s].items)
             r == NewRule(nextId, BatchDirection(q), SummaryItem(q, call[s].dual), NewPrio(Seen(s)))
  <2>1. /\ call' = [call EXCEPT ![s].pc = "item", ![s].added = @ \cup {r}, ![s].items = Tail(@),
                                ![s].row = Append(@, q)]
        /\ UNCHANGED <<brand, rules, history, snapshot>>
    BY <1>2 DEF BatchInsert
  <2> HIDE DEF q, r
  <2>2. call[s] \in Call
    BY DEF TypeInv, TableInv
  <2>3. call' = [call EXCEPT ![s] = call'[s]] /\ call'[s].mine = call[s].mine /\ call'[s].pc = "item"
    BY <2>1, <2>2 DEF Call, TypeInv, TableInv
  <2>4. Logged => /\ \A t \in DOMAIN call'[s].mine : Explains(Versions, t, call'[s].mine[t])
                  /\ \A t \in Txns : Explains(Versions, t, snapshot'[t])
    BY <2>1, <2>3 DEF LogInv
  <2> QED
    BY <2>1, <2>3, <2>4, RowStepLog
<1>3. CASE Next
  BY <1>2, <1>3, StepKinds, QuietLog, RefreshLog
<1> QED
  BY <1>1, <1>3

(* A row that cites a rule was given its category by a recorded version of that
   rule, enabled, whose conditions the transaction meets: rules are edited, removed
   and restored while refreshes run, and the log still says which one it was.  *)
THEOREM ExplainedTheorem == Spec => []SnapshotExplained
<1>1. LogInv => SnapshotExplained
  BY DEF LogInv, SnapshotExplained, Explains
<1>2. Init => TypeInv /\ LogInv
  BY InitType, InitLog
<1>3. TypeInv /\ LogInv /\ [Next]_vars => (TypeInv /\ LogInv)'
  BY TypeStep, LogStep
<1> QED
  BY <1>1, <1>2, <1>3, PTL DEF Spec

-----------------------------------------------------------------------------
(* A request that no other disturbs.                                            *)

Undisturbed(s) == call[s].alone /\ call[s].pc # "idle"
Lone == \A s \in Sessions : Undisturbed(s) => \A u \in Sessions \ {s} : call[u].pc = "idle"

RowsOf(t) == IF brand = "tamkoko" THEN TamkokoRows(t) ELSE YufengRows(t)

(* What a lone request has refreshed is current, what it is about to write is what
   the rules give; a row that still cites the rule it deleted is of a file it will
   refresh.                                                                     *)
Refreshing(s) ==
    LET c == call[s]
        running == c.pc \in {"rows", "write"}
    IN Undisturbed(s) /\ ~c.failed =>
         /\ c.pc = "refresh" \/ running \/ c.done = {}
         /\ \A t \in Txns : FileOf[t] \in c.done => Current(t)
         /\ running =>
              /\ \A t \in c.left : FileOf[t] = c.file
              /\ \A t \in DOMAIN c.mine : FileOf[t] = c.file
              /\ brand = "tamkoko" => c.left \subseteq DOMAIN c.mine
              /\ \A t \in Txns : FileOf[t] = c.file /\ t \notin c.left =>
                   \/ c.pc = "write" /\ c.row[1] = t
                   \/ t \in DOMAIN c.mine /\ c.mine[t] \in RowsOf(t)
         /\ c.pc = "write" => FileOf[c.row[1]] = c.file /\ c.row[2] \in RowsOf(c.row[1])
         /\ c.op = "delete" =>
              /\ c.id > 0
              /\ \A t \in Txns : snapshot[t].rule = c.id =>
                   FileOf[t] \in c.todo \/ (running /\ FileOf[t] = c.file)
              /\ c.pc = "delete" \/ \A r \in rules : r.id = c.id => ~r.enabled

(* What a lone settling has checked stays true, of the rules and of those it
   prepared itself.                                                             *)
Settling(s) ==
    LET c == call[s]
    IN Undisturbed(s) =>
         /\ c.pc \in {"priority", "settle"} =>
              ~\E r \in rules : Contradicts(r, SettleDirection(c.items[1]), c.items[1])
         /\ c.pc = "settle" => \A r \in rules : r.prio < c.prio
         /\ c.pc \in {"item", "insert"} /\ ~c.dual =>
              \A n \in c.added, r \in rules \cup c.added : Agree(n, r)
         /\ c.pc = "insert" /\ ~c.dual => ~BatchConflict(s, Head(c.items))

LoneInv == Lone /\ \A s \in Sessions : Refreshing(s) /\ Settling(s)

(* No other request than s may be undisturbed after the step.                   *)
OnlyHere(s) == \A u \in Sessions \ {s} : ~Undisturbed(u)'

LEMMA OneToShow ==
    ASSUME NEW s \in Sessions, OnlyHere(s), Lone', Refreshing(s)', Settling(s)'
    PROVE  LoneInv'
<1>1. ASSUME NEW u \in Sessions, u # s PROVE Refreshing(u)' /\ Settling(u)'
  BY <1>1 DEF OnlyHere, Refreshing, Settling
<1> QED
  BY <1>1 DEF LoneInv

LEMMA BeginAlone ==
    ASSUME TypeInv, NEW s \in Sessions, NEW c \in Call, Begin(s, c)
    PROVE  /\ OnlyHere(s) /\ Lone'
           /\ \E b \in BOOLEAN : call'[s] = [c EXCEPT !.alone = b]
<1>1. /\ call'[s] = [c EXCEPT !.alone = \A v \in Sessions \ {s} : call[v].pc = "idle"]
      /\ \A u \in Sessions \ {s} : call'[u] = IF call[u].pc = "idle" THEN call[u]
                                              ELSE [call[u] EXCEPT !.alone = FALSE]
  BY DEF Begin
<1>2. ASSUME NEW u \in Sessions \ {s} PROVE call'[u].pc = "idle" \/ ~call'[u].alone
  <2>1. call[u] \in Call
    BY DEF TypeInv, TableInv
  <2>2. [call[u] EXCEPT !.alone = FALSE].alone = FALSE
    BY <2>1 DEF Call
  <2>3. call'[u] = call[u] \/ call'[u] = [call[u] EXCEPT !.alone = FALSE]
    BY <1>1
  <2>4. call[u].pc = "idle" \/ call'[u] = [call[u] EXCEPT !.alone = FALSE]
    BY <1>1
  <2> QED
    BY <2>2, <2>3, <2>4
<1>3. OnlyHere(s)
  BY <1>2 DEF OnlyHere, Undisturbed
<1>4. call'[s].alone => \A v \in Sessions \ {s} : call'[v].pc = "idle"
  <2>1. call'[s].alone = \A v \in Sessions \ {s} : call[v].pc = "idle"
    BY <1>1 DEF Call
  <2> QED
    BY <1>1, <2>1
<1>5. Lone'
  BY <1>2, <1>4 DEF Lone, Undisturbed
<1> QED
  BY <1>1, <1>3, <1>5

LEMMA SingleAlone == ASSUME TypeInv, Single PROVE LoneInv'
<1>1. ASSUME NEW u \in Sessions PROVE ~Undisturbed(u)'
  <2>1. call[u] \in Call
    BY DEF TypeInv, TableInv
  <2>2. call'[u] = IF call[u].pc = "idle" THEN call[u] ELSE [call[u] EXCEPT !.alone = FALSE]
    BY DEF Single
  <2> QED
    BY <2>1, <2>2 DEF Undisturbed, Call
<1> QED
  BY <1>1 DEF LoneInv, Lone, Refreshing, Settling

LEMMA StepAlone ==
    ASSUME TypeInv, Lone, NEW s \in Sessions, NEW d, call' = [call EXCEPT ![s] = d],
           call[s].pc # "idle", d.alone = call[s].alone \/ d.pc = "idle"
    PROVE  /\ OnlyHere(s) /\ Lone' /\ call'[s] = d
           /\ Undisturbed(s)' => Undisturbed(s)
<1>1. call'[s] = d /\ \A u \in Sessions \ {s} : call'[u] = call[u]
  BY DEF TypeInv, TableInv
<1>2. OnlyHere(s)
  BY <1>1 DEF OnlyHere, Undisturbed, Lone
<1>3. Undisturbed(s)' => Undisturbed(s)
  BY <1>1 DEF Undisturbed
<1>4. Lone'
  BY <1>1, <1>2, <1>3 DEF Lone, OnlyHere, Undisturbed
<1> QED
  BY <1>1, <1>2, <1>3, <1>4

LEMMA AnsweredAlone ==
    ASSUME TypeInv, Lone, NEW s \in Sessions, call' = [call EXCEPT ![s] = Idle], call[s].pc # "idle"
    PROVE  LoneInv'
<1>1. Idle.pc = "idle"
  BY DEF Idle
<1>2. OnlyHere(s) /\ Lone' /\ call'[s] = Idle
  BY <1>1, StepAlone
<1>3. ~Undisturbed(s)'
  BY <1>1, <1>2 DEF Undisturbed
<1>4. Refreshing(s)' /\ Settling(s)'
  BY <1>3 DEF Refreshing, Settling
<1> QED
  BY <1>2, <1>4, OneToShow

(* What a row may become depends on the rules and the overrides.                *)
LEMMA SteadyRows ==
    ASSUME UNCHANGED <<brand, rules, overrides>>
    PROVE  /\ \A t : RowsOf(t)' = RowsOf(t)
           /\ snapshot' = snapshot => \A t : Current(t)' <=> Current(t)
BY DEF RowsOf, TamkokoRows, YufengRows, Current, Marked

(* A request that has not yet refreshed.                                        *)
LEMMA BeginsFresh ==
    ASSUME NEW s \in Sessions, call'[s].done = {}, call'[s].pc \notin {"rows", "write"},
           call'[s].op = "delete" =>
              /\ call'[s].id > 0
              /\ \A t \in Txns : snapshot'[t].rule = call'[s].id => FileOf[t] \in call'[s].todo
              /\ call'[s].pc = "delete" \/ \A r \in rules' : r.id = call'[s].id => ~r.enabled
    PROVE  Refreshing(s)'
BY DEF Refreshing

LEMMA NothingToSettle ==
    ASSUME NEW s \in Sessions, call'[s].pc \notin {"priority", "settle", "item", "insert"}
    PROVE  Settling(s)'
BY DEF Settling

(* The requests that begin.                                                     *)
LEMMA BeginsLone ==
    ASSUME TypeInv, NEW s \in Sessions, NEW c \in Call, Begin(s, c), c.done = {},
           c.pc \in {"priority", "item", "delete", "import", "refresh"},
           c.op = "delete" =>
              /\ c.id > 0 /\ c.pc = "delete"
              /\ \A t \in Txns : snapshot'[t].rule = c.id => FileOf[t] \in c.todo,
           c.pc = "priority" => ~\E r \in rules' : Contradicts(r, SettleDirection(c.items[1]), c.items[1]),
           c.pc = "item" => c.added = {}
    PROVE  LoneInv'
<1>1. PICK b \in BOOLEAN : call'[s] = [c EXCEPT !.alone = b]
  BY BeginAlone
<1>2. /\ call'[s].done = {} /\ call'[s].pc = c.pc /\ call'[s].op = c.op /\ call'[s].id = c.id
      /\ call'[s].todo = c.todo /\ call'[s].items = c.items /\ call'[s].added = c.added
  BY <1>1 DEF Call
<1>3. Refreshing(s)'
  BY <1>2, BeginsFresh
<1>4. Settling(s)'
  BY <1>2 DEF Settling
<1> QED
  BY <1>3, <1>4, BeginAlone, OneToShow

LEMMA SettleCheckLone ==
    ASSUME TypeInv, NEW s \in Sessions, NEW q \in Requests, SettleCheck(s, q)
    PROVE  LoneInv'
<1> DEFINE c == [Idle EXCEPT !.pc = "priority", !.op = "settle", !.items = <<q>>]
<1>1. Begin(s, c) /\ UNCHANGED data /\ ~\E r \in rules : Contradicts(r, SettleDirection(q), q)
  BY DEF SettleCheck
<1>2. c \in Call
  <2>1. <<q>> \in Seq(Item)
    BY RulesAssumption
  <2> QED
    BY <2>1, IdleCall DEF Call, Pcs, Ops
<1>3. c.done = {} /\ c.pc = "priority" /\ c.op = "settle" /\ c.items[1] = q
  BY DEF Idle
<1> HIDE DEF c
<1> QED
  BY <1>1, <1>2, <1>3, BeginsLone DEF data

LEMMA BatchStartLone ==
    ASSUME TypeInv, NEW s \in Sessions, NEW B \in Batches, NEW dual \in BOOLEAN, BatchStart(s, B, dual)
    PROVE  LoneInv'
<1> DEFINE c == [Idle EXCEPT !.pc = "item", !.op = "batch", !.items = B, !.dual = dual,
                             !.todo = {FileOf[B[i].txn] : i \in DOMAIN B}]
<1>1. B \in Seq(Item) /\ {FileOf[B[i].txn] : i \in DOMAIN B} \subseteq Files
  <2>1. B \in Seq(Item)
    BY RulesAssumption
  <2>2. ASSUME NEW i \in DOMAIN B PROVE FileOf[B[i].txn] \in Files
    <3>1. B[i] \in Item
      BY <2>1
    <3>2. B[i].txn \in Txns
      BY <3>1 DEF Item
    <3> QED
      BY <3>2, RulesAssumption
  <2> QED
    BY <2>1, <2>2
<1>2. c \in Call
  BY <1>1, IdleCall DEF Call, Pcs, Ops
<1>3. c.done = {} /\ c.pc = "item" /\ c.op = "batch" /\ c.added = {}
  BY DEF Idle
<1>4. Begin(s, c)
  BY DEF BatchStart
<1> HIDE DEF c
<1> QED
  BY <1>2, <1>3, <1>4, BeginsLone

LEMMA DeleteReadLone ==
    ASSUME TypeInv, NEW s \in Sessions, NEW i \in 1..(nextId - 1), DeleteRead(s, i)
    PROVE  LoneInv'
<1> DEFINE F == {FileOf[t] : t \in {u \in Txns : snapshot[u].rule = i}}
           c == [Idle EXCEPT !.pc = "delete", !.op = "delete", !.id = i, !.todo = F]
<1>1. F \subseteq Files /\ i \in Nat /\ i > 0
  BY RulesAssumption, Table
<1>2. \A t \in Txns : snapshot[t].rule = i => FileOf[t] \in F
  OBVIOUS
<1>3. Begin(s, c) /\ snapshot' = snapshot
  BY DEF DeleteRead, data
<1> HIDE DEF F
<1>4. c \in Call
  BY <1>1, IdleCall DEF Call, Pcs, Ops
<1>5. c.done = {} /\ c.pc = "delete" /\ c.op = "delete" /\ c.id = i /\ c.todo = F
  BY DEF Idle
<1> HIDE DEF c
<1> QED
  BY <1>1, <1>2, <1>3, <1>4, <1>5, BeginsLone

LEMMA ImportReadLone ==
    ASSUME TypeInv, NEW s \in Sessions, NEW F \in Imports, ImportRead(s, F)
    PROVE  LoneInv'
<1> DEFINE K == {Key(r) : r \in rules}
           p == NewPrio(rules) - 9
           c == [Idle EXCEPT !.pc = "import", !.op = "import", !.row = F, !.added = K, !.prio = p]
<1>1. K \subseteq RuleKey /\ p \in Int /\ F \in Seq(Rule)
  <2>1. \A r \in Rule : Key(r) \in RuleKey
    BY DEF Key, RuleKey, Rule
  <2>2. NewPrio(rules) \in Int
    BY NewPrioIsAbove, Table
  <2> QED
    BY <2>1, <2>2, RulesAssumption, Table
<1>2. c \in Call
  <2> HIDE DEF K, p
  <2> QED
    BY <1>1, IdleCall DEF Call, Pcs, Ops
<1>3. c.done = {} /\ c.pc = "import" /\ c.op = "import"
  BY DEF Idle
<1>4. Begin(s, c)
  BY DEF ImportRead
<1> HIDE DEF c
<1> QED
  BY <1>2, <1>3, <1>4, BeginsLone

LEMMA RerunStartLone ==
    ASSUME TypeInv, NEW s \in Sessions, NEW F \in SUBSET Files, RerunStart(s, F)
    PROVE  LoneInv'
<1> DEFINE c == [Idle EXCEPT !.pc = "refresh", !.op = "rerun", !.todo = F]
<1>1. c \in Call
  BY IdleCall DEF Call, Pcs, Ops
<1>2. c.done = {} /\ c.pc = "refresh" /\ c.op = "rerun"
  BY DEF Idle
<1>3. Begin(s, c)
  BY DEF RerunStart
<1> HIDE DEF c
<1> QED
  BY <1>1, <1>2, <1>3, BeginsLone

LEMMA SettlePriorityLone ==
    ASSUME TypeInv, LoneInv, NEW s \in Sessions, SettlePriority(s)
    PROVE  LoneInv'
<1> DEFINE d == [call[s] EXCEPT !.pc = "settle", !.prio = NewPrio(rules)]
<1>1. call[s] \in Call /\ call[s].pc = "priority" /\ call' = [call EXCEPT ![s] = d] /\ UNCHANGED data
  BY DEF TypeInv, TableInv, SettlePriority
<1>2. /\ d.pc = "settle" /\ d.prio = NewPrio(rules) /\ d.alone = call[s].alone /\ d.items = call[s].items
      /\ d.done = call[s].done /\ d.failed = call[s].failed /\ d.op = call[s].op
  BY <1>1 DEF Call
<1> HIDE DEF d
<1>3. OnlyHere(s) /\ Lone' /\ call'[s] = d /\ (Undisturbed(s)' => Undisturbed(s))
  BY <1>1, <1>2, StepAlone DEF LoneInv
<1>4. Refreshing(s)'
  <2>1. call[s].op = "settle"
    BY <1>1 DEF TypeInv, Fits
  <2>2. Undisturbed(s) /\ ~call[s].failed => call[s].done = {}
    BY <1>1 DEF LoneInv, Refreshing
  <2> QED
    BY <1>2, <1>3, <2>1, <2>2 DEF Refreshing
<1>5. Settling(s)'
  <2>1. \A r \in rules : r.prio < NewPrio(rules)
    BY NewPrioIsAbove, Table
  <2>2. Undisturbed(s) => ~\E r \in rules : Contradicts(r, SettleDirection(call[s].items[1]), call[s].items[1])
    BY <1>1 DEF LoneInv, Settling
  <2>3. rules' = rules
    BY <1>1 DEF data
  <2> QED
    BY <1>2, <1>3, <2>1, <2>2, <2>3 DEF Settling
<1> QED
  BY <1>3, <1>4, <1>5, OneToShow

(* A request that has written what it was asked starts to refresh.              *)
LEMMA WritesLone ==
    ASSUME TypeInv, LoneInv, NEW s \in Sessions, NEW d, call' = [call EXCEPT ![s] = d],
           call[s].pc \notin {"idle", "refresh", "rows", "write"},
           d.pc = "refresh", d.alone = call[s].alone, d.failed = call[s].failed,
           d.done = call[s].done,
           d.op = "delete" /\ Undisturbed(s) /\ ~d.failed =>
              /\ d.id > 0
              /\ \A t \in Txns : snapshot'[t].rule = d.id => FileOf[t] \in d.todo
              /\ \A r \in rules' : r.id = d.id => ~r.enabled
    PROVE  LoneInv'
<1>1. OnlyHere(s) /\ Lone' /\ call'[s] = d /\ (Undisturbed(s)' => Undisturbed(s))
  BY StepAlone DEF LoneInv
<1>2. Undisturbed(s) /\ ~call[s].failed => call[s].done = {}
  BY DEF LoneInv, Refreshing
<1>3. Refreshing(s)'
  BY <1>1, <1>2 DEF Refreshing
<1>4. Settling(s)'
  BY <1>1 DEF Settling
<1> QED
  BY <1>1, <1>3, <1>4, OneToShow

LEMMA SettleWriteLone ==
    ASSUME TypeInv, LoneInv, NEW s \in Sessions, SettleWrite(s)
    PROVE  LoneInv'
<1> DEFINE f == FileOf[call[s].items[1].txn]
           d == [call[s] EXCEPT !.pc = "refresh", !.todo = {f}]
<1>1. call[s] \in Call /\ call[s].pc = "settle" /\ call' = [call EXCEPT ![s] = d]
  BY DEF TypeInv, TableInv, SettleWrite
<1>2. call[s].op = "settle"
  BY <1>1 DEF TypeInv, Fits
<1> HIDE DEF f
<1>3. /\ d.pc = "refresh" /\ d.alone = call[s].alone /\ d.failed = call[s].failed
      /\ d.done = call[s].done /\ d.op = "settle"
  BY <1>1, <1>2 DEF Call
<1> HIDE DEF d
<1> QED
  BY <1>1, <1>3, WritesLone

LEMMA BatchCommitLone ==
    ASSUME TypeInv, LoneInv, NEW s \in Sessions, BatchCommit(s)
    PROVE  LoneInv'
<1> DEFINE d == [call[s] EXCEPT !.pc = "refresh", !.row = <<>>]
<1>1. call[s] \in Call /\ call[s].pc = "item" /\ call' = [call EXCEPT ![s] = d]
  BY DEF TypeInv, TableInv, BatchCommit
<1>2. call[s].op # "delete"
  BY <1>1 DEF TypeInv, Fits
<1>3. /\ d.pc = "refresh" /\ d.alone = call[s].alone /\ d.failed = call[s].failed
      /\ d.done = call[s].done /\ d.op = call[s].op
  BY <1>1 DEF Call
<1> HIDE DEF d
<1> QED
  BY <1>1, <1>2, <1>3, WritesLone

LEMMA BatchCheckLone ==
    ASSUME TypeInv, LoneInv, NEW s \in Sessions, BatchCheck(s)
    PROVE  LoneInv'
<1> DEFINE q == Head(call[s].items)
<1>1. /\ call[s] \in Call /\ call[s].pc = "item" /\ call[s].op # "delete" /\ UNCHANGED data
      /\ call' = [call EXCEPT ![s] =
            IF q.code = NoCode THEN Idle
            ELSE IF ~(call[s].dual /\ q.field2 # NoField) /\ BatchConflict(s, q)
                 THEN [@ EXCEPT !.items = Tail(call[s].items)]
                 ELSE [@ EXCEPT !.pc = "insert"]]
  BY DEF TypeInv, TableInv, Fits, BatchCheck
<1> HIDE DEF q
<1>2. CASE q.code = NoCode
  BY <1>1, <1>2, AnsweredAlone DEF LoneInv
<1>3. ASSUME NEW d, d \in Call, call' = [call EXCEPT ![s] = d], d.pc \in {"item", "insert"},
             d.alone = call[s].alone, d.failed = call[s].failed, d.done = call[s].done, d.op = call[s].op,
             d.added = call[s].added, d.dual = call[s].dual,
             d.pc = "insert" /\ ~d.dual => Head(d.items) = q /\ ~BatchConflict(s, q)
      PROVE  LoneInv'
  <2>1. OnlyHere(s) /\ Lone' /\ call'[s] = d /\ (Undisturbed(s)' => Undisturbed(s))
    BY <1>1, <1>3, StepAlone DEF LoneInv
  <2>2. Refreshing(s)'
    <3>1. Undisturbed(s) /\ ~call[s].failed => call[s].done = {}
      BY <1>1 DEF LoneInv, Refreshing
    <3> QED
      BY <1>1, <1>3, <2>1, <3>1 DEF Refreshing
  <2>3. rules' = rules
    BY <1>1 DEF data
  <2>4. \A x : BatchConflict(s, x)' <=> BatchConflict(s, x)
    BY <1>3, <2>1, <2>3 DEF BatchConflict, Seen
  <2>5. Undisturbed(s) /\ ~call[s].dual => \A n \in call[s].added, r \in rules \cup call[s].added : Agree(n, r)
    BY <1>1 DEF LoneInv, Settling
  <2>6. Settling(s)'
    BY <1>3, <2>1, <2>3, <2>4, <2>5 DEF Settling
  <2> QED
    BY <2>1, <2>2, <2>6, OneToShow
<1>4. CASE q.code # NoCode /\ ~(call[s].dual /\ q.field2 # NoField) /\ BatchConflict(s, q)
  <2> DEFINE d == [call[s] EXCEPT !.items = Tail(call[s].items)]
  <2>1. call' = [call EXCEPT ![s] = d]
    BY <1>1, <1>4
  <2>2. Tail(call[s].items) \in Seq(Item)
    BY <1>1 DEF BatchCheck, Call
  <2>3. /\ d \in Call /\ d.pc = "item" /\ d.alone = call[s].alone /\ d.failed = call[s].failed
        /\ d.done = call[s].done /\ d.op = call[s].op /\ d.added = call[s].added /\ d.dual = call[s].dual
    BY <1>1, <2>2 DEF Call
  <2> HIDE DEF d
  <2> QED
    BY <1>3, <2>1, <2>3
<1>5. CASE q.code # NoCode /\ ~(~(call[s].dual /\ q.field2 # NoField) /\ BatchConflict(s, q))
  <2> DEFINE d == [call[s] EXCEPT !.pc = "insert"]
  <2>1. call' = [call EXCEPT ![s] = d]
    BY <1>1, <1>5
  <2>2. /\ d \in Call /\ d.pc = "insert" /\ d.alone = call[s].alone /\ d.failed = call[s].failed
        /\ d.done = call[s].done /\ d.op = call[s].op /\ d.added = call[s].added /\ d.dual = call[s].dual
        /\ d.items = call[s].items
    BY <1>1 DEF Call, Pcs
  <2>3. Head(d.items) = q
    BY <2>2 DEF q
  <2> HIDE DEF d
  <2> QED
    BY <1>3, <1>5, <2>1, <2>2, <2>3
<1> QED
  BY <1>2, <1>4, <1>5

LEMMA BatchInsertLone ==
    ASSUME TypeInv, LoneInv, NEW s \in Sessions, BatchInsert(s)
    PROVE  LoneInv'
<1> DEFINE q == Head(call[s].items)
           g == SummaryItem(q, call[s].dual)
           r == NewRule(nextId, BatchDirection(q), g, NewPrio(Seen(s)))
           d == [call[s] EXCEPT !.pc = "item", !.added = @ \cup {r}, !.items = Tail(@),
                                !.row = Append(@, q)]
<1>1. /\ call[s] \in Call /\ call[s].pc = "insert" /\ call[s].op # "delete"
      /\ call' = [call EXCEPT ![s] = d] /\ UNCHANGED <<brand, rules, history, overrides, snapshot>>
  BY DEF TypeInv, TableInv, Fits, BatchInsert
<1>2. r.field = "summary" /\ r.value = q.value /\ r.code = q.code
  <2>1. q \in Item
    BY <1>1 DEF TypeInv, Fits, Call
  <2>2. g.field = "summary" /\ g.value = q.value /\ g.code = q.code
    <3> HIDE DEF q
    <3> QED
      BY <2>1 DEF SummaryItem, Item
  <2> HIDE DEF q, g
  <2> QED
    BY <2>2 DEF NewRule
<1> HIDE DEF r, g
<1>3. /\ d.pc = "item" /\ d.alone = call[s].alone /\ d.failed = call[s].failed /\ d.done = call[s].done
      /\ d.op = call[s].op /\ d.added = call[s].added \cup {r} /\ d.dual = call[s].dual
  <2> HIDE DEF q
  <2> QED
    BY <1>1 DEF Call
<1> HIDE DEF d
<1>4. OnlyHere(s) /\ Lone' /\ call'[s] = d /\ (Undisturbed(s)' => Undisturbed(s))
  BY <1>1, <1>3, StepAlone DEF LoneInv
<1>5. Refreshing(s)'
  <2>1. Undisturbed(s) /\ ~call[s].failed => call[s].done = {}
    BY <1>1 DEF LoneInv, Refreshing
  <2> QED
    BY <1>1, <1>3, <1>4, <2>1 DEF Refreshing
<1>6. Settling(s)'
  <2>1. SUFFICES ASSUME Undisturbed(s), ~call[s].dual
                 PROVE  \A n \in d.added, u \in rules \cup d.added : Agree(n, u)
    BY <1>1, <1>3, <1>4 DEF Settling
  <2>2. \A n \in call[s].added, u \in rules \cup call[s].added : Agree(n, u)
    BY <1>1, <2>1 DEF LoneInv, Settling
  <2>3. ~BatchConflict(s, q)
    BY <1>1, <2>1 DEF LoneInv, Settling
  <2>4. \A u \in rules \cup call[s].added : Agree(r, u) /\ Agree(u, r)
    <3> HIDE DEF q
    <3> QED
      BY <1>2, <2>3 DEF BatchConflict, Seen, Agree
  <2>5. Agree(r, r)
    BY DEF Agree
  <2> QED
    BY <1>3, <2>2, <2>4, <2>5
<1> QED
  BY <1>4, <1>5, <1>6, OneToShow

LEMMA DeleteWriteLone ==
    ASSUME TypeInv, LoneInv, NEW s \in Sessions, DeleteWrite(s)
    PROVE  LoneInv'
<1>1. call[s] \in Call /\ call[s].pc = "delete" /\ UNCHANGED <<brand, overrides, snapshot>>
  BY DEF TypeInv, TableInv, DeleteWrite
<1>2. CASE ById(call[s].id) = {}
  BY <1>1, <1>2, AnsweredAlone DEF LoneInv, DeleteWrite
<1>3. CASE ById(call[s].id) # {}
  <2> DEFINE d == [call[s] EXCEPT !.pc = "refresh"]
  <2>1. call' = [call EXCEPT ![s] = d]
    BY <1>3 DEF DeleteWrite
  <2>2. PICK r \in ById(call[s].id) : RemoveRule(r) \/ UpdateRule(r, [r EXCEPT !.enabled = FALSE])
    BY <1>3 DEF DeleteWrite
  <2>3. \A u \in rules' : u.id = call[s].id => ~u.enabled
    <3>1. r \in rules /\ r.id = call[s].id /\ \A u \in rules : u.id = call[s].id => u = r
      BY <2>2, Table DEF ById, Distinct
    <3>2. r \in Rule
      BY <3>1, Table
    <3>3. [r EXCEPT !.enabled = FALSE].enabled = FALSE
      BY <3>2 DEF Rule
    <3>4. \A u \in rules' : (u \in rules /\ u # r) \/ u = [r EXCEPT !.enabled = FALSE]
      BY <2>2 DEF RemoveRule, UpdateRule
    <3> QED
      BY <3>1, <3>3, <3>4
  <2>4. /\ d.pc = "refresh" /\ d.alone = call[s].alone /\ d.failed = call[s].failed
        /\ d.done = call[s].done /\ d.op = call[s].op /\ d.id = call[s].id /\ d.todo = call[s].todo
    BY <1>1 DEF Call
  <2>5. call[s].op = "delete" /\ Undisturbed(s) /\ ~call[s].failed =>
          /\ call[s].id > 0
          /\ \A t \in Txns : snapshot[t].rule = call[s].id => FileOf[t] \in call[s].todo
    BY <1>1 DEF LoneInv, Refreshing
  <2> HIDE DEF d
  <2> QED
    BY <1>1, <2>1, <2>3, <2>4, <2>5, WritesLone
<1> QED
  BY <1>2, <1>3

LEMMA ImportWriteLone ==
    ASSUME TypeInv, LoneInv, NEW s \in Sessions, ImportWrite(s)
    PROVE  LoneInv'
<1>1. call' = [call EXCEPT ![s] = Idle] /\ call[s].pc = "import"
  BY DEF ImportWrite
<1> QED
  BY <1>1, AnsweredAlone DEF LoneInv

LEMMA AnswerLone ==
    ASSUME TypeInv, LoneInv, NEW s \in Sessions, Answer(s)
    PROVE  LoneInv'
BY AnsweredAlone DEF LoneInv, Answer

LEMMA RequestedIsSingle == ASSUME Requested PROVE Single
<1>1. \A d, p : Create(d, p) => Single
  BY DEF Create
<1>2. \A r, d : Put(r, d) => Single
  BY DEF Put
<1>3. \A r : Toggle(r) => Single
  BY DEF Toggle
<1>4. \A r, u : Reorder(r, u) => Single
  BY DEF Reorder
<1>5. \A h, to : Rollback(h, to) => Single
  BY DEF Rollback
<1>6. \A t, c : (MatchPost(t, c) \/ MatchPut(t, c) \/ Undo(t)) => Single
  BY DEF MatchPost, MatchPut, Undo
<1> QED
  BY <1>1, <1>2, <1>3, <1>4, <1>5, <1>6 DEF Requested

LEMMA RequestedLone == ASSUME TypeInv, Requested PROVE LoneInv'
BY RequestedIsSingle, SingleAlone

(* A step within a refresh.                                                     *)
LEMMA RowStepLone ==
    ASSUME TypeInv, LoneInv, NEW s \in Sessions, NEW d, call' = [call EXCEPT ![s] = d],
           call[s].pc \in {"refresh", "rows", "write"}, d.pc \in {"refresh", "rows", "write"},
           d.alone = call[s].alone,
           Undisturbed(s) /\ call'[s] = d => Refreshing(s)'
    PROVE  LoneInv'
<1>1. OnlyHere(s) /\ Lone' /\ call'[s] = d /\ (Undisturbed(s)' => Undisturbed(s))
  BY StepAlone DEF LoneInv
<1>2. Refreshing(s)'
  BY <1>1 DEF Refreshing
<1>3. Settling(s)'
  BY <1>1 DEF Settling
<1> QED
  BY <1>1, <1>2, <1>3, OneToShow

LEMMA RefreshFailLone ==
    ASSUME TypeInv, LoneInv, NEW s \in Sessions, RefreshFail(s)
    PROVE  LoneInv'
<1> DEFINE d == [call[s] EXCEPT !.pc = "refresh", !.mine = <<>>, !.row = <<>>, !.left = {},
                                !.file = NoFile, !.failed = TRUE,
                                !.todo = IF call[s].op = "rerun" THEN @ ELSE {}]
<1>1. call[s] \in Call /\ call[s].pc \in {"rows", "write"} /\ call' = [call EXCEPT ![s] = d]
  BY DEF TypeInv, TableInv, RefreshFail
<1>2. d.pc = "refresh" /\ d.alone = call[s].alone /\ d.failed = TRUE
  BY <1>1 DEF Call
<1> HIDE DEF d
<1>3. call'[s] = d => Refreshing(s)'
  BY <1>2 DEF Refreshing
<1> QED
  BY <1>1, <1>2, <1>3, RowStepLone

(* A row that cites a rule cites an enabled rule of the table.                  *)
LEMMA RowsCiteEnabled ==
    ASSUME NEW t, NEW row \in RowsOf(t)
    PROVE  row.rule = 0 \/ \E r \in rules : r.id = row.rule /\ r.enabled
<1>1. \A r \in Winners(rules, t) : r \in rules /\ r.enabled
  BY DEF Winners, Lowest, StepHits, TextHits, NameHits, OfStep
<1>2. \A x \in Classified(rules, t) : x.rule = 0 \/ \E r \in rules : r.id = x.rule /\ r.enabled
  BY <1>1 DEF Classified, NoRow
<1> QED
  BY <1>2 DEF RowsOf, YufengRows, TamkokoRows

LEMMA MarkedTwice ==
    ASSUME NEW t, NEW row \in Row
    PROVE  Marked(t, Marked(t, row)) = Marked(t, row) /\ Marked(t, row).rule = row.rule
BY DEF Marked, Row

(* What a lone refresh holds, in terms of its request alone.                    *)
Holding(c) ==
    /\ \A t \in c.left : FileOf[t] = c.file
    /\ \A t \in DOMAIN c.mine : FileOf[t] = c.file
    /\ brand = "tamkoko" => c.left \subseteq DOMAIN c.mine
    /\ \A t \in Txns : FileOf[t] = c.file /\ t \notin c.left =>
         \/ c.pc = "write" /\ c.row[1] = t
         \/ t \in DOMAIN c.mine /\ c.mine[t] \in RowsOf(t)
    /\ c.pc = "write" => FileOf[c.row[1]] = c.file /\ c.row[2] \in RowsOf(c.row[1])

LEMMA HoldingLone ==
    ASSUME TypeInv, LoneInv, NEW s \in Sessions, NEW d, call' = [call EXCEPT ![s] = d], UNCHANGED data,
           call[s].pc \in {"refresh", "rows", "write"}, d.pc \in {"rows", "write"},
           d.alone = call[s].alone, d.failed = call[s].failed, d.done = call[s].done,
           d.op = call[s].op, d.id = call[s].id,
           \A f \in call[s].todo : f \in d.todo \/ f = d.file,
           call[s].pc # "refresh" => d.file = call[s].file,
           Undisturbed(s) /\ ~call[s].failed => Holding(d)
    PROVE  LoneInv'
<1>1. ASSUME Undisturbed(s), call'[s] = d, ~d.failed PROVE Refreshing(s)'
  <2>1. /\ \A t \in Txns : FileOf[t] \in d.done => Current(t)
        /\ d.op = "delete" =>
             /\ d.id > 0
             /\ \A t \in Txns : snapshot[t].rule = d.id => FileOf[t] \in d.todo \/ FileOf[t] = d.file
             /\ \A r \in rules : r.id = d.id => ~r.enabled
    BY <1>1 DEF LoneInv, Refreshing
  <2>2. /\ \A t : RowsOf(t)' = RowsOf(t)
        /\ \A t : Current(t)' <=> Current(t)
        /\ rules' = rules /\ snapshot' = snapshot /\ brand' = brand
    BY SteadyRows DEF data
  <2>3. Holding(d)
    BY <1>1
  <2> QED
    BY <1>1, <2>1, <2>2, <2>3 DEF Refreshing, Holding
<1>2. Undisturbed(s) /\ call'[s] = d => Refreshing(s)'
  <2>1. call'[s] = d /\ d.failed => Refreshing(s)'
    BY DEF Refreshing
  <2> QED
    BY <1>1, <2>1
<1> QED
  BY <1>2, RowStepLone

LEMMA HeldSoFar ==
    ASSUME LoneInv, NEW s \in Sessions, Undisturbed(s), ~call[s].failed,
           call[s].pc \in {"rows", "write"}
    PROVE  Holding(call[s])
BY DEF LoneInv, Refreshing, Holding

LEMMA RefreshStartLone ==
    ASSUME TypeInv, LoneInv, NEW s \in Sessions, RefreshStart(s)
    PROVE  LoneInv'
<1>1. PICK f \in call[s].todo :
        call' = [call EXCEPT ![s].pc = "rows", ![s].file = f,
                             ![s].todo = @ \ {f}, ![s].left = {t \in Txns : FileOf[t] = f},
                             ![s].mine = IF brand = "tamkoko"
                                         THEN [t \in {u \in Txns : FileOf[u] = f} |-> NoRow]
                                         ELSE <<>>]
  BY DEF RefreshStart
<1> DEFINE L == {t \in Txns : FileOf[t] = f}
           m == IF brand = "tamkoko" THEN [t \in L |-> NoRow] ELSE <<>>
           d == [call[s] EXCEPT !.pc = "rows", !.file = f, !.todo = @ \ {f}, !.left = L, !.mine = m]
<1>2. call[s] \in Call /\ UNCHANGED data /\ call[s].pc = "refresh"
  BY DEF TypeInv, TableInv, RefreshStart
<1>3. call' = [call EXCEPT ![s] = d]
  BY <1>1
<1>4. DOMAIN m \subseteq L /\ (brand = "tamkoko" => L \subseteq DOMAIN m)
  BY NoRowsYet
<1>5. \A t \in Txns : FileOf[t] = f <=> t \in L
  OBVIOUS
<1>6. L \subseteq Txns
  OBVIOUS
<1> HIDE DEF L, m
<1>7. /\ d.pc = "rows" /\ d.file = f /\ d.todo = call[s].todo \ {f} /\ d.left = L /\ d.mine = m
      /\ d.alone = call[s].alone /\ d.failed = call[s].failed /\ d.done = call[s].done
      /\ d.op = call[s].op /\ d.id = call[s].id
  BY <1>2 DEF Call
<1> HIDE DEF d
<1>8. Holding(d)
  BY <1>4, <1>5, <1>6, <1>7 DEF Holding
<1> QED
  BY <1>2, <1>3, <1>7, <1>8, HoldingLone

LEMMA YufengReadLone ==
    ASSUME TypeInv, LoneInv, NEW s \in Sessions, YufengRead(s)
    PROVE  LoneInv'
<1> DEFINE t == Scanned(call[s].left)
<1>1. /\ call[s] \in Call /\ UNCHANGED data /\ t \in call[s].left /\ call[s].pc = "rows"
      /\ brand # "tamkoko"
  BY ScannedIsLeft DEF TypeInv, TableInv, YufengRead
<1>2. PICK row \in YufengRows(t) :
        call' = [call EXCEPT ![s].pc = "write", ![s].row = <<t, row>>, ![s].left = @ \ {t}]
  BY DEF YufengRead
<1> DEFINE d == [call[s] EXCEPT !.pc = "write", !.row = <<t, row>>, !.left = @ \ {t}]
<1>3. call' = [call EXCEPT ![s] = d]
  BY <1>2
<1>4. row \in RowsOf(t)
  BY <1>1 DEF RowsOf
<1> HIDE DEF t
<1>5. /\ d.pc = "write" /\ d.file = call[s].file /\ d.todo = call[s].todo /\ d.left = call[s].left \ {t}
      /\ d.mine = call[s].mine /\ d.row = <<t, row>>
      /\ d.alone = call[s].alone /\ d.failed = call[s].failed /\ d.done = call[s].done
      /\ d.op = call[s].op /\ d.id = call[s].id
  BY <1>1 DEF Call
<1> HIDE DEF d
<1>6. Undisturbed(s) /\ ~call[s].failed => Holding(d)
  <2> SUFFICES ASSUME Undisturbed(s), ~call[s].failed PROVE Holding(d)
    OBVIOUS
  <2>1. Holding(call[s])
    BY <1>1, HeldSoFar
  <2> QED
    BY <1>1, <1>4, <1>5, <2>1 DEF Holding
<1> QED
  BY <1>1, <1>3, <1>5, <1>6, HoldingLone

LEMMA YufengUpsertLone ==
    ASSUME TypeInv, LoneInv, NEW s \in Sessions, YufengUpsert(s)
    PROVE  LoneInv'
<1> DEFINE t == call[s].row[1]
           m == [u \in DOMAIN call[s].mine \cup {t} |-> IF u = t THEN call[s].row[2] ELSE call[s].mine[u]]
           d == [call[s] EXCEPT !.pc = "rows", !.row = <<>>, !.mine = m]
<1>1. call[s] \in Call /\ UNCHANGED data /\ call[s].pc = "write" /\ t \in Txns
  BY DEF TypeInv, TableInv, Fits, YufengUpsert
<1>2. call' = [call EXCEPT ![s] = d]
  BY DEF YufengUpsert
<1>3. /\ DOMAIN m = DOMAIN call[s].mine \cup {t} /\ m[t] = call[s].row[2]
      /\ \A u \in DOMAIN call[s].mine : u # t => m[u] = call[s].mine[u]
  OBVIOUS
<1> HIDE DEF m
<1>4. /\ d.pc = "rows" /\ d.file = call[s].file /\ d.todo = call[s].todo /\ d.left = call[s].left
      /\ d.mine = m
      /\ d.alone = call[s].alone /\ d.failed = call[s].failed /\ d.done = call[s].done
      /\ d.op = call[s].op /\ d.id = call[s].id
  BY <1>1 DEF Call
<1> HIDE DEF d
<1>5. Undisturbed(s) /\ ~call[s].failed => Holding(d)
  <2> SUFFICES ASSUME Undisturbed(s), ~call[s].failed PROVE Holding(d)
    OBVIOUS
  <2>1. Holding(call[s])
    BY <1>1, HeldSoFar
  <2>2. FileOf[t] = call[s].file /\ call[s].row[2] \in RowsOf(t)
    BY <1>1, <2>1 DEF Holding
  <2>3. \A u \in Txns : FileOf[u] = call[s].file /\ u \notin call[s].left =>
          u = t \/ (u \in DOMAIN call[s].mine /\ call[s].mine[u] \in RowsOf(u))
    BY <1>1, <2>1 DEF Holding
  <2>4. /\ \A u \in call[s].left : FileOf[u] = call[s].file
        /\ \A u \in DOMAIN call[s].mine : FileOf[u] = call[s].file
        /\ brand = "tamkoko" => call[s].left \subseteq DOMAIN call[s].mine
    BY <2>1 DEF Holding
  <2> HIDE DEF t
  <2> QED
    BY <1>3, <1>4, <2>2, <2>3, <2>4 DEF Holding
<1> QED
  BY <1>1, <1>2, <1>4, <1>5, HoldingLone

LEMMA TamkokoRowLone ==
    ASSUME TypeInv, LoneInv, NEW s \in Sessions, TamkokoRow(s)
    PROVE  LoneInv'
<1> DEFINE t == Scanned(call[s].left)
<1>1. /\ call[s] \in Call /\ UNCHANGED data /\ t \in call[s].left /\ call[s].pc = "rows"
      /\ brand = "tamkoko"
  BY ScannedIsLeft DEF TypeInv, TableInv, TamkokoRow
<1>2. PICK row \in TamkokoRows(t) : call' = [call EXCEPT ![s].mine[t] = row, ![s].left = @ \ {t}]
  BY DEF TamkokoRow
<1> DEFINE m == [call[s].mine EXCEPT ![t] = row]
           d == [call[s] EXCEPT !.mine = m, !.left = @ \ {t}]
<1>3. call' = [call EXCEPT ![s] = d]
  BY <1>2
<1>4. row \in RowsOf(t)
  BY <1>1 DEF RowsOf
<1> HIDE DEF t
<1>5. /\ DOMAIN m = DOMAIN call[s].mine /\ (t \in DOMAIN call[s].mine => m[t] = row)
      /\ \A u \in DOMAIN call[s].mine : u # t => m[u] = call[s].mine[u]
  <2>1. PICK T \in SUBSET Txns : call[s].mine \in [T -> Row]
    BY <1>1 DEF Call, PartialRows
  <2> QED
    BY <2>1
<1> HIDE DEF m
<1>6. /\ d.pc = "rows" /\ d.file = call[s].file /\ d.todo = call[s].todo /\ d.left = call[s].left \ {t}
      /\ d.mine = m
      /\ d.alone = call[s].alone /\ d.failed = call[s].failed /\ d.done = call[s].done
      /\ d.op = call[s].op /\ d.id = call[s].id
  BY <1>1 DEF Call
<1> HIDE DEF d
<1>7. Undisturbed(s) /\ ~call[s].failed => Holding(d)
  <2> SUFFICES ASSUME Undisturbed(s), ~call[s].failed PROVE Holding(d)
    OBVIOUS
  <2>1. Holding(call[s])
    BY <1>1, HeldSoFar
  <2>2. t \in DOMAIN call[s].mine
    BY <1>1, <2>1 DEF Holding
  <2> QED
    BY <1>1, <1>4, <1>5, <1>6, <2>1, <2>2 DEF Holding
<1> QED
  BY <1>1, <1>3, <1>6, <1>7, HoldingLone

LEMMA RefreshCommitLone ==
    ASSUME TypeInv, LoneInv, NEW s \in Sessions, RefreshCommit(s)
    PROVE  LoneInv'
<1> DEFINE d == [call[s] EXCEPT !.pc = "refresh", !.mine = <<>>, !.file = NoFile,
                                !.done = @ \cup {call[s].file}]
<1>1. /\ call[s] \in Call /\ call[s].pc = "rows" /\ call[s].left = {}
      /\ UNCHANGED <<brand, rules, overrides>>
      /\ call' = [call EXCEPT ![s] = d]
  BY DEF TypeInv, TableInv, RefreshCommit
<1>2. /\ d.pc = "refresh" /\ d.alone = call[s].alone /\ d.failed = call[s].failed
      /\ d.done = call[s].done \cup {call[s].file}
      /\ d.op = call[s].op /\ d.id = call[s].id /\ d.todo = call[s].todo
  BY <1>1 DEF Call
<1> HIDE DEF d
<1>3. ASSUME Undisturbed(s), ~call[s].failed
      PROVE  /\ \A t \in Txns : FileOf[t] \in d.done => Current(t)'
             /\ d.op = "delete" =>
                  /\ d.id > 0
                  /\ \A t \in Txns : snapshot'[t].rule = d.id => FileOf[t] \in d.todo
                  /\ \A r \in rules : r.id = d.id => ~r.enabled
  <2>1. Holding(call[s])
    BY <1>1, <1>3, HeldSoFar
  <2>2. \A t \in DOMAIN call[s].mine : FileOf[t] = call[s].file
    BY <2>1 DEF Holding
  <2>3. \A t \in Txns : FileOf[t] = call[s].file =>
          t \in DOMAIN call[s].mine /\ call[s].mine[t] \in RowsOf(t)
    BY <1>1, <2>1 DEF Holding
  <2>4. \A t \in Txns : snapshot'[t] = Marked(t, IF FileOf[t] = call[s].file THEN call[s].mine[t]
                                                                            ELSE snapshot[t])
    BY <2>2, <2>3 DEF RefreshCommit
  <2>5. \A t \in Txns : snapshot[t] \in Row /\ RowsOf(t) \subseteq Row
    <3>1. \A t \in Txns : snapshot[t] \in Row
      BY DEF TypeInv, TableInv
    <3>2. \A t \in Txns : YufengRows(t) \subseteq Row /\ TamkokoRows(t) \subseteq Row
      BY RowsOfTransactions
    <3> QED
      BY <3>1, <3>2 DEF RowsOf
  <2>6. /\ \A t \in Txns : FileOf[t] \in call[s].done => Current(t)
        /\ call[s].op = "delete" =>
             /\ call[s].id > 0
             /\ \A t \in Txns : snapshot[t].rule = call[s].id =>
                  FileOf[t] \in call[s].todo \/ FileOf[t] = call[s].file
             /\ \A r \in rules : r.id = call[s].id => ~r.enabled
    BY <1>1, <1>3 DEF LoneInv, Refreshing
  <2>7. ASSUME NEW t \in Txns, FileOf[t] \in d.done PROVE Current(t)'
    <3>1. \E row \in RowsOf(t) : snapshot'[t] = Marked(t, row)
      <4>1. CASE FileOf[t] = call[s].file
        BY <2>3, <2>4, <4>1
      <4>2. CASE FileOf[t] # call[s].file
        <5>1. PICK row \in RowsOf(t) : snapshot[t] = Marked(t, row)
          BY <1>2, <2>6, <2>7, <4>2 DEF Current, RowsOf
        <5> QED
          BY <2>4, <2>5, <4>2, <5>1, MarkedTwice
      <4> QED
        BY <4>1, <4>2
    <3>2. RowsOf(t)' = RowsOf(t) /\ \A row : Marked(t, row)' = Marked(t, row)
      BY <1>1, SteadyRows DEF Marked
    <3> QED
      BY <1>1, <3>1, <3>2 DEF Current, RowsOf
  <2>8. ASSUME d.op = "delete", NEW t \in Txns, snapshot'[t].rule = d.id PROVE FileOf[t] \in d.todo
    <3>1. CASE FileOf[t] = call[s].file
      <4>1. call[s].mine[t] \in RowsOf(t) /\ snapshot'[t].rule = call[s].mine[t].rule
        BY <2>3, <2>4, <2>5, <3>1, MarkedTwice
      <4>2. call[s].mine[t].rule = 0 \/ \E r \in rules : r.id = call[s].mine[t].rule /\ r.enabled
        BY <4>1, RowsCiteEnabled
      <4> QED
        BY <1>2, <2>6, <2>8, <4>1, <4>2
    <3>2. CASE FileOf[t] # call[s].file
      <4>1. snapshot'[t].rule = snapshot[t].rule
        BY <2>4, <2>5, <3>2, MarkedTwice
      <4> QED
        BY <1>2, <2>6, <2>8, <3>2, <4>1
    <3> QED
      BY <3>1, <3>2
  <2> QED
    BY <1>2, <2>6, <2>7, <2>8
<1>4. Undisturbed(s) /\ call'[s] = d => Refreshing(s)'
  <2>1. rules' = rules
    BY <1>1
  <2> QED
    BY <1>2, <1>3, <2>1 DEF Refreshing
<1> QED
  BY <1>1, <1>2, <1>4, RowStepLone

LEMMA InitLone == ASSUME Init PROVE LoneInv
<1>1. \A s \in Sessions : call[s] = Idle
  BY DEF Init
<1>2. \A s \in Sessions : ~Undisturbed(s)
  BY <1>1 DEF Undisturbed, Idle
<1> QED
  BY <1>2 DEF LoneInv, Lone, Refreshing, Settling

LEMMA LoneStep == TypeInv /\ LoneInv /\ [Next]_vars => LoneInv'
<1> SUFFICES ASSUME TypeInv, LoneInv, [Next]_vars PROVE LoneInv'
  OBVIOUS
<1>1. CASE UNCHANGED vars
  <2>1. /\ \A t : Current(t)' <=> Current(t)
        /\ \A t : RowsOf(t)' = RowsOf(t)
        /\ call' = call /\ rules' = rules /\ snapshot' = snapshot /\ brand' = brand
    BY <1>1, SteadyRows DEF vars
  <2>2. \A s : Undisturbed(s)' <=> Undisturbed(s)
    BY <2>1 DEF Undisturbed
  <2>3. Lone'
    BY <2>1, <2>2 DEF LoneInv, Lone
  <2>4. \A s, q : BatchConflict(s, q)' <=> BatchConflict(s, q)
    BY <2>1 DEF BatchConflict, Seen
  <2>5. ASSUME NEW s \in Sessions PROVE Settling(s)'
    <3>1. Settling(s)
      BY DEF LoneInv
    <3> QED
      BY <2>1, <2>2, <2>4, <3>1 DEF Settling
  <2>6. ASSUME NEW s \in Sessions PROVE Refreshing(s)'
    <3>1. Refreshing(s)
      BY DEF LoneInv
    <3> QED
      BY <2>1, <2>2, <3>1 DEF Refreshing
  <2> QED
    BY <2>3, <2>5, <2>6 DEF LoneInv
<1>2. CASE Requested
  BY <1>2, RequestedLone
<1>3. ASSUME NEW s \in Sessions, Handler(s) PROVE LoneInv'
  BY <1>3, SettleCheckLone, SettlePriorityLone, SettleWriteLone, BatchStartLone, BatchCheckLone,
     BatchInsertLone, BatchCommitLone, DeleteReadLone, DeleteWriteLone, ImportReadLone, ImportWriteLone,
     RerunStartLone DEF Handler
<1>4. ASSUME NEW s \in Sessions, Refresh(s) PROVE LoneInv'
  BY <1>4, RefreshStartLone, YufengReadLone, YufengUpsertLone, TamkokoRowLone, RefreshCommitLone,
     RefreshFailLone, AnswerLone DEF Refresh
<1> QED
  BY <1>1, <1>2, <1>3, <1>4 DEF Next

LEMMA LoneInvariant == Spec => []LoneInv
<1>1. TypeInv /\ LoneInv /\ [Next]_vars => LoneInv'
  BY LoneStep
<1>2. Init => LoneInv
  BY InitLone
<1> QED
  BY <1>1, <1>2, TypeInvariant, PTL DEF Spec

(* A request that ran alone and whose refreshes succeeded leaves the files it
   refreshed as the committed rules and overrides classify them, and after a
   deletion no row of any file cites the rule: the files read before the rule went
   are all there are.                                                           *)
THEOREM LoneTheorem == Spec => []LoneWriterIsCurrent
<1>1. TypeInv /\ LoneInv => LoneWriterIsCurrent
  <2> SUFFICES ASSUME TypeInv, LoneInv, NEW s \in Sessions, Finished(s)
               PROVE  /\ \A t \in Txns : FileOf[t] \in call[s].done => Current(t)
                      /\ call[s].op = "delete" => \A t \in Txns : snapshot[t].rule # call[s].id
    BY DEF LoneWriterIsCurrent
  <2>1. Undisturbed(s) /\ ~call[s].failed /\ call[s].pc = "refresh" /\ call[s].todo = {}
    BY DEF Finished, Undisturbed
  <2>2. Refreshing(s)
    BY DEF LoneInv
  <2> QED
    BY <2>1, <2>2 DEF Refreshing
<1> QED
  BY <1>1, TypeInvariant, LoneInvariant, PTL

-----------------------------------------------------------------------------
(* What settling promises a request that runs alone.                            *)

LEMMA HitsOfStep ==
    ASSUME NEW R, NEW t, NEW k \in Steps, NEW r \in StepHits(R, t, k)
    PROVE  StepOf(r) = k
<1>1. StepField[k] = r.field /\ StepType[k] = r.type
  BY DEF StepHits, TextHits, NameHits, OfStep
<1>2. \A j \in Steps : StepField[j] = r.field /\ StepType[j] = r.type => j = k
  <2>1. \A i \in Steps : i = 1 \/ i = 2 \/ i = 3 \/ i = 4 \/ i = 5
    BY DEF Steps
  <2> QED
    BY <1>1, <2>1 DEF Steps, StepField, StepType
<1> QED
  BY <1>1, <1>2 DEF StepOf

LEMMA WinnersHit ==
    ASSUME NEW R, NEW t, NEW r \in Winners(R, t)
    PROVE  \E k \in Steps : r \in StepHits(R, t, k)
BY DEF Winners, Lowest

(* Of all steps only its own write makes a settling refresh.                    *)
LEMMA SettlesItself ==
    ASSUME TypeInv, Next, NEW s \in Sessions, call[s].pc \in {"settle", "item"},
           call'[s].pc = "refresh"
    PROVE  SettleWrite(s) \/ BatchCommit(s)
<1>1. \A u \in Sessions : call[u] \in Call
  BY DEF TypeInv, TableInv
<1>2. ~Single
  BY <1>1 DEF Single, Call
<1>3. ASSUME NEW u \in Sessions, NEW c, Begin(u, c) PROVE FALSE
  <2>1. u # s
    BY <1>3 DEF Begin
  <2>2. call'[s].pc = call[s].pc
    BY <1>1, <1>3, <2>1 DEF Begin, Call
  <2> QED
    BY <2>2
<1>4. ~Requested
  BY <1>2, RequestedIsSingle
<1>5. ASSUME NEW u \in Sessions, NEW d, call' = [call EXCEPT ![u] = d] PROVE u = s /\ d.pc = "refresh"
  <2>1. call \in [Sessions -> Call]
    BY DEF TypeInv, TableInv
  <2> QED
    BY <1>5, <2>1
<1>6. ASSUME NEW u \in Sessions, Handler(u) PROVE SettleWrite(s) \/ BatchCommit(s)
  <2>1. SettleWrite(u) \/ BatchCommit(u) => u = s
    BY <1>5 DEF SettleWrite, BatchCommit
  <2>2. ~\/ \E q \in Requests : SettleCheck(u, q)
         \/ \E B \in Batches, dual \in BOOLEAN : BatchStart(u, B, dual)
         \/ \E i \in 1..(nextId - 1) : DeleteRead(u, i)
         \/ \E F \in Imports : ImportRead(u, F)
         \/ \E F \in SUBSET Files \ {{}} : RerunStart(u, F)
    BY <1>3 DEF SettleCheck, BatchStart, DeleteRead, ImportRead, RerunStart
  <2>3. ~SettlePriority(u) /\ ~BatchInsert(u) /\ ~ImportWrite(u) /\ ~DeleteWrite(u)
    <3>1. SettlePriority(u) \/ BatchInsert(u) \/ ImportWrite(u) \/ DeleteWrite(u) => u = s
      BY <1>5 DEF SettlePriority, BatchInsert, ImportWrite, DeleteWrite
    <3>2. ~SettlePriority(s) /\ ~BatchInsert(s) /\ ~ImportWrite(s) /\ ~DeleteWrite(s)
      BY DEF SettlePriority, BatchInsert, ImportWrite, DeleteWrite
    <3> QED
      BY <3>1, <3>2
  <2>4. ~BatchCheck(u)
    <3> SUFFICES ASSUME BatchCheck(u) PROVE FALSE
      OBVIOUS
    <3>1. u = s
      BY <1>5 DEF BatchCheck
    <3>2. call'[s].pc \in {"idle", "item", "insert"}
      BY <1>1, <3>1 DEF BatchCheck, Call, Idle, TypeInv, TableInv
    <3> QED
      BY <3>2
  <2> QED
    BY <1>6, <2>1, <2>2, <2>3, <2>4 DEF Handler
<1>7. ASSUME NEW u \in Sessions, Refresh(u) PROVE FALSE
  <2> DEFINE Its == u = s /\ call[u].pc \in {"refresh", "rows", "write"}
  <2>1. RefreshStart(u) => Its
    BY <1>5 DEF RefreshStart
  <2>2. YufengRead(u) => Its
    BY <1>5 DEF YufengRead
  <2>3. YufengUpsert(u) => Its
    BY <1>5 DEF YufengUpsert
  <2>4. TamkokoRow(u) => Its
    BY <1>5 DEF TamkokoRow
  <2>5. RefreshCommit(u) => Its
    BY <1>5 DEF RefreshCommit
  <2>6. RefreshFail(u) => Its
    BY <1>5 DEF RefreshFail
  <2>7. Answer(u) => Its
    BY <1>5 DEF Answer
  <2>8. Its
    BY <1>7, <2>1, <2>2, <2>3, <2>4, <2>5, <2>6, <2>7 DEF Refresh
  <2> QED
    BY <2>8
<1> QED
  BY <1>4, <1>6, <1>7 DEF Next

LEMMA SettlesInOrder ==
    ASSUME TypeInv, LoneInv, NEW s \in Sessions, Undisturbed(s), SettleWrite(s)
    PROVE  /\ \A n \in rules' \ rules, r \in rules' : Agree(n, r)
           /\ \A t \in Txns, n \in rules' \ rules : n \in Winners(rules', t) =>
                \A r \in Winners(rules, t) : StepOf(n) < StepOf(r)
<1> DEFINE q == call[s].items[1]
           n == NewRule(nextId, SettleDirection(q), q, call[s].prio)
<1>1. /\ rules' = rules \cup {n} /\ call[s].pc = "settle" /\ call[s] \in Call /\ Fits(call[s])
  BY DEF SettleWrite, InsertRules, TypeInv, TableInv
<1>2. /\ ~\E r \in rules : Contradicts(r, SettleDirection(q), q)
      /\ \A r \in rules : r.prio < call[s].prio
  BY <1>1 DEF LoneInv, Settling
<1>3. n.enabled /\ n.field = q.field /\ n.value = q.value /\ n.dir = SettleDirection(q)
      /\ n.code = q.code /\ n.prio = call[s].prio
  BY DEF NewRule
<1>4. n \in Rule
  <2>1. q \in Item /\ q.code # NoCode /\ call[s].prio \in Int
    BY <1>1 DEF Fits, Call
  <2>2. nextId \in Nat /\ SettleDirection(q) \in Directions
    BY <2>1, DirectionsOfItems, Table
  <2> HIDE DEF q
  <2> QED
    BY <2>1, <2>2, SettledRule
<1> HIDE DEF n, q
<1>5. ASSUME NEW r \in rules' PROVE Agree(n, r)
  BY <1>1, <1>2, <1>3 DEF Agree, Contradicts
<1>6. ASSUME NEW t \in Txns, n \in Winners(rules', t), n \notin rules, NEW r \in Winners(rules, t)
      PROVE  StepOf(n) < StepOf(r)
  <2>1. rules \in SUBSET Rule /\ \A u \in rules : u.prio < n.prio
    BY <1>2, <1>3, Table
  <2>2. n \notin Winners(rules, t)
    BY <1>6 DEF Winners
  <2>3. \A j, k \in Steps : n \in StepHits(rules', t, j) /\ r \in StepHits(rules, t, k) => j < k
    BY <1>1, <1>4, <1>6, <2>1, <2>2, NewRuleYields
  <2>4. PICK j \in Steps : n \in StepHits(rules', t, j)
    BY <1>6, WinnersHit
  <2>5. PICK k \in Steps : r \in StepHits(rules, t, k)
    BY <1>6, WinnersHit
  <2> QED
    BY <2>3, <2>4, <2>5, HitsOfStep
<1> QED
  BY <1>1, <1>5, <1>6

LEMMA BatchAgrees ==
    ASSUME LoneInv, NEW s \in Sessions, Undisturbed(s), BatchCommit(s), ~call[s].dual
    PROVE  \A n \in rules' \ rules, r \in rules' : Agree(n, r)
<1>1. rules' = rules \cup call[s].added /\ call[s].pc = "item"
  BY DEF BatchCommit, InsertRules
<1> QED
  BY <1>1 DEF LoneInv, Settling

(* A settling that runs alone adds no rule that gives a keyword another category
   than an enabled rule, not even one of its batch; and the rule of one transaction
   takes only what no rule, or only rules of later steps, classified: the check is
   made before the priority is read and the priority before the write.          *)
THEOREM SettleTheorem == Spec => LoneSettle
<1> DEFINE P == \A s \in Sessions :
                  call[s].alone /\ call'[s].pc = "refresh" =>
                    /\ call[s].pc \in {"settle", "item"} /\ ~call[s].dual =>
                         \A n \in rules' \ rules, r \in rules' : Agree(n, r)
                    /\ call[s].pc = "settle" =>
                         \A t \in Txns, n \in rules' \ rules : n \in Winners(rules', t) =>
                            \A r \in Winners(rules, t) : StepOf(n) < StepOf(r)
<1>1. TypeInv /\ LoneInv /\ [Next]_vars => [P]_vars
  <2> SUFFICES ASSUME TypeInv, LoneInv, Next, NEW s \in Sessions, call[s].alone,
                      call'[s].pc = "refresh", call[s].pc \in {"settle", "item"}
               PROVE  /\ ~call[s].dual => \A n \in rules' \ rules, r \in rules' : Agree(n, r)
                      /\ call[s].pc = "settle" =>
                           \A t \in Txns, n \in rules' \ rules : n \in Winners(rules', t) =>
                              \A r \in Winners(rules, t) : StepOf(n) < StepOf(r)
    OBVIOUS
  <2>1. Undisturbed(s)
    BY DEF Undisturbed
  <2>2. CASE SettleWrite(s)
    BY <2>1, <2>2, SettlesInOrder
  <2>3. CASE BatchCommit(s)
    <3>1. call[s].pc = "item"
      BY <2>3 DEF BatchCommit
    <3> QED
      BY <2>1, <2>3, <3>1, BatchAgrees
  <2> QED
    BY <2>2, <2>3, SettlesItself
<1> QED
  BY <1>1, TypeInvariant, LoneInvariant, PTL DEF Spec, LoneSettle
=============================================================================
