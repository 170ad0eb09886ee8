---------------------------- MODULE ApprovalProofs ----------------------------
(* What the approval of proposals keeps whatever the proposals, transactions,
   codes and calls are.                                                         *)
EXTENDS Approval, FiniteSetTheorems, TLAPS

States == {"absent", "pending", "modified", "rejected", "executed"}
Stages == {"idle", "loop", "settle", "refresh", "committed", "rolledback"}
Code == Codes \union {NoCode}
Known == Dictionary \union {NoCode}
RowSet == [prop : Proposals, code : Code]

(* The values of the variables.                                                 *)
Typed ==
    /\ status \in [Proposals -> States] /\ final \in [Proposals -> Code]
    /\ rules \in SUBSET Rules /\ override \in [Txns -> Known]
    /\ writer \in [Txns -> Calls \union {Nobody}]
    /\ pc \in [Calls -> Stages] /\ action \in [Calls -> {"none", "approve", "reject"}]
    /\ rows \in [Calls -> SUBSET RowSet] /\ todo \in [Calls -> SUBSET RowSet]
    /\ cur \in [Calls -> SUBSET RowSet] /\ prio \in [Calls -> Nat]
    /\ mine \in [Calls -> SUBSET Rules] /\ overrides \in [Calls -> [Txns -> Known]]
    /\ poisoned \in [Calls -> BOOLEAN] /\ before \in [Calls -> SUBSET Calls]

(* A call that has not begun has read and written nothing.                      *)
Fresh(s) ==
    pc[s] = "idle" => /\ rows[s] = {} /\ todo[s] = {} /\ cur[s] = {}
                      /\ mine[s] = {} /\ overrides[s] = Nothing /\ before[s] = {}

(* The rows it works on are rows it read, the current one can be settled, at the
   priority computed for it.                                                    *)
Reads(s) ==
    /\ todo[s] \subseteq rows[s] /\ cur[s] \subseteq rows[s]
    /\ todo[s] # {} \/ cur[s] # {} => action[s] = "approve"
    /\ \A row \in cur[s] : Complete(row) /\ row.code \in Dictionary
    /\ pc[s] = "settle" => prio[s] > 0

(* Its rules are settled from rows it read and approves, its overrides from its
   rules; it holds the overrides it wrote until it ends.                        *)
Writes(s) ==
    /\ \A r \in mine[s] : /\ r.call = s /\ action[s] = "approve"
                          /\ \E row \in rows[s] : row.prop = r.prop /\ Complete(row)
    /\ \A t \in Txns : overrides[s][t] # NoCode =>
          \E r \in mine[s] : TxnOf[r.prop] = t /\ r.code = overrides[s][t]
    /\ \A t \in Txns : writer[t] = s <=>
          pc[s] \in {"loop", "settle", "refresh"} /\ overrides[s][t] # NoCode

(* What was committed before it read its rows is neither among them nor later
   in the order of priorities than what it writes.                              *)
Follows(s) ==
    /\ \A c \in before[s] : pc[c] = "committed"
    /\ \A q \in rules : q.call \in before[s] =>
         /\ \A row \in rows[s] : row.prop # q.prop
         /\ \A r \in mine[s] : q.prio < r.prio
         /\ pc[s] = "settle" => q.prio < prio[s]

(* The priorities are bounded, so the highest one exists.                       *)
Below(B) == /\ \A r \in rules : r.prio <= B
            /\ \A s \in Calls : \A r \in mine[s] : r.prio <= B
Bounded == \E B \in Nat : Below(B)

Inv ==
    /\ Typed
    /\ \A s \in Calls : Fresh(s) /\ Reads(s) /\ Writes(s) /\ Follows(s)
    /\ \A r \in rules : pc[r.call] = "committed"
    /\ Bounded /\ SettledTogether /\ RepeatYields

(* A bounded set of natural numbers has a greatest one.                         *)
LEMMA Greatest ==
    ASSUME NEW S \in SUBSET Nat, S # {}, NEW B \in Nat, \A x \in S : x <= B
    PROVE  Max(S) \in S /\ \A x \in S : Max(S) >= x
<1> DEFINE Above(x) == {y \in S : y > x}
           F == {Above(x) : x \in S}
<1>1. IsFiniteSet(S)
  BY FS_BoundedSetOfNaturals
<1>2. F \subseteq FiniteSubsetsOf(S) /\ F # {}
  <2>1. FiniteSubsetsOf(S) = SUBSET S
    BY <1>1, FS_FiniteSubsetsOfFinite
  <2>2. \A U \in F : U \subseteq S
    OBVIOUS
  <2>3. F # {}
    OBVIOUS
  <2> QED
    BY <2>1, <2>2, <2>3
<1>3. PICK U \in F : \A V \in F : ~ (<<V, U>> \in StrictSubsetOrdering(S))
  <2> HIDE DEF F
  <2> QED
    BY <1>2, WFMin, FS_StrictSubsetOrderingWellFounded
<1>4. PICK x \in S : U = Above(x)
  OBVIOUS
<1>5. ASSUME NEW y \in S, y > x PROVE FALSE
  <2>0. \A z \in S : z \in Nat
    OBVIOUS
  <2>1. /\ \A z \in Above(y) : z \in Above(x)
        /\ y \in Above(x) /\ y \notin Above(y)
    BY <1>5, <2>0
  <2>2. <<Above(y), Above(x)>> \in StrictSubsetOrdering(S)
    BY <2>1 DEF StrictSubsetOrdering
  <2> QED
    BY <1>3, <1>4, <2>2
<1>6. \A y \in S : x >= y
  BY <1>5
<1> QED
  BY <1>6 DEF Max

LEMMA InitInv == ASSUME ApprovalAssumption, Init PROVE Inv
<1> USE DEF Init, Nothing
<1>1. Typed
  BY DEF Typed, ApprovalAssumption, States, Stages, Code, Known
<1>2. \A s \in Calls : Fresh(s) /\ Reads(s) /\ Writes(s) /\ Follows(s)
  BY DEF Fresh, Reads, Writes, Follows, ApprovalAssumption
<1>3. Bounded
  BY DEF Bounded, Below
<1> QED
  BY <1>1, <1>2, <1>3 DEF Inv, SettledTogether, RepeatYields

LEMMA SubmitStep ==
    ASSUME ApprovalAssumption, Inv, NEW P \in SUBSET Proposals, Submit(P)
    PROVE  Inv'
<1> USE DEF Submit, db, call, loop, writes
<1>1. Typed'
  BY DEF Inv, Typed, States
<1>2. \A s \in Calls : (Fresh(s) /\ Reads(s) /\ Writes(s) /\ Follows(s))'
  BY DEF Inv, Fresh, Reads, Writes, Follows
<1>3. (\A r \in rules : pc[r.call] = "committed")' /\ Bounded'
  BY DEF Inv, Bounded, Below
<1>4. SettledTogether' /\ RepeatYields'
  BY DEF Inv, Typed, Rules, SettledTogether, RepeatYields
<1> QED
  BY <1>1, <1>2, <1>3, <1>4 DEF Inv

LEMMA EditStep ==
    ASSUME ApprovalAssumption, Inv, NEW p \in Proposals, NEW c \in Code,
           Patch(p, c) \/ Put(p, c)
    PROVE  Inv'
<1> USE DEF Patch, Put, db, call, loop, writes
<1>1. Typed'
  <2>1. CASE Patch(p, c)
    BY <2>1 DEF Inv, Typed
  <2>2. CASE Put(p, c)
    <3>1. status' \in [Proposals -> States]
      BY <2>2 DEF Inv, Typed, States
    <3>2. final' \in [Proposals -> Code]
      BY <2>2 DEF Inv, Typed
    <3> QED
      BY <2>2, <3>1, <3>2 DEF Inv, Typed
  <2> QED
    BY <2>1, <2>2
<1>2. \A s \in Calls : (Fresh(s) /\ Reads(s) /\ Writes(s) /\ Follows(s))'
  BY DEF Inv, Fresh, Reads, Writes, Follows
<1>3. (\A r \in rules : pc[r.call] = "committed")' /\ Bounded'
  BY DEF Inv, Bounded, Below
<1>4. SettledTogether' /\ RepeatYields'
  BY DEF Inv, Typed, Rules, SettledTogether, RepeatYields
<1> QED
  BY <1>1, <1>2, <1>3, <1>4 DEF Inv

LEMMA BeginStep ==
    ASSUME ApprovalAssumption, Inv, NEW s \in Calls, NEW a \in {"approve", "reject"},
           NEW P \in SUBSET Proposals, Begin(s, a, P)
    PROVE  Inv'
<1> USE DEF Begin, Goto, table, db, writes
<1>0. Typed /\ Fresh(s) /\ Reads(s) /\ Writes(s) /\ Follows(s) /\ SettledTogether
  BY DEF Inv
<1>1. Typed'
  <2>1. \A p \in P : Row(p) \in RowSet
    BY <1>0 DEF Typed, Row, RowSet, Code, ApprovalAssumption
  <2>2. rows'[s] \in SUBSET RowSet
    BY <1>0, <2>1 DEF Typed, Pending
  <2> QED
    BY <1>0, <2>2 DEF Typed, Stages
<1>2. Fresh(s)' /\ Reads(s)'
  BY <1>0 DEF Typed, Fresh, Reads
<1>3. Writes(s)'
  BY <1>0 DEF Typed, Fresh, Writes, Nothing
<1>4. Follows(s)'
  <2>1. \A row \in rows'[s] : status[row.prop] = "pending"
    BY <1>0 DEF Typed, Pending, Row
  <2>2. \A q \in rules : \A row \in rows'[s] : row.prop # q.prop
    BY <1>0, <2>1 DEF SettledTogether
  <2> QED
    BY <1>0, <2>2 DEF Typed, Fresh, Follows
<1>5. ASSUME NEW z \in Calls, z # s
      PROVE  (Fresh(z) /\ Reads(z) /\ Writes(z) /\ Follows(z))'
  BY <1>0, <1>5 DEF Inv, Typed, Fresh, Reads, Writes, Follows
<1>6. (\A r \in rules : pc[r.call] = "committed")' /\ Bounded'
  BY DEF Inv, Typed, Rules, Bounded, Below
<1>7. SettledTogether' /\ RepeatYields'
  BY <1>0 DEF Inv, Typed, Rules, SettledTogether, RepeatYields
<1> QED
  BY <1>1, <1>2, <1>3, <1>4, <1>5, <1>6, <1>7 DEF Inv

(* The next priority is above every rule the call sees.                         *)
LEMMA NextPriority ==
    ASSUME Typed, Bounded, NEW s \in Calls
    PROVE  LET M == Max({0} \union {r.prio : r \in rules \union mine[s]})
           IN  M \in Nat /\ \A r \in rules \union mine[s] : r.prio <= M
<1> DEFINE S == {0} \union {r.prio : r \in rules \union mine[s]}
<1>1. PICK B \in Nat : Below(B)
  BY DEF Bounded
<1>2. \A r \in rules \union mine[s] : r.prio \in Nat /\ r.prio <= B
  BY <1>1 DEF Typed, Rules, Below
<1>3. S \in SUBSET Nat /\ S # {} /\ \A x \in S : x <= B
  BY <1>2
<1>4. Max(S) \in S /\ \A x \in S : Max(S) >= x
  <2> HIDE DEF S
  <2> QED
    BY <1>3, Greatest
<1>5. \A x \in S : x \in Nat
  BY <1>3
<1>6. Max(S) \in Nat
  <2> HIDE DEF S
  <2> QED
    BY <1>4, <1>5
<1>7. \A r \in rules \union mine[s] : r.prio \in S
  OBVIOUS
<1> QED
  <2> DEFINE M == Max(S)
  <2> HIDE DEF M
  <2>1. M \in Nat /\ \A r \in rules \union mine[s] : r.prio <= M
    <3> HIDE DEF S
    <3> QED
      BY <1>2, <1>4, <1>6, <1>7 DEF M
  <2> QED
    BY <2>1 DEF M

LEMMA ExamineStep ==
    ASSUME ApprovalAssumption, Inv, NEW s \in Calls, NEW row \in todo[s], Examine(s, row)
    PROVE  Inv'
<1> USE DEF Goto, table, db, call, writes
<1>0. Typed /\ Fresh(s) /\ Reads(s) /\ Writes(s) /\ Follows(s) /\ Bounded
  BY DEF Inv
<1>1. /\ pc[s] = "loop" /\ todo' = [todo EXCEPT ![s] = @ \ {row}]
      /\ UNCHANGED <<table, db, call, writes, poisoned>>
  BY DEF Examine
<1> DEFINE M == Max({0} \union {r.prio : r \in rules \union mine[s]})
<1>2. M \in Nat /\ \A r \in rules \union mine[s] : r.prio <= M
  BY <1>0, NextPriority
<1>3. \/ UNCHANGED <<pc, cur, prio>>
      \/ /\ Complete(row) /\ row.code \in Dictionary
         /\ pc' = [pc EXCEPT ![s] = "settle"]
         /\ cur' = [cur EXCEPT ![s] = {row}]
         /\ prio' = [prio EXCEPT ![s] = 10 + M]
  BY DEF Examine
<1> HIDE DEF M
<1>4. Typed'
  <2>1. todo' \in [Calls -> SUBSET RowSet]
    BY <1>0, <1>1 DEF Typed
  <2>2. pc' \in [Calls -> Stages]
    BY <1>0, <1>3 DEF Typed, Stages
  <2>3. row \in RowSet
    BY <1>0 DEF Typed
  <2>4. cur' \in [Calls -> SUBSET RowSet]
    <3>1. {row} \in SUBSET RowSet
      BY <2>3
    <3>2. cur' = cur \/ cur' = [cur EXCEPT ![s] = {row}]
      BY <1>3
    <3>3. cur \in [Calls -> SUBSET RowSet]
      BY <1>0 DEF Typed
    <3> HIDE DEF RowSet
    <3> QED
      BY <3>1, <3>2, <3>3
  <2>5. prio' \in [Calls -> Nat]
    BY <1>0, <1>2, <1>3, SMTT(30) DEF Typed
  <2> QED
    BY <1>0, <1>1, <2>1, <2>2, <2>4, <2>5 DEF Typed
<1>5. Fresh(s)' /\ Reads(s)'
  BY <1>0, <1>1, <1>2, <1>3 DEF Typed, Fresh, Reads, Complete
<1>6. Writes(s)'
  BY <1>0, <1>1, <1>3 DEF Typed, Writes, Complete
<1>7. Follows(s)'
  <2>1. \A q \in rules : q.prio \in Nat /\ q.prio < 10 + M
    BY <1>0, <1>2 DEF Typed, Rules
  <2> QED
    BY <1>0, <1>1, <1>3, <2>1 DEF Inv, Typed, Follows
<1>8. ASSUME NEW z \in Calls, z # s
      PROVE  (Fresh(z) /\ Reads(z) /\ Writes(z) /\ Follows(z))'
  BY <1>0, <1>1, <1>3, <1>8 DEF Inv, Typed, Fresh, Reads, Writes, Follows, Complete
<1>9. (\A r \in rules : pc[r.call] = "committed")' /\ Bounded'
  BY <1>1, <1>3 DEF Inv, Typed, Rules, Bounded, Below
<1>10. SettledTogether' /\ RepeatYields'
  BY <1>1 DEF Inv, SettledTogether, RepeatYields
<1> QED
  BY <1>4, <1>5, <1>6, <1>7, <1>8, <1>9, <1>10 DEF Inv

LEMMA SettleStep ==
    ASSUME ApprovalAssumption, Inv, NEW s \in Calls, Settle(s)
    PROVE  Inv'
<1> USE DEF Goto, table, db, call, loop
<1>0. Typed /\ Fresh(s) /\ Reads(s) /\ Writes(s) /\ Follows(s)
  BY DEF Inv
<1>1. PICK row \in cur[s] :
        /\ writer[TxnOf[row.prop]] \in {Nobody, s}
        /\ writer' = [writer EXCEPT ![TxnOf[row.prop]] = s]
        /\ overrides' = [overrides EXCEPT ![s][TxnOf[row.prop]] = row.code]
        /\ mine' = [mine EXCEPT ![s] = @ \union
              {[prop |-> row.prop, code |-> row.code, prio |-> prio[s], call |-> s]}]
  BY DEF Settle
<1> DEFINE t == TxnOf[row.prop]
           r == [prop |-> row.prop, code |-> row.code, prio |-> prio[s], call |-> s]
<1>2. /\ pc[s] = "settle" /\ pc' = [pc EXCEPT ![s] = "refresh"]
      /\ UNCHANGED <<table, db, call, loop, poisoned>>
  BY DEF Settle
<1>3. row \in rows[s] /\ row.prop \in Proposals /\ t \in Txns
  BY <1>0 DEF Typed, Reads, RowSet, ApprovalAssumption
<1>4. Complete(row) /\ row.code \in Dictionary /\ action[s] = "approve"
  BY <1>0 DEF Reads
<1>5. Typed'
  <2>1. pc' \in [Calls -> Stages]
    BY <1>0, <1>2 DEF Typed, Stages
  <2>2. writer' \in [Txns -> Calls \union {Nobody}]
    BY <1>0, <1>1 DEF Typed
  <2>3. overrides' \in [Calls -> [Txns -> Known]]
    BY <1>0, <1>1, <1>4 DEF Typed, Known
  <2>4. prio[s] \in Nat
    BY <1>0 DEF Typed
  <2>5. prio[s] > 0
    BY <1>0, <1>2 DEF Reads
  <2>6. r \in Rules
    BY <1>3, <1>4, <2>4, <2>5 DEF Rules
  <2>7. mine' \in [Calls -> SUBSET Rules]
    BY <1>0, <1>1, <2>6 DEF Typed
  <2> QED
    BY <1>0, <1>2, <2>1, <2>2, <2>3, <2>7 DEF Typed
<1>6. Fresh(s)' /\ Reads(s)'
  BY <1>0, <1>1, <1>2 DEF Typed, Fresh, Reads, Complete
<1>7. Writes(s)'
  <2>1. /\ mine'[s] = mine[s] \union {r} /\ rows'[s] = rows[s] /\ action'[s] = action[s]
        /\ \A u \in Txns : overrides'[s][u] = IF u = t THEN row.code ELSE overrides[s][u]
        /\ \A u \in Txns : writer'[u] = IF u = t THEN s ELSE writer[u]
        /\ pc'[s] = "refresh"
    BY <1>0, <1>1, <1>2 DEF Typed
  <2>2. \A q \in mine'[s] : /\ q.call = s /\ action'[s] = "approve"
          /\ \E x \in rows'[s] : x.prop = q.prop /\ Complete(x)
    BY <1>0, <1>3, <1>4, <2>1 DEF Writes
  <2>3. \A u \in Txns : overrides'[s][u] # NoCode =>
          \E q \in mine'[s] : TxnOf[q.prop] = u /\ q.code = overrides'[s][u]
    <3>1. r \in mine'[s] /\ TxnOf[r.prop] = t /\ r.code = row.code
      BY <2>1
    <3>2. \A u \in Txns : overrides[s][u] # NoCode =>
            \E q \in mine'[s] : TxnOf[q.prop] = u /\ q.code = overrides[s][u]
      BY <1>0, <2>1 DEF Writes
    <3> HIDE DEF r
    <3> QED
      BY <2>1, <3>1, <3>2
  <2>4. \A u \in Txns : writer'[u] = s <=>
          pc'[s] \in {"loop", "settle", "refresh"} /\ overrides'[s][u] # NoCode
    BY <1>0, <1>2, <1>4, <2>1 DEF Writes, ApprovalAssumption
  <2> QED
    BY <2>2, <2>3, <2>4 DEF Writes, Complete
<1>8. Follows(s)'
  BY <1>0, <1>1, <1>2 DEF Typed, Follows
<1>9. ASSUME NEW z \in Calls, z # s
      PROVE  (Fresh(z) /\ Reads(z) /\ Writes(z) /\ Follows(z))'
  BY <1>0, <1>1, <1>2, <1>9, <1>3 DEF Inv, Typed, Fresh, Reads, Writes, Follows, Complete, ApprovalAssumption
<1>10. Bounded'
  <2>1. PICK B \in Nat : Below(B)
    BY DEF Inv, Bounded
  <2>2. B + prio[s] \in Nat /\ prio[s] \in Nat
    BY <1>0 DEF Typed
  <2>3. \A z \in Calls : \A q \in mine[z] : q.prio \in Nat /\ q.prio <= B + prio[s]
    BY <1>0, <2>1, <2>2 DEF Typed, Rules, Below
  <2>4. \A q \in rules : q.prio \in Nat /\ q.prio <= B + prio[s]
    BY <1>0, <2>1, <2>2 DEF Typed, Rules, Below
  <2>5. \A z \in Calls : \A q \in mine'[z] : q \in mine[z] \/ q = r
    BY <1>0, <1>1 DEF Typed
  <2>6. r.prio <= B + prio[s]
    BY <2>2
  <2>7. Below(B + prio[s])'
    BY <1>2, <2>3, <2>4, <2>5, <2>6 DEF Below
  <2> QED
    BY <1>2, <2>2, <2>7 DEF Bounded
<1>11. (\A q \in rules : pc[q.call] = "committed")'
  BY <1>2 DEF Inv, Typed, Rules
<1>12. SettledTogether' /\ RepeatYields'
  BY <1>2 DEF Inv, SettledTogether, RepeatYields
<1> QED
  BY <1>5, <1>6, <1>7, <1>8, <1>9, <1>10, <1>11, <1>12 DEF Inv

LEMMA RefreshStep ==
    ASSUME ApprovalAssumption, Inv, NEW s \in Calls, Refresh(s)
    PROVE  Inv'
<1> USE DEF Refresh, Goto, table, db, call, writes
<1>0. Typed /\ Fresh(s) /\ Reads(s) /\ Writes(s) /\ Follows(s)
  BY DEF Inv
<1>1. Typed'
  BY <1>0 DEF Typed, Stages
<1>2. ASSUME NEW z \in Calls
      PROVE  (Fresh(z) /\ Reads(z) /\ Writes(z) /\ Follows(z))'
  BY <1>0 DEF Inv, Typed, Fresh, Reads, Writes, Follows, Complete
<1>3. (\A r \in rules : pc[r.call] = "committed")' /\ Bounded'
  BY DEF Inv, Typed, Rules, Bounded, Below
<1>4. SettledTogether' /\ RepeatYields'
  BY DEF Inv, SettledTogether, RepeatYields
<1> QED
  BY <1>1, <1>2, <1>3, <1>4 DEF Inv

LEMMA RollbackStep ==
    ASSUME ApprovalAssumption, Inv, NEW s \in Calls, Rollback(s)
    PROVE  Inv'
<1> USE DEF Rollback, Release, Goto, table, db, call, loop
<1>0. Typed /\ Fresh(s) /\ Reads(s) /\ Writes(s) /\ Follows(s)
  BY DEF Inv
<1>1. Typed'
  BY <1>0 DEF Typed, Stages, Known, Nothing
<1>2. Fresh(s)' /\ Reads(s)' /\ Writes(s)' /\ Follows(s)'
  BY <1>0 DEF Typed, Fresh, Reads, Writes, Follows, Complete, Nothing, ApprovalAssumption
<1>3. ASSUME NEW z \in Calls, z # s
      PROVE  (Fresh(z) /\ Reads(z) /\ Writes(z) /\ Follows(z))'
  BY <1>0, <1>3 DEF Inv, Typed, Fresh, Reads, Writes, Follows, Complete, ApprovalAssumption
<1>4. (\A r \in rules : pc[r.call] = "committed")' /\ Bounded'
  BY <1>0 DEF Inv, Typed, Rules, Bounded, Below
<1>5. SettledTogether' /\ RepeatYields'
  BY DEF Inv, SettledTogether, RepeatYields
<1> QED
  BY <1>1, <1>2, <1>3, <1>4, <1>5 DEF Inv

LEMMA CommitStep ==
    ASSUME ApprovalAssumption, Inv, NEW s \in Calls, Commit(s)
    PROVE  Inv'
<1> USE DEF Commit, Release, Goto, call, loop
<1>0. Typed /\ Fresh(s) /\ Reads(s) /\ Writes(s) /\ Follows(s)
      /\ SettledTogether /\ RepeatYields
  BY DEF Inv
<1>1. Typed'
  BY <1>0 DEF Typed, Stages, States, Known, Rules
<1>2. Fresh(s)' /\ Reads(s)' /\ Writes(s)'
  BY <1>0 DEF Typed, Fresh, Reads, Writes, Complete, ApprovalAssumption
<1>3. s \notin before[s]
  BY <1>0 DEF Follows
<1>4. Follows(s)'
  BY <1>0, <1>3 DEF Typed, Writes, Follows
<1>5. ASSUME NEW z \in Calls, z # s
      PROVE  (Fresh(z) /\ Reads(z) /\ Writes(z))'
  BY <1>0, <1>5 DEF Inv, Typed, Fresh, Reads, Writes, Complete, ApprovalAssumption
<1>6. ASSUME NEW z \in Calls, z # s
      PROVE  Follows(z)'
  <2>1. Follows(z) /\ s \notin before[z]
    BY DEF Inv, Follows
  <2> QED
    BY <1>0, <1>6, <2>1 DEF Typed, Writes, Follows
<1>7. (\A r \in rules : pc[r.call] = "committed")'
  BY <1>0 DEF Inv, Typed, Rules, Writes
<1>8. Bounded'
  BY <1>0 DEF Inv, Typed, Bounded, Below
<1>9. SettledTogether'
  <2>1. \A p \in Proposals : Executes(s, p) => status'[p] = "executed"
    BY <1>0 DEF Typed
  <2>2. \A r \in rules' : status'[r.prop] \in {"executed", "modified"}
    <3>1. \A r \in mine[s] : r.prop \in Proposals /\ Executes(s, r.prop)
      BY <1>0 DEF Typed, Rules, Writes, Executes
    <3>2. \A r \in rules : r.prop \in Proposals /\ status'[r.prop] \in {"executed", "modified"}
      BY <1>0 DEF Typed, Rules, SettledTogether, Rejects
    <3> QED
      BY <2>1, <3>1, <3>2
  <2>3. \A t \in Txns : override'[t] # NoCode =>
          \E r \in rules' : TxnOf[r.prop] = t /\ r.code = override'[t]
    <3>1. \A t \in Txns : override'[t] =
            IF overrides[s][t] # NoCode THEN overrides[s][t] ELSE override[t]
      OBVIOUS
    <3>2. rules' = rules \union mine[s]
      OBVIOUS
    <3> QED
      BY <1>0, <3>1, <3>2 DEF SettledTogether, Writes
  <2> QED
    BY <2>2, <2>3 DEF SettledTogether
<1>10. RepeatYields'
  <2> SUFFICES ASSUME NEW q \in rules', NEW r \in rules', q.call \in before[r.call]
               PROVE  q.prop # r.prop /\ q.prio < r.prio
    BY DEF RepeatYields
  <2>1. CASE q \in rules /\ r \in rules
    BY <1>0, <2>1 DEF RepeatYields
  <2>2. CASE q \in rules /\ r \in mine[s]
    BY <1>0, <2>2 DEF Follows, Writes
  <2>3. CASE q \in mine[s]
    <3>1. q.call = s /\ r.call \in Calls
      BY <1>0, <2>3 DEF Typed, Writes, Rules
    <3>2. pc[s] = "committed"
      BY <3>1 DEF Inv, Follows
    <3> QED
      BY <3>2
  <2> QED
    BY <2>1, <2>2, <2>3
<1> QED
  BY <1>1, <1>2, <1>4, <1>5, <1>6, <1>7, <1>8, <1>9, <1>10 DEF Inv

(* Inv is inductive.                                                            *)
THEOREM InvTheorem == Spec => []Inv
<1> USE ApprovalAssumption
<1>1. Init => Inv
  BY InitInv
<1>2. Inv /\ [Next]_vars => Inv'
  <2> SUFFICES ASSUME Inv, [Next]_vars PROVE Inv'
    OBVIOUS
  <2>1. CASE \E P \in SUBSET Proposals : Submit(P)
    BY <2>1, SubmitStep
  <2>2. CASE \E p \in Proposals, c \in Codes \union {NoCode} : Patch(p, c) \/ Put(p, c)
    BY <2>2, EditStep DEF Code
  <2>3. ASSUME NEW s \in Calls,
               \/ \E a \in {"approve", "reject"}, P \in SUBSET Proposals : Begin(s, a, P)
               \/ \E row \in todo[s] : Examine(s, row)
               \/ Settle(s) \/ Refresh(s) \/ Commit(s) \/ Rollback(s)
        PROVE  Inv'
    BY <2>3, BeginStep, ExamineStep, SettleStep, RefreshStep, CommitStep, RollbackStep
  <2>4. CASE UNCHANGED vars
    <3> USE <2>4 DEF vars, table, db, call, loop, writes
    <3>1. Typed'
      BY DEF Inv, Typed
    <3>2. \A s \in Calls : (Fresh(s) /\ Reads(s) /\ Writes(s) /\ Follows(s))'
      BY DEF Inv, Fresh, Reads, Writes, Follows, Complete
    <3>3. (\A r \in rules : pc[r.call] = "committed")' /\ Bounded'
      BY DEF Inv, Bounded, Below
    <3>4. SettledTogether' /\ RepeatYields'
      BY DEF Inv, SettledTogether, RepeatYields
    <3> QED
      BY <3>1, <3>2, <3>3, <3>4 DEF Inv
  <2> QED
    BY <2>1, <2>2, <2>3, <2>4 DEF Next
<1> QED
  BY <1>1, <1>2, PTL DEF Spec

(* Every variable has its type; an override row is held exactly by the open call
   that wrote it (batch-action/route.ts:160-214).                                *)
THEOREM TypeTheorem == Spec => []TypeOK
<1>1. Inv => TypeOK
  BY DEF Inv, Typed, Reads, Writes, TypeOK, States, Stages, Code, Known, RowSet
<1> QED
  BY <1>1, InvTheorem, PTL

(* Rule, outcome and override are written together, whatever calls interleave
   and wherever they fail (batch-action/route.ts:139-222).                       *)
THEOREM SettledTheorem == Spec => []SettledTogether
<1>1. Inv => SettledTogether
  BY DEF Inv
<1> QED
  BY <1>1, InvTheorem, PTL

(* A call that starts after another has committed settles none of its proposals
   again and its rules come later (batch-action/route.ts:46, 134-138).           *)
THEOREM RepeatTheorem == Spec => []RepeatYields
<1>1. Inv => RepeatYields
  BY DEF Inv
<1> QED
  BY <1>1, InvTheorem, PTL
=============================================================================
