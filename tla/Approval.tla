----------------------------- MODULE Approval ------------------------------
(***************************************************************************)
(* The approval of proposals: the agent submits suggestions for the        *)
(* classification of bank transactions, operators edit, reject or approve  *)
(* them, and an approval settles each suggestion as a rule and an override *)
(* (ui/src/app/api/approval/proposals).                                    *)
(*                                                                         *)
(* Every call of batch-action is one READ COMMITTED transaction: its       *)
(* statements see what others committed and what it wrote itself.  The     *)
(* final updates and the COMMIT are one step: a row that another call has  *)
(* updated is waited for and its WHERE is evaluated again afterwards.      *)
(* A suggestion is its lvl1 code, NoCode when the code or keyword lacks.   *)
(***************************************************************************)
EXTENDS Naturals, FiniteSets, FiniteSetsExt

CONSTANTS
    Proposals, Txns,
    TxnOf, Type, Llm,  \* of a proposal: bank_txn_id, type, llm suggestion
    Codes,             \* lvl1 codes a suggestion may name
    Dictionary,        \* dim_category_lvl1
    NoCode, Nobody,
    Calls              \* bound: calls of batch-action

ASSUME ApprovalAssumption ==
    /\ TxnOf \in [Proposals -> Txns] /\ Type \in [Proposals -> {"type1", "type2"}]
    /\ Llm \in [Proposals -> Codes \union {NoCode}]
    /\ Dictionary \subseteq Codes /\ NoCode \notin Codes /\ Nobody \notin Calls
    /\ IsFiniteSet(Proposals) /\ IsFiniteSet(Calls)

VARIABLES
    status, final,     \* ops.approval_proposal; "absent" before the INSERT
    rules,             \* bank_rule_map: rules settled from proposals
    override,          \* bank_txn_override
    writer,            \* the open transaction that wrote the override of a txn
    pc, action,        \* of a call
    rows,              \* the pending rows it read, with their suggestion
    todo, cur, prio,   \* the loop of approve: rows left, current row, new_priority
    mine, overrides,   \* what its transaction wrote
    poisoned,          \* its transaction is aborted, every statement will fail
    before             \* history: calls committed when it read its rows

table == <<status, final>>
db == <<rules, override>>
call == <<action, rows, before>>
loop == <<todo, cur, prio>>
writes == <<mine, overrides, writer>>
vars == <<table, db, pc, call, loop, writes, poisoned>>

Nothing == [t \in Txns |-> NoCode]

Init ==
    /\ status = [p \in Proposals |-> "absent"]
    /\ final = [p \in Proposals |-> NoCode]
    /\ rules = {} /\ override = Nothing
    /\ writer = [t \in Txns |-> Nobody]
    /\ pc = [s \in Calls |-> "idle"] /\ action = [s \in Calls |-> "none"]
    /\ rows = [s \in Calls |-> {}] /\ before = [s \in Calls |-> {}]
    /\ todo = [s \in Calls |-> {}] /\ cur = [s \in Calls |-> {}]
    /\ prio = [s \in Calls |-> 0]
    /\ mine = [s \in Calls |-> {}] /\ overrides = [s \in Calls |-> Nothing]
    /\ poisoned = [s \in Calls |-> FALSE]

Goto(s, l) == pc' = [pc EXCEPT ![s] = l]
Row(p) == [prop |-> p, code |-> IF final[p] # NoCode THEN final[p] ELSE Llm[p]]
Complete(row) == Type[row.prop] = "type1" /\ row.code # NoCode

-----------------------------------------------------------------------------
(* POST of the agent: all records of the batch, or none.                   *)
Submit(P) ==
    /\ P # {} /\ \A p \in P : status[p] = "absent"
    /\ status' = [p \in Proposals |-> IF p \in P THEN "pending" ELSE status[p]]
    /\ UNCHANGED <<final, db, pc, call, loop, writes, poisoned>>

(* PATCH sets the user's choice, PUT keeps the old one when it gives none  *)
(* and marks the row modified, whatever its status.                        *)
Patch(p, c) ==
    /\ status[p] # "absent"
    /\ final' = [final EXCEPT ![p] = c]
    /\ UNCHANGED <<status, db, pc, call, loop, writes, poisoned>>

Put(p, c) ==
    /\ status[p] # "absent"
    /\ status' = [status EXCEPT ![p] = "modified"]
    /\ final' = IF c = NoCode THEN final ELSE [final EXCEPT ![p] = c]
    /\ UNCHANGED <<db, pc, call, loop, writes, poisoned>>

-----------------------------------------------------------------------------
\* mutant: the SELECT forgets AND status = 'pending'
Pending_Any(P) == {p \in P : status[p] # "absent"}

(* batch-action: BEGIN and the SELECT of the pending rows.                 *)
Pending(P) == {p \in P : status[p] = "pending"}

Begin(s, a, P) ==
    /\ pc[s] = "idle" /\ P # {}
    /\ action' = [action EXCEPT ![s] = a]
    /\ rows' = [rows EXCEPT ![s] = {Row(p) : p \in Pending(P)}]
    /\ before' = [before EXCEPT ![s] = {q \in Calls : pc[q] = "committed"}]
    /\ todo' = [todo EXCEPT ![s] = IF a = "approve" THEN rows'[s] ELSE {}]
    /\ Goto(s, IF Pending(P) = {} THEN "committed" ELSE "loop")
    /\ UNCHANGED <<table, db, cur, prio, writes, poisoned>>

(* The next row of approve: what is incomplete or names an unknown lvl1    *)
(* code is counted as waiting and skipped, otherwise the priority of the   *)
(* new rule is read.                                                       *)
Examine(s, row) ==
    /\ pc[s] = "loop" /\ row \in todo[s] /\ ~ poisoned[s]
    /\ todo' = [todo EXCEPT ![s] = @ \ {row}]
    /\ IF Complete(row) /\ row.code \in Dictionary
         THEN /\ Goto(s, "settle")
              /\ cur' = [cur EXCEPT ![s] = {row}]
              /\ prio' = [prio EXCEPT ![s] = 10 + Max({0} \union {r.prio : r \in rules \union mine[s]})]
         ELSE UNCHANGED <<pc, cur, prio>>
    /\ UNCHANGED <<table, db, call, writes, poisoned>>

(* INSERT of the rule and upsert of the override, which waits while        *)
(* another transaction holds that row.                                     *)
Settle(s) ==
    /\ pc[s] = "settle" /\ Goto(s, "refresh")
    /\ \E row \in cur[s] : LET t == TxnOf[row.prop] IN
         /\ writer[t] \in {Nobody, s}
         /\ writer' = [writer EXCEPT ![t] = s]
         /\ overrides' = [overrides EXCEPT ![s][t] = row.code]
         /\ mine' = [mine EXCEPT ![s] = @ \union
                       {[prop |-> row.prop, code |-> row.code, prio |-> prio[s], call |-> s]}]
    /\ UNCHANGED <<table, db, call, loop, poisoned>>

(* The refresh of the snapshot: its error is caught, but PostgreSQL has    *)
(* aborted the transaction.                                                *)
Refresh(s) ==
    /\ pc[s] = "refresh" /\ Goto(s, "loop")
    /\ cur' = [cur EXCEPT ![s] = {}]
    /\ \E failed \in BOOLEAN : poisoned' = [poisoned EXCEPT ![s] = failed]
    /\ UNCHANGED <<table, db, call, todo, prio, writes>>

\* mutant: a failing call forgets its ROLLBACK before the connection is released
Release_Never(s) == UNCHANGED writer

Release(s) == writer' = [t \in Txns |-> IF writer[t] = s THEN Nobody ELSE writer[t]]

\* mutant: reject does not look at the status again
Rejects_Any(s, p) == action[s] = "reject" /\ \E row \in rows[s] : row.prop = p

Rejects(s, p) ==
    action[s] = "reject" /\ status[p] = "pending" /\ \E row \in rows[s] : row.prop = p
Executes(s, p) ==
    action[s] = "approve" /\ \E row \in rows[s] : row.prop = p /\ Complete(row)

Commit(s) ==
    /\ pc[s] = "loop" /\ todo[s] = {} /\ ~ poisoned[s] /\ Goto(s, "committed")
    /\ status' = [p \in Proposals |->
                    IF Executes(s, p) THEN "executed"
                    ELSE IF Rejects(s, p) THEN "rejected" ELSE status[p]]
    /\ rules' = rules \union mine[s]
    /\ override' = [t \in Txns |->
                      IF overrides[s][t] # NoCode THEN overrides[s][t] ELSE override[t]]
    /\ Release(s)
    /\ UNCHANGED <<final, call, loop, mine, overrides, poisoned>>

(* A statement fails (an aborted transaction, a deadlock, a lost           *)
(* connection): ROLLBACK.                                                  *)
Rollback(s) ==
    /\ pc[s] \in {"loop", "settle"} /\ Goto(s, "rolledback")
    /\ mine' = [mine EXCEPT ![s] = {}] /\ overrides' = [overrides EXCEPT ![s] = Nothing]
    /\ Release(s)
    /\ UNCHANGED <<table, db, call, loop, poisoned>>

-----------------------------------------------------------------------------
Next ==
    \/ \E P \in SUBSET Proposals : Submit(P)
    \/ \E p \in Proposals, c \in Codes \union {NoCode} : Patch(p, c) \/ Put(p, c)
    \/ \E s \in Calls :
         \/ \E a \in {"approve", "reject"}, P \in SUBSET Proposals : Begin(s, a, P)
         \/ \E row \in todo[s] : Examine(s, row)
         \/ Settle(s) \/ Refresh(s) \/ Commit(s) \/ Rollback(s)

Spec == Init /\ [][Next]_vars

-----------------------------------------------------------------------------
Rules == [prop : Proposals, code : Dictionary, prio : Nat \ {0}, call : Calls]

(* Every variable has its type; an open transaction holds the override     *)
(* rows it wrote, a closed one holds none (batch-action/route.ts:160-214). *)
TypeOK ==
    /\ status \in [Proposals -> {"absent", "pending", "modified", "rejected", "executed"}]
    /\ final \in [Proposals -> Codes \union {NoCode}]
    /\ rules \subseteq Rules /\ override \in [Txns -> Dictionary \union {NoCode}]
    /\ writer \in [Txns -> Calls \union {Nobody}]
    /\ pc \in [Calls -> {"idle", "loop", "settle", "refresh", "committed", "rolledback"}]
    /\ action \in [Calls -> {"none", "approve", "reject"}]
    /\ \A s \in Calls :
         /\ rows[s] \subseteq [prop : Proposals, code : Codes \union {NoCode}]
         /\ todo[s] \union cur[s] \subseteq rows[s]
         /\ prio[s] \in Nat /\ mine[s] \subseteq Rules
         /\ overrides[s] \in [Txns -> Dictionary \union {NoCode}]
         /\ poisoned[s] \in BOOLEAN /\ before[s] \subseteq Calls
         /\ \A t \in Txns : writer[t] = s <=>
              pc[s] \in {"loop", "settle", "refresh"} /\ overrides[s][t] # NoCode

(* Rule, outcome and override of a proposal are written together, whatever *)
(* calls interleave or fail: a rule in force comes from a proposal whose   *)
(* outcome says so, a rejection that arrives while or after it is settled  *)
(* does not hide it (batch-action/route.ts:69-75), and the override of a   *)
(* transaction is the category of a rule settled from a proposal for it    *)
(* (batch-action/route.ts:141-171).                                        *)
SettledTogether ==
    /\ \A r \in rules : status[r.prop] \in {"executed", "modified"}
    /\ \A t \in Txns : override[t] # NoCode =>
          \E r \in rules : TxnOf[r.prop] = t /\ r.code = override[t]

(* A call that starts after another has committed does not settle its      *)
(* proposals again (batch-action/route.ts:46), and its rules come after    *)
(* the other's in the order of priorities (batch-action/route.ts:134-138). *)
RepeatYields ==
    \A q, r \in rules : q.call \in before[r.call] => q.prop # r.prop /\ q.prio < r.prio

(* A proposal is settled as a rule (batch-action/route.ts:86): as one.     *)
OneRulePerProposal == \A q, r \in rules : q.prop = r.prop => q = r

=============================================================================
