------------------------------- MODULE Rules -------------------------------
(* The rules of a brand, the overrides, and the snapshot of classifications.

   ui/src/app/api/rules/**, ui/src/app/api/match/**, api/pipeline/rerun-match-by-
   file, the trigger of sql/00_rules_history.sql and the refresh functions of
   sql/40_*: requests run concurrently; each takes a connection of the pool per
   statement, and a transaction where it says BEGIN.  One step is a statement, or a
   transaction whose statements need nothing that others change in between.

   A refresh classifies a row and then writes it, waiting for whoever holds the
   row; tamkoko's deletes the rows of the file first, so it holds them before
   it reads.  All its writes are seen at its commit.                            *)
EXTENDS Classify, Sequences

CONSTANTS Sessions,     \* requests in flight
          Brands,       \* brands, one of which Init chooses
          Files, FileOf,\* the file each transaction came in
          Reversed,     \* transactions of negative amount, and their mirror images
          DictDir,      \* direction of a category in the dictionary
          Seeds,        \* rules at the start
          Requests,     \* settle requests: txn, dir, field, value, field2, value2, code
          Batches,      \* bodies of settle-batch: sequences of requests
          Drafts,       \* rules a form or a CSV row may hold
          Imports,      \* CSV files: sequences of drafts
          Matches,      \* manual matches: transactions and a category
          NoRule, NoFile,
          MaxRules, MaxChanges, MaxFaults, MaxCalls   \* bounds

(* One transaction to settle, with the keyword the operator picked.             *)
Item == [txn : Txns, dir : Directions \cup {"any"}, field : Fields, value : Values,
         field2 : Fields \cup {NoField}, value2 : Values \cup {NoValue}, code : Codes \cup {NoCode}]

ASSUME RulesAssumption ==
    /\ Brands \subseteq {"yufeng", "bonjur", "tamkoko"}
    /\ FileOf \in [Txns -> Files] /\ DictDir \in [Codes -> Directions]
    /\ Seeds \subseteq Rule /\ IsFiniteSet(Seeds)
    /\ \A r \in Seeds : r.id \in 1..Cardinality(Seeds)
    /\ \A r, u \in Seeds : r.id = u.id => r = u
    /\ Requests \subseteq Item /\ Batches \subseteq Seq(Item)
    /\ Drafts \subseteq Rule /\ Imports \subseteq Seq(Rule)
    /\ Matches \subseteq [txns : SUBSET Txns, code : Codes]
    /\ NoRule \notin Rule /\ NoFile \notin Files
    /\ {MaxRules, MaxChanges, MaxFaults, MaxCalls} \subseteq Nat

VARIABLES brand, rules, nextId, history, overrides, snapshot, call, faults, calls

vars == <<brand, rules, nextId, history, overrides, snapshot, call, faults, calls>>
data == <<brand, rules, nextId, history, overrides, snapshot>>

Sources == {"rule", "override", "unclassified", "ignore"}
Row == [rule : Nat, code : Codes \cup {NoCode}, source : Sources]
NoRow == [rule |-> 0, code |-> NoCode, source |-> "unclassified"]

(* A request in flight: which one, its next statement, what it has read, the
   files it still refreshes, the rows its open refresh has written.  alone: no
   other request ran since it began.  failed: one of its refreshes failed.      *)
Idle == [pc |-> "idle", op |-> "none", items |-> <<>>, dual |-> FALSE, prio |-> 0,
         added |-> {}, id |-> 0, todo |-> {}, file |-> NoFile, left |-> {},
         row |-> <<>>, mine |-> <<>>, done |-> {}, alone |-> FALSE, failed |-> FALSE]

Prios(R) == {r.prio : r \in R}
NewPrio(R) == IF R = {} THEN 10 ELSE 10 + CHOOSE p \in Prios(R) : \A q \in Prios(R) : q <= p
TypeFor(f) == IF f = "counterparty_name" THEN "exact" ELSE "contains"
ById(i) == {r \in rules : r.id = i}

SettleDirection(q) ==
    IF "in" \in Flow[q.txn] THEN "in"
    ELSE IF "out" \in Flow[q.txn] THEN "out"
    ELSE IF q.dir \in Directions THEN q.dir ELSE DictDir[q.code]
BatchDirection(q) == IF "in" \in Flow[q.txn] THEN "in" ELSE "out"

NewRule(i, dir, q, prio) ==
    [id |-> i, dir |-> dir, field |-> q.field, type |-> TypeFor(q.field), value |-> q.value,
     field2 |-> q.field2, value2 |-> q.value2, code |-> q.code, prio |-> prio, enabled |-> TRUE]

Begin(s, record) ==
    /\ call[s].pc = "idle" /\ calls < MaxCalls
    /\ calls' = calls + 1
    /\ call' = [u \in Sessions |->
                  IF u = s THEN [record EXCEPT !.alone = \A v \in Sessions \ {s} : call[v].pc = "idle"]
                  ELSE IF call[u].pc = "idle" THEN call[u] ELSE [call[u] EXCEPT !.alone = FALSE]]

(* A request that is one transaction: nothing of it stays in flight.            *)
Single ==
    /\ calls < MaxCalls
    /\ calls' = calls + 1
    /\ call' = [u \in Sessions |->
                  IF call[u].pc = "idle" THEN call[u] ELSE [call[u] EXCEPT !.alone = FALSE]]
    /\ UNCHANGED faults

(* The trigger writes what every statement on the table changes.                *)
Logged == brand \in {"yufeng", "bonjur"}
Change(before, after) == [before |-> before, after |-> after]
Log_Inserts(old, new) ==
    history' = IF Logged /\ old = NoRule THEN Append(history, Change(old, new)) ELSE history
Log(old, new) ==
    /\ Len(history) < MaxChanges
    /\ history' = IF Logged THEN Append(history, Change(old, new)) ELSE history

InsertRules(S) ==
    /\ rules' = rules \cup S
    /\ Cardinality(rules') <= MaxRules
    /\ Len(history) + Cardinality(S) <= MaxChanges
    /\ history' = IF ~Logged THEN history
                  ELSE history \o [k \in 1..Cardinality(S) |->
                         Change(NoRule, CHOOSE r \in S : Cardinality({u \in S : u.id < r.id}) = k - 1)]
UpdateRule(old, new) == rules' = (rules \ {old}) \cup {new} /\ Log(old, new)
RemoveRule(old) == rules' = rules \ {old} /\ Log(old, NoRule)

-----------------------------------------------------------------------------
(* POST /api/rules/settle                                                       *)

Contradicts(r, dir, q) ==
    r.enabled /\ r.field = q.field /\ r.value = q.value /\ r.dir = dir /\ r.code # q.code

(* The name is looked up, then the conflict; both may end the request.          *)
SettleCheck(s, q) ==
    /\ q.code # NoCode
    /\ ~\E r \in rules : Contradicts(r, SettleDirection(q), q)
    /\ Begin(s, [Idle EXCEPT !.pc = "priority", !.op = "settle", !.items = <<q>>])
    /\ UNCHANGED <<data, faults>>

SettlePriority(s) ==
    /\ call[s].pc = "priority"
    /\ call' = [call EXCEPT ![s].pc = "settle", ![s].prio = NewPrio(rules)]
    /\ UNCHANGED <<data, faults, calls>>

(* BEGIN, rule, override, log, COMMIT; then the file of the transaction.        *)
SettleWrite(s) ==
    LET q == call[s].items[1]
    IN /\ call[s].pc = "settle"
       /\ InsertRules({NewRule(nextId, SettleDirection(q), q, call[s].prio)})
       /\ nextId' = nextId + 1
       /\ overrides' = [overrides EXCEPT ![q.txn] = q.code]
       /\ call' = [call EXCEPT ![s].pc = "refresh", ![s].todo = {FileOf[q.txn]}]
       /\ UNCHANGED <<brand, snapshot, faults, calls>>

-----------------------------------------------------------------------------
(* POST /api/rules/settle-batch: one transaction over the items.                *)

BatchStart(s, B, dual) ==
    /\ Begin(s, [Idle EXCEPT !.pc = "item", !.op = "batch", !.items = B, !.dual = dual,
                             !.todo = {FileOf[B[i].txn] : i \in DOMAIN B}])
    /\ UNCHANGED <<data, faults>>

Seen(s) == rules \cup call[s].added
SummaryItem(q, dual) ==
    [q EXCEPT !.field = "summary",
              !.field2 = IF dual /\ q.field2 # NoField THEN q.field2 ELSE NoField,
              !.value2 = IF dual /\ q.field2 # NoField THEN q.value2 ELSE NoValue]
BatchConflict_Committed(s, q) ==
    \E r \in rules : r.enabled /\ r.field = "summary" /\ r.value = q.value /\ r.code # q.code
BatchConflict(s, q) ==
    \E r \in Seen(s) : r.enabled /\ r.field = "summary" /\ r.value = q.value /\ r.code # q.code

(* An item whose keyword is taken is put aside; with a second condition nobody
   asks.  An unknown name rolls the whole batch back.                           *)
BatchCheck(s) ==
    /\ call[s].pc = "item" /\ call[s].items # <<>>
    /\ LET q == Head(call[s].items)
       IN call' = [call EXCEPT ![s] =
            IF q.code = NoCode THEN Idle
            ELSE IF ~(call[s].dual /\ q.field2 # NoField) /\ BatchConflict(s, q)
                 THEN [@ EXCEPT !.items = Tail(call[s].items)]
                 ELSE [@ EXCEPT !.pc = "insert"]]
    /\ UNCHANGED <<data, faults, calls>>

BatchInsert(s) ==
    LET q == Head(call[s].items)
        r == NewRule(nextId, BatchDirection(q), SummaryItem(q, call[s].dual), NewPrio(Seen(s)))
    IN /\ call[s].pc = "insert"
       /\ nextId' = nextId + 1
       /\ call' = [call EXCEPT ![s].pc = "item", ![s].added = @ \cup {r}, ![s].items = Tail(@),
                               ![s].row = Append(@, q)]
       /\ UNCHANGED <<brand, rules, history, overrides, snapshot, faults, calls>>

BatchCommit(s) ==
    LET settled == {call[s].row[i] : i \in DOMAIN call[s].row}
    IN /\ call[s].pc = "item" /\ call[s].items = <<>>
       /\ InsertRules(call[s].added)
       /\ overrides' = [t \in Txns |-> IF \E q \in settled : q.txn = t
                                       THEN (CHOOSE q \in settled : q.txn = t).code
                                       ELSE overrides[t]]
       /\ call' = [call EXCEPT ![s].pc = "refresh", ![s].row = <<>>]
       /\ UNCHANGED <<brand, nextId, snapshot, faults, calls>>

-----------------------------------------------------------------------------
(* DELETE /api/rules                                                            *)

DeleteRead_NoFiles(s, i) ==
    /\ Begin(s, [Idle EXCEPT !.pc = "delete", !.op = "delete", !.id = i])
    /\ UNCHANGED <<data, faults>>
DeleteRead(s, i) ==
    /\ Begin(s, [Idle EXCEPT !.pc = "delete", !.op = "delete", !.id = i,
                   !.todo = {FileOf[t] : t \in {u \in Txns : snapshot[u].rule = i}}])
    /\ UNCHANGED <<data, faults>>

(* An administrator removes the row, an operator disables it; without the row
   the transaction is rolled back.                                              *)
DeleteWrite(s) ==
    /\ call[s].pc = "delete"
    /\ IF ById(call[s].id) = {}
       THEN /\ call' = [call EXCEPT ![s] = Idle]
            /\ UNCHANGED <<rules, history>>
       ELSE /\ \E r \in ById(call[s].id) : RemoveRule(r) \/ UpdateRule(r, [r EXCEPT !.enabled = FALSE])
            /\ call' = [call EXCEPT ![s].pc = "refresh"]
    /\ UNCHANGED <<brand, nextId, overrides, snapshot, faults, calls>>

-----------------------------------------------------------------------------
(* POST /api/rules/import: keys and priorities are read before BEGIN.           *)

Key(r) == <<r.dir, r.field, r.type, r.value, r.code>>

ImportRead(s, F) ==
    /\ Begin(s, [Idle EXCEPT !.pc = "import", !.op = "import", !.row = F,
                             !.added = {Key(r) : r \in rules}, !.prio = NewPrio(rules) - 9])
    /\ UNCHANGED <<data, faults>>

ImportWrite_SameId(s) ==
    LET F == call[s].row
        kept == {k \in DOMAIN F : Key(F[k]) \notin call[s].added}
    IN /\ call[s].pc = "import"
       /\ InsertRules({[F[k] EXCEPT !.id = nextId, !.prio = call[s].prio + k] : k \in kept})
       /\ nextId' = nextId + 1
       /\ call' = [call EXCEPT ![s] = Idle]
       /\ UNCHANGED <<brand, overrides, snapshot, faults, calls>>
ImportWrite(s) ==
    LET F == call[s].row
        kept == {k \in DOMAIN F : /\ Key(F[k]) \notin call[s].added
                                  /\ \A j \in 1..(k - 1) : Key(F[j]) # Key(F[k])}
        rank(k) == Cardinality({j \in kept : j < k})
    IN /\ call[s].pc = "import"
       /\ InsertRules({[F[k] EXCEPT !.id = nextId + rank(k), !.prio = call[s].prio + rank(k)] : k \in kept})
       /\ nextId' = nextId + Cardinality(kept)
       /\ call' = [call EXCEPT ![s] = Idle]
       /\ UNCHANGED <<brand, overrides, snapshot, faults, calls>>

-----------------------------------------------------------------------------
(* Requests of one transaction. None of them refreshes the snapshot.            *)

FormAllowed(d) == d.type = TypeFor(d.field) /\ d.field2 \in {NoField, "counterparty_name"}

(* POST /api/rules                                                              *)
Create(d, p) ==
    /\ Single /\ FormAllowed(d)
    /\ InsertRules({[d EXCEPT !.id = nextId, !.prio = p]})
    /\ nextId' = nextId + 1
    /\ UNCHANGED <<brand, overrides, snapshot>>

(* PUT /api/rules: what the body leaves out stays, except the second condition,
   which it clears.                                                             *)
Put(r, d) ==
    /\ Single /\ FormAllowed(d)
    /\ UpdateRule(r, [d EXCEPT !.id = r.id, !.prio = r.prio])
    /\ UNCHANGED <<brand, nextId, overrides, snapshot>>
Toggle(r) ==
    /\ Single
    /\ UpdateRule(r, [r EXCEPT !.enabled = ~r.enabled, !.field2 = NoField, !.value2 = NoValue])
    /\ UNCHANGED <<brand, nextId, overrides, snapshot>>

(* POST /api/rules/reorder: base and step for the listed rules, at least two.   *)
Reorder(first, second) ==
    LET moved(r) == CASE r = first  -> [r EXCEPT !.prio = 1000]
                      [] r = second -> [r EXCEPT !.prio = 1010]
                      [] OTHER      -> r
    IN /\ Single /\ first # second
       /\ rules' = {moved(r) : r \in rules}
       /\ Len(history) + 2 <= MaxChanges
       /\ history' = IF Logged THEN history \o <<Change(first, moved(first)), Change(second, moved(second))>>
                               ELSE history
       /\ UNCHANGED <<brand, nextId, overrides, snapshot>>

(* POST /api/rules/rollback: the row as it was before (or after) a change, or
   no row.                                                                      *)
Rollback(h, to) ==
    LET state == IF to = "before" THEN h.before ELSE h.after
        id    == IF h.before = NoRule THEN h.after.id ELSE h.before.id
        now   == ById(id)
    IN /\ Single
       /\ CASE state = NoRule /\ now = {} -> UNCHANGED <<rules, history>>
            [] state = NoRule /\ now # {} -> \E r \in now : RemoveRule(r)
            [] state # NoRule /\ now = {} -> InsertRules({state})
            [] OTHER                      -> \E r \in now : UpdateRule(r, state)
       /\ UNCHANGED <<brand, nextId, overrides, snapshot>>

(* POST and PUT /api/match as the pages call them: an override, no refresh.     *)
MatchPost(t, c) ==
    /\ Single
    /\ overrides' = [overrides EXCEPT ![t] = c]
    /\ UNCHANGED <<brand, rules, nextId, history, snapshot>>
MatchPut(T, c) ==
    /\ Single
    /\ overrides' = [t \in Txns |-> IF t \in T THEN c ELSE overrides[t]]
    /\ UNCHANGED <<brand, rules, nextId, history, snapshot>>
(* DELETE /api/match/override                                                   *)
Undo(t) ==
    /\ Single /\ overrides[t] # NoCode
    /\ overrides' = [overrides EXCEPT ![t] = NoCode]
    /\ UNCHANGED <<brand, rules, nextId, history, snapshot>>

(* POST /api/pipeline/rerun-match-by-file                                       *)
RerunStart(s, F) ==
    /\ Begin(s, [Idle EXCEPT !.pc = "refresh", !.op = "rerun", !.todo = F])
    /\ UNCHANGED <<data, faults>>

-----------------------------------------------------------------------------
(* refresh_bank_txn_classified_snapshot(file), one call per file.               *)

Classified(R, t) == IF Winners(R, t) = {} THEN {NoRow}
                    ELSE {[rule |-> r.id, code |-> r.code, source |-> "rule"] : r \in Winners(R, t)}

YufengRows(t) == Classified(rules, t)
TamkokoRows(t) == IF overrides[t] # NoCode
                  THEN {[rule |-> 0, code |-> overrides[t], source |-> "override"]}
                  ELSE Classified(rules, t)

Free(s, t) == \A u \in Sessions \ {s} : t \notin DOMAIN call[u].mine

RefreshStart(s) ==
    /\ call[s].pc = "refresh"
    /\ \E f \in call[s].todo :
         /\ brand = "tamkoko" => \A t \in Txns : FileOf[t] = f => Free(s, t)
         /\ call' = [call EXCEPT ![s].pc = "rows", ![s].file = f,
                                 ![s].todo = @ \ {f}, ![s].left = {t \in Txns : FileOf[t] = f},
                                 ![s].mine = IF brand = "tamkoko"
                                             THEN [t \in {u \in Txns : FileOf[u] = f} |-> NoRow]
                                             ELSE <<>>]
    /\ UNCHANGED <<data, faults, calls>>

(* Every refresh scans the table in its one order.                              *)
Scanned(T) == CHOOSE t \in T : TRUE

(* SELECT ... CROSS JOIN LATERAL fn_classify_bank_txn_v2: the next row.         *)
YufengRead(s) ==
    /\ call[s].pc = "rows" /\ brand # "tamkoko" /\ call[s].left # {}
    /\ \E t \in {Scanned(call[s].left)} : \E row \in YufengRows(t) :
         call' = [call EXCEPT ![s].pc = "write", ![s].row = <<t, row>>, ![s].left = @ \ {t}]
    /\ UNCHANGED <<data, faults, calls>>

(* ... ON CONFLICT DO UPDATE: the row's lock is taken here.                     *)
YufengUpsert(s) ==
    LET t == call[s].row[1]
    IN /\ call[s].pc = "write" /\ Free(s, t)
       /\ call' = [call EXCEPT ![s].pc = "rows", ![s].row = <<>>,
                     ![s].mine = [u \in DOMAIN @ \cup {t} |-> IF u = t THEN call[s].row[2] ELSE @[u]]]
       /\ UNCHANGED <<data, faults, calls>>

TamkokoRow(s) ==
    /\ call[s].pc = "rows" /\ brand = "tamkoko" /\ call[s].left # {}
    /\ \E t \in {Scanned(call[s].left)} : \E row \in TamkokoRows(t) :
         call' = [call EXCEPT ![s].mine[t] = row, ![s].left = @ \ {t}]
    /\ UNCHANGED <<data, faults, calls>>

(* The two UPDATEs to 'ignore' of yufeng and bonjur cover all files.            *)
Marked(t, row) == IF brand # "tamkoko" /\ t \in Reversed /\ row.source # "override"
                  THEN [row EXCEPT !.source = "ignore"] ELSE row

RefreshCommit(s) ==
    /\ call[s].pc = "rows" /\ call[s].left = {}
    /\ snapshot' = [t \in Txns |->
                      Marked(t, IF t \in DOMAIN call[s].mine THEN call[s].mine[t] ELSE snapshot[t])]
    /\ call' = [call EXCEPT ![s].pc = "refresh", ![s].mine = <<>>, ![s].file = NoFile,
                            ![s].done = @ \cup {call[s].file}]
    /\ UNCHANGED <<brand, rules, nextId, history, overrides, faults, calls>>

(* A failed refresh is rolled back. A rerun goes on with the next file, the
   others leave the rest out; all of them answer success.                       *)
RefreshFail(s) ==
    /\ call[s].pc \in {"rows", "write"} /\ faults < MaxFaults
    /\ faults' = faults + 1
    /\ call' = [call EXCEPT ![s].pc = "refresh", ![s].mine = <<>>, ![s].row = <<>>, ![s].left = {},
                            ![s].file = NoFile, ![s].failed = TRUE,
                            ![s].todo = IF call[s].op = "rerun" THEN @ ELSE {}]
    /\ UNCHANGED <<data, calls>>

Answer(s) ==
    /\ call[s].pc = "refresh" /\ call[s].todo = {}
    /\ call' = [call EXCEPT ![s] = Idle]
    /\ UNCHANGED <<data, faults, calls>>

-----------------------------------------------------------------------------
Init ==
    /\ brand \in Brands
    /\ rules = Seeds
    /\ nextId = 1 + Cardinality(Seeds)
    /\ history = <<>>
    /\ overrides = [t \in Txns |-> NoCode]
    /\ \E rows \in [Txns -> UNION {Classified(Seeds, t) : t \in Txns}] :
         /\ \A t \in Txns : rows[t] \in Classified(Seeds, t)
         /\ snapshot = [t \in Txns |-> Marked(t, rows[t])]
    /\ call = [s \in Sessions |-> Idle]
    /\ faults = 0 /\ calls = 0

Handler(s) ==
    \/ \E q \in Requests : SettleCheck(s, q)
    \/ SettlePriority(s) \/ SettleWrite(s)
    \/ \E B \in Batches, dual \in BOOLEAN : BatchStart(s, B, dual)
    \/ BatchCheck(s) \/ BatchInsert(s) \/ BatchCommit(s)
    \/ \E i \in 1..(nextId - 1) : DeleteRead(s, i)
    \/ DeleteWrite(s)
    \/ \E F \in Imports : ImportRead(s, F)
    \/ ImportWrite(s)
    \/ \E F \in SUBSET Files \ {{}} : RerunStart(s, F)

Refresh(s) == \/ RefreshStart(s) \/ YufengRead(s) \/ YufengUpsert(s) \/ TamkokoRow(s)
              \/ RefreshCommit(s) \/ RefreshFail(s) \/ Answer(s)

Requested ==
    \/ \E d \in Drafts, p \in {5, 1000} : Create(d, p)
    \/ \E r \in rules, d \in Drafts : Put(r, d)
    \/ \E r \in rules : Toggle(r)
    \/ \E first, second \in rules : Reorder(first, second)
    \/ \E k \in DOMAIN history, to \in {"before", "after"} : Rollback(history[k], to)
    \/ \E m \in Matches : \E t \in m.txns : MatchPost(t, m.code)
    \/ \E m \in Matches : MatchPut(m.txns, m.code)
    \/ \E t \in Txns : Undo(t)

Next == Requested \/ \E s \in Sessions : Handler(s) \/ Refresh(s)

Spec == Init /\ [][Next]_vars

-----------------------------------------------------------------------------
(* Every variable has its type: ids are unique and below the sequence.          *)
TypeOK ==
    /\ brand \in Brands
    /\ rules \subseteq Rule
    /\ \A r, u \in rules : r.id = u.id => r = u
    /\ nextId \in Nat
    /\ \A r \in rules : r.id < nextId
    /\ history \in Seq([before : Rule \cup {NoRule}, after : Rule \cup {NoRule}])
    /\ overrides \in [Txns -> Codes \cup {NoCode}]
    /\ snapshot \in [Txns -> Row]
    /\ \A s \in Sessions : call[s].todo \subseteq Files /\ call[s].left \subseteq Txns

(* The log explains the snapshot: a row that cites a rule was given its category
   by a recorded version of that rule, enabled, whose conditions the transaction
   meets. Rules are edited, removed and restored while refreshes run.           *)
Versions == Seeds \cup ({history[k].after : k \in DOMAIN history} \ {NoRule})
SnapshotExplained ==
    Logged => \A t \in Txns : snapshot[t].rule # 0 =>
                \E v \in Versions : /\ v.id = snapshot[t].rule /\ v.code = snapshot[t].code
                                    /\ Winners({v}, t) = {v}

Finished(s) == call[s].pc = "refresh" /\ call[s].todo = {} /\ call[s].alone /\ ~call[s].failed

Current(t) == \E row \in IF brand = "tamkoko" THEN TamkokoRows(t) ELSE YufengRows(t) :
                 snapshot[t] = Marked(t, row)

(* A request that ran alone and whose refreshes succeeded leaves the files it
   refreshed classified by the rules and overrides it committed; after a
   deletion no row of any file cites the rule.                                  *)
LoneWriterIsCurrent ==
    \A s \in Sessions : Finished(s) =>
        /\ \A t \in Txns : FileOf[t] \in call[s].done => Current(t)
        /\ call[s].op = "delete" => \A t \in Txns : snapshot[t].rule # call[s].id

Agree(r, u) == ~(/\ r.enabled /\ u.enabled /\ r.field = u.field /\ r.value = u.value
                 /\ r.dir = u.dir /\ r.code # u.code)

StepOf(r) == CHOOSE k \in Steps : StepField[k] = r.field /\ StepType[k] = r.type

(* What settling promises a request that runs alone: without a second condition
   it adds no rule that gives a keyword another category than an enabled rule, not
   even one of the same batch; and its rule comes after the rules of its step: it
   takes only transactions that no rule, or only rules of later steps, classified. *)
LoneSettle ==
    [][\A s \in Sessions :
         call[s].alone /\ call'[s].pc = "refresh" =>
           /\ call[s].pc \in {"settle", "item"} /\ ~call[s].dual =>
                \A n \in rules' \ rules, r \in rules' : Agree(n, r)
           /\ call[s].pc = "settle" =>
                \A t \in Txns, n \in rules' \ rules : n \in Winners(rules', t) =>
                   \A r \in Winners(rules, t) : StepOf(n) < StepOf(r)]_vars

(* rules/route.ts: a PUT may change enabled alone. Switching a rule off or on
   keeps its second condition.                                                  *)
SwitchKeepsConditions ==
    [][\A r \in rules, u \in rules' :
         /\ r.enabled # u.enabled
         /\ u = [r EXCEPT !.enabled = u.enabled, !.field2 = u.field2, !.value2 = u.value2]
         => r.field2 = u.field2]_vars

(* settle/route.ts: the override makes the transaction disappear from the list of
   those to classify.                                                           *)
SettledLeavesTheList ==
    \A s \in Sessions : Finished(s) /\ call[s].op = "settle" =>
        snapshot[call[s].items[1].txn].source # "unclassified"
=============================================================================
