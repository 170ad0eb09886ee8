------------------------- MODULE ConversationProofs -------------------------
(***************************************************************************)
(* The replayed history is well formed for every number of runs and        *)
(* compressions and every window, limit and turn count: no result without  *)
(* its call (NoOrphanResults), no call without its result                  *)
(* (CallsAreAnswered).  The second rests on the table: a committed calls   *)
(* row has a committed, younger results row, because a round commits as a  *)
(* whole, compression deletes oldest first, and a LIMIT keeps the newest.  *)
(***************************************************************************)
EXTENDS Conversation, TLAPS, FiniteSetTheorems, WellFoundedInduction

Taken == 1..lastId

Answers(j, i) == kind[j] = "results" /\ callsOf[j] = i /\ i < j

\* A results row names a calls row, committed or not.
ResultsNameCalls ==
    \A i \in Taken : kind[i] = "results" => callsOf[i] \in Taken /\ kind[callsOf[i]] = "calls"

\* A committed calls row is answered by a committed row.
TableAnswered ==
    \A i \in visible : kind[i] = "calls" => \E j \in visible : Answers(j, i)

\* What an open transaction has inserted.
OpenRound ==
    \A r \in Runs :
        /\ openIds[r] \subseteq Taken
        /\ pc[r] = "inRound" => \E i \in Taken : openIds[r] = {i} /\ kind[i] = "calls"
        /\ pc[r] = "commit" =>
              \E i, j \in Taken : openIds[r] = {i, j} /\ kind[i] = "calls" /\ Answers(j, i)

PromptAnswered ==
    \A r \in Runs :
        /\ prompt[r] \subseteq Taken
        /\ \A i \in prompt[r] : kind[i] = "calls" => \E j \in prompt[r] : Answers(j, i)
        /\ \A i \in prompt[r] : kind[i] = "results" => callsOf[i] \in prompt[r] /\ callsOf[i] < i

\* A run that may take a turn has one left; a round being written is counted.
TurnBudget ==
    \A r \in Runs :
        /\ pc[r] \in {"idle", "loaded", "calling"} => turns[r] < MaxTurns
        /\ pc[r] \in {"inRound", "commit"} => turns[r] > 0

Inv == TypeOK /\ TurnBudget /\ ResultsNameCalls /\ TableAnswered /\ OpenRound /\ PromptAnswered

USE ConversationAssumption DEF Ids

-----------------------------------------------------------------------------
(* The newest rows of a set of ids are closed upwards: with a row, every   *)
(* younger row of the set is among them.                                   *)
LEMMA NewestUpward ==
    ASSUME NEW S, S \subseteq Ids, NEW n \in Nat, NEW i \in Newest(S, n), NEW j \in S, i < j
    PROVE  j \in Newest(S, n)
  <1> DEFINE above(k) == {m \in S : m > k}
  <1>1. IsFiniteSet(Ids)
    BY FS_Interval
  <1>2. IsFiniteSet(above(i))
    BY <1>1, FS_Subset
  <1>0. i \in Int /\ j \in Int /\ \A m \in S : m \in Int
    BY DEF Newest
  <1>a. \A m \in S : m > j => m > i
    BY <1>0
  <1>3. above(j) \subseteq above(i)
    BY <1>a, Zenon
  <1>4. /\ Cardinality(above(j)) <= Cardinality(above(i))
        /\ IsFiniteSet(above(j))
    BY <1>2, <1>3, FS_Subset
  <1>5. Cardinality(above(i)) \in Nat /\ Cardinality(above(j)) \in Nat
    BY <1>2, <1>4, FS_CardinalityType
  <1>6. Cardinality(above(i)) < n
    BY DEF Newest
  <1>7. Cardinality(above(j)) < n
    BY <1>4, <1>5, <1>6
  <1>8. QED
    BY <1>7 DEF Newest

(* The oldest rows of a set of ids are closed downwards.                   *)
LEMMA OldestDownward ==
    ASSUME NEW S, S \subseteq Ids, NEW n \in Nat, NEW j \in Oldest(S, n), NEW i \in S, i < j
    PROVE  i \in Oldest(S, n)
  <1> DEFINE below(k) == {m \in S : m < k}
  <1>1. IsFiniteSet(Ids)
    BY FS_Interval
  <1>2. IsFiniteSet(below(j))
    BY <1>1, FS_Subset
  <1>0. i \in Int /\ j \in Int /\ \A m \in S : m \in Int
    BY DEF Oldest
  <1>a. \A m \in S : m < i => m < j
    BY <1>0
  <1>3. below(i) \subseteq below(j)
    BY <1>a, Zenon
  <1>4. /\ Cardinality(below(i)) <= Cardinality(below(j))
        /\ IsFiniteSet(below(i))
    BY <1>2, <1>3, FS_Subset
  <1>5. Cardinality(below(j)) \in Nat /\ Cardinality(below(i)) \in Nat
    BY <1>2, <1>4, FS_CardinalityType
  <1>6. Cardinality(below(j)) < n
    BY DEF Oldest
  <1>7. Cardinality(below(i)) < n
    BY <1>4, <1>5, <1>6
  <1>8. QED
    BY <1>7 DEF Oldest

(* Taking an id leaves the rows already there as they were.                *)
LEMMA TakeIdKeepsRows ==
    ASSUME TypeOK, NEW k \in Kinds, NEW call \in Ids \union {0}, TakeId(k, call)
    PROVE  /\ lastId + 1 \in Ids /\ lastId + 1 \notin Taken
           /\ lastId' \in 0..MaxIds /\ Taken' = Taken \union {lastId + 1}
           /\ kind' \in [Ids -> Kinds] /\ callsOf' \in [Ids -> Ids \union {0}]
           /\ \A i \in Taken : kind'[i] = kind[i] /\ callsOf'[i] = callsOf[i]
           /\ kind'[lastId + 1] = k /\ callsOf'[lastId + 1] = call
  <1>1. lastId + 1 \in Ids /\ lastId + 1 \notin Taken /\ lastId' \in 0..MaxIds
    BY DEF TypeOK, TakeId, Taken
  <1>2. Taken' = Taken \union {lastId + 1}
    BY DEF TypeOK, TakeId, Taken
  <1>3. kind' \in [Ids -> Kinds] /\ callsOf' \in [Ids -> Ids \union {0}]
    BY <1>1 DEF TypeOK, TakeId
  <1>4. \A i \in Taken : kind'[i] = kind[i] /\ callsOf'[i] = callsOf[i]
    BY <1>1 DEF TypeOK, TakeId, Taken
  <1>5. kind'[lastId + 1] = k /\ callsOf'[lastId + 1] = call
    BY <1>1 DEF TypeOK, TakeId
  <1>6. QED
    BY <1>1, <1>2, <1>3, <1>4, <1>5

\* A step that leaves the rows already there as they are.
RowsKept ==
    /\ Taken \subseteq Taken'
    /\ \A i \in Taken : kind'[i] = kind[i] /\ callsOf'[i] = callsOf[i]

(* A step that keeps the rows and changes a prompt only by dropping it     *)
(* keeps every prompt well formed.                                         *)
LEMMA PromptFrame ==
    ASSUME Inv, RowsKept, \A r \in Runs : prompt'[r] \in {prompt[r], {}}
    PROVE  PromptAnswered'
  <1> SUFFICES ASSUME NEW r \in Runs, prompt'[r] = prompt[r]
               PROVE  /\ prompt'[r] \subseteq Taken'
                      /\ \A i \in prompt'[r] : kind'[i] = "calls" => \E j \in prompt'[r] : Answers(j, i)'
                      /\ \A i \in prompt'[r] : kind'[i] = "results" => callsOf'[i] \in prompt'[r] /\ callsOf'[i] < i
    BY DEF PromptAnswered, Answers
  <1>1. prompt[r] \subseteq Taken
    BY DEF Inv, PromptAnswered
  <1>2. \A i \in prompt[r] : kind'[i] = kind[i] /\ callsOf'[i] = callsOf[i]
    BY <1>1 DEF RowsKept
  <1>3. \A i, j \in prompt[r] : Answers(j, i) => Answers(j, i)'
    BY <1>2 DEF Answers
  <1>4. QED
    BY <1>1, <1>2, <1>3 DEF Inv, PromptAnswered, RowsKept

(* A step that keeps the rows and neither opens nor extends a transaction  *)
(* keeps what is known of the open ones.                                   *)
LEMMA OpenFrame ==
    ASSUME Inv, RowsKept,
           \A r \in Runs : \/ openIds'[r] = openIds[r] /\ pc'[r] = pc[r]
                           \/ openIds'[r] \in {openIds[r], {}} /\ pc'[r] \notin {"inRound", "commit"}
    PROVE  OpenRound'
  <1> SUFFICES ASSUME NEW r \in Runs
               PROVE  /\ openIds'[r] \subseteq Taken'
                      /\ pc'[r] = "inRound" =>
                            \E i \in Taken' : openIds'[r] = {i} /\ kind'[i] = "calls"
                      /\ pc'[r] = "commit" =>
                            \E i, j \in Taken' :
                               openIds'[r] = {i, j} /\ kind'[i] = "calls" /\ Answers(j, i)'
    BY DEF OpenRound, Answers
  <1>1. openIds'[r] \subseteq Taken'
    BY DEF Inv, OpenRound, RowsKept
  <1>2. ASSUME pc'[r] = "inRound"
        PROVE  \E i \in Taken' : openIds'[r] = {i} /\ kind'[i] = "calls"
    <2>1. PICK i \in Taken : openIds[r] = {i} /\ kind[i] = "calls"
      BY <1>2 DEF Inv, OpenRound
    <2>2. QED
      BY <1>2, <2>1 DEF RowsKept
  <1>3. ASSUME pc'[r] = "commit"
        PROVE  \E i, j \in Taken' : openIds'[r] = {i, j} /\ kind'[i] = "calls" /\ Answers(j, i)'
    <2>1. PICK i \in Taken, j \in Taken : openIds[r] = {i, j} /\ kind[i] = "calls" /\ Answers(j, i)
      BY <1>3 DEF Inv, OpenRound
    <2>2. QED
      BY <1>3, <2>1 DEF RowsKept, Answers
  <1>4. QED
    BY <1>1, <1>2, <1>3

(* A step that leaves the table alone keeps what is known of it.           *)
LEMMA TableFrame ==
    ASSUME Inv, UNCHANGED table
    PROVE  RowsKept /\ ResultsNameCalls' /\ TableAnswered'
  BY DEF Inv, table, RowsKept, ResultsNameCalls, TableAnswered, Answers, Taken

(* An autocommitted row without calls keeps the table answered.            *)
LEMMA InsertRowFrame ==
    ASSUME Inv, NEW k \in {"user", "text"}, InsertRow(k)
    PROVE  /\ lastId' \in 0..MaxIds /\ visible' \subseteq Taken'
           /\ kind' \in [Ids -> Kinds] /\ callsOf' \in [Ids -> Ids \union {0}]
           /\ RowsKept /\ ResultsNameCalls' /\ TableAnswered'
  <1>0. TypeOK /\ k \in Kinds /\ TakeId(k, 0) /\ visible' = visible \union {lastId + 1}
    BY DEF Inv, Kinds, InsertRow
  <1>1. /\ lastId + 1 \in Ids /\ lastId + 1 \notin Taken
        /\ lastId' \in 0..MaxIds /\ Taken' = Taken \union {lastId + 1}
        /\ kind' \in [Ids -> Kinds] /\ callsOf' \in [Ids -> Ids \union {0}]
        /\ \A i \in Taken : kind'[i] = kind[i] /\ callsOf'[i] = callsOf[i]
        /\ kind'[lastId + 1] = k
    BY <1>0, TakeIdKeepsRows
  <1>2. visible \subseteq Taken
    BY <1>0 DEF TypeOK, Taken
  <1>3. RowsKept /\ visible' \subseteq Taken'
    BY <1>0, <1>1, <1>2 DEF RowsKept
  <1>4. ResultsNameCalls'
    BY <1>1 DEF Inv, ResultsNameCalls
  <1>5. TableAnswered'
    <2> SUFFICES ASSUME NEW i \in visible', kind'[i] = "calls"
                 PROVE  \E j \in visible' : Answers(j, i)'
      BY DEF TableAnswered, Answers
    <2>1. i \in visible /\ kind[i] = "calls"
      BY <1>0, <1>1, <1>2
    <2>2. PICK j \in visible : Answers(j, i)
      BY <2>1 DEF Inv, TableAnswered
    <2>3. QED
      BY <2>2, <1>0, <1>1, <1>2 DEF Answers
  <1>6. QED
    BY <1>1, <1>3, <1>4, <1>5

-----------------------------------------------------------------------------
(* The initial state and every step.                                       *)
LEMMA InvInit == Init => Inv
  <1> SUFFICES ASSUME Init PROVE Inv
    OBVIOUS
  <1> USE DEF Init
  <1>1. TypeOK /\ TurnBudget
    BY DEF TypeOK, TurnBudget, Kinds
  <1>2. ResultsNameCalls /\ TableAnswered
    BY DEF ResultsNameCalls, TableAnswered, Taken
  <1>3. OpenRound /\ PromptAnswered
    BY DEF OpenRound, PromptAnswered, Taken
  <1>4. QED
    BY <1>1, <1>2, <1>3 DEF Inv

(* The LIMIT and the pruning leave a well-formed history: a calls row of   *)
(* the newest rows has its younger answer among them, a kept results row   *)
(* names a kept calls row.                                                 *)
LEMMA LoadHistoryInv == ASSUME Inv, NEW r \in Runs, LoadHistory(r) PROVE Inv'
  <1> DEFINE H == Newest(visible, HistLimit)
  <1>0. /\ pc' = [pc EXCEPT ![r] = "loaded"] /\ prompt' = [prompt EXCEPT ![r] = Prune(H)]
        /\ UNCHANGED <<lastId, kind, callsOf, visible, turns, answered, openIds, cpc, picked, crashes>>
    BY DEF LoadHistory, Goto, table, compVars
  <1>1. RowsKept /\ ResultsNameCalls' /\ TableAnswered'
    BY <1>0, TableFrame DEF table
  <1>2. H \subseteq visible /\ visible \subseteq Taken /\ Taken \subseteq Ids
    BY DEF Inv, TypeOK, Newest, Taken
  <1>3. Prune(H) \subseteq H
    BY DEF Prune
  <1>4. TypeOK' /\ TurnBudget'
    <2>1. Prune(H) \subseteq Ids
      BY <1>2, <1>3
    <2>2. TypeOK'
      BY <1>0, <2>1 DEF Inv, TypeOK
    <2>3. TurnBudget'
      BY <1>0 DEF Inv, TypeOK, TurnBudget, LoadHistory
    <2>4. QED
      BY <2>2, <2>3
  <1>5. OpenRound'
    <2>1. \A q \in Runs : \/ openIds'[q] = openIds[q] /\ pc'[q] = pc[q]
                          \/ openIds'[q] \in {openIds[q], {}} /\ pc'[q] \notin {"inRound", "commit"}
      BY <1>0 DEF Inv, TypeOK
    <2>2. QED
      BY <1>1, <2>1, OpenFrame
  <1>6. PromptAnswered'
    <2>1. ASSUME NEW i \in Prune(H), kind[i] = "calls" PROVE \E j \in Prune(H) : Answers(j, i)
      <3>1. i \in H
        BY <1>3
      <3>2. PICK j \in visible : Answers(j, i)
        BY <2>1, <3>1, <1>2 DEF Inv, TableAnswered
      <3>3. j \in H
        BY <3>1, <3>2, <1>2, NewestUpward DEF Answers
      <3>4. j \in Prune(H)
        BY <3>1, <3>2, <3>3 DEF Prune, Answers
      <3>5. QED
        BY <3>2, <3>4
    <2>2. ASSUME NEW i \in Prune(H), kind[i] = "results" PROVE callsOf[i] \in Prune(H) /\ callsOf[i] < i
      <3>1. callsOf[i] \in H /\ callsOf[i] < i
        BY <2>2 DEF Prune
      <3>2. kind[callsOf[i]] = "calls"
        BY <2>2, <1>2, <1>3 DEF Inv, ResultsNameCalls
      <3>3. QED
        BY <3>1, <3>2 DEF Prune
    <2>3. \A q \in Runs : prompt'[q] = IF q = r THEN Prune(H) ELSE prompt[q]
      BY <1>0 DEF Inv, TypeOK
    <2>4. UNCHANGED <<kind, callsOf, lastId>>
      BY <1>0
    <2>5. ASSUME NEW q \in Runs
          PROVE  /\ prompt'[q] \subseteq Taken
                 /\ \A i \in prompt'[q] : kind[i] = "calls" => \E j \in prompt'[q] : Answers(j, i)
                 /\ \A i \in prompt'[q] : kind[i] = "results" => callsOf[i] \in prompt'[q] /\ callsOf[i] < i
      <3>1. CASE q = r
        <4>1. prompt'[q] = Prune(H) /\ Prune(H) \subseteq Taken
          BY <2>3, <3>1, <1>2, <1>3
        <4>2. QED
          BY <4>1, <2>1, <2>2
      <3>2. CASE q # r
        BY <2>3, <3>2 DEF Inv, PromptAnswered
      <3>3. QED
        BY <3>1, <3>2
    <2>6. Taken' = Taken /\ \A i, j : Answers(j, i)' = Answers(j, i)
      BY <2>4 DEF Taken, Answers
    <2>7. QED
      BY <2>4, <2>5, <2>6 DEF PromptAnswered
  <1>7. QED
    BY <1>1, <1>4, <1>5, <1>6 DEF Inv

(* Steps of a run that insert at most one row of their own and open no     *)
(* transaction.                                                            *)
LEMMA StoreUserInv == ASSUME Inv, NEW r \in Runs, StoreUser(r) PROVE Inv'
  <1>0. /\ pc' = [pc EXCEPT ![r] = "calling"]
        /\ InsertRow("user") \/ UNCHANGED table
        /\ StartCompression
        /\ UNCHANGED <<prompt, turns, answered, openIds, picked, crashes>>
    BY DEF StoreUser, Goto
  <1>1. /\ lastId' \in 0..MaxIds /\ visible' \subseteq Taken'
        /\ kind' \in [Ids -> Kinds] /\ callsOf' \in [Ids -> Ids \union {0}]
        /\ RowsKept /\ ResultsNameCalls' /\ TableAnswered'
    <2>1. CASE InsertRow("user")
      BY <2>1, InsertRowFrame
    <2>2. CASE UNCHANGED table
      BY <2>2, TableFrame DEF Inv, TypeOK, table, Taken
    <2>3. QED
      BY <1>0, <2>1, <2>2
  <1>2. cpc' \in [Compressors -> {"idle", "count", "select", "delete", "summary"}]
    BY <1>0 DEF Inv, TypeOK, StartCompression
  <1>3. TypeOK' /\ TurnBudget'
    BY <1>0, <1>1, <1>2 DEF Inv, TypeOK, TurnBudget, Taken, StoreUser
  <1>4. OpenRound'
    <2>1. \A q \in Runs : \/ openIds'[q] = openIds[q] /\ pc'[q] = pc[q]
                          \/ openIds'[q] \in {openIds[q], {}} /\ pc'[q] \notin {"inRound", "commit"}
      BY <1>0 DEF Inv, TypeOK
    <2>2. QED
      BY <1>1, <2>1, OpenFrame
  <1>5. PromptAnswered'
    BY <1>0, <1>1, PromptFrame
  <1>6. QED
    BY <1>1, <1>3, <1>4, <1>5 DEF Inv

LEMMA FinishRunInv == ASSUME Inv, NEW r \in Runs, FinishRun(r) PROVE Inv'
  <1>0. /\ pc' = [pc EXCEPT ![r] = "idle"] /\ prompt' = [prompt EXCEPT ![r] = {}]
        /\ turns' = [turns EXCEPT ![r] = 0] /\ answered' = [answered EXCEPT ![r] = FALSE]
        /\ openIds' = [openIds EXCEPT ![r] = {}]
        /\ InsertRow("text") \/ UNCHANGED table
        /\ StartCompression
        /\ UNCHANGED <<picked, crashes>>
    BY DEF FinishRun, Goto, Reset
  <1>1. /\ lastId' \in 0..MaxIds /\ visible' \subseteq Taken'
        /\ kind' \in [Ids -> Kinds] /\ callsOf' \in [Ids -> Ids \union {0}]
        /\ RowsKept /\ ResultsNameCalls' /\ TableAnswered'
    <2>1. CASE InsertRow("text")
      BY <2>1, InsertRowFrame
    <2>2. CASE UNCHANGED table
      BY <2>2, TableFrame DEF Inv, TypeOK, table, Taken
    <2>3. QED
      BY <1>0, <2>1, <2>2
  <1>2. cpc' \in [Compressors -> {"idle", "count", "select", "delete", "summary"}]
    BY <1>0 DEF Inv, TypeOK, StartCompression
  <1>3. TypeOK' /\ TurnBudget'
    BY <1>0, <1>1, <1>2 DEF Inv, TypeOK, TurnBudget, Taken
  <1>4. OpenRound'
    <2>1. \A q \in Runs : \/ openIds'[q] = openIds[q] /\ pc'[q] = pc[q]
                          \/ openIds'[q] \in {openIds[q], {}} /\ pc'[q] \notin {"inRound", "commit"}
      BY <1>0 DEF Inv, TypeOK
    <2>2. QED
      BY <1>1, <2>1, OpenFrame
  <1>5. PromptAnswered'
    BY <1>0, <1>1, PromptFrame DEF Inv, TypeOK
  <1>6. QED
    BY <1>1, <1>3, <1>4, <1>5 DEF Inv

(* Steps that leave the table alone and at most drop a prompt or an open   *)
(* transaction.                                                            *)
LEMMA QuietInv ==
    ASSUME Inv, TypeOK', TurnBudget', UNCHANGED table,
           \A r \in Runs : prompt'[r] \in {prompt[r], {}},
           \A r \in Runs : \/ openIds'[r] = openIds[r] /\ pc'[r] = pc[r]
                           \/ openIds'[r] \in {openIds[r], {}} /\ pc'[r] \notin {"inRound", "commit"}
    PROVE  Inv'
  <1>1. RowsKept /\ ResultsNameCalls' /\ TableAnswered'
    BY TableFrame
  <1>2. OpenRound'
    BY <1>1, OpenFrame
  <1>3. PromptAnswered'
    BY <1>1, PromptFrame
  <1>4. QED
    BY <1>1, <1>2, <1>3 DEF Inv

LEMMA QuietRunStepInv ==
    ASSUME Inv, NEW r \in Runs, ToolTurn(r) \/ TextTurn(r) \/ AbandonTurn(r) \/ RollbackRound(r)
    PROVE  Inv'
  <1>1. UNCHANGED table
    BY DEF ToolTurn, TextTurn, AbandonTurn, RollbackRound
  <1>2. TypeOK' /\ TurnBudget'
    <2>1. CASE ToolTurn(r)
      <3>1. turns[r] + 1 \in 0..MaxTurns
        BY <2>1 DEF Inv, TypeOK, TurnBudget, ToolTurn
      <3>2. \A q \in Runs : turns'[q] = IF q = r THEN turns[r] + 1 ELSE turns[q]
        BY <2>1 DEF Inv, TypeOK, ToolTurn
      <3>3. \A q \in Runs : pc'[q] = IF q = r /\ turns[r] + 1 = MaxTurns THEN "persist" ELSE pc[q]
        BY <2>1 DEF Inv, TypeOK, ToolTurn, LeaveLoop, Goto
      <3>4. turns' \in [Runs -> 0..MaxTurns]
        BY <2>1, <3>1 DEF Inv, TypeOK, ToolTurn
      <3>5. TurnBudget'
        <4>1. pc[r] = "calling" /\ turns[r] \in Nat
          BY <2>1 DEF Inv, TypeOK, ToolTurn
        <4>2. QED
          BY <3>1, <3>2, <3>3, <4>1 DEF Inv, TurnBudget
      <3>6. QED
        BY <2>1, <3>4, <3>5, <1>1 DEF Inv, TypeOK, ToolTurn, LeaveLoop, Goto, compVars, table
    <2>2. CASE TextTurn(r)
      BY <2>2, <1>1 DEF Inv, TypeOK, TurnBudget, TextTurn, LeaveLoop, Goto, compVars, table
    <2>3. CASE AbandonTurn(r)
      BY <2>3, <1>1 DEF Inv, TypeOK, TurnBudget, AbandonTurn, Reset, Goto, compVars, table
    <2>4. CASE RollbackRound(r)
      <3>1. turns[r] > 0
        BY <2>4 DEF Inv, TurnBudget, RollbackRound
      <3>2. QED
        BY <2>4, <1>1 DEF Inv, TypeOK, TurnBudget, RollbackRound, EndRound, Goto, compVars, table
    <2>5. QED
      BY <2>1, <2>2, <2>3, <2>4
  <1>3. \A q \in Runs : prompt'[q] \in {prompt[q], {}}
    BY DEF Inv, TypeOK, ToolTurn, TextTurn, AbandonTurn, RollbackRound, LeaveLoop, Reset, EndRound, Goto
  <1>4. \A q \in Runs : \/ openIds'[q] = openIds[q] /\ pc'[q] = pc[q]
                        \/ openIds'[q] \in {openIds[q], {}} /\ pc'[q] \notin {"inRound", "commit"}
    BY DEF Inv, TypeOK, ToolTurn, TextTurn, AbandonTurn, RollbackRound, LeaveLoop, Reset, EndRound, Goto
  <1>5. QED
    BY <1>1, <1>2, <1>3, <1>4, QuietInv

LEMMA QuietCompressStepInv ==
    ASSUME Inv, NEW c \in Compressors,
           CountMessages(c) \/ SelectOldest(c) \/ AppendSummary(c) \/ CompressionFails(c)
    PROVE  Inv'
  <1>1. UNCHANGED <<table, runVars, crashes>>
    BY DEF CountMessages, SelectOldest, AppendSummary, CompressionFails
  <1>2. Oldest(visible, Window) \subseteq Ids
    <2>1. visible \subseteq Ids
      BY DEF Inv, TypeOK
    <2>2. QED
      BY <2>1 DEF Oldest
  <1>3. /\ cpc' \in [Compressors -> {"idle", "count", "select", "delete", "summary"}]
        /\ picked' \in [Compressors -> SUBSET Ids]
    BY <1>2, ZenonT(30) DEF Inv, TypeOK, CountMessages, SelectOldest, AppendSummary, CompressionFails
  <1>4. TypeOK' /\ TurnBudget'
    BY <1>1, <1>3 DEF Inv, TypeOK, TurnBudget, table, runVars
  <1>5. QED
    BY <1>1, <1>4, QuietInv DEF runVars

LEMMA CrashInv == ASSUME Inv, Crash PROVE Inv'
  <1>1. TypeOK' /\ TurnBudget'
    BY DEF Inv, TypeOK, TurnBudget, Crash, table
  <1>2. QED
    BY <1>1, QuietInv DEF Crash, Inv, TypeOK

(* An open transaction adds rows nobody else sees.                         *)
LEMMA InsertCallsInv == ASSUME Inv, NEW r \in Runs, InsertCalls(r) PROVE Inv'
  <1>0. /\ TypeOK /\ "calls" \in Kinds /\ 0 \in Ids \union {0} /\ TakeId("calls", 0)
        /\ pc' = [pc EXCEPT ![r] = "inRound"] /\ openIds' = [openIds EXCEPT ![r] = {lastId + 1}]
        /\ UNCHANGED <<visible, prompt, turns, answered, cpc, picked, crashes>>
    BY DEF Inv, Kinds, InsertCalls, Goto, compVars
  <1>1. /\ lastId + 1 \in Ids /\ lastId + 1 \notin Taken
        /\ lastId' \in 0..MaxIds /\ Taken' = Taken \union {lastId + 1}
        /\ kind' \in [Ids -> Kinds] /\ callsOf' \in [Ids -> Ids \union {0}]
        /\ \A i \in Taken : kind'[i] = kind[i] /\ callsOf'[i] = callsOf[i]
        /\ kind'[lastId + 1] = "calls"
    BY <1>0, TakeIdKeepsRows
  <1>2. visible \subseteq Taken /\ RowsKept
    BY <1>0, <1>1 DEF TypeOK, Taken, RowsKept
  <1>3. TypeOK' /\ TurnBudget'
    <2>1. TypeOK'
      BY <1>0, <1>1, <1>2 DEF TypeOK, Taken
    <2>2. TurnBudget'
      BY <1>0 DEF Inv, TypeOK, TurnBudget, InsertCalls
    <2>3. QED
      BY <2>1, <2>2
  <1>4. ResultsNameCalls'
    BY <1>1 DEF Inv, ResultsNameCalls
  <1>5. TableAnswered'
    BY <1>0, <1>1, <1>2 DEF Inv, TableAnswered, Answers
  <1>6. PromptAnswered'
    BY <1>0, <1>2, PromptFrame
  <1>7. OpenRound'
    <2>1. ASSUME NEW q \in Runs
          PROVE  /\ openIds'[q] \subseteq Taken'
                 /\ pc'[q] = "inRound" =>
                       \E i \in Taken' : openIds'[q] = {i} /\ kind'[i] = "calls"
                 /\ pc'[q] = "commit" =>
                       \E i, j \in Taken' :
                          openIds'[q] = {i, j} /\ kind'[i] = "calls" /\ Answers(j, i)'
      <3>1. CASE q = r
        BY <3>1, <1>0, <1>1 DEF TypeOK
      <3>2. CASE q # r
        <4>1. openIds'[q] = openIds[q] /\ pc'[q] = pc[q]
          BY <3>2, <1>0 DEF TypeOK
        <4>2. QED
          BY <4>1, <1>1 DEF Inv, OpenRound, Answers
      <3>3. QED
        BY <3>1, <3>2
    <2>2. QED
      BY <2>1 DEF OpenRound, Answers
  <1>8. QED
    BY <1>3, <1>4, <1>5, <1>6, <1>7 DEF Inv

LEMMA InsertResultsInv == ASSUME Inv, NEW r \in Runs, InsertResults(r) PROVE Inv'
  <1>a. PICK c \in Taken : openIds[r] = {c} /\ kind[c] = "calls"
    BY DEF InsertResults, Inv, OpenRound
  <1>0. /\ TypeOK /\ "results" \in Kinds /\ c \in Ids \union {0} /\ TakeId("results", c)
        /\ pc' = [pc EXCEPT ![r] = "commit"] /\ openIds' = [openIds EXCEPT ![r] = {c, lastId + 1}]
        /\ UNCHANGED <<visible, prompt, turns, answered, cpc, picked, crashes>>
    BY <1>a DEF Inv, TypeOK, Taken, Kinds, InsertResults, Goto, compVars
  <1>1. /\ lastId + 1 \in Ids /\ lastId + 1 \notin Taken
        /\ lastId' \in 0..MaxIds /\ Taken' = Taken \union {lastId + 1}
        /\ kind' \in [Ids -> Kinds] /\ callsOf' \in [Ids -> Ids \union {0}]
        /\ \A i \in Taken : kind'[i] = kind[i] /\ callsOf'[i] = callsOf[i]
        /\ kind'[lastId + 1] = "results" /\ callsOf'[lastId + 1] = c
    BY <1>0, TakeIdKeepsRows
  <1>2. visible \subseteq Taken /\ RowsKept
    BY <1>0, <1>1 DEF TypeOK, Taken, RowsKept
  <1>3. TypeOK' /\ TurnBudget'
    <2>1. c \in Ids
      BY <1>a, <1>0 DEF TypeOK, Taken
    <2>2. TypeOK'
      BY <1>0, <1>1, <1>2, <2>1, ZenonT(30) DEF TypeOK, Taken
    <2>3. TurnBudget'
      BY <1>0 DEF Inv, TypeOK, TurnBudget, InsertResults
    <2>4. QED
      BY <2>2, <2>3
  <1>4. ResultsNameCalls'
    BY <1>1, <1>a DEF Inv, ResultsNameCalls
  <1>5. TableAnswered'
    BY <1>0, <1>1, <1>2 DEF Inv, TableAnswered, Answers
  <1>6. PromptAnswered'
    BY <1>0, <1>2, PromptFrame
  <1>7. OpenRound'
    <2>1. ASSUME NEW q \in Runs
          PROVE  /\ openIds'[q] \subseteq Taken'
                 /\ pc'[q] = "inRound" =>
                       \E i \in Taken' : openIds'[q] = {i} /\ kind'[i] = "calls"
                 /\ pc'[q] = "commit" =>
                       \E i, j \in Taken' :
                          openIds'[q] = {i, j} /\ kind'[i] = "calls" /\ Answers(j, i)'
      <3>1. CASE q = r
        <4>1. PICK n \in Ids : n = lastId + 1
          BY <1>1
        <4>2. c < n
          BY <1>a, <1>0, <4>1 DEF TypeOK, Taken
        <4>3. openIds'[q] = {c, n} /\ pc'[q] = "commit" /\ kind'[c] = "calls"
          BY <3>1, <1>0, <1>1, <1>a, <4>1 DEF TypeOK
        <4>4. c \in Taken' /\ n \in Taken' /\ kind'[n] = "results" /\ callsOf'[n] = c
          BY <1>1, <1>a, <4>1
        <4>5. QED
          BY <4>2, <4>3, <4>4 DEF Answers
      <3>2. CASE q # r
        <4>1. openIds'[q] = openIds[q] /\ pc'[q] = pc[q]
          BY <3>2, <1>0 DEF TypeOK
        <4>2. QED
          BY <4>1, <1>1 DEF Inv, OpenRound, Answers
      <3>3. QED
        BY <3>1, <3>2
    <2>2. QED
      BY <2>1 DEF OpenRound, Answers
  <1>8. QED
    BY <1>3, <1>4, <1>5, <1>6, <1>7 DEF Inv

(* A commit publishes calls and results together.                          *)
LEMMA CommitRoundInv == ASSUME Inv, NEW r \in Runs, CommitRound(r) PROVE Inv'
  <1>0. /\ pc[r] = "commit" /\ visible' = visible \union openIds[r]
        /\ pc' = [pc EXCEPT ![r] = "persist"] /\ turns' = [turns EXCEPT ![r] = @ - 1]
        /\ openIds' = [openIds EXCEPT ![r] = {}]
        /\ UNCHANGED <<lastId, kind, callsOf, prompt, answered, cpc, picked, crashes>>
    BY DEF CommitRound, EndRound, Goto, compVars
  <1>1. PICK i \in Taken, j \in Taken : openIds[r] = {i, j} /\ kind[i] = "calls" /\ Answers(j, i)
    BY <1>0 DEF Inv, OpenRound
  <1>2. TypeOK'
    <2>1. turns[r] - 1 \in 0..MaxTurns
      BY <1>0 DEF Inv, TypeOK, TurnBudget
    <2>2. visible' \subseteq 1..lastId'
      BY <1>0, <1>1 DEF Inv, TypeOK, Taken
    <2>3. QED
      BY <1>0, <2>1, <2>2 DEF Inv, TypeOK
  <1>3. TurnBudget'
    BY <1>0 DEF Inv, TypeOK, TurnBudget
  <1>4. RowsKept /\ ResultsNameCalls'
    BY <1>0 DEF Inv, RowsKept, ResultsNameCalls, Taken
  <1>5. TableAnswered'
    BY <1>0, <1>1 DEF Inv, TableAnswered, Answers
  <1>6. PromptAnswered'
    BY <1>0, <1>4, PromptFrame
  <1>7. OpenRound'
    <2>1. \A q \in Runs : \/ openIds'[q] = openIds[q] /\ pc'[q] = pc[q]
                          \/ openIds'[q] \in {openIds[q], {}} /\ pc'[q] \notin {"inRound", "commit"}
      BY <1>0 DEF Inv, TypeOK
    <2>2. QED
      BY <1>4, <2>1, OpenFrame
  <1>8. QED
    BY <1>2, <1>3, <1>4, <1>5, <1>6, <1>7 DEF Inv

(* A compression that deletes an answer has deleted the calls with it.     *)
LEMMA DeleteOldestInv == ASSUME Inv, NEW c \in Compressors, DeleteOldest(c) PROVE Inv'
  <1> DEFINE D == Oldest(visible, Window)
  <1>0. /\ visible' = visible \ D /\ cpc' = [cpc EXCEPT ![c] = "summary"]
        /\ UNCHANGED <<lastId, kind, callsOf, pc, prompt, turns, answered, openIds, picked, crashes>>
    BY DEF DeleteOldest, runVars
  <1>1. TypeOK' /\ TurnBudget'
    BY <1>0 DEF Inv, TypeOK, TurnBudget
  <1>2. RowsKept /\ ResultsNameCalls'
    BY <1>0 DEF Inv, RowsKept, ResultsNameCalls, Taken
  <1>3. TableAnswered'
    <2> SUFFICES ASSUME NEW i \in visible', kind[i] = "calls"
                 PROVE  \E j \in visible' : Answers(j, i)
      BY <1>0 DEF TableAnswered, Answers
    <2>1. i \in visible /\ i \notin D
      BY <1>0
    <2>2. PICK j \in visible : Answers(j, i)
      BY <2>1 DEF Inv, TableAnswered
    <2>3. visible \subseteq Ids
      BY DEF Inv, TypeOK
    <2>4. j \notin D
      BY <2>1, <2>2, <2>3, OldestDownward DEF Answers
    <2>5. QED
      BY <1>0, <2>2, <2>4
  <1>4. OpenRound' /\ PromptAnswered'
    BY <1>0, <1>2, OpenFrame, PromptFrame
  <1>5. QED
    BY <1>1, <1>2, <1>3, <1>4 DEF Inv

LEMMA InvNext == Inv /\ [Next]_vars => Inv'
  <1> SUFFICES ASSUME Inv, [Next]_vars PROVE Inv'
    OBVIOUS
  <1>1. ASSUME NEW r \in Runs, LoadHistory(r) \/ RunStep(r) PROVE Inv'
    BY <1>1, LoadHistoryInv, StoreUserInv, QuietRunStepInv, InsertCallsInv, InsertResultsInv,
       CommitRoundInv, FinishRunInv DEF RunStep
  <1>2. ASSUME NEW c \in Compressors, CompressStep(c) \/ CompressionFails(c) PROVE Inv'
    BY <1>2, QuietCompressStepInv, DeleteOldestInv DEF CompressStep
  <1>3. CASE Crash
    BY <1>3, CrashInv
  <1>4. CASE UNCHANGED vars
    <2>1. UNCHANGED <<table, prompt, openIds, pc>> /\ TypeOK' /\ TurnBudget'
      BY <1>4 DEF vars, table, runVars, compVars, Inv, TypeOK, TurnBudget
    <2>2. QED
      BY <2>1, QuietInv
  <1>5. QED
    BY <1>1, <1>2, <1>3, <1>4 DEF Next

(* Every reachable state is well typed, committed rows included.            *)
THEOREM TypeTheorem == Spec => []TypeOK
  <1>1. Inv => TypeOK
    BY DEF Inv
  <1>2. QED
    BY <1>1, InvInit, InvNext, PTL DEF Spec

(* In every reachable state a replayed history pairs calls and             *)
(* results both ways (pruneOrphanToolResults,              *)
(* appendToolRound, maybeCompress).                                        *)
THEOREM ReplayTheorem == Spec => []ReplayIsPaired
  <1>1. Inv => ReplayIsPaired
    BY DEF Inv, PromptAnswered, ReplayIsPaired, NoOrphanResults, CallsAreAnswered, Answers
  <1>2. QED
    BY <1>1, InvInit, InvNext, PTL DEF Spec

-----------------------------------------------------------------------------
(* What a compression deletes.  Here compressions must not overlap: two    *)
(* that read one window delete two, and what the second deletes nobody     *)
(* summarised.  Nothing in the code keeps them apart, so the hypothesis is *)
(* stated with the theorems.                                               *)
LoneCompression == \A c, d \in Compressors : c = d

\* Rows are deleted only while there are two windows of them, and the rows read for
\* the summary are a window's worth, all still there.
Compressing(c) ==
    /\ cpc[c] \in {"select", "delete"} => Cardinality(visible) > 2 * Window
    /\ cpc[c] = "delete" => picked[c] \subseteq visible /\ Cardinality(picked[c]) >= Window

WindowInv == \A c \in Compressors : Compressing(c)

LEMMA IdsAreFinite ==
    ASSUME NEW S, S \subseteq Ids
    PROVE  IsFiniteSet(S) /\ Cardinality(S) \in Nat /\ \A x \in S : x \in Nat
  <1>1. IsFiniteSet(Ids)
    BY FS_Interval
  <1>2. IsFiniteSet(S) /\ Cardinality(S) \in Nat
    BY <1>1, FS_Subset, FS_CardinalityType
  <1>3. QED
    BY <1>2

(* A non-empty finite set of ids has a least and a greatest member: the    *)
(* sets of the members below (above) one have a minimal one.               *)
LEMMA Extremes ==
    ASSUME NEW S, S \subseteq Ids, S # {}
    PROVE  /\ \E m \in S : \A x \in S : m <= x
           /\ \E m \in S : \A x \in S : m >= x
  <1> DEFINE Below(x) == {y \in S : y < x}
             Above(x) == {y \in S : y > x}
             F == {Below(x) : x \in S}
             G == {Above(x) : x \in S}
  <1>1. IsFiniteSet(S) /\ \A x \in S : x \in Nat
    BY IdsAreFinite
  <1>2. /\ F \subseteq FiniteSubsetsOf(S) /\ F # {}
        /\ G \subseteq FiniteSubsetsOf(S) /\ G # {}
    <2>1. FiniteSubsetsOf(S) = SUBSET S
      BY <1>1, FS_FiniteSubsetsOfFinite
    <2>2. \A U \in F \union G : U \subseteq S
      OBVIOUS
    <2>3. F # {} /\ G # {}
      OBVIOUS
    <2>4. QED
      BY <2>1, <2>2, <2>3
  <1>3. PICK U \in F : \A V \in F : ~ (<<V, U>> \in StrictSubsetOrdering(S))
    <2> HIDE DEF F, G
    <2>1. QED
      BY <1>2, WFMin, FS_StrictSubsetOrderingWellFounded
  <1>4. PICK W \in G : \A V \in G : ~ (<<V, W>> \in StrictSubsetOrdering(S))
    <2> HIDE DEF F, G
    <2>1. QED
      BY <1>2, WFMin, FS_StrictSubsetOrderingWellFounded
  <1>5. PICK a \in S : U = Below(a)
    OBVIOUS
  <1>6. PICK b \in S : W = Above(b)
    OBVIOUS
  <1>7. ASSUME NEW y \in S, y < a PROVE FALSE
    <2>1. /\ \A z \in Below(y) : z \in Below(a)
          /\ y \in Below(a) /\ y \notin Below(y)
      BY <1>1, <1>7
    <2>2. <<Below(y), Below(a)>> \in StrictSubsetOrdering(S)
      BY <2>1 DEF StrictSubsetOrdering
    <2>3. QED
      BY <1>3, <1>5, <2>2
  <1>8. ASSUME NEW y \in S, y > b PROVE FALSE
    <2>1. /\ \A z \in Above(y) : z \in Above(b)
          /\ y \in Above(b) /\ y \notin Above(y)
      BY <1>1, <1>8
    <2>2. <<Above(y), Above(b)>> \in StrictSubsetOrdering(S)
      BY <2>1 DEF StrictSubsetOrdering
    <2>3. QED
      BY <1>4, <1>6, <2>2
  <1>9. QED
    BY <1>1, <1>7, <1>8

(* LIMIT n: the oldest n rows are at most n, and n if there are so many.   *)
LEMMA OldestCount ==
    ASSUME NEW S, S \subseteq Ids, NEW n \in Nat
    PROVE  /\ IsFiniteSet(S) /\ Cardinality(S) \in Nat
           /\ Oldest(S, n) \subseteq S /\ IsFiniteSet(Oldest(S, n))
           /\ Cardinality(Oldest(S, n)) \in 0..n
           /\ Cardinality(S) >= n => Cardinality(Oldest(S, n)) >= n
  <1> DEFINE D == Oldest(S, n)
             below(i) == {j \in S : j < i}
  <1>1. IsFiniteSet(S) /\ (\A x \in S : x \in Nat) /\ D \subseteq S
    BY IdsAreFinite DEF Oldest
  <1>2. /\ IsFiniteSet(D) /\ Cardinality(D) \in Nat /\ Cardinality(S) \in Nat
        /\ \A i : IsFiniteSet(below(i)) /\ Cardinality(below(i)) \in Nat
    BY <1>1, FS_Subset, FS_CardinalityType
  <1>3. \A i \in S : i \in D <=> Cardinality(below(i)) < n
    BY DEF Oldest
  <1>4. Cardinality(D) <= n
    <2>1. CASE D = {}
      BY <2>1, FS_EmptySet
    <2>2. CASE D # {}
      <3>1. PICK m \in D : \A x \in D : m >= x
        <4> HIDE DEF D
        <4>1. QED
          BY <1>1, <2>2, Extremes
      <3>2. Cardinality(below(m)) < n
        BY <1>1, <1>3, <3>1
      <3>3. D \subseteq below(m) \union {m}
        <4>1. ASSUME NEW x \in D, x # m PROVE x \in S /\ x < m
          <5>1. x \in Nat /\ m \in Nat /\ m >= x /\ x \in S
            BY <1>1, <3>1
          <5>2. QED
            BY <4>1, <5>1
        <4>2. QED
          BY <4>1
      <3>4. /\ IsFiniteSet(below(m) \union {m})
            /\ Cardinality(below(m) \union {m}) <= Cardinality(below(m)) + 1
        <4> HIDE DEF below
        <4>1. IsFiniteSet(below(m)) /\ Cardinality(below(m)) \in Nat
          BY <1>2
        <4>2. /\ IsFiniteSet(below(m) \union {m})
              /\ \/ Cardinality(below(m) \union {m}) = Cardinality(below(m))
                 \/ Cardinality(below(m) \union {m}) = Cardinality(below(m)) + 1
          BY <4>1, FS_AddElement, Zenon
        <4>3. QED
          BY <4>1, <4>2
      <3>5. Cardinality(D) <= Cardinality(below(m) \union {m})
        <4> HIDE DEF D, below
        <4>1. QED
          BY <3>3, <3>4, FS_Subset
      <3>6. Cardinality(below(m) \union {m}) \in Nat
        <4> HIDE DEF below
        <4>1. QED
          BY <3>4, FS_CardinalityType
      <3>7. Cardinality(below(m)) \in Nat
        BY <1>2
      <3>8. QED
        <4> HIDE DEF D, below
        <4>1. QED
          BY <1>2, <3>2, <3>4, <3>5, <3>6, <3>7
    <2>3. QED
      BY <2>1, <2>2
  <1>5. ASSUME Cardinality(S) >= n PROVE Cardinality(D) >= n
    <2>1. CASE D = S
      BY <1>5, <2>1
    <2>2. CASE S \ D # {}
      <3>1. PICK m \in S \ D : \A x \in S \ D : m <= x
        <4> HIDE DEF D
        <4>1. S \ D \subseteq Ids
          OBVIOUS
        <4>2. QED
          BY <2>2, <4>1, Extremes
      <3>2. Cardinality(below(m)) >= n
        BY <1>2, <1>3, <3>1
      <3>3. below(m) \subseteq D
        <4>1. ASSUME NEW x \in S, x < m, x \notin D PROVE FALSE
          <5>1. x \in Nat /\ m \in Nat /\ m <= x
            BY <1>1, <3>1, <4>1
          <5>2. QED
            BY <4>1, <5>1
        <4>2. QED
          BY <4>1
      <3>4. Cardinality(below(m)) <= Cardinality(D)
        <4> HIDE DEF D, below
        <4>1. QED
          BY <1>2, <3>3, FS_Subset
      <3>5. QED
        BY <1>2, <3>2, <3>4
    <2>3. QED
      BY <1>1, <2>1, <2>2
  <1>6. QED
    BY <1>1, <1>2, <1>4, <1>5

(* Rows go only by a DELETE.                                               *)
LEMMA OnlyDeletesRemove ==
    ASSUME [Next]_vars
    PROVE  visible \subseteq visible' \/ \E c \in Compressors : DeleteOldest(c)
  <1>1. ASSUME NEW r \in Runs, LoadHistory(r) \/ RunStep(r) PROVE visible \subseteq visible'
    BY <1>1 DEF LoadHistory, RunStep, StoreUser, ToolTurn, TextTurn, AbandonTurn, InsertCalls,
                InsertResults, CommitRound, RollbackRound, EndRound, FinishRun, InsertRow, table
  <1>2. ASSUME NEW c \in Compressors, CompressStep(c) \/ CompressionFails(c), ~ DeleteOldest(c)
        PROVE  visible \subseteq visible'
    BY <1>2 DEF CompressStep, CountMessages, SelectOldest, AppendSummary, CompressionFails, table
  <1>3. CASE Crash \/ UNCHANGED vars
    BY <1>3 DEF Crash, vars, table
  <1>4. QED
    BY <1>1, <1>2, <1>3 DEF Next

(* More rows keep what is known of a compression that stays where it is.   *)
LEMMA CompressingFrame ==
    ASSUME Inv, Inv', NEW c \in Compressors, Compressing(c), visible \subseteq visible',
           \/ cpc'[c] = cpc[c] /\ picked'[c] = picked[c]
           \/ cpc'[c] \notin {"select", "delete"}
    PROVE  Compressing(c)'
  <1>1. visible \subseteq Ids /\ visible' \subseteq Ids
    BY DEF Inv, TypeOK
  <1>2. /\ IsFiniteSet(visible')
        /\ Cardinality(visible) \in Nat /\ Cardinality(visible') \in Nat
    BY <1>1, IdsAreFinite
  <1>3. Cardinality(visible) <= Cardinality(visible')
    BY <1>2, FS_Subset
  <1>4. QED
    BY <1>2, <1>3 DEF Compressing

LEMMA WindowInvNext ==
    ASSUME LoneCompression, Inv, Inv', WindowInv, [Next]_vars
    PROVE  WindowInv'
  <1> SUFFICES ASSUME NEW c \in Compressors PROVE Compressing(c)'
    BY DEF WindowInv
  <1>0. /\ \A d \in Compressors : d = c
        /\ visible \subseteq Ids /\ Compressing(c)
        /\ cpc \in [Compressors -> {"idle", "count", "select", "delete", "summary"}]
        /\ picked \in [Compressors -> SUBSET Ids]
    BY DEF LoneCompression, Inv, TypeOK, WindowInv
  <1>1. ASSUME NEW r \in Runs, LoadHistory(r) \/ RunStep(r) PROVE Compressing(c)'
    <2>1. visible \subseteq visible'
      BY <1>1 DEF LoadHistory, RunStep, StoreUser, ToolTurn, TextTurn, AbandonTurn, InsertCalls,
                  InsertResults, CommitRound, RollbackRound, EndRound, FinishRun, InsertRow, table
    <2>2. \/ UNCHANGED cpc
          \/ \E d \in Compressors : cpc[d] = "idle" /\ cpc' = [cpc EXCEPT ![d] = "count"]
      BY <1>1 DEF LoadHistory, RunStep, StoreUser, ToolTurn, TextTurn, AbandonTurn, InsertCalls,
                  InsertResults, CommitRound, RollbackRound, EndRound, FinishRun, StartCompression, compVars
    <2>3. UNCHANGED picked
      BY <1>1 DEF LoadHistory, RunStep, StoreUser, ToolTurn, TextTurn, AbandonTurn, InsertCalls,
                  InsertResults, CommitRound, RollbackRound, EndRound, FinishRun, compVars
    <2>4. QED
      BY <1>0, <2>1, <2>2, <2>3, CompressingFrame
  <1>2. CASE CountMessages(c)
    <2>1. UNCHANGED <<visible, picked>>
      BY <1>2 DEF CountMessages, table
    <2>2. \/ cpc'[c] = "idle"
          \/ cpc'[c] = "select" /\ Cardinality(visible) > 2 * Window
      BY <1>0, <1>2 DEF CountMessages, NeedsCompression
    <2>3. QED
      BY <2>1, <2>2 DEF Compressing
  <1>3. CASE SelectOldest(c)
    <2>1. /\ UNCHANGED visible /\ cpc[c] = "select" /\ picked'[c] = Oldest(visible, Window)
      BY <1>0, <1>3 DEF SelectOldest, table
    <2>2. Cardinality(visible) > 2 * Window
      BY <1>0, <2>1 DEF Compressing
    <2>3. /\ Oldest(visible, Window) \subseteq visible
          /\ Cardinality(Oldest(visible, Window)) >= Window
      <3>1. Cardinality(visible) \in Nat
        BY <1>0, OldestCount
      <3>2. Cardinality(visible) >= Window
        BY <2>2, <3>1
      <3>3. QED
        BY <1>0, <3>2, OldestCount
    <2>4. QED
      BY <2>1, <2>2, <2>3 DEF Compressing
  <1>4. CASE DeleteOldest(c)
    BY <1>0, <1>4 DEF DeleteOldest, Compressing
  <1>5. CASE AppendSummary(c) \/ CompressionFails(c) \/ Crash
    <2>1. cpc'[c] = "idle"
      BY <1>0, <1>5 DEF AppendSummary, CompressionFails, Crash
    <2>2. QED
      BY <2>1 DEF Compressing
  <1>6. CASE UNCHANGED vars
    BY <1>0, <1>6, CompressingFrame DEF vars, table, compVars
  <1>7. QED
    BY <1>0, <1>1, <1>2, <1>3, <1>4, <1>5, <1>6 DEF Next, CompressStep

LEMMA WindowInvInit == Init => WindowInv
  BY DEF Init, WindowInv, Compressing

(* What a DELETE takes is at most a window, and nothing beyond what the    *)
(* SELECT before it read: a row beyond would have a whole window of older  *)
(* rows below it.                                                          *)
LEMMA DeletedWasRead ==
    ASSUME Inv, WindowInv, NEW c \in Compressors, DeleteOldest(c)
    PROVE  /\ Cardinality(visible') > Window
           /\ \A i \in visible \ visible' : \E j \in picked[c] : i <= j
  <1> DEFINE D == Oldest(visible, Window)
  <1>0. /\ visible \subseteq Ids /\ cpc[c] = "delete" /\ visible' = visible \ D
        /\ Cardinality(visible) > 2 * Window
        /\ picked[c] \subseteq visible /\ Cardinality(picked[c]) >= Window
    BY DEF Inv, TypeOK, DeleteOldest, WindowInv, Compressing
  <1>1. /\ IsFiniteSet(visible) /\ Cardinality(visible) \in Nat /\ D \subseteq visible
        /\ IsFiniteSet(D) /\ Cardinality(D) \in 0..Window
    BY <1>0, OldestCount
  <1>2. Cardinality(visible') > Window
    <2> HIDE DEF D
    <2>1. visible \cap D = D
      BY <1>1
    <2>2. Cardinality(visible \ D) = Cardinality(visible) - Cardinality(D)
      BY <1>1, <2>1, FS_Difference
    <2>3. QED
      BY <1>0, <1>1, <2>2
  <1>3. ASSUME NEW i \in visible \ visible', \A j \in picked[c] : ~ (i <= j) PROVE FALSE
    <2> DEFINE below == {j \in visible : j < i}
    <2>1. i \in visible /\ Cardinality(below) < Window
      BY <1>0 DEF Oldest
    <2>2. picked[c] \subseteq below
      <3>1. ASSUME NEW j \in picked[c] PROVE j \in visible /\ j < i
        <4>1. j \in visible /\ i \in Ids /\ j \in Ids /\ ~ (i <= j)
          BY <1>0, <1>3
        <4>2. QED
          BY <4>1
      <3>2. QED
        BY <3>1
    <2>3. IsFiniteSet(below) /\ Cardinality(below) \in Nat
      BY <1>1, FS_Subset, FS_CardinalityType
    <2>4. Cardinality(picked[c]) <= Cardinality(below) /\ Cardinality(picked[c]) \in Nat
      <3> HIDE DEF below
      <3>1. QED
        BY <2>2, <2>3, FS_Subset, FS_CardinalityType
    <2>5. QED
      BY <1>0, <2>1, <2>3, <2>4
  <1>4. QED
    BY <1>2, <1>3

(* Where compressions do not overlap, one leaves more than Window messages *)
(* of the conversation, however many arrive between its four statements    *)
(* (maybeCompress).                                                        *)
THEOREM WindowTheorem == LoneCompression => (Spec => CompressionKeepsWindow)
  <1> SUFFICES ASSUME LoneCompression PROVE Spec => CompressionKeepsWindow
    OBVIOUS
  <1>1. Inv /\ WindowInv /\ [Next]_vars
            => [visible \subseteq visible' \/ Cardinality(visible') > Window]_vars
    BY OnlyDeletesRemove, DeletedWasRead
  <1>2. Inv /\ Inv' /\ WindowInv /\ [Next]_vars => WindowInv'
    BY WindowInvNext
  <1>3. QED
    BY <1>1, <1>2, InvInit, InvNext, WindowInvInit, PTL DEF Spec, CompressionKeepsWindow

(* Where compressions do not overlap, one deletes nothing newer than what  *)
(* it read for its summary (maybeCompress, whose DELETE selects anew).     *)
THEOREM DeletionTheorem == LoneCompression => (Spec => DeletesNothingNewer)
  <1> SUFFICES ASSUME LoneCompression PROVE Spec => DeletesNothingNewer
    OBVIOUS
  <1>1. Inv /\ WindowInv /\ [Next]_vars
            => [\A i \in visible \ visible' : \E c \in Compressors : \E j \in picked[c] : i <= j]_vars
    BY OnlyDeletesRemove, DeletedWasRead
  <1>2. Inv /\ Inv' /\ WindowInv /\ [Next]_vars => WindowInv'
    BY WindowInvNext
  <1>3. QED
    BY <1>1, <1>2, InvInit, InvNext, WindowInvInit, PTL DEF Spec, DeletesNothingNewer
=============================================================================
