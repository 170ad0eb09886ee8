---------------------------- MODULE Conversation ----------------------------
(***************************************************************************)
(* One conversation: its rows in agent.messages, the AgentRunner.handle    *)
(* calls that read and extend them (agent/src/agent/runner.ts) and the     *)
(* compressions they start without waiting for                             *)
(* (agent/src/conversation/manager.ts, maybeCompress).                     *)
(*                                                                         *)
(* message_id is a sequence: an INSERT takes the next id at once, its row  *)
(* becomes visible to others when its transaction commits.  What a row     *)
(* says is abstracted to its kind; a tool round is one row of calls and    *)
(* one row of results that names it.                                       *)
(***************************************************************************)
EXTENDS Naturals, FiniteSets

CONSTANTS
    Runs,         \* concurrent handle() calls on this conversation
    Compressors,  \* compressions in flight at once; a start beyond them is not modelled
    Window,       \* windowSize of ConversationManager (10)
    HistLimit,    \* limit handle() passes to getMessages (30)
    MaxTurns,     \* MAX_TOOL_TURNS (10)
    MaxIds,       \* bound: message ids ever taken
    MaxCrashes    \* bound: process exits

ASSUME ConversationAssumption ==
    /\ Window \in Nat \ {0}
    /\ HistLimit \in Nat \ {0}
    /\ MaxTurns \in Nat \ {0}
    /\ MaxIds \in Nat
    /\ MaxCrashes \in Nat

VARIABLES
    lastId,       \* message ids taken so far
    kind,         \* what the row of an id holds
    callsOf,      \* the calls row a results row answers, 0 for other rows
    visible,      \* committed and not deleted
    pc, prompt, turns, answered, openIds,     \* a run: see below
    cpc, picked,  \* a compression: where it is, which rows it summarises
    crashes       \* history

table == <<lastId, kind, callsOf, visible>>
runVars == <<pc, prompt, turns, answered, openIds>>
compVars == <<cpc, picked>>
vars == <<table, runVars, compVars, crashes>>

Ids == 1..MaxIds
Kinds == {"none", "user", "calls", "results", "text"}

\* The n smallest / largest ids of a set: ORDER BY message_id ASC / DESC LIMIT n.
Oldest(S, n) == {i \in S : Cardinality({j \in S : j < i}) < n}
Newest(S, n) == {i \in S : Cardinality({j \in S : j > i}) < n}

Init ==
    /\ lastId = 0
    /\ kind = [i \in Ids |-> "none"]
    /\ callsOf = [i \in Ids |-> 0]
    /\ visible = {}
    /\ pc = [r \in Runs |-> "idle"]
    /\ prompt = [r \in Runs |-> {}]
    /\ turns = [r \in Runs |-> 0]
    /\ answered = [r \in Runs |-> FALSE]
    /\ openIds = [r \in Runs |-> {}]
    /\ cpc = [c \in Compressors |-> "idle"]
    /\ picked = [c \in Compressors |-> {}]
    /\ crashes = 0

\* INSERT: take the next id for a row of kind k.
TakeId(k, call) ==
    /\ lastId < MaxIds
    /\ lastId' = lastId + 1
    /\ kind' = [kind EXCEPT ![lastId + 1] = k]
    /\ callsOf' = [callsOf EXCEPT ![lastId + 1] = call]

\* A single INSERT commits with its statement.
InsertRow(k) == TakeId(k, 0) /\ visible' = visible \union {lastId + 1}

\* maybeCompress is started and not awaited.
StartCompression ==
    IF \E c \in Compressors : cpc[c] = "idle"
    THEN \E c \in Compressors : cpc[c] = "idle" /\ cpc' = [cpc EXCEPT ![c] = "count"]
    ELSE UNCHANGED cpc

Goto(r, l) == pc' = [pc EXCEPT ![r] = l]

-----------------------------------------------------------------------------
(* AgentRunner.handle.                                                     *)

\* pruneOrphanToolResults: a results message is replayed only if the calls it
\* names come before it; otherwise a placeholder text stands in its place.
Prune(H) == {i \in H : kind[i] = "results" => callsOf[i] \in {j \in H : j < i}}

LoadHistory(r) ==
    /\ pc[r] = "idle"
    /\ Goto(r, "loaded")
    /\ prompt' = [prompt EXCEPT ![r] = Prune(Newest(visible, HistLimit))]
    /\ UNCHANGED <<table, turns, answered, openIds, compVars, crashes>>

\* A failed INSERT is logged and the run goes on.
StoreUser(r) ==
    /\ pc[r] = "loaded"
    /\ Goto(r, "calling")
    /\ InsertRow("user") \/ UNCHANGED table
    /\ StartCompression
    /\ UNCHANGED <<prompt, turns, answered, openIds, picked, crashes>>

\* The replayed history is of no use after the last turn.
LeaveLoop(r) == Goto(r, "persist") /\ prompt' = [prompt EXCEPT ![r] = {}]

ToolTurn_OneMore(r) ==  \* mutant: turn <= MAX_TOOL_TURNS
    /\ pc[r] = "calling"
    /\ turns' = [turns EXCEPT ![r] = @ + 1]
    /\ IF turns[r] = MaxTurns THEN LeaveLoop(r) ELSE UNCHANGED <<pc, prompt>>
    /\ UNCHANGED <<table, answered, openIds, compVars, crashes>>
\* One turn of runStreamedLoop that ends in tool calls, whose results are kept in
\* memory; after MAX_TOOL_TURNS the loop falls through to the persistence below.
ToolTurn(r) ==
    /\ pc[r] = "calling"
    /\ turns' = [turns EXCEPT ![r] = @ + 1]
    /\ IF turns[r] + 1 = MaxTurns THEN LeaveLoop(r) ELSE UNCHANGED <<pc, prompt>>
    /\ UNCHANGED <<table, answered, openIds, compVars, crashes>>

TextTurn(r) ==
    /\ pc[r] = "calling"
    /\ answered' = [answered EXCEPT ![r] = TRUE]
    /\ LeaveLoop(r)
    /\ UNCHANGED <<table, turns, openIds, compVars, crashes>>

Reset(r) ==
    /\ Goto(r, "idle")
    /\ prompt' = [prompt EXCEPT ![r] = {}]
    /\ turns' = [turns EXCEPT ![r] = 0]
    /\ answered' = [answered EXCEPT ![r] = FALSE]
    /\ openIds' = [openIds EXCEPT ![r] = {}]

\* Stream error, timeout or interrupt: runStreamedLoop returns and the rounds of
\* this run are not written.
AbandonTurn(r) ==
    /\ pc[r] = "calling"
    /\ Reset(r)
    /\ UNCHANGED <<table, compVars, crashes>>

-----------------------------------------------------------------------------
(* Persistence of the rounds: appendToolRound is one transaction of two    *)
(* INSERTs; an error rolls it back, is logged, and the next round follows. *)

\* Mutant: the round is two autocommitted INSERTs, as before issue #38.
InsertCalls_Autocommit(r) ==
    /\ pc[r] = "persist" /\ turns[r] > 0
    /\ TakeId("calls", 0)
    /\ openIds' = [openIds EXCEPT ![r] = {lastId + 1}]
    /\ visible' = visible \union {lastId + 1}
    /\ Goto(r, "inRound")
    /\ UNCHANGED <<prompt, turns, answered, compVars, crashes>>
InsertCalls(r) ==
    /\ pc[r] = "persist" /\ turns[r] > 0
    /\ TakeId("calls", 0)
    /\ openIds' = [openIds EXCEPT ![r] = {lastId + 1}]
    /\ Goto(r, "inRound")
    /\ UNCHANGED <<visible, prompt, turns, answered, compVars, crashes>>

InsertResults(r) ==
    /\ pc[r] = "inRound"
    /\ \E i \in openIds[r] : TakeId("results", i)
    /\ openIds' = [openIds EXCEPT ![r] = @ \union {lastId + 1}]
    /\ Goto(r, "commit")
    /\ UNCHANGED <<visible, prompt, turns, answered, compVars, crashes>>

EndRound(r) ==
    /\ turns' = [turns EXCEPT ![r] = @ - 1]
    /\ openIds' = [openIds EXCEPT ![r] = {}]
    /\ Goto(r, "persist")
    /\ UNCHANGED <<prompt, answered, compVars, crashes>>

CommitRound(r) ==
    /\ pc[r] = "commit"
    /\ visible' = visible \union openIds[r]
    /\ UNCHANGED <<lastId, kind, callsOf>>
    /\ EndRound(r)

RollbackRound(r) ==
    /\ \/ pc[r] \in {"inRound", "commit"}
       \/ pc[r] = "persist" /\ turns[r] > 0
    /\ UNCHANGED table
    /\ EndRound(r)

FinishRun(r) ==
    /\ pc[r] = "persist" /\ turns[r] = 0
    /\ \/ answered[r] /\ InsertRow("text")
       \/ UNCHANGED table
    /\ StartCompression
    /\ Reset(r)
    /\ UNCHANGED <<picked, crashes>>

-----------------------------------------------------------------------------
(* ConversationManager.maybeCompress: four statements, no transaction.     *)

NeedsCompression_Window(n) == n > Window  \* mutant: one threshold for both
NeedsCompression(n) == n > 2 * Window

CountMessages(c) ==
    /\ cpc[c] = "count"
    /\ cpc' = [cpc EXCEPT ![c] = IF NeedsCompression(Cardinality(visible)) THEN "select" ELSE "idle"]
    /\ UNCHANGED <<table, runVars, picked, crashes>>

SelectOldest(c) ==
    /\ cpc[c] = "select"
    /\ cpc' = [cpc EXCEPT ![c] = "delete"]
    /\ picked' = [picked EXCEPT ![c] = Oldest(visible, Window)]
    /\ UNCHANGED <<table, runVars, crashes>>

\* The DELETE selects its rows anew.
DeleteOldest_Newest(c) ==  \* mutant: ORDER BY message_id DESC
    /\ cpc[c] = "delete"
    /\ cpc' = [cpc EXCEPT ![c] = "summary"]
    /\ visible' = visible \ Newest(visible, Window)
    /\ UNCHANGED <<lastId, kind, callsOf, runVars, picked, crashes>>
DeleteOldest(c) ==
    /\ cpc[c] = "delete"
    /\ cpc' = [cpc EXCEPT ![c] = "summary"]
    /\ visible' = visible \ Oldest(visible, Window)
    /\ UNCHANGED <<lastId, kind, callsOf, runVars, picked, crashes>>

\* The text goes to conversations.summary, which nothing in the agent reads back.
AppendSummary(c) ==
    /\ cpc[c] = "summary"
    /\ cpc' = [cpc EXCEPT ![c] = "idle"]
    /\ picked' = [picked EXCEPT ![c] = {}]
    /\ UNCHANGED <<table, runVars, crashes>>

\* A statement fails: the rejection is dropped by the caller's catch.
CompressionFails(c) ==
    /\ cpc[c] # "idle"
    /\ cpc' = [cpc EXCEPT ![c] = "idle"]
    /\ picked' = [picked EXCEPT ![c] = {}]
    /\ UNCHANGED <<table, runVars, crashes>>

Crash ==
    /\ crashes < MaxCrashes
    /\ crashes' = crashes + 1
    /\ pc' = [r \in Runs |-> "idle"]
    /\ prompt' = [r \in Runs |-> {}]
    /\ turns' = [r \in Runs |-> 0]
    /\ answered' = [r \in Runs |-> FALSE]
    /\ openIds' = [r \in Runs |-> {}]
    /\ cpc' = [c \in Compressors |-> "idle"]
    /\ picked' = [c \in Compressors |-> {}]
    /\ UNCHANGED <<table>>

RunStep(r) ==
    \/ StoreUser(r) \/ ToolTurn(r) \/ TextTurn(r) \/ AbandonTurn(r)
    \/ InsertCalls(r) \/ InsertResults(r) \/ CommitRound(r) \/ RollbackRound(r)
    \/ FinishRun(r)

CompressStep(c) ==
    CountMessages(c) \/ SelectOldest(c) \/ DeleteOldest(c) \/ AppendSummary(c)

Next ==
    \/ \E r \in Runs : LoadHistory(r) \/ RunStep(r)
    \/ \E c \in Compressors : CompressStep(c) \/ CompressionFails(c)
    \/ Crash

Spec == Init /\ [][Next]_vars

-----------------------------------------------------------------------------
(* Type invariant.                                                         *)
TypeOK ==
    /\ lastId \in 0..MaxIds
    /\ kind \in [Ids -> Kinds]
    /\ callsOf \in [Ids -> Ids \union {0}]
    /\ visible \subseteq 1..lastId
    /\ pc \in [Runs -> {"idle", "loaded", "calling", "persist", "inRound", "commit"}]
    /\ prompt \in [Runs -> SUBSET Ids]
    /\ turns \in [Runs -> 0..MaxTurns]
    /\ answered \in [Runs -> BOOLEAN]
    /\ openIds \in [Runs -> SUBSET Ids]
    /\ cpc \in [Compressors -> {"idle", "count", "select", "delete", "summary"}]
    /\ picked \in [Compressors -> SUBSET Ids]
    /\ crashes \in 0..MaxCrashes

\* A replayed history names no tool result whose call it lacks, wherever the
\* LIMIT or a compression cut the rows (pruneOrphanToolResults, issue #38).
NoOrphanResults ==
    \A r \in Runs : \A i \in prompt[r] :
        kind[i] = "results" => callsOf[i] \in prompt[r] /\ callsOf[i] < i

\* A replayed history answers every tool call it contains: interleaved runs,
\* rollbacks, compressions and process exits never leave calls without results
\* (appendToolRound's transaction).
CallsAreAnswered ==
    \A r \in Runs : \A i \in prompt[r] :
        kind[i] = "calls" => \E j \in prompt[r] : kind[j] = "results" /\ callsOf[j] = i

\* A replayed history pairs calls and results, both ways.
ReplayIsPaired == NoOrphanResults /\ CallsAreAnswered

\* ... and the answer is the very next message, as the LLM API demands and the
\* comments at runner.ts:408 and manager.ts:136 promise.
CallsAreAnsweredNext ==
    \A r \in Runs : \A i \in prompt[r] :
        kind[i] = "calls" =>
            \E j \in prompt[r] :
                /\ kind[j] = "results" /\ callsOf[j] = i
                /\ \A k \in prompt[r] : ~(i < k /\ k < j)

\* A compression leaves more than Window messages of the conversation.
CompressionKeepsWindow ==
    [][visible \subseteq visible' \/ Cardinality(visible') > Window]_vars

\* A compression deletes nothing newer than what it read for its summary ("the N
\* oldest messages are compressed into one summary"); an older row can join the
\* window unread when its round commits between the SELECT and the DELETE.
DeletesNothingNewer ==
    [][\A i \in visible \ visible' : \E c \in Compressors : \E j \in picked[c] : i <= j]_vars
=============================================================================
