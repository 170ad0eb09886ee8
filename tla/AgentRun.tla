----------------------------- MODULE AgentRun ------------------------------
(***************************************************************************)
(* The runs of the chat agent: how WebChannel (agent/src/channels/web.ts)  *)
(* starts and interrupts them and how AgentRunner (agent/src/agent/        *)
(* runner.ts) drives the turns of the model and its tool calls.            *)
(*                                                                         *)
(* WebChannel does not wait for a run before it takes the next frame, so   *)
(* runs of one or of several conversations interleave at every await.      *)
(* They share the pool of AbortControllers and the table of tool calls     *)
(* already made (_toolCallSeen).  A call is a pair (tool, input).          *)
(***************************************************************************)
EXTENDS Naturals, FiniteSets

CONSTANTS
    Clients,    \* authenticated websocket connections
    Convs,      \* conversation ids
    Known,      \* the conversations that exist at the start
    Runs,       \* bound: messages sent, each starts one run
    Calls,      \* pairs (tool name, JSON of the input) the model asks for
    None,       \* null, undefined
    MaxTurns,   \* MAX_TOOL_TURNS (10)
    MaxCalls    \* bound: tool_use blocks of one turn

ASSUME RunAssumption ==
    /\ Known \subseteq Convs /\ None \notin Convs \union Runs /\ "closed" \notin Convs
    /\ IsFiniteSet(Runs)
    /\ {MaxTurns, MaxCalls} \subseteq Nat \ {0}

VARIABLES
    bound,      \* client.conversationId, "closed" once the socket is gone
    pool,       \* abortControllers under a conversation id; the entries under
                \* `__new_<n>` are never looked up again
    created,    \* rows of agent.conversations
    pc, conv,   \* of a run
    aborted,    \* its signal.aborted
    turn, left, \* its turn; tool_use blocks of the turn still to be handled
    seen,       \* _toolCallSeen
    made,       \* history: how often a run made a call
    refused,    \* history: calls answered "already called, use the previous result"
    order,      \* history: messages that named a conversation, the latest highest
    alone,      \* history: runs beside which no other ever ran
    dropped     \* history: runs whose controller a closing socket took away

channel == <<bound, pool, created, order>>
run == <<pc, conv, turn, left>>
vars == <<channel, run, aborted, seen, made, refused, alone, dropped>>

Init ==
    /\ bound = [cl \in Clients |-> None]
    /\ pool = [c \in Convs |-> None]
    /\ created = Known
    /\ pc = [r \in Runs |-> "unsent"] /\ conv = [r \in Runs |-> None]
    /\ aborted = [r \in Runs |-> FALSE]
    /\ turn = [r \in Runs |-> 0] /\ left = [r \in Runs |-> 0]
    /\ seen = {}
    /\ made = [r \in Runs |-> [k \in Calls |-> 0]]
    /\ refused = [r \in Runs |-> {}]
    /\ order = [r \in Runs |-> 0]
    /\ alone = Runs /\ dropped = {}

Busy == {r \in Runs : pc[r] \notin {"unsent", "done"}}
Goto(r, l) == pc' = [pc EXCEPT ![r] = l]

-----------------------------------------------------------------------------
(* WebChannel.  c is the conversationId of the frame, None for null.       *)

\* mutant: an AbortController that is still in the pool is reused for the new run
Register_Keep(c, r) ==
    pool' = IF c = None \/ pool[c] # None THEN pool ELSE [pool EXCEPT ![c] = r]

Register(c, r) == pool' = IF c = None THEN pool ELSE [pool EXCEPT ![c] = r]

Stamp(c) == IF c = None THEN 0 ELSE 1 + Cardinality({r \in Runs : order[r] > 0})

\* mutant: a message does not clear the table of calls
UserMessage_KeepSeen(cl, c, r) ==
    /\ bound[cl] # "closed"
    /\ pc[r] = "unsent" /\ Goto(r, "resolve")
    /\ bound' = IF c = None THEN bound ELSE [bound EXCEPT ![cl] = c]
    /\ conv' = [conv EXCEPT ![r] = c]
    /\ Register(c, r)
    /\ order' = [order EXCEPT ![r] = Stamp(c)]
    /\ alone' = IF Busy = {} THEN alone ELSE alone \ (Busy \union {r})
    /\ UNCHANGED <<seen, created, aborted, turn, left, made, refused, dropped>>

(* user.message: up to the first await of AgentRunner.handle nothing else  *)
(* runs, so the controller is stored and the call table cleared at once.   *)
UserMessage(cl, c, r) ==
    /\ bound[cl] # "closed"
    /\ pc[r] = "unsent" /\ Goto(r, "resolve")
    /\ bound' = IF c = None THEN bound ELSE [bound EXCEPT ![cl] = c]
    /\ conv' = [conv EXCEPT ![r] = c]
    /\ Register(c, r)
    /\ seen' = {}
    /\ order' = [order EXCEPT ![r] = Stamp(c)]
    /\ alone' = IF Busy = {} THEN alone ELSE alone \ (Busy \union {r})
    /\ UNCHANGED <<created, aborted, turn, left, made, refused, dropped>>

(* user.interrupt: abort what the pool holds for the conversation.         *)
Interrupt(cl, c) ==
    /\ bound[cl] # "closed"
    /\ pool[c] # None
    /\ aborted' = [aborted EXCEPT ![pool[c]] = TRUE]
    /\ pool' = [pool EXCEPT ![c] = None]
    /\ UNCHANGED <<bound, created, order, run, seen, made, refused, alone, dropped>>

(* close or error of the socket: the run itself goes on.                   *)
Teardown(cl) ==
    /\ bound[cl] # "closed"
    /\ bound' = [bound EXCEPT ![cl] = "closed"]
    /\ IF bound[cl] # None
         THEN /\ pool' = [pool EXCEPT ![bound[cl]] = None]
              /\ dropped' = dropped \union ({pool[bound[cl]]} \ {None})
         ELSE UNCHANGED <<pool, dropped>>
    /\ UNCHANGED <<created, order, run, aborted, seen, made, refused, alone>>

-----------------------------------------------------------------------------
(* AgentRunner.handle and runStreamedLoop.                                 *)

(* getOrCreate: an id that has no row gives way to a new conversation.     *)
Resolve(r) ==
    /\ pc[r] = "resolve" /\ Goto(r, "turn")
    /\ IF conv[r] \in created
         THEN UNCHANGED <<created, conv>>
         ELSE \E c \in Convs \ created :
                /\ created' = created \union {c}
                /\ conv' = [conv EXCEPT ![r] = c]
    /\ UNCHANGED <<bound, pool, order, turn, left, aborted, seen, made, refused, alone, dropped>>

(* A statement before the loop fails: onIncoming rejects.                  *)
PrepareFails(r) ==
    /\ pc[r] = "resolve" /\ Goto(r, "done")
    /\ UNCHANGED <<channel, conv, turn, left, aborted, seen, made, refused, alone, dropped>>

BeginTurn(r) ==
    /\ pc[r] = "turn"
    /\ Goto(r, IF aborted[r] THEN "done" ELSE "stream")
    /\ UNCHANGED <<channel, conv, turn, left, aborted, seen, made, refused, alone, dropped>>

(* The stream ends with n tool_use blocks, or with text (n = 0).  Its last *)
(* event may arrive before an abort is seen.                               *)
StreamEnds(r, n) ==
    /\ pc[r] = "stream"
    /\ Goto(r, IF n = 0 THEN "persist" ELSE "tools")
    /\ left' = [left EXCEPT ![r] = n]
    /\ UNCHANGED <<channel, conv, turn, aborted, seen, made, refused, alone, dropped>>

(* The stream fails, or produced nothing within LLM_TIMEOUT_MS.            *)
StreamFails(r) ==
    /\ pc[r] = "stream" /\ Goto(r, "done")
    /\ UNCHANGED <<channel, conv, turn, left, aborted, seen, made, refused, alone, dropped>>

\* mutant: the abort handler does not settle the stream
StreamAborted_Unsettled(r) ==
    /\ pc[r] = "stream" /\ aborted[r]
    /\ UNCHANGED vars

(* The SDK saw the signal: the abort handler settles the stream and        *)
(* finalMessage rejects.                                                   *)
StreamAborted(r) ==
    /\ pc[r] = "stream" /\ aborted[r] /\ Goto(r, "done")
    /\ UNCHANGED <<channel, conv, turn, left, aborted, seen, made, refused, alone, dropped>>

\* mutant: the tool loop allows one turn too many
EndTurn_OneMore(r) ==
    /\ turn' = [turn EXCEPT ![r] = @ + 1]
    /\ Goto(r, IF turn[r] = MaxTurns THEN "persist" ELSE "turn")

EndTurn(r) ==
    /\ turn' = [turn EXCEPT ![r] = @ + 1]
    /\ Goto(r, IF turn[r] + 1 = MaxTurns THEN "persist" ELSE "turn")

AfterTool(r) ==
    /\ left' = [left EXCEPT ![r] = @ - 1]
    /\ IF left[r] = 1 THEN EndTurn(r) ELSE Goto(r, "tools") /\ UNCHANGED turn

(* A call that the table holds is answered without being made.             *)
RefuseCall(r, k) ==
    /\ pc[r] = "tools" /\ k \in seen
    /\ refused' = [refused EXCEPT ![r] = @ \union {k}]
    /\ AfterTool(r)
    /\ UNCHANGED <<channel, conv, aborted, seen, made, alone, dropped>>

MakeCall(r, k) ==
    /\ pc[r] = "tools" /\ k \notin seen /\ Goto(r, "await")
    /\ seen' = seen \union {k}
    /\ made' = [made EXCEPT ![r][k] = @ + 1]
    /\ UNCHANGED <<channel, conv, turn, left, aborted, refused, alone, dropped>>

(* bridge.call returns, fails or times out.                                *)
CallReturns(r) ==
    /\ pc[r] = "await" /\ AfterTool(r)
    /\ UNCHANGED <<channel, conv, aborted, seen, made, refused, alone, dropped>>

(* The rounds are stored; an INSERT that fails is swallowed.  Nothing      *)
(* removes the run's controller.                                           *)
Persist(r) ==
    /\ pc[r] = "persist" /\ Goto(r, "done")
    /\ UNCHANGED <<channel, conv, turn, left, aborted, seen, made, refused, alone, dropped>>

-----------------------------------------------------------------------------
RunStep(r) ==
    \/ Resolve(r) \/ PrepareFails(r) \/ BeginTurn(r)
    \/ \E n \in 0 .. MaxCalls : StreamEnds(r, n)
    \/ StreamFails(r) \/ StreamAborted(r)
    \/ \E k \in Calls : RefuseCall(r, k) \/ MakeCall(r, k)
    \/ CallReturns(r) \/ Persist(r)

Next ==
    \/ \E cl \in Clients :
         \/ \E c \in created \union {None}, r \in Runs : UserMessage(cl, c, r)
         \/ \E c \in created : Interrupt(cl, c)
         \/ Teardown(cl)
    \/ \E r \in Runs : RunStep(r)

(* The event loop serves every run: a statement returns or fails, a tool   *)
(* call has a timeout (60 s in FetchTransport), an abort reaches the SDK.  *)
(* Nothing makes the model's stream end: a stream that stalls after its    *)
(* first event is not timed out.                                           *)
Fairness == \A r \in Runs :
    /\ WF_vars(Resolve(r) \/ PrepareFails(r)) /\ WF_vars(BeginTurn(r))
    /\ WF_vars(StreamAborted(r))
    /\ WF_vars(\E k \in Calls : RefuseCall(r, k) \/ MakeCall(r, k))
    /\ WF_vars(CallReturns(r)) /\ WF_vars(Persist(r))

Spec == Init /\ [][Next]_vars
FairSpec == Spec /\ Fairness

-----------------------------------------------------------------------------
States == {"unsent", "resolve", "turn", "stream", "tools", "await", "persist", "done"}

(* Every variable has its type; a run in the tool loop has a tool_use      *)
(* block to handle and a turn of its budget left (runner.ts:168).          *)
TypeOK ==
    /\ bound \in [Clients -> Convs \union {None, "closed"}]
    /\ pool \in [Convs -> Runs \union {None}]
    /\ Known \subseteq created /\ created \subseteq Convs
    /\ pc \in [Runs -> States] /\ conv \in [Runs -> Convs \union {None}]
    /\ aborted \in [Runs -> BOOLEAN]
    /\ turn \in [Runs -> 0 .. MaxTurns] /\ left \in [Runs -> 0 .. MaxCalls]
    /\ seen \subseteq Calls
    /\ made \in [Runs -> [Calls -> 0 .. MaxTurns * MaxCalls]]
    /\ refused \in [Runs -> SUBSET Calls]
    /\ order \in [Runs -> 0 .. Cardinality(Runs)]
    /\ alone \subseteq Runs /\ dropped \subseteq Runs
    /\ \A r \in Runs : pc[r] \in {"tools", "await"} => left[r] > 0 /\ turn[r] < MaxTurns

Newest(r) == \A q \in Runs : conv[q] = conv[r] => order[q] <= order[r]

(* The latest message sent to an existing conversation can be interrupted  *)
(* until its run ends, whatever other runs of the conversation did, unless *)
(* it was interrupted already or a closing socket dropped its controller   *)
(* (web.ts:201 "supersedes any stale AC for this conversation").           *)
NewestIsInterruptible ==
    \A r \in Busy :
        (order[r] > 0 /\ Newest(r) /\ ~ aborted[r] /\ r \notin dropped)
            => pool[conv[r]] = r

(* A run beside which no other runs makes a call once, and is told to use  *)
(* the previous result only of calls it made (runner.ts:328-339).          *)
RepeatsAreItsOwn ==
    \A r \in alone : \A k \in Calls :
        made[r][k] <= 1 /\ (k \in refused[r] => made[r][k] = 1)

(* An interrupted run ends, also when the model's stream stalls and        *)
(* whatever turn it is in (web.ts:39-44).                                  *)
InterruptedEnds == \A r \in Runs : aborted[r] ~> pc[r] = "done"

=============================================================================
