----------------------------- MODULE McpBridge -----------------------------
(***************************************************************************)
(* UnifiedMcpBridge (agent/src/mcp/bridge.ts): the agent's connections to  *)
(* its MCP backends, the table that routes a tool to a backend, the retry  *)
(* loops and the health checks, as main (agent/src/server.ts) starts and   *)
(* stops them.                                                             *)
(*                                                                         *)
(* Everything runs on one event loop; a step is the code between two       *)
(* awaits.  Three kinds of activity interleave: connectPrimary (Boot, and  *)
(* one _connectOne per primary), the _connectWithRetry loops of the        *)
(* secondaries, and pings.  The backends Map is iterated live while        *)
(* requests are awaited, so an entry carries its insertion stamp.          *)
(***************************************************************************)
EXTENDS Naturals, FiniteSets

CONSTANTS
    Primaries,    \* backends with required = true: at least the built-in one
    Secondaries,  \* the other backends
    Boot,         \* the connectPrimary call
    Nowhere,      \* no backend: a tool without a route
    Loops,        \* bound: _connectWithRetry loops alive at once
    Tools, Serves,\* Serves[b]: the tools backend b lists
    BootTries,    \* attempts of connectPrimary (3)
    MaxTries,     \* retryPolicy.maxRetries (10)
    MaxPings,     \* bound: pings of one backend in flight (interval 30 s, timeout 60 s)
    MaxStamps     \* bound: insertions into the Map

Backends == Primaries \union Secondaries
Procs == Primaries \union Loops \union {Boot}

ASSUME BridgeAssumption ==
    /\ Primaries # {} /\ IsFiniteSet(Backends)
    /\ Primaries \intersect Secondaries = {}
    /\ Backends \intersect (Loops \union {Boot}) = {} /\ Boot \notin Loops
    /\ Nowhere \notin Backends
    /\ Serves \in [Backends -> SUBSET Tools]
    /\ {BootTries, MaxTries, MaxPings, MaxStamps} \subseteq Nat \ {0}

VARIABLES
    stamp,     \* backends: position of an entry in insertion order, 0 when absent
    stamps,    \* stamps given out
    status,    \* statuses[b].status, "none" before _initStatus
    timer,     \* a health timer exists
    route,     \* toolBackend
    listed,    \* how often b's tools stand in cachedTools
    pc,        \* where an activity is
    be,        \* the backend a connecting activity works on
    tries,     \* its attempt
    cur, pos,  \* refreshToolRoutes: whose listTools is awaited, its stamp
    pings,     \* pings in flight
    closing,   \* disconnectAll: "no", "closing" (shuttingDown is set), "closed"
    failed     \* history: backends whose last request failed

table == <<stamp, stamps, route, listed>>
procs == <<pc, be, tries, cur, pos>>
vars == <<table, status, timer, procs, pings, closing, failed>>

Init ==
    /\ stamp = [b \in Backends |-> 0] /\ stamps = 0
    /\ status = [b \in Backends |-> "none"]
    /\ timer = [b \in Backends |-> FALSE]
    /\ route = [t \in Tools |-> Nowhere]
    /\ listed = [b \in Backends |-> 0]
    /\ pc = [p \in Procs |-> "idle"]
    /\ be = [p \in Procs |-> IF p \in Primaries THEN p ELSE Nowhere]
    /\ tries = [p \in Procs |-> 0]
    /\ cur = [p \in Procs |-> Nowhere] /\ pos = [p \in Procs |-> 0]
    /\ pings = [b \in Backends |-> 0]
    /\ closing = "no"
    /\ failed = {}

shuttingDown == closing # "no"
Goto(p, l) == pc' = [pc EXCEPT ![p] = l]
SetStatus(b, s) == status' = [status EXCEPT ![b] = s]

-----------------------------------------------------------------------------
(* refreshToolRoutes: clear both tables, then await listTools of each      *)
(* entry in turn.                                                          *)

\* Where the activity goes when its refresh is over.  A loop ends with its health
\* timer restarted.
EndRefresh_StopLast(p) ==  \* mutant: start, then stop
    /\ cur' = [cur EXCEPT ![p] = Nowhere] /\ pos' = [pos EXCEPT ![p] = 0]
    /\ \/ p \in Primaries /\ Goto(p, "settled") /\ UNCHANGED timer
       \/ p \in Loops /\ Goto(p, "idle") /\ timer' = [timer EXCEPT ![be[p]] = FALSE]
       \/ p = Boot /\ Goto(p, "check") /\ UNCHANGED timer
EndRefresh(p) ==
    /\ cur' = [cur EXCEPT ![p] = Nowhere] /\ pos' = [pos EXCEPT ![p] = 0]
    /\ \/ p \in Primaries /\ Goto(p, "settled") /\ UNCHANGED timer
       \/ p \in Loops /\ Goto(p, "idle") /\ timer' = [timer EXCEPT ![be[p]] = TRUE]
       \/ p = Boot /\ Goto(p, "check") /\ UNCHANGED timer

\* The iterator of a Map looks for the next entry when it gets there: an entry
\* deleted and set again is visited again.
VisitNext(p, st, i) ==
    LET rest == {b \in Backends : st[b] > i} IN
    \/ rest = {} /\ EndRefresh(p)
    \/ \E b \in rest :
          /\ \A c \in rest : st[b] <= st[c]
          /\ Goto(p, "list") /\ cur' = [cur EXCEPT ![p] = b] /\ pos' = [pos EXCEPT ![p] = st[b]]
          /\ UNCHANGED timer

BeginRefresh(p, st) ==
    /\ route' = [t \in Tools |-> Nowhere]
    /\ listed' = [b \in Backends |-> 0]
    /\ VisitNext(p, st, 0)

ListOk(p) ==
    /\ pc[p] = "list"
    /\ route' = [t \in Tools |-> IF t \in Serves[cur[p]] THEN cur[p] ELSE route[t]]
    /\ listed' = [listed EXCEPT ![cur[p]] = @ + 1]
    /\ SetStatus(cur[p], "connected")
    /\ VisitNext(p, stamp, pos[p])
    /\ failed' = failed \ {cur[p]}
    /\ UNCHANGED <<stamp, stamps, be, tries, pings, closing>>

ListFail_Aborts(p) ==  \* mutant: no try inside the loop
    /\ pc[p] = "list"
    /\ EndRefresh(p)
    /\ failed' = failed \union {cur[p]}
    /\ UNCHANGED <<table, status, be, tries, pings, closing>>
ListFail(p) ==
    /\ pc[p] = "list"
    /\ VisitNext(p, stamp, pos[p])
    /\ failed' = failed \union {cur[p]}
    /\ UNCHANGED <<table, status, be, tries, pings, closing>>

-----------------------------------------------------------------------------
(* _connectOne, and the loop of _connectWithRetry around it.               *)

ConnectOk(p) ==
    /\ pc[p] = "connect"
    /\ IF stamp[be[p]] > 0 THEN UNCHANGED <<stamp, stamps>>   \* Map.set keeps the place
       ELSE /\ stamps < MaxStamps
            /\ stamps' = stamps + 1
            /\ stamp' = [stamp EXCEPT ![be[p]] = stamps + 1]
    /\ SetStatus(be[p], "connected")
    /\ BeginRefresh(p, stamp')
    /\ UNCHANGED <<be, tries, pings, closing, failed>>

\* A loop counts its attempts and gives up after maxRetries of them.
GivesUp_Late(n) == n > MaxTries  \* mutant: one attempt more
GivesUp(n) == n >= MaxTries

ConnectFail(p) ==
    /\ pc[p] = "connect"
    /\ failed' = failed \union {be[p]}
    /\ \/ /\ p \in Primaries
          /\ SetStatus(be[p], "disconnected") /\ Goto(p, "settled")
          /\ UNCHANGED tries
       \/ /\ p \in Loops /\ ~GivesUp(tries[p] + 1)
          /\ SetStatus(be[p], "disconnected") /\ Goto(p, "backoff")
          /\ tries' = [tries EXCEPT ![p] = @ + 1]
       \/ /\ p \in Loops /\ GivesUp(tries[p] + 1)
          /\ SetStatus(be[p], "dead") /\ Goto(p, "idle")
          /\ tries' = [tries EXCEPT ![p] = 0]
    /\ UNCHANGED <<table, timer, be, cur, pos, pings, closing>>

\* The head of the loop after its sleep.
Wake(p) ==
    /\ p \in Loops /\ pc[p] = "backoff"
    /\ \/ shuttingDown /\ Goto(p, "idle") /\ UNCHANGED status
       \/ ~shuttingDown /\ Goto(p, "connect") /\ SetStatus(be[p], "connecting")
    /\ UNCHANGED <<table, timer, be, tries, cur, pos, pings, closing, failed>>

-----------------------------------------------------------------------------
(* connectPrimary and startSecondary.                                      *)

BootConnect ==
    /\ pc[Boot] \in {"idle", "backoff"}
    /\ pc' = [p \in Procs |-> IF p = Boot THEN "waiting" ELSE IF p \in Primaries THEN "connect" ELSE pc[p]]
    /\ tries' = [tries EXCEPT ![Boot] = @ + 1]
    /\ status' = [b \in Backends |-> IF b \in Primaries THEN "connecting" ELSE status[b]]
    /\ UNCHANGED <<table, timer, be, cur, pos, pings, closing, failed>>

BootSettled ==
    /\ pc[Boot] = "waiting"
    /\ \A p \in Primaries : pc[p] = "settled"
    /\ BeginRefresh(Boot, stamp)
    /\ UNCHANGED <<stamp, stamps, status, be, tries, pings, closing, failed>>

BootCheck ==
    /\ pc[Boot] = "check"
    /\ Goto(Boot, IF \/ \A b \in Primaries : status[b] = "connected"
                     \/ tries[Boot] = BootTries
                  THEN "up" ELSE "backoff")
    /\ UNCHANGED <<table, status, timer, be, tries, cur, pos, pings, closing, failed>>

\* main ignores what connectPrimary returned.
StartSecondary ==
    /\ pc[Boot] = "up"
    /\ \E loop \in [Secondaries -> Loops] :
          /\ \A b, c \in Secondaries : loop[b] = loop[c] => b = c
          /\ pc' = [p \in Procs |-> IF p = Boot THEN "done"
                                    ELSE IF p \in {loop[b] : b \in Secondaries} THEN "connect" ELSE pc[p]]
          /\ be' = [p \in Procs |-> IF \E b \in Secondaries : loop[b] = p
                                    THEN CHOOSE b \in Secondaries : loop[b] = p ELSE be[p]]
    /\ status' = [b \in Backends |-> IF b \in Secondaries THEN "connecting" ELSE status[b]]
    /\ UNCHANGED <<table, timer, tries, cur, pos, pings, closing, failed>>

-----------------------------------------------------------------------------
(* Health checks, the status page, shutdown.                               *)

Ping(b) ==
    /\ timer[b] /\ ~shuttingDown /\ stamp[b] > 0
    /\ pings[b] < MaxPings
    /\ pings' = [pings EXCEPT ![b] = @ + 1]
    /\ UNCHANGED <<table, status, timer, procs, closing, failed>>

PingOk(b) ==
    /\ pings[b] > 0
    /\ pings' = [pings EXCEPT ![b] = @ - 1]
    /\ SetStatus(b, "connected")
    /\ UNCHANGED <<table, timer, procs, closing, failed>>

\* The entry goes, whichever client it holds by now; its routes stay.
DropEntry(b) ==
    /\ pings[b] > 0
    /\ pings' = [pings EXCEPT ![b] = @ - 1]
    /\ stamp' = [stamp EXCEPT ![b] = 0]
    /\ timer' = [timer EXCEPT ![b] = FALSE]
    /\ failed' = failed \union {b}
    /\ UNCHANGED <<stamps, route, listed, cur, pos, closing>>
PingFail_Forget(b) ==  \* mutant: no reconnect
    /\ DropEntry(b)
    /\ SetStatus(b, "degraded")
    /\ UNCHANGED <<pc, be, tries>>
PingFail(b) ==
    /\ DropEntry(b)
    /\ \/ /\ shuttingDown /\ SetStatus(b, "degraded")
          /\ UNCHANGED <<pc, be, tries>>
       \/ /\ ~shuttingDown /\ SetStatus(b, "connecting")
          /\ \E p \in Loops :
                /\ pc[p] = "idle" /\ Goto(p, "connect")
                /\ be' = [be EXCEPT ![p] = b] /\ tries' = [tries EXCEPT ![p] = 0]

GetStatus ==
    /\ status' = [b \in Backends |-> IF stamp[b] > 0 THEN "connected" ELSE status[b]]
    /\ UNCHANGED <<table, timer, procs, pings, closing, failed>>

\* The signal handlers are installed once the boot is over.
DisconnectAll ==
    /\ pc[Boot] = "done" /\ closing = "no"
    /\ closing' = "closing"
    /\ timer' = [b \in Backends |-> FALSE]
    /\ UNCHANGED <<table, status, procs, pings, failed>>

Disconnected ==
    /\ closing = "closing"
    /\ closing' = "closed"
    /\ stamp' = [b \in Backends |-> 0]
    /\ route' = [t \in Tools |-> Nowhere]
    /\ listed' = [b \in Backends |-> 0]
    /\ UNCHANGED <<stamps, status, timer, procs, pings, failed>>

Answer(p) == ListOk(p) \/ ListFail(p) \/ ConnectOk(p) \/ ConnectFail(p)
BootStep == BootConnect \/ BootSettled \/ BootCheck \/ StartSecondary

Next ==
    \/ BootStep
    \/ \E p \in Procs : Answer(p) \/ Wake(p)
    \/ \E b \in Backends : Ping(b) \/ PingOk(b) \/ PingFail(b)
    \/ GetStatus \/ DisconnectAll \/ Disconnected

\* Every request is answered, refused or timed out, every sleep ends.
Fairness ==
    /\ WF_vars(BootStep)
    /\ \A p \in Procs : WF_vars(Answer(p) \/ Wake(p))

Spec == Init /\ [][Next]_vars /\ Fairness

-----------------------------------------------------------------------------
(* Type invariant.                                                         *)
TypeOK ==
    /\ stamp \in [Backends -> 0..stamps] /\ stamps \in 0..MaxStamps
    /\ status \in [Backends -> {"none", "connecting", "connected", "disconnected", "degraded", "dead"}]
    /\ timer \in [Backends -> BOOLEAN]
    /\ route \in [Tools -> Backends \union {Nowhere}]
    /\ listed \in [Backends -> Nat]
    /\ pc \in [Procs -> {"idle", "connect", "list", "settled", "backoff", "waiting", "check", "up", "done"}]
    /\ be \in [Procs -> Backends \union {Nowhere}]
    /\ tries \in [Procs -> Nat] /\ tries[Boot] <= BootTries /\ \A p \in Loops : tries[p] < MaxTries
    /\ cur \in [Procs -> Backends \union {Nowhere}] /\ pos \in [Procs -> 0..stamps]
    /\ pings \in [Backends -> 0..MaxPings]
    /\ closing \in {"no", "closing", "closed"}
    /\ failed \subseteq Backends

Busy(b) == \E p \in Loops : be[p] = b /\ pc[p] # "idle"

\* Until shutdown a connected secondary is never left without a health check,
\* however pings and retry loops overlap: its timer runs or a loop is at work
\* that will start it (_connectWithRetry, _ping).
ConnectedIsWatched ==
    closing = "no" => \A b \in Secondaries : stamp[b] > 0 => timer[b] \/ Busy(b)

\* When no refresh is in flight, every tool of a connected backend that answered
\* its last request is offered to the model and routed, whatever refreshes overlapped before and whichever
\* other backend failed in the middle of one (refreshToolRoutes).
QuietRoutesComplete ==
    (\A p \in Procs : pc[p] # "list") =>
        \A b \in Backends : stamp[b] > 0 /\ b \notin failed =>
            listed[b] > 0 /\ \A t \in Serves[b] : route[t] # Nowhere

\* A secondary that is known not to be connected gets connected or is given up.
Reconnects ==
    \A b \in Secondaries :
        stamp[b] = 0 /\ status[b] \in {"connecting", "degraded", "disconnected"}
            ~> stamp[b] > 0 \/ status[b] = "dead" \/ shuttingDown

=============================================================================
