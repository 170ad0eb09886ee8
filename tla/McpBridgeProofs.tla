--------------------------- MODULE McpBridgeProofs ----------------------------
(* The table of tools and the health checks of the bridge, for any backends,
   tools and retry loops.                                                       *)
EXTENDS McpBridge, TLAPS

Places == {"idle", "connect", "list", "settled", "backoff", "waiting", "check", "up", "done"}
States == {"none", "connecting", "connected", "disconnected", "degraded", "dead"}
Typed ==
    /\ stamp \in [Backends -> Nat] /\ stamps \in 0..MaxStamps
    /\ \A b \in Backends : stamp[b] <= stamps
    /\ status \in [Backends -> States]
    /\ timer \in [Backends -> BOOLEAN]
    /\ route \in [Tools -> Backends \union {Nowhere}]
    /\ listed \in [Backends -> Nat]
    /\ pc \in [Procs -> Places]
    /\ be \in [Procs -> Backends \union {Nowhere}] /\ tries \in [Procs -> Nat]
    /\ cur \in [Procs -> Backends \union {Nowhere}] /\ pos \in [Procs -> Nat]
    /\ \A p \in Procs : pos[p] <= stamps
    /\ pings \in [Backends -> 0..MaxPings]
    /\ closing \in {"no", "closing", "closed"}
    /\ failed \in SUBSET Backends

(* Where the three kinds of activity can be.                                    *)
Placed(p) ==
    /\ p \in Primaries => pc[p] \in {"idle", "connect", "list", "settled"} /\ be[p] = p
    /\ p \in Loops => /\ pc[p] \in {"idle", "connect", "list", "backoff"}
                      /\ pc[p] # "idle" => be[p] \in Backends
                      /\ tries[p] < MaxTries
    /\ p = Boot => /\ pc[p] \in {"idle", "waiting", "list", "check", "backoff", "up", "done"}
                   /\ tries[p] <= BootTries
                   /\ pc[p] \in {"idle", "backoff"} => tries[p] < BootTries
    /\ pc[p] = "list" => cur[p] \in Backends

(* The primaries run only while the boot waits for them, the rest only once it
   is over.                                                                     *)
Booting ==
    /\ pc[Boot] # "waiting" => \A p \in Primaries : pc[p] \in {"idle", "settled"}
    /\ pc[Boot] # "done" => /\ closing = "no" /\ \A p \in Loops : pc[p] = "idle"
                            /\ \A b \in Backends : ~ timer[b] /\ pings[b] = 0

Distinct == \A b, c \in Backends : stamp[b] = stamp[c] /\ stamp[b] > 0 => b = c

(* A backend that answered has its tools in the table, or some refresh has still
   to get to it: refreshes clear the table, but each then visits every entry.   *)
Offered(b) == listed[b] > 0 /\ \A t \in Serves[b] : route[t] # Nowhere
Pending(b, p) == pc[p] = "list" /\ (b = cur[p] \/ stamp[b] > pos[p])
Reached ==
    \A b \in Backends : stamp[b] > 0 /\ b \notin failed =>
        Offered(b) \/ \E p \in Procs : Pending(b, p)

(* The loop that connected a backend starts its timer when its refresh ends.    *)
Watched ==
    closing = "no" => \A b \in Secondaries : stamp[b] > 0 =>
        timer[b] \/ \E p \in Loops : be[p] = b /\ pc[p] = "list"

Inv == Typed /\ (\A p \in Procs : Placed(p)) /\ Booting /\ Distinct /\ Reached /\ Watched

-----------------------------------------------------------------------------
LEMMA Kinds ==
    /\ Primaries \subseteq Backends /\ Secondaries \subseteq Backends
    /\ \A p \in Primaries : p \notin Loops /\ p # Boot /\ p \notin Secondaries
    /\ \A p \in Loops : p # Boot /\ p \notin Backends
    /\ Boot \in Procs /\ Loops \subseteq Procs /\ Primaries \subseteq Procs
    /\ \A p \in Procs : p \in Primaries \/ p \in Loops \/ p = Boot
    /\ {BootTries, MaxTries, MaxPings, MaxStamps} \subseteq Nat \ {0}
    /\ Nowhere \notin Backends
BY BridgeAssumption DEF Backends, Procs

(* Where a refresh is after a visit: at the next entry, or over when there is none. *)
LEMMA Visits ==
    ASSUME NEW p \in Procs, NEW st \in [Backends -> Nat], NEW i \in Nat, VisitNext(p, st, i)
    PROVE  \/ \E b \in Backends :
                /\ pc' = [pc EXCEPT ![p] = "list"] /\ cur' = [cur EXCEPT ![p] = b]
                /\ pos' = [pos EXCEPT ![p] = st[b]] /\ timer' = timer /\ st[b] > i
                /\ \A c \in Backends : st[c] > i => st[b] <= st[c]
           \/ \E l \in {"settled", "idle", "check"} :
                /\ pc' = [pc EXCEPT ![p] = l] /\ cur' = [cur EXCEPT ![p] = Nowhere]
                /\ pos' = [pos EXCEPT ![p] = 0] /\ \A c \in Backends : ~ st[c] > i
                /\ \/ p \in Primaries /\ l = "settled" /\ timer' = timer
                   \/ p \in Loops /\ l = "idle" /\ timer' = [timer EXCEPT ![be[p]] = TRUE]
                   \/ p = Boot /\ l = "check" /\ timer' = timer
BY DEF VisitNext, EndRefresh, Goto

(* A step that goes on with a refresh.                                          *)
LEMMA VisitInv ==
    ASSUME Inv, NEW p \in Procs, NEW i \in Nat, VisitNext(p, stamp', i),
           pc[p] \in {"list", "connect", "waiting"},
           pc[p] = "waiting" => \A q \in Primaries : pc[q] = "settled",
           stamp' \in [Backends -> Nat], stamps' \in 0..MaxStamps, stamps' >= stamps,
           \A b \in Backends : stamp'[b] <= stamps',
           status' \in [Backends -> States],
           route' \in [Tools -> Backends \union {Nowhere}], listed' \in [Backends -> Nat],
           failed' \in SUBSET Backends, UNCHANGED <<be, tries, pings, closing>>,
           Distinct',
           \A b \in Secondaries : stamp'[b] > 0 => stamp[b] > 0 \/ (p \in Loops /\ be[p] = b),
           \A b \in Backends : stamp'[b] > 0 /\ b \notin failed' =>
              \/ Offered(b)' \/ stamp'[b] > i
              \/ \E q \in Procs \ {p} : pc[q] = "list" /\ (b = cur[q] \/ stamp'[b] > pos[q])
    PROVE  Inv'
<1>0. Typed /\ Placed(p) /\ Booting
  BY DEF Inv
<1>1. \/ \E b \in Backends :
           /\ pc' = [pc EXCEPT ![p] = "list"] /\ cur' = [cur EXCEPT ![p] = b]
           /\ pos' = [pos EXCEPT ![p] = stamp'[b]] /\ timer' = timer /\ stamp'[b] > i
           /\ \A c \in Backends : stamp'[c] > i => stamp'[b] <= stamp'[c]
      \/ \E l \in {"settled", "idle", "check"} :
           /\ pc' = [pc EXCEPT ![p] = l] /\ cur' = [cur EXCEPT ![p] = Nowhere]
           /\ pos' = [pos EXCEPT ![p] = 0] /\ \A c \in Backends : ~ stamp'[c] > i
           /\ \/ p \in Primaries /\ l = "settled" /\ timer' = timer
              \/ p \in Loops /\ l = "idle" /\ timer' = [timer EXCEPT ![be[p]] = TRUE]
              \/ p = Boot /\ l = "check" /\ timer' = timer
  BY Visits
<1>2. p \in Loops => be[p] \in Backends
  BY <1>0 DEF Placed
<1>3. /\ \A q \in Procs \ {p} : pc'[q] = pc[q] /\ cur'[q] = cur[q] /\ pos'[q] = pos[q]
      /\ \A b \in Backends : timer[b] => timer'[b]
      /\ pc'[p] = "list" => cur'[p] \in Backends /\ pos'[p] = stamp'[cur'[p]] /\ timer' = timer
                            /\ \A c \in Backends : stamp'[c] > i => stamp'[cur'[p]] <= stamp'[c]
      /\ pc'[p] # "list" =>
           /\ \A c \in Backends : ~ stamp'[c] > i
           /\ \/ p \in Primaries /\ pc'[p] = "settled" /\ timer' = timer
              \/ p \in Loops /\ pc'[p] = "idle" /\ timer'[be[p]]
              \/ p = Boot /\ pc'[p] = "check" /\ timer' = timer
  <2>1. CASE \E b \in Backends :
           /\ pc' = [pc EXCEPT ![p] = "list"] /\ cur' = [cur EXCEPT ![p] = b]
           /\ pos' = [pos EXCEPT ![p] = stamp'[b]] /\ timer' = timer /\ stamp'[b] > i
           /\ \A c \in Backends : stamp'[c] > i => stamp'[b] <= stamp'[c]
    BY <1>0, <2>1 DEF Typed
  <2>2. CASE \E l \in {"settled", "idle", "check"} :
           /\ pc' = [pc EXCEPT ![p] = l] /\ cur' = [cur EXCEPT ![p] = Nowhere]
           /\ pos' = [pos EXCEPT ![p] = 0] /\ \A c \in Backends : ~ stamp'[c] > i
           /\ \/ p \in Primaries /\ l = "settled" /\ timer' = timer
              \/ p \in Loops /\ l = "idle" /\ timer' = [timer EXCEPT ![be[p]] = TRUE]
              \/ p = Boot /\ l = "check" /\ timer' = timer
    BY <1>0, <1>2, <2>2 DEF Typed
  <2> QED
    BY <1>1, <2>1, <2>2
<1>4. Typed'
  <2>1. /\ pc' \in [Procs -> Places] /\ cur' \in [Procs -> Backends \union {Nowhere}]
        /\ pos' \in [Procs -> Nat] /\ timer' \in [Backends -> BOOLEAN]
    <3>1. PICK l \in Places, b \in Backends \union {Nowhere}, n \in Nat :
             /\ pc' = [pc EXCEPT ![p] = l] /\ cur' = [cur EXCEPT ![p] = b]
             /\ pos' = [pos EXCEPT ![p] = n]
      BY <1>1 DEF Places
    <3>2. timer' = timer \/ timer' = [timer EXCEPT ![be[p]] = TRUE]
      BY <1>1
    <3> QED
      BY <1>0, <3>1, <3>2 DEF Typed
  <2>2. ASSUME NEW q \in Procs PROVE pos'[q] <= stamps'
    <3>1. stamps \in Nat /\ stamps' \in Nat /\ pos[q] \in Nat /\ pos[q] <= stamps
      BY <1>0, Kinds DEF Typed
    <3>2. CASE q # p
      BY <1>3, <3>1, <3>2
    <3>3. CASE q = p
      BY <1>0, <1>1, <3>1, <3>3 DEF Typed
    <3> QED
      BY <3>2, <3>3
  <2> QED
    BY <1>0, <2>1, <2>2 DEF Typed
<1>5. ASSUME NEW q \in Procs PROVE Placed(q)'
  <2>1. CASE q # p
    BY <1>3, <2>1 DEF Inv, Placed
  <2>2. CASE q = p
    BY <1>0, <1>3, <2>2, Kinds DEF Placed
  <2> QED
    BY <2>1, <2>2
<1>6. Booting'
  <2>1. p \in Primaries => pc[Boot] = "waiting" /\ p # Boot
    BY <1>0, Kinds DEF Booting
  <2>2. p = Boot => \A q \in Primaries : pc[q] \in {"idle", "settled"}
    BY <1>0 DEF Booting
  <2>3. p \in Loops => pc[Boot] = "done" /\ p # Boot
    BY <1>0, Kinds DEF Booting
  <2>4. CASE p \in Primaries
    BY <1>0, <1>3, <2>1, <2>4, Kinds DEF Booting
  <2>5. CASE p = Boot
    <3>1. pc[Boot] # "done" /\ timer' = timer /\ pc'[Boot] # "done"
      BY <1>3, <2>5, Kinds
    <3> QED
      BY <1>0, <1>3, <2>2, <2>5, <3>1, Kinds DEF Booting
  <2>6. CASE p \in Loops
    BY <1>0, <1>3, <2>3, <2>6, Kinds DEF Booting
  <2> QED
    BY <2>4, <2>5, <2>6, Kinds
<1>7. Reached'
  <2> SUFFICES ASSUME NEW b \in Backends, stamp'[b] > 0, b \notin failed', ~ Offered(b)'
               PROVE  \E q \in Procs : Pending(b, q)'
    BY DEF Reached
  <2>1. CASE stamp'[b] > i
    <3>1. pc'[p] = "list" /\ stamp'[cur'[p]] <= stamp'[b] /\ cur'[p] \in Backends
          /\ pos'[p] = stamp'[cur'[p]]
      BY <1>3, <2>1
    <3>2. b = cur'[p] \/ stamp'[b] > pos'[p]
      BY <3>1 DEF Distinct
    <3> QED
      BY <3>1, <3>2 DEF Pending
  <2>2. CASE \E q \in Procs \ {p} : pc[q] = "list" /\ (b = cur[q] \/ stamp'[b] > pos[q])
    BY <1>3, <2>2 DEF Pending
  <2> QED
    BY <2>1, <2>2
<1>8. Watched'
  <2> SUFFICES ASSUME closing = "no", NEW b \in Secondaries, stamp'[b] > 0, ~ timer'[b]
               PROVE  \E q \in Loops : be[q] = b /\ pc'[q] = "list"
    BY DEF Watched
  <2>1. b \in Backends /\ ~ timer[b]
    BY <1>3, Kinds
  <2>2. CASE p \in Loops /\ be[p] = b
    BY <1>3, <2>2, Kinds
  <2>3. CASE stamp[b] > 0 /\ ~ (p \in Loops /\ be[p] = b)
    <3>1. PICK q \in Loops : be[q] = b /\ pc[q] = "list"
      BY <2>1, <2>3 DEF Inv, Watched
    <3> QED
      BY <1>3, <2>3, <3>1, Kinds
  <2> QED
    BY <2>2, <2>3
<1> QED
  BY <1>4, <1>5, <1>6, <1>7, <1>8 DEF Inv

LEMMA InitInv == Init => Inv
<1> SUFFICES ASSUME Init PROVE Inv
  OBVIOUS
<1>1. Typed
  BY Kinds DEF Init, Typed, Places, States
<1>2. ASSUME NEW p \in Procs PROVE Placed(p)
  BY Kinds DEF Init, Placed
<1>3. Booting /\ Distinct /\ Reached /\ Watched
  BY Kinds DEF Init, Booting, Distinct, Reached, Watched
<1> QED
  BY <1>1, <1>2, <1>3 DEF Inv

LEMMA StutterInv == Inv /\ UNCHANGED vars => Inv'
BY DEF vars, table, procs, Inv, Typed, Placed, Booting, Distinct, Offered, Pending, Reached, Watched

LEMMA ListStep ==
    ASSUME Inv, NEW p \in Procs, ListOk(p) \/ ListFail(p)
    PROVE  Inv'
<1>1. /\ Typed /\ Placed(p) /\ pc[p] = "list" /\ cur[p] \in Backends /\ pos[p] \in Nat
      /\ stamps \in Nat /\ UNCHANGED <<stamp, stamps, be, tries, pings, closing>>
      /\ VisitNext(p, stamp', pos[p])
  BY Kinds DEF Inv, Typed, Placed, ListOk, ListFail, table
<1>c. PICK c \in Backends : c = cur[p]
  BY <1>1
<1>2. ASSUME NEW b \in Backends, stamp[b] > 0, b \notin failed, b # c, ~ Offered(b)
      PROVE  \/ stamp[b] > pos[p]
             \/ \E q \in Procs \ {p} : pc[q] = "list" /\ (b = cur[q] \/ stamp[b] > pos[q])
  BY <1>2, <1>c DEF Inv, Reached, Pending
<1>3. Distinct'
  BY <1>1 DEF Inv, Distinct
<1>4. CASE ListOk(p)
  <2>1. /\ route' = [t \in Tools |-> IF t \in Serves[c] THEN c ELSE route[t]]
        /\ listed' = [listed EXCEPT ![c] = @ + 1]
        /\ status' = [status EXCEPT ![c] = "connected"]
        /\ failed' = failed \ {c}
    BY <1>4, <1>c DEF ListOk, SetStatus
  <2>2. /\ route' \in [Tools -> Backends \union {Nowhere}] /\ listed' \in [Backends -> Nat]
        /\ status' \in [Backends -> States] /\ failed' \in SUBSET Backends
    BY <1>1, <2>1 DEF Typed, States
  <2>3. Offered(c)'
    <3>1. listed[c] \in Nat /\ listed'[c] = listed[c] + 1
      BY <1>1, <2>1 DEF Typed
    <3>2. Serves[c] \subseteq Tools /\ c # Nowhere
      BY <1>1, BridgeAssumption
    <3> QED
      BY <2>1, <3>1, <3>2 DEF Offered
  <2>4. ASSUME NEW b \in Backends, b # c, Offered(b) PROVE Offered(b)'
    <3>1. listed'[b] = listed[b] /\ Serves[b] \subseteq Tools /\ c # Nowhere
      BY <1>1, <2>1, <2>4, BridgeAssumption DEF Typed
    <3> QED
      BY <2>1, <2>4, <3>1 DEF Offered
  <2> QED
    BY <1>1, <1>2, <1>3, <2>1, <2>2, <2>3, <2>4, VisitInv, SMTT(30) DEF Typed
<1>5. CASE ListFail(p)
  <2>1. failed' = failed \union {c} /\ UNCHANGED <<table, status>>
    BY <1>5, <1>c DEF ListFail
  <2>2. \A b \in Backends : Offered(b)' <=> Offered(b)
    BY <2>1 DEF Offered, table
  <2> QED
    BY <1>1, <1>2, <1>3, <2>1, <2>2, VisitInv DEF Typed, table
<1> QED
  BY <1>4, <1>5

(* A backend that connects gets the highest stamp, or keeps the one it has; the
   refresh it starts clears the table and has every entry before it.            *)
LEMMA ConnectOkStep ==
    ASSUME Inv, NEW p \in Procs, ConnectOk(p)
    PROVE  Inv'
<1>1. /\ Typed /\ Placed(p) /\ pc[p] = "connect" /\ stamps \in Nat /\ MaxStamps \in Nat
      /\ be[p] \in Backends /\ (p \notin Loops => p \in Primaries /\ be[p] = p)
      /\ UNCHANGED <<be, tries, pings, closing, failed>>
  BY Kinds DEF Inv, Typed, Placed, ConnectOk
<1>2. /\ status' = [status EXCEPT ![be[p]] = "connected"]
      /\ route' = [t \in Tools |-> Nowhere] /\ listed' = [b \in Backends |-> 0]
      /\ VisitNext(p, stamp', 0)
  BY DEF ConnectOk, SetStatus, BeginRefresh
<1>3. /\ stamp' \in [Backends -> Nat] /\ stamps' \in 0..MaxStamps /\ stamps' >= stamps
      /\ \A b \in Backends : stamp'[b] <= stamps'
      /\ \A b \in Backends : b # be[p] => stamp'[b] = stamp[b]
      /\ Distinct'
  <2>1. CASE stamp[be[p]] > 0
    <3>1. UNCHANGED <<stamp, stamps>>
      BY <2>1 DEF ConnectOk
    <3> QED
      BY <1>1, <3>1 DEF Inv, Typed, Distinct
  <2>2. CASE ~ stamp[be[p]] > 0
    <3>1. stamps < MaxStamps /\ stamps' = stamps + 1 /\ stamp' = [stamp EXCEPT ![be[p]] = stamps + 1]
      BY <2>2 DEF ConnectOk
    <3>2. stamps + 1 \in Nat /\ stamps' \in 0..MaxStamps /\ stamps' >= stamps
      BY <1>1, <3>1
    <3>3. stamp' \in [Backends -> Nat]
      BY <1>1, <3>1, <3>2 DEF Typed
    <3>4. \A b \in Backends : /\ stamp[b] \in Nat /\ stamp[b] <= stamps
                              /\ b # be[p] => stamp'[b] = stamp[b]
                              /\ b = be[p] => stamp'[b] = stamps + 1
      BY <1>1, <3>1 DEF Typed
    <3>5. \A b \in Backends : stamp'[b] <= stamps'
      BY <1>1, <3>1, <3>4
    <3>6. Distinct'
      BY <1>1, <3>4 DEF Inv, Distinct
    <3> QED
      BY <3>2, <3>3, <3>4, <3>5, <3>6
  <2> QED
    BY <2>1, <2>2
<1>4. /\ route' \in [Tools -> Backends \union {Nowhere}] /\ listed' \in [Backends -> Nat]
      /\ status' \in [Backends -> States]
  BY <1>1, <1>2 DEF Typed, States
<1>5. \A b \in Secondaries : stamp'[b] > 0 => stamp[b] > 0 \/ (p \in Loops /\ be[p] = b)
  BY <1>1, <1>3, Kinds
<1> QED
  BY <1>1, <1>2, <1>3, <1>4, <1>5, VisitInv DEF Typed

LEMMA BootSettledStep ==
    ASSUME Inv, BootSettled
    PROVE  Inv'
<1>1. /\ Typed /\ pc[Boot] = "waiting" /\ (\A p \in Primaries : pc[p] = "settled") /\ stamps \in Nat
      /\ route' = [t \in Tools |-> Nowhere] /\ listed' = [b \in Backends |-> 0]
      /\ VisitNext(Boot, stamp', 0)
      /\ UNCHANGED <<stamp, stamps, status, be, tries, pings, closing, failed>>
  BY Kinds DEF Inv, Typed, BootSettled, BeginRefresh
<1>2. Distinct'
  BY <1>1 DEF Inv, Distinct
<1>3. /\ route' \in [Tools -> Backends \union {Nowhere}] /\ listed' \in [Backends -> Nat]
  BY <1>1
<1> QED
  BY <1>1, <1>2, <1>3, Kinds, VisitInv DEF Typed

-----------------------------------------------------------------------------
(* A step that leaves the table and every refresh alone; loops that start or end
   are not in a refresh.                                                        *)
LEMMA AsideInv ==
    ASSUME Inv, UNCHANGED <<table, cur, pos, closing>>, Typed', failed \subseteq failed',
           \A p \in Procs : Placed(p)', Booting',
           \A p \in Procs : pc[p] = "list" => pc'[p] = "list" /\ be'[p] = be[p],
           \A b \in Backends : timer[b] => timer'[b]
    PROVE  Inv'
<1>1. Distinct' /\ \A b \in Backends : Offered(b)' <=> Offered(b)
  BY DEF Inv, Distinct, Offered, table
<1>2. Reached'
  BY <1>1 DEF Inv, Reached, Pending, table
<1>3. Watched'
  BY Kinds DEF Inv, Watched, table, Procs
<1> QED
  BY <1>1, <1>2, <1>3 DEF Inv

LEMMA ConnectFailStep ==
    ASSUME Inv, NEW p \in Procs, ConnectFail(p) \/ Wake(p)
    PROVE  Inv'
<1>0. Typed /\ Placed(p) /\ Booting /\ MaxTries \in Nat \ {0}
  BY Kinds DEF Inv
<1>1. PICK l \in {"settled", "backoff", "idle", "connect"}, s \in States :
        /\ pc' = [pc EXCEPT ![p] = l] /\ (status' = status \/ status' = [status EXCEPT ![be[p]] = s])
        /\ pc[p] \in {"connect", "backoff"} /\ (pc[p] = "backoff" => p \in Loops)
        /\ l = "settled" => p \in Primaries
        /\ l # "settled" => p \in Loops
        /\ failed' = failed \/ (failed' = failed \union {be[p]} /\ pc[p] = "connect")
        /\ tries' = tries \/ \E n \in Nat : p \in Loops /\ n < MaxTries /\ tries' = [tries EXCEPT ![p] = n]
        /\ UNCHANGED <<table, timer, be, cur, pos, pings, closing>>
  <2>1. CASE Wake(p)
    BY <2>1 DEF Wake, Goto, SetStatus, States
  <2>2. CASE ConnectFail(p) /\ p \in Primaries
    BY <2>2, Kinds DEF ConnectFail, Goto, SetStatus, States
  <2>3. CASE ConnectFail(p) /\ p \in Loops
    <3>1. tries[p] \in Nat
      BY <1>0 DEF Typed
    <3> QED
      BY <1>0, <2>3, <3>1, Kinds DEF ConnectFail, Goto, SetStatus, States, GivesUp
  <2> QED
    BY <2>1, <2>2, <2>3 DEF ConnectFail
<1>2. be[p] \in Backends
  BY <1>0, <1>1, Kinds DEF Placed
<1>3. Typed'
  <2>1. pc' \in [Procs -> Places] /\ status' \in [Backends -> States] /\ tries' \in [Procs -> Nat]
        /\ failed' \in SUBSET Backends
    BY <1>0, <1>1, <1>2 DEF Typed, Places
  <2> QED
    BY <1>0, <1>1, <2>1 DEF Typed, table
<1>4. /\ pc'[p] = l /\ \A q \in Procs \ {p} : pc'[q] = pc[q] /\ tries'[q] = tries[q]
      /\ p \in Loops => tries'[p] < MaxTries
  BY <1>0, <1>1 DEF Typed, Placed
<1>5. ASSUME NEW q \in Procs PROVE Placed(q)'
  <2>1. CASE q # p
    BY <1>1, <1>4, <2>1 DEF Inv, Placed
  <2>2. CASE q = p
    BY <1>0, <1>1, <1>2, <1>4, <2>2, Kinds DEF Placed
  <2> QED
    BY <2>1, <2>2
<1>6. Booting'
  BY <1>0, <1>1, <1>4, Kinds DEF Booting, Placed
<1> QED
  BY <1>1, <1>3, <1>4, <1>5, <1>6, AsideInv

LEMMA BootConnectStep ==
    ASSUME Inv, BootConnect
    PROVE  Inv'
<1>1. /\ Typed /\ Booting /\ Placed(Boot) /\ BootTries \in Nat /\ tries[Boot] \in Nat
      /\ pc[Boot] \in {"idle", "backoff"} /\ tries[Boot] < BootTries
      /\ pc' = [p \in Procs |-> IF p = Boot THEN "waiting"
                                ELSE IF p \in Primaries THEN "connect" ELSE pc[p]]
      /\ tries' = [tries EXCEPT ![Boot] = @ + 1]
      /\ status' = [b \in Backends |-> IF b \in Primaries THEN "connecting" ELSE status[b]]
      /\ UNCHANGED <<table, timer, be, cur, pos, pings, closing, failed>>
  BY Kinds DEF Inv, BootConnect, Placed, Typed
<1>2. /\ pc'[Boot] = "waiting" /\ tries'[Boot] = tries[Boot] + 1
      /\ \A p \in Primaries : pc'[p] = "connect" /\ pc[p] \in {"idle", "settled"}
      /\ \A p \in Loops : pc'[p] = pc[p]
      /\ \A p \in Procs \ {Boot} : tries'[p] = tries[p]
  BY <1>1, Kinds DEF Typed, Booting
<1>3. Typed'
  <2>1. pc' \in [Procs -> Places]
    BY <1>1 DEF Typed, Places
  <2>2. tries' \in [Procs -> Nat] /\ status' \in [Backends -> States]
    BY <1>1, Kinds DEF Typed, States
  <2> QED
    BY <1>1, <2>1, <2>2 DEF Typed, table
<1>4. ASSUME NEW p \in Procs PROVE Placed(p)'
  <2>1. CASE p = Boot
    BY <1>1, <1>2, <2>1, Kinds DEF Placed
  <2>2. CASE p # Boot
    BY <1>1, <1>2, <2>2, Kinds DEF Inv, Placed
  <2> QED
    BY <2>1, <2>2
<1>5. Booting'
  BY <1>1, <1>2, Kinds DEF Booting
<1>6. \A p \in Procs : pc[p] = "list" => pc'[p] = "list" /\ be'[p] = be[p]
  BY <1>1, <1>2, Kinds
<1> QED
  BY <1>1, <1>3, <1>4, <1>5, <1>6, AsideInv

LEMMA BootCheckStep ==
    ASSUME Inv, BootCheck
    PROVE  Inv'
<1>1. /\ Typed /\ Booting /\ Placed(Boot) /\ pc[Boot] = "check" /\ Boot \in Procs
      /\ UNCHANGED <<table, status, timer, be, tries, cur, pos, pings, closing, failed>>
  BY Kinds DEF Inv, BootCheck
<1>2. PICK l \in {"up", "backoff"} :
        pc' = [pc EXCEPT ![Boot] = l] /\ (l = "backoff" => tries[Boot] # BootTries)
  BY DEF BootCheck, Goto
<1>3. Typed'
  <2>1. pc' \in [Procs -> Places]
    BY <1>1, <1>2 DEF Typed, Places
  <2> QED
    BY <1>1, <2>1 DEF Typed, table
<1>4. pc'[Boot] = l /\ \A p \in Procs \ {Boot} : pc'[p] = pc[p]
  BY <1>1, <1>2 DEF Typed
<1>5. ASSUME NEW p \in Procs PROVE Placed(p)'
  <2>1. CASE p = Boot
    <3>1. tries[Boot] \in Nat /\ BootTries \in Nat
      BY <1>1, Kinds DEF Typed
    <3> QED
      BY <1>1, <1>2, <1>4, <2>1, <3>1, Kinds DEF Placed
  <2>2. CASE p # Boot
    BY <1>1, <1>4, <2>2 DEF Inv, Placed
  <2> QED
    BY <2>1, <2>2
<1>6. Booting'
  BY <1>1, <1>4, Kinds DEF Booting
<1> QED
  BY <1>1, <1>3, <1>4, <1>5, <1>6, AsideInv

LEMMA StartSecondaryStep ==
    ASSUME Inv, StartSecondary
    PROVE  Inv'
<1>1. /\ Typed /\ Booting /\ pc[Boot] = "up"
      /\ status' = [b \in Backends |-> IF b \in Secondaries THEN "connecting" ELSE status[b]]
      /\ UNCHANGED <<table, timer, tries, cur, pos, pings, closing, failed>>
  BY DEF Inv, StartSecondary
<1>2. PICK loop \in [Secondaries -> Loops] :
        /\ pc' = [p \in Procs |-> IF p = Boot THEN "done"
                                  ELSE IF p \in {loop[b] : b \in Secondaries} THEN "connect" ELSE pc[p]]
        /\ be' = [p \in Procs |-> IF \E b \in Secondaries : loop[b] = p
                                  THEN CHOOSE b \in Secondaries : loop[b] = p ELSE be[p]]
  BY DEF StartSecondary
<1>3. ASSUME NEW p \in Procs
      PROVE  \/ p = Boot /\ pc'[p] = "done" /\ be'[p] = be[p]
             \/ p \in Loops /\ pc'[p] = "connect" /\ be'[p] \in Backends
             \/ p # Boot /\ pc'[p] = pc[p] /\ be'[p] = be[p]
  <2>1. CASE \E b \in Secondaries : loop[b] = p
    <3>1. be'[p] \in Secondaries /\ p \in Loops /\ pc'[p] = "connect"
      BY <1>2, <2>1, Kinds
    <3> QED
      BY <3>1, Kinds
  <2>2. CASE ~ \E b \in Secondaries : loop[b] = p
    BY <1>2, <2>2, Kinds
  <2> QED
    BY <2>1, <2>2
<1>4. Typed'
  <2>1. pc' \in [Procs -> Places]
    BY <1>1, <1>2 DEF Typed, Places
  <2>2. be' \in [Procs -> Backends \union {Nowhere}]
    <3>1. \A p \in Procs : be'[p] \in Backends \union {Nowhere}
      BY <1>1, <1>3 DEF Typed
    <3> QED
      BY <1>2, <3>1
  <2>3. status' \in [Backends -> States]
    BY <1>1 DEF Typed, States
  <2> QED
    BY <1>1, <2>1, <2>2, <2>3 DEF Typed, table
<1>5. ASSUME NEW p \in Procs PROVE Placed(p)'
  BY <1>1, <1>3, Kinds DEF Inv, Placed
<1>6. Booting'
  BY <1>1, <1>3, Kinds DEF Booting
<1>7. \A p \in Procs : pc[p] = "list" => pc'[p] = "list" /\ be'[p] = be[p]
  BY <1>1, <1>3, Kinds DEF Booting
<1> QED
  BY <1>1, <1>4, <1>5, <1>6, <1>7, AsideInv

-----------------------------------------------------------------------------
(* Health checks and the status page leave the entries alone.                   *)
LEMMA PingStep ==
    ASSUME Inv, (\E b \in Backends : Ping(b) \/ PingOk(b)) \/ GetStatus
    PROVE  Inv'
<1>1. Typed /\ Booting /\ MaxPings \in Nat
  BY Kinds DEF Inv
<1>2. UNCHANGED <<table, timer, procs, closing, failed>>
  BY DEF Ping, PingOk, GetStatus
<1>3. status' \in [Backends -> States] /\ pings' \in [Backends -> 0..MaxPings]
      /\ (pc[Boot] # "done" => pings' = pings)
  <2>1. CASE \E b \in Backends : Ping(b)
    <3>1. PICK b \in Backends : Ping(b)
      BY <2>1
    <3>2. pings[b] \in Nat /\ pings[b] < MaxPings /\ pings' = [pings EXCEPT ![b] = @ + 1]
          /\ status' = status /\ timer[b]
      BY <1>1, <3>1 DEF Ping, Typed
    <3>3. pings[b] + 1 \in 0..MaxPings
      BY <1>1, <3>2
    <3> QED
      BY <1>1, <3>2, <3>3 DEF Typed, Booting
  <2>2. CASE \E b \in Backends : PingOk(b)
    <3>1. PICK b \in Backends : PingOk(b)
      BY <2>2
    <3>2. pings[b] \in 0..MaxPings /\ pings[b] > 0 /\ pings' = [pings EXCEPT ![b] = @ - 1]
          /\ status' = [status EXCEPT ![b] = "connected"]
      BY <1>1, <3>1 DEF PingOk, SetStatus, Typed
    <3>3. pings[b] - 1 \in 0..MaxPings
      BY <1>1, <3>2
    <3> QED
      BY <1>1, <3>2, <3>3 DEF Typed, Booting, States
  <2>3. CASE GetStatus
    BY <1>1, <2>3 DEF GetStatus, Typed, States
  <2> QED
    BY <2>1, <2>2, <2>3
<1>4. Typed'
  BY <1>1, <1>2, <1>3 DEF Typed, table, procs
<1>5. Booting' /\ \A p \in Procs : Placed(p)'
  BY <1>1, <1>2, <1>3 DEF Inv, Booting, Placed, procs
<1> QED
  BY <1>2, <1>4, <1>5, AsideInv DEF procs

(* A ping that fails takes the entry away; the loop that starts was idle.       *)
LEMMA PingFailStep ==
    ASSUME Inv, NEW b \in Backends, PingFail(b)
    PROVE  Inv'
<1>1. /\ Typed /\ Booting /\ pings[b] \in 0..MaxPings /\ pings[b] > 0
      /\ pings' = [pings EXCEPT ![b] = @ - 1] /\ stamp' = [stamp EXCEPT ![b] = 0]
      /\ timer' = [timer EXCEPT ![b] = FALSE] /\ failed' = failed \union {b}
      /\ UNCHANGED <<stamps, route, listed, cur, pos, closing>>
      /\ MaxPings \in Nat /\ MaxTries \in Nat \ {0} /\ stamps \in Nat
  BY Kinds DEF Inv, PingFail, DropEntry, Typed
<1>2. pc[Boot] = "done"
  BY <1>1 DEF Booting
<1>3. \/ UNCHANGED <<pc, be, tries>> /\ \E s \in States : status' = [status EXCEPT ![b] = s]
      \/ \E p \in Loops :
           /\ pc[p] = "idle" /\ pc' = [pc EXCEPT ![p] = "connect"]
           /\ be' = [be EXCEPT ![p] = b] /\ tries' = [tries EXCEPT ![p] = 0]
           /\ \E s \in States : status' = [status EXCEPT ![b] = s]
  BY DEF PingFail, SetStatus, Goto, States
<1>4. \A p \in Procs :
        \/ pc'[p] = pc[p] /\ be'[p] = be[p] /\ tries'[p] = tries[p]
        \/ p \in Loops /\ pc[p] = "idle" /\ pc'[p] = "connect" /\ be'[p] = b /\ tries'[p] = 0
  BY <1>1, <1>3, Kinds DEF Typed
<1>5. Typed'
  <2>1. /\ pc' \in [Procs -> Places] /\ be' \in [Procs -> Backends \union {Nowhere}]
        /\ tries' \in [Procs -> Nat] /\ status' \in [Backends -> States]
    BY <1>1, <1>3 DEF Typed, Places
  <2>2. stamp' \in [Backends -> Nat] /\ (\A c \in Backends : stamp'[c] <= stamps')
    BY <1>1 DEF Typed
  <2>3. pings' \in [Backends -> 0..MaxPings]
    <3>1. pings[b] - 1 \in 0..MaxPings
      BY <1>1
    <3> QED
      BY <1>1, <3>1 DEF Typed
  <2> QED
    BY <1>1, <2>1, <2>2, <2>3 DEF Typed
<1>6. ASSUME NEW p \in Procs PROVE Placed(p)'
  BY <1>1, <1>4, Kinds DEF Inv, Placed
<1>7. Booting'
  BY <1>1, <1>2, <1>4, Kinds DEF Booting
<1>8. stamp'[b] = 0 /\ \A c \in Backends \ {b} : stamp'[c] = stamp[c] /\ timer'[c] = timer[c]
  BY <1>1 DEF Typed
<1>9. Distinct'
  BY <1>8 DEF Inv, Distinct
<1>10. Reached'
  <2> SUFFICES ASSUME NEW c \in Backends, stamp'[c] > 0, c \notin failed', ~ Offered(c)'
               PROVE  \E p \in Procs : Pending(c, p)'
    BY DEF Reached
  <2>1. c # b /\ stamp'[c] = stamp[c] /\ ~ Offered(c) /\ c \notin failed
    BY <1>1, <1>8 DEF Offered
  <2>2. PICK p \in Procs : Pending(c, p)
    BY <2>1 DEF Inv, Reached
  <2> QED
    BY <1>1, <1>4, <2>1, <2>2 DEF Pending
<1>11. Watched'
  <2> SUFFICES ASSUME closing = "no", NEW c \in Secondaries, stamp'[c] > 0, ~ timer'[c]
               PROVE  \E p \in Loops : be'[p] = c /\ pc'[p] = "list"
    BY <1>1 DEF Watched
  <2>1. c \in Backends /\ c # b /\ stamp[c] > 0 /\ ~ timer[c]
    BY <1>8, Kinds
  <2>2. PICK p \in Loops : be[p] = c /\ pc[p] = "list"
    BY <2>1 DEF Inv, Watched
  <2> QED
    BY <1>4, <2>2, Kinds
<1> QED
  BY <1>5, <1>6, <1>7, <1>9, <1>10, <1>11 DEF Inv

LEMMA ShutdownStep ==
    ASSUME Inv, DisconnectAll \/ Disconnected
    PROVE  Inv'
<1>1. /\ Typed /\ Booting /\ pc[Boot] = "done" /\ closing' \in {"closing", "closed"}
      /\ UNCHANGED <<stamps, status, procs, pings, failed>>
      /\ \/ UNCHANGED table
         \/ /\ stamp' = [b \in Backends |-> 0] /\ route' = [t \in Tools |-> Nowhere]
            /\ listed' = [b \in Backends |-> 0]
      /\ timer' \in [Backends -> BOOLEAN]
  BY DEF Inv, Typed, Booting, DisconnectAll, Disconnected, table
<1>2. Typed'
  BY <1>1, Kinds DEF Typed, table, procs
<1>3. (\A p \in Procs : Placed(p)') /\ Booting' /\ Watched'
  BY <1>1 DEF Inv, Placed, Booting, Watched, procs
<1>4. Distinct' /\ Reached'
  <2>1. CASE UNCHANGED table
    BY <1>1, <2>1 DEF Inv, Distinct, Reached, Offered, Pending, table, procs
  <2>2. CASE stamp' = [b \in Backends |-> 0]
    BY <2>2 DEF Distinct, Reached
  <2> QED
    BY <1>1, <2>1, <2>2
<1> QED
  BY <1>2, <1>3, <1>4 DEF Inv

(* The invariant of the bridge: the three theorems below follow from it.        *)
THEOREM InvTheorem == Spec => []Inv
<1>1. Inv /\ [Next]_vars => Inv'
  <2> SUFFICES ASSUME Inv, Next PROVE Inv'
    BY StutterInv
  <2>1. CASE BootStep
    BY <2>1, BootConnectStep, BootSettledStep, BootCheckStep, StartSecondaryStep DEF BootStep
  <2>2. ASSUME NEW p \in Procs, Answer(p) \/ Wake(p) PROVE Inv'
    BY <2>2, ListStep, ConnectOkStep, ConnectFailStep DEF Answer
  <2>3. CASE (\E b \in Backends : Ping(b) \/ PingOk(b)) \/ GetStatus
    BY <2>3, PingStep
  <2>4. ASSUME NEW b \in Backends, PingFail(b) PROVE Inv'
    BY <2>4, PingFailStep
  <2>5. CASE DisconnectAll \/ Disconnected
    BY <2>5, ShutdownStep
  <2> QED
    BY <2>1, <2>2, <2>3, <2>4, <2>5 DEF Next
<1> QED
  BY InitInv, <1>1, PTL DEF Spec

(* Every variable has its type: connectPrimary makes BootTries attempts at most,
   and a loop never counts as many attempts as maxRetries without giving up
   (bridge.ts, connectPrimary and _connectWithRetry).                           *)
THEOREM TypeTheorem == Spec => []TypeOK
<1>1. Inv => TypeOK
  <2> SUFFICES ASSUME Inv PROVE TypeOK
    OBVIOUS
  <2>1. Typed /\ stamps \in Nat
    BY Kinds DEF Inv, Typed
  <2>2. stamp \in [Backends -> 0..stamps] /\ pos \in [Procs -> 0..stamps]
    <3>1. \A b \in Backends : stamp[b] \in 0..stamps
      BY <2>1 DEF Typed
    <3>2. \A p \in Procs : pos[p] \in 0..stamps
      BY <2>1 DEF Typed
    <3> QED
      BY <2>1, <3>1, <3>2 DEF Typed
  <2>3. tries[Boot] <= BootTries /\ \A p \in Loops : tries[p] < MaxTries
    BY Kinds DEF Inv, Placed
  <2> QED
    BY <2>1, <2>2, <2>3 DEF Typed, Places, States, TypeOK
<1> QED
  BY <1>1, InvTheorem, PTL

(* Until shutdown a connected secondary has its health timer or a loop that will
   start it, however many pings and loops overlap (_connectWithRetry, _ping).   *)
THEOREM WatchedTheorem == Spec => []ConnectedIsWatched
<1>1. Inv => ConnectedIsWatched
  BY DEF Inv, Watched, ConnectedIsWatched, Busy
<1> QED
  BY <1>1, InvTheorem, PTL

(* With no refresh in flight the tools of every connected backend that answered
   its last request are listed and routed, for any number of backends and
   overlapping refreshes (refreshToolRoutes).                                   *)
THEOREM QuietTheorem == Spec => []QuietRoutesComplete
<1>1. Inv => QuietRoutesComplete
  BY DEF Inv, Reached, Offered, Pending, QuietRoutesComplete
<1> QED
  BY <1>1, InvTheorem, PTL
=============================================================================
